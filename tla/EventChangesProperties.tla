----------------------- MODULE EventChangesProperties -----------------------
(***************************************************************************)
(* What a batch of event changes promises (tools/events.rs: VERSIONS, and  *)
(* BATCHES ARE CHECKED WHOLE).                                             *)
(***************************************************************************)
EXTENDS EventChanges

WroteAs(version) == \E w \in before.wrote : w[2] = version
\* Written by another since the client read it: it, or its series.
Moved(version, read) == version # read /\ ~WroteAs(version)
Others(id) == Moved(calendar.events[id].version, asked.read.events[id].version)
ChangedSince(id) == Others(id) \/ (id \in Instances /\ Moved(calendar.series, asked.read.series))
Wrote(id) == \E w \in before.wrote : w[1] = id

\* An event is written only as the client read it: never over what's been
\* done to it elsewhere since, though a write to one instance moves its
\* series' version on, and the rest are written again onto a version the
\* client never saw (apply: "the instance otherwise just as it was checked").
\* What a batch of its own wrote before may be written over.
WrittenOver(c, d) ==
    {id \in Events : c.events[id] # d.events[id] /\ c.events[id].status # "absent"}
OntoWhatWasRead == [][
    \A id \in WrittenOver(calendar, calendar') :
        step \in {"writing", "again"} /\ edits' = edits => Same(calendar.events[id], asked.read.events[id])]_eventVars

\* Checked on an up to date calendar that nobody edits until it's done, a
\* batch leaves no event it makes or moves over another, and history as it
\* was, but for an end: all of it together, and when it's sent again half
\* made too.
NoneOver(c) == \A id \in {asked.batch[k].id : k \in DOMAIN asked.batch} :
    LET e == c.events[id]
        read == asked.read.events[id]
    IN  Live(e) /\ <<e.start, e.end>> # <<read.start, read.end>> =>
            \A other \in Events \ {id} : Live(c.events[other]) => ~Overlap(e, c.events[other])
HistoryKept(c) == \A id \in Events :
    LET e == asked.read.events[id]
        f == c.events[id]
    IN  /\ Live(e) /\ e.start < Guard => Same(e, f) \/ OnlyRunsOn(e, f)
        /\ Live(f) /\ f.start < Guard => Live(e) /\ e.start < Guard
NobodyElse == \A id \in Events : ~Others(id)
BatchesFit == answer = "made" /\ step = "none" /\ NobodyElse => NoneOver(calendar) /\ HistoryKept(calendar)

\* What the client's told is so. Told it's made, each change is -- made by
\* this sending or one before -- unless it's been edited elsewhere since,
\* and a cancel that counts is recorded, unless a sending stopped between
\* the cancel and its record. Told an event is stale, it was edited
\* elsewhere, or an earlier sending wrote to its series.
AnswersSo == step = "none" =>
    /\ answer = "made" => \A k \in DOMAIN asked.batch :
          LET change == asked.batch[k]
          IN  /\ ChangedSince(change.id) \/ Done(change, calendar.events[change.id])
              /\ change.do = "cancel" /\ change.counts /\ Wrote(change.id) =>
                    change.id \in recorded \/ change.id \in before.unrecorded
    /\ answer = "stale" => \A id \in stale :
          ChangedSince(id) \/ Wrote(id) \/ (id \in Instances /\ \E other \in Instances : Wrote(other))
=============================================================================
