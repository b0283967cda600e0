--------------------- MODULE CompactionRoundsProperties ---------------------
(***************************************************************************)
(* What compactions one after another keep.                                *)
(***************************************************************************)
EXTENDS CompactionRounds

\* What an earlier compaction settled, a later one keeps to: an event it
\* recorded starts when it did and goes on at least as long, and is there --
\* however it's kept, merged into, revisited for a note written late, or
\* planned again after a write failed -- unless Claude was told it may change
\* history, or it's changed elsewhere (README: "A later compaction keeps to
\* what an earlier one settled").
HistoryStays == [][
    \A k \in DOMAIN settled :
        rounds' # rounds \/ (round.at = "proposed" /\ round'.at = "failed" /\ k # round'.gone) =>
            \/ k \in Freed(round.ask.decisions)
            \/ /\ k \in DOMAIN agenda'
               /\ agenda'[k].start = settled[k].start /\ agenda'[k].end >= settled[k].until]_roundVars

\* Nothing's moved to make room: no compaction leaves one event over another
\* that weren't so already, or merged of ones that were -- not over those it
\* wasn't offered either, before its span or after (README: "Nothing is moved
\* to make room"; cut, check_before_window).
Became(k) == {k} \cup {d.id : d \in {m \in round.ask.decisions : m.do = "merge" /\ m.into = k}}
NothingCovered == [][
    rounds' # rounds => \A j, k \in DOMAIN agenda' :
        j # k /\ Overlaps(agenda'[j], agenda'[k]) =>
            \E was \in (Became(j) \X Became(k)) :
                {was[1], was[2]} \subseteq DOMAIN agenda /\ Overlaps(agenda[was[1]], agenda[was[2]])]_roundVars

\* No note's lost: a compaction takes in all those there are up to when it
\* stamps, ones written late too; and the text of each it takes in ends up
\* with an event that, as the calendar's left, was on when the note was
\* written, if any was, or one it's said to be about, and no other (a revision
\* that couldn't be written may have put it with one before) -- unless Claude
\* said it's to be left out, or was told it may change the event that was on
\* though it's history.
LeftOut(ask, n) == n \in ask.ignored \/ \E d \in ask.decisions : d.description.dropsAll \/ n \in d.description.drops
About(ask, n) == {ask.targets[m] : m \in DOMAIN ask.targets \cap {n}}
    \cup {d.id : d \in {e \in ask.decisions : n \in {e.startNote, e.endNote}}}
    \cup {d.id : d \in {e \in ask.decisions : n \in e.description.lines}}
Rewritten(ask, t) == t < last /\ \E k \in Freed(ask.decisions) \cap DOMAIN agenda : agenda[k].start <= t /\ t < agenda[k].end
NotesTakenIn == [][
    rounds' # rounds => \A n \in DOMAIN jotted :
        jotted[n].at <= last' /\ ~jotted[n].stamped =>
            \E with \in {{k \in DOMAIN agenda' : n \in agenda'[k].lines}} :
            \E already \in {{k \in DOMAIN agenda : n \in agenda[k].lines}} :
            \E on \in {{k \in DOMAIN agenda' : agenda'[k].start <= jotted[n].at /\ jotted[n].at <= agenda'[k].end}} :
                /\ jotted'[n].stamped
                /\ with \subseteq on \cup already \cup About(round.ask, n)
                /\ jotted[n].says /\ (\E k \in on : jotted[n].at < agenda'[k].end) =>
                       with # {} \/ LeftOut(round.ask, n) \/ Rewritten(round.ask, jotted[n].at)]_roundVars

\* What couldn't be written is planned again whole: made as planned, what's
\* left of a revision one of whose events is gone comes, with what was written
\* of it, to what was confirmed -- but for that event and its notes, and for
\* merges, half of which may be written (docs/compaction-proposals.md: "The
\* new revision replays the decisions").
Merging(ask) == UNION {{d.id, d.into} : d \in {m \in ask.decisions : m.do = "merge"}}
ReplaysWhole == [][
    round.at = "failed" /\ round'.at = "proposed" =>
        \E replayed \in {With(round', Changed(round'))} :
            \A k \in (DOMAIN replayed \cup DOMAIN round.whole) \ ({round.gone} \cup Merging(round.from)) :
                /\ k \in DOMAIN replayed \cap DOMAIN round.whole
                /\ [replayed[k] EXCEPT !.lines = {}] = [round.whole[k] EXCEPT !.lines = {}]
                /\ round.whole[k].lines \subseteq replayed[k].lines]_roundVars

\* What the user reviews is what's written: the timeline shows every event
\* that's changed, the ones that go as cancelled or merged, and merged only if
\* what they're merged into takes in their time; the ones moved as adjusted,
\* and nothing as happened on schedule that isn't over (timeline_of: what
\* propose_compaction shows the user to confirm).
ShownIsWritten ==
    round.at = "proposed" =>
        \A k \in Changed(round) \cup DOMAIN round.shown :
            LET is(status) == round.shown[k] = status
                stays == k \in DOMAIN round.q.events \cap DOMAIN round.events
                moved == stays /\ <<round.events[k].start, round.events[k].end>> # <<round.q.events[k].start, round.q.events[k].end>>
            IN  /\ k \in DOMAIN round.shown
                /\ (is("cancelled") \/ is("merged")) <=> k \notin DOMAIN round.events
                /\ is("merged") => \E j \in DOMAIN round.events :
                       round.events[j].start <= round.q.events[k].start /\ round.q.events[k].end <= round.events[j].end
                /\ is("new") <=> k \notin DOMAIN round.q.events
                /\ is("adjusted") <=> moved
                /\ is("on_schedule") => round.events[k].end <= round.q.now
=============================================================================
