-------------------------- MODULE CompactionApply --------------------------
(***************************************************************************)
(* How a compaction proposal is put to the user and applied: the journal's *)
(* revisions (stores/journal.rs), the calls that move them on              *)
(* (compaction/compactor.rs: dry_run, confirm, finish, abandon and, inside *)
(* them, commit, apply_steps, rebuild and needs_claude), the notes they    *)
(* stamp and the Cancellations tab they write.                             *)
(*                                                                         *)
(* Every tool that writes holds WRITE_LOCK for its whole call              *)
(* (tools/mod.rs), so there is at most one call under way: `call`.  Each   *)
(* write to Google is an action of its own, so the server can stop, or be  *)
(* refused, between any two of them, and the user can change the calendar  *)
(* or write a note meanwhile.                                              *)
(*                                                                         *)
(* A decision is about target t, an element of Targets: it updates or      *)
(* cancels an event the calendar has, or creates one.  A revision's steps  *)
(* are made in the order of their targets: as planned, its cancels first,  *)
(* then its updates, then its creates.                                     *)
(***************************************************************************)
EXTENDS Integers, FiniteSets, Sequences

CONSTANTS
    Decisions,     \* what there is to decide, in step order: each "update", "create" or "cancel"
    NoteCount,     \* how many notes the user may write; note n is in row n of its tab
    BatchSize,     \* how many writes a batch to Calendar holds (BATCH_SIZE)
    MaxRevisions,  \* bound: how many revisions Claude, or a recheck, may add to the journal
    MaxStops,      \* bound: how often a call stops partway (a crash, a refusal, an answer lost)
    MaxEdits,      \* bound: how often the user changes the calendar elsewhere
    MaxPurges      \* bound: how many events come to answer 404 or 410

ASSUME DecisionsAssumption == Decisions \in Seq({"update", "create", "cancel"})
ASSUME BoundsAssumption ==
    /\ NoteCount \in Nat /\ BatchSize \in Nat \ {0} /\ MaxRevisions \in Nat
    /\ MaxStops \in Nat /\ MaxEdits \in Nat /\ MaxPurges \in Nat

Targets == 1..Len(Decisions)
Of(kind) == {t \in Targets : Decisions[t] = kind}
Notes == 1..NoteCount

\* A rebuilt revision is written whatever the bound on the others.
Revisions == 1..(MaxRevisions + MaxPurges)

\* An event's id: a create's is made of its revision's id and its step
\* (new_event_id); any other was the calendar's before.
EventOf(r, t) == IF t \in Of("create") THEN <<r, t>> ELSE <<0, t>>
Ids == {<<0, t>> : t \in Targets \ Of("create")} \cup (Revisions \X Of("create"))

VARIABLES
    cal,       \* Google Calendar: each event's times and fields (val), status and etag
    journal,   \* the Compaction Journal tab: every revision, oldest first
    waiting,   \* the proposals with feedback open for Claude
    note,      \* the notes tab: whether each note is unwritten, there or deleted
    stampedBy, \* the compaction_id column of each note: the revision, or 0
    cancelled, \* the cancels the Cancellations tab has
    kept,      \* what else applying wrote: <<revision, "additions" | "logs" | "goals">>
    call,      \* the call under way
    made,      \* history: the <<revision, target>> writes Calendar took from the server
    stops, edits, purges

vars == <<cal, journal, waiting, note, stampedBy, cancelled, kept, call, made, stops, edits, purges>>
budgets == <<stops, edits, purges>>

----------------------------------------------------------------------------
(* Types *)

Values == {"none", "planned", "wanted", "outside"}
Statuses == {"absent", "live", "cancelled", "gone"}
Event == [val : Values, status : Statuses, etag : Nat]

RevisionStatus == {"proposed", "superseded", "applying", "applied", "stamped", "failed", "abandoned"}
OpenStatusesOfProposed == {"proposed", "applying", "applied"}  \* mutant: one not confirmed is open
OpenStatusesOfApplying == {"applying"}  \* mutant: one applied but not stamped isn't open
OpenStatuses == {"applying", "applied"}
FinishedStatuses == {"stamped", "abandoned", "superseded"}
Reasons == {"proposed", "revised", "recheck", "apply failed"}

\* A revision: Claude's decisions, which of them are settled already (a
\* create's alias, a cancel made), the steps they come to (planned), each
\* one's event before, which steps are marked done, and the notes of its window.
Revision == [proposal : Nat, status : RevisionStatus, reason : Reasons,
             decided : SUBSET Targets, settled : SUBSET Targets,
             planned : SUBSET Targets, before : [Targets -> Values],
             done : SUBSET Targets, notes : SUBSET Notes]

Steps == {"idle", "supersede", "answer", "begin", "additions", "prepare", "send", "mark",
          "cancellations", "logs", "goals", "applied", "stamp", "stamped",
          "record made", "fail", "rebuild"}
Answers == {"none", "ok", "stale", "gone", "error"}

\* rev: the revision it's about; read: the calendar as its reads had it;
\* left: steps still to send; answer: Calendar's to each; why: the failure
\* that stopped it; to: the notes still to stamp.
Call == [pc : Steps, rev : Nat, read : [Ids -> Event], left : SUBSET Targets,
         answer : [Targets -> Answers], why : Answers, to : SUBSET Notes]

TypeOK ==
    /\ cal \in [Ids -> Event]
    /\ journal \in Seq(Revision)
    /\ waiting \in SUBSET Nat
    /\ note \in [Notes -> {"unwritten", "there", "deleted"}]
    /\ stampedBy \in [Notes -> Nat]
    /\ cancelled \in SUBSET Targets
    /\ kept \in SUBSET (Nat \X {"additions", "logs", "goals"})
    /\ call \in Call
    /\ made \in SUBSET (Nat \X Targets)
    /\ stops \in Nat /\ edits \in Nat /\ purges \in Nat

Idle == [pc |-> "idle", rev |-> 0, read |-> [e \in Ids |-> [val |-> "none", status |-> "absent", etag |-> 0]],
         left |-> {}, answer |-> [t \in Targets |-> "none"], why |-> "none", to |-> {}]

Init ==
    /\ cal = [e \in Ids |-> IF e[1] = 0 THEN [val |-> "planned", status |-> "live", etag |-> 0]
                                        ELSE [val |-> "none", status |-> "absent", etag |-> 0]]
    /\ journal = <<>>
    /\ waiting = {}
    /\ note = [n \in Notes |-> "unwritten"]
    /\ stampedBy = [n \in Notes |-> 0]
    /\ cancelled = {}
    /\ kept = {}
    /\ call = Idle
    /\ made = {}
    /\ stops = 0 /\ edits = 0 /\ purges = 0

----------------------------------------------------------------------------
(* The journal *)

Rows == DOMAIN journal
Proposals == {journal[r].proposal : r \in Rows}

\* A proposal's current revision is its newest.
IsCurrent(r) == \A q \in Rows : journal[q].proposal = journal[r].proposal => q <= r

\* The open proposal: one whose current revision isn't finished.
Open(r) == IsCurrent(r) /\ journal[r].status \notin FinishedStatuses
NoneApplying == \A r \in Rows : journal[r].status # "applying"  \* mutant: misses one applied, not stamped
NoOpenCompaction == \A r \in Rows : journal[r].status \notin OpenStatuses

SetStatus(r, status) == journal' = [journal EXCEPT ![r].status = status]

----------------------------------------------------------------------------
(* Planning *)

\* The steps deciding d comes to, on calendar c: an event that's already as
\* decided needs none.
Changes(d, c) == {t \in d : t \in Of("update") => c[<<0, t>>].val # "wanted"}

\* Whether d can be planned on c: every event it names is there, and no
\* event it creates would overlap one made for the same decision.
Plannable(d, c) ==
    /\ \A t \in d \ Of("create") : c[<<0, t>>].status = "live"
    /\ \A t \in d \cap Of("create"), r \in Revisions :
           ~(c[<<r, t>>].status = "live" /\ c[<<r, t>>].val = "wanted")

\* mutant: no before at all for what isn't decided
BeforeOfDecided(d, c) == [t \in d |-> IF t \in Of("create") THEN "none" ELSE c[<<0, t>>].val]
\* Each step's event before it.
Before(d, c) == [t \in Targets |-> IF t \in Changes(d, c) \ Of("create") THEN c[<<0, t>>].val ELSE "none"]

\* The uncompacted notes.
Window == {n \in Notes : note[n] = "there" /\ stampedBy[n] = 0}

\* A revision of proposal p deciding d, as planned on the calendar now.
Plan(p, reason, d, settled) ==
    [proposal |-> p, status |-> "proposed", reason |-> reason, decided |-> d, settled |-> settled,
     planned |-> Changes(d, cal), before |-> Before(d, cal), done |-> {}, notes |-> Window]

\* Whether revision r, planned again now, comes to the same steps and notes.
ReplansTheSame(r) ==
    /\ Plannable(journal[r].decided, cal)
    /\ Changes(journal[r].decided, cal) = journal[r].planned
    /\ Before(journal[r].decided, cal) = journal[r].before
    /\ Window = journal[r].notes

\* What a stamped compaction decided is history: no later proposal's.
History == UNION {journal[r].decided \cup journal[r].settled : r \in {q \in Rows : journal[q].status = "stamped"}}

----------------------------------------------------------------------------
(* Claude proposes, and revises: compact_notes *)

Propose(d) ==
    /\ call = Idle /\ NoOpenCompaction
    /\ \A r \in Rows : ~Open(r)
    /\ Len(journal) < MaxRevisions
    /\ d \cap History = {} /\ Plannable(d, cal)
    /\ Changes(d, cal) # {} \/ Window # {}
    /\ journal' = Append(journal, Plan(Len(journal) + 1, "proposed", d, {}))
    /\ UNCHANGED <<cal, waiting, note, stampedBy, cancelled, kept, call, made, budgets>>

\* The new revision is written first, then the old one superseded, then the
\* feedback Claude answered marked so -- each its own write.
Revise(r, d) ==
    /\ call = Idle /\ NoOpenCompaction
    /\ Open(r) /\ Len(journal) < MaxRevisions
    /\ d \cap (History \cup journal[r].settled) = {} /\ Plannable(d, cal)
    /\ journal' = Append(journal, Plan(journal[r].proposal, "revised", d, journal[r].settled))
    /\ call' = [Idle EXCEPT !.rev = r,
                            !.pc = IF journal[r].status = "proposed" THEN "supersede" ELSE "answer"]
    /\ UNCHANGED <<cal, waiting, note, stampedBy, cancelled, kept, made, budgets>>

Supersede ==
    /\ call.pc = "supersede"
    /\ SetStatus(call.rev, "superseded")
    /\ call' = IF journal[Len(journal)].reason = "revised" THEN [call EXCEPT !.pc = "answer"] ELSE Idle
    /\ UNCHANGED <<cal, waiting, note, stampedBy, cancelled, kept, made, budgets>>

AnswerFeedback ==
    /\ call.pc = "answer"
    /\ waiting' \in {waiting, waiting \ {journal[call.rev].proposal}}
    /\ call' = Idle
    /\ UNCHANGED <<cal, journal, note, stampedBy, cancelled, kept, made, budgets>>

----------------------------------------------------------------------------
(* The user confirms: confirm_proposal *)

Confirmable(r) ==
    /\ call = Idle /\ NoOpenCompaction
    /\ Open(r) /\ journal[r].status = "proposed"
    /\ journal[r].proposal \notin waiting

Confirm(r) ==
    /\ Confirmable(r) /\ ReplansTheSame(r)
    /\ call' = [Idle EXCEPT !.pc = "begin", !.rev = r, !.read = cal]
    /\ UNCHANGED <<cal, journal, waiting, note, stampedBy, cancelled, kept, made, budgets>>

Recheck(r) ==
    /\ Confirmable(r) /\ ~ReplansTheSame(r)
    /\ Plannable(journal[r].decided, cal) /\ Len(journal) < MaxRevisions
    /\ journal' = Append(journal, Plan(journal[r].proposal, "recheck", journal[r].decided, journal[r].settled))
    /\ call' = [Idle EXCEPT !.pc = "supersede", !.rev = r]
    /\ UNCHANGED <<cal, waiting, note, stampedBy, cancelled, kept, made, budgets>>

NeedsClaude(r) ==
    /\ Confirmable(r) /\ ~Plannable(journal[r].decided, cal)
    /\ waiting' = waiting \cup {journal[r].proposal}
    /\ UNCHANGED <<cal, journal, note, stampedBy, cancelled, kept, call, made, budgets>>

\* finish_proposal -- and confirm_proposal sent again for a revision that's
\* being applied already -- resumes without planning again.
Finish(r) ==
    /\ call = Idle
    /\ IsCurrent(r) /\ journal[r].status \in OpenStatuses
    /\ call' = [Idle EXCEPT !.pc = "additions", !.rev = r, !.read = cal]
    /\ UNCHANGED <<cal, journal, waiting, note, stampedBy, cancelled, kept, made, budgets>>

\* abandon_compaction takes a proposal's id, for its current revision, or
\* any revision's (a batch's id, which the refusals name).
Abandon(r) ==
    /\ call = Idle
    /\ journal[r].status \notin {"stamped", "abandoned"}
    /\ SetStatus(r, "abandoned")
    /\ UNCHANGED <<cal, waiting, note, stampedBy, cancelled, kept, call, made, budgets>>

----------------------------------------------------------------------------
(* Applying: commit *)

Begin ==
    /\ call.pc = "begin"
    /\ SetStatus(call.rev, "applying")
    /\ call' = [call EXCEPT !.pc = "additions"]
    /\ UNCHANGED <<cal, waiting, note, stampedBy, cancelled, kept, made, budgets>>

CreateAdditions ==
    /\ call.pc = "additions"
    /\ kept' = kept \cup {<<call.rev, "additions">>}
    /\ call' = [call EXCEPT !.pc = "prepare"]
    /\ UNCHANGED <<cal, journal, waiting, note, stampedBy, cancelled, made, budgets>>

\* An event as get_event gives it: as kept of the calendar, unless what's
\* kept is no longer live, when Calendar is asked.
Got(e) == IF call.read[e].status = "live" THEN call.read[e] ELSE cal[e]

\* mutant: trusts the version the calendar's kept at, comparing no fields
ChangedByVersion(r, pending) == {t \in pending \cap Of("update") : cal[<<0, t>>].etag # call.read[<<0, t>>].etag}
\* Updates whose event is now neither as planned from nor as planned.  The
\* docs (compaction-proposals.md:368-371) say finish writes over such a change;
\* the code refuses to.
ChangedSince(r, pending) ==
    {t \in pending \cap Of("update") : Got(<<0, t>>).val \notin {journal[r].before[t], "wanted"}}

Missing(pending) == {t \in pending \ Of("create") : Got(<<0, t>>).status = "gone"}

\* Every step's request is made, in order, before any is sent.  One whose
\* event isn't found stops the call there; one changed since stops the
\* steps from it on.
Prepare ==
    LET r       == call.rev
        pending == journal[r].planned \ journal[r].done
        changed == ChangedSince(r, pending)
        missing == Missing(pending)
    IN  /\ call.pc = "prepare"
        /\ call' = IF \E t \in missing : \A s \in changed : t < s
                   THEN [call EXCEPT !.pc = "record made"]
                   ELSE [call EXCEPT !.pc = "send",
                                     !.read = [e \in Ids |-> Got(e)],
                                     !.left = {t \in pending : \A s \in changed : t < s},
                                     !.why = IF changed = {} THEN "none" ELSE "stale"]
        /\ UNCHANGED <<cal, journal, waiting, note, stampedBy, cancelled, kept, made, budgets>>

\* The first steps left, as many as a batch holds: Calendar takes them in
\* any order.
Batch == {t \in call.left : Cardinality({s \in call.left : s < t}) < BatchSize}

Answer(t, answer) == call' = [call EXCEPT !.answer[t] = answer]

\* Any change of an event gives it another etag.
NewVersion(e, val, status) == [val |-> val, status |-> status, etag |-> cal[e].etag + 1]

\* A write made by the step of target t: a create makes its event -- or, made
\* before, is answered 409, as good as made.
WriteOf(t, e) ==
    IF t \in Of("create")
    THEN IF cal[e].status = "absent" THEN [val |-> "wanted", status |-> "live", etag |-> 1] ELSE cal[e]
    ELSE IF t \in Of("update")
    THEN NewVersion(e, "wanted", cal[e].status)
    ELSE NewVersion(e, cal[e].val, "cancelled")

\* If-Match: whether event e is still the version its write was made on.
Matches(e) == cal[e].etag = call.read[e].etag

CalendarTakes(t) ==
    LET e == EventOf(call.rev, t)
    IN  /\ call.pc = "send" /\ t \in Batch /\ call.answer[t] = "none"
        /\ t \in Of("create") \/ (cal[e].status # "gone" /\ Matches(e))
        /\ cal' = [cal EXCEPT ![e] = WriteOf(t, e)]
        /\ made' = made \cup {<<call.rev, t>>}
        /\ Answer(t, "ok")
        /\ UNCHANGED <<journal, waiting, note, stampedBy, cancelled, kept, budgets>>

\* Calendar refuses a write to an event that's gone (404, 410), or made to a
\* version older than the one it has (412).
CalendarRefuses(t) ==
    LET e == EventOf(call.rev, t)
    IN  /\ call.pc = "send" /\ t \in Batch \ Of("create") /\ call.answer[t] = "none"
        /\ \/ cal[e].status = "gone" /\ Answer(t, "gone")
           \/ cal[e].status # "gone" /\ ~Matches(e) /\ Answer(t, "stale")
        /\ UNCHANGED <<cal, journal, waiting, note, stampedBy, cancelled, kept, made, budgets>>

FailedForGood(ts) == {t \in ts : call.answer[t] = "gone"}  \* mutant: a version refused is taken as made
Failed(ts) == {t \in ts : call.answer[t] # "ok"}

\* A batch is answered whole: its first failure, in step order, is what the
\* call stops with, and no later batch is sent.
BatchAnswered ==
    LET rest == call.left \ Batch
    IN  /\ call.pc = "send" /\ \A t \in Batch : call.answer[t] # "none"
        /\ call' = [call EXCEPT
               !.left = rest,
               !.why = IF Failed(Batch) = {} THEN @
                       ELSE call.answer[CHOOSE t \in Failed(Batch) : \A s \in Failed(Batch) : t <= s],
               !.pc = IF Failed(Batch) # {} \/ (rest = {} /\ call.why # "none") THEN "mark"
                      ELSE IF rest = {} THEN "cancellations" ELSE "send"]
        /\ UNCHANGED <<cal, journal, waiting, note, stampedBy, cancelled, kept, made, budgets>>

\* The answer to a batch is lost: whichever of its writes were made aren't known.
BatchLost ==
    /\ call.pc = "send" /\ Batch # {} /\ stops < MaxStops
    /\ call' = [call EXCEPT !.pc = "mark", !.why = "error",
                            !.answer = [t \in Targets |-> IF t \in Batch THEN "none" ELSE call.answer[t]]]
    /\ stops' = stops + 1
    /\ UNCHANGED <<cal, journal, waiting, note, stampedBy, cancelled, kept, made, edits, purges>>

AnsweredAtAll == {t \in Targets : call.answer[t] # "none"}  \* mutant: marks the refused too
Answered == {t \in Targets : call.answer[t] = "ok"}

\* After a failure: the steps made are marked done.  A write that can never
\* succeed has the rest planned again; any other leaves it applying.
MarkDone ==
    /\ call.pc = "mark"
    /\ journal' = [journal EXCEPT ![call.rev].done = @ \cup Answered]
    /\ call' = IF call.why = "gone" THEN [call EXCEPT !.pc = "record made"] ELSE Idle
    /\ UNCHANGED <<cal, waiting, note, stampedBy, cancelled, kept, made, budgets>>

RecordCancellations ==
    /\ call.pc = "cancellations"
    /\ cancelled' = cancelled \cup (journal[call.rev].planned \cap Of("cancel"))
    /\ call' = [call EXCEPT !.pc = "logs"]
    /\ UNCHANGED <<cal, journal, waiting, note, stampedBy, kept, made, budgets>>

RecordLogs ==
    /\ call.pc = "logs"
    /\ kept' = kept \cup {<<call.rev, "logs">>}
    /\ call' = [call EXCEPT !.pc = "goals"]
    /\ UNCHANGED <<cal, journal, waiting, note, stampedBy, cancelled, made, budgets>>

\* A record refused: what was made is still marked done.
RecordRefused ==
    /\ call.pc \in {"cancellations", "logs"} /\ stops < MaxStops
    /\ call' = [call EXCEPT !.pc = "mark", !.why = "error"]
    /\ stops' = stops + 1
    /\ UNCHANGED <<cal, journal, waiting, note, stampedBy, cancelled, kept, made, edits, purges>>

MakeGoalChanges ==
    /\ call.pc = "goals"
    /\ kept' = kept \cup {<<call.rev, "goals">>}
    /\ call' = [call EXCEPT !.pc = "applied"]
    /\ UNCHANGED <<cal, journal, waiting, note, stampedBy, cancelled, made, budgets>>

\* The steps' marks and the revision's status, in one write.
MarkApplied ==
    LET notes == journal[call.rev].notes
    IN  /\ call.pc = "applied"
        /\ journal' = [journal EXCEPT ![call.rev].done = @ \cup Answered, ![call.rev].status = "applied"]
        /\ call' = [call EXCEPT !.to = notes, !.pc = IF notes = {} THEN "stamped" ELSE "stamp"]
        /\ UNCHANGED <<cal, waiting, note, stampedBy, cancelled, kept, made, budgets>>

\* mark_compacted refuses, writing nothing, unless every note is there and
\* no other compaction's; else it writes each run of neighbouring rows.
Stampable(r) == \A n \in journal[r].notes : note[n] = "there" /\ stampedBy[n] \in {0, r}

FirstRun(ns) == LET first == CHOOSE n \in ns : \A m \in ns : n <= m
                IN  {n \in ns : \A m \in first..n : m \in ns}

StampNotes ==
    LET run == FirstRun(call.to)
    IN  /\ call.pc = "stamp"
        /\ IF Stampable(call.rev)
           THEN /\ stampedBy' = [n \in Notes |-> IF n \in run THEN call.rev ELSE stampedBy[n]]
                /\ call' = [call EXCEPT !.to = @ \ run, !.pc = IF call.to = run THEN "stamped" ELSE @]
           ELSE call' = Idle /\ UNCHANGED stampedBy
        /\ UNCHANGED <<cal, journal, waiting, note, cancelled, kept, made, budgets>>

MarkStamped ==
    /\ call.pc = "stamped"
    /\ SetStatus(call.rev, "stamped")
    /\ call' = Idle
    /\ UNCHANGED <<cal, waiting, note, stampedBy, cancelled, kept, made, budgets>>

----------------------------------------------------------------------------
(* A write that can never succeed: rebuild *)

\* mutant: records what was settled before, not what's done now
RecordSettled ==
    /\ call.pc = "record made"
    /\ cancelled' = cancelled \cup (journal[call.rev].settled \cap Of("cancel"))
    /\ call' = [call EXCEPT !.pc = "fail"]
    /\ UNCHANGED <<cal, journal, waiting, note, stampedBy, kept, made, budgets>>

RecordMade ==
    /\ call.pc = "record made"
    /\ cancelled' = cancelled \cup (journal[call.rev].done \cap Of("cancel"))
    /\ call' = [call EXCEPT !.pc = "fail"]
    /\ UNCHANGED <<cal, journal, waiting, note, stampedBy, kept, made, budgets>>

Fail ==
    /\ call.pc = "fail"
    /\ SetStatus(call.rev, "failed")
    /\ call' = [call EXCEPT !.pc = "rebuild"]
    /\ UNCHANGED <<cal, waiting, note, stampedBy, cancelled, kept, made, budgets>>

\* What's carried over: not what's done and settled (a create, a cancel),
\* nor what names an event that's gone -- by Calendar as it is: what's kept of it,
\* which the code asks (known_ids), may lag.
Carried(r, settled) ==
    {t \in journal[r].decided \ settled : t \in Of("create") \/ cal[<<0, t>>].status = "live"}

\* What's settled once revision r has failed: the creates and cancels done.
SettledBy(r) == journal[r].settled \cup (journal[r].done \ Of("update"))

Rebuild ==
    LET r       == call.rev
        settled == SettledBy(r)
        d       == Carried(r, settled)
    IN  /\ call.pc = "rebuild"
        /\ IF Plannable(d, cal)
           THEN /\ journal' = Append(journal, Plan(journal[r].proposal, "apply failed", d, settled))
                /\ UNCHANGED waiting
           ELSE /\ waiting' = waiting \cup {journal[r].proposal}
                /\ UNCHANGED journal
        /\ call' = Idle
        /\ UNCHANGED <<cal, note, stampedBy, cancelled, kept, made, budgets>>

----------------------------------------------------------------------------
(* What else happens meanwhile *)

\* The server stops, or Google refuses a write of the journal's or the
\* notes': the call goes no further, and what it knew is lost.
CallStops ==
    /\ call.pc # "idle" /\ stops < MaxStops
    /\ call' = Idle
    /\ stops' = stops + 1
    /\ UNCHANGED <<cal, journal, waiting, note, stampedBy, cancelled, kept, made, edits, purges>>

\* A background sync brings what's kept of the calendar up to date.
Sync ==
    /\ call.pc \in {"begin", "additions", "prepare"}
    /\ call' = [call EXCEPT !.read = cal]
    /\ UNCHANGED <<cal, journal, waiting, note, stampedBy, cancelled, kept, made, budgets>>

\* The user edits or deletes an event in Google Calendar itself.
ChangeElsewhere(e) ==
    /\ edits < MaxEdits /\ cal[e].status = "live"
    /\ \/ \E v \in {cal[e].val, "outside"} : cal' = [cal EXCEPT ![e] = NewVersion(e, v, "live")]
       \/ cal' = [cal EXCEPT ![e] = NewVersion(e, cal[e].val, "cancelled")]
    /\ edits' = edits + 1
    /\ UNCHANGED <<journal, waiting, note, stampedBy, cancelled, kept, call, made, stops, purges>>

\* An event (its series deleted, say) comes to be not found, or gone.
Purge(e) ==
    /\ purges < MaxPurges /\ e[1] = 0 /\ cal[e].status # "gone"
    /\ cal' = [cal EXCEPT ![e] = NewVersion(e, cal[e].val, "gone")]
    /\ purges' = purges + 1
    /\ UNCHANGED <<journal, waiting, note, stampedBy, cancelled, kept, call, made, stops, edits>>

\* A note goes in the row after the last.
WriteNote(n) ==
    /\ call = Idle
    /\ note[n] = "unwritten" /\ \A m \in 1..(n - 1) : note[m] # "unwritten"
    /\ note' = [note EXCEPT ![n] = "there"]
    /\ UNCHANGED <<cal, journal, waiting, stampedBy, cancelled, kept, call, made, budgets>>

\* mutant: a compaction applied, its notes not stamped yet, lets them go
BeingWritten(n) == \E r \in Rows : journal[r].status = "applying" /\ n \in journal[r].notes
\* Whether a compaction is partway through applying note n.
BeingApplied(n) == \E r \in Rows : journal[r].status \in OpenStatuses /\ n \in journal[r].notes

\* Refused for a compacted note, and for one a compaction is applying.
DeleteNote(n) ==
    /\ call = Idle
    /\ note[n] = "there" /\ stampedBy[n] = 0
    /\ ~BeingApplied(n)
    /\ note' = [note EXCEPT ![n] = "deleted"]
    /\ UNCHANGED <<cal, journal, waiting, stampedBy, cancelled, kept, call, made, budgets>>

----------------------------------------------------------------------------

ServerStep ==
    \/ Supersede \/ AnswerFeedback
    \/ Begin \/ CreateAdditions \/ Prepare
    \/ \E t \in Targets : CalendarTakes(t) \/ CalendarRefuses(t)
    \/ BatchAnswered \/ MarkDone \/ RecordCancellations \/ RecordLogs \/ MakeGoalChanges
    \/ MarkApplied \/ StampNotes \/ MarkStamped
    \/ RecordMade \/ Fail \/ Rebuild

ClientStep ==
    \/ \E d \in SUBSET Targets : Propose(d) \/ \E r \in Rows : Revise(r, d)
    \/ \E r \in Rows : Confirm(r) \/ Recheck(r) \/ NeedsClaude(r) \/ Finish(r) \/ Abandon(r)
    \/ \E n \in Notes : WriteNote(n) \/ DeleteNote(n)

Environment ==
    \/ BatchLost \/ RecordRefused \/ CallStops \/ Sync
    \/ \E e \in Ids : ChangeElsewhere(e) \/ Purge(e)

Next == ServerStep \/ ClientStep \/ Environment

Spec == Init /\ [][Next]_vars

\* A call, once begun, goes on; and a compaction left applying is finished
\* again (Claude's routine does it, and the app offers it).
Fairness == WF_vars(ServerStep) /\ WF_vars(\E r \in Rows : Finish(r))

FairSpec == Spec /\ Fairness
=============================================================================
