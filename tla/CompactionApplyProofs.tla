----------------------- MODULE CompactionApplyProofs -----------------------
(***************************************************************************)
(* What's proved of CompactionApply, for any decisions, any number of      *)
(* notes and revisions, any batch size, and however often a call stops,    *)
(* the calendar changes and events go: one compaction at a time, complete  *)
(* once stamped, its notes there to be stamped until it is, and what's     *)
(* changed elsewhere never written over. Then, that the calls keep the     *)
(* promise made of a proposal: CompactionApply implements                  *)
(* CompactionPromise, each of its steps being one of the promise's or      *)
(* none. And that a revision that failed is settled: as long as no call    *)
(* stops partway and no answer's lost, what it made isn't made again by    *)
(* what it's planned again as, and the cancels it made are recorded.       *)
(***************************************************************************)
EXTENDS CompactionApplyProperties, FiniteSetTheorems, WellFoundedInduction, SequenceTheorems, TLAPS

----------------------------------------------------------------------------
(* Of the operators it's built from *)

\* A row of the journal rewritten leaves it the same length.
LEMMA RowRewritten ==
    ASSUME NEW S, NEW s \in Seq(S), NEW i, NEW e, i \in DOMAIN s => e \in S
    PROVE  /\ [s EXCEPT ![i] = e] \in Seq(S)
           /\ DOMAIN [s EXCEPT ![i] = e] = DOMAIN s
           /\ Len([s EXCEPT ![i] = e]) = Len(s)
<1>1. CASE i \in DOMAIN s
  BY <1>1, ExceptSeq
<1>2. CASE i \notin DOMAIN s
  <2>1. [s EXCEPT ![i] = e] = s
    BY <1>2, LenProperties
  <2> QED
    BY <2>1
<1> QED
  BY <1>1, <1>2

\* A set of naturals has a least.
LEMMA Least ==
    ASSUME NEW T, T \subseteq Nat, T # {}
    PROVE  \E x \in T : \A y \in T : x <= y
<1>1. PICK x \in T : \A y \in T : ~(<<y, x>> \in OpToRel(<, Nat))
  BY NatLessThanWellFounded, WFMin
<1>2. \A y \in T : ~(y < x)
  BY <1>1 DEF OpToRel
<1> QED
  BY <1>2

\* What a revision's row and the call are, one by one.
LEMMA RowFields ==
    ASSUME TypeOK, NEW r \in Rows
    PROVE  /\ journal[r] \in Revision
           /\ journal[r].proposal \in Nat
           /\ journal[r].decided \in SUBSET Targets /\ journal[r].settled \in SUBSET Targets
           /\ journal[r].planned \in SUBSET Targets /\ journal[r].done \in SUBSET Targets
           /\ journal[r].notes \in SUBSET Notes
<1>1. journal[r] \in Revision
  BY ElementOfSeq DEF TypeOK, Rows
<1> QED
  BY <1>1 DEF Revision

LEMMA CallFields ==
    ASSUME TypeOK
    PROVE  /\ call.pc \in Steps /\ call.rev \in Nat /\ call.read \in [Ids -> Event]
           /\ call.left \in SUBSET Targets /\ call.answer \in [Targets -> Answers]
           /\ call.why \in Answers /\ call.to \in SUBSET Notes
BY DEF TypeOK, Call

\* A revision planned is a row the journal can have.
LEMMA PlanType ==
    ASSUME TypeOK, NEW p \in Nat, NEW reason \in Reasons, NEW d \in SUBSET Targets,
           NEW settled \in SUBSET Targets
    PROVE  Plan(p, reason, d, settled) \in Revision
<1>1. \A t \in Targets \ Of("create") : <<0, t>> \in Ids
  BY DEF Ids
<1>2. Before(d, cal) \in [Targets -> Values]
  <2>1. ASSUME NEW t \in Changes(d, cal) \ Of("create")
        PROVE  cal[<<0, t>>].val \in Values
    BY <1>1 DEF Changes, TypeOK, Event
  <2> QED
    BY <2>1 DEF Before, Values
<1>3. Changes(d, cal) \in SUBSET Targets
  BY DEF Changes
<1>4. Window \in SUBSET Notes
  BY DEF Window
<1> QED
  BY <1>2, <1>3, <1>4 DEF Plan, Revision, RevisionStatus

\* The row's status and its marks are all that's rewritten.
LEMMA StatusType ==
    ASSUME TypeOK, NEW r, NEW status \in RevisionStatus
    PROVE  [journal EXCEPT ![r].status = status] \in Seq(Revision)
<1>1. journal \in Seq(Revision)
  BY DEF TypeOK
<1>2. r \in DOMAIN journal => [journal[r] EXCEPT !.status = status] \in Revision
  BY RowFields DEF Rows, Revision
<1> QED
  BY <1>1, <1>2, RowRewritten

LEMMA DoneType ==
    ASSUME TypeOK, NEW r, NEW ts \in SUBSET Targets
    PROVE  [journal EXCEPT ![r].done = @ \cup ts] \in Seq(Revision)
<1>1. journal \in Seq(Revision)
  BY DEF TypeOK
<1>2. r \in DOMAIN journal => [journal[r] EXCEPT !.done = @ \cup ts] \in Revision
  BY RowFields DEF Rows, Revision
<1> QED
  BY <1>1, <1>2, RowRewritten

LEMMA AppliedType ==
    ASSUME TypeOK, NEW r, NEW ts \in SUBSET Targets
    PROVE  [journal EXCEPT ![r].done = @ \cup ts, ![r].status = "applied"] \in Seq(Revision)
<1> DEFINE marked == [journal EXCEPT ![r].done = @ \cup ts]
<1>1. marked \in Seq(Revision) /\ DOMAIN marked = DOMAIN journal
  BY DoneType DEF TypeOK
<1>2. r \in DOMAIN marked => [marked[r] EXCEPT !.status = "applied"] \in Revision
  <2>1. r \in DOMAIN marked => marked[r] \in Revision
    BY <1>1, ElementOfSeq
  <2> QED
    BY <2>1 DEF Revision, RevisionStatus
<1>3. [marked EXCEPT ![r].status = "applied"] \in Seq(Revision)
  BY <1>1, <1>2, RowRewritten
<1>4. [journal EXCEPT ![r].done = @ \cup ts, ![r].status = "applied"] = [marked EXCEPT ![r].status = "applied"]
  OBVIOUS
<1> QED
  BY <1>3, <1>4

\* The calendar's answer to a write is an event, or no change of it.
LEMMA NewVersionType ==
    ASSUME TypeOK, NEW e \in Ids, NEW val \in Values, NEW status \in Statuses
    PROVE  NewVersion(e, val, status) \in Event
BY DEF NewVersion, TypeOK, Event

LEMMA WriteType ==
    ASSUME TypeOK, NEW t \in Targets, NEW e \in Ids
    PROVE  WriteOf(t, e) \in Event
<1>1. cal[e] \in Event /\ cal[e].val \in Values /\ cal[e].status \in Statuses
  BY DEF TypeOK, Event
<1>2. "wanted" \in Values /\ "cancelled" \in Statuses
  BY DEF Values, Statuses
<1>3. [val |-> "wanted", status |-> "live", etag |-> 1] \in Event
  BY DEF Event, Values, Statuses
<1> QED
  BY <1>1, <1>2, <1>3, NewVersionType DEF WriteOf

LEMMA AnswerType ==
    ASSUME TypeOK, NEW t \in Targets, NEW answer \in Answers
    PROVE  [call EXCEPT !.answer[t] = answer] \in Call
<1>1. [call.answer EXCEPT ![t] = answer] \in [Targets -> Answers]
  BY CallFields
<1>2. call \in Call
  BY DEF TypeOK
<1> QED
  BY <1>1, <1>2 DEF Call

LEMMA KeptType ==
    ASSUME TypeOK, NEW what \in {"additions", "logs", "goals"}
    PROVE  kept \cup {<<call.rev, what>>} \in SUBSET (Nat \X {"additions", "logs", "goals"})
BY CallFields DEF TypeOK

LEMMA TargetsNat == Targets \subseteq Nat
BY DecisionsAssumption, LenProperties DEF Targets

LEMMA InitTyped == Init => TypeOK
<1> SUFFICES ASSUME Init PROVE TypeOK
  OBVIOUS
<1>1. cal \in [Ids -> Event]
  BY DEF Init, Event, Values, Statuses
<1>2. Idle \in Call
  BY DEF Idle, Call, Steps, Answers, Event, Values, Statuses
<1>3. journal \in Seq(Revision)
  BY EmptySeq DEF Init
<1> QED
  BY <1>1, <1>2, <1>3 DEF Init, TypeOK

LEMMA IdleTyped == Idle \in Call
BY DEF Idle, Call, Steps, Answers, Event, Values, Statuses

LEMMA ServerStepTyped ==
    ASSUME TypeOK, CallsRow, ServerStep
    PROVE  TypeOK'
<1> USE CallFields, IdleTyped
<1>1. CASE Supersede
  BY <1>1, StatusType DEF Supersede, SetStatus, TypeOK, Call, Steps, RevisionStatus, budgets
<1>2. CASE AnswerFeedback
  BY <1>2 DEF AnswerFeedback, TypeOK, budgets
<1>3. CASE Begin
  BY <1>3, StatusType DEF Begin, SetStatus, TypeOK, Call, Steps, RevisionStatus, budgets
<1>4. CASE CreateAdditions
  BY <1>4, KeptType DEF CreateAdditions, TypeOK, Call, Steps, budgets
<1>5. CASE Prepare
  <2>1. [e \in Ids |-> Got(e)] \in [Ids -> Event]
    BY DEF Got, TypeOK
  <2>2. \A changed : {t \in journal[call.rev].planned \ journal[call.rev].done : \A s \in changed : t < s} \in SUBSET Targets
    BY <1>5, RowFields DEF Prepare, CallsRow
  <2> QED
    BY <1>5, <2>1, <2>2 DEF Prepare, TypeOK, Call, Steps, Answers, budgets
<1>6. ASSUME NEW t \in Targets, CalendarTakes(t)
      PROVE  TypeOK'
  <2> DEFINE e == EventOf(call.rev, t)
  <2>1. cal' \in [Ids -> Event]
    BY <1>6, WriteType DEF CalendarTakes, TypeOK
  <2>2. made' \in SUBSET (Nat \X Targets)
    BY <1>6 DEF CalendarTakes, TypeOK
  <2>3. call' \in Call
    BY <1>6, AnswerType DEF CalendarTakes, Answer, Answers
  <2> QED
    BY <1>6, <2>1, <2>2, <2>3 DEF CalendarTakes, TypeOK, budgets
<1>7. ASSUME NEW t \in Targets, CalendarRefuses(t)
      PROVE  TypeOK'
  <2>1. call' \in Call
    BY <1>7, AnswerType DEF CalendarRefuses, Answer, Answers
  <2> QED
    BY <1>7, <2>1 DEF CalendarRefuses, TypeOK, budgets
<1>8. CASE BatchAnswered
  <2>1. Batch \in SUBSET Targets
    BY DEF Batch
  <2>2. ASSUME Failed(Batch) # {}
        PROVE  call.answer[CHOOSE t \in Failed(Batch) : \A s \in Failed(Batch) : t <= s] \in Answers
    <3>1. Failed(Batch) \subseteq Nat /\ Failed(Batch) \subseteq Targets
      BY <2>1, TargetsNat DEF Failed
    <3>2. \E t \in Failed(Batch) : \A s \in Failed(Batch) : t <= s
      BY <2>2, <3>1, Least
    <3> QED
      BY <3>1, <3>2
  <2> QED
    BY <1>8, <2>1, <2>2 DEF BatchAnswered, TypeOK, Call, Steps, budgets
<1>9. CASE MarkDone
  <2>1. Answered \in SUBSET Targets
    BY DEF Answered
  <2> QED
    BY <1>9, <2>1, DoneType DEF MarkDone, TypeOK, Call, Steps, budgets
<1>10. CASE RecordCancellations
  <2>1. Of("cancel") \subseteq Targets
    BY DEF Of
  <2> QED
    BY <1>10, <2>1 DEF RecordCancellations, TypeOK, Call, Steps, budgets
<1>11. CASE RecordLogs
  BY <1>11, KeptType DEF RecordLogs, TypeOK, Call, Steps, budgets
<1>12. CASE MakeGoalChanges
  BY <1>12, KeptType DEF MakeGoalChanges, TypeOK, Call, Steps, budgets
<1>13. CASE MarkApplied
  <2>1. Answered \in SUBSET Targets
    BY DEF Answered
  <2>2. journal[call.rev].notes \in SUBSET Notes
    BY <1>13, RowFields DEF MarkApplied, CallsRow
  <2>3. call' \in Call
    BY <1>13, <2>2 DEF MarkApplied, TypeOK, Call, Steps
  <2> QED
    BY <1>13, <2>1, <2>3, AppliedType DEF MarkApplied, TypeOK, budgets
<1>14. CASE StampNotes
  <2>1. stampedBy' \in [Notes -> Nat]
    BY <1>14 DEF StampNotes, TypeOK
  <2>2. call' \in Call
    <3>1. ASSUME NEW run
          PROVE  [call EXCEPT !.to = @ \ run, !.pc = IF call.to = run THEN "stamped" ELSE @] \in Call
      BY DEF TypeOK, Call, Steps
    <3> QED
      BY <1>14, <3>1 DEF StampNotes
  <2> QED
    BY <1>14, <2>1, <2>2 DEF StampNotes, TypeOK, budgets
<1>15. CASE MarkStamped
  BY <1>15, StatusType DEF MarkStamped, SetStatus, TypeOK, RevisionStatus, budgets
<1>16. CASE RecordMade
  <2>1. Of("cancel") \subseteq Targets
    BY DEF Of
  <2> QED
    BY <1>16, <2>1 DEF RecordMade, TypeOK, Call, Steps, budgets
<1>17. CASE Fail
  BY <1>17, StatusType DEF Fail, SetStatus, TypeOK, Call, Steps, RevisionStatus, budgets
<1>18. CASE Rebuild
  <2>1. call.rev \in Rows
    BY <1>18 DEF Rebuild, CallsRow
  <2>2. /\ SettledBy(call.rev) \in SUBSET Targets
        /\ \A settled : Carried(call.rev, settled) \in SUBSET Targets
    BY <2>1, RowFields DEF SettledBy, Carried
  <2>3. Plan(journal[call.rev].proposal, "apply failed", Carried(call.rev, SettledBy(call.rev)), SettledBy(call.rev)) \in Revision
    BY <2>1, <2>2, RowFields, PlanType DEF Reasons
  <2>4. journal' \in Seq(Revision) /\ waiting' \in SUBSET Nat
    <3>1. \A x \in Revision : Append(journal, x) \in Seq(Revision)
      BY AppendProperties DEF TypeOK
    <3>2. journal[call.rev].proposal \in Nat
      BY <2>1, RowFields
    <3> QED
      BY <1>18, <2>3, <3>1, <3>2 DEF Rebuild, TypeOK
  <2> QED
    BY <1>18, <2>4 DEF Rebuild, TypeOK, budgets
<1> QED
  BY <1>1, <1>2, <1>3, <1>4, <1>5, <1>6, <1>7, <1>8, <1>9, <1>10, <1>11, <1>12, <1>13,
     <1>14, <1>15, <1>16, <1>17, <1>18 DEF ServerStep

LEMMA AppendType ==
    ASSUME TypeOK, NEW x \in Revision
    PROVE  Append(journal, x) \in Seq(Revision)
BY AppendProperties DEF TypeOK

LEMMA ClientStepTyped ==
    ASSUME TypeOK, ClientStep
    PROVE  TypeOK'
<1> USE CallFields, IdleTyped
<1>1. ASSUME NEW d \in SUBSET Targets, Propose(d)
      PROVE  TypeOK'
  <2>1. Len(journal) + 1 \in Nat
    BY LenProperties DEF TypeOK
  <2>2. journal' \in Seq(Revision)
    BY <1>1, <2>1, PlanType, AppendType DEF Propose, Reasons
  <2> QED
    BY <1>1, <2>2 DEF Propose, TypeOK, budgets
<1>2. ASSUME NEW d \in SUBSET Targets, NEW r \in Rows, Revise(r, d)
      PROVE  TypeOK'
  <2>1. journal' \in Seq(Revision)
    BY <1>2, RowFields, PlanType, AppendType DEF Revise, Reasons
  <2>2. r \in Nat
    BY LenProperties DEF TypeOK, Rows
  <2>3. call' \in Call
    BY <1>2, <2>2 DEF Revise, Call, Steps
  <2> QED
    BY <1>2, <2>1, <2>3 DEF Revise, TypeOK, budgets
<1>3. ASSUME NEW r \in Rows, Confirm(r)
      PROVE  TypeOK'
  <2>1. r \in Nat
    BY LenProperties DEF TypeOK, Rows
  <2> QED
    BY <1>3, <2>1 DEF Confirm, TypeOK, Call, Steps, budgets
<1>4. ASSUME NEW r \in Rows, Recheck(r)
      PROVE  TypeOK'
  <2>1. journal' \in Seq(Revision)
    BY <1>4, RowFields, PlanType, AppendType DEF Recheck, Reasons
  <2>2. r \in Nat
    BY LenProperties DEF TypeOK, Rows
  <2> QED
    BY <1>4, <2>1, <2>2 DEF Recheck, TypeOK, Call, Steps, budgets
<1>5. ASSUME NEW r \in Rows, NeedsClaude(r)
      PROVE  TypeOK'
  BY <1>5, RowFields DEF NeedsClaude, TypeOK, budgets
<1>6. ASSUME NEW r \in Rows, Finish(r)
      PROVE  TypeOK'
  <2>1. r \in Nat
    BY LenProperties DEF TypeOK, Rows
  <2> QED
    BY <1>6, <2>1 DEF Finish, TypeOK, Call, Steps, budgets
<1>7. ASSUME NEW r \in Rows, Abandon(r)
      PROVE  TypeOK'
  BY <1>7, StatusType DEF Abandon, SetStatus, TypeOK, RevisionStatus, budgets
<1>8. ASSUME NEW n \in Notes, WriteNote(n) \/ DeleteNote(n)
      PROVE  TypeOK'
  BY <1>8 DEF WriteNote, DeleteNote, TypeOK, budgets
<1> QED
  BY <1>1, <1>2, <1>3, <1>4, <1>5, <1>6, <1>7, <1>8 DEF ClientStep

LEMMA EnvironmentTyped ==
    ASSUME TypeOK, Environment
    PROVE  TypeOK'
<1> USE CallFields, IdleTyped
<1>1. CASE BatchLost
  <2>1. [t \in Targets |-> IF t \in Batch THEN "none" ELSE call.answer[t]] \in [Targets -> Answers]
    BY DEF Answers
  <2>2. call' \in Call
    BY <1>1, <2>1 DEF BatchLost, TypeOK, Call, Steps, Answers
  <2> QED
    BY <1>1, <2>2 DEF BatchLost, TypeOK
<1>2. CASE RecordRefused
  <2>1. call' \in Call
    BY <1>2 DEF RecordRefused, TypeOK, Call, Steps, Answers
  <2> QED
    BY <1>2, <2>1 DEF RecordRefused, TypeOK
<1>3. CASE CallStops
  BY <1>3 DEF CallStops, TypeOK
<1>4. CASE Sync
  BY <1>4 DEF Sync, TypeOK, Call, budgets
<1>5. ASSUME NEW e \in Ids, ChangeElsewhere(e)
      PROVE  TypeOK'
  <2>1. cal[e].val \in Values /\ {"none", "outside"} \subseteq Values /\ {"live", "cancelled"} \subseteq Statuses
    BY DEF TypeOK, Event, Values, Statuses
  <2>2. cal' \in [Ids -> Event]
    <3>1. /\ \A v \in {cal[e].val, "outside"} : NewVersion(e, v, "live") \in Event
          /\ NewVersion(e, cal[e].val, "cancelled") \in Event
      BY <2>1, NewVersionType
    <3> QED
      BY <1>5, <3>1 DEF ChangeElsewhere, TypeOK
  <2> QED
    BY <1>5, <2>2 DEF ChangeElsewhere, TypeOK
<1>6. ASSUME NEW e \in Ids, Purge(e)
      PROVE  TypeOK'
  <2>1. cal[e].val \in Values /\ "gone" \in Statuses
    BY DEF TypeOK, Event, Statuses
  <2>2. cal' \in [Ids -> Event]
    BY <1>6, <2>1, NewVersionType DEF Purge, TypeOK
  <2> QED
    BY <1>6, <2>2 DEF Purge, TypeOK
<1> QED
  BY <1>1, <1>2, <1>3, <1>4, <1>5, <1>6 DEF Environment

----------------------------------------------------------------------------
(* Of the journal *)

\* What of a row is settled once it's written: all but its status and marks.
Fixed(row, new) ==
    /\ new.proposal = row.proposal /\ new.planned = row.planned /\ new.notes = row.notes
    /\ new.decided = row.decided /\ new.settled = row.settled /\ new.before = row.before

\* How a step changes the journal.
LEMMA JournalSteps ==
    ASSUME [Next]_vars
    PROVE  \/ /\ \E p, reason, d, settled : journal' = Append(journal, Plan(p, reason, d, settled))
              /\ NoOpenCompaction \/ call.pc = "rebuild"
           \/ UNCHANGED journal
           \/ \E q, status : SetStatus(q, status) /\ status \in {"superseded", "failed", "abandoned"}
           \/ Begin \/ MarkDone \/ MarkApplied \/ MarkStamped
<1>1. CASE ServerStep
  BY <1>1 DEF ServerStep, Supersede, AnswerFeedback, CreateAdditions, Prepare, CalendarTakes,
      CalendarRefuses, BatchAnswered, RecordCancellations, RecordLogs, MakeGoalChanges, StampNotes,
      RecordMade, Fail, Rebuild
<1>2. CASE ClientStep
  <2>1. ASSUME NEW d, Propose(d)
        PROVE  /\ \E p, reason, e, settled : journal' = Append(journal, Plan(p, reason, e, settled))
               /\ NoOpenCompaction
    BY <2>1 DEF Propose
  <2>6. ASSUME NEW d, NEW r \in Rows, Revise(r, d)
        PROVE  /\ \E p, reason, e, settled : journal' = Append(journal, Plan(p, reason, e, settled))
               /\ NoOpenCompaction
    BY <2>6 DEF Revise
  <2>2. ASSUME NEW r \in Rows, Recheck(r)
        PROVE  /\ \E p, reason, e, settled : journal' = Append(journal, Plan(p, reason, e, settled))
               /\ NoOpenCompaction
    BY <2>2 DEF Recheck, Confirmable
  <2>3. ASSUME NEW r \in Rows, Confirm(r) \/ NeedsClaude(r) \/ Finish(r)
        PROVE  UNCHANGED journal
    BY <2>3 DEF Confirm, NeedsClaude, Finish
  <2>4. ASSUME NEW r \in Rows, Abandon(r)
        PROVE  SetStatus(r, "abandoned")
    BY <2>4 DEF Abandon
  <2>5. ASSUME NEW n \in Notes, WriteNote(n) \/ DeleteNote(n)
        PROVE  UNCHANGED journal
    BY <2>5 DEF WriteNote, DeleteNote
  <2> QED
    BY <1>2, <2>1, <2>2, <2>3, <2>4, <2>5, <2>6 DEF ClientStep
<1>3. CASE Environment
  BY <1>3 DEF Environment, BatchLost, RecordRefused, CallStops, Sync, ChangeElsewhere, Purge
<1>4. CASE UNCHANGED vars
  BY <1>4 DEF vars
<1> QED
  BY <1>1, <1>2, <1>3, <1>4 DEF Next

LEMMA Appended ==
    ASSUME TypeOK, NEW x, journal' = Append(journal, x)
    PROVE  /\ Rows' = Rows \cup {Len(journal) + 1}
           /\ Len(journal) + 1 \notin Rows
           /\ \A r \in Rows : journal'[r] = journal[r]
           /\ journal'[Len(journal) + 1] = x
<1>1. journal \in Seq(Revision)
  BY DEF TypeOK
<1>2. Len(journal) \in Nat /\ DOMAIN journal = 1..Len(journal)
  BY <1>1, LenProperties
<1>3. DOMAIN Append(journal, x) = 1..(Len(journal) + 1)
  BY <1>1
<1>4. \A r \in 1..Len(journal) : Append(journal, x)[r] = journal[r]
  BY <1>1
<1>5. Append(journal, x)[Len(journal) + 1] = x
  BY <1>1
<1> QED
  BY <1>2, <1>3, <1>4, <1>5 DEF Rows

\* The journal only grows, and a row keeps what it was written with.
LEMMA RowsKept ==
    ASSUME TypeOK, [Next]_vars
    PROVE  /\ Rows \subseteq Rows'
           /\ \A r \in Rows : Fixed(journal[r], journal'[r])
<1>1. CASE \E x : journal' = Append(journal, x)
  BY <1>1, Appended DEF Fixed
<1>2. CASE UNCHANGED journal
  BY <1>2 DEF Rows, Fixed
<1>3. CASE \E q, status : SetStatus(q, status)
  BY <1>3, RowFields DEF SetStatus, Rows, Fixed, Revision
<1>4. CASE MarkDone
  BY <1>4, RowFields DEF MarkDone, Rows, Fixed, Revision
<1>5. CASE MarkApplied
  BY <1>5, RowFields DEF MarkApplied, Rows, Fixed, Revision
<1> QED
  BY <1>1, <1>2, <1>3, <1>4, <1>5, JournalSteps DEF Begin, MarkStamped

LEMMA CallsRowKept ==
    ASSUME TypeOK, CallsRow, [Next]_vars
    PROVE  CallsRow'
<1> USE CallFields
<1>1. CASE ServerStep
  <2>1. /\ call.pc # "idle"
        /\ call' = Idle \/ call'.rev = call.rev
    BY <1>1 DEF ServerStep, Supersede, AnswerFeedback, Begin, CreateAdditions, Prepare, CalendarTakes,
        CalendarRefuses, Answer, BatchAnswered, MarkDone, RecordCancellations, RecordLogs, MakeGoalChanges,
        MarkApplied, StampNotes, MarkStamped, RecordMade, Fail, Rebuild, Call, TypeOK
  <2> QED
    BY <2>1, RowsKept DEF CallsRow, Idle
<1>2. CASE ClientStep
  <2>1. call' = Idle \/ call'.rev \in Rows
    <3>1. ASSUME NEW r \in Rows, NEW d \in SUBSET Targets, Revise(r, d)
          PROVE  call'.rev = r
      BY <3>1 DEF Revise, Idle
    <3>2. ASSUME NEW r \in Rows, Confirm(r) \/ Recheck(r) \/ Finish(r)
          PROVE  call'.rev = r
      BY <3>2 DEF Confirm, Recheck, Finish, Idle
    <3> QED
      BY <1>2, <3>1, <3>2 DEF ClientStep, Propose, NeedsClaude, Confirmable, Abandon, WriteNote, DeleteNote
  <2> QED
    BY <2>1, RowsKept DEF CallsRow, Idle
<1>3. CASE Environment
  <2>1. call' = Idle \/ call' = call \/ (call.pc # "idle" /\ call'.rev = call.rev)
    BY <1>3 DEF Environment, BatchLost, RecordRefused, CallStops, Sync, ChangeElsewhere, Purge, Call, TypeOK
  <2> QED
    BY <2>1, RowsKept DEF CallsRow, Idle
<1>4. CASE UNCHANGED vars
  BY <1>4, RowsKept DEF CallsRow, vars
<1> QED
  BY <1>1, <1>2, <1>3, <1>4 DEF Next

LEMMA StepTyped ==
    ASSUME TypeOK, CallsRow, [Next]_vars
    PROVE  TypeOK' /\ CallsRow'
<1>1. CASE UNCHANGED vars
  BY <1>1, CallsRowKept DEF vars, TypeOK
<1> QED
  BY <1>1, CallsRowKept, ServerStepTyped, ClientStepTyped, EnvironmentTyped DEF Next

\* Type correctness: every variable stays what the code keeps there,
\* whatever stops and whatever changes meanwhile.
THEOREM TypeCorrect == Spec => []TypeOK
<1>1. Init => TypeOK /\ CallsRow
  BY InitTyped DEF Init, CallsRow, Idle
<1>2. TypeOK /\ CallsRow /\ [Next]_vars => (TypeOK /\ CallsRow)'
  BY StepTyped
<1> QED
  BY <1>1, <1>2, PTL DEF Spec

----------------------------------------------------------------------------
(* Steps marked done are made *)

\* Only commit marks steps done, and those Calendar answered.
LEMMA DoneSteps ==
    ASSUME TypeOK, [Next]_vars, NEW r \in Rows', NEW t \in journal'[r].done
    PROVE  \/ r \in Rows /\ t \in journal[r].done
           \/ r = call.rev /\ t \in Answered /\ (MarkDone \/ MarkApplied)
<1>1. ASSUME NEW p, NEW reason, NEW d, NEW settled, journal' = Append(journal, Plan(p, reason, d, settled))
      PROVE  r \in Rows /\ t \in journal[r].done
  <2>1. Plan(p, reason, d, settled).done = {}
    BY DEF Plan
  <2>2. r \in Rows \/ journal'[r] = Plan(p, reason, d, settled)
    BY <1>1, Appended
  <2>3. r \in Rows
    BY <2>1, <2>2
  <2> QED
    BY <1>1, <2>3, Appended
<1>2. CASE UNCHANGED journal
  BY <1>2 DEF Rows
<1>3. ASSUME NEW q, NEW status, SetStatus(q, status)
      PROVE  r \in Rows /\ t \in journal[r].done
  BY <1>3, RowFields DEF SetStatus, Rows, Revision
<1>4. CASE MarkDone
  BY <1>4, RowFields DEF MarkDone, Rows, Revision
<1>5. CASE MarkApplied
  BY <1>5, RowFields DEF MarkApplied, Rows, Revision
<1> QED
  BY <1>1, <1>2, <1>3, <1>4, <1>5, JournalSteps DEF Begin, MarkStamped

\* A call knows a write was made only from Calendar's answer to it.
AnswersMade == \A t \in Answered : <<call.rev, t>> \in made

LEMMA AnswersMadeKept ==
    ASSUME TypeOK, AnswersMade, [Next]_vars
    PROVE  AnswersMade' /\ made \subseteq made'
<1> USE CallFields
<1>1. ASSUME NEW t \in Targets, CalendarTakes(t)
      PROVE  AnswersMade' /\ made \subseteq made'
  <2>1. call'.rev = call.rev /\ call'.answer = [call.answer EXCEPT ![t] = "ok"]
    BY <1>1 DEF CalendarTakes, Answer, TypeOK, Call
  <2> QED
    BY <1>1, <2>1 DEF CalendarTakes, AnswersMade, Answered
<1>2. ASSUME NEW t \in Targets, CalendarRefuses(t)
      PROVE  AnswersMade' /\ made \subseteq made'
  <2>1. /\ call'.rev = call.rev
        /\ \E answer \in {"gone", "stale"} : call'.answer = [call.answer EXCEPT ![t] = answer]
    BY <1>2 DEF CalendarRefuses, Answer, TypeOK, Call
  <2> QED
    BY <1>2, <2>1 DEF CalendarRefuses, AnswersMade, Answered
<1>3. CASE BatchLost
  <2>1. /\ call'.rev = call.rev
        /\ call'.answer = [t \in Targets |-> IF t \in Batch THEN "none" ELSE call.answer[t]]
    BY <1>3 DEF BatchLost, TypeOK, Call
  <2> QED
    BY <1>3, <2>1 DEF BatchLost, AnswersMade, Answered
<1>4. CASE made' = made /\ (call' = Idle \/ (call'.rev = call.rev /\ call'.answer = call.answer))
  BY <1>4 DEF AnswersMade, Answered, Idle
<1>5. ASSUME NEW r \in Rows, NEW d \in SUBSET Targets, Revise(r, d) \/ Confirm(r) \/ Recheck(r) \/ Finish(r)
      PROVE  AnswersMade' /\ made \subseteq made'
  <2>1. made' = made /\ call'.answer = [t \in Targets |-> "none"]
    BY <1>5 DEF Revise, Confirm, Recheck, Finish, Idle
  <2> QED
    BY <2>1 DEF AnswersMade, Answered
<1>6. CASE Supersede \/ AnswerFeedback \/ Begin \/ CreateAdditions \/ Prepare \/ BatchAnswered \/ MarkDone
  BY <1>4, <1>6 DEF Supersede, AnswerFeedback, Begin, CreateAdditions, Prepare, BatchAnswered, MarkDone, TypeOK, Call
<1>7. CASE RecordCancellations \/ RecordLogs \/ MakeGoalChanges \/ MarkApplied \/ StampNotes \/ MarkStamped
  BY <1>4, <1>7 DEF RecordCancellations, RecordLogs, MakeGoalChanges, MarkApplied, StampNotes, MarkStamped, TypeOK, Call
<1>8. CASE RecordMade \/ Fail \/ Rebuild \/ RecordRefused \/ CallStops \/ Sync
  BY <1>4, <1>8 DEF RecordMade, Fail, Rebuild, RecordRefused, CallStops, Sync, TypeOK, Call
<1>9. ASSUME NEW d \in SUBSET Targets, Propose(d)
      PROVE  AnswersMade' /\ made \subseteq made'
  BY <1>4, <1>9 DEF Propose
<1>10. ASSUME NEW r \in Rows, NeedsClaude(r) \/ Abandon(r)
       PROVE  AnswersMade' /\ made \subseteq made'
  BY <1>4, <1>10 DEF NeedsClaude, Abandon
<1>11. ASSUME NEW n \in Notes, WriteNote(n) \/ DeleteNote(n)
       PROVE  AnswersMade' /\ made \subseteq made'
  BY <1>4, <1>11 DEF WriteNote, DeleteNote
<1>12. ASSUME NEW e \in Ids, ChangeElsewhere(e) \/ Purge(e)
       PROVE  AnswersMade' /\ made \subseteq made'
  BY <1>4, <1>12 DEF ChangeElsewhere, Purge
<1>13. CASE UNCHANGED vars
  BY <1>4, <1>13 DEF vars
<1> QED
  BY <1>1, <1>2, <1>3, <1>5, <1>6, <1>7, <1>8, <1>9, <1>10, <1>11, <1>12, <1>13
     DEF Next, ServerStep, ClientStep, Environment

\* What commit relies on when it resumes: a step marked done was made, so
\* none is ever skipped.  It holds because marks are written from Calendar's
\* answers alone (AnswersMade).
THEOREM MarksAreMade == Spec => []MarkedOnlyIfMade
<1> DEFINE Inv == TypeOK /\ CallsRow /\ AnswersMade /\ MarkedOnlyIfMade
<1>1. Init => Inv
  BY InitTyped DEF Init, CallsRow, Idle, AnswersMade, Answered, MarkedOnlyIfMade, Rows
<1>2. Inv /\ [Next]_vars => Inv'
  <2> SUFFICES ASSUME Inv, [Next]_vars PROVE Inv'
    OBVIOUS
  <2>1. TypeOK' /\ CallsRow' /\ AnswersMade' /\ made \subseteq made'
    BY StepTyped, AnswersMadeKept
  <2>2. ASSUME NEW r \in Rows', NEW t \in journal'[r].done
        PROVE  <<r, t>> \in made'
    BY <2>1, <2>2, DoneSteps DEF AnswersMade, MarkedOnlyIfMade
  <2> QED
    BY <2>1, <2>2 DEF MarkedOnlyIfMade
<1> QED
  BY <1>1, <1>2, PTL DEF Spec

----------------------------------------------------------------------------
(* One compaction is applied at a time *)

\* How a step changes a revision's status.
LEMMA StatusSteps ==
    ASSUME TypeOK, [Next]_vars, NEW r \in Rows'
    PROVE  \/ r \in Rows /\ journal'[r].status = journal[r].status
           \/ r \notin Rows /\ journal'[r].status = "proposed" /\ (NoOpenCompaction \/ call.pc = "rebuild")
           \/ journal'[r].status \in {"superseded", "failed", "abandoned"}
           \/ r = call.rev /\ Begin /\ journal'[r].status = "applying"
           \/ r = call.rev /\ MarkApplied /\ journal'[r].status = "applied"
           \/ r = call.rev /\ MarkStamped /\ journal'[r].status = "stamped"
<1>1. ASSUME NEW p, NEW reason, NEW d, NEW settled, journal' = Append(journal, Plan(p, reason, d, settled))
      PROVE  \/ r \in Rows /\ journal'[r].status = journal[r].status
             \/ r \notin Rows /\ journal'[r].status = "proposed"
  <2>1. Plan(p, reason, d, settled).status = "proposed"
    BY DEF Plan
  <2> QED
    BY <1>1, <2>1, Appended
<1>2. CASE UNCHANGED journal
  BY <1>2 DEF Rows
<1>3. ASSUME NEW q, NEW status, SetStatus(q, status)
      PROVE  r \in Rows /\ journal'[r].status = IF r = q THEN status ELSE journal[r].status
  BY <1>3, RowFields DEF SetStatus, Rows, Revision
<1>4. CASE MarkDone
  BY <1>4, RowFields DEF MarkDone, Rows, Revision
<1>5. CASE MarkApplied
  BY <1>5, RowFields DEF MarkApplied, Rows, Revision
<1>6. CASE Begin
  BY <1>3, <1>6 DEF Begin
<1>7. CASE MarkStamped
  BY <1>3, <1>7 DEF MarkStamped
<1>8. CASE \E q, status : SetStatus(q, status) /\ status \in {"superseded", "failed", "abandoned"}
  BY <1>3, <1>8
<1> QED
  BY <1>1, <1>2, <1>4, <1>5, <1>6, <1>7, <1>8, JournalSteps

\* A revision that's its proposal's newest stays so until one is added.
LEMMA CurrentKept ==
    ASSUME TypeOK, [Next]_vars, Rows' = Rows, NEW r \in Rows, IsCurrent(r)
    PROVE  IsCurrent(r)'
BY RowsKept DEF IsCurrent, Fixed

\* A revision is added only when none is open, and none is then.
LEMMA NoneOpenAdded ==
    ASSUME TypeOK, CallHasOpen, [Next]_vars, Rows' # Rows
    PROVE  NoOpenCompaction /\ NoOpenCompaction'
<1>1. PICK p, reason, d, settled :
          /\ journal' = Append(journal, Plan(p, reason, d, settled))
          /\ NoOpenCompaction \/ call.pc = "rebuild"
  <2>1. CASE \E q, status : SetStatus(q, status)
    BY <2>1 DEF SetStatus, Rows
  <2> QED
    BY <2>1, JournalSteps DEF Begin, MarkStamped, MarkDone, MarkApplied, Rows
<1>2. NoOpenCompaction
  BY <1>1 DEF CallHasOpen
<1>3. Plan(p, reason, d, settled).status = "proposed"
  BY DEF Plan
<1>4. \A r \in Rows' : journal'[r].status = "proposed" \/ (r \in Rows /\ journal'[r].status = journal[r].status)
  BY <1>1, <1>3, Appended
<1> QED
  BY <1>2, <1>4 DEF NoOpenCompaction, OpenStatuses

LEMMA OneAppliedKept ==
    ASSUME TypeOK, CallsRow, OneApplied, CallHasOpen, [Next]_vars
    PROVE  OneApplied'
<1> USE CallFields
<1>1. CASE Rows' # Rows
  BY <1>1, NoneOpenAdded DEF OneApplied, NoOpenCompaction
<1>2. CASE Rows' = Rows /\ Begin
  <2>1. call.rev \in Rows /\ NoOpenCompaction /\ IsCurrent(call.rev)
    BY <1>2 DEF Begin, CallsRow, CallHasOpen
  <2>2. \A r \in Rows' : journal'[r].status \in OpenStatuses => r = call.rev
    BY <1>2, <2>1, StatusSteps DEF NoOpenCompaction, OpenStatuses, MarkApplied, Begin
  <2> QED
    BY <1>2, <2>1, <2>2, CurrentKept DEF OneApplied
<1>3. CASE Rows' = Rows /\ ~Begin
  <2>1. MarkApplied => journal[call.rev].status \in OpenStatuses
    BY DEF MarkApplied, CallHasOpen, Steps
  <2>2. \A r \in Rows' : journal'[r].status \in OpenStatuses => r \in Rows /\ journal[r].status \in OpenStatuses
    BY <1>3, <2>1, StatusSteps DEF OpenStatuses
  <2> QED
    BY <1>3, <2>2, CurrentKept DEF OneApplied
<1> QED
  BY <1>1, <1>2, <1>3

----------------------------------------------------------------------------
(* A stamped revision is complete *)

LEMMA RunStamped == ASSUME NEW ns PROVE FirstRun(ns) \subseteq ns
BY DEF FirstRun

\* Marks and recorded cancels are never taken back.
LEMMA NothingTakenBack ==
    ASSUME TypeOK, [Next]_vars
    PROVE  /\ \A r \in Rows : journal[r].done \subseteq journal'[r].done
           /\ cancelled \subseteq cancelled'
           /\ UNCHANGED stampedBy \/ StampNotes
<1>1. \A r \in Rows : journal[r].done \subseteq journal'[r].done
  <2>1. CASE \E x : journal' = Append(journal, x)
    BY <2>1, Appended
  <2>2. CASE \E q, status : SetStatus(q, status)
    BY <2>2, RowFields DEF SetStatus, Rows, Revision
  <2>3. CASE MarkDone
    BY <2>3, RowFields DEF MarkDone, Rows, Revision
  <2>4. CASE MarkApplied
    BY <2>4, RowFields DEF MarkApplied, Rows, Revision
  <2> QED
    BY <2>1, <2>2, <2>3, <2>4, JournalSteps DEF Begin, MarkStamped
<1>2. cancelled \subseteq cancelled' /\ (UNCHANGED stampedBy \/ StampNotes)
  <2>1. CASE ServerStep
    BY <2>1 DEF ServerStep, Supersede, AnswerFeedback, Begin, CreateAdditions, Prepare, CalendarTakes,
        CalendarRefuses, BatchAnswered, MarkDone, RecordCancellations, RecordLogs, MakeGoalChanges,
        MarkApplied, MarkStamped, RecordMade, Fail, Rebuild, StampNotes
  <2>2. CASE ClientStep
    BY <2>2 DEF ClientStep, Propose, Revise, Confirm, Recheck, NeedsClaude, Finish, Abandon, WriteNote, DeleteNote
  <2>3. CASE Environment
    BY <2>3 DEF Environment, BatchLost, RecordRefused, CallStops, Sync, ChangeElsewhere, Purge
  <2>4. CASE UNCHANGED vars
    BY <2>4 DEF vars
  <2> QED
    BY <2>1, <2>2, <2>3, <2>4 DEF Next
<1> QED
  BY <1>1, <1>2

LEMMA RowsCompleteKept ==
    ASSUME TypeOK, ApplyingInv, [Next]_vars
    PROVE  RowsComplete'
<1> USE CallFields DEF ApplyingInv
<1> SUFFICES ASSUME NEW r \in Rows'
             PROVE  /\ journal'[r].done \subseteq journal'[r].planned
                    /\ journal'[r].status \in {"applied", "stamped"} =>
                           /\ journal'[r].planned \subseteq journal'[r].done
                           /\ journal'[r].planned \cap Of("cancel") \subseteq cancelled'
                    /\ journal'[r].status = "stamped" => \A n \in journal'[r].notes : stampedBy'[n] = r
  BY DEF RowsComplete
<1>1. journal'[r].done \subseteq journal'[r].planned
  <2> SUFFICES ASSUME NEW t \in journal'[r].done PROVE t \in journal'[r].planned
    OBVIOUS
  <2>1. CASE r \in Rows /\ t \in journal[r].done
    BY <2>1, RowsKept DEF RowsComplete, Fixed
  <2>2. CASE r = call.rev /\ t \in Answered /\ (MarkDone \/ MarkApplied)
    <3>1. r \in Rows /\ t \in journal[r].planned
      BY <2>2 DEF MarkDone, MarkApplied, CallsRow, OnlyPlanned, Steps
    <3> QED
      BY <3>1, RowsKept DEF Fixed
  <2> QED
    BY <2>1, <2>2, DoneSteps
<1>2. CASE r \in Rows /\ journal'[r].status = journal[r].status
  <2>1. ASSUME journal[r].status \in {"applied", "stamped"}
        PROVE  /\ journal'[r].planned \subseteq journal'[r].done
               /\ journal'[r].planned \cap Of("cancel") \subseteq cancelled'
    BY <1>2, <2>1, RowsKept, NothingTakenBack DEF RowsComplete, Fixed
  <2>2. ASSUME journal[r].status = "stamped", NEW n \in journal[r].notes
        PROVE  stampedBy'[n] = r
    <3>1. stampedBy[n] = r /\ n \in Notes /\ r \in Nat \ {0}
      BY <1>2, <2>2, RowFields, LenProperties DEF RowsComplete, TypeOK, Rows
    <3>2. CASE StampNotes
      <4>1. n \in FirstRun(call.to) /\ Stampable(call.rev) => r = call.rev
        <5>1. FirstRun(call.to) \subseteq journal[call.rev].notes
          BY <3>2, RunStamped DEF StampNotes, StampedSoFar
        <5> QED
          BY <3>1, <5>1 DEF Stampable
      <4> QED
        BY <3>1, <3>2, <4>1 DEF StampNotes, TypeOK
    <3> QED
      BY <3>1, <3>2, NothingTakenBack
  <2> QED
    BY <1>1, <1>2, <2>1, <2>2, RowsKept DEF Fixed
<1>3. CASE r = call.rev /\ MarkApplied /\ journal'[r].status = "applied"
  <2>1. /\ r \in Rows
        /\ journal[r].planned \subseteq journal[r].done \cup Answered
        /\ journal[r].planned \cap Of("cancel") \subseteq cancelled
    BY <1>3 DEF MarkApplied, CallsRow, NoneSkipped, CancelsFirst
  <2>2. journal'[r].done = journal[r].done \cup Answered
    BY <1>3, <2>1, RowFields DEF MarkApplied, Rows, Revision
  <2> QED
    BY <1>1, <1>3, <2>1, <2>2, RowsKept, NothingTakenBack DEF Fixed
<1>4. CASE r = call.rev /\ MarkStamped /\ journal'[r].status = "stamped"
  <2>1. r \in Rows /\ journal[r].status = "applied" /\ \A n \in journal[r].notes : stampedBy[n] = r
    BY <1>4 DEF MarkStamped, CallsRow, CallHasOpen, StampedSoFar
  <2> QED
    BY <1>1, <1>4, <2>1, RowsKept, NothingTakenBack DEF Fixed, RowsComplete, MarkStamped
<1> QED
  BY <1>1, <1>2, <1>3, <1>4, StatusSteps

\* What a call under way relies on.
CallInv == CallHasOpen /\ OnlyPlanned /\ NoneSkipped /\ CancelsFirst /\ StampedSoFar

\* A call over, or that has added a revision, relies on nothing more.
LEMMA NothingToRelyOn ==
    ASSUME call'.pc \in {"idle", "supersede", "answer"}
    PROVE  CallInv'
BY DEF CallInv, CallHasOpen, OnlyPlanned, NoneSkipped, CancelsFirst, StampedSoFar, Steps

\* A step outside the call, which leaves what it relies on as it was.
LEMMA CallInvUntouched ==
    ASSUME CallInv, call'.pc = call.pc, call'.rev = call.rev, call'.left = call.left,
           call'.answer = call.answer, call'.why = call.why, call'.to = call.to,
           UNCHANGED <<journal, cancelled, stampedBy>>
    PROVE  CallInv'
BY DEF CallInv, CallHasOpen, OnlyPlanned, NoneSkipped, CancelsFirst, StampedSoFar, NoOpenCompaction,
       IsCurrent, Rows, Answered

LEMMA BeginsKeep ==
    ASSUME TypeOK, ApplyingInv, \E r \in Rows : Confirm(r) \/ Finish(r)
    PROVE  CallInv'
<1>1. PICK r \in Rows : Confirm(r) \/ Finish(r)
  OBVIOUS
<1>2. /\ call'.rev = r /\ call'.left = {} /\ call'.answer = [t \in Targets |-> "none"]
      /\ UNCHANGED <<journal, cancelled, stampedBy>>
  BY <1>1 DEF Confirm, Finish, Idle
<1>3. \/ call'.pc = "begin" /\ NoOpenCompaction /\ IsCurrent(r)
      \/ call'.pc = "additions" /\ journal[r].status \in OpenStatuses
  BY <1>1 DEF Confirm, Confirmable, Open, Finish, Idle
<1>4. Answered' = {}
  BY <1>2 DEF Answered
<1>5. CallHasOpen'
  BY <1>2, <1>3 DEF CallHasOpen, NoOpenCompaction, IsCurrent, Rows
<1>6. OnlyPlanned'
  BY <1>2, <1>3, <1>4 DEF OnlyPlanned
<1> QED
  BY <1>3, <1>5, <1>6 DEF CallInv, NoneSkipped, CancelsFirst, StampedSoFar

\* commit, until the first batch is sent.
LEMMA PreparingKeeps ==
    ASSUME TypeOK, ApplyingInv, [Next]_vars, Begin \/ CreateAdditions \/ Prepare
    PROVE  CallInv'
<1> USE CallFields DEF ApplyingInv
<1>1. CASE Begin
  <2>1. /\ call'.pc = "additions" /\ call'.rev = call.rev /\ call'.left = call.left /\ call'.answer = call.answer
        /\ call.pc = "begin" /\ call.rev \in Rows
    BY <1>1 DEF Begin, CallsRow, TypeOK, Call
  <2>2. journal'[call.rev].status = "applying"
    BY <1>1, <2>1, RowFields DEF Begin, SetStatus, Rows, Revision
  <2>3. call'.left \cup Answered' = {}
    BY <2>1 DEF OnlyPlanned, Answered
  <2> QED
    BY <2>1, <2>2, <2>3 DEF CallInv, CallHasOpen, OnlyPlanned, NoneSkipped, CancelsFirst, StampedSoFar, OpenStatuses
<1>2. CASE CreateAdditions
  <2>1. /\ call'.pc = "prepare" /\ call'.rev = call.rev /\ call'.left = call.left /\ call'.answer = call.answer
        /\ call.pc = "additions" /\ UNCHANGED journal
    BY <1>2 DEF CreateAdditions, TypeOK, Call
  <2>2. call'.left \cup Answered' = {}
    BY <2>1 DEF OnlyPlanned, Answered
  <2> QED
    BY <2>1, <2>2 DEF CallInv, CallHasOpen, OnlyPlanned, NoneSkipped, CancelsFirst, StampedSoFar, Steps
<1>3. CASE Prepare
  <2> DEFINE pending == journal[call.rev].planned \ journal[call.rev].done
             changed == ChangedSince(call.rev, pending)
  <2>1. /\ call.pc = "prepare" /\ call'.rev = call.rev /\ call'.answer = call.answer /\ UNCHANGED journal
        /\ \/ call'.pc = "record made" /\ call'.left = call.left
           \/ /\ call'.pc = "send"
              /\ call'.left = {t \in pending : \A s \in changed : t < s}
              /\ call'.why = IF changed = {} THEN "none" ELSE "stale"
    BY <1>3 DEF Prepare, TypeOK, Call
  <2>2. Answered' = {} /\ call.left = {}
    BY <2>1 DEF OnlyPlanned, Answered
  <2>3. call'.left \subseteq pending /\ (call'.pc = "send" /\ call'.why = "none" => call'.left = pending)
    BY <2>1, <2>2
  <2> QED
    BY <2>1, <2>2, <2>3 DEF CallInv, CallHasOpen, OnlyPlanned, NoneSkipped, CancelsFirst, StampedSoFar, Steps
<1> QED
  BY <1>1, <1>2, <1>3

\* The batches.
LEMMA SendingKeeps ==
    ASSUME TypeOK, ApplyingInv,
           BatchAnswered \/ BatchLost \/ \E t \in Targets : CalendarTakes(t) \/ CalendarRefuses(t)
    PROVE  CallInv'
<1> USE CallFields DEF ApplyingInv
<1>1. Batch \subseteq call.left
  BY DEF Batch
<1>2. ASSUME NEW t \in Targets, CalendarTakes(t) \/ CalendarRefuses(t)
      PROVE  CallInv'
  <2>1. /\ call.pc = "send" /\ call'.pc = "send" /\ call'.rev = call.rev /\ call'.left = call.left
        /\ call'.why = call.why /\ t \in Batch /\ UNCHANGED journal
        /\ \E answer \in {"ok", "gone", "stale"} : call'.answer = [call.answer EXCEPT ![t] = answer]
        /\ call.answer[t] = "none"
    BY <1>2 DEF CalendarTakes, CalendarRefuses, Answer, TypeOK, Call
  <2>2. Answered \subseteq Answered' /\ Answered' \subseteq Answered \cup {t}
    BY <2>1 DEF Answered
  <2> QED
    BY <1>1, <2>1, <2>2 DEF CallInv, CallHasOpen, OnlyPlanned, NoneSkipped, CancelsFirst, StampedSoFar, Steps
<1>3. CASE BatchLost
  <2>1. /\ call.pc = "send" /\ call'.pc = "mark" /\ call'.rev = call.rev /\ call'.left = call.left /\ UNCHANGED journal
        /\ call'.answer = [t \in Targets |-> IF t \in Batch THEN "none" ELSE call.answer[t]]
    BY <1>3 DEF BatchLost, TypeOK, Call
  <2>2. Answered' \subseteq Answered
    BY <2>1 DEF Answered
  <2> QED
    BY <2>1, <2>2 DEF CallInv, CallHasOpen, OnlyPlanned, NoneSkipped, CancelsFirst, StampedSoFar, Steps
<1>4. CASE BatchAnswered
  <2> DEFINE rest == call.left \ Batch
  <2>1. /\ call.pc = "send" /\ call'.rev = call.rev /\ call'.left = rest /\ call'.answer = call.answer
        /\ UNCHANGED journal /\ call'.pc \in {"mark", "cancellations", "send"}
        /\ call'.pc \in {"cancellations", "send"} => Failed(Batch) = {} /\ call'.why = call.why
        /\ call'.pc = "cancellations" => rest = {} /\ call.why = "none"
    BY <1>4 DEF BatchAnswered, TypeOK, Call
  <2>2. Answered' = Answered /\ (Failed(Batch) = {} => Batch \subseteq Answered)
    BY <1>1, <2>1 DEF Answered, Failed
  <2>3. CallHasOpen' /\ OnlyPlanned'
    BY <2>1, <2>2 DEF CallHasOpen, OnlyPlanned, Steps
  <2>4. NoneSkipped'
    BY <2>1, <2>2 DEF NoneSkipped
  <2> QED
    BY <2>1, <2>3, <2>4 DEF CallInv, CancelsFirst, StampedSoFar
<1> QED
  BY <1>2, <1>3, <1>4

\* What's recorded once the writes are made, or one of them can't be.
LEMMA RecordingKeeps ==
    ASSUME TypeOK, ApplyingInv, [Next]_vars,
           \/ MarkDone \/ RecordCancellations \/ RecordLogs \/ RecordRefused \/ MakeGoalChanges
           \/ RecordMade \/ Fail
    PROVE  CallInv'
<1> USE CallFields DEF ApplyingInv
<1>1. CASE MarkDone
  <2>1. \/ call' = Idle
        \/ /\ call.pc = "mark" /\ call'.pc = "record made" /\ call'.rev = call.rev
           /\ call'.left = call.left /\ call'.answer = call.answer /\ call.rev \in Rows
    BY <1>1 DEF MarkDone, TypeOK, Call, CallsRow
  <2>2. call.rev \in Rows => /\ journal'[call.rev].status = journal[call.rev].status
                             /\ journal'[call.rev].planned = journal[call.rev].planned
    BY <1>1, RowFields DEF MarkDone, Rows, Revision
  <2>3. call'.answer = call.answer => Answered' = Answered
    BY DEF Answered
  <2>4. CASE call' = Idle
    BY <2>4, NothingToRelyOn DEF Idle
  <2> QED
    BY <2>1, <2>2, <2>3, <2>4 DEF CallInv, CallHasOpen, OnlyPlanned, NoneSkipped, CancelsFirst, StampedSoFar, Steps
<1>2. CASE RecordCancellations \/ RecordLogs \/ RecordRefused \/ MakeGoalChanges \/ RecordMade
  <2>1. /\ call'.rev = call.rev /\ call'.left = call.left /\ call'.answer = call.answer /\ UNCHANGED journal
        /\ \/ call.pc = "cancellations" /\ call'.pc = "logs" /\ journal[call.rev].planned \cap Of("cancel") \subseteq cancelled'
           \/ call.pc = "logs" /\ call'.pc = "goals" /\ UNCHANGED cancelled
           \/ call.pc \in {"cancellations", "logs"} /\ call'.pc = "mark"
           \/ call.pc = "goals" /\ call'.pc = "applied" /\ UNCHANGED cancelled
           \/ call.pc = "record made" /\ call'.pc = "fail"
    BY <1>2 DEF RecordCancellations, RecordLogs, RecordRefused, MakeGoalChanges, RecordMade, TypeOK, Call
  <2>2. Answered' = Answered
    BY <2>1 DEF Answered
  <2> QED
    BY <2>1, <2>2 DEF CallInv, CallHasOpen, OnlyPlanned, NoneSkipped, CancelsFirst, StampedSoFar, Steps
<1>3. CASE Fail
  <2>1. /\ call.pc = "fail" /\ call'.pc = "rebuild" /\ call'.rev = call.rev
        /\ call'.left = call.left /\ call'.answer = call.answer /\ call.rev \in Rows
    BY <1>3 DEF Fail, TypeOK, Call, CallsRow
  <2>2. Answered' = Answered
    BY <2>1 DEF Answered
  <2>3. /\ Rows' = Rows /\ journal'[call.rev].status = "failed"
        /\ journal'[call.rev].planned = journal[call.rev].planned
        /\ \A r \in Rows : r # call.rev => journal'[r] = journal[r]
    BY <1>3, <2>1, RowFields DEF Fail, SetStatus, Rows, Revision
  <2>4. NoOpenCompaction'
    BY <2>1, <2>3 DEF NoOpenCompaction, OneApplied, CallHasOpen, OpenStatuses, Steps
  <2> QED
    BY <2>1, <2>2, <2>3, <2>4 DEF CallInv, CallHasOpen, OnlyPlanned, NoneSkipped, CancelsFirst, StampedSoFar, Steps
<1> QED
  BY <1>1, <1>2, <1>3

\* The revision applied, and its notes stamped.
LEMMA StampingKeeps ==
    ASSUME TypeOK, ApplyingInv, [Next]_vars, MarkApplied \/ StampNotes
    PROVE  CallInv'
<1> USE CallFields DEF ApplyingInv
<1>1. CASE MarkApplied
  <2>1. /\ call.pc = "applied" /\ call'.pc \in {"stamp", "stamped"} /\ call'.rev = call.rev
        /\ call'.left = call.left /\ call'.answer = call.answer /\ call.rev \in Rows
        /\ call'.to = journal[call.rev].notes /\ (call'.pc = "stamped" => journal[call.rev].notes = {})
    BY <1>1 DEF MarkApplied, TypeOK, Call, CallsRow
  <2>2. /\ journal'[call.rev].status = "applied" /\ journal'[call.rev].planned = journal[call.rev].planned
        /\ journal'[call.rev].notes = journal[call.rev].notes
    BY <1>1, <2>1, RowFields DEF MarkApplied, Rows, Revision
  <2>3. Answered' = Answered
    BY <2>1 DEF Answered
  <2> QED
    BY <2>1, <2>2, <2>3 DEF CallInv, CallHasOpen, OnlyPlanned, NoneSkipped, CancelsFirst, StampedSoFar, Steps, OpenStatuses
<1>2. CASE StampNotes
  <2> DEFINE run == FirstRun(call.to)
  <2>1. CASE call' = Idle
    BY <2>1, NothingToRelyOn DEF Idle
  <2>2. CASE call' # Idle
    <3>1. /\ call.pc = "stamp" /\ call'.pc \in {"stamp", "stamped"} /\ call'.rev = call.rev
          /\ call'.left = call.left /\ call'.answer = call.answer /\ UNCHANGED journal /\ call.rev \in Rows
          /\ call'.to = call.to \ run /\ (call'.pc = "stamped" => call.to = run)
          /\ stampedBy' = [n \in Notes |-> IF n \in run THEN call.rev ELSE stampedBy[n]]
      BY <1>2, <2>2 DEF StampNotes, TypeOK, Call, CallsRow
    <3>2. Answered' = Answered
      BY <3>1 DEF Answered
    <3>3. \A n \in journal[call.rev].notes : n \in Notes
      BY <3>1, RowFields
    <3>4. StampedSoFar'
      BY <3>1, <3>3 DEF StampedSoFar
    <3> QED
      BY <3>1, <3>2, <3>4 DEF CallInv, CallHasOpen, OnlyPlanned, NoneSkipped, CancelsFirst, Steps
  <2> QED
    BY <2>1, <2>2
<1> QED
  BY <1>1, <1>2

LEMMA CallInvKept ==
    ASSUME TypeOK, ApplyingInv, [Next]_vars
    PROVE  CallInv'
<1>1. CallInv
  BY DEF ApplyingInv, CallInv
<1>2. CASE ServerStep
  <2>1. CASE Supersede \/ AnswerFeedback \/ MarkStamped \/ Rebuild
    <3>1. Idle.pc = "idle"
      BY DEF Idle
    <3>2. CASE Supersede
      <4>1. call' = Idle \/ call' = [call EXCEPT !.pc = "answer"]
        BY <3>2 DEF Supersede
      <4>2. call'.pc \in {"idle", "answer"}
        BY <4>1, <3>1, CallFields DEF TypeOK, Call
      <4> QED
        BY <4>2, NothingToRelyOn
    <3>3. CASE AnswerFeedback \/ MarkStamped \/ Rebuild
      <4>1. call' = Idle
        BY <3>3 DEF AnswerFeedback, MarkStamped, Rebuild
      <4> QED
        BY <4>1, <3>1, NothingToRelyOn
    <3> QED
      BY <2>1, <3>2, <3>3
  <2> QED
    BY <1>2, <2>1, PreparingKeeps, SendingKeeps, RecordingKeeps, StampingKeeps DEF ServerStep
<1>3. CASE ClientStep
  <2>1. ASSUME NEW d \in SUBSET Targets, Propose(d)
        PROVE  call' = Idle
    BY <2>1 DEF Propose
  <2>2. ASSUME NEW d \in SUBSET Targets, NEW r \in Rows, Revise(r, d)
        PROVE  call'.pc \in {"supersede", "answer"}
    BY <2>2 DEF Revise, Idle
  <2>3. ASSUME NEW r \in Rows, Recheck(r)
        PROVE  call'.pc = "supersede"
    BY <2>3 DEF Recheck, Idle
  <2>4. ASSUME NEW r \in Rows, NeedsClaude(r) \/ Abandon(r)
        PROVE  call' = Idle
    BY <2>4 DEF NeedsClaude, Confirmable, Abandon
  <2>5. ASSUME NEW n \in Notes, WriteNote(n) \/ DeleteNote(n)
        PROVE  call' = Idle
    BY <2>5 DEF WriteNote, DeleteNote
  <2>6. Idle.pc = "idle"
    BY DEF Idle
  <2> QED
    BY <1>3, <2>1, <2>2, <2>3, <2>4, <2>5, <2>6, BeginsKeep, NothingToRelyOn DEF ClientStep
<1>4. CASE Environment
  <2>1. CASE BatchLost
    BY <2>1, SendingKeeps
  <2>2. CASE RecordRefused
    BY <2>2, RecordingKeeps
  <2>3. CASE CallStops
    BY <2>3, NothingToRelyOn DEF CallStops, Idle
  <2>4. CASE Sync
    BY <1>1, <2>4, CallInvUntouched, CallFields DEF Sync, TypeOK, Call
  <2>5. ASSUME NEW e \in Ids, ChangeElsewhere(e) \/ Purge(e)
        PROVE  CallInv'
    BY <1>1, <2>5, CallInvUntouched DEF ChangeElsewhere, Purge
  <2> QED
    BY <1>4, <2>1, <2>2, <2>3, <2>4, <2>5 DEF Environment
<1>5. CASE UNCHANGED vars
  BY <1>1, <1>5, CallInvUntouched DEF vars
<1> QED
  BY <1>2, <1>3, <1>4, <1>5 DEF Next

LEMMA ApplyingInvariant == Spec => [](TypeOK /\ ApplyingInv)
<1>1. Init => TypeOK /\ ApplyingInv
  BY InitTyped DEF Init, ApplyingInv, CallsRow, OneApplied, CallHasOpen, OnlyPlanned, NoneSkipped, CancelsFirst,
      StampedSoFar, RowsComplete, Idle, Rows, Steps
<1>2. TypeOK /\ ApplyingInv /\ [Next]_vars => (TypeOK /\ ApplyingInv)'
  BY StepTyped, OneAppliedKept, CallInvKept, RowsCompleteKept DEF ApplyingInv, CallInv
<1> QED
  BY <1>1, <1>2, PTL DEF Spec

\* At most one compaction is ever being applied, and it's its proposal's
\* current revision, however many the journal holds and wherever calls stop.
THEOREM OneIsApplied == Spec => []OneApplied
<1>1. ApplyingInv => OneApplied
  BY DEF ApplyingInv
<1> QED
  BY <1>1, ApplyingInvariant, PTL

\* A stamped revision is complete: each step made and marked, each note of
\* its window stamped with it, each cancel recorded -- whatever stopped it.
THEOREM StampedIsComplete == Spec => []CompleteWhenStamped
<1>1. ApplyingInv => CompleteWhenStamped
  BY DEF ApplyingInv, RowsComplete, CompleteWhenStamped
<1> QED
  BY <1>1, ApplyingInvariant, PTL

----------------------------------------------------------------------------
(* Which steps change what *)

\* The calendar changes as Calendar takes a write, or outside the server.
LEMMA CalSteps ==
    ASSUME [Next]_vars
    PROVE  \/ UNCHANGED cal
           \/ \E t \in Targets : CalendarTakes(t)
           \/ \E e \in Ids : ChangeElsewhere(e) \/ Purge(e)
<1>1. CASE ServerStep
  BY <1>1 DEF ServerStep, Supersede, AnswerFeedback, Begin, CreateAdditions, Prepare, CalendarRefuses,
      BatchAnswered, MarkDone, RecordCancellations, RecordLogs, MakeGoalChanges, MarkApplied, StampNotes,
      MarkStamped, RecordMade, Fail, Rebuild
<1>2. CASE ClientStep
  BY <1>2 DEF ClientStep, Propose, Revise, Confirm, Recheck, NeedsClaude, Finish, Abandon, WriteNote, DeleteNote
<1>3. CASE Environment
  BY <1>3 DEF Environment, BatchLost, RecordRefused, CallStops, Sync
<1>4. CASE UNCHANGED vars
  BY <1>4 DEF vars
<1> QED
  BY <1>1, <1>2, <1>3, <1>4 DEF Next

\* A write Calendar takes is the history's; nothing else is.
LEMMA MadeSteps ==
    ASSUME [Next]_vars
    PROVE  UNCHANGED made \/ \E t \in Targets : CalendarTakes(t)
<1>1. CASE ServerStep
  BY <1>1 DEF ServerStep, Supersede, AnswerFeedback, Begin, CreateAdditions, Prepare, CalendarRefuses,
      BatchAnswered, MarkDone, RecordCancellations, RecordLogs, MakeGoalChanges, MarkApplied, StampNotes,
      MarkStamped, RecordMade, Fail, Rebuild
<1>2. CASE ClientStep
  BY <1>2 DEF ClientStep, Propose, Revise, Confirm, Recheck, NeedsClaude, Finish, Abandon, WriteNote, DeleteNote
<1>3. CASE Environment
  BY <1>3 DEF Environment, BatchLost, RecordRefused, CallStops, Sync, ChangeElsewhere, Purge
<1>4. CASE UNCHANGED vars
  BY <1>4 DEF vars
<1> QED
  BY <1>1, <1>2, <1>3, <1>4 DEF Next

\* A note changes as it's written or deleted, with no call under way.
LEMMA NoteSteps ==
    ASSUME [Next]_vars
    PROVE  UNCHANGED note \/ \E n \in Notes : WriteNote(n) \/ DeleteNote(n)
<1>1. CASE ServerStep
  BY <1>1 DEF ServerStep, Supersede, AnswerFeedback, Begin, CreateAdditions, Prepare, CalendarTakes,
      CalendarRefuses, BatchAnswered, MarkDone, RecordCancellations, RecordLogs, MakeGoalChanges, MarkApplied,
      StampNotes, MarkStamped, RecordMade, Fail, Rebuild
<1>2. CASE ClientStep
  BY <1>2 DEF ClientStep, Propose, Revise, Confirm, Recheck, NeedsClaude, Finish, Abandon
<1>3. CASE Environment
  BY <1>3 DEF Environment, BatchLost, RecordRefused, CallStops, Sync, ChangeElsewhere, Purge
<1>4. CASE UNCHANGED vars
  BY <1>4 DEF vars
<1> QED
  BY <1>1, <1>2, <1>3, <1>4 DEF Next

\* How a call begins.
Begins(r) ==
    \/ Confirm(r) \/ Recheck(r) \/ Finish(r)
    \/ \E d \in SUBSET Targets : Revise(r, d)

\* A call goes on, about the same revision, or is over, or begins.
LEMMA CallSteps ==
    ASSUME TypeOK, [Next]_vars
    PROVE  \/ UNCHANGED call
           \/ call' = Idle
           \/ call.pc # "idle" /\ call'.rev = call.rev
           \/ call = Idle /\ \E r \in Rows : Begins(r)
<1> USE CallFields
<1>1. CASE ServerStep
  BY <1>1 DEF ServerStep, Supersede, AnswerFeedback, Begin, CreateAdditions, Prepare, CalendarTakes,
      CalendarRefuses, Answer, BatchAnswered, MarkDone, RecordCancellations, RecordLogs, MakeGoalChanges,
      MarkApplied, StampNotes, MarkStamped, RecordMade, Fail, Rebuild, Call, TypeOK
<1>2. CASE ClientStep
  <2>1. ASSUME NEW r \in Rows, NEW d \in SUBSET Targets, Revise(r, d)
        PROVE  call = Idle /\ Begins(r)
    BY <2>1 DEF Revise, Begins
  <2>2. ASSUME NEW r \in Rows, Confirm(r) \/ Recheck(r) \/ Finish(r)
        PROVE  call = Idle /\ Begins(r)
    BY <2>2 DEF Confirm, Recheck, Finish, Confirmable, Begins
  <2> QED
    BY <1>2, <2>1, <2>2 DEF ClientStep, Propose, NeedsClaude, Abandon, WriteNote, DeleteNote
<1>3. CASE Environment
  BY <1>3 DEF Environment, BatchLost, RecordRefused, CallStops, Sync, ChangeElsewhere, Purge, Call, TypeOK
<1>4. CASE UNCHANGED vars
  BY <1>4 DEF vars
<1> QED
  BY <1>1, <1>2, <1>3, <1>4 DEF Next

\* The call that begins a revision is the one that confirmed it.
LEMMA BeginSteps ==
    ASSUME TypeOK, [Next]_vars, call'.pc = "begin"
    PROVE  \/ call.pc = "begin" /\ call'.rev = call.rev
           \/ \E r \in Rows : Confirm(r) /\ call'.rev = r
<1> USE CallFields
<1>0. Idle.pc = "idle"
  BY DEF Idle
<1>1. CASE ServerStep
  <2>1. CASE Supersede \/ AnswerFeedback \/ Begin \/ CreateAdditions
    <3>1. call' = Idle \/ call'.pc # "begin"
      BY <2>1 DEF Supersede, AnswerFeedback, Begin, CreateAdditions, Call, TypeOK
    <3> QED
      BY <1>0, <3>1
  <2>2. CASE Prepare
    BY <2>2 DEF Prepare, Call, TypeOK
  <2>3. CASE BatchAnswered
    BY <2>3 DEF BatchAnswered, Call, TypeOK
  <2>4. CASE \E t \in Targets : CalendarTakes(t) \/ CalendarRefuses(t)
    BY <2>4 DEF CalendarTakes, CalendarRefuses, Answer, Call, TypeOK
  <2>5. CASE MarkDone \/ RecordCancellations \/ RecordLogs \/ MakeGoalChanges \/ MarkApplied
    <3>1. call' = Idle \/ call'.pc # "begin"
      BY <2>5 DEF MarkDone, RecordCancellations, RecordLogs, MakeGoalChanges, MarkApplied, Call, TypeOK
    <3> QED
      BY <1>0, <3>1
  <2>6. CASE StampNotes \/ MarkStamped \/ RecordMade \/ Fail \/ Rebuild
    <3>1. call' = Idle \/ call'.pc # "begin"
      BY <2>6 DEF StampNotes, MarkStamped, RecordMade, Fail, Rebuild, Call, TypeOK
    <3> QED
      BY <1>0, <3>1
  <2> QED
    BY <1>1, <2>1, <2>2, <2>3, <2>4, <2>5, <2>6 DEF ServerStep
<1>2. CASE ClientStep
  <2>1. ASSUME NEW r \in Rows, NEW d \in SUBSET Targets, Revise(r, d)
        PROVE  FALSE
    BY <2>1 DEF Revise, Idle
  <2>2. ASSUME NEW r \in Rows, Recheck(r) \/ Finish(r)
        PROVE  FALSE
    BY <2>2 DEF Recheck, Finish, Idle
  <2>3. ASSUME NEW r \in Rows, Confirm(r)
        PROVE  call'.rev = r
    BY <2>3 DEF Confirm, Idle
  <2> QED
    BY <1>2, <2>1, <2>2, <2>3 DEF ClientStep, Propose, NeedsClaude, Confirmable, Abandon, WriteNote, DeleteNote, Idle
<1>3. CASE Environment
  <2>1. CASE BatchLost \/ RecordRefused \/ CallStops \/ Sync
    BY <1>0, <2>1 DEF BatchLost, RecordRefused, CallStops, Sync, Call, TypeOK
  <2>2. CASE \E e \in Ids : ChangeElsewhere(e) \/ Purge(e)
    BY <2>2 DEF ChangeElsewhere, Purge
  <2> QED
    BY <1>3, <2>1, <2>2 DEF Environment
<1>4. CASE UNCHANGED vars
  BY <1>4 DEF vars
<1> QED
  BY <1>1, <1>2, <1>3, <1>4 DEF Next

----------------------------------------------------------------------------
(* The notes of a compaction being applied can be stamped *)

\* So can those of one confirmed, before it's begun: it was planned again on
\* the window as it is, and no note's deleted during a call.
ConfirmedStampable == call.pc = "begin" => Stampable(call.rev)

\* A revision that's open, or about to be.
Applying(r) ==
    /\ r \in Rows
    /\ journal[r].status \in OpenStatuses \/ (call.pc = "begin" /\ r = call.rev)

\* A revision open after a step was, or was about to be, before it.
LEMMA OpenBefore ==
    ASSUME TypeOK, CallsRow, CallHasOpen, [Next]_vars, NEW r \in Rows', journal'[r].status \in OpenStatuses
    PROVE  Applying(r)
<1> USE DEF Applying
<1>1. CASE r = call.rev /\ Begin
  BY <1>1 DEF Begin, CallsRow
<1>2. CASE r = call.rev /\ MarkApplied
  BY <1>2 DEF MarkApplied, CallsRow, CallHasOpen, Steps
<1> QED
  BY <1>1, <1>2, StatusSteps DEF OpenStatuses

LEMMA StampableKept ==
    ASSUME TypeOK, ApplyingInv, [Next]_vars, NEW r, Applying(r), Stampable(r)
    PROVE  Stampable(r)'
<1>1. r \in Rows /\ journal'[r].notes = journal[r].notes /\ journal[r].notes \subseteq Notes
  BY RowsKept, RowFields DEF Applying, Fixed
<1>2. \A n \in journal[r].notes : note'[n] = "there"
  <2>1. ASSUME NEW n \in Notes, DeleteNote(n)
        PROVE  n \notin journal[r].notes
    BY <2>1, <1>1 DEF DeleteNote, BeingApplied, Applying, Idle
  <2>2. ASSUME NEW n \in Notes, WriteNote(n)
        PROVE  n \notin journal[r].notes
    BY <2>2 DEF WriteNote, Stampable
  <2> QED
    BY <2>1, <2>2, <1>1, NoteSteps DEF Stampable, WriteNote, DeleteNote, TypeOK
<1>3. \A n \in journal[r].notes : stampedBy'[n] \in {0, r}
  <2>1. CASE StampNotes
    <3>1. r = call.rev
      BY <2>1 DEF StampNotes, ApplyingInv, CallsRow, CallHasOpen, OneApplied, Applying, Steps
    <3>2. \A n \in Notes : stampedBy'[n] \in {call.rev, stampedBy[n]}
      BY <2>1 DEF StampNotes
    <3> QED
      BY <1>1, <3>1, <3>2 DEF Stampable
  <2> QED
    BY <2>1, NothingTakenBack DEF Stampable
<1> QED
  BY <1>1, <1>2, <1>3 DEF Stampable

\* The notes of a compaction being applied are there, and no other's, until
\* it's stamped them, however often that stops: what mark_compacted refuses
\* never comes about.
THEOREM NotesCanBeStamped == Spec => []NotesStayStampable
<1>1. Init => NotesStayStampable /\ ConfirmedStampable
  BY DEF Init, NotesStayStampable, ConfirmedStampable, Rows, Idle
<1>2. (TypeOK /\ ApplyingInv) /\ (NotesStayStampable /\ ConfirmedStampable) /\ [Next]_vars
      => (NotesStayStampable /\ ConfirmedStampable)'
  <2> SUFFICES ASSUME TypeOK, ApplyingInv, NotesStayStampable, ConfirmedStampable, [Next]_vars
               PROVE  (NotesStayStampable /\ ConfirmedStampable)'
    OBVIOUS
  <2>1. ASSUME NEW r, Applying(r)
        PROVE  Stampable(r)'
    BY <2>1, StampableKept DEF Applying, NotesStayStampable, ConfirmedStampable
  <2>2. NotesStayStampable'
    BY <2>1, OpenBefore DEF NotesStayStampable, ApplyingInv
  <2>3. ASSUME NEW r \in Rows, Confirm(r), call'.rev = r
        PROVE  Stampable(r)'
    BY <2>3 DEF Confirm, ReplansTheSame, Window, Stampable
  <2>4. call.pc = "begin" => Applying(call.rev)
    BY DEF Applying, ApplyingInv, CallsRow
  <2>5. ConfirmedStampable'
    <3>1. CASE call.pc = "begin" /\ call'.rev = call.rev
      BY <3>1, <2>1, <2>4 DEF ConfirmedStampable, Stampable
    <3>2. CASE \E r \in Rows : Confirm(r) /\ call'.rev = r
      BY <3>2, <2>3 DEF ConfirmedStampable, Stampable
    <3> QED
      BY <3>1, <3>2, BeginSteps DEF ConfirmedStampable
  <2> QED
    BY <2>2, <2>5
<1> QED
  BY <1>1, <1>2, ApplyingInvariant, PTL DEF Spec

----------------------------------------------------------------------------
(* Changes made elsewhere aren't written over *)

Reading == {"begin", "additions", "prepare", "send"}

\* What a call has read of an event it updates is a version of it: the
\* calendar's now, or an older one, which another etag tells.
ReadsVersions ==
    call.pc \in Reading => \A t \in Of("update") :
        /\ call.read[<<0, t>>].etag <= cal[<<0, t>>].etag
        /\ call.read[<<0, t>>].etag = cal[<<0, t>>].etag => call.read[<<0, t>>] = cal[<<0, t>>]

\* An update still to send was read as it was planned from, or as planned.
SendsAsRead ==
    call.pc = "send" => \A t \in call.left \cap Of("update") :
        call.read[<<0, t>>].val \in {journal[call.rev].before[t], "wanted"}

LEMMA UpdatesIds == \A t \in Of("update") : t \in Targets /\ <<0, t>> \in Ids /\ t \notin Of("create")
BY DEF Of, Ids

\* An event an update writes stays the version it is, or comes to be a later one.
LEMMA VersionsGrow ==
    ASSUME TypeOK, [Next]_vars, NEW u \in Of("update")
    PROVE  \/ cal'[<<0, u>>] = cal[<<0, u>>]
           \/ cal'[<<0, u>>].etag = cal[<<0, u>>].etag + 1
<1> DEFINE e == <<0, u>>
<1>1. e \in Ids /\ u \in Targets /\ u \notin Of("create")
  BY UpdatesIds
<1>2. ASSUME NEW t \in Targets, CalendarTakes(t)
      PROVE  \/ cal'[e] = cal[e]
             \/ cal'[e].etag = cal[e].etag + 1
  <2>1. cal' = [cal EXCEPT ![EventOf(call.rev, t)] = WriteOf(t, EventOf(call.rev, t))]
    BY <1>2 DEF CalendarTakes
  <2>2. CASE EventOf(call.rev, t) = e
    <3>1. t = u
      BY <2>2, <1>1, CallFields DEF EventOf
    <3>2. WriteOf(t, e) = NewVersion(e, "wanted", cal[e].status)
      BY <3>1, <1>1 DEF WriteOf
    <3> QED
      BY <2>1, <2>2, <3>2, <1>1 DEF NewVersion, TypeOK
  <2>3. CASE EventOf(call.rev, t) # e
    BY <2>1, <2>3, <1>1 DEF TypeOK
  <2> QED
    BY <2>2, <2>3
<1>3. ASSUME NEW d \in Ids, ChangeElsewhere(d) \/ Purge(d)
      PROVE  \/ cal'[e] = cal[e]
             \/ cal'[e].etag = cal[e].etag + 1
  <2>1. PICK v, s : cal' = [cal EXCEPT ![d] = NewVersion(d, v, s)]
    BY <1>3 DEF ChangeElsewhere, Purge
  <2>2. NewVersion(d, v, s).etag = cal[d].etag + 1
    BY DEF NewVersion
  <2>3. cal'[d] = NewVersion(d, v, s) /\ \A i \in Ids : i # d => cal'[i] = cal[i]
    BY <2>1 DEF TypeOK
  <2> QED
    BY <2>2, <2>3, <1>1
<1> QED
  BY <1>2, <1>3, CalSteps

\* How a call comes to hold what it reads: it's read afresh, or kept.
LEMMA ReadSteps ==
    ASSUME TypeOK, [Next]_vars, call'.pc \in Reading
    PROVE  \/ call.pc \in Reading /\ call'.read = call.read
           \/ call'.read = cal /\ UNCHANGED cal
           \/ Prepare /\ call'.read = [e \in Ids |-> Got(e)] /\ UNCHANGED cal
<1> USE CallFields DEF Reading
<1>0. Idle.pc = "idle"
  BY DEF Idle
<1>1. CASE ServerStep
  <2>1. CASE Supersede \/ AnswerFeedback \/ Begin \/ CreateAdditions
    <3>1. call' = Idle \/ call'.pc = "answer" \/ (call.pc \in Reading /\ call'.read = call.read)
      BY <2>1 DEF Supersede, AnswerFeedback, Begin, CreateAdditions, Call, TypeOK
    <3> QED
      BY <1>0, <3>1
  <2>2. CASE Prepare
    BY <2>2 DEF Prepare, Call, TypeOK
  <2>3. CASE BatchAnswered
    BY <2>3 DEF BatchAnswered, Call, TypeOK
  <2>4. CASE \E t \in Targets : CalendarTakes(t) \/ CalendarRefuses(t)
    BY <2>4 DEF CalendarTakes, CalendarRefuses, Answer, Call, TypeOK
  <2>5. CASE MarkDone \/ RecordCancellations \/ RecordLogs \/ MakeGoalChanges \/ MarkApplied
    <3>1. call' = Idle \/ call'.pc \notin Reading
      BY <2>5 DEF MarkDone, RecordCancellations, RecordLogs, MakeGoalChanges, MarkApplied, Call, TypeOK
    <3> QED
      BY <1>0, <3>1
  <2>6. CASE StampNotes \/ MarkStamped \/ RecordMade \/ Fail \/ Rebuild
    <3>1. call' = Idle \/ call'.pc \notin Reading
      BY <2>6 DEF StampNotes, MarkStamped, RecordMade, Fail, Rebuild, Call, TypeOK
    <3> QED
      BY <1>0, <3>1
  <2> QED
    BY <1>1, <2>1, <2>2, <2>3, <2>4, <2>5, <2>6 DEF ServerStep
<1>2. CASE ClientStep
  <2>1. ASSUME NEW r \in Rows, NEW d \in SUBSET Targets, Revise(r, d)
        PROVE  FALSE
    BY <2>1 DEF Revise, Idle
  <2>2. ASSUME NEW r \in Rows, Recheck(r)
        PROVE  FALSE
    BY <2>2 DEF Recheck, Idle
  <2>3. ASSUME NEW r \in Rows, Confirm(r) \/ Finish(r)
        PROVE  call'.read = cal /\ UNCHANGED cal
    BY <2>3 DEF Confirm, Finish, Idle
  <2> QED
    BY <1>0, <1>2, <2>1, <2>2, <2>3 DEF ClientStep, Propose, NeedsClaude, Confirmable, Abandon, WriteNote, DeleteNote
<1>3. CASE Environment
  <2>1. CASE BatchLost \/ RecordRefused \/ CallStops \/ Sync
    BY <1>0, <2>1 DEF BatchLost, RecordRefused, CallStops, Sync, Call, TypeOK
  <2>2. CASE \E e \in Ids : ChangeElsewhere(e) \/ Purge(e)
    BY <2>2 DEF ChangeElsewhere, Purge
  <2> QED
    BY <1>3, <2>1, <2>2 DEF Environment
<1>4. CASE UNCHANGED vars
  BY <1>4 DEF vars
<1> QED
  BY <1>1, <1>2, <1>3, <1>4 DEF Next

LEMMA ReadsVersionsKept ==
    ASSUME TypeOK, ReadsVersions, [Next]_vars
    PROVE  ReadsVersions'
<1> SUFFICES ASSUME call'.pc \in Reading, NEW t \in Of("update")
             PROVE  /\ call'.read[<<0, t>>].etag <= cal'[<<0, t>>].etag
                    /\ call'.read[<<0, t>>].etag = cal'[<<0, t>>].etag => call'.read[<<0, t>>] = cal'[<<0, t>>]
  BY DEF ReadsVersions
<1>1. /\ <<0, t>> \in Ids
      /\ cal[<<0, t>>].etag \in Nat /\ call.read[<<0, t>>].etag \in Nat
  BY UpdatesIds, CallFields DEF TypeOK, Event
<1>2. CASE call.pc \in Reading /\ call'.read = call.read
  BY <1>1, <1>2, VersionsGrow DEF ReadsVersions
<1>3. CASE call'.read = cal /\ UNCHANGED cal
  BY <1>1, <1>3
<1>4. CASE Prepare /\ call'.read = [e \in Ids |-> Got(e)] /\ UNCHANGED cal
  <2>1. call'.read[<<0, t>>] \in {call.read[<<0, t>>], cal[<<0, t>>]} /\ call.pc \in Reading
    BY <1>1, <1>4 DEF Got, Prepare, Reading
  <2> QED
    BY <1>1, <1>4, <2>1 DEF ReadsVersions
<1> QED
  BY <1>2, <1>3, <1>4, ReadSteps

LEMMA SendsAsReadKept ==
    ASSUME TypeOK, CallsRow, SendsAsRead, [Next]_vars
    PROVE  SendsAsRead'
<1> USE CallFields
<1> SUFFICES ASSUME call'.pc = "send", NEW t \in call'.left \cap Of("update")
             PROVE  call'.read[<<0, t>>].val \in {journal'[call'.rev].before[t], "wanted"}
  BY DEF SendsAsRead
<1>1. \/ /\ call.pc = "send" /\ call'.rev = call.rev /\ call'.read = call.read
         /\ call'.left \subseteq call.left
      \/ Prepare
  <2>0. Idle.pc = "idle"
    BY DEF Idle
  <2>1. CASE ServerStep
    <3>1. CASE Supersede \/ AnswerFeedback \/ Begin \/ CreateAdditions
      <4>1. call' = Idle \/ call'.pc # "send"
        BY <3>1 DEF Supersede, AnswerFeedback, Begin, CreateAdditions, Call, TypeOK
      <4> QED
        BY <2>0, <4>1
    <3>3. CASE BatchAnswered
      BY <3>3 DEF BatchAnswered, Call, TypeOK
    <3>4. CASE \E u \in Targets : CalendarTakes(u) \/ CalendarRefuses(u)
      BY <3>4 DEF CalendarTakes, CalendarRefuses, Answer, Call, TypeOK
    <3>5. CASE MarkDone \/ RecordCancellations \/ RecordLogs \/ MakeGoalChanges \/ MarkApplied
      <4>1. call' = Idle \/ call'.pc # "send"
        BY <3>5 DEF MarkDone, RecordCancellations, RecordLogs, MakeGoalChanges, MarkApplied, Call, TypeOK
      <4> QED
        BY <2>0, <4>1
    <3>6. CASE StampNotes \/ MarkStamped \/ RecordMade \/ Fail \/ Rebuild
      <4>1. call' = Idle \/ call'.pc # "send"
        BY <3>6 DEF StampNotes, MarkStamped, RecordMade, Fail, Rebuild, Call, TypeOK
      <4> QED
        BY <2>0, <4>1
    <3> QED
      BY <2>1, <3>1, <3>3, <3>4, <3>5, <3>6 DEF ServerStep
  <2>2. CASE ClientStep
    <3>1. ASSUME NEW r \in Rows, NEW d \in SUBSET Targets, Revise(r, d)
          PROVE  FALSE
      BY <3>1 DEF Revise, Idle
    <3>2. ASSUME NEW r \in Rows, Recheck(r) \/ Confirm(r) \/ Finish(r)
          PROVE  FALSE
      BY <3>2 DEF Recheck, Confirm, Finish, Idle
    <3> QED
      BY <2>0, <2>2, <3>1, <3>2 DEF ClientStep, Propose, NeedsClaude, Confirmable, Abandon, WriteNote, DeleteNote
  <2>3. CASE Environment
    <3>1. CASE BatchLost \/ RecordRefused \/ CallStops \/ Sync
      BY <2>0, <3>1 DEF BatchLost, RecordRefused, CallStops, Sync, Call, TypeOK
    <3>2. CASE \E e \in Ids : ChangeElsewhere(e) \/ Purge(e)
      BY <3>2 DEF ChangeElsewhere, Purge
    <3> QED
      BY <2>3, <3>1, <3>2 DEF Environment
  <2>4. CASE UNCHANGED vars
    BY <2>4 DEF vars
  <2> QED
    BY <2>1, <2>2, <2>3, <2>4 DEF Next
<1>2. CASE Prepare
  <2> DEFINE pending == journal[call.rev].planned \ journal[call.rev].done
             changed == ChangedSince(call.rev, pending)
  <2>1. /\ call'.rev = call.rev /\ UNCHANGED journal
        /\ call'.read = [e \in Ids |-> Got(e)] /\ call'.left = {u \in pending : \A s \in changed : u < s}
    BY <1>2 DEF Prepare, Call, TypeOK
  <2>2. t \in pending /\ \A s \in changed : t < s
    BY <2>1
  <2>3. t \notin changed
    <3>1. t \in Nat
      BY TargetsNat, UpdatesIds
    <3>2. ~(t < t)
      BY <3>1
    <3> QED
      BY <2>2, <3>2
  <2> QED
    BY <2>1, <2>2, <2>3, UpdatesIds DEF ChangedSince
<1>3. CASE /\ call.pc = "send" /\ call'.rev = call.rev /\ call'.read = call.read
           /\ call'.left \subseteq call.left
  <2>1. journal'[call.rev].before = journal[call.rev].before
    BY <1>3, RowsKept DEF Fixed, CallsRow
  <2> QED
    BY <1>3, <2>1 DEF SendsAsRead
<1> QED
  BY <1>1, <1>2, <1>3

\* No update writes over a change made elsewhere that the confirmed revision
\* wasn't planned on, whenever the change comes: the fields compared as the
\* requests are made and the version they're sent on leave no gap.
THEOREM OutsideChangesAreKept == Spec => OutsideChangesKept
<1> DEFINE Inv == TypeOK /\ CallsRow /\ ReadsVersions /\ SendsAsRead
<1>1. Init => Inv
  BY InitTyped DEF Init, CallsRow, ReadsVersions, SendsAsRead, Reading, Idle
<1>2. Inv /\ [Next]_vars => Inv'
  BY StepTyped, ReadsVersionsKept, SendsAsReadKept
<1>3. Inv /\ [Next]_vars
      => [\A t \in Of("update") :
            cal[<<0, t>>].val = "outside" /\ cal'[<<0, t>>].val = "wanted"
            => journal[call.rev].before[t] = "outside"]_vars
  <2> SUFFICES ASSUME Inv, Next, NEW t \in Of("update"),
                      cal[<<0, t>>].val = "outside", cal'[<<0, t>>].val = "wanted"
               PROVE  journal[call.rev].before[t] = "outside"
    OBVIOUS
  <2> DEFINE e == <<0, t>>
  <2>1. e \in Ids /\ t \in Targets /\ t \notin Of("create")
    BY UpdatesIds
  <2>2. ASSUME NEW d \in Ids, ChangeElsewhere(d) \/ Purge(d)
        PROVE  FALSE
    <3>0. PICK v \in {cal[d].val, "outside"} : \E s : cal' = [cal EXCEPT ![d] = NewVersion(d, v, s)]
      BY <2>2 DEF ChangeElsewhere, Purge
    <3>1. PICK s : cal' = [cal EXCEPT ![d] = NewVersion(d, v, s)]
      BY <3>0
    <3>2. NewVersion(d, v, s).val = v
      BY DEF NewVersion
    <3>3. cal'[d] = NewVersion(d, v, s) /\ \A i \in Ids : i # d => cal'[i] = cal[i]
      BY <3>1 DEF TypeOK
    <3> QED
      BY <3>2, <3>3, <2>1
  <2>3. PICK u \in Targets : CalendarTakes(u)
    BY <2>2, CalSteps
  <2>4. u = t
    <3>1. EventOf(call.rev, u) = e
      BY <2>1, <2>3 DEF CalendarTakes, TypeOK
    <3> QED
      BY <3>1, <2>1 DEF EventOf
  <2>5. call.pc = "send" /\ t \in call.left /\ Matches(e)
    BY <2>1, <2>3, <2>4 DEF CalendarTakes, Batch, EventOf
  <2>6. call.read[e] = cal[e]
    BY <2>5 DEF ReadsVersions, Reading, Matches
  <2> QED
    BY <2>5, <2>6 DEF SendsAsRead
<1> QED
  BY <1>1, <1>2, <1>3, PTL DEF Spec, OutsideChangesKept

----------------------------------------------------------------------------
(* The journal has room *)

\* Whether a step revision r has planned is for an event that's gone.
SomeGone(r) == \E t \in journal[r].planned \ Of("create") : cal[<<0, t>>].status = "gone"

\* Whether the call has found one so.
FoundGone ==
    \/ call.pc \in {"record made", "fail", "rebuild"}
    \/ call.why = "gone" \/ \E t \in Targets : call.answer[t] = "gone"

\* Room for one revision more.
Room == Len(journal) < MaxRevisions + purges

\* The journal holds no more revisions than Claude's and one for each event
\* gone: a revision is rebuilt only once an event it was still to write has
\* gone since it was confirmed, so there's room for what it's rebuilt as.
Bounded ==
    /\ purges <= MaxPurges
    /\ Len(journal) <= MaxRevisions + purges
    /\ \A r : Applying(r) /\ SomeGone(r) => Room
    /\ FoundGone => Room

\* A revision a call is about to begin, or to supersede, is still proposed.
StillProposed == call.pc \in {"begin", "supersede"} => journal[call.rev].status = "proposed"

LEMMA LengthNat ==
    ASSUME TypeOK
    PROVE  /\ Len(journal) \in Nat /\ Rows = 1..Len(journal)
           /\ MaxRevisions \in Nat /\ MaxPurges \in Nat /\ purges \in Nat
BY LenProperties, BoundsAssumption DEF TypeOK, Rows

\* A row rewritten leaves the journal as long as it was.
LEMMA RowRewrites ==
    ASSUME TypeOK, (\E q, status : SetStatus(q, status)) \/ MarkDone \/ MarkApplied
    PROVE  DOMAIN journal' = DOMAIN journal /\ Len(journal') = Len(journal)
<1>1. DOMAIN journal' = DOMAIN journal
  BY DEF SetStatus, MarkDone, MarkApplied
<1>2. CASE MarkDone \/ MarkApplied
  <2>1. \E x : journal' = [journal EXCEPT ![call.rev] = x]
    BY <1>2 DEF MarkDone, MarkApplied
  <2> QED
    BY <1>1, <2>1 DEF TypeOK
<1>3. CASE \E q, status : SetStatus(q, status)
  <2>1. \E q, x : journal' = [journal EXCEPT ![q] = x]
    BY <1>3 DEF SetStatus
  <2> QED
    BY <1>1, <2>1 DEF TypeOK
<1> QED
  BY <1>2, <1>3

\* A revision is added as Claude's, by a call that begins, or as rebuilt.
LEMMA AppendSteps ==
    ASSUME TypeOK, CallsRow, [Next]_vars
    PROVE  \/ Rows' = Rows /\ Len(journal') = Len(journal)
           \/ \E x : /\ journal' = Append(journal, x) /\ x.status = "proposed" /\ x.planned \subseteq Targets
                     /\ Len(journal') = Len(journal) + 1
                     /\ \/ Len(journal) < MaxRevisions /\ call'.pc \in {"idle", "supersede", "answer"} /\ ~FoundGone'
                        \/ Rebuild
                     /\ UNCHANGED <<made, purges>>
<1> USE CallFields
<1>0. /\ Idle.pc = "idle" /\ Idle.why = "none" /\ \A t \in Targets : Idle.answer[t] = "none"
  BY DEF Idle
<1>1. \A x : Len(Append(journal, x)) = Len(journal) + 1
  BY DEF TypeOK
<1>2. \A p, reason, d, settled : /\ Plan(p, reason, d, settled).status = "proposed"
                                 /\ Plan(p, reason, d, settled).planned = Changes(d, cal)
  BY DEF Plan
<1>9. \A d \in SUBSET Targets : Changes(d, cal) \subseteq Targets
  BY DEF Changes
<1>3. CASE Rebuild
  <2>1. CASE UNCHANGED journal
    BY <2>1 DEF Rows
  <2>2. CASE ~UNCHANGED journal
    <3>1. Carried(call.rev, SettledBy(call.rev)) \in SUBSET Targets
      BY <1>3, RowFields DEF Carried, CallsRow, Rebuild
    <3>2. /\ journal' = Append(journal, Plan(journal[call.rev].proposal, "apply failed",
                                             Carried(call.rev, SettledBy(call.rev)), SettledBy(call.rev)))
          /\ UNCHANGED <<made, purges>>
      BY <1>3, <2>2 DEF Rebuild, budgets
    <3> DEFINE x == Plan(journal[call.rev].proposal, "apply failed",
                         Carried(call.rev, SettledBy(call.rev)), SettledBy(call.rev))
    <3>3. x.status = "proposed" /\ x.planned \subseteq Targets /\ Len(Append(journal, x)) = Len(journal) + 1
      <4>1. x.status = "proposed" /\ x.planned = Changes(Carried(call.rev, SettledBy(call.rev)), cal)
        BY DEF Plan
      <4>2. Changes(Carried(call.rev, SettledBy(call.rev)), cal) \subseteq Targets
        BY <1>9, <3>1
      <4> QED
        BY <1>1, <4>1, <4>2
    <3>4. journal' = Append(journal, x)
      BY <3>2
    <3> HIDE DEF x
    <3> QED
      BY <1>3, <3>2, <3>3, <3>4
  <2> QED
    BY <2>1, <2>2
<1>4. ASSUME NEW d \in SUBSET Targets, Propose(d)
      PROVE  \E x : /\ journal' = Append(journal, x) /\ x.status = "proposed" /\ x.planned \subseteq Targets
                    /\ Len(journal) < MaxRevisions /\ call'.pc = "idle" /\ ~FoundGone'
                    /\ UNCHANGED <<made, purges>>
  <2>1. call' = Idle
    BY <1>4 DEF Propose
  <2>2. ~FoundGone' /\ call'.pc = "idle"
    BY <1>0, <2>1 DEF FoundGone
  <2> QED
    BY <1>2, <1>4, <1>9, <2>2 DEF Propose, budgets
<1>5. ASSUME NEW d \in SUBSET Targets, NEW r \in Rows, Revise(r, d)
      PROVE  \E x : /\ journal' = Append(journal, x) /\ x.status = "proposed" /\ x.planned \subseteq Targets
                    /\ Len(journal) < MaxRevisions /\ call'.pc \in {"supersede", "answer"} /\ ~FoundGone'
                    /\ UNCHANGED <<made, purges>>
  <2>1. /\ call'.pc \in {"supersede", "answer"} /\ call'.why = "none"
        /\ \A t \in Targets : call'.answer[t] = "none"
    BY <1>5 DEF Revise, Idle
  <2>2. ~FoundGone'
    BY <2>1 DEF FoundGone
  <2> QED
    BY <1>2, <1>5, <1>9, <2>1, <2>2 DEF Revise, budgets
<1>6. ASSUME NEW r \in Rows, Recheck(r)
      PROVE  \E x : /\ journal' = Append(journal, x) /\ x.status = "proposed" /\ x.planned \subseteq Targets
                    /\ Len(journal) < MaxRevisions /\ call'.pc = "supersede" /\ ~FoundGone'
                    /\ UNCHANGED <<made, purges>>
  <2>1. /\ call'.pc = "supersede" /\ call'.why = "none"
        /\ \A t \in Targets : call'.answer[t] = "none"
    BY <1>6 DEF Recheck, Idle
  <2>2. ~FoundGone' /\ journal[r].decided \in SUBSET Targets
    BY <2>1, RowFields DEF FoundGone
  <2> QED
    BY <1>2, <1>6, <1>9, <2>1, <2>2 DEF Recheck, budgets
<1>7. CASE UNCHANGED journal
  BY <1>7 DEF Rows
<1>8. CASE (\E q, status : SetStatus(q, status)) \/ MarkDone \/ MarkApplied
  BY <1>8, RowRewrites DEF Rows
<1> QED
  <2>1. CASE ServerStep
    BY <2>1, <1>3, <1>7, <1>8 DEF ServerStep, Supersede, AnswerFeedback, Begin, CreateAdditions, Prepare,
        CalendarTakes, CalendarRefuses, BatchAnswered, RecordCancellations, RecordLogs, MakeGoalChanges,
        StampNotes, MarkStamped, RecordMade, Fail
  <2>2. CASE ClientStep
    <3>1. ASSUME NEW r \in Rows, Confirm(r) \/ NeedsClaude(r) \/ Finish(r)
          PROVE  UNCHANGED journal
      BY <3>1 DEF Confirm, NeedsClaude, Finish
    <3>2. ASSUME NEW r \in Rows, Abandon(r)
          PROVE  SetStatus(r, "abandoned")
      BY <3>2 DEF Abandon
    <3>3. ASSUME NEW n \in Notes, WriteNote(n) \/ DeleteNote(n)
          PROVE  UNCHANGED journal
      BY <3>3 DEF WriteNote, DeleteNote
    <3>4. CASE \E d \in SUBSET Targets : Propose(d) \/ \E r \in Rows : Revise(r, d)
      BY <3>4, <1>1, <1>4, <1>5
    <3>5. CASE \E r \in Rows : Recheck(r)
      BY <3>5, <1>1, <1>6
    <3> QED
      BY <2>2, <3>1, <3>2, <3>3, <3>4, <3>5, <1>7, <1>8 DEF ClientStep
  <2>3. CASE Environment
    BY <2>3, <1>7 DEF Environment, BatchLost, RecordRefused, CallStops, Sync, ChangeElsewhere, Purge
  <2>4. CASE UNCHANGED vars
    BY <2>4, <1>7 DEF vars
  <2> QED
    BY <2>1, <2>2, <2>3, <2>4 DEF Next

\* What's counted of the events gone only grows.
LEMMA PurgeSteps ==
    ASSUME [Next]_vars
    PROVE  UNCHANGED purges \/ \E e \in Ids : Purge(e)
<1>1. CASE ServerStep
  BY <1>1 DEF ServerStep, Supersede, AnswerFeedback, Begin, CreateAdditions, Prepare, CalendarTakes,
      CalendarRefuses, BatchAnswered, MarkDone, RecordCancellations, RecordLogs, MakeGoalChanges, MarkApplied,
      StampNotes, MarkStamped, RecordMade, Fail, Rebuild, budgets
<1>2. CASE ClientStep
  BY <1>2 DEF ClientStep, Propose, Revise, Confirm, Recheck, NeedsClaude, Finish, Abandon, WriteNote, DeleteNote, budgets
<1>3. CASE Environment
  BY <1>3 DEF Environment, BatchLost, RecordRefused, CallStops, Sync, ChangeElsewhere, budgets
<1>4. CASE UNCHANGED vars
  BY <1>4 DEF vars, budgets
<1> QED
  BY <1>1, <1>2, <1>3, <1>4 DEF Next

\* An event the calendar had comes to be gone only by a purge: the server's
\* own writes don't take one away.
LEMMA GoneSteps ==
    ASSUME TypeOK, [Next]_vars, NEW t \in Targets \ Of("create"), cal'[<<0, t>>].status = "gone"
    PROVE  cal[<<0, t>>].status = "gone" \/ \E e \in Ids : Purge(e)
<1> DEFINE e == <<0, t>>
<1>1. e \in Ids
  BY DEF Ids
<1>2. ASSUME NEW u \in Targets, CalendarTakes(u)
      PROVE  cal[e].status = "gone"
  <2>1. cal' = [cal EXCEPT ![EventOf(call.rev, u)] = WriteOf(u, EventOf(call.rev, u))]
    BY <1>2 DEF CalendarTakes
  <2>2. CASE EventOf(call.rev, u) = e
    <3>1. u = t /\ cal[e].status # "gone"
      BY <1>2, <2>2 DEF EventOf, CalendarTakes
    <3>2. WriteOf(t, e).status \in {cal[e].status, "cancelled"}
      BY DEF WriteOf, NewVersion
    <3>3. cal'[e] = WriteOf(t, e)
      BY <1>1, <2>1, <2>2, <3>1 DEF TypeOK
    <3> QED
      BY <3>1, <3>2, <3>3
  <2>3. CASE EventOf(call.rev, u) # e
    BY <1>1, <2>1, <2>3 DEF TypeOK
  <2> QED
    BY <2>2, <2>3
<1>3. ASSUME NEW d \in Ids, ChangeElsewhere(d)
      PROVE  cal[e].status = "gone"
  <2>1. PICK v \in {cal[d].val, "outside"}, s \in {"live", "cancelled"} : cal' = [cal EXCEPT ![d] = NewVersion(d, v, s)]
    BY <1>3 DEF ChangeElsewhere
  <2>2. NewVersion(d, v, s).status = s
    BY DEF NewVersion
  <2>3. cal'[d] = NewVersion(d, v, s) /\ \A i \in Ids : i # d => cal'[i] = cal[i]
    BY <2>1 DEF TypeOK
  <2> QED
    BY <1>1, <2>2, <2>3
<1> QED
  BY <1>2, <1>3, CalSteps

\* A call finds an event gone only as one of the steps it applies is for it.
LEMMA FoundGoneSteps ==
    ASSUME TypeOK, ApplyingInv, [Next]_vars, FoundGone'
    PROVE  FoundGone \/ (Applying(call.rev) /\ SomeGone(call.rev))
<1> USE CallFields
<1>0. /\ Idle.pc = "idle" /\ Idle.why = "none" /\ \A t \in Targets : Idle.answer[t] = "none"
  BY DEF Idle
<1>1. call' # Idle
  BY <1>0 DEF FoundGone
<1>2. ASSUME call'.pc \notin {"record made", "fail", "rebuild"} \/ call.pc \in {"record made", "fail", "rebuild"},
             call'.why = call.why, call'.answer = call.answer
      PROVE  FoundGone
  BY <1>2 DEF FoundGone
<1>3. CASE ServerStep
  <2>1. CASE Supersede \/ AnswerFeedback \/ Begin \/ CreateAdditions
    BY <1>1, <1>2, <2>1 DEF Supersede, AnswerFeedback, Begin, CreateAdditions, Call, TypeOK
  <2>2. CASE RecordCancellations \/ RecordLogs \/ MakeGoalChanges \/ MarkApplied
    BY <1>1, <1>2, <2>2 DEF RecordCancellations, RecordLogs, MakeGoalChanges, MarkApplied, Call, TypeOK
  <2>3. CASE StampNotes \/ MarkStamped \/ RecordMade \/ Fail \/ Rebuild
    BY <1>1, <1>2, <2>3 DEF StampNotes, MarkStamped, RecordMade, Fail, Rebuild, Call, TypeOK
  <2>4. CASE MarkDone
    BY <1>1, <2>4 DEF MarkDone, FoundGone
  <2>5. CASE Prepare
    <3>1. call.pc = "prepare" /\ call'.answer = call.answer
      BY <2>5 DEF Prepare, Call, TypeOK
    <3>2. Applying(call.rev)
      BY <3>1 DEF Applying, ApplyingInv, CallsRow, CallHasOpen, Steps
    <3>3. CASE call'.pc = "send"
      <4>1. call'.why \in {"none", "stale"}
        BY <2>5, <3>3 DEF Prepare, Call, TypeOK
      <4> QED
        BY <3>1, <3>3, <4>1 DEF FoundGone
    <3>4. CASE call'.pc # "send"
      <4>1. \E t \in Missing(journal[call.rev].planned \ journal[call.rev].done) : TRUE
        BY <2>5, <3>4 DEF Prepare, Call, TypeOK
      <4>2. PICK t \in (journal[call.rev].planned \ journal[call.rev].done) \ Of("create") : Got(<<0, t>>).status = "gone"
        BY <4>1 DEF Missing
      <4>3. cal[<<0, t>>].status = "gone"
        BY <4>2 DEF Got
      <4> QED
        BY <3>2, <4>2, <4>3 DEF SomeGone
    <3> QED
      BY <3>3, <3>4
  <2>6. ASSUME NEW t \in Targets, CalendarTakes(t)
        PROVE  FoundGone
    BY <2>6 DEF CalendarTakes, Answer, FoundGone, Call, TypeOK
  <2>7. ASSUME NEW t \in Targets, CalendarRefuses(t)
        PROVE  FoundGone \/ (Applying(call.rev) /\ SomeGone(call.rev))
    <3>1. call.pc = "send" /\ t \in call.left \ Of("create")
      BY <2>7 DEF CalendarRefuses, Batch
    <3>2. Applying(call.rev) /\ t \in journal[call.rev].planned
      BY <3>1 DEF Applying, ApplyingInv, CallsRow, CallHasOpen, OnlyPlanned, Steps
    <3>3. CASE cal[EventOf(call.rev, t)].status = "gone"
      BY <3>1, <3>2, <3>3 DEF EventOf, SomeGone
    <3>4. CASE cal[EventOf(call.rev, t)].status # "gone"
      BY <2>7, <3>4 DEF CalendarRefuses, Answer, FoundGone, Call, TypeOK
    <3> QED
      BY <3>3, <3>4
  <2>8. CASE BatchAnswered
    <3>1. call'.answer = call.answer /\ call'.pc \notin {"record made", "fail", "rebuild"}
      BY <2>8 DEF BatchAnswered, Call, TypeOK
    <3>2. CASE call'.why = call.why
      BY <1>2, <3>1, <3>2
    <3>3. CASE call'.why # call.why
      <4>1. /\ Failed(Batch) # {}
            /\ call'.why = call.answer[CHOOSE t \in Failed(Batch) : \A s \in Failed(Batch) : t <= s]
        BY <2>8, <3>3 DEF BatchAnswered, Call, TypeOK
      <4>2. Failed(Batch) \subseteq Targets
        BY DEF Failed, Batch
      <4>3. \E t \in Failed(Batch) : \A s \in Failed(Batch) : t <= s
        BY <4>1, <4>2, TargetsNat, Least
      <4>4. \E t \in Targets : call'.why = call.answer[t]
        BY <4>1, <4>2, <4>3
      <4> QED
        BY <3>1, <4>4 DEF FoundGone
    <3> QED
      BY <3>2, <3>3
  <2> QED
    BY <1>3, <2>1, <2>2, <2>3, <2>4, <2>5, <2>6, <2>7, <2>8 DEF ServerStep
<1>4. CASE ClientStep
  <2>1. ASSUME NEW r \in Rows, NEW d \in SUBSET Targets, Revise(r, d) \/ Recheck(r) \/ Confirm(r) \/ Finish(r)
        PROVE  FALSE
    BY <2>1 DEF Revise, Recheck, Confirm, Finish, Idle, FoundGone
  <2> QED
    BY <1>1, <1>4, <2>1 DEF ClientStep, Propose, NeedsClaude, Confirmable, Abandon, WriteNote, DeleteNote
<1>5. CASE Environment
  <2>1. CASE BatchLost
    BY <2>1 DEF BatchLost, FoundGone, Call, TypeOK
  <2>2. CASE RecordRefused \/ CallStops \/ Sync
    BY <1>1, <2>2 DEF RecordRefused, CallStops, Sync, FoundGone, Call, TypeOK
  <2>3. CASE \E e \in Ids : ChangeElsewhere(e) \/ Purge(e)
    BY <1>2, <2>3 DEF ChangeElsewhere, Purge
  <2> QED
    BY <1>5, <2>1, <2>2, <2>3 DEF Environment
<1>6. CASE UNCHANGED vars
  BY <1>2, <1>6 DEF vars
<1> QED
  BY <1>3, <1>4, <1>5, <1>6 DEF Next

LEMMA BoundedKept ==
    ASSUME TypeOK, ApplyingInv, Bounded, [Next]_vars
    PROVE  Bounded'
<1> USE LengthNat
<1>1. purges' <= MaxPurges /\ purges' \in Nat /\ purges <= purges'
  BY PurgeSteps DEF Purge, Bounded
<1>2. CASE Rows' = Rows /\ Len(journal') = Len(journal)
  <2>1. Room => Room'
    BY <1>1, <1>2 DEF Room
  <2>2. ASSUME NEW r, Applying(r)', SomeGone(r)'
        PROVE  Room'
    <3>1. r \in Rows /\ journal'[r].planned = journal[r].planned /\ journal[r].planned \subseteq Targets
      BY <2>2, <1>2, RowsKept, RowFields DEF Applying, Fixed
    <3>2. PICK t \in journal[r].planned \ Of("create") : cal'[<<0, t>>].status = "gone"
      BY <2>2, <3>1 DEF SomeGone
    <3>3. CASE Applying(r)
      <4>1. CASE cal[<<0, t>>].status = "gone"
        BY <2>1, <3>2, <3>3, <4>1 DEF SomeGone, Bounded
      <4>2. CASE \E e \in Ids : Purge(e)
        <5>1. purges' = purges + 1
          BY <4>2 DEF Purge
        <5> QED
          BY <1>2, <5>1 DEF Bounded, Room
      <4> QED
        BY <3>1, <3>2, <4>1, <4>2, GoneSteps
    <3>4. CASE Confirm(r)
      <4>1. t \in journal[r].decided /\ UNCHANGED cal /\ Plannable(journal[r].decided, cal)
        BY <3>2, <3>4 DEF Confirm, ReplansTheSame, Changes
      <4> QED
        BY <3>2, <4>1 DEF Plannable
    <3>5. Applying(r) \/ Confirm(r)
      <4>1. CASE journal'[r].status \in OpenStatuses
        BY <1>2, <3>1, <4>1, OpenBefore DEF ApplyingInv
      <4>2. CASE call'.pc = "begin" /\ r = call'.rev
        BY <3>1, <4>2, BeginSteps DEF Applying
      <4> QED
        BY <2>2, <4>1, <4>2 DEF Applying
    <3> QED
      BY <3>3, <3>4, <3>5
  <2>3. FoundGone' => Room'
    BY <2>1, FoundGoneSteps DEF Bounded
  <2> QED
    BY <1>1, <1>2, <2>2, <2>3 DEF Bounded
<1>3. ASSUME NEW x, journal' = Append(journal, x), Len(journal') = Len(journal) + 1,
             \/ Len(journal) < MaxRevisions /\ call'.pc \in {"idle", "supersede", "answer"} /\ ~FoundGone'
             \/ Rebuild,
             purges' = purges
      PROVE  Bounded'
  <2>1. NoOpenCompaction'
    BY <1>3, Appended, NoneOpenAdded DEF ApplyingInv
  <2>2. call'.pc # "begin" /\ ~FoundGone'
    <3>1. CASE Rebuild
      <4>1. call' = Idle
        BY <3>1 DEF Rebuild
      <4>2. call'.pc = "idle" /\ call'.why = "none" /\ \A t \in Targets : call'.answer[t] = "none"
        BY <4>1 DEF Idle
      <4> QED
        BY <4>2 DEF FoundGone
    <3> QED
      BY <1>3, <3>1
  <2>3. \A r : ~Applying(r)'
    BY <2>1, <2>2 DEF Applying, NoOpenCompaction
  <2>4. Rebuild => Room
    BY DEF Rebuild, FoundGone, Bounded
  <2> QED
    BY <1>1, <1>3, <2>2, <2>3, <2>4 DEF Bounded, Room
<1> QED
  BY <1>2, <1>3, AppendSteps DEF ApplyingInv

LEMMA StillProposedKept ==
    ASSUME TypeOK, CallsRow, StillProposed, [Next]_vars
    PROVE  StillProposed'
<1> USE CallFields
<1> SUFFICES ASSUME call'.pc \in {"begin", "supersede"}
             PROVE  journal'[call'.rev].status = "proposed"
  BY DEF StillProposed
<1>0. Idle.pc = "idle"
  BY DEF Idle
<1>1. ASSUME NEW r \in Rows, NEW d \in SUBSET Targets, Revise(r, d) \/ Recheck(r) \/ Confirm(r)
      PROVE  journal'[call'.rev].status = "proposed"
  <2>1. call'.rev = r /\ journal[r].status = "proposed"
    BY <1>1 DEF Revise, Recheck, Confirm, Confirmable, Idle
  <2>2. UNCHANGED journal \/ \E x : journal' = Append(journal, x)
    BY <1>1 DEF Revise, Recheck, Confirm
  <2> QED
    BY <2>1, <2>2, Appended
<1>2. CASE call'.pc = call.pc /\ call'.rev = call.rev /\ UNCHANGED journal
  BY <1>2 DEF StillProposed
<1>3. CASE ServerStep
  <2>1. CASE Supersede \/ AnswerFeedback \/ Begin \/ CreateAdditions
    <3>1. call' = Idle \/ call'.pc \in {"answer", "additions", "prepare"}
      BY <2>1 DEF Supersede, AnswerFeedback, Begin, CreateAdditions, Call, TypeOK
    <3> QED
      BY <1>0, <3>1
  <2>2. CASE Prepare
    BY <2>2 DEF Prepare, Call, TypeOK
  <2>3. CASE BatchAnswered
    BY <2>3 DEF BatchAnswered, Call, TypeOK
  <2>4. CASE \E t \in Targets : CalendarTakes(t) \/ CalendarRefuses(t)
    BY <2>4 DEF CalendarTakes, CalendarRefuses, Answer, Call, TypeOK
  <2>5. CASE MarkDone \/ RecordCancellations \/ RecordLogs \/ MakeGoalChanges \/ MarkApplied
    <3>1. call' = Idle \/ call'.pc \notin {"begin", "supersede"}
      BY <2>5 DEF MarkDone, RecordCancellations, RecordLogs, MakeGoalChanges, MarkApplied, Call, TypeOK
    <3> QED
      BY <1>0, <3>1
  <2>6. CASE StampNotes \/ MarkStamped \/ RecordMade \/ Fail \/ Rebuild
    <3>1. call' = Idle \/ call'.pc \notin {"begin", "supersede"}
      BY <2>6 DEF StampNotes, MarkStamped, RecordMade, Fail, Rebuild, Call, TypeOK
    <3> QED
      BY <1>0, <3>1
  <2> QED
    BY <1>3, <2>1, <2>2, <2>3, <2>4, <2>5, <2>6 DEF ServerStep
<1>4. CASE ClientStep
  <2>1. ASSUME NEW r \in Rows, Finish(r)
        PROVE  FALSE
    BY <2>1 DEF Finish, Idle
  <2> QED
    BY <1>0, <1>1, <1>4, <2>1 DEF ClientStep, Propose, NeedsClaude, Confirmable, Abandon, WriteNote, DeleteNote
<1>5. CASE Environment
  <2>1. CASE BatchLost \/ RecordRefused \/ CallStops \/ Sync
    BY <1>0, <1>2, <2>1 DEF BatchLost, RecordRefused, CallStops, Sync, Call, TypeOK
  <2>2. CASE \E e \in Ids : ChangeElsewhere(e) \/ Purge(e)
    BY <1>2, <2>2 DEF ChangeElsewhere, Purge
  <2> QED
    BY <1>5, <2>1, <2>2 DEF Environment
<1>6. CASE UNCHANGED vars
  BY <1>2, <1>6 DEF vars
<1> QED
  BY <1>3, <1>4, <1>5, <1>6 DEF Next

----------------------------------------------------------------------------
(* The promise's steps *)

\* The promise's variables, as the journal gives them.
Phases == [r \in Revisions |-> IF r \in Rows THEN PhaseOf(journal[r].status) ELSE "unwritten"]
Shown == [r \in Revisions |-> IF r \in Rows THEN journal[r].planned ELSE {}]

LEMMA PhasesAre ==
    /\ PhaseOf("proposed") = "offered"
    /\ PhaseOf("applying") = "confirmed" /\ PhaseOf("applied") = "confirmed"
    /\ PhaseOf("stamped") = "complete" /\ PhaseOf("failed") = "stopped"
    /\ PhaseOf("superseded") = "dropped" /\ PhaseOf("abandoned") = "dropped"
BY DEF PhaseOf

\* All that keeps the journal's revisions in the promise's.
PromiseInv == TypeOK /\ ApplyingInv /\ AnswersMade /\ MarkedOnlyIfMade /\ Bounded /\ StillProposed

LEMMA RowsBounded ==
    ASSUME TypeOK, Bounded
    PROVE  Rows \subseteq Revisions
BY LengthNat DEF Bounded, Revisions

\* A revision moved from one phase to another, the journal's others as they were.
LEMMA RowMoves ==
    ASSUME TypeOK, Bounded, Rows' = Rows, NEW q \in Rows,
           \A r \in Rows : journal'[r].planned = journal[r].planned,
           \A r \in Rows \ {q} : journal'[r].status = journal[r].status
    PROVE  /\ Phases' = [Phases EXCEPT ![q] = PhaseOf(journal'[q].status)]
           /\ Phases[q] = PhaseOf(journal[q].status) /\ q \in Revisions
           /\ Shown' = Shown
BY RowsBounded DEF Phases, Shown

\* Each way the journal changes is one of the promise's steps, or none.
PromiseStep == [Promise!Next]_(Promise!vars)

LEMMA MovesKeepPromise ==
    ASSUME TypeOK, Bounded, UNCHANGED made, Rows' = Rows, NEW q \in Rows,
           \A r \in Rows : journal'[r].planned = journal[r].planned,
           \A r \in Rows \ {q} : journal'[r].status = journal[r].status,
           \/ journal'[q].status = journal[q].status
           \/ PhaseOf(journal'[q].status) = PhaseOf(journal[q].status)
           \/ /\ journal[q].status = "proposed" /\ journal'[q].status = "applying"
              /\ NoOpenCompaction
           \/ /\ PhaseOf(journal[q].status) = "confirmed" /\ journal'[q].status = "stamped"
              /\ \A t \in journal[q].planned : <<q, t>> \in made
           \/ PhaseOf(journal[q].status) = "confirmed" /\ journal'[q].status = "failed"
           \/ /\ PhaseOf(journal[q].status) \in {"offered", "confirmed", "stopped"}
              /\ journal'[q].status \in {"superseded", "abandoned"}
    PROVE  PromiseStep
<1>1. /\ Phases' = [Phases EXCEPT ![q] = PhaseOf(journal'[q].status)]
      /\ Phases[q] = PhaseOf(journal[q].status) /\ q \in Revisions
      /\ Shown' = Shown
  BY RowMoves
<1>2. Shown[q] = journal[q].planned
  BY <1>1 DEF Shown
<1>3. CASE PhaseOf(journal'[q].status) = PhaseOf(journal[q].status)
  <2>1. Phases' = Phases
    BY <1>1, <1>3 DEF Phases
  <2> QED
    BY <2>1, <1>1 DEF PromiseStep, Promise!vars, Phases, Shown
<1>4. CASE journal[q].status = "proposed" /\ journal'[q].status = "applying" /\ NoOpenCompaction
  <2>1. \A r \in Revisions : Phases[r] # "confirmed"
    <3>1. \A r \in Rows : journal[r].status \in RevisionStatus \ OpenStatuses
      BY <1>4, RowFields DEF NoOpenCompaction, Revision
    <3> QED
      BY <3>1, PhasesAre DEF Phases, RevisionStatus, OpenStatuses
  <2>2. Phases[q] \in {"offered"} /\ Phases' = [Phases EXCEPT ![q] = "confirmed"]
    BY <1>1, <1>4, PhasesAre
  <2>3. Promise!Confirm(q)
    BY <1>1, <2>1, <2>2 DEF Promise!Confirm, Promise!Move, Phases, Shown
  <2> QED
    BY <1>1, <2>3 DEF PromiseStep, Promise!Next
<1>5. CASE /\ PhaseOf(journal[q].status) = "confirmed" /\ journal'[q].status = "stamped"
           /\ \A t \in journal[q].planned : <<q, t>> \in made
  <2>1. Phases[q] \in {"confirmed"} /\ Phases' = [Phases EXCEPT ![q] = "complete"]
    BY <1>1, <1>5, PhasesAre
  <2>2. \A t \in Shown[q] : <<q, t>> \in made
    BY <1>2, <1>5
  <2>3. Promise!Complete(q)
    BY <1>1, <2>1, <2>2 DEF Promise!Complete, Promise!Move, Phases, Shown
  <2> QED
    BY <1>1, <2>3 DEF PromiseStep, Promise!Next
<1>6. CASE PhaseOf(journal[q].status) = "confirmed" /\ journal'[q].status = "failed"
  <2>1. Phases[q] \in {"confirmed"} /\ Phases' = [Phases EXCEPT ![q] = "stopped"]
    BY <1>1, <1>6, PhasesAre
  <2>2. Promise!Stop(q)
    BY <1>1, <2>1 DEF Promise!Stop, Promise!Move, Phases, Shown
  <2> QED
    BY <1>1, <2>2 DEF PromiseStep, Promise!Next
<1>7. CASE /\ PhaseOf(journal[q].status) \in {"offered", "confirmed", "stopped"}
           /\ journal'[q].status \in {"superseded", "abandoned"}
  <2>1. Phases[q] \in {"offered", "confirmed", "stopped"} /\ Phases' = [Phases EXCEPT ![q] = "dropped"]
    BY <1>1, <1>7, PhasesAre
  <2>2. Promise!Drop(q)
    BY <1>1, <2>1 DEF Promise!Drop, Promise!Move, Phases, Shown
  <2> QED
    BY <1>1, <2>2 DEF PromiseStep, Promise!Next
<1> QED
  BY <1>3, <1>4, <1>5, <1>6, <1>7

\* The actions that rewrite a row, and the rest.
LEMMA RowActions ==
    ASSUME [Next]_vars
    PROVE  \/ \E x : journal' = Append(journal, x)
           \/ UNCHANGED journal
           \/ UNCHANGED made /\ (Supersede \/ Fail \/ Begin \/ MarkDone \/ MarkApplied \/ MarkStamped)
           \/ UNCHANGED made /\ \E r \in Rows : Abandon(r)
<1>1. CASE ServerStep
  BY <1>1 DEF ServerStep, Supersede, AnswerFeedback, Begin, CreateAdditions, Prepare, CalendarTakes,
      CalendarRefuses, BatchAnswered, MarkDone, RecordCancellations, RecordLogs, MakeGoalChanges, MarkApplied,
      StampNotes, MarkStamped, RecordMade, Fail, Rebuild
<1>2. CASE ClientStep
  BY <1>2 DEF ClientStep, Propose, Revise, Confirm, Recheck, NeedsClaude, Finish, Abandon, WriteNote, DeleteNote
<1>3. CASE Environment
  BY <1>3 DEF Environment, BatchLost, RecordRefused, CallStops, Sync, ChangeElsewhere, Purge
<1>4. CASE UNCHANGED vars
  BY <1>4 DEF vars
<1> QED
  BY <1>1, <1>2, <1>3, <1>4 DEF Next

\* Claude's revision, or a rebuilt one, is offered.
LEMMA AddingOffers ==
    ASSUME PromiseInv, PromiseInv', [Next]_vars, NEW x, journal' = Append(journal, x)
    PROVE  PromiseStep
<1> USE DEF PromiseInv
<1>0. PICK q : q = Len(journal) + 1
  OBVIOUS
<1>1. /\ Rows' = Rows \cup {q} /\ q \notin Rows /\ journal'[q] = x
      /\ \A r \in Rows : journal'[r] = journal[r]
  BY <1>0, Appended
<1>2. q \in Revisions
  <2>1. Len(journal') = Len(journal) + 1
    BY DEF TypeOK
  <2>2. Len(journal') <= MaxRevisions + purges' /\ purges' <= MaxPurges /\ purges' \in Nat
    BY DEF Bounded, TypeOK
  <2> QED
    BY <1>0, <2>1, <2>2, LengthNat DEF Revisions
<1>3. x.status = "proposed" /\ x.planned \in SUBSET Targets /\ UNCHANGED made
  <2>1. PICK y : /\ journal' = Append(journal, y) /\ y.status = "proposed" /\ y.planned \subseteq Targets
                 /\ UNCHANGED made
    BY <1>1, AppendSteps DEF ApplyingInv
  <2>2. journal'[q] = y
    BY <1>0, <2>1, Appended
  <2> QED
    BY <1>1, <2>1, <2>2
<1>4. Phases[q] \in {"unwritten"} /\ Phases' = [Phases EXCEPT ![q] = "offered"]
  BY <1>1, <1>2, <1>3, PhasesAre DEF Phases
<1>5. Shown' = [Shown EXCEPT ![q] = x.planned]
  BY <1>1, <1>2 DEF Shown
<1>6. Promise!Offer(q)
  BY <1>3, <1>4, <1>5 DEF Promise!Offer, Promise!Move, Phases, Shown
<1> QED
  BY <1>2, <1>6 DEF PromiseStep, Promise!Next

\* A write Calendar takes is of a confirmed revision, and one it was shown to make.
LEMMA TakingWrites ==
    ASSUME PromiseInv, NEW t \in Targets, CalendarTakes(t)
    PROVE  PromiseStep
<1> USE DEF PromiseInv
<1>1. /\ call.pc = "send" /\ t \in call.left /\ UNCHANGED journal
      /\ made' = made \cup {<<call.rev, t>>}
  BY DEF CalendarTakes, Batch
<1>2. call.rev \in Rows /\ journal[call.rev].status \in OpenStatuses /\ t \in journal[call.rev].planned
  BY <1>1 DEF ApplyingInv, CallsRow, CallHasOpen, OnlyPlanned, Steps
<1>3. call.rev \in Revisions /\ Phases[call.rev] = "confirmed" /\ t \in Shown[call.rev]
  BY <1>2, RowsBounded, PhasesAre DEF Phases, Shown, OpenStatuses
<1>4. Phases' = Phases /\ Shown' = Shown
  BY <1>1 DEF Phases, Shown, Rows
<1>5. Promise!Write(call.rev, t)
  BY <1>1, <1>3, <1>4 DEF Promise!Write, Phases, Shown
<1> QED
  BY <1>3, <1>5 DEF PromiseStep, Promise!Next

\* Whatever rewrites a row moves it as promised.
LEMMA RewritingMoves ==
    ASSUME PromiseInv, [Next]_vars, UNCHANGED made,
           \/ Supersede \/ Fail \/ Begin \/ MarkDone \/ MarkApplied \/ MarkStamped
           \/ \E r \in Rows : Abandon(r)
    PROVE  PromiseStep
<1> USE RowFields DEF PromiseInv, ApplyingInv
<1>0. \A r \in Rows : journal'[r].planned = journal[r].planned
  BY RowsKept DEF Fixed
<1>1. ASSUME NEW q \in Rows, NEW status, SetStatus(q, status)
      PROVE  /\ Rows' = Rows /\ journal'[q].status = status
             /\ \A r \in Rows \ {q} : journal'[r].status = journal[r].status
  BY <1>1 DEF SetStatus, Rows, Revision
<1>2. CASE Supersede
  <2>1. call.rev \in Rows /\ journal[call.rev].status = "proposed" /\ SetStatus(call.rev, "superseded")
    BY <1>2 DEF Supersede, CallsRow, StillProposed
  <2> QED
    BY <1>0, <1>1, <2>1, MovesKeepPromise, PhasesAre
<1>3. CASE Fail
  <2>1. call.rev \in Rows /\ journal[call.rev].status \in OpenStatuses /\ SetStatus(call.rev, "failed")
    BY <1>3 DEF Fail, CallsRow, CallHasOpen, Steps
  <2> QED
    BY <1>0, <1>1, <2>1, MovesKeepPromise, PhasesAre DEF OpenStatuses
<1>4. CASE Begin
  <2>1. /\ call.rev \in Rows /\ journal[call.rev].status = "proposed" /\ SetStatus(call.rev, "applying")
        /\ NoOpenCompaction
    BY <1>4 DEF Begin, CallsRow, StillProposed, CallHasOpen
  <2> QED
    BY <1>0, <1>1, <2>1, MovesKeepPromise
<1>5. CASE MarkStamped
  <2>1. /\ call.rev \in Rows /\ journal[call.rev].status = "applied" /\ SetStatus(call.rev, "stamped")
    BY <1>5 DEF MarkStamped, CallsRow, CallHasOpen
  <2>2. \A t \in journal[call.rev].planned : <<call.rev, t>> \in made
    BY <2>1 DEF RowsComplete, MarkedOnlyIfMade
  <2> QED
    BY <1>0, <1>1, <2>1, <2>2, MovesKeepPromise, PhasesAre
<1>6. CASE MarkDone
  <2>1. /\ call.rev \in Rows /\ Rows' = Rows /\ \A r \in Rows : journal'[r].status = journal[r].status
    BY <1>6 DEF MarkDone, CallsRow, Rows, Revision
  <2> QED
    BY <1>0, <2>1, MovesKeepPromise
<1>7. CASE MarkApplied
  <2>1. /\ call.rev \in Rows /\ Rows' = Rows /\ journal[call.rev].status \in OpenStatuses
        /\ journal'[call.rev].status = "applied"
        /\ \A r \in Rows \ {call.rev} : journal'[r].status = journal[r].status
    BY <1>7 DEF MarkApplied, CallsRow, CallHasOpen, Steps, Rows, Revision
  <2> QED
    BY <1>0, <2>1, MovesKeepPromise, PhasesAre DEF OpenStatuses
<1>8. ASSUME NEW r \in Rows, Abandon(r)
      PROVE  PromiseStep
  <2>1. SetStatus(r, "abandoned") /\ journal[r].status \in RevisionStatus \ {"stamped", "abandoned"}
    BY <1>8 DEF Abandon, Revision
  <2>2. PhaseOf(journal[r].status) \in {"offered", "confirmed", "stopped", "dropped"}
    BY <2>1, PhasesAre DEF RevisionStatus
  <2> QED
    BY <1>0, <1>1, <2>1, <2>2, MovesKeepPromise, PhasesAre
<1> QED
  BY <1>2, <1>3, <1>4, <1>5, <1>6, <1>7, <1>8

LEMMA StepsKeepPromise ==
    ASSUME PromiseInv, PromiseInv', [Next]_vars
    PROVE  PromiseStep
<1>1. CASE UNCHANGED <<journal, made>>
  BY <1>1 DEF PromiseStep, Promise!vars, Rows
<1>2. CASE UNCHANGED journal /\ ~UNCHANGED made
  BY <1>2, MadeSteps, TakingWrites
<1> QED
  BY <1>1, <1>2, RowActions, AddingOffers, RewritingMoves

LEMMA InitKeepsPromise == Init => Promise!Init
<1> SUFFICES ASSUME Init PROVE Promise!Init
  OBVIOUS
<1>1. Rows = {} /\ made = {}
  BY DEF Init, Rows
<1> QED
  BY <1>1 DEF Promise!Init

\* The calls keep the promise: nothing of a revision is written until it's
\* confirmed, at most one is being written at a time, one's complete only
\* once all it was shown to change is written, and nothing's taken back --
\* every step of every call, stop, refusal and change elsewhere is one of
\* CompactionPromise's, or changes nothing it tells of.
THEOREM PromiseKept == Spec => KeepsPromise
<1>1. Init => PromiseInv
  <2>1. Init => AnswersMade /\ MarkedOnlyIfMade
    BY DEF Init, Idle, AnswersMade, Answered, MarkedOnlyIfMade, Rows
  <2>2. Init => ApplyingInv
    BY DEF Init, ApplyingInv, CallsRow, OneApplied, CallHasOpen, OnlyPlanned, NoneSkipped, CancelsFirst,
       StampedSoFar, RowsComplete, Idle, Rows, Steps
  <2>3. Init => Bounded /\ StillProposed
    <3> SUFFICES ASSUME Init PROVE Bounded /\ StillProposed
      OBVIOUS
    <3>1. /\ call.pc = "idle" /\ call.why = "none" /\ \A t \in Targets : call.answer[t] = "none"
          /\ Rows = {} /\ Len(journal) = 0 /\ purges = 0
      BY DEF Init, Idle, Rows
    <3> QED
      BY <3>1, BoundsAssumption DEF Bounded, StillProposed, FoundGone, Applying
  <2> QED
    BY <2>1, <2>2, <2>3, InitTyped DEF PromiseInv
<1>2. PromiseInv /\ [Next]_vars => PromiseInv'
  <2> SUFFICES ASSUME PromiseInv, [Next]_vars PROVE PromiseInv'
    OBVIOUS
  <2>1. TypeOK' /\ ApplyingInv'
    BY StepTyped, OneAppliedKept, CallInvKept, RowsCompleteKept DEF PromiseInv, ApplyingInv, CallInv
  <2>2. AnswersMade' /\ made \subseteq made'
    BY AnswersMadeKept DEF PromiseInv
  <2>3. MarkedOnlyIfMade'
    BY <2>2, DoneSteps DEF PromiseInv, AnswersMade, MarkedOnlyIfMade
  <2> QED
    BY <2>1, <2>2, <2>3, BoundedKept, StillProposedKept DEF PromiseInv, ApplyingInv
<1>3. PromiseInv /\ PromiseInv' /\ [Next]_vars => [Promise!Next]_(Promise!vars)
  BY StepsKeepPromise DEF PromiseStep
<1>4. Init => Promise!Init
  BY InitKeepsPromise
<1> QED
  BY <1>1, <1>2, <1>3, <1>4, PTL DEF Spec, KeepsPromise, Promise!Spec

----------------------------------------------------------------------------
(* What holds whatever stops *)

\* What's made was planned by a revision that has been confirmed.
MadeAsPlanned ==
    \A r, t : <<r, t>> \in made =>
        r \in Rows /\ t \in journal[r].planned /\ journal[r].status # "proposed"

\* A revision's proposal is its own number or an earlier one's; it plans
\* what it decides, and decides nothing that's settled.
RowsPlanDecided ==
    \A r \in Rows :
        /\ journal[r].proposal <= r
        /\ journal[r].planned \subseteq journal[r].decided
        /\ journal[r].decided \cap journal[r].settled = {}

\* A revision being applied, or that has just failed.
Held(r) == Applying(r) \/ (call.pc = "rebuild" /\ r = call.rev /\ r \in Rows)

\* Of the events one is to create, the calendar has only those it made.
OwnCreates ==
    \A r : Held(r) => \A t \in journal[r].decided \cap Of("create"), q \in Revisions :
        cal[<<q, t>>].status = "live" /\ cal[<<q, t>>].val = "wanted" => q = r /\ <<r, t>> \in made

\* What's planned again is the revision that failed, its proposal's newest.
RebuildsFailed == call.pc = "rebuild" => journal[call.rev].status = "failed" /\ IsCurrent(call.rev)

\* Its cancels are recorded before it fails.
RecordedFirst == call.pc = "fail" => journal[call.rev].done \cap Of("cancel") \subseteq cancelled

(* What holds until something stops a call *)

\* What Calendar made is marked, or about to be by the call that had the answer.
Marking == {"send", "mark", "cancellations", "logs", "goals", "applied"}

MarkedOrAnswered ==
    stops = 0 => \A r, t : <<r, t>> \in made =>
        t \in journal[r].done \/ (r = call.rev /\ t \in Answered /\ call.pc \in Marking)

\* What an earlier revision of its proposal created is settled in a later one.
SettledLater ==
    stops = 0 => \A q, r \in Rows : q < r /\ journal[q].proposal = journal[r].proposal =>
        \A t \in Of("create") : <<q, t>> \in made => t \in journal[r].settled

\* A proposal whose current revision failed is being planned again.
FailedRebuilt ==
    stops = 0 => \A r \in Rows : journal[r].status = "failed" /\ IsCurrent(r) =>
        call.pc = "rebuild" /\ call.rev = r

SettlingInv ==
    /\ MadeAsPlanned /\ RowsPlanDecided /\ OwnCreates /\ RebuildsFailed /\ RecordedFirst
    /\ MarkedOrAnswered /\ SettledLater /\ FailedRebuilt /\ CancelsRecordedOnFailure

----------------------------------------------------------------------------
(* Which steps do what *)

\* Nothing has stopped after a step only if nothing had before it.
LEMMA StopSteps ==
    ASSUME TypeOK, [Next]_vars, stops' = 0
    PROVE  stops = 0 /\ ~BatchLost /\ ~RecordRefused /\ ~CallStops
<1>0. stops \in Nat
  BY DEF TypeOK
<1>1. ~BatchLost /\ ~RecordRefused /\ ~CallStops
  BY <1>0 DEF BatchLost, RecordRefused, CallStops
<1>2. CASE ServerStep
  BY <1>1, <1>2 DEF ServerStep, Supersede, AnswerFeedback, Begin, CreateAdditions, Prepare, CalendarTakes,
      CalendarRefuses, BatchAnswered, MarkDone, RecordCancellations, RecordLogs, MakeGoalChanges, MarkApplied,
      StampNotes, MarkStamped, RecordMade, Fail, Rebuild, budgets
<1>3. CASE ClientStep
  BY <1>1, <1>3 DEF ClientStep, Propose, Revise, Confirm, Recheck, NeedsClaude, Finish, Abandon, WriteNote,
      DeleteNote, budgets
<1>4. CASE Environment
  BY <1>1, <1>4 DEF Environment, Sync, ChangeElsewhere, Purge, budgets
<1>5. CASE UNCHANGED vars
  BY <1>1, <1>5 DEF vars, budgets
<1> QED
  BY <1>2, <1>3, <1>4, <1>5 DEF Next

\* How a revision comes to be added: proposed, planning what it decides, and
\* with what was settled in the one it follows, or once that one failed.
Follows(x, c, settled) ==
    /\ c \in Rows /\ IsCurrent(c)
    /\ x.proposal = journal[c].proposal /\ x.settled = settled

LEMMA AddingSteps ==
    ASSUME TypeOK, CallsRow, RowsPlanDecided, RebuildsFailed, [Next]_vars, Rows' # Rows
    PROVE  \E x :
        /\ journal' = Append(journal, x)
        /\ x.status = "proposed" /\ x.planned \subseteq x.decided /\ x.decided \cap x.settled = {}
        /\ UNCHANGED made
        /\ \/ x.proposal = Len(journal) + 1
           \/ \E c : /\ Follows(x, c, journal[c].settled)
                     /\ call = Idle /\ journal[c].status \in {"proposed", "failed"}
           \/ Rebuild /\ Follows(x, call.rev, SettledBy(call.rev))
<1> USE RowFields DEF Follows
<1>0. ASSUME NEW p, NEW reason, NEW d, NEW settled
      PROVE  /\ Plan(p, reason, d, settled).status = "proposed" /\ Plan(p, reason, d, settled).proposal = p
             /\ Plan(p, reason, d, settled).decided = d /\ Plan(p, reason, d, settled).settled = settled
             /\ Plan(p, reason, d, settled).planned \subseteq d
  BY DEF Plan, Changes
<1>1. ASSUME NEW r \in Rows, Open(r)
      PROVE  IsCurrent(r) /\ journal[r].status \in {"proposed", "failed", "applying", "applied"}
  BY <1>1 DEF Open, FinishedStatuses, Revision, RevisionStatus
<1>2. CASE ServerStep
  <2>1. Rebuild
    BY <1>2 DEF ServerStep, Supersede, AnswerFeedback, Begin, CreateAdditions, Prepare, CalendarTakes,
        CalendarRefuses, BatchAnswered, MarkDone, RecordCancellations, RecordLogs, MakeGoalChanges, MarkApplied,
        StampNotes, MarkStamped, RecordMade, Fail, SetStatus, Rows
  <2>2. PICK x : x = Plan(journal[call.rev].proposal, "apply failed",
                          Carried(call.rev, SettledBy(call.rev)), SettledBy(call.rev))
    OBVIOUS
  <2>3. journal' = Append(journal, x) /\ UNCHANGED made
    BY <2>1, <2>2 DEF Rebuild, Rows
  <2>4. Carried(call.rev, SettledBy(call.rev)) \cap SettledBy(call.rev) = {}
    BY DEF Carried
  <2>5. call.rev \in Rows /\ IsCurrent(call.rev)
    BY <2>1 DEF Rebuild, CallsRow, RebuildsFailed
  <2>6. /\ x.status = "proposed" /\ x.planned \subseteq x.decided /\ x.decided \cap x.settled = {}
        /\ x.proposal = journal[call.rev].proposal /\ x.settled = SettledBy(call.rev)
    BY <2>2, <2>4 DEF Plan, Changes
  <2> QED
    BY <2>1, <2>3, <2>5, <2>6
<1>3. CASE ClientStep
  <2>1. ASSUME NEW r \in Rows, Confirm(r) \/ NeedsClaude(r) \/ Finish(r) \/ Abandon(r)
        PROVE  FALSE
    BY <2>1 DEF Confirm, NeedsClaude, Finish, Abandon, SetStatus, Rows
  <2>2. ASSUME NEW n \in Notes, WriteNote(n) \/ DeleteNote(n)
        PROVE  FALSE
    BY <2>2 DEF WriteNote, DeleteNote, Rows
  <2>3. CASE \E d \in SUBSET Targets : Propose(d)
    BY <1>0, <2>3 DEF Propose
  <2>4. ASSUME NEW d \in SUBSET Targets, NEW r \in Rows, Revise(r, d)
        PROVE  \E x : /\ journal' = Append(journal, x)
                      /\ x.status = "proposed" /\ x.planned \subseteq x.decided /\ x.decided \cap x.settled = {}
                      /\ UNCHANGED made /\ Follows(x, r, journal[r].settled)
                      /\ call = Idle /\ journal[r].status \in {"proposed", "failed"}
    BY <1>0, <1>1, <2>4 DEF Revise, NoOpenCompaction, OpenStatuses
  <2>5. ASSUME NEW r \in Rows, Recheck(r)
        PROVE  \E x : /\ journal' = Append(journal, x)
                      /\ x.status = "proposed" /\ x.planned \subseteq x.decided /\ x.decided \cap x.settled = {}
                      /\ UNCHANGED made /\ Follows(x, r, journal[r].settled)
                      /\ call = Idle /\ journal[r].status \in {"proposed", "failed"}
    BY <1>0, <1>1, <2>5 DEF Recheck, Confirmable, RowsPlanDecided
  <2> QED
    BY <1>3, <2>1, <2>2, <2>3, <2>4, <2>5 DEF ClientStep
<1>4. CASE Environment \/ UNCHANGED vars
  BY <1>4 DEF Environment, BatchLost, RecordRefused, CallStops, Sync, ChangeElsewhere, Purge, vars, Rows
<1> QED
  BY <1>2, <1>3, <1>4 DEF Next

\* A revision added is proposed.
LEMMA NewIsProposed ==
    ASSUME TypeOK, [Next]_vars, NEW r \in Rows' \ Rows
    PROVE  journal'[r].status = "proposed"
<1>1. \E p, reason, d, settled : journal' = Append(journal, Plan(p, reason, d, settled))
  <2>1. CASE \E q, status : SetStatus(q, status)
    BY <2>1 DEF SetStatus, Rows
  <2> QED
    BY <2>1, JournalSteps DEF Begin, MarkStamped, MarkDone, MarkApplied, Rows
<1>2. \A p, reason, d, settled : Plan(p, reason, d, settled).status = "proposed"
  BY DEF Plan
<1> QED
  BY <1>1, <1>2, Appended

\* How a revision comes to be failed.
LEMMA FailedSteps ==
    ASSUME TypeOK, [Next]_vars, NEW r \in Rows', journal'[r].status = "failed"
    PROVE  \/ r \in Rows /\ journal[r].status = "failed"
           \/ r = call.rev /\ Fail
<1> USE RowFields
<1>0. ASSUME NEW q, NEW status, SetStatus(q, status)
      PROVE  r \in Rows /\ journal'[r].status = IF r = q THEN status ELSE journal[r].status
  BY <1>0 DEF SetStatus, Rows, Revision
<1>1. CASE \E x : journal' = Append(journal, x)
  <2>1. CASE r \in Rows
    BY <1>1, <2>1, Appended
  <2>2. CASE r \notin Rows
    BY <1>1, <2>2, NewIsProposed
  <2> QED
    BY <2>1, <2>2
<1>2. CASE UNCHANGED journal
  BY <1>2 DEF Rows
<1>3. CASE Supersede \/ Begin \/ MarkStamped
  BY <1>0, <1>3 DEF Supersede, Begin, MarkStamped
<1>4. CASE Fail
  BY <1>0, <1>4 DEF Fail
<1>5. CASE MarkDone \/ MarkApplied
  <2>1. CASE MarkDone
    BY <2>1 DEF MarkDone, Rows, Revision
  <2>2. CASE MarkApplied
    BY <2>2 DEF MarkApplied, Rows, Revision
  <2> QED
    BY <1>5, <2>1, <2>2
<1>6. CASE \E q \in Rows : Abandon(q)
  BY <1>0, <1>6 DEF Abandon
<1> QED
  BY <1>1, <1>2, <1>3, <1>4, <1>5, <1>6, RowActions

\* The call that plans a failed revision again is the one that failed it.
LEMMA RebuildSteps ==
    ASSUME TypeOK, [Next]_vars, call'.pc \in {"fail", "rebuild"}
    PROVE  \/ /\ call'.pc = call.pc /\ call'.rev = call.rev /\ UNCHANGED <<journal, cancelled>>
           \/ Fail /\ call'.rev = call.rev /\ call'.pc = "rebuild"
           \/ RecordMade /\ call'.rev = call.rev /\ call'.pc = "fail"
<1> USE CallFields
<1>0. Idle.pc = "idle"
  BY DEF Idle
<1>1. CASE ServerStep
  <2>1. CASE Supersede \/ AnswerFeedback \/ Begin \/ CreateAdditions
    <3>1. call' = Idle \/ call'.pc \in {"answer", "additions", "prepare"}
      BY <2>1 DEF Supersede, AnswerFeedback, Begin, CreateAdditions, Call, TypeOK
    <3> QED
      BY <1>0, <3>1
  <2>2. CASE Prepare
    BY <2>2 DEF Prepare, Call, TypeOK
  <2>3. CASE BatchAnswered
    BY <2>3 DEF BatchAnswered, Call, TypeOK
  <2>4. CASE \E t \in Targets : CalendarTakes(t) \/ CalendarRefuses(t)
    BY <2>4 DEF CalendarTakes, CalendarRefuses, Answer, Call, TypeOK
  <2>5. CASE MarkDone \/ RecordCancellations \/ RecordLogs \/ MakeGoalChanges \/ MarkApplied
    <3>1. call' = Idle \/ call'.pc \in {"record made", "logs", "goals", "applied", "stamp", "stamped"}
      BY <2>5 DEF MarkDone, RecordCancellations, RecordLogs, MakeGoalChanges, MarkApplied, Call, TypeOK
    <3> QED
      BY <1>0, <3>1
  <2>6. CASE StampNotes \/ MarkStamped \/ Rebuild
    <3>1. call' = Idle \/ call'.pc \in {"stamp", "stamped"}
      BY <2>6 DEF StampNotes, MarkStamped, Rebuild, Call, TypeOK
    <3> QED
      BY <1>0, <3>1
  <2>7. CASE RecordMade \/ Fail
    BY <2>7 DEF RecordMade, Fail, Call, TypeOK
  <2> QED
    BY <1>1, <2>1, <2>2, <2>3, <2>4, <2>5, <2>6, <2>7 DEF ServerStep
<1>2. CASE ClientStep
  <2>1. ASSUME NEW r \in Rows, NEW d \in SUBSET Targets, Revise(r, d) \/ Recheck(r) \/ Confirm(r) \/ Finish(r)
        PROVE  FALSE
    BY <2>1 DEF Revise, Recheck, Confirm, Finish, Idle
  <2> QED
    BY <1>0, <1>2, <2>1 DEF ClientStep, Propose, NeedsClaude, Confirmable, Abandon, WriteNote, DeleteNote
<1>3. CASE Environment
  <2>1. CASE BatchLost \/ RecordRefused \/ CallStops \/ Sync
    BY <1>0, <2>1 DEF BatchLost, RecordRefused, CallStops, Sync, Call, TypeOK
  <2>2. CASE \E e \in Ids : ChangeElsewhere(e) \/ Purge(e)
    BY <2>2 DEF ChangeElsewhere, Purge
  <2> QED
    BY <1>3, <2>1, <2>2 DEF Environment
<1>4. CASE UNCHANGED vars
  BY <1>4 DEF vars
<1> QED
  BY <1>1, <1>2, <1>3, <1>4 DEF Next

\* Calendar takes a write of the revision being applied, and one it planned.
LEMMA TakenByOpen ==
    ASSUME TypeOK, ApplyingInv, NEW t \in Targets, CalendarTakes(t)
    PROVE  /\ call.pc = "send" /\ call.rev \in Rows /\ journal[call.rev].status \in OpenStatuses
           /\ t \in journal[call.rev].planned /\ UNCHANGED journal
           /\ made' = made \cup {<<call.rev, t>>}
<1>1. call.pc = "send" /\ t \in call.left /\ UNCHANGED journal /\ made' = made \cup {<<call.rev, t>>}
  BY DEF CalendarTakes, Batch
<1> QED
  BY <1>1 DEF ApplyingInv, CallsRow, CallHasOpen, OnlyPlanned, Steps

\* A revision held after a step was before it, or has just been confirmed.
LEMMA HeldBefore ==
    ASSUME TypeOK, ApplyingInv, [Next]_vars, NEW r, Held(r)'
    PROVE  r \in Rows /\ (Held(r) \/ Confirm(r))
<1> USE DEF ApplyingInv
<1>1. CASE r \in Rows' /\ journal'[r].status \in OpenStatuses
  BY <1>1, OpenBefore DEF Held, Applying
<1>2. CASE call'.pc = "begin" /\ r = call'.rev
  BY <1>2, BeginSteps DEF Held, Applying, CallsRow
<1>3. CASE call'.pc = "rebuild" /\ r = call'.rev
  <2>1. CASE call.pc = "rebuild" /\ call'.rev = call.rev
    BY <1>3, <2>1 DEF Held, CallsRow
  <2>2. CASE Fail /\ call'.rev = call.rev
    BY <1>3, <2>2 DEF Held, Applying, CallsRow, CallHasOpen, Fail, Steps
  <2> QED
    BY <1>3, <2>1, <2>2, RebuildSteps
<1> QED
  BY <1>1, <1>2, <1>3 DEF Held, Applying

----------------------------------------------------------------------------
(* Each part is kept *)

LEMMA MadeAsPlannedKept ==
    ASSUME TypeOK, ApplyingInv, MadeAsPlanned, [Next]_vars
    PROVE  MadeAsPlanned'
<1> SUFFICES ASSUME NEW r, NEW t, <<r, t>> \in made'
             PROVE  r \in Rows' /\ t \in journal'[r].planned /\ journal'[r].status # "proposed"
  BY DEF MadeAsPlanned
<1>1. CASE <<r, t>> \in made
  <2>1. r \in Rows /\ t \in journal[r].planned /\ journal[r].status # "proposed"
    BY <1>1 DEF MadeAsPlanned
  <2>2. r \in Rows' /\ journal'[r].planned = journal[r].planned
    BY <2>1, RowsKept DEF Fixed
  <2>3. journal'[r].status # "proposed"
    BY <2>1, <2>2, StatusSteps
  <2> QED
    BY <2>1, <2>2, <2>3
<1>2. CASE <<r, t>> \notin made
  <2>1. PICK u \in Targets : CalendarTakes(u)
    BY <1>2, MadeSteps
  <2> QED
    BY <1>2, <2>1, TakenByOpen DEF OpenStatuses, Rows
<1> QED
  BY <1>1, <1>2

LEMMA RowsPlanDecidedKept ==
    ASSUME TypeOK, CallsRow, RowsPlanDecided, RebuildsFailed, [Next]_vars
    PROVE  RowsPlanDecided'
<1>1. CASE Rows' = Rows
  BY <1>1, RowsKept DEF RowsPlanDecided, Fixed
<1>2. CASE Rows' # Rows
  <2>1. PICK x :
          /\ journal' = Append(journal, x)
          /\ x.planned \subseteq x.decided /\ x.decided \cap x.settled = {}
          /\ \/ x.proposal = Len(journal) + 1
             \/ \E c \in Rows : x.proposal = journal[c].proposal
    BY <1>2, AddingSteps DEF Follows
  <2>2. \A c \in Rows : c <= Len(journal) /\ c \in Nat /\ journal[c].proposal \in Nat
    BY LengthNat, RowFields
  <2>3. x.proposal <= Len(journal) + 1
    BY <2>1, <2>2, LengthNat DEF RowsPlanDecided
  <2> QED
    BY <2>1, <2>3, Appended DEF RowsPlanDecided
<1> QED
  BY <1>1, <1>2

LEMMA OwnCreatesKept ==
    ASSUME TypeOK, ApplyingInv, OwnCreates, [Next]_vars
    PROVE  OwnCreates'
<1> SUFFICES ASSUME NEW r, Held(r)', NEW t \in journal'[r].decided \cap Of("create"), NEW q \in Revisions,
                    cal'[<<q, t>>].status = "live", cal'[<<q, t>>].val = "wanted"
             PROVE  q = r /\ <<r, t>> \in made'
  BY DEF OwnCreates
<1> DEFINE e == <<q, t>>
<1>1. r \in Rows /\ journal'[r].decided = journal[r].decided /\ (Held(r) \/ Confirm(r))
  BY HeldBefore, RowsKept DEF Fixed
<1>2. e \in Ids /\ t \in Targets /\ q # 0
  BY BoundsAssumption DEF Ids, Of, Revisions
<1>3. made \subseteq made'
  BY MadeSteps DEF CalendarTakes
<1>4. CASE Confirm(r)
  BY <1>1, <1>4 DEF Confirm, ReplansTheSame, Plannable
<1>5. CASE Held(r) /\ cal[e].status = "live" /\ cal[e].val = "wanted"
  BY <1>1, <1>3, <1>5 DEF OwnCreates
<1>6. CASE Held(r) /\ ~(cal[e].status = "live" /\ cal[e].val = "wanted")
  <2>1. ASSUME NEW d \in Ids, ChangeElsewhere(d)
        PROVE  FALSE
    <3>1. PICK v \in {cal[d].val, "outside"}, s \in {"live", "cancelled"} :
              cal[d].status = "live" /\ cal' = [cal EXCEPT ![d] = NewVersion(d, v, s)]
      BY <2>1 DEF ChangeElsewhere
    <3>2. NewVersion(d, v, s).val = v
      BY DEF NewVersion
    <3>3. cal'[d] = NewVersion(d, v, s) /\ \A i \in Ids : i # d => cal'[i] = cal[i]
      BY <3>1 DEF TypeOK
    <3> QED
      BY <1>2, <1>6, <3>1, <3>2, <3>3
  <2>2. ASSUME NEW d \in Ids, Purge(d)
        PROVE  FALSE
    <3>1. cal' = [cal EXCEPT ![d] = NewVersion(d, cal[d].val, "gone")]
      BY <2>2 DEF Purge
    <3>2. NewVersion(d, cal[d].val, "gone").status = "gone"
      BY DEF NewVersion
    <3>3. cal'[d] = NewVersion(d, cal[d].val, "gone") /\ \A i \in Ids : i # d => cal'[i] = cal[i]
      BY <3>1 DEF TypeOK
    <3> QED
      BY <1>2, <1>6, <3>2, <3>3
  <2>3. PICK u \in Targets : CalendarTakes(u)
    BY <1>6, <2>1, <2>2, CalSteps
  <2>4. cal' = [cal EXCEPT ![EventOf(call.rev, u)] = WriteOf(u, EventOf(call.rev, u))]
    BY <2>3 DEF CalendarTakes
  <2>5. EventOf(call.rev, u) = e
    BY <1>2, <1>6, <2>4 DEF TypeOK
  <2>6. u = t /\ call.rev = q
    BY <1>2, <2>5 DEF EventOf
  <2>7. r = call.rev
    BY <1>6, <2>3, TakenByOpen DEF Held, Applying, ApplyingInv, OneApplied
  <2> QED
    BY <2>3, <2>6, <2>7, TakenByOpen
<1> QED
  BY <1>1, <1>4, <1>5, <1>6

LEMMA RebuildingKept ==
    ASSUME TypeOK, ApplyingInv, RebuildsFailed, RecordedFirst, [Next]_vars
    PROVE  RebuildsFailed' /\ RecordedFirst'
<1> USE RowFields
<1>1. CASE Fail /\ call'.rev = call.rev /\ call'.pc = "rebuild"
  <2>1. call.rev \in Rows /\ journal[call.rev].status \in OpenStatuses /\ SetStatus(call.rev, "failed")
    BY <1>1 DEF Fail, ApplyingInv, CallsRow, CallHasOpen, Steps
  <2>2. Rows' = Rows /\ journal'[call.rev].status = "failed"
    BY <2>1 DEF SetStatus, Rows, Revision
  <2>3. ASSUME NEW r \in Rows, r = call.rev
        PROVE  IsCurrent(r)'
    BY <2>1, <2>2, <2>3, CurrentKept DEF ApplyingInv, OneApplied
  <2> QED
    BY <1>1, <2>1, <2>2, <2>3 DEF RebuildsFailed, RecordedFirst, IsCurrent
<1>2. CASE RecordMade /\ call'.rev = call.rev /\ call'.pc = "fail"
  BY <1>2 DEF RecordMade, RebuildsFailed, RecordedFirst
<1>3. CASE call'.pc = call.pc /\ call'.rev = call.rev /\ UNCHANGED <<journal, cancelled>>
  BY <1>3 DEF RebuildsFailed, RecordedFirst, IsCurrent, Rows
<1>4. CASE call'.pc \notin {"fail", "rebuild"}
  BY <1>4 DEF RebuildsFailed, RecordedFirst
<1> QED
  BY <1>1, <1>2, <1>3, <1>4, RebuildSteps

\* An answer a call still has to mark isn't lost, unless something stops it.
LEMMA AnswersMarked ==
    ASSUME TypeOK, CallsRow, [Next]_vars, ~BatchLost, ~RecordRefused, ~CallStops, call.pc \in Marking
    PROVE  \/ call'.pc \in Marking /\ call'.rev = call.rev /\ Answered \subseteq Answered'
           \/ Answered \subseteq journal'[call.rev].done
<1> USE CallFields DEF Marking
<1>0. Idle.pc = "idle"
  BY DEF Idle
<1>1. CASE BatchAnswered \/ RecordCancellations \/ RecordLogs \/ MakeGoalChanges
  <2>1. CASE BatchAnswered
    BY <2>1 DEF BatchAnswered, Call, TypeOK, Answered
  <2>2. CASE RecordCancellations \/ RecordLogs \/ MakeGoalChanges
    BY <2>2 DEF RecordCancellations, RecordLogs, MakeGoalChanges, Call, TypeOK, Answered
  <2> QED
    BY <1>1, <2>1, <2>2
<1>2. ASSUME NEW t \in Targets, CalendarTakes(t) \/ CalendarRefuses(t)
      PROVE  call'.pc \in Marking /\ call'.rev = call.rev /\ Answered \subseteq Answered'
  <2>1. /\ call'.pc = call.pc /\ call'.rev = call.rev /\ call.answer[t] = "none"
        /\ \E answer \in {"ok", "gone", "stale"} : call'.answer = [call.answer EXCEPT ![t] = answer]
    BY <1>2 DEF CalendarTakes, CalendarRefuses, Answer, Call, TypeOK
  <2> QED
    BY <2>1 DEF Answered
<1>3. CASE MarkDone \/ MarkApplied
  <2>1. call.rev \in DOMAIN journal /\ journal[call.rev] \in Revision
    BY RowFields DEF CallsRow, Rows
  <2>2. CASE MarkDone
    BY <2>1, <2>2 DEF MarkDone, Revision
  <2>3. CASE MarkApplied
    BY <2>1, <2>3 DEF MarkApplied, Revision
  <2> QED
    BY <1>3, <2>2, <2>3
<1>4. CASE UNCHANGED call
  BY <1>4 DEF Answered
<1>5. ASSUME NEW r \in Rows, NEW d \in SUBSET Targets,
             Propose(d) \/ Revise(r, d) \/ Recheck(r) \/ Confirm(r) \/ NeedsClaude(r) \/ Finish(r) \/ Abandon(r)
      PROVE  FALSE
  BY <1>0, <1>5 DEF Propose, Revise, Recheck, Confirm, NeedsClaude, Confirmable, Finish, Abandon
<1>6. CASE ServerStep
  <2>1. CASE Supersede \/ AnswerFeedback \/ Begin \/ CreateAdditions \/ Prepare
    BY <2>1 DEF Supersede, AnswerFeedback, Begin, CreateAdditions, Prepare
  <2>2. CASE StampNotes \/ MarkStamped \/ RecordMade \/ Fail \/ Rebuild
    BY <2>2 DEF StampNotes, MarkStamped, RecordMade, Fail, Rebuild
  <2> QED
    BY <1>1, <1>2, <1>3, <1>6, <2>1, <2>2 DEF ServerStep
<1>7. CASE ClientStep
  <2>1. ASSUME NEW d \in SUBSET Targets, Propose(d)
        PROVE  FALSE
    BY <1>0, <2>1 DEF Propose
  <2>2. CASE \E n \in Notes : WriteNote(n) \/ DeleteNote(n)
    BY <1>0, <2>2 DEF WriteNote, DeleteNote
  <2> QED
    BY <1>5, <1>7, <2>1, <2>2 DEF ClientStep
<1>8. CASE Environment
  BY <1>4, <1>8 DEF Environment, Sync, ChangeElsewhere, Purge
<1> QED
  BY <1>4, <1>6, <1>7, <1>8 DEF Next, vars

LEMMA MarkedOrAnsweredKept ==
    ASSUME TypeOK, ApplyingInv, MadeAsPlanned, MarkedOrAnswered, [Next]_vars
    PROVE  MarkedOrAnswered'
<1> SUFFICES ASSUME stops' = 0, NEW r, NEW t, <<r, t>> \in made'
             PROVE  t \in journal'[r].done \/ (r = call'.rev /\ t \in Answered' /\ call'.pc \in Marking)
  BY DEF MarkedOrAnswered
<1>0. stops = 0 /\ ~BatchLost /\ ~RecordRefused /\ ~CallStops
  BY StopSteps
<1>1. CASE <<r, t>> \in made /\ t \in journal[r].done
  BY <1>1, NothingTakenBack DEF MadeAsPlanned
<1>2. CASE <<r, t>> \in made /\ r = call.rev /\ t \in Answered /\ call.pc \in Marking
  BY <1>0, <1>2, AnswersMarked DEF ApplyingInv
<1>3. CASE <<r, t>> \notin made
  <2>1. PICK u \in Targets : CalendarTakes(u)
    BY <1>3, MadeSteps
  <2>2. r = call.rev /\ u = t /\ call.pc = "send"
    BY <1>3, <2>1, TakenByOpen
  <2>3. call'.rev = call.rev /\ call'.pc = call.pc /\ call'.answer[t] = "ok"
    BY <2>1, <2>2, CallFields DEF CalendarTakes, Answer, TypeOK, Call
  <2> QED
    BY <2>1, <2>2, <2>3 DEF Answered, Marking
<1> QED
  BY <1>0, <1>1, <1>2, <1>3 DEF MarkedOrAnswered

LEMMA CancelsKept ==
    ASSUME TypeOK, ApplyingInv, MadeAsPlanned, MarkedOrAnswered, RecordedFirst, CancelsRecordedOnFailure, [Next]_vars
    PROVE  CancelsRecordedOnFailure'
<1> SUFFICES ASSUME stops' = 0, NEW r \in Rows', journal'[r].status = "failed",
                    NEW t \in Of("cancel"), <<r, t>> \in made'
             PROVE  t \in cancelled'
  BY DEF CancelsRecordedOnFailure
<1>0. stops = 0 /\ cancelled \subseteq cancelled'
  BY StopSteps, NothingTakenBack
<1>1. CASE r \in Rows /\ journal[r].status = "failed"
  <2>1. <<r, t>> \in made
    BY <1>1, MadeSteps, TakenByOpen DEF OpenStatuses
  <2> QED
    BY <1>0, <1>1, <2>1 DEF CancelsRecordedOnFailure
<1>2. CASE r = call.rev /\ Fail
  <2>1. <<r, t>> \in made /\ call.pc = "fail"
    BY <1>2 DEF Fail
  <2>2. t \in journal[r].done
    BY <1>0, <1>2, <2>1 DEF MarkedOrAnswered, Marking
  <2> QED
    BY <1>0, <1>2, <2>1, <2>2 DEF RecordedFirst
<1> QED
  BY <1>1, <1>2, FailedSteps

\* Unless a call stopped partway, what's left of a revision that failed can
\* be planned again.
LEMMA RebuildPlans ==
    ASSUME TypeOK, CallsRow, OwnCreates, MarkedOrAnswered, Rebuild, stops = 0
    PROVE  Rows' # Rows
<1> DEFINE r == call.rev
           d == Carried(r, SettledBy(r))
<1>1. call.pc = "rebuild" /\ r \in Rows
  BY DEF Rebuild, CallsRow
<1>2. \A t \in d \ Of("create") : cal[<<0, t>>].status = "live"
  BY DEF Carried
<1>3. ASSUME NEW t \in d \cap Of("create"), NEW q \in Revisions,
             cal[<<q, t>>].status = "live", cal[<<q, t>>].val = "wanted"
      PROVE  FALSE
  <2>1. t \in journal[r].decided /\ t \notin SettledBy(r)
    BY DEF Carried
  <2>2. <<r, t>> \in made
    BY <1>1, <1>3, <2>1 DEF OwnCreates, Held
  <2>3. t \in journal[r].done
    BY <1>1, <2>2 DEF MarkedOrAnswered, Marking
  <2>4. t \notin Of("update")
    BY DEF Of
  <2> QED
    BY <2>1, <2>3, <2>4 DEF SettledBy
<1>4. Plannable(d, cal)
  BY <1>2, <1>3 DEF Plannable
<1>5. \E x : journal' = Append(journal, x)
  BY <1>4 DEF Rebuild
<1> QED
  BY <1>5, Appended

LEMMA FailedRebuiltKept ==
    ASSUME TypeOK, ApplyingInv, RowsPlanDecided, OwnCreates, RebuildsFailed, MarkedOrAnswered, FailedRebuilt, [Next]_vars
    PROVE  FailedRebuilt'
<1> SUFFICES ASSUME stops' = 0, NEW r \in Rows', journal'[r].status = "failed", IsCurrent(r)'
             PROVE  call'.pc = "rebuild" /\ call'.rev = r
  BY DEF FailedRebuilt
<1>0. stops = 0 /\ ~BatchLost /\ ~RecordRefused /\ ~CallStops
  BY StopSteps
<1>1. CASE r = call.rev /\ Fail
  BY <1>1, CallFields DEF Fail, TypeOK, Call
<1>2. CASE r \in Rows /\ journal[r].status = "failed"
  <2>1. IsCurrent(r)
    BY <1>2, RowsKept DEF IsCurrent, Fixed
  <2>2. call.pc = "rebuild" /\ call.rev = r
    BY <1>0, <1>2, <2>1 DEF FailedRebuilt
  <2>3. ~Rebuild
    <3> SUFFICES ASSUME Rebuild PROVE FALSE
      OBVIOUS
    <3>1. journal' = Append(journal, Plan(journal[r].proposal, "apply failed", Carried(r, SettledBy(r)), SettledBy(r)))
      BY <2>2, <1>0, RebuildPlans DEF Rebuild, ApplyingInv, Rows
    <3>2. /\ Len(journal) + 1 \in Rows' /\ journal'[Len(journal) + 1].proposal = journal[r].proposal
          /\ journal'[r].proposal = journal[r].proposal
      <4>1. PICK x : x = Plan(journal[r].proposal, "apply failed", Carried(r, SettledBy(r)), SettledBy(r))
        OBVIOUS
      <4>2. x.proposal = journal[r].proposal
        BY <4>1 DEF Plan
      <4>3. journal' = Append(journal, x)
        BY <3>1, <4>1
      <4> QED
        BY <4>2, <4>3, <1>2, Appended
    <3>3. r < Len(journal) + 1 /\ Len(journal) + 1 \in Nat /\ r \in Nat
      BY <1>2, LengthNat
    <3> QED
      BY <3>2, <3>3 DEF IsCurrent
  <2>4. UNCHANGED call
    <3>1. CASE ServerStep
      BY <3>1, <2>2, <2>3 DEF ServerStep, Supersede, AnswerFeedback, Begin, CreateAdditions, Prepare, CalendarTakes,
          CalendarRefuses, BatchAnswered, MarkDone, RecordCancellations, RecordLogs, MakeGoalChanges, MarkApplied,
          StampNotes, MarkStamped, RecordMade, Fail
    <3>2. CASE ClientStep
      <4>1. call # Idle
        BY <2>2 DEF Idle
      <4> QED
        BY <3>2, <4>1 DEF ClientStep, Propose, Revise, Confirm, Recheck, NeedsClaude, Confirmable, Finish, Abandon,
            WriteNote, DeleteNote
    <3>3. CASE Environment
      BY <3>3, <1>0, <2>2 DEF Environment, Sync, ChangeElsewhere, Purge
    <3>4. CASE UNCHANGED vars
      BY <3>4 DEF vars
    <3> QED
      BY <3>1, <3>2, <3>3, <3>4 DEF Next
  <2> QED
    BY <2>2, <2>4
<1> QED
  BY <1>1, <1>2, FailedSteps

LEMMA SettledLaterKept ==
    ASSUME TypeOK, ApplyingInv, SettlingInv, [Next]_vars
    PROVE  SettledLater'
<1> USE DEF SettlingInv
<1> SUFFICES ASSUME stops' = 0, NEW q \in Rows', NEW r \in Rows', q < r,
                    journal'[q].proposal = journal'[r].proposal,
                    NEW t \in Of("create"), <<q, t>> \in made'
             PROVE  t \in journal'[r].settled
  BY DEF SettledLater
<1>0. stops = 0
  BY StopSteps
<1>1. CASE q \in Rows /\ r \in Rows
  <2>1. /\ journal[q].proposal = journal[r].proposal /\ journal'[r].settled = journal[r].settled
    BY <1>1, RowsKept DEF Fixed
  <2>2. CASE <<q, t>> \in made
    BY <1>0, <1>1, <2>1, <2>2 DEF SettledLater
  <2>3. CASE <<q, t>> \notin made
    <3>1. q = call.rev /\ journal[q].status \in OpenStatuses
      BY <2>3, MadeSteps, TakenByOpen
    <3>2. r <= q /\ q \in Nat /\ r \in Nat
      BY <1>1, <2>1, <3>1, LengthNat DEF ApplyingInv, OneApplied, IsCurrent
    <3> QED
      BY <3>2
  <2> QED
    BY <2>2, <2>3
<1>2. CASE Rows' # Rows
  <2>1. PICK x :
          /\ journal' = Append(journal, x) /\ UNCHANGED made
          /\ \/ x.proposal = Len(journal) + 1
             \/ \E c : /\ Follows(x, c, journal[c].settled)
                       /\ call = Idle /\ journal[c].status \in {"proposed", "failed"}
             \/ Rebuild /\ Follows(x, call.rev, SettledBy(call.rev))
    BY <1>2, AddingSteps DEF ApplyingInv
  <2>2. /\ Rows' = Rows \cup {Len(journal) + 1} /\ journal'[Len(journal) + 1] = x
        /\ \A c \in Rows : journal'[c] = journal[c]
    BY <2>1, Appended
  <2>3. CASE r \in Rows
    <3>1. q \in Rows
      BY <2>2, <2>3, LengthNat
    <3> QED
      BY <1>1, <2>3, <3>1
  <2>4. CASE r \notin Rows
    <3>1. r = Len(journal) + 1 /\ journal'[r] = x /\ q \in Rows /\ journal[q].proposal = x.proposal
      BY <2>2, <2>4, LengthNat
    <3>2. x.proposal # Len(journal) + 1
      <4>1. journal[q].proposal <= q /\ q <= Len(journal) /\ journal[q].proposal \in Nat /\ q \in Nat
        BY <3>1, LengthNat, RowFields DEF RowsPlanDecided
      <4> QED
        BY <3>1, <4>1, LengthNat
    <3>3. PICK c : /\ c \in Rows /\ IsCurrent(c) /\ x.proposal = journal[c].proposal
                   /\ \/ /\ x.settled = journal[c].settled /\ call = Idle
                         /\ journal[c].status \in {"proposed", "failed"}
                      \/ Rebuild /\ c = call.rev /\ x.settled = SettledBy(c)
      BY <2>1, <3>2 DEF Follows
    <3>4. journal[c].settled \subseteq x.settled
      BY <3>3 DEF SettledBy
    <3>5. q <= c /\ q \in Nat /\ c \in Nat
      BY <3>1, <3>3, LengthNat DEF IsCurrent
    <3>6. CASE q # c
      BY <1>0, <2>1, <3>1, <3>3, <3>4, <3>5, <3>6 DEF SettledLater
    <3>7. CASE q = c /\ Rebuild /\ c = call.rev /\ x.settled = SettledBy(c)
      <4>1. t \in journal[c].done
        BY <1>0, <2>1, <3>7 DEF MarkedOrAnswered, Marking, Rebuild
      <4>2. t \notin Of("update")
        BY DEF Of
      <4> QED
        BY <3>1, <3>7, <4>1, <4>2 DEF SettledBy
    <3>8. CASE q = c /\ call = Idle /\ journal[c].status \in {"proposed", "failed"}
      <4>1. journal[c].status = "failed"
        BY <2>1, <3>8 DEF MadeAsPlanned
      <4> QED
        BY <1>0, <3>3, <3>8, <4>1 DEF FailedRebuilt, Idle
    <3> QED
      BY <3>3, <3>6, <3>7, <3>8
  <2> QED
    BY <2>3, <2>4
<1> QED
  BY <1>1, <1>2

\* A revision that failed is settled, however many times it's planned again
\* and whatever else is decided meanwhile: as long as no call has stopped
\* partway, nothing it created is created again for its proposal, and the
\* cancels it made are in the Cancellations tab.
THEOREM FailuresAreSettled == Spec => []FailureSettled
<1>1. Init => SettlingInv
  <2> SUFFICES ASSUME Init PROVE SettlingInv
    OBVIOUS
  <2>1. Rows = {} /\ made = {} /\ call.pc = "idle"
    BY DEF Init, Rows, Idle
  <2> QED
    BY <2>1 DEF SettlingInv, MadeAsPlanned, RowsPlanDecided, OwnCreates, Held, Applying, RebuildsFailed, RecordedFirst,
        MarkedOrAnswered, SettledLater, FailedRebuilt, CancelsRecordedOnFailure
<1>2. (TypeOK /\ ApplyingInv) /\ SettlingInv /\ [Next]_vars => SettlingInv'
  BY MadeAsPlannedKept, RowsPlanDecidedKept, OwnCreatesKept, RebuildingKept, MarkedOrAnsweredKept, CancelsKept,
     FailedRebuiltKept, SettledLaterKept DEF SettlingInv, ApplyingInv
<1>3. (TypeOK /\ ApplyingInv) /\ SettlingInv => FailureSettled
  <2> SUFFICES ASSUME TypeOK, SettlingInv, stops = 0,
                      NEW t \in Of("create"), NEW q \in Rows, NEW r \in Rows,
                      journal[q].proposal = journal[r].proposal, <<q, t>> \in made, <<r, t>> \in made
               PROVE  q = r
    BY DEF FailureSettled, CreatedOnceUnlessStopped, CreatedOnce, SettlingInv
  <2>1. ASSUME NEW a \in Rows, NEW b \in Rows, a < b, journal[a].proposal = journal[b].proposal,
               <<a, t>> \in made, <<b, t>> \in made
        PROVE  FALSE
    <3>1. t \in journal[b].settled /\ t \in journal[b].planned
      BY <2>1 DEF SettlingInv, SettledLater, MadeAsPlanned
    <3> QED
      BY <3>1 DEF SettlingInv, RowsPlanDecided
  <2>2. q \in Nat /\ r \in Nat
    BY LengthNat
  <2> QED
    BY <2>1, <2>2
<1> QED
  BY <1>1, <1>2, <1>3, ApplyingInvariant, PTL DEF Spec
=============================================================================
