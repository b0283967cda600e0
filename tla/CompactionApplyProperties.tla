--------------------- MODULE CompactionApplyProperties ---------------------
(***************************************************************************)
(* What CompactionApply is checked for, and the promise it keeps.          *)
(***************************************************************************)
EXTENDS CompactionApply

\* At most one compaction is ever being applied, and it's its proposal's
\* current revision: no call begins another, or revises it, until it's
\* finished or abandoned (require_no_open_compaction in dry_run, confirm).
OneApplied ==
    \A r \in Rows : journal[r].status \in OpenStatuses =>
        IsCurrent(r) /\ \A q \in Rows : journal[q].status \in OpenStatuses => q = r

\* A step is marked done only if Calendar made its write: commit marks steps
\* after they're made, so a stop in between repeats one and never skips one.
MarkedOnlyIfMade == \A r \in Rows : \A t \in journal[r].done : <<r, t>> \in made

\* A stamped revision is complete: every step made and marked, every note of
\* its window stamped with it, every cancel recorded for follow-through --
\* however often applying it stopped and was resumed.
CompleteWhenStamped ==
    \A r \in Rows : journal[r].status = "stamped" =>
        /\ journal[r].done = journal[r].planned
        /\ \A n \in journal[r].notes : stampedBy[n] = r
        /\ journal[r].planned \cap Of("cancel") \subseteq cancelled

\* Notes are stamped last, by their ids, so they must still be there then,
\* and no other compaction's: delete_note refuses one being applied.
NotesStayStampable ==
    \A r \in Rows : journal[r].status \in OpenStatuses => Stampable(r)

\* A change made elsewhere to an event an update writes isn't overwritten,
\* unless the confirmed revision was planned on it: the recheck, the fields
\* compared with those planned from (as_planned) and the version the write
\* is made on (If-Match) together leave no gap.  So it is of finish too, where
\* docs/compaction-proposals.md:368-371 says the opposite: that what's left is
\* written "over whatever the calendar says now", such a change "overwritten".
OutsideChangesKept ==
    [][\A t \in Of("update") :
          cal[<<0, t>>].val = "outside" /\ cal'[<<0, t>>].val = "wanted"
          => journal[call.rev].before[t] = "outside"]_vars

\* Of one proposal, however often it's rebuilt, an event is made once for
\* each thing Claude decided to create: "the event exists as decided".
CreatedOnce ==
    \A t \in Of("create") : \A q, r \in Rows :
        journal[q].proposal = journal[r].proposal /\ <<q, t>> \in made /\ <<r, t>> \in made => q = r

\* So it is as long as nothing stops a call partway and no answer's lost.
CreatedOnceUnlessStopped == stops = 0 => CreatedOnce

\* A cancel Calendar made is in the Cancellations tab by the time the
\* revision it failed in has been planned again, or handed to Claude -- as
\* long as nothing stopped a call between the cancel and its mark.
CancelsRecordedOnFailure ==
    stops = 0 =>
        \A r \in Rows : journal[r].status = "failed" =>
            \A t \in Of("cancel") : <<r, t>> \in made => t \in cancelled

\* A revision that failed is settled: what it made isn't made again, and its
\* cancels are recorded, unless a call stopped partway or an answer was lost.
FailureSettled == CreatedOnceUnlessStopped /\ CancelsRecordedOnFailure

\* However a confirmed revision was left, finishing it ends: stamped, or
\* failed and planned again, or abandoned -- unless an event it has still to
\* update was changed elsewhere, which only abandoning it settles.  By
\* docs/compaction-proposals.md:368-371 that would be no exception, finish
\* writing over the change; the code stops at it (compactor.rs:3194-3196).
LeftApplying(r) == r \in Rows /\ journal[r].status \in {"applying", "applied"}

Blocked(r) ==
    \E t \in (journal[r].planned \ journal[r].done) \cap Of("update") :
        cal[<<0, t>>].val \notin {journal[r].before[t], "wanted"}

FinishingEnds == \A r \in Revisions : LeftApplying(r) ~> (~LeftApplying(r) \/ Blocked(r))

----------------------------------------------------------------------------
(* The inductive invariant: what a call under way relies on, step by step *)

\* A call is about a revision the journal has.
CallsRow == call.pc # "idle" => call.rev \in Rows

\* From its first write until it's stamped or failed, a revision a call
\* applies is the open one; before that, and once it has failed, none is.
CallHasOpen ==
    /\ call.pc = "begin" => NoOpenCompaction /\ IsCurrent(call.rev)
    /\ call.pc \in Steps \ {"idle", "supersede", "answer", "begin", "rebuild"} =>
           journal[call.rev].status \in OpenStatuses
    /\ call.pc = "rebuild" => NoOpenCompaction
    /\ call.pc \in {"stamp", "stamped"} => journal[call.rev].status = "applied"

\* Only a revision's own steps are sent, and none before they're prepared.
OnlyPlanned ==
    /\ call.pc \in Steps \ {"idle", "supersede", "answer", "begin", "additions", "prepare"} =>
           call.left \cup Answered \subseteq journal[call.rev].planned
    /\ call.pc \in {"begin", "additions", "prepare"} => call.left \cup Answered = {}

\* Unless something stopped it, a call has still to send whatever isn't
\* made yet; and past its writes, all of them are made.
NoneSkipped ==
    /\ call.pc = "send" /\ call.why = "none" =>
           journal[call.rev].planned \subseteq journal[call.rev].done \cup call.left \cup Answered
    /\ call.pc \in {"cancellations", "logs", "goals", "applied"} =>
           journal[call.rev].planned \subseteq journal[call.rev].done \cup Answered

\* The cancels are recorded before the revision is applied.
CancelsFirst ==
    call.pc \in {"logs", "goals", "applied"} => journal[call.rev].planned \cap Of("cancel") \subseteq cancelled

\* The notes a call hasn't still to stamp are stamped.
StampedSoFar ==
    /\ call.pc = "stamp" =>
           /\ call.to \subseteq journal[call.rev].notes
           /\ \A n \in journal[call.rev].notes \ call.to : stampedBy[n] = call.rev
    /\ call.pc = "stamped" => \A n \in journal[call.rev].notes : stampedBy[n] = call.rev

\* Whatever call left a row so: an applied one has everything but its notes
\* written, and a stamped one those too.
RowsComplete == \A r \in Rows :
    /\ journal[r].done \subseteq journal[r].planned
    /\ journal[r].status \in {"applied", "stamped"} =>
           /\ journal[r].planned \subseteq journal[r].done
           /\ journal[r].planned \cap Of("cancel") \subseteq cancelled
    /\ journal[r].status = "stamped" => \A n \in journal[r].notes : stampedBy[n] = r

\* Together with TypeOK, these hold in every step's outcome if they held
\* before it, and imply OneApplied and CompleteWhenStamped.
ApplyingInv ==
    /\ CallsRow /\ OneApplied /\ CallHasOpen /\ OnlyPlanned
    /\ NoneSkipped /\ CancelsFirst /\ StampedSoFar /\ RowsComplete

----------------------------------------------------------------------------
(* The promise *)

PhaseOf(status) ==
    CASE status = "proposed" -> "offered"
      [] status \in {"applying", "applied"} -> "confirmed"
      [] status = "stamped" -> "complete"
      [] status = "failed" -> "stopped"
      [] status \in {"superseded", "abandoned"} -> "dropped"

Promise == INSTANCE CompactionPromise WITH
    phase <- [r \in Revisions |-> IF r \in Rows THEN PhaseOf(journal[r].status) ELSE "unwritten"],
    shown <- [r \in Revisions |-> IF r \in Rows THEN journal[r].planned ELSE {}]

\* The calls keep the promise made of a proposal.
KeepsPromise == Promise!Spec
=============================================================================
