------------------------- MODULE CompactionPromise -------------------------
(***************************************************************************)
(* What the user is promised of a proposal: nothing of a revision is       *)
(* written until they confirm that revision, at most one confirmed         *)
(* revision is being written at a time, a revision is complete only once   *)
(* everything it was shown to change has been written, and what's written  *)
(* is never taken back.  How the server keeps the promise across crashes,  *)
(* refusals and lost answers is CompactionApply's.                         *)
(***************************************************************************)
CONSTANTS Revisions, Targets

VARIABLES
    phase,  \* where each revision is
    shown,  \* what each revision was shown to change
    made    \* what has been written: <<revision, target>>

vars == <<phase, shown, made>>

Init ==
    /\ phase = [r \in Revisions |-> "unwritten"]
    /\ shown = [r \in Revisions |-> {}]
    /\ made = {}

Move(r, from, to) ==
    /\ phase[r] \in from
    /\ phase' = [phase EXCEPT ![r] = to]

Offer(r) ==
    /\ Move(r, {"unwritten"}, "offered")
    /\ \E ts \in SUBSET Targets : shown' = [shown EXCEPT ![r] = ts]
    /\ UNCHANGED made

Confirm(r) ==
    /\ \A q \in Revisions : phase[q] # "confirmed"
    /\ Move(r, {"offered"}, "confirmed")
    /\ UNCHANGED <<shown, made>>

Write(r, t) ==
    /\ phase[r] = "confirmed" /\ t \in shown[r]
    /\ made' = made \cup {<<r, t>>}
    /\ UNCHANGED <<phase, shown>>

Complete(r) ==
    /\ \A t \in shown[r] : <<r, t>> \in made
    /\ Move(r, {"confirmed"}, "complete")
    /\ UNCHANGED <<shown, made>>

\* Stopped by a write that can't succeed.
Stop(r) == Move(r, {"confirmed"}, "stopped") /\ UNCHANGED <<shown, made>>

\* Replaced by a newer revision, or given up.
Drop(r) == Move(r, {"offered", "confirmed", "stopped"}, "dropped") /\ UNCHANGED <<shown, made>>

Next == \E r \in Revisions :
            \/ Offer(r) \/ Confirm(r) \/ Complete(r) \/ Stop(r) \/ Drop(r)
            \/ \E t \in Targets : Write(r, t)

Spec == Init /\ [][Next]_vars
=============================================================================
