----------------------------- MODULE BuiltStore -----------------------------
(***************************************************************************)
(* A store built the first time a tool needs it (built, in app.rs), from   *)
(* whichever worker thread needs it first: building one finds its tab, or  *)
(* makes it, so it's built under WRITE_LOCK, looked for again once that's  *)
(* held, and kept for the server's life.                                   *)
(***************************************************************************)
EXTENDS WriteLock

VARIABLES
    slot,   \* whether the store is kept (its OnceLock is set)
    at,     \* where in `built` each thread is, "out" when it isn't
    builds  \* history: how many stores were built

storeVars == <<slot, at, builds>>

StoreInit ==
    /\ LockInit
    /\ slot = FALSE
    /\ at = [t \in Threads |-> "out"]
    /\ builds = 0

Go(t, from, to) == at[t] = from /\ at' = [at EXCEPT ![t] = to]

\* Looked for without the lock first: once it's kept, no call waits for it.
Look(t) ==
    /\ Running(t) /\ ~slot /\ Takes(t, "write")
    /\ Go(t, "out", "lock")
    /\ UNCHANGED <<lockVars, slot, builds>>

Enter(t) ==
    /\ \/ Go(t, "lock", "check") /\ Nest(t, "write")
       \/ at[t] = "lock" /\ UNCHANGED at /\ Hold(t, "write")
       \/ Go(t, "lock", "check") /\ Acquire(t)
    /\ UNCHANGED <<slot, builds>>

\* mutant: doesn't look again once it has the lock
CheckNothing(t) == Go(t, "check", "build") /\ UNCHANGED <<lockVars, slot, builds>>
CheckAgain(t) ==
    /\ Go(t, "check", IF slot THEN "leave" ELSE "build")
    /\ UNCHANGED <<lockVars, slot, builds>>

\* It's built, or fails: then the next call that needs it tries again.
Build(t) ==
    /\ \/ Go(t, "build", "set") /\ builds' = builds + 1
       \/ Go(t, "build", "leave") /\ UNCHANGED builds
    /\ UNCHANGED <<lockVars, slot>>

Set(t) ==
    /\ Go(t, "set", "leave")
    /\ slot' = TRUE
    /\ UNCHANGED <<lockVars, builds>>

Leave(t) ==
    /\ Go(t, "leave", "out") /\ Drop(t)
    /\ UNCHANGED <<slot, builds>>

\* What else threads do with the lock, outside `built`.
Otherwise(t) == at[t] = "out" /\ Step(t) /\ UNCHANGED storeVars

StoreNext == \E t \in Threads :
    Look(t) \/ Enter(t) \/ CheckAgain(t) \/ Build(t) \/ Set(t) \/ Leave(t) \/ Otherwise(t)

StoreSpec == StoreInit /\ [][StoreNext]_<<lockVars, storeVars>>
----------------------------------------------------------------------------

\* However many calls find the store missing at once, one builds it, and
\* all get that one: a second, given to the call that built it alone, would
\* keep a state of its own, and two at once could each make the tab.
BuiltOnce == builds <= 1
=============================================================================
