----------------------------- MODULE WriteLock -----------------------------
(***************************************************************************)
(* The locks every write to Google is made under (write_lock.rs):          *)
(* WRITE_LOCK, which a tool that writes holds for its whole call, and      *)
(* HEALTH_TAB_LOCK, the Health tab's background writer's.  Both are        *)
(* reentrant within a thread: HELD, which is thread-local, has which the   *)
(* thread holds and how deep, and only the outermost Held has the mutex's  *)
(* guard.  A Held is a local variable, so the last taken is dropped first. *)
(***************************************************************************)
EXTENDS Integers, Sequences, FiniteSets

CONSTANTS
    Threads,   \* worker threads (tool calls) and background threads
    NoThread,  \* what owns a mutex no thread has locked
    MaxDepth   \* bound: how many Helds a thread has in scope

ASSUME NoThreadAssumption == NoThread \notin Threads
ASSUME MaxDepthAssumption == MaxDepth \in Nat

Locks == {"write", "health"}

VARIABLES
    owner,   \* each lock's mutex: the thread that has locked it, or NoThread
    held,    \* HELD's bits: the locks each thread holds
    depth,   \* HELD's depths
    scope,   \* each thread's Helds in scope, the outermost first
    waits,   \* the lock each thread is blocked on, or "none"
    writing  \* the threads with a write to Google under way

lockVars == <<owner, held, depth, scope, waits, writing>>

Held == [lock : Locks, guard : BOOLEAN]

LockInit ==
    /\ owner = [l \in Locks |-> NoThread]
    /\ held = [t \in Threads |-> {}]
    /\ depth = [t \in Threads |-> [l \in Locks |-> 0]]
    /\ scope = [t \in Threads |-> <<>>]
    /\ waits = [t \in Threads |-> "none"]
    /\ writing = {}

----------------------------------------------------------------------------

Running(t) == waits[t] = "none" /\ t \notin writing

\* Where the code takes lock l: with nothing held, or inside WRITE_LOCK (a
\* store built, the Health tab opened); under HEALTH_TAB_LOCK it takes none.
TakesAnyOrder(t, l) == Len(scope[t]) < MaxDepth  \* mutant: takes WRITE_LOCK under HEALTH_TAB_LOCK
Takes(t, l) == Len(scope[t]) < MaxDepth /\ depth[t]["health"] = 0

Got(t, l, guard) ==
    /\ held' = [held EXCEPT ![t] = @ \cup {l}]
    /\ depth' = [depth EXCEPT ![t][l] = @ + 1]
    /\ scope' = [scope EXCEPT ![t] = Append(@, [lock |-> l, guard |-> guard])]

\* Held by this thread already: it nests.
Nest(t, l) ==
    /\ Running(t) /\ Takes(t, l) /\ depth[t][l] > 0
    /\ Got(t, l, FALSE)
    /\ UNCHANGED <<owner, waits, writing>>

\* hold: block until the mutex is free.
Hold(t, l) ==
    /\ Running(t) /\ Takes(t, l) /\ depth[t][l] = 0
    /\ waits' = [waits EXCEPT ![t] = l]
    /\ UNCHANGED <<owner, held, depth, scope, writing>>

\* mutant: locks the mutex whoever has it
LockShared(t, l) == owner' = [owner EXCEPT ![l] = t] /\ Got(t, l, TRUE)
Lock(t, l) ==
    /\ owner[l] = NoThread
    /\ owner' = [owner EXCEPT ![l] = t]
    /\ Got(t, l, TRUE)

Acquire(t) ==
    /\ waits[t] # "none"
    /\ Lock(t, waits[t])
    /\ waits' = [waits EXCEPT ![t] = "none"]
    /\ UNCHANGED writing

\* try_hold, which the background refresh of the sheets calls: answers None
\* at once, and gives way, if another thread has it.
TryHold(t) ==
    /\ Running(t) /\ Takes(t, "write") /\ depth[t]["write"] = 0
    /\ Lock(t, "write")
    /\ UNCHANGED <<waits, writing>>

\* HELD's bit for lock l, one Held of it dropped: clear once none is left.
Left(t, l) == held' = [held EXCEPT ![t] = IF depth[t][l] = 1 THEN @ \ {l} ELSE @]

\* A Held dropped, and its guard with it, if it has one.
Drop(t) ==
    LET last == scope[t][Len(scope[t])]
    IN  /\ Running(t) /\ scope[t] # <<>>
        /\ Left(t, last.lock)
        /\ depth' = [depth EXCEPT ![t][last.lock] = @ - 1]
        /\ scope' = [scope EXCEPT ![t] = SubSeq(@, 1, Len(@) - 1)]
        /\ owner' = IF last.guard THEN [owner EXCEPT ![last.lock] = NoThread] ELSE owner
        /\ UNCHANGED <<waits, writing>>

\* require: a write is refused unless this thread holds either lock.
StartWrite(t) ==
    /\ Running(t) /\ held[t] # {}
    /\ writing' = writing \cup {t}
    /\ UNCHANGED <<owner, held, depth, scope, waits>>

EndWrite(t) ==
    /\ t \in writing
    /\ writing' = writing \ {t}
    /\ UNCHANGED <<owner, held, depth, scope, waits>>

Step(t) ==
    \/ \E l \in Locks : Nest(t, l) \/ Hold(t, l)
    \/ Acquire(t) \/ TryHold(t) \/ Drop(t) \/ StartWrite(t) \/ EndWrite(t)

LockNext == \E t \in Threads : Step(t)

LockSpec == LockInit /\ [][LockNext]_lockVars
----------------------------------------------------------------------------

\* Two writes are under way together only if one's is the Health tab's
\* writer's: a tool's reads, decision and writes are never interleaved with
\* another's ("two interleaved can lose one's write").
WritesApart ==
    \A s, t \in writing : s # t => held[s] \cap held[t] = {}

\* Nobody waits on a thread that waits, in turn, on it: whoever holds the
\* Health tab's lock waits for nothing, and WRITE_LOCK's holder for that at
\* most (health_tab takes them in that order).
NoDeadlock ==
    \A t \in Threads : waits[t] # "none" /\ owner[waits[t]] # NoThread =>
        LET blocking == owner[waits[t]]
        IN  waits[blocking] = "none" \/ (waits[t] = "write" /\ waits[blocking] = "health")
=============================================================================
