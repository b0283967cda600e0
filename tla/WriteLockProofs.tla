-------------------------- MODULE WriteLockProofs --------------------------
(***************************************************************************)
(* What's proved of the locks, and of a store built under one of them, for *)
(* any number of threads and however deep they nest.                       *)
(***************************************************************************)
EXTENDS BuiltStore, FiniteSetTheorems, SequenceTheorems, TLAPS

LockTypeOK ==
    /\ owner \in [Locks -> Threads \cup {NoThread}]
    /\ held \in [Threads -> SUBSET Locks]
    /\ depth \in [Threads -> [Locks -> Nat]]
    /\ scope \in [Threads -> Seq(Held)]
    /\ waits \in [Threads -> Locks \cup {"none"}]
    /\ writing \in SUBSET Threads

\* The Helds of lock l that a thread has in scope.
HeldsOf(t, l) == {i \in DOMAIN scope[t] : scope[t][i].lock = l}

\* HELD counts the Helds in scope: its depths are theirs, its bits are of
\* those there are any of.
Counted(t, l) ==
    /\ IsFiniteSet(HeldsOf(t, l))
    /\ depth[t][l] = Cardinality(HeldsOf(t, l))
    /\ l \in held[t] <=> depth[t][l] > 0

\* The outermost Held of a lock has the guard, and no other does.
OutermostGuards(t, l) ==
    \A i \in HeldsOf(t, l) : scope[t][i].guard <=> \A j \in HeldsOf(t, l) : i <= j

\* Whoever holds a lock has its mutex.
Owns(t, l) == l \in held[t] <=> owner[l] = t

\* What's waited for isn't held, and nothing is waited for under the Health
\* tab's lock.
WaitsOutside(t) == waits[t] # "none" => depth[t][waits[t]] = 0 /\ depth[t]["health"] = 0

LockInv ==
    /\ LockTypeOK
    /\ \A t \in Threads : WaitsOutside(t)
    /\ \A t \in Threads, l \in Locks : Counted(t, l) /\ OutermostGuards(t, l) /\ Owns(t, l)

----------------------------------------------------------------------------
(* A Held comes and goes *)

\* A Held more of lock l, the innermost: the outermost if l wasn't held.
LEMMA GotKeeps ==
    ASSUME LockInv, NEW t \in Threads, NEW l \in Locks, NEW guard \in BOOLEAN,
           Got(t, l, guard), guard <=> depth[t][l] = 0
    PROVE  /\ held' \in [Threads -> SUBSET Locks]
           /\ depth' \in [Threads -> [Locks -> Nat]]
           /\ scope' \in [Threads -> Seq(Held)]
           /\ \A s \in Threads, k \in Locks : Counted(s, k)' /\ OutermostGuards(s, k)'
           /\ \A s \in Threads, k \in Locks : k \in held'[s] <=> k \in held[s] \/ (s = t /\ k = l)
<1> DEFINE new == [lock |-> l, guard |-> guard]
           n == Len(scope[t])
<1>1. /\ new \in Held /\ n \in Nat
      /\ scope' = [scope EXCEPT ![t] = Append(scope[t], new)]
      /\ depth' = [depth EXCEPT ![t] = [depth[t] EXCEPT ![l] = @ + 1]]
      /\ held' = [held EXCEPT ![t] = held[t] \cup {l}]
  BY DEF LockInv, LockTypeOK, Got, Held
<1>2. /\ held' \in [Threads -> SUBSET Locks]
      /\ depth' \in [Threads -> [Locks -> Nat]]
      /\ scope' \in [Threads -> Seq(Held)]
  BY <1>1 DEF LockInv, LockTypeOK
<1>3. \A s \in Threads, k \in Locks : k \in held'[s] <=> k \in held[s] \/ (s = t /\ k = l)
  BY <1>1 DEF LockInv, LockTypeOK
<1>4. ASSUME NEW s \in Threads, NEW k \in Locks
      PROVE  Counted(s, k)' /\ OutermostGuards(s, k)'
  <2>1. CASE s # t
    <3>1. scope'[s] = scope[s] /\ depth'[s] = depth[s] /\ held'[s] = held[s]
      BY <2>1, <1>1 DEF LockInv, LockTypeOK
    <3>2. HeldsOf(s, k)' = HeldsOf(s, k)
      BY <3>1 DEF HeldsOf
    <3> QED
      BY <3>1, <3>2 DEF LockInv, Counted, OutermostGuards
  <2>2. CASE s = t
    <3>1. /\ DOMAIN scope'[t] = 1..(n + 1) /\ scope'[t][n + 1] = new
          /\ DOMAIN scope[t] = 1..n /\ \A i \in 1..n : scope'[t][i] = scope[t][i]
      BY <1>1 DEF LockInv, LockTypeOK
    <3>2. CASE k # l
      <4>1. HeldsOf(t, k)' = HeldsOf(t, k)
        BY <3>1, <3>2, <1>1 DEF HeldsOf
      <4>2. depth'[t][k] = depth[t][k] /\ (k \in held'[t] <=> k \in held[t])
        BY <3>2, <1>1 DEF LockInv, LockTypeOK
      <4>3. \A i \in HeldsOf(t, k) : scope'[t][i] = scope[t][i]
        BY <3>1 DEF HeldsOf
      <4> QED
        BY <2>2, <4>1, <4>2, <4>3 DEF LockInv, Counted, OutermostGuards
    <3>3. CASE k = l
      <4>1. HeldsOf(t, l)' = HeldsOf(t, l) \cup {n + 1} /\ n + 1 \notin HeldsOf(t, l)
        BY <3>1, <1>1 DEF HeldsOf
      <4>2. Counted(t, l) /\ OutermostGuards(t, l)
        BY DEF LockInv
      <4>3. /\ IsFiniteSet(HeldsOf(t, l)')
            /\ Cardinality(HeldsOf(t, l)') = Cardinality(HeldsOf(t, l)) + 1
        BY <4>1, <4>2, FS_AddElement DEF Counted
      <4>4. depth'[t][l] = depth[t][l] + 1 /\ depth[t][l] \in Nat /\ l \in held'[t]
        BY <1>1 DEF LockInv, LockTypeOK
      <4>5. Counted(t, l)'
        BY <4>2, <4>3, <4>4 DEF Counted
      <4>6. depth[t][l] = 0 <=> HeldsOf(t, l) = {}
        BY <4>2, FS_EmptySet DEF Counted
      <4>7. \A i \in HeldsOf(t, l) : i \in 1..n /\ scope'[t][i] = scope[t][i]
        BY <3>1 DEF HeldsOf
      <4>8. ASSUME NEW i \in HeldsOf(t, l)'
            PROVE  scope'[t][i].guard <=> \A j \in HeldsOf(t, l)' : i <= j
        <5>1. CASE i = n + 1
          <6>1. scope'[t][i].guard <=> HeldsOf(t, l) = {}
            BY <5>1, <3>1, <4>6
          <6>2. (\A j \in HeldsOf(t, l)' : i <= j) <=> HeldsOf(t, l) = {}
            BY <5>1, <4>1, <4>7, <1>1
          <6> QED
            BY <6>1, <6>2
        <5>2. CASE i # n + 1
          <6>1. i \in HeldsOf(t, l) /\ i <= n + 1
            BY <5>2, <4>1, <4>7, <1>1
          <6> QED
            BY <6>1, <4>1, <4>2, <4>7 DEF OutermostGuards
        <5> QED
          BY <5>1, <5>2
      <4> QED
        BY <2>2, <3>3, <4>5, <4>8 DEF OutermostGuards
    <3> QED
      BY <3>2, <3>3
  <2> QED
    BY <2>1, <2>2
<1> QED
  BY <1>2, <1>3, <1>4

LEMMA InnermostHeld ==
    ASSUME NEW S, NEW q \in Seq(S), q # <<>>
    PROVE  Len(q) \in Nat \ {0} /\ Len(q) \in DOMAIN q /\ q[Len(q)] \in S
BY EmptySeq, LenProperties, ElementOfSeq

\* A Held less, the innermost: with the guard it's the last of its lock.
LEMMA DropKeeps ==
    ASSUME LockInv, NEW t \in Threads, Drop(t)
    PROVE  /\ held' \in [Threads -> SUBSET Locks]
           /\ depth' \in [Threads -> [Locks -> Nat]]
           /\ scope' \in [Threads -> Seq(Held)]
           /\ \A s \in Threads, k \in Locks : Counted(s, k)' /\ OutermostGuards(s, k)'
           /\ \A s \in Threads, k \in Locks :
                k \in held'[s] <=>
                    k \in held[s] /\ ~(s = t /\ k = scope[t][Len(scope[t])].lock /\ scope[t][Len(scope[t])].guard)
<1>0. PICK n \in Nat, l \in Locks : n = Len(scope[t]) /\ n # 0 /\ l = scope[t][n].lock
  <2>1. scope[t] \in Seq(Held) /\ scope[t] # <<>>
    BY DEF LockInv, LockTypeOK, Drop
  <2>2. Len(scope[t]) \in Nat \ {0} /\ scope[t][Len(scope[t])] \in Held
    BY <2>1, InnermostHeld
  <2> QED
    BY <2>2 DEF Held
<1> DEFINE last == scope[t][n]
<1>1. n \in Nat \ {0} /\ DOMAIN scope[t] = 1..n /\ last \in Held /\ l \in Locks /\ l = last.lock
  BY <1>0, InnermostHeld, LenProperties DEF LockInv, LockTypeOK, Drop
<1>2. /\ scope' = [scope EXCEPT ![t] = SubSeq(scope[t], 1, n - 1)]
      /\ depth' = [depth EXCEPT ![t] = [depth[t] EXCEPT ![l] = @ - 1]]
      /\ held' = [held EXCEPT ![t] = IF depth[t][l] = 1 THEN held[t] \ {l} ELSE held[t]]
  BY <1>0 DEF LockInv, LockTypeOK, Drop, Left
<1>3. n \in HeldsOf(t, l) /\ \A i \in HeldsOf(t, l) : i \in 1..n
  BY <1>1 DEF HeldsOf
<1>4. Counted(t, l) /\ OutermostGuards(t, l)
  BY <1>1 DEF LockInv
<1>5. depth[t][l] \in Nat \ {0}
  BY <1>1, <1>3, <1>4, FS_EmptySet DEF Counted, LockInv, LockTypeOK
<1>6. last.guard <=> depth[t][l] = 1
  <2>1. last.guard <=> HeldsOf(t, l) = {n}
    <3>1. last.guard <=> \A j \in HeldsOf(t, l) : n <= j
      BY <1>3, <1>4 DEF OutermostGuards
    <3>2. ASSUME \A j \in HeldsOf(t, l) : n <= j, NEW i \in HeldsOf(t, l) PROVE i = n
      <4>1. i \in 1..n
        BY <1>3
      <4>2. n <= i
        BY <3>2
      <4> QED
        BY <1>1, <4>1, <4>2
    <3>3. HeldsOf(t, l) = {n} => \A j \in HeldsOf(t, l) : n <= j
      BY <1>1
    <3>4. (\A j \in HeldsOf(t, l) : n <= j) => HeldsOf(t, l) = {n}
      BY <1>3, <3>2
    <3> QED
      BY <3>1, <3>3, <3>4
  <2>2. HeldsOf(t, l) = {n} => depth[t][l] = 1
    BY <1>4, FS_Singleton DEF Counted
  <2>3. depth[t][l] = 1 => HeldsOf(t, l) = {n}
    <3>1. depth[t][l] = 1 => \E x : HeldsOf(t, l) = {x}
      BY <1>4, FS_Singleton DEF Counted
    <3> QED
      BY <1>3, <3>1
  <2> QED
    BY <2>1, <2>2, <2>3
<1>7. /\ held' \in [Threads -> SUBSET Locks]
      /\ depth' \in [Threads -> [Locks -> Nat]]
      /\ scope' \in [Threads -> Seq(Held)]
  <2>1. SubSeq(scope[t], 1, n - 1) \in Seq(Held)
    BY <1>1, SubSeqProperties DEF LockInv, LockTypeOK
  <2> QED
    BY <2>1, <1>1, <1>2, <1>5 DEF LockInv, LockTypeOK
<1>8. \A s \in Threads, k \in Locks : k \in held'[s] <=> k \in held[s] /\ ~(s = t /\ k = l /\ last.guard)
  BY <1>2, <1>6 DEF LockInv, LockTypeOK
<1>9. ASSUME NEW s \in Threads, NEW k \in Locks
      PROVE  Counted(s, k)' /\ OutermostGuards(s, k)'
  <2>1. CASE s # t
    <3>1. scope'[s] = scope[s] /\ depth'[s] = depth[s] /\ held'[s] = held[s]
      BY <2>1, <1>2 DEF LockInv, LockTypeOK
    <3>2. HeldsOf(s, k)' = HeldsOf(s, k)
      BY <3>1 DEF HeldsOf
    <3> QED
      BY <3>1, <3>2 DEF LockInv, Counted, OutermostGuards
  <2>2. CASE s = t
    <3>1. DOMAIN scope'[t] = 1..(n - 1) /\ \A i \in 1..(n - 1) : scope'[t][i] = scope[t][i]
      <4>1. scope'[t] = SubSeq(scope[t], 1, n - 1) /\ scope[t] \in Seq(Held)
        BY <1>2 DEF LockInv, LockTypeOK
      <4> QED
        BY <4>1, <1>1, SubSeqProperties
    <3>2. CASE k # l
      <4>1. HeldsOf(t, k)' = HeldsOf(t, k)
        BY <1>1, <3>1, <3>2 DEF HeldsOf
      <4>2. depth'[t][k] = depth[t][k] /\ (k \in held'[t] <=> k \in held[t])
        BY <3>2, <1>2 DEF LockInv, LockTypeOK
      <4>3. \A i \in HeldsOf(t, k) : scope'[t][i] = scope[t][i]
        BY <4>1, <3>1 DEF HeldsOf
      <4> QED
        BY <2>2, <4>1, <4>2, <4>3 DEF LockInv, Counted, OutermostGuards
    <3>3. CASE k = l
      <4>1. HeldsOf(t, l)' = HeldsOf(t, l) \ {n}
        BY <1>1, <3>1 DEF HeldsOf
      <4>2. /\ IsFiniteSet(HeldsOf(t, l)')
            /\ Cardinality(HeldsOf(t, l)') = Cardinality(HeldsOf(t, l)) - 1
        BY <4>1, <1>3, <1>4, FS_RemoveElement DEF Counted
      <4>3. depth'[t][l] = depth[t][l] - 1 /\ (l \in held'[t] <=> l \in held[t] /\ depth[t][l] # 1)
        BY <1>1, <1>2 DEF LockInv, LockTypeOK
      <4>4. Counted(t, l)'
        BY <4>2, <4>3, <1>4, <1>5 DEF Counted
      <4>5. \A i \in HeldsOf(t, l)' : scope'[t][i] = scope[t][i] /\ i \in HeldsOf(t, l) /\ i <= n
        BY <4>1, <3>1, <1>1, <1>3 DEF HeldsOf
      <4>6. OutermostGuards(t, l)'
        BY <4>1, <4>5, <1>4 DEF OutermostGuards
      <4> QED
        BY <2>2, <3>3, <4>4, <4>6
    <3> QED
      BY <3>2, <3>3
  <2> QED
    BY <2>1, <2>2
<1> QED
  BY <1>0, <1>7, <1>8, <1>9

----------------------------------------------------------------------------
(* Each step keeps it *)

LEMMA LockInvInit == LockInit => LockInv
<1> SUFFICES ASSUME LockInit PROVE LockInv
  OBVIOUS
<1>1. LockTypeOK
  BY DEF LockInit, LockTypeOK, Locks
<1>2. ASSUME NEW t \in Threads, NEW l \in Locks PROVE HeldsOf(t, l) = {}
  BY DEF LockInit, HeldsOf
<1>3. ASSUME NEW t \in Threads, NEW l \in Locks
      PROVE  Counted(t, l) /\ OutermostGuards(t, l) /\ Owns(t, l)
  <2>1. depth[t][l] = 0 /\ held[t] = {} /\ owner[l] = NoThread
    BY DEF LockInit
  <2> QED
    BY <1>2, <2>1, FS_EmptySet, NoThreadAssumption DEF Counted, OutermostGuards, Owns
<1> QED
  BY <1>1, <1>3 DEF LockInv, WaitsOutside, LockInit

\* What leaves the Helds alone leaves what they come to alone.
LEMMA HeldsUntouched ==
    ASSUME LockInv, UNCHANGED <<owner, held, depth, scope>>
    PROVE  \A t \in Threads, l \in Locks : Counted(t, l)' /\ OutermostGuards(t, l)' /\ Owns(t, l)'
BY DEF LockInv, Counted, OutermostGuards, Owns, HeldsOf

\* The mutex locked by a thread that didn't have it, or the lock nested.
LEMMA TakenKeeps ==
    ASSUME LockInv, NEW t \in Threads, NEW l \in Locks,
           \/ Lock(t, l) /\ waits' = [waits EXCEPT ![t] = "none"] /\ (waits[t] = l \/ depth[t][l] = 0)
           \/ Got(t, l, FALSE) /\ depth[t][l] > 0 /\ waits[t] = "none" /\ UNCHANGED <<owner, waits>>,
           UNCHANGED writing
    PROVE  LockInv'
<1>1. depth[t][l] \in Nat /\ held \in [Threads -> SUBSET Locks] /\ owner \in [Locks -> Threads \cup {NoThread}]
  BY DEF LockInv, LockTypeOK
<1>2. Lock(t, l) => depth[t][l] = 0
  <2>1. waits[t] = l => depth[t][l] = 0
    BY DEF LockInv, WaitsOutside, Locks
  <2>2. owner[l] = NoThread => l \notin held[t]
    BY NoThreadAssumption DEF LockInv, Owns
  <2> QED
    BY <1>1, <2>1, <2>2 DEF LockInv, Counted, Lock
<1>3. PICK guard \in BOOLEAN :
          Got(t, l, guard) /\ (guard <=> depth[t][l] = 0)
          /\ owner' = (IF guard THEN [owner EXCEPT ![l] = t] ELSE owner)
          /\ waits' = [waits EXCEPT ![t] = "none"]
  <2>1. waits[t] = "none" => waits = [waits EXCEPT ![t] = "none"]
    BY DEF LockInv, LockTypeOK
  <2>2. CASE Lock(t, l) /\ waits' = [waits EXCEPT ![t] = "none"]
    BY <1>2, <2>2 DEF Lock
  <2>3. CASE Got(t, l, FALSE) /\ depth[t][l] > 0 /\ waits[t] = "none" /\ UNCHANGED <<owner, waits>>
    <3>1. depth[t][l] # 0 /\ waits' = [waits EXCEPT ![t] = "none"] /\ owner' = owner
      BY <1>1, <2>1, <2>3
    <3> WITNESS FALSE \in BOOLEAN
    <3> QED
      BY <2>3, <3>1
  <2> QED
    BY <2>2, <2>3
<1>4. /\ held' \in [Threads -> SUBSET Locks]
      /\ depth' \in [Threads -> [Locks -> Nat]]
      /\ scope' \in [Threads -> Seq(Held)]
      /\ \A s \in Threads, k \in Locks : Counted(s, k)' /\ OutermostGuards(s, k)'
      /\ \A s \in Threads, k \in Locks : k \in held'[s] <=> k \in held[s] \/ (s = t /\ k = l)
  BY <1>3, GotKeeps
<1>5. LockTypeOK'
  BY <1>1, <1>3, <1>4 DEF LockInv, LockTypeOK
<1>6. guard => \A s \in Threads : l \notin held[s]
  <2>1. ASSUME guard PROVE owner[l] = NoThread
    <3>1. depth[t][l] = 0
      BY <1>3, <2>1
    <3> QED
      BY <3>1 DEF Lock
  <2> QED
    BY <2>1, NoThreadAssumption DEF LockInv, Owns
<1>7. ASSUME NEW s \in Threads, NEW k \in Locks PROVE Owns(s, k)'
  <2>1. Owns(s, k) /\ Owns(t, l) /\ Counted(t, l)
    BY DEF LockInv
  <2> QED
    BY <1>1, <1>3, <1>4, <1>6, <2>1 DEF Owns, Counted
<1>8. ASSUME NEW s \in Threads PROVE WaitsOutside(s)'
  <2>1. WaitsOutside(s)
    BY DEF LockInv
  <2>2. s = t => waits'[s] = "none"
    BY <1>3 DEF LockInv, LockTypeOK
  <2>3. s # t => waits'[s] = waits[s] /\ depth'[s] = depth[s]
    BY <1>3 DEF LockInv, LockTypeOK, Got
  <2> QED
    BY <2>1, <2>2, <2>3 DEF WaitsOutside
<1> QED
  BY <1>4, <1>5, <1>7, <1>8 DEF LockInv

LEMMA StepKeeps ==
    ASSUME LockInv, NEW t \in Threads, Step(t)
    PROVE  LockInv'
<1>1. ASSUME NEW l \in Locks, Nest(t, l) PROVE LockInv'
  BY <1>1, TakenKeeps DEF Nest, Running
<1>2. ASSUME NEW l \in Locks, Hold(t, l) PROVE LockInv'
  <2>1. LockTypeOK'
    BY <1>2 DEF Hold, LockInv, LockTypeOK
  <2>2. ASSUME NEW s \in Threads PROVE WaitsOutside(s)'
    <3>1. WaitsOutside(s) /\ waits'[s] = IF s = t THEN l ELSE waits[s]
      BY <1>2 DEF Hold, LockInv, LockTypeOK
    <3> QED
      BY <1>2, <3>1 DEF Hold, Takes, WaitsOutside, LockInv, LockTypeOK
  <2> QED
    BY <1>2, <2>1, <2>2, HeldsUntouched DEF Hold, LockInv
<1>3. CASE Acquire(t)
  BY <1>3, TakenKeeps DEF Acquire, LockInv, LockTypeOK
<1>4. CASE TryHold(t)
  <2>1. waits = [waits EXCEPT ![t] = "none"]
    BY <1>4 DEF TryHold, Running, LockInv, LockTypeOK
  <2> QED
    BY <1>4, <2>1, TakenKeeps DEF TryHold, Locks
<1>5. CASE Drop(t)
  <2> DEFINE last == scope[t][Len(scope[t])]
  <2>1. /\ held' \in [Threads -> SUBSET Locks]
        /\ depth' \in [Threads -> [Locks -> Nat]]
        /\ scope' \in [Threads -> Seq(Held)]
        /\ \A s \in Threads, k \in Locks : Counted(s, k)' /\ OutermostGuards(s, k)'
        /\ \A s \in Threads, k \in Locks : k \in held'[s] <=> k \in held[s] /\ ~(s = t /\ k = last.lock /\ last.guard)
    BY <1>5, DropKeeps
  <2>2. /\ owner' = (IF last.guard THEN [owner EXCEPT ![last.lock] = NoThread] ELSE owner)
        /\ UNCHANGED <<waits, writing>> /\ waits[t] = "none"
    BY <1>5 DEF Drop, Running
  <2>3. last \in Held /\ last.lock \in Locks /\ Len(scope[t]) \in HeldsOf(t, last.lock)
    <3>1. scope[t] \in Seq(Held) /\ scope[t] # <<>>
      BY <1>5 DEF Drop, LockInv, LockTypeOK
    <3>2. Len(scope[t]) \in DOMAIN scope[t] /\ last \in Held
      BY <3>1, InnermostHeld
    <3> QED
      BY <3>2 DEF Held, HeldsOf
  <2>4. LockTypeOK'
    BY <2>1, <2>2, <2>3 DEF LockInv, LockTypeOK
  <2>5. last.lock \in held[t]
    <3>1. Counted(t, last.lock)
      BY <2>3 DEF LockInv
    <3> QED
      BY <2>3, <3>1, FS_EmptySet DEF Counted, LockInv, LockTypeOK
  <2>6. ASSUME NEW s \in Threads, NEW k \in Locks PROVE Owns(s, k)'
    <3>1. Owns(s, k) /\ Owns(t, last.lock) /\ Owns(s, last.lock)
      BY <2>3 DEF LockInv
    <3> QED
      BY <2>1, <2>2, <2>3, <2>5, <3>1, NoThreadAssumption DEF Owns, LockInv, LockTypeOK
  <2>7. ASSUME NEW s \in Threads PROVE WaitsOutside(s)'
    <3>1. WaitsOutside(s) /\ waits'[s] = waits[s]
      BY <2>2 DEF LockInv
    <3>2. s # t => depth'[s] = depth[s]
      BY <1>5 DEF Drop, LockInv, LockTypeOK
    <3> QED
      BY <2>2, <3>1, <3>2 DEF WaitsOutside
  <2> QED
    BY <2>1, <2>4, <2>6, <2>7 DEF LockInv
<1>6. CASE StartWrite(t) \/ EndWrite(t)
  <2>1. UNCHANGED <<owner, held, depth, scope, waits>> /\ writing' \in SUBSET Threads
    BY <1>6 DEF StartWrite, EndWrite, LockInv, LockTypeOK
  <2> QED
    BY <2>1, HeldsUntouched DEF LockInv, LockTypeOK, WaitsOutside
<1> QED
  BY <1>1, <1>2, <1>3, <1>4, <1>5, <1>6 DEF Step

\* What the locks come to: a lock held is one thread's.
LEMMA HeldApart ==
    ASSUME LockInv, NEW s \in Threads, NEW t \in Threads, s # t
    PROVE  held[s] \cap held[t] = {}
<1>1. ASSUME NEW l \in held[s] \cap held[t] PROVE FALSE
  <2>1. l \in Locks
    BY <1>1 DEF LockInv, LockTypeOK
  <2> QED
    BY <1>1, <2>1 DEF LockInv, Owns
<1> QED
  BY <1>1

LEMMA InvMeansApart == LockInv => WritesApart
BY HeldApart DEF LockInv, LockTypeOK, WritesApart

LEMMA InvMeansNoDeadlock == LockInv => NoDeadlock
<1> SUFFICES ASSUME LockInv, NEW t \in Threads, waits[t] # "none", owner[waits[t]] # NoThread
             PROVE  waits[owner[waits[t]]] = "none" \/ (waits[t] = "write" /\ waits[owner[waits[t]]] = "health")
  BY DEF NoDeadlock
<1> DEFINE l == waits[t]
           b == owner[l]
<1>1. l \in Locks /\ b \in Threads /\ waits[b] \in Locks \cup {"none"}
  BY DEF LockInv, LockTypeOK
<1>2. depth[b][l] > 0
  <2>1. Owns(b, l) /\ Counted(b, l)
    BY <1>1 DEF LockInv
  <2> QED
    BY <2>1 DEF Owns, Counted
<1>3. waits[b] # "none" => depth[b][waits[b]] = 0 /\ depth[b]["health"] = 0
  BY <1>1 DEF LockInv, WaitsOutside
<1> QED
  BY <1>1, <1>2, <1>3 DEF Locks

LEMMA LockNextKeeps == LockInv /\ [LockNext]_lockVars => LockInv'
<1>1. ASSUME LockInv, LockNext PROVE LockInv'
  BY <1>1, StepKeeps DEF LockNext
<1>2. ASSUME LockInv, UNCHANGED lockVars PROVE LockInv'
  BY <1>2, HeldsUntouched DEF lockVars, LockInv, LockTypeOK, WaitsOutside
<1> QED
  BY <1>1, <1>2

\* Two tools' reads, decisions and writes are never interleaved, whatever the
\* threads do with the locks and however deep they nest them.
THEOREM LocksKeepWritesApart == LockSpec => []WritesApart
<1>1. LockSpec => []LockInv
  BY LockInvInit, LockNextKeeps, PTL DEF LockSpec
<1> QED
  BY <1>1, InvMeansApart, PTL

\* No threads wait on each other: the locks are only taken in one order, and
\* nesting one that's held doesn't wait.
THEOREM LocksDoNotDeadlock == LockSpec => []NoDeadlock
<1>1. LockSpec => []LockInv
  BY LockInvInit, LockNextKeeps, PTL DEF LockSpec
<1> QED
  BY <1>1, InvMeansNoDeadlock, PTL

----------------------------------------------------------------------------
(* A store built *)

\* From looking again until the store's kept, a thread holds WRITE_LOCK.
UnderLock(t) ==
    /\ at[t] = "lock" => waits[t] \in {"none", "write"}
    /\ at[t] \in {"check", "build", "set"} => "write" \in held[t]

\* One that builds it found none, and one that has built it has yet to keep
\* it; else none was built, or it's kept.
Unbuilt ==
    /\ \A t \in Threads : at[t] \in {"build", "set"} => ~slot
    /\ builds = 0 \/ (builds = 1 /\ (slot \/ \E t \in Threads : at[t] = "set"))
    /\ \A t \in Threads : at[t] = "build" => builds = 0

BuildInv ==
    /\ at \in [Threads -> {"out", "lock", "check", "build", "set", "leave"}]
    /\ slot \in BOOLEAN
    /\ LockInv /\ Unbuilt
    /\ \A t \in Threads : UnderLock(t)

\* A thread's lock step leaves what the others hold.
LEMMA OthersHold ==
    ASSUME LockInv, NEW t \in Threads, NEW s \in Threads, s # t, Step(t)
    PROVE  held'[s] = held[s]
<1>1. held \in [Threads -> SUBSET Locks]
  BY DEF LockInv, LockTypeOK
<1> QED
  BY <1>1 DEF Step, Nest, Hold, Acquire, TryHold, Lock, Got, Drop, Left, StartWrite, EndWrite

\* Entering, it comes to hold the lock, or waits for it.
LEMMA EnterHolds ==
    ASSUME BuildInv, NEW t \in Threads, Enter(t)
    PROVE  /\ Step(t) /\ at[t] = "lock"
           /\ \/ at' = at /\ waits'[t] = "write"
              \/ at' = [at EXCEPT ![t] = "check"] /\ "write" \in held'[t]
<1>1. held \in [Threads -> SUBSET Locks] /\ waits \in [Threads -> Locks \cup {"none"}] /\ "write" \in Locks
  BY DEF BuildInv, LockInv, LockTypeOK, Locks
<1>2. at[t] = "lock"
  BY DEF Enter, Go
<1>3. CASE Go(t, "lock", "check") /\ Nest(t, "write")
  BY <1>1, <1>2, <1>3 DEF Go, Nest, Got, Step
<1>4. CASE UNCHANGED at /\ Hold(t, "write")
  BY <1>1, <1>2, <1>4 DEF Hold, Step
<1>5. CASE Go(t, "lock", "check") /\ Acquire(t)
  <2>1. waits[t] = "write"
    BY <1>2, <1>5 DEF BuildInv, UnderLock, Acquire
  <2> QED
    BY <1>1, <1>2, <1>5, <2>1 DEF Go, Acquire, Lock, Got, Step
<1> QED
  BY <1>3, <1>4, <1>5 DEF Enter

\* Where the others are, and hold, is left.
LEMMA OthersUnderLock ==
    ASSUME BuildInv, NEW t \in Threads, Step(t) \/ UNCHANGED lockVars,
           NEW place \in {"out", "lock", "check", "build", "set", "leave"}, at' = [at EXCEPT ![t] = place],
           UnderLock(t)'
    PROVE  LockInv' /\ at' \in [Threads -> {"out", "lock", "check", "build", "set", "leave"}]
           /\ \A s \in Threads : UnderLock(s)'
<1>1. LockInv'
  BY LockNextKeeps DEF BuildInv, LockNext
<1>2. ASSUME NEW s \in Threads, s # t PROVE UnderLock(s)'
  <2>1. at'[s] = at[s]
    BY <1>2 DEF BuildInv
  <2>2. held'[s] = held[s]
    BY <1>2, OthersHold DEF BuildInv, lockVars
  <2>3. waits'[s] = waits[s]
    BY <1>2 DEF BuildInv, LockInv, LockTypeOK, lockVars,
                Step, Nest, Hold, Acquire, TryHold, Drop, StartWrite, EndWrite
  <2> QED
    BY <2>1, <2>2, <2>3 DEF BuildInv, UnderLock
<1> QED
  BY <1>1, <1>2 DEF BuildInv

\* Only one thread is past looking again.
LEMMA OneInside ==
    ASSUME BuildInv, NEW s \in Threads, NEW t \in Threads, s # t, at[s] \in {"check", "build", "set"}
    PROVE  at[t] \notin {"check", "build", "set"}
<1>1. held[s] \cap held[t] = {}
  BY HeldApart DEF BuildInv
<1> QED
  BY <1>1 DEF BuildInv, UnderLock

LEMMA StoreStepKeeps ==
    ASSUME BuildInv, NEW t \in Threads,
           Look(t) \/ Enter(t) \/ CheckAgain(t) \/ Build(t) \/ Set(t) \/ Leave(t) \/ Otherwise(t)
    PROVE  BuildInv'
<1>1. CASE Look(t)
  <2>1. UnderLock(t)'
    BY <1>1 DEF Look, Go, UnderLock, Running, lockVars, BuildInv
  <2>2. Unbuilt'
    BY <1>1 DEF Look, Go, BuildInv, Unbuilt
  <2> QED
    BY <1>1, <2>1, <2>2, OthersUnderLock DEF Look, Go, BuildInv
<1>2. CASE Enter(t)
  <2>1. /\ Step(t) /\ at[t] = "lock"
        /\ \/ at' = [at EXCEPT ![t] = "lock"] /\ waits'[t] = "write"
           \/ at' = [at EXCEPT ![t] = "check"] /\ "write" \in held'[t]
    BY <1>2, EnterHolds DEF BuildInv
  <2>2. UnderLock(t)'
    BY <2>1 DEF BuildInv, UnderLock
  <2>3. Unbuilt'
    BY <1>2, <2>1 DEF Enter, BuildInv, Unbuilt
  <2> QED
    BY <1>2, <2>1, <2>2, <2>3, OthersUnderLock DEF Enter, BuildInv
<1>3. CASE CheckAgain(t)
  <2>1. UnderLock(t)'
    BY <1>3 DEF CheckAgain, Go, UnderLock, lockVars, BuildInv
  <2>2. \A s \in Threads : s # t => at[s] # "set"
    BY <1>3, OneInside DEF CheckAgain, Go
  <2>3. Unbuilt'
    BY <1>3, <2>2 DEF CheckAgain, Go, BuildInv, Unbuilt
  <2> QED
    BY <1>3, <2>1, <2>3, OthersUnderLock DEF CheckAgain, Go, BuildInv
<1>4. CASE Build(t)
  <2>1. UnderLock(t)'
    BY <1>4 DEF Build, Go, UnderLock, lockVars, BuildInv
  <2>2. \A s \in Threads : s # t => at[s] \notin {"build", "set"}
    BY <1>4, OneInside DEF Build, Go
  <2>3. Unbuilt'
    BY <1>4, <2>2 DEF Build, Go, BuildInv, Unbuilt
  <2> QED
    BY <1>4, <2>1, <2>3, OthersUnderLock DEF Build, Go, BuildInv
<1>5. CASE Set(t)
  <2>1. UnderLock(t)'
    BY <1>5 DEF Set, Go, UnderLock, lockVars, BuildInv
  <2>2. \A s \in Threads : s # t => at[s] \notin {"build", "set"}
    BY <1>5, OneInside DEF Set, Go
  <2>3. Unbuilt'
    BY <1>5, <2>2 DEF Set, Go, BuildInv, Unbuilt
  <2> QED
    BY <1>5, <2>1, <2>3, OthersUnderLock DEF Set, Go, BuildInv
<1>6. CASE Leave(t)
  <2>1. UnderLock(t)'
    BY <1>6 DEF Leave, Go, UnderLock, BuildInv
  <2>2. Unbuilt'
    BY <1>6 DEF Leave, Go, BuildInv, Unbuilt
  <2> QED
    BY <1>6, <2>1, <2>2, OthersUnderLock DEF Leave, Go, Step, BuildInv
<1>7. CASE Otherwise(t)
  <2>1. at' = [at EXCEPT ![t] = "out"] /\ UnderLock(t)'
    BY <1>7 DEF Otherwise, storeVars, UnderLock, BuildInv
  <2>2. Unbuilt'
    BY <1>7 DEF Otherwise, storeVars, BuildInv, Unbuilt
  <2> QED
    BY <1>7, <2>1, <2>2, OthersUnderLock DEF Otherwise, storeVars, BuildInv
<1> QED
  BY <1>1, <1>2, <1>3, <1>4, <1>5, <1>6, <1>7

LEMMA BuildInvariant == StoreSpec => []BuildInv
<1>1. StoreInit => BuildInv
  BY LockInvInit DEF StoreInit, BuildInv, Unbuilt, UnderLock
<1>2. BuildInv /\ [StoreNext]_<<lockVars, storeVars>> => BuildInv'
  <2>1. ASSUME BuildInv, StoreNext PROVE BuildInv'
    BY <2>1, StoreStepKeeps DEF StoreNext
  <2>2. ASSUME BuildInv, UNCHANGED <<lockVars, storeVars>> PROVE BuildInv'
    <3>1. LockInv'
      BY <2>2, LockNextKeeps DEF BuildInv
    <3> QED
      BY <2>2, <3>1 DEF BuildInv, Unbuilt, UnderLock, lockVars, storeVars
  <2> QED
    BY <2>1, <2>2
<1> QED
  BY <1>1, <1>2, PTL DEF StoreSpec

\* However many threads find a store missing at once, it's built once.
THEOREM StoreIsBuiltOnce == StoreSpec => []BuiltOnce
<1>1. BuildInv => BuiltOnce
  BY DEF BuildInv, Unbuilt, BuiltOnce
<1> QED
  BY <1>1, BuildInvariant, PTL

\* Building a store is only ever steps of the locks: what's proved of them
\* holds while stores are built too.
THEOREM BuildingIsLocking == StoreSpec => LockSpec
<1>1. StoreInit => LockInit
  BY DEF StoreInit
<1>2. BuildInv /\ [StoreNext]_<<lockVars, storeVars>> => [LockNext]_lockVars
  <2>1. ASSUME BuildInv, NEW t \in Threads,
               Look(t) \/ Enter(t) \/ CheckAgain(t) \/ Build(t) \/ Set(t) \/ Leave(t) \/ Otherwise(t)
        PROVE  Step(t) \/ UNCHANGED lockVars
    BY <2>1, EnterHolds DEF Look, CheckAgain, Build, Set, Leave, Otherwise, Step
  <2> QED
    BY <2>1 DEF StoreNext, LockNext
<1> QED
  BY <1>1, <1>2, BuildInvariant, PTL DEF StoreSpec, LockSpec
=============================================================================
