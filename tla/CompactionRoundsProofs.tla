----------------------- MODULE CompactionRoundsProofs -----------------------
(***************************************************************************)
(* What's proved of compactions one after another, for any agendas,        *)
(* decisions, notes and bounds.                                            *)
(***************************************************************************)
EXTENDS CompactionRoundsProperties, FiniteSetTheorems, WellFoundedInduction, TLAPS

----------------------------------------------------------------------------
(* Of numbers *)

\* A finite set of integers, not empty, has a least and a greatest.
LEMMA FiniteLeast ==
    ASSUME NEW S, IsFiniteSet(S), S \subseteq Int, S # {}
    PROVE  \E x \in S : \A y \in S : x <= y
<1> DEFINE Without == {T \in FiniteSubsetsOf(S) : T # {} /\ ~\E x \in T : \A y \in T : x <= y}
<1>1. CASE Without = {}
  BY <1>1 DEF FiniteSubsetsOf
<1>2. CASE Without # {}
  <2>1. Without \subseteq FiniteSubsetsOf(S) /\ IsWellFoundedOn(StrictSubsetOrdering(S), FiniteSubsetsOf(S))
    BY FS_StrictSubsetOrderingWellFounded
  <2>2. PICK T \in Without : \A U \in Without : ~(<<U, T>> \in StrictSubsetOrdering(S))
    <3> HIDE DEF Without
    <3> QED
      BY <1>2, <2>1, WFMin
  <2>3. T \subseteq S /\ T \subseteq Int /\ IsFiniteSet(T) /\ T # {} /\ ~\E x \in T : \A y \in T : x <= y
    BY <2>2 DEF FiniteSubsetsOf
  <2>4. PICK z \in T : TRUE
    BY <2>3
  <2> DEFINE U == T \ {z}
  <2>5. IsFiniteSet(U) /\ U \subseteq T /\ U # T /\ U \subseteq S
    BY <2>3, <2>4, FS_RemoveElement
  <2>6. <<U, T>> \in StrictSubsetOrdering(S)
    BY <2>3, <2>5 DEF StrictSubsetOrdering
  <2>7. U \notin Without
    BY <2>2, <2>6
  <2>8. U = {} \/ \E x \in U : \A y \in U : x <= y
    BY <2>5, <2>7 DEF FiniteSubsetsOf
  <2>9. CASE U = {}
    BY <2>9, <2>3, <2>4
  <2>10. CASE \E x \in U : \A y \in U : x <= y
    <3>1. PICK x \in U : \A y \in U : x <= y
      BY <2>10
    <3>2. x \in Int /\ z \in Int /\ x \in T /\ T \subseteq Int
      BY <2>3, <3>1
    <3>3. CASE x <= z
      BY <3>1, <3>2, <3>3, <2>3
    <3>4. CASE ~(x <= z)
      <4>1. \A y \in T : z <= y
        BY <3>1, <3>2, <3>4
      <4> QED
        BY <4>1, <2>3
    <3> QED
      BY <3>3, <3>4
  <2> QED
    BY <2>8, <2>9, <2>10
<1> QED
  BY <1>1, <1>2
LEMMA LeastIsMin ==
    ASSUME NEW S, IsFiniteSet(S), S \subseteq Int, S # {}
    PROVE  Min(S) \in S /\ Min(S) \in Int /\ \A y \in S : Min(S) <= y
<1>1. \E x \in S : \A y \in S : x <= y
  BY FiniteLeast
<1> QED
  BY <1>1 DEF Min
LEMMA GreatestIsMax ==
    ASSUME NEW S, IsFiniteSet(S), S \subseteq Int, S # {}
    PROVE  Max(S) \in S /\ Max(S) \in Int /\ \A y \in S : y <= Max(S)
<1> DEFINE f == [x \in S |-> 0 - x]
           T == {0 - x : x \in S}
<1>1. f \in Surjection(S, T)
  BY DEF Surjection
<1>a. IsFiniteSet(T)
  <2> HIDE DEF f, T
  <2> QED
    BY <1>1, FS_Surjection
<1>b. T \subseteq Int
  OBVIOUS
<1>c. T # {}
  OBVIOUS
<1>2. IsFiniteSet(T) /\ T \subseteq Int /\ T # {}
  BY <1>a, <1>b, <1>c
<1>3. PICK m \in T : \A y \in T : m <= y
  BY <1>2, FiniteLeast
<1>4. PICK x \in S : m = 0 - x
  BY <1>3
<1>5. \A y \in S : x >= y
  <2> SUFFICES ASSUME NEW y \in S PROVE x >= y
    OBVIOUS
  <2>1. 0 - y \in T /\ y \in Int /\ x \in Int
    OBVIOUS
  <2> QED
    BY <2>1, <1>3, <1>4
<1> QED
  BY <1>5 DEF Max

\* The least and greatest of two.
LEMMA OfTwo ==
    ASSUME NEW a \in Int, NEW b \in Int
    PROVE  Min({a, b}) = (IF a <= b THEN a ELSE b)
<1>1. \E x \in {a, b} : \A y \in {a, b} : x <= y
  BY DEF Min
<1>2. Min({a, b}) \in {a, b} /\ \A y \in {a, b} : Min({a, b}) <= y
  BY <1>1 DEF Min
<1> QED
  BY <1>2

----------------------------------------------------------------------------
(* Events, decisions and the calendar *)

CreatesOf(decisions) == {d.id : d \in {m \in decisions : m.do = "create"}}

\* What's recorded is still so, but for what was changed since.
SettledHolds == \A k \in DOMAIN settled :
    /\ last # NoTime /\ k \in DOMAIN agenda
    /\ settled[k] = [start |-> settled[k].start, until |-> settled[k].until]
    /\ settled[k].start \in Int /\ settled[k].until \in Int
    /\ settled[k].start < last /\ settled[k].until <= last
    /\ agenda[k].start = settled[k].start /\ agenda[k].end >= settled[k].until

\* A revision's of no more than a span: from where the last compaction
\* stamped until, or from a day that none of the notes it has is before.
SpanOf(r) ==
    /\ last # NoTime => r.q.now <= last + MaxSpan
    /\ last = NoTime => \E x \in Nat :
           /\ r.q.now <= (x \div DayLength) * DayLength + MaxSpan
           /\ \A n \in DOMAIN r.q.notes : n \in DOMAIN jotted /\ x <= jotted[n].at

\* What a proposal makes isn't there yet.
RoundHolds ==
    /\ round.at \in {"none", "proposed", "failed"}
    /\ round.at # "none" => IsAsk(round.ask) /\ CreatesOf(round.ask.decisions) \cap DOMAIN agenda = {}
    /\ round.at = "proposed" => round.q.now \in Nat /\ SpanOf(round)
    /\ round.at = "failed" => round.through \in Nat

RoundsTypes ==
    /\ IsAgenda(agenda) /\ hour \in Nat /\ last \in Nat \cup {NoTime}
    /\ IsFiniteSet(DOMAIN jotted) /\ DOMAIN jotted = 1 .. Cardinality(DOMAIN jotted)
    /\ \A n \in DOMAIN jotted :
          /\ jotted[n] = [at |-> jotted[n].at, says |-> jotted[n].says, stamped |-> jotted[n].stamped]
          /\ jotted[n].at \in Nat
    /\ settled = [k \in DOMAIN settled |-> settled[k]]

RoundsInv == RoundsTypes /\ SettledHolds /\ RoundHolds /\ ShownIsWritten

----------------------------------------------------------------------------
(* Of the decisions *)

\* What's asked, of events there are.
IsQuestion(q) ==
    /\ IsAgenda(q.events)
    /\ IsFiniteSet(q.decisions) /\ \A d \in q.decisions : d.id \in Nat \ {Unset} /\ {d.start, d.end} \subseteq Int
    /\ \A n \in DOMAIN q.notes : q.notes[n].at \in Int
    /\ q.now \in Int /\ q.history \in Int
    /\ Made(q) \cap DOMAIN q.events = {}

LEMMA DecisionIs ==
    ASSUME NEW q, NEW k
    PROVE  \/ DecisionOf(q, k) \in q.decisions /\ DecisionOf(q, k).id = k
           \/ /\ ~\E d \in q.decisions : d.id = k
              /\ DecisionOf(q, k) = Decision("keep", k)
BY DEF DecisionOf, DecisionAmong

\* Those a decision takes away or keeps are events there are.
LEMMA DecidedAreThere ==
    ASSUME NEW q, IsQuestion(q), ~Malformed(q)
    PROVE  /\ Cancelled(q) \subseteq DOMAIN q.events /\ Kept(q) \subseteq DOMAIN q.events
           /\ \A k : MergedInto(q, k) \subseteq DOMAIN q.events /\ IsFiniteSet(MergedInto(q, k))
           /\ \A k : MergedInto(q, k) \subseteq Cancelled(q)
           /\ \A d \in q.decisions : d.do = "merge" => d.into \in Kept(q)
           /\ Made(q) \subseteq Nat \ {Unset}
<1>1. \A d \in q.decisions : d.do \in {"cancel", "merge", "keep"} => d.id \in DOMAIN q.events
  BY DEF Malformed
<1>2. \A d \in q.decisions : d.do = "merge" => d.into \in DOMAIN q.events
  BY DEF Malformed
<1>3. \A k : MergedInto(q, k) \subseteq DOMAIN q.events /\ MergedInto(q, k) \subseteq Cancelled(q)
  BY <1>1 DEF MergedInto, Doing, Cancelled
<1>4. IsFiniteSet(DOMAIN q.events)
  BY DEF IsQuestion, IsAgenda
<1>5. \A k : IsFiniteSet(MergedInto(q, k))
  BY <1>3, <1>4, FS_Subset
<1>6. Cancelled(q) \subseteq DOMAIN q.events /\ Kept(q) \subseteq DOMAIN q.events
  BY <1>1, <1>2 DEF Cancelled, Kept, Doing
<1>7. \A d \in q.decisions : d.do = "merge" => d.into \in Kept(q)
  BY DEF Kept, Doing
<1>8. Made(q) \subseteq Nat \ {Unset}
  BY DEF Made, Doing, IsQuestion
<1> QED
  BY <1>3, <1>5, <1>6, <1>7, <1>8

\* One that's kept is decided so, or by what's merged into it.
LEMMA KeptIsKept ==
    ASSUME NEW q, IsQuestion(q), ~Malformed(q), NEW k \in Kept(q)
    PROVE  /\ k \notin Cancelled(q)
           /\ DecisionOf(q, k).do = "keep" /\ {DecisionOf(q, k).start, DecisionOf(q, k).end} \subseteq Int
           /\ DecisionOf(q, k) \in q.decisions \/ DecisionOf(q, k) = Decision("keep", k)
<1>1. k \in DOMAIN q.events /\ k \notin Made(q)
  BY DecidedAreThere DEF IsQuestion
<1>2. \A d \in q.decisions : d.id = k => d.do # "create"
  BY <1>1 DEF Made, Doing
<1>3. \A d, e \in q.decisions : d.id = k /\ e.id = k => d = e
  BY <1>2 DEF Malformed
<1>4. \A d \in q.decisions : d.id = k => d.do = "keep"
  <2> SUFFICES ASSUME NEW d \in q.decisions, d.id = k PROVE d.do = "keep"
    OBVIOUS
  <2>1. CASE \E e \in q.decisions : e.do = "keep" /\ e.id = k
    BY <2>1, <1>3
  <2>2. CASE \E e \in q.decisions : e.do = "merge" /\ e.into = k
    BY <2>2 DEF Malformed
  <2> QED
    BY <2>1, <2>2 DEF Kept, Doing
<1>5. k \notin Cancelled(q)
  BY <1>4 DEF Cancelled, Doing
<1>6. CASE DecisionOf(q, k) \in q.decisions /\ DecisionOf(q, k).id = k
  BY <1>4, <1>5, <1>6 DEF IsQuestion
<1>7. CASE DecisionOf(q, k) = Decision("keep", k)
  BY <1>5, <1>7 DEF Decision, NoTime
<1> QED
  BY <1>6, <1>7, DecisionIs

----------------------------------------------------------------------------
(* When events are put *)

\* The edges decided, before those of what's merged in.
OwnStart(q, k) ==
    Edge(q, DecisionOf(q, k).start, DecisionOf(q, k).startNote, IF k \in Made(q) THEN NoTime ELSE q.events[k].start)
OwnEnd(q, k) ==
    Edge(q, DecisionOf(q, k).end, DecisionOf(q, k).endNote, IF k \in Made(q) THEN NoTime ELSE q.events[k].end)

LEMMA DecidedIs ==
    ASSUME NEW q, IsQuestion(q), ~Malformed(q), NEW k \in Kept(q) \cup Made(q)
    PROVE  /\ {DecisionOf(q, k).start, DecisionOf(q, k).end} \subseteq Int
           /\ \A note \in {DecisionOf(q, k).startNote, DecisionOf(q, k).endNote} : note = Unset \/ note \in DOMAIN q.notes
<1>1. CASE DecisionOf(q, k) \in q.decisions
  BY <1>1 DEF IsQuestion, Malformed
<1>2. CASE DecisionOf(q, k) = Decision("keep", k)
  BY <1>2 DEF Decision, NoTime
<1> QED
  BY <1>1, <1>2, DecisionIs

LEMMA OwnAre ==
    ASSUME NEW q, IsQuestion(q), ~Malformed(q), NEW k \in Kept(q) \cup Made(q)
    PROVE  OwnStart(q, k) \in Int /\ OwnEnd(q, k) \in Int
<1>1. k \notin Made(q) => k \in DOMAIN q.events /\ q.events[k].start \in Int /\ q.events[k].end \in Int
  BY DecidedAreThere DEF IsQuestion, IsAgenda, IsEvent
<1>2. \A n \in DOMAIN q.notes : q.notes[n].at \in Int
  BY DEF IsQuestion
<1> QED
  BY <1>1, <1>2, DecidedIs DEF OwnStart, OwnEnd, Edge, NoTime

\* An event starts no later than what's merged into it and ends no earlier,
\* and ends when it's put or something merged into it did.
LEMMA TimesAre ==
    ASSUME NEW q, IsQuestion(q), ~Malformed(q), NEW k \in Kept(q) \cup Made(q)
    PROVE  /\ StartOf(q, k) \in Int /\ EndOf(q, k) \in Int
           /\ \A m \in MergedInto(q, k) : StartOf(q, k) <= q.events[m].start /\ q.events[m].end <= EndOf(q, k)
           /\ StartOf(q, k) = OwnStart(q, k) \/ \E m \in MergedInto(q, k) : StartOf(q, k) = q.events[m].start
           /\ EndOf(q, k) = OwnEnd(q, k) \/ \E m \in MergedInto(q, k) : EndOf(q, k) = q.events[m].end
<1> DEFINE M == MergedInto(q, k)
           f == [m \in M |-> q.events[m].start]
           g == [m \in M |-> q.events[m].end]
           S == {q.events[m].start : m \in M}
           E == {q.events[m].end : m \in M}
<1>1. M \subseteq DOMAIN q.events /\ IsFiniteSet(M)
  BY DecidedAreThere
<1>2. \A m \in M : q.events[m].start \in Int /\ q.events[m].end \in Int
  BY <1>1 DEF IsQuestion, IsAgenda, IsEvent
<1>3. S \subseteq Int /\ E \subseteq Int
  BY <1>2
<1>4. f \in Surjection(M, S) /\ g \in Surjection(M, E)
  BY DEF Surjection
<1>5. IsFiniteSet(S) /\ IsFiniteSet(E)
  <2> HIDE DEF f, g, M, S, E
  <2> QED
    BY <1>1, <1>4, FS_Surjection
<1>6. IsFiniteSet({OwnStart(q, k)} \cup S) /\ IsFiniteSet({OwnEnd(q, k)} \cup E)
  <2> HIDE DEF S, E
  <2> QED
    BY <1>5, FS_Singleton, FS_Union
<1>7. {OwnStart(q, k)} \cup S \subseteq Int /\ {OwnEnd(q, k)} \cup E \subseteq Int
  BY <1>3, OwnAre
<1>8. StartOf(q, k) = Min({OwnStart(q, k)} \cup S)
  BY DEF StartOf, OwnStart
<1>9. EndOf(q, k) = Max({OwnEnd(q, k)} \cup E)
  BY DEF EndOf, OwnEnd
<1>10. /\ StartOf(q, k) \in {OwnStart(q, k)} \cup S /\ StartOf(q, k) \in Int
       /\ \A y \in {OwnStart(q, k)} \cup S : StartOf(q, k) <= y
  <2> HIDE DEF S
  <2> QED
    BY <1>6, <1>7, <1>8, LeastIsMin
<1>11. /\ EndOf(q, k) \in {OwnEnd(q, k)} \cup E /\ EndOf(q, k) \in Int
       /\ \A y \in {OwnEnd(q, k)} \cup E : y <= EndOf(q, k)
  <2> HIDE DEF E
  <2> QED
    BY <1>6, <1>7, <1>9, GreatestIsMax
<1> QED
  BY <1>10, <1>11

----------------------------------------------------------------------------
(* What's planned *)

LEMMA SoleIs == \A x : Sole({x}) = x
BY DEF Sole

\* What's asked, with what was resolved of it, is decided the same.
LEMMA ResolvedIs ==
    ASSUME NEW q, NEW r, r = Resolved(q)
    PROVE  /\ r.notes = q.notes /\ r.events = q.events /\ r.decisions = q.decisions /\ r.ignored = q.ignored
           /\ r.targets = q.targets /\ r.now = q.now
           /\ r.kept = Kept(q) /\ r.made = Made(q) /\ r.cancelled = Cancelled(q) /\ r.decided = Decided(q)
           /\ r.touched = Touched(q) /\ r.facts = Facts(q) /\ r.there = There(q)
           /\ \A do : Doing(r, do) = Doing(q, do)
           /\ \A k : DecisionOf(r, k) = DecisionOf(q, k)
           /\ \A k : MergedInto(r, k) = MergedInto(q, k)
           /\ Made(r) = Made(q)
<1>1. /\ r.notes = q.notes /\ r.events = q.events /\ r.decisions = q.decisions /\ r.ignored = q.ignored
      /\ r.targets = q.targets /\ r.now = q.now
      /\ r.kept = Kept(q) /\ r.made = Made(q) /\ r.cancelled = Cancelled(q) /\ r.decided = Decided(q)
      /\ r.touched = Touched(q) /\ r.facts = Facts(q) /\ r.there = There(q)
  BY DEF Resolved
<1>2. \A k : DecisionOf(r, k) = DecisionOf(q, k)
  BY <1>1 DEF DecisionOf
<1>3. \A do : Doing(r, do) = Doing(q, do)
  BY <1>1 DEF Doing
<1>4. \A k : MergedInto(r, k) = MergedInto(q, k)
  BY <1>3 DEF MergedInto
<1>5. Made(r) = Made(q)
  BY <1>3 DEF Made
<1> QED
  BY <1>1, <1>2, <1>3, <1>4, <1>5
LEMMA ResolvedTimes ==
    ASSUME NEW q, NEW r, r = Resolved(q), NEW k
    PROVE  StartOf(r, k) = StartOf(q, k) /\ EndOf(r, k) = EndOf(q, k)
<1>1. {r.events[m].start : m \in MergedInto(r, k)} = {q.events[m].start : m \in MergedInto(q, k)}
  BY ResolvedIs
<1>2. {r.events[m].end : m \in MergedInto(r, k)} = {q.events[m].end : m \in MergedInto(q, k)}
  BY ResolvedIs
<1>3. \A said, note, otherwise : Edge(r, said, note, otherwise) = Edge(q, said, note, otherwise)
  BY ResolvedIs DEF Edge
<1>4. (k \in Made(r) <=> k \in Made(q)) /\ r.events = q.events /\ DecisionOf(r, k) = DecisionOf(q, k)
  BY ResolvedIs
<1>5. OwnStart(r, k) = OwnStart(q, k) /\ OwnEnd(r, k) = OwnEnd(q, k)
  BY <1>3, <1>4 DEF OwnStart, OwnEnd
<1> DEFINE S(x) == {x.events[m].start : m \in MergedInto(x, k)}
           E(x) == {x.events[m].end : m \in MergedInto(x, k)}
<1>6. \A x : StartOf(x, k) = Min({OwnStart(x, k)} \cup S(x)) /\ EndOf(x, k) = Max({OwnEnd(x, k)} \cup E(x))
  BY DEF StartOf, EndOf, OwnStart, OwnEnd
<1>7. S(r) = S(q) /\ E(r) = E(q)
  BY <1>1, <1>2
<1> HIDE DEF S, E
<1> QED
  BY <1>5, <1>6, <1>7

\* A plan made is of decisions that are well formed, unsettle nothing and
\* collide with nothing.
LEMMA PlannedIs ==
    ASSUME NEW q, Planned(q).ok
    PROVE  /\ ~Malformed(q) /\ ~Compacted(q) /\ ~Timeless(q)
           /\ LET r == Resolved(q)
                  told == [n \in Textual(r) |-> Told(r, Placing(r), n)]
                  with == GoesWith(r, Placing(r), told)
              IN  /\ ~Collides(r, Placing(r)) /\ ~Misplaced(r, told)
                  /\ Planned(q).events = Noted(r, Placing(r), with)
                  /\ Planned(q).shown = TimelineOf(r, Noted(r, Placing(r), with))
<1> DEFINE r == Resolved(q)
           placed == Placing(r)
           told == [n \in Textual(r) |-> Told(r, placed, n)]
           with == GoesWith(r, placed, told)
           noted == Noted(r, placed, with)
<1>1. Refusal.ok = FALSE
  BY DEF Refusal
<1>2. Planned(q) # Refusal
  BY <1>1
<1>3. ~Malformed(q) /\ ~Compacted(q) /\ ~Timeless(q) /\ Planned(q) = Sole({Placed(x) : x \in {Resolved(q)}})
  BY <1>2 DEF Planned
<1>4. {Placed(x) : x \in {Resolved(q)}} = {Placed(r)}
  OBVIOUS
<1>5. Planned(q) = Placed(r)
  BY <1>3, <1>4, SoleIs
<1>6. UNION {{PlacedNotes(r, p, t) : t \in {[n \in Textual(r) |-> Told(r, p, n)]}} : p \in {Placing(r)}} = {PlacedNotes(r, placed, told)}
  <2>1. {[n \in Textual(r) |-> Told(r, placed, n)]} = {told}
    OBVIOUS
  <2> DEFINE f(p) == {PlacedNotes(r, p, t) : t \in {[n \in Textual(r) |-> Told(r, p, n)]}}
  <2>2. f(placed) = {PlacedNotes(r, placed, told)}
    <3> HIDE DEF r, placed, told
    <3>1. {PlacedNotes(r, placed, t) : t \in {told}} = {PlacedNotes(r, placed, told)}
      OBVIOUS
    <3> QED
      BY <3>1 DEF told
  <2>3. UNION {f(p) : p \in {placed}} = f(placed)
    <3> HIDE DEF f, placed
    <3> QED
      OBVIOUS
  <2> QED
    BY <2>2, <2>3
<1>7. Planned(q) = PlacedNotes(r, placed, told)
  <2>1. Placed(r) = Sole({PlacedNotes(r, placed, told)})
    BY <1>6 DEF Placed
  <2> QED
    BY <2>1, <1>5, SoleIs
<1>8. UNION {{Annotated(r, placed, w, m) : m \in {Noted(r, placed, w)}} : w \in {GoesWith(r, placed, told)}} = {Annotated(r, placed, with, noted)}
  <2> DEFINE f(w) == {Annotated(r, placed, w, m) : m \in {Noted(r, placed, w)}}
  <2>1. f(with) = {Annotated(r, placed, with, noted)}
    <3> HIDE DEF r, placed, with
    <3>1. {Annotated(r, placed, with, m) : m \in {noted}} = {Annotated(r, placed, with, noted)}
      <4> HIDE DEF noted
      <4> QED
        OBVIOUS
    <3> QED
      BY <3>1
  <2>2. UNION {f(w) : w \in {with}} = f(with)
    <3> HIDE DEF f, with
    <3> QED
      OBVIOUS
  <2> QED
    BY <2>1, <2>2
<1>9. Planned(q) = Annotated(r, placed, with, noted)
  <2>1. PlacedNotes(r, placed, told) = Sole({Annotated(r, placed, with, noted)})
    <3>1. ~Misplaced(r, told)
      BY <1>2, <1>7 DEF PlacedNotes
    <3> HIDE DEF r, placed, told, with, noted
    <3>2. PlacedNotes(r, placed, told) =
              Sole(UNION {{Annotated(r, placed, w, m) : m \in {Noted(r, placed, w)}} : w \in {GoesWith(r, placed, told)}})
      BY <3>1 DEF PlacedNotes
    <3> QED
      BY <3>2, <1>8
  <2> QED
    BY <2>1, <1>7, SoleIs
<1>10. ~Misplaced(r, told)
  BY <1>2, <1>7 DEF PlacedNotes
<1> HIDE DEF r, placed, told, with, noted
<1>11. ~Collides(r, placed) /\ Annotated(r, placed, with, noted).events = noted
       /\ Annotated(r, placed, with, noted).shown = TimelineOf(r, noted)
  BY <1>2, <1>9 DEF Annotated
<1> QED
  BY <1>3, <1>9, <1>10, <1>11 DEF r, placed, told, with, noted

\* An event with one of its fields set is one.
LEMMA FieldSet ==
    ASSUME NEW e, IsEvent(e), NEW v
    PROVE  /\ IsEvent([e EXCEPT !.name = v]) /\ [e EXCEPT !.name = v].start = e.start /\ [e EXCEPT !.name = v].end = e.end
           /\ IsEvent([e EXCEPT !.said = v]) /\ [e EXCEPT !.said = v].start = e.start /\ [e EXCEPT !.said = v].end = e.end
           /\ IsEvent([e EXCEPT !.lines = v]) /\ [e EXCEPT !.lines = v].start = e.start /\ [e EXCEPT !.lines = v].end = e.end
           /\ IsEvent([e EXCEPT !.facts = v]) /\ [e EXCEPT !.facts = v].start = e.start /\ [e EXCEPT !.facts = v].end = e.end
           /\ IsEvent([e EXCEPT !.prioritized = v]) /\ [e EXCEPT !.prioritized = v].start = e.start /\ [e EXCEPT !.prioritized = v].end = e.end
<1>1. e = [start |-> e.start, end |-> e.end, name |-> e.name, said |-> e.said, facts |-> e.facts, lines |-> e.lines,
           prioritized |-> e.prioritized]
  BY DEF IsEvent
<1>2. e.start \in Int /\ e.end \in Int
  BY DEF IsEvent
<1>3. IsEvent([e EXCEPT !.name = v]) /\ [e EXCEPT !.name = v].start = e.start /\ [e EXCEPT !.name = v].end = e.end
  BY <1>1, <1>2 DEF IsEvent
<1>4. IsEvent([e EXCEPT !.said = v]) /\ [e EXCEPT !.said = v].start = e.start /\ [e EXCEPT !.said = v].end = e.end
  BY <1>1, <1>2 DEF IsEvent
<1>5. IsEvent([e EXCEPT !.lines = v]) /\ [e EXCEPT !.lines = v].start = e.start /\ [e EXCEPT !.lines = v].end = e.end
  BY <1>1, <1>2 DEF IsEvent
<1>6. IsEvent([e EXCEPT !.facts = v]) /\ [e EXCEPT !.facts = v].start = e.start /\ [e EXCEPT !.facts = v].end = e.end
  BY <1>1, <1>2 DEF IsEvent
<1>7. IsEvent([e EXCEPT !.prioritized = v]) /\ [e EXCEPT !.prioritized = v].start = e.start /\ [e EXCEPT !.prioritized = v].end = e.end
  BY <1>1, <1>2 DEF IsEvent
<1> QED
  BY <1>3, <1>4, <1>5, <1>6, <1>7
LEMMA TimeSet ==
    ASSUME NEW e, IsEvent(e), NEW t \in Int
    PROVE  /\ IsEvent([e EXCEPT !.start = t]) /\ [e EXCEPT !.start = t].start = t /\ [e EXCEPT !.start = t].end = e.end
           /\ IsEvent([e EXCEPT !.end = t]) /\ [e EXCEPT !.end = t].start = e.start /\ [e EXCEPT !.end = t].end = t
<1>1. e = [start |-> e.start, end |-> e.end, name |-> e.name, said |-> e.said, facts |-> e.facts, lines |-> e.lines,
           prioritized |-> e.prioritized]
  BY DEF IsEvent
<1>2. e.start \in Int /\ e.end \in Int
  BY DEF IsEvent
<1> QED
  BY <1>1, <1>2 DEF IsEvent

LEMMA WordedIs ==
    ASSUME NEW d, NEW e, IsEvent(e)
    PROVE  IsEvent(Worded(d, e)) /\ Worded(d, e).start = e.start /\ Worded(d, e).end = e.end
<1> DEFINE name == IF d.name THEN {Renamed} ELSE e.name
           a == [e EXCEPT !.name = name]
           said == IF d.said THEN "said" ELSE a.said
           b == [a EXCEPT !.said = said]
           lines == IF d.description.given THEN d.description.lines ELSE b.lines
           c == [b EXCEPT !.lines = lines]
<1>0. Worded(d, e) = c
  BY DEF Worded
<1> HIDE DEF name, said, lines
<1>1. IsEvent(a) /\ a.start = e.start /\ a.end = e.end
  BY FieldSet
<1> HIDE DEF a
<1>2. IsEvent(b) /\ b.start = a.start /\ b.end = a.end
  BY <1>1, FieldSet
<1> HIDE DEF b
<1>3. IsEvent(c) /\ c.start = b.start /\ c.end = b.end
  BY <1>2, FieldSet
<1> QED
  BY <1>0, <1>1, <1>2, <1>3

\* An event placed is one, where it's decided or as it was.
PlacedAt(q, k, e) ==
    /\ e.start = (IF k \in Decided(q) THEN StartOf(q, k) ELSE q.events[k].start)
    /\ e.end = (IF k \in Decided(q) THEN EndOf(q, k) ELSE q.events[k].end)
LEMMA PlacingIs ==
    ASSUME NEW q, IsQuestion(q), ~Malformed(q), NEW k \in There(q)
    PROVE  LET e == Placing(Resolved(q))[k] IN IsEvent(e) /\ PlacedAt(q, k, e)
<1> DEFINE r == Resolved(q)
           e == Placing(r)[k]
           d == DecisionOf(r, k)
<1>r. r = Resolved(q)
  OBVIOUS
<1> HIDE DEF r
<1>1. /\ r.there = There(q) /\ r.decided = Decided(q) /\ r.events = q.events /\ r.made = Made(q) /\ r.touched = Touched(q)
      /\ StartOf(r, k) = StartOf(q, k) /\ EndOf(r, k) = EndOf(q, k)
  BY <1>r, ResolvedIs, ResolvedTimes
<1>2. k \notin Made(q) => k \in DOMAIN q.events /\ IsEvent(q.events[k])
  BY DEF There, IsQuestion, IsAgenda
<1>3. CASE k \in Decided(q)
  <2> DEFINE base == IF k \in r.made THEN New(k) ELSE r.events[k]
             named == [base EXCEPT !.name = @ \cup UNION {r.events[m].name : m \in MergedInto(r, k)}]
             w == Worded(d, named)
             a == [w EXCEPT !.start = StartOf(r, k)]
             b == [a EXCEPT !.end = EndOf(r, k)]
             c == [b EXCEPT !.facts = FactsOf(r, k, StartOf(r, k))]
  <2>1. e = c
    BY <1>1, <1>3 DEF Placing
  <2>2. IsEvent(New(k))
    BY DEF New, IsEvent, NoTime
  <2>3. IsEvent(base)
    BY <1>1, <1>2, <2>2
  <2> HIDE DEF base
  <2>4. IsEvent(named)
    BY <2>3, FieldSet
  <2> HIDE DEF named
  <2>5. IsEvent(w)
    BY <2>4, WordedIs
  <2> HIDE DEF w
  <2>6. StartOf(r, k) \in Int /\ EndOf(r, k) \in Int
    BY <1>1, <1>3, TimesAre DEF Decided
  <2>7. IsEvent(a) /\ a.start = StartOf(r, k)
    BY <2>5, <2>6, TimeSet
  <2> HIDE DEF a
  <2>8. IsEvent(b) /\ b.start = StartOf(r, k) /\ b.end = EndOf(r, k)
    BY <2>6, <2>7, TimeSet
  <2> HIDE DEF b
  <2>9. IsEvent(c) /\ c.start = StartOf(r, k) /\ c.end = EndOf(r, k)
    BY <2>8, FieldSet
  <2> QED
    BY <1>1, <1>3, <1>r, <2>1, <2>9 DEF PlacedAt
<1>4. CASE k \notin Decided(q)
  <2>1. k \notin Made(q)
    BY <1>4 DEF Decided
  <2>2. IsEvent(q.events[k])
    BY <1>2, <2>1
  <2> DEFINE w == Worded(d, r.events[k])
             facts == IF DecisionOf(r, k).facts /\ r.events[k].start < r.now THEN "said" ELSE w.facts
             c == [w EXCEPT !.facts = facts]
  <2>3. e = c \/ e = q.events[k]
    BY <1>1, <1>4 DEF Placing
  <2>4. IsEvent(w) /\ w.start = q.events[k].start /\ w.end = q.events[k].end
    BY <1>1, <2>2, WordedIs
  <2> HIDE DEF w, facts
  <2>5. IsEvent(c) /\ c.start = q.events[k].start /\ c.end = q.events[k].end
    BY <2>4, FieldSet
  <2> QED
    BY <1>4, <1>r, <2>2, <2>3, <2>5 DEF PlacedAt
<1> QED
  BY <1>3, <1>4

\* So is one noted.
LEMMA NotedIs ==
    ASSUME NEW q, IsQuestion(q), ~Malformed(q), NEW with
    PROVE  LET noted == Noted(Resolved(q), Placing(Resolved(q)), with)
           IN  /\ noted = [k \in DOMAIN noted |-> noted[k]] /\ DOMAIN noted = There(q)
               /\ \A k \in There(q) : IsEvent(noted[k]) /\ PlacedAt(q, k, noted[k])
<1> DEFINE r == Resolved(q)
           placed == Placing(r)
           noted == Noted(r, placed, with)
<1>r. r = Resolved(q)
  OBVIOUS
<1>1. DOMAIN placed = There(q)
  <2> HIDE DEF r
  <2> QED
    BY <1>r, ResolvedIs DEF Placing
<1> HIDE DEF r
<1>2. \A k \in There(q) : IsEvent(placed[k]) /\ PlacedAt(q, k, placed[k])
  BY <1>r, PlacingIs
<1> HIDE DEF placed
<1>3. noted = [k \in DOMAIN noted |-> noted[k]] /\ DOMAIN noted = There(q)
  BY <1>1 DEF Noted
<1>4. ASSUME NEW k \in There(q)
      PROVE  IsEvent(noted[k]) /\ noted[k].start = placed[k].start /\ noted[k].end = placed[k].end
  <2> DEFINE l == [placed[k] EXCEPT !.lines = @ \cup LinesFor(r, with, k)]
             p == [l EXCEPT !.prioritized = @ \/ l.start < r.now]
  <2>1. noted[k] = p
    BY <1>1 DEF Noted, Prioritized
  <2>2. IsEvent(l) /\ l.start = placed[k].start /\ l.end = placed[k].end
    BY <1>2, FieldSet
  <2> HIDE DEF l
  <2>3. IsEvent(p) /\ p.start = l.start /\ p.end = l.end
    BY <2>2, FieldSet
  <2> QED
    BY <2>1, <2>2, <2>3
<1>5. \A k \in There(q) : PlacedAt(q, k, noted[k])
  BY <1>2, <1>4 DEF PlacedAt
<1> QED
  BY <1>3, <1>4, <1>5, <1>r DEF placed, noted

\* A plan is a calendar: of the events that stay and those made, where
\* they're put.
LEMMA PlanIs ==
    ASSUME NEW q, IsQuestion(q), Planned(q).ok
    PROVE  LET events == Planned(q).events
           IN  /\ IsAgenda(events) /\ DOMAIN events = There(q)
               /\ \A k \in There(q) : PlacedAt(q, k, events[k])
<1> DEFINE events == Planned(q).events
           made == [d \in Doing(q, "create") |-> d.id]
<1>1. ~Malformed(q) /\ ~Timeless(q)
  BY PlannedIs
<1>2. PICK with : events = Noted(Resolved(q), Placing(Resolved(q)), with)
  BY PlannedIs
<1>3. /\ events = [k \in DOMAIN events |-> events[k]] /\ DOMAIN events = There(q)
      /\ \A k \in There(q) : IsEvent(events[k]) /\ PlacedAt(q, k, events[k])
  BY <1>1, <1>2, NotedIs
<1> HIDE DEF events
<1>4. Doing(q, "create") \subseteq q.decisions /\ IsFiniteSet(Doing(q, "create"))
  BY FS_Subset DEF Doing, IsQuestion
<1>5. made \in Surjection(Doing(q, "create"), Made(q))
  BY DEF Surjection, Made
<1>6. IsFiniteSet(Made(q))
  <2> HIDE DEF made
  <2> QED
    BY <1>4, <1>5, FS_Surjection
<1>7. Made(q) \subseteq Nat \ {Unset}
  BY <1>1, DecidedAreThere
<1>8. IsFiniteSet(DOMAIN q.events \ Cancelled(q))
  BY FS_Difference DEF IsQuestion, IsAgenda
<1>9. IsFiniteSet(There(q)) /\ There(q) \subseteq Nat \ {Unset}
  BY <1>6, <1>7, <1>8, FS_Union DEF There, IsQuestion, IsAgenda
<1>10. ASSUME NEW k \in There(q) PROVE events[k].start < events[k].end
  <2>1. CASE k \in Decided(q)
    <3>1. k \in Kept(q) \cup Made(q)
      BY <2>1 DEF Decided
    <3>2. StartOf(q, k) \in Int /\ EndOf(q, k) \in Int
      BY <1>1, <3>1, TimesAre
    <3>3. ~(EndOf(q, k) <= StartOf(q, k))
      BY <1>1, <3>1 DEF Timeless
    <3> QED
      BY <1>3, <2>1, <3>2, <3>3 DEF PlacedAt
  <2>2. CASE k \notin Decided(q)
    <3>1. k \in DOMAIN q.events
      BY <2>2 DEF Decided, There
    <3> QED
      BY <1>3, <2>2, <3>1 DEF PlacedAt, IsQuestion, IsAgenda
  <2> QED
    BY <2>1, <2>2
<1> QED
  BY <1>3, <1>9, <1>10 DEF IsAgenda, events

\* What an earlier compaction recorded is there, starts then, and goes on as
\* long, unless a decision may change history.
LEMMA PlanKeepsHistory ==
    ASSUME NEW q, IsQuestion(q), Planned(q).ok, NEW k \in DOMAIN q.events,
           q.history # NoTime, q.events[k].start < q.history, ~\E d \in q.decisions : d.allowHistory /\ k \in {d.id, d.into}
    PROVE  LET events == Planned(q).events
           IN  /\ k \in DOMAIN events /\ events[k].start = q.events[k].start
               /\ events[k].end >= q.events[k].end \/ events[k].end >= q.history
<1> DEFINE events == Planned(q).events
<1>1. ~Malformed(q) /\ ~Compacted(q)
  BY PlannedIs
<1>2. ~DecisionOf(q, k).allowHistory
  <2>1. CASE DecisionOf(q, k) \in q.decisions /\ DecisionOf(q, k).id = k
    BY <2>1
  <2>2. CASE DecisionOf(q, k) = Decision("keep", k)
    BY <2>2 DEF Decision
  <2> QED
    BY <2>1, <2>2, DecisionIs
<1>3. IsSettled(q, k)
  BY <1>2 DEF IsSettled
<1>4. k \notin Cancelled(q)
  BY <1>1, <1>3 DEF Compacted
<1>5. k \in There(q) /\ DOMAIN events = There(q) /\ PlacedAt(q, k, events[k])
  BY <1>4, PlanIs DEF There
<1>6. q.events[k].start \in Int /\ q.events[k].end \in Int /\ q.history \in Int
  BY DEF IsQuestion, IsAgenda, IsEvent
<1>7. CASE k \notin Decided(q)
  BY <1>5, <1>6, <1>7 DEF PlacedAt
<1>8. CASE k \in Decided(q)
  <2>1. k \in Kept(q)
    BY <1>8 DEF Decided, IsQuestion
  <2>2. ~Unsettles(q, k)
    BY <1>1, <2>1 DEF Compacted
  <2>3. StartOf(q, k) = q.events[k].start /\ ~(EndOf(q, k) < SettledUntil(q, k))
    BY <1>3, <2>2 DEF Unsettles
  <2>4. EndOf(q, k) \in Int
    BY <1>1, <2>1, TimesAre
  <2>5. SettledUntil(q, k) = IF q.events[k].end <= q.history THEN q.events[k].end ELSE q.history
    BY <1>6, OfTwo DEF SettledUntil
  <2> QED
    BY <1>5, <1>6, <1>8, <2>3, <2>4, <2>5 DEF PlacedAt
<1> QED
  BY <1>7, <1>8

\* What's put anywhere is over no other.
LEMMA PlanIsClear ==
    ASSUME NEW q, IsQuestion(q), Planned(q).ok, NEW k \in Decided(q), NEW j \in There(q), j # k
    PROVE  k \in There(q) /\ ~Overlaps(Planned(q).events[k], Planned(q).events[j])
<1> DEFINE r == Resolved(q)
           placed == Placing(r)
           events == Planned(q).events
<1>1. ~Malformed(q) /\ ~Collides(r, placed)
  BY PlannedIs
<1>2. k \in There(q)
  <2>1. k \in Kept(q) \cup Made(q)
    BY DEF Decided
  <2>2. k \in Kept(q) => k \notin Cancelled(q)
    BY <1>1, KeptIsKept
  <2>3. k \in Kept(q) => k \in DOMAIN q.events
    BY <1>1, DecidedAreThere
  <2> QED
    BY <2>1, <2>2, <2>3 DEF There
<1>3. r.decided = Decided(q) /\ DOMAIN placed = There(q)
  <2>1. r.decided = Decided(q) /\ r.there = There(q)
    BY ResolvedIs
  <2> QED
    BY <2>1 DEF Placing
<1>4. PlacedAt(q, k, placed[k]) /\ PlacedAt(q, j, placed[j])
  BY <1>1, <1>2, PlacingIs
<1>5. PlacedAt(q, k, events[k]) /\ PlacedAt(q, j, events[j])
  BY <1>2, PlanIs
<1> HIDE DEF r, placed, events
<1>6. ~Overlaps(placed[k], placed[j])
  BY <1>1, <1>2, <1>3 DEF Collides
<1> QED
  BY <1>2, <1>4, <1>5, <1>6 DEF PlacedAt, Overlaps, events

----------------------------------------------------------------------------
(* What's shown of a plan *)

\* Of each event that's changed or shown, that it's shown as it's written.
ShownAs(q, events, shown, k) ==
    LET is(status) == shown[k] = status
        stays == k \in DOMAIN q.events \cap DOMAIN events
        moved == stays /\ <<events[k].start, events[k].end>> # <<q.events[k].start, q.events[k].end>>
    IN  /\ k \in DOMAIN shown
        /\ (is("cancelled") \/ is("merged")) <=> k \notin DOMAIN events
        /\ is("merged") => \E j \in DOMAIN events :
               events[j].start <= q.events[k].start /\ q.events[k].end <= events[j].end
        /\ is("new") <=> k \notin DOMAIN q.events
        /\ is("adjusted") <=> moved
        /\ is("on_schedule") => events[k].end <= q.now

\* Times put back, an event is as it was only if they're the same.
LEMMA TimesDiffer ==
    ASSUME NEW e, IsEvent(e), NEW s \in Int, NEW t \in Int
    PROVE  [e EXCEPT !.start = s, !.end = t] = e <=> s = e.start /\ t = e.end
<1>1. e = [start |-> e.start, end |-> e.end, name |-> e.name, said |-> e.said, facts |-> e.facts, lines |-> e.lines,
           prioritized |-> e.prioritized]
  BY DEF IsEvent
<1>2. [e EXCEPT !.start = s, !.end = t].start = s /\ [e EXCEPT !.start = s, !.end = t].end = t
  BY <1>1
<1>3. s = e.start /\ t = e.end => [e EXCEPT !.start = s, !.end = t] = e
  BY <1>1
<1> QED
  BY <1>2, <1>3

LEMMA PlanIsShown ==
    ASSUME NEW q, IsQuestion(q), Planned(q).ok,
           NEW k \in Changed([q |-> q, events |-> Planned(q).events]) \cup DOMAIN Planned(q).shown
    PROVE  ShownAs(q, Planned(q).events, Planned(q).shown, k)
<1> DEFINE r == Resolved(q)
           events == Planned(q).events
           shown == Planned(q).shown
           was == q.events
<1>1. ~Malformed(q)
  BY PlannedIs
<1>2. shown = TimelineOf(r, events)
  BY PlannedIs
<1>3. IsAgenda(events) /\ DOMAIN events = There(q) /\ \A j \in There(q) : PlacedAt(q, j, events[j])
  BY PlanIs
<1>4. /\ r.events = was /\ r.made = Made(q) /\ r.cancelled = Cancelled(q) /\ r.decided = Decided(q) /\ r.now = q.now
      /\ r.decisions = q.decisions /\ Doing(r, "merge") = Doing(q, "merge") /\ r.facts = Facts(q)
  BY ResolvedIs
<1>5. Changed([q |-> q, events |-> events]) =
          {j \in DOMAIN was : j \notin DOMAIN events} \cup {j \in DOMAIN was \cap DOMAIN events : events[j] # was[j]}
              \cup (DOMAIN events \ DOMAIN was)
  BY DEF Changed
<1> HIDE DEF r, events, shown
<1>6. k \in DOMAIN shown /\ shown[k] = StatusOf(r, events, k)
  <2>1. DOMAIN shown = {j \in DOMAIN was \cup Made(q) : ~LeftUnshown(r, events, j)}
    BY <1>2, <1>4 DEF TimelineOf
  <2>2. k \in DOMAIN shown
    <3>1. SUFFICES ASSUME k \in Changed([q |-> q, events |-> events]) PROVE k \in DOMAIN shown
      BY DEF events, shown
    <3>2. k \in DOMAIN was \cup Made(q)
      BY <1>3, <1>5, <3>1 DEF There
    <3>3. CASE LeftUnshown(r, events, k)
      <4>1. k \in DOMAIN was /\ k \notin Cancelled(q) /\ events[k] = was[k]
        BY <1>4, <3>3 DEF LeftUnshown
      <4>2. k \in There(q)
        BY <4>1 DEF There
      <4> QED
        BY <1>3, <1>5, <3>1, <4>1, <4>2
    <3> QED
      BY <2>1, <3>2, <3>3
  <2> QED
    BY <1>2, <2>1, <2>2 DEF TimelineOf
<1>7. k \in DOMAIN was \cup Made(q)
  BY <1>2, <1>4, <1>6 DEF TimelineOf
<1>8. Cancelled(q) \subseteq DOMAIN was /\ Kept(q) \subseteq DOMAIN was /\ Made(q) \cap DOMAIN was = {}
  BY <1>1, DecidedAreThere DEF IsQuestion
<1>9. CASE k \in Cancelled(q)
  <2>1. k \notin DOMAIN events /\ k \in DOMAIN was
    BY <1>3, <1>8, <1>9 DEF There
  <2>2. shown[k] = IF \E d \in Doing(q, "merge") : d.id = k /\ d.into \in Decided(q) THEN "merged" ELSE "cancelled"
    BY <1>4, <1>6, <1>9 DEF StatusOf
  <2>3. ASSUME NEW d \in Doing(q, "merge"), d.id = k, d.into \in Decided(q)
        PROVE  \E j \in DOMAIN events : events[j].start <= was[k].start /\ was[k].end <= events[j].end
    <3>1. d.into \in Kept(q) /\ k \in MergedInto(q, d.into)
      BY <2>3, <1>1, DecidedAreThere DEF Doing, MergedInto
    <3>2. StartOf(q, d.into) <= was[k].start /\ was[k].end <= EndOf(q, d.into)
      BY <1>1, <3>1, TimesAre
    <3>3. d.into \in There(q)
      BY <1>1, <1>8, <3>1, KeptIsKept DEF There
    <3> QED
      BY <1>3, <2>3, <3>2, <3>3 DEF PlacedAt
  <2> QED
    BY <1>6, <2>1, <2>2, <2>3 DEF ShownAs, events, shown
<1>10. CASE k \notin Cancelled(q)
  <2>1. k \in DOMAIN events
    BY <1>3, <1>7, <1>10 DEF There
  <2>2. CASE k \in Made(q)
    <3>1. shown[k] = "new"
      BY <1>4, <1>6, <1>10, <2>2 DEF StatusOf
    <3> QED
      BY <1>6, <1>8, <2>1, <2>2, <3>1 DEF ShownAs, events, shown
  <2>3. CASE k \notin Made(q)
    <3>1. k \in DOMAIN was /\ IsEvent(was[k]) /\ IsEvent(events[k])
      BY <1>3, <1>7, <2>1, <2>3 DEF IsQuestion, IsAgenda
    <3> DEFINE moved == <<events[k].start, events[k].end>> # <<was[k].start, was[k].end>>
    <3>2. moved <=> k \in Decided(q) /\ [was[k] EXCEPT !.start = events[k].start, !.end = events[k].end] # was[k]
      <4>1. [was[k] EXCEPT !.start = events[k].start, !.end = events[k].end] = was[k]
                <=> events[k].start = was[k].start /\ events[k].end = was[k].end
        BY <3>1, TimesDiffer DEF IsEvent
      <4>2. k \notin Decided(q) => events[k].start = was[k].start /\ events[k].end = was[k].end
        BY <1>3, <2>1 DEF PlacedAt
      <4> QED
        BY <4>1, <4>2
    <3>3. shown[k] = IF moved THEN "adjusted" ELSE IF k \in Facts(q) /\ events[k].end <= q.now THEN "on_schedule" ELSE "planned"
      BY <1>4, <1>6, <1>10, <2>3, <3>2 DEF StatusOf
    <3> QED
      BY <1>6, <2>1, <3>1, <3>3 DEF ShownAs, events, shown
  <2> QED
    BY <2>2, <2>3
<1> QED
  BY <1>9, <1>10

----------------------------------------------------------------------------
(* The span that's planned *)

\* Of events, one starts first: of those that start then, the first of them.
LEMMA EarliestIs ==
    ASSUME IsAgenda(agenda), NEW S, S \subseteq DOMAIN agenda, S # {}
    PROVE  Earliest(S) \in S
<1> DEFINE starts == [k \in S |-> agenda[k].start]
           T == {agenda[k].start : k \in S}
<1>1. IsFiniteSet(S)
  BY FS_Subset DEF IsAgenda
<1>2. starts \in Surjection(S, T)
  BY DEF Surjection
<1>3. IsFiniteSet(T)
  <2> HIDE DEF starts, T
  <2> QED
    BY <1>1, <1>2, FS_Surjection
<1>4. T # {}
  OBVIOUS
<1>a. \A k \in S : agenda[k].start \in Int
  BY DEF IsAgenda, IsEvent
<1>5. T \subseteq Int
  BY <1>a
<1>6. PICK m \in T : \A y \in T : m <= y
  <2> HIDE DEF T
  <2> QED
    BY <1>3, <1>4, <1>5, FiniteLeast
<1> DEFINE F == {k \in S : agenda[k].start = m}
<1>7. F # {} /\ F \subseteq S
  BY <1>6
<1>8. F \subseteq Int
  BY DEF IsAgenda
<1>9. IsFiniteSet(F)
  BY <1>1, <1>7, FS_Subset
<1>10. PICK x \in F : \A y \in F : x <= y
  <2> HIDE DEF F
  <2> QED
    BY <1>7, <1>8, <1>9, FiniteLeast
<1>11. x \in S /\ \A j \in S : agenda[x].start < agenda[j].start \/ (agenda[x].start = agenda[j].start /\ x <= j)
  <2> SUFFICES ASSUME NEW j \in S
               PROVE  agenda[x].start < agenda[j].start \/ (agenda[x].start = agenda[j].start /\ x <= j)
    BY <1>10
  <2>1. agenda[j].start \in T /\ m <= agenda[j].start /\ agenda[x].start = m /\ m \in Int /\ agenda[j].start \in Int
    BY <1>6, <1>10, <1>a, <1>5
  <2>2. CASE agenda[j].start = m
    BY <1>10, <2>1, <2>2
  <2>3. CASE agenda[j].start # m
    BY <2>1, <2>3
  <2> QED
    BY <2>2, <2>3
<1> QED
  BY <1>11 DEF Earliest

\* Notes there are.
NotesOK == IsFiniteSet(DOMAIN jotted) /\ \A n \in DOMAIN jotted : jotted[n].at \in Int

LEMMA DayStartIs ==
    ASSUME NotesOK, last \in Int, NEW now \in Int
    PROVE  DayStart(now) \in Int /\ (last # NoTime => DayStart(now) = last)
<1>1. CASE last # NoTime
  BY <1>1 DEF DayStart
<1>2. CASE SpanNotes(now) = {}
  BY <1>2 DEF DayStart
<1>3. CASE last = NoTime /\ SpanNotes(now) # {}
  <2> DEFINE S == SpanNotes(now)
             f == [n \in S |-> jotted[n].at]
             T == {jotted[n].at : n \in S}
  <2>1. S \subseteq DOMAIN jotted
    BY DEF SpanNotes, Unstamped
  <2>2. IsFiniteSet(S)
    BY <2>1, FS_Subset DEF NotesOK
  <2>3. f \in Surjection(S, T)
    BY DEF Surjection
  <2>4. \A n \in S : jotted[n].at \in Int
    BY <2>1 DEF NotesOK
  <2>5. T # {} /\ T \subseteq Int
    <3> HIDE DEF S
    <3> QED
      BY <1>3, <2>4 DEF S
  <2>6. Min(T) \in Int
    <3> HIDE DEF S, T, f
    <3> QED
      BY <2>2, <2>3, <2>5, FS_Surjection, LeastIsMin
  <2>7. DayStart(now) = (Min(T) \div DayLength) * DayLength
    BY <1>3 DEF DayStart
  <2>8. \A x \in Int : (x \div DayLength) * DayLength \in Int
    BY RoundsAssumption
  <2> HIDE DEF T
  <2> QED
    BY <1>3, <2>6, <2>7, <2>8
<1> QED
  BY <1>1, <1>2, <1>3

\* The events of a span are those from its start to its end, and one before.
LEMMA SpanIs ==
    ASSUME IsAgenda(agenda), NotesOK, last \in Int, NEW now \in Int, NEW taken \in Int
    PROVE  LET span == Span(now, taken)
           IN  /\ span.start = DayStart(now) /\ span.start \in Int
               /\ span.until = MinOf(now, DayStart(now) + MaxSpan) /\ span.until \in Int
               /\ span.ends \in Int /\ taken <= span.ends /\ span.until < span.ends
               /\ span.ids \subseteq DOMAIN agenda
               /\ \A k \in span.ids : agenda[k].start < span.ends
               /\ \A k \in DOMAIN agenda : span.start < agenda[k].end /\ agenda[k].start < span.ends => k \in span.ids
<1> DEFINE start == DayStart(now)
           until == MinOf(now, start + MaxSpan)
           ends == MaxOf(until + Ahead, taken)
           near == Listed(start - Lookback, ends)
           earlier == {k \in near : agenda[k].end <= start}
           latest == {k \in earlier : \A j \in earlier : agenda[j].end <= agenda[k].end}
           span == Span(now, taken)
<1>1. span = [start |-> start, until |-> until, ends |-> ends,
              ids |-> (near \ earlier) \cup (IF latest = {} THEN {} ELSE {Earliest(latest)})]
  BY DEF Span
<1>2. start \in Int
  BY DayStartIs
<1>3. until \in Int /\ ends \in Int /\ taken <= ends /\ until < ends
  BY <1>2, RoundsAssumption DEF MinOf, MaxOf
<1>4. near \subseteq DOMAIN agenda /\ \A k \in near : agenda[k].start < ends
  BY DEF Listed
<1>5. latest # {} => Earliest(latest) \in latest
  <2>1. latest \subseteq DOMAIN agenda
    BY <1>4
  <2> HIDE DEF latest
  <2> QED
    BY <2>1, EarliestIs
<1>6. \A k \in DOMAIN agenda : start < agenda[k].end /\ agenda[k].start < ends => k \in near \ earlier
  BY <1>2, RoundsAssumption DEF Listed, IsAgenda, IsEvent
<1>7. span.ids \subseteq near
  BY <1>1, <1>5
<1>8. near \ earlier \subseteq span.ids
  BY <1>1
<1>9. span.start = start /\ span.until = until /\ span.ends = ends
  BY <1>1
<1> HIDE DEF start, until, ends, near, earlier, latest, span
<1>10. \A k \in span.ids : agenda[k].start < span.ends
  BY <1>4, <1>7, <1>9
<1>11. \A k \in DOMAIN agenda : span.start < agenda[k].end /\ agenda[k].start < span.ends => k \in span.ids
  BY <1>6, <1>8, <1>9
<1> QED
  BY <1>2, <1>3, <1>4, <1>7, <1>9, <1>10, <1>11 DEF start, until, span

\* The times decisions put events at are finitely many.
LEMMA ReachesAre ==
    ASSUME NEW decisions, IsFiniteSet(decisions), \A d \in decisions : {d.start, d.end} \subseteq Int
    PROVE  LET T == UNION {{d.start, d.end} : d \in decisions}
           IN  IsFiniteSet({NoTime} \cup T) /\ {NoTime} \cup T \subseteq Int
<1> DEFINE f == [d \in decisions |-> {d.start, d.end}]
           P == {{d.start, d.end} : d \in decisions}
<1>1. f \in Surjection(decisions, P)
  BY DEF Surjection
<1>2. IsFiniteSet(P)
  <2> HIDE DEF f, P
  <2> QED
    BY <1>1, FS_Surjection
<1>3. \A x, y : IsFiniteSet({x, y})
  <2> SUFFICES ASSUME NEW x, NEW y PROVE IsFiniteSet({x, y})
    OBVIOUS
  <2>1. {x, y} = {x} \cup {y}
    OBVIOUS
  <2>2. IsFiniteSet({x}) /\ IsFiniteSet({y})
    BY FS_Singleton
  <2>3. IsFiniteSet({x} \cup {y})
    BY <2>2, FS_Union
  <2> QED
    BY <2>1, <2>3
<1>4. \A t \in P : IsFiniteSet(t)
  BY <1>3
<1>5. IsFiniteSet(UNION P)
  <2> HIDE DEF P
  <2> QED
    BY <1>2, <1>4, FS_UNION
<1>6. IsFiniteSet({NoTime} \cup UNION P)
  BY <1>5, FS_Singleton, FS_Union
<1> QED
  BY <1>6 DEF NoTime

\* A reach is one of those times, or none, and no decision puts one of the
\* span's events, or one it makes, any further.
Ours(decisions, span) == {d \in decisions : d.do = "create" \/ (d.do = "keep" /\ d.id \in span.ids)}
LEMMA ReachIs ==
    ASSUME NEW decisions, IsFiniteSet(decisions), \A d \in decisions : {d.start, d.end} \subseteq Int, NEW span
    PROVE  /\ Reach(decisions, span) \in Reaches(decisions) /\ Reach(decisions, span) \in Int
           /\ \A d \in Ours(decisions, span) : d.start <= Reach(decisions, span) /\ d.end <= Reach(decisions, span)
<1> DEFINE ours == Ours(decisions, span)
           T == {NoTime} \cup UNION {{d.start, d.end} : d \in ours}
<1>1. Reach(decisions, span) = Max(T)
  BY DEF Reach, Ours
<1>2. ours \subseteq decisions /\ IsFiniteSet(ours)
  BY FS_Subset DEF Ours
<1>3. \A d \in ours : {d.start, d.end} \subseteq Int
  BY <1>2
<1>4. IsFiniteSet(T) /\ T \subseteq Int
  <2> HIDE DEF ours
  <2> QED
    BY <1>2, <1>3, ReachesAre
<1>5. T # {} /\ T \subseteq Reaches(decisions) /\ \A d \in ours : {d.start, d.end} \subseteq T
  BY <1>2 DEF Reaches
<1>6. Max(T) \in T /\ Max(T) \in Int /\ \A y \in T : y <= Max(T)
  <2> HIDE DEF T
  <2> QED
    BY <1>4, <1>5, GreatestIsMax
<1> QED
  BY <1>1, <1>5, <1>6

\* The span is cut where no decision puts anything further.
LEMMA CutIs ==
    ASSUME IsAgenda(agenda), NotesOK, last \in Int, NEW now \in Int,
           NEW decisions, IsFiniteSet(decisions), \A d \in decisions : {d.start, d.end} \subseteq Int
    PROVE  \E taken \in Int : /\ Cut(now, decisions) = Span(now, taken)
                              /\ Reach(decisions, Span(now, taken)) <= Span(now, taken).ends
<1> DEFINE T == Reaches(decisions)
           far == {taken \in T : FarEnough(decisions, Span(now, taken))}
<1>1. IsFiniteSet(T) /\ T \subseteq Int /\ T # {}
  BY ReachesAre DEF Reaches
<1>2. Max(T) \in T /\ Max(T) \in Int /\ \A y \in T : y <= Max(T)
  BY <1>1, GreatestIsMax
<1>3. Reach(decisions, Span(now, Max(T))) \in T /\ Reach(decisions, Span(now, Max(T))) \in Int
  BY ReachIs
<1>4. Max(T) <= Span(now, Max(T)).ends /\ Span(now, Max(T)).ends \in Int
  BY <1>2, SpanIs
<1>5. Reach(decisions, Span(now, Max(T))) <= Max(T)
  BY <1>2, <1>3
<1>6. Max(T) \in far
  BY <1>2, <1>3, <1>4, <1>5 DEF FarEnough
<1>7. IsFiniteSet(far) /\ far \subseteq Int
  BY <1>1, FS_Subset
<1>8. Min(far) \in far
  <2> HIDE DEF far
  <2> QED
    BY <1>6, <1>7, LeastIsMin
<1>9. Cut(now, decisions) = Span(now, Min(far))
  BY DEF Cut
<1> QED
  BY <1>7, <1>8, <1>9 DEF FarEnough

\* An event a historical note falls within is one there is.
LEMMA RevisitsAre ==
    ASSUME IsAgenda(agenda), NEW now, NEW span
    PROVE  Revisits(now, span) \subseteq DOMAIN agenda
<1>1. \A t : RevisitedBy(t) \subseteq DOMAIN agenda
  <2> SUFFICES ASSUME NEW t PROVE RevisitedBy(t) \subseteq DOMAIN agenda
    OBVIOUS
  <2> DEFINE within == {k \in DOMAIN agenda : agenda[k].start <= t /\ t < agenda[k].end}
             upTo == {k \in DOMAIN agenda : agenda[k].start < t /\ t <= agenda[k].end}
             hit == IF within # {} THEN within ELSE upTo
  <2>1. RevisitedBy(t) = IF hit = {} THEN {} ELSE {Earliest(hit)}
    BY DEF RevisitedBy
  <2>2. hit \subseteq DOMAIN agenda
    OBVIOUS
  <2> HIDE DEF hit
  <2>3. hit # {} => Earliest(hit) \in hit
    BY <2>2, EarliestIs
  <2> QED
    BY <2>1, <2>2, <2>3
<1> QED
  BY <1>1 DEF Revisits

\* What's asked is asked of one span, and what it revisits.
LEMMA AskedOfIs ==
    ASSUME NEW ask, NEW now
    PROVE  LET span == Cut(now, ask.decisions) IN Asked(ask, now) = AskedOf(ask, now, span, Revisits(now, span))
<1> DEFINE span == Cut(now, ask.decisions)
           revisits == Revisits(now, span)
           q == Asked(ask, now)
<1>1. UNION {{AskedOf(ask, now, s, r) : r \in {Revisits(now, s)}} : s \in {Cut(now, ask.decisions)}} = {AskedOf(ask, now, span, revisits)}
  <2> DEFINE f(s) == {AskedOf(ask, now, s, r) : r \in {Revisits(now, s)}}
  <2>1. f(span) = {AskedOf(ask, now, span, revisits)}
    <3> HIDE DEF span
    <3>1. {AskedOf(ask, now, span, r) : r \in {revisits}} = {AskedOf(ask, now, span, revisits)}
      <4> HIDE DEF revisits
      <4> QED
        OBVIOUS
    <3> QED
      BY <3>1
  <2>2. UNION {f(s) : s \in {span}} = f(span)
    <3> HIDE DEF f, span
    <3> QED
      OBVIOUS
  <2> QED
    BY <2>1, <2>2
<1>2. q = AskedOf(ask, now, span, revisits)
  BY <1>1, SoleIs DEF Asked
<1> QED
  BY <1>2

\* What's asked is of the span: of events as they are, those it was asked of
\* up to where it's cut, and notes up to then.
LEMMA AskedIs ==
    ASSUME IsAgenda(agenda), NotesOK, last \in Int, NEW now \in Int, ~NothingToPlan(now),
           NEW ask, IsAsk(ask), CreatesOf(ask.decisions) \cap DOMAIN agenda = {}
    PROVE  LET q == Asked(ask, now)
           IN  /\ IsQuestion(q) /\ DOMAIN q.events \subseteq DOMAIN agenda /\ \A k \in DOMAIN q.events : q.events[k] = agenda[k]
               /\ q.decisions = ask.decisions /\ q.history = last /\ q.start \in Int
               /\ q.revisits \subseteq DOMAIN q.events
               /\ q.start = DayStart(now) /\ q.now = MinOf(now, DayStart(now) + MaxSpan)
               /\ \E ends \in Int :
                     /\ \A k \in DOMAIN q.events \ q.revisits : agenda[k].start < ends
                     /\ \A k \in DOMAIN agenda \ DOMAIN q.events : agenda[k].start < q.start \/ ends <= agenda[k].start
                     /\ \A n \in DOMAIN q.notes : q.notes[n].at <= ends
                     /\ \A d \in q.decisions : d.do = "create" \/ (d.do = "keep" /\ d.id \in DOMAIN q.events \ q.revisits) =>
                           d.start <= ends /\ d.end <= ends
<1> DEFINE span == Cut(now, ask.decisions)
           revisits == Revisits(now, span)
           q == Asked(ask, now)
<1>2. q = AskedOf(ask, now, span, revisits)
  BY AskedOfIs
<1> DEFINE taken == {n \in SpanNotes(now) : jotted[n].at <= span.until} \cup Historical(now)
<1>3. /\ q.notes = [n \in taken |-> [at |-> jotted[n].at, says |-> jotted[n].says]]
      /\ q.events = [k \in span.ids \cup revisits |-> agenda[k]]
      /\ q.decisions = ask.decisions /\ q.now = span.until /\ q.history = last /\ q.revisits = revisits /\ q.start = span.start
  BY <1>2 DEF AskedOf
<1>4. IsFiniteSet(ask.decisions) /\ \A d \in ask.decisions : d.id \in Nat \ {Unset} /\ {d.start, d.end} \subseteq Int
  BY DEF IsAsk
<1>5. PICK far \in Int : span = Span(now, far) /\ Reach(ask.decisions, Span(now, far)) <= Span(now, far).ends
  BY <1>4, CutIs
<1> HIDE DEF span, revisits, q
<1>6. /\ span.start = DayStart(now) /\ span.start \in Int
      /\ span.until = MinOf(now, DayStart(now) + MaxSpan) /\ span.until \in Int
      /\ span.ends \in Int /\ span.until < span.ends
      /\ span.ids \subseteq DOMAIN agenda
      /\ \A k \in span.ids : agenda[k].start < span.ends
      /\ \A k \in DOMAIN agenda : span.start < agenda[k].end /\ agenda[k].start < span.ends => k \in span.ids
  BY <1>5, SpanIs
<1>7. Reach(ask.decisions, span) <= span.ends /\ Reach(ask.decisions, span) \in Int
      /\ \A d \in Ours(ask.decisions, span) : d.start <= Reach(ask.decisions, span) /\ d.end <= Reach(ask.decisions, span)
  BY <1>4, <1>5, ReachIs
<1>8. revisits \subseteq DOMAIN agenda
  BY RevisitsAre DEF revisits
<1>9. IsAgenda(q.events) /\ DOMAIN q.events = span.ids \cup revisits /\ \A k \in DOMAIN q.events : q.events[k] = agenda[k]
  <2>1. DOMAIN q.events = span.ids \cup revisits /\ \A k \in DOMAIN q.events : q.events[k] = agenda[k]
    BY <1>3
  <2>2. DOMAIN q.events \subseteq DOMAIN agenda /\ q.events = [k \in DOMAIN q.events |-> q.events[k]]
    BY <1>3, <1>6, <1>8
  <2>3. IsFiniteSet(DOMAIN q.events)
    BY <2>2, FS_Subset DEF IsAgenda
  <2> QED
    BY <2>1, <2>2, <2>3 DEF IsAgenda
<1>10. \A n \in DOMAIN q.notes : n \in DOMAIN jotted /\ q.notes[n].at = jotted[n].at /\ jotted[n].at \in Int
  BY <1>3 DEF SpanNotes, Historical, Unstamped, NotesOK
<1>11. IsQuestion(q)
  <2>1. Made(q) = CreatesOf(ask.decisions)
    BY <1>3 DEF Made, Doing, CreatesOf
  <2>2. Made(q) \cap DOMAIN q.events = {}
    BY <2>1, <1>6, <1>8, <1>9
  <2>3. q.now \in Int /\ q.history \in Int
    BY <1>3, <1>6
  <2>4. IsFiniteSet(q.decisions) /\ \A d \in q.decisions : d.id \in Nat \ {Unset} /\ {d.start, d.end} \subseteq Int
    BY <1>3, <1>4
  <2>5. \A n \in DOMAIN q.notes : q.notes[n].at \in Int
    BY <1>10
  <2> QED
    BY <1>9, <2>2, <2>3, <2>4, <2>5 DEF IsQuestion
<1>12. \A n \in DOMAIN q.notes : q.notes[n].at <= span.ends
  <2> SUFFICES ASSUME NEW n \in DOMAIN q.notes PROVE q.notes[n].at <= span.ends
    OBVIOUS
  <2>1. CASE n \in SpanNotes(now) /\ jotted[n].at <= span.until
    BY <1>6, <1>10, <2>1
  <2>2. CASE n \in Historical(now)
    <3>1. last # NoTime /\ jotted[n].at < last
      BY <2>2 DEF Historical, IsHistorical
    <3>2. DayStart(now) = last /\ last < now
      BY <3>1, DayStartIs DEF NothingToPlan
    <3>3. last <= span.until
      BY <1>6, <3>2, RoundsAssumption DEF MinOf
    <3> QED
      BY <1>6, <1>10, <3>1, <3>3
  <2> QED
    BY <1>3, <2>1, <2>2
<1>13. \A k \in DOMAIN agenda \ DOMAIN q.events : agenda[k].start < q.start \/ span.ends <= agenda[k].start
  <2> SUFFICES ASSUME NEW k \in DOMAIN agenda, k \notin span.ids, ~(agenda[k].start < span.start)
               PROVE  span.ends <= agenda[k].start
    BY <1>3, <1>9
  <2>1. agenda[k].start \in Int /\ agenda[k].end \in Int /\ agenda[k].start < agenda[k].end
    BY DEF IsAgenda, IsEvent
  <2> QED
    BY <1>6, <2>1
<1>14. \A d \in q.decisions : d.do = "create" \/ (d.do = "keep" /\ d.id \in DOMAIN q.events \ q.revisits) =>
           d.start <= span.ends /\ d.end <= span.ends
  <2> SUFFICES ASSUME NEW d \in ask.decisions, d.do = "create" \/ (d.do = "keep" /\ d.id \in DOMAIN q.events \ q.revisits)
               PROVE  d.start <= span.ends /\ d.end <= span.ends
    BY <1>3
  <2>1. d \in Ours(ask.decisions, span)
    BY <1>3, <1>9 DEF Ours
  <2>2. d.start \in Int /\ d.end \in Int
    BY <1>4
  <2> QED
    BY <1>6, <1>7, <2>1, <2>2
<1>15. \A k \in DOMAIN q.events \ q.revisits : agenda[k].start < span.ends
  BY <1>3, <1>6, <1>9
<1>16. DOMAIN q.events \subseteq DOMAIN agenda /\ q.revisits \subseteq DOMAIN q.events
  BY <1>3, <1>6, <1>8, <1>9
<1>17. \E ends \in Int :
           /\ \A k \in DOMAIN q.events \ q.revisits : agenda[k].start < ends
           /\ \A k \in DOMAIN agenda \ DOMAIN q.events : agenda[k].start < q.start \/ ends <= agenda[k].start
           /\ \A n \in DOMAIN q.notes : q.notes[n].at <= ends
           /\ \A d \in q.decisions : d.do = "create" \/ (d.do = "keep" /\ d.id \in DOMAIN q.events \ q.revisits) =>
                 d.start <= ends /\ d.end <= ends
  BY <1>6, <1>12, <1>13, <1>14, <1>15
<1> QED
  BY <1>3, <1>6, <1>9, <1>11, <1>16, <1>17 DEF q

----------------------------------------------------------------------------
(* What a revision writes *)

\* A revision is a plan of what's asked, that runs back over nothing.
LEMMA RoundIs ==
    ASSUME NEW ask, NEW now
    PROVE  LET r == RoundFor(ask, now)
               q == Asked(ask, now)
           IN  \/ r = NoRound
               \/ /\ ~NothingToPlan(now) /\ Planned(q).ok /\ ~RunsBack(q, Planned(q).events)
                  /\ r = [at |-> "proposed", ask |-> ask, q |-> q, events |-> Planned(q).events, uses |-> Planned(q).uses,
                          shown |-> Planned(q).shown, from |-> agenda]
<1> DEFINE q == Asked(ask, now)
           plan == Planned(q)
<1>1. UNION {{Offer(ask, x, p) : p \in {Planned(x)}} : x \in {Asked(ask, now)}} = {Offer(ask, q, plan)}
  <2> DEFINE f(x) == {Offer(ask, x, p) : p \in {Planned(x)}}
  <2>1. f(q) = {Offer(ask, q, plan)}
    <3> HIDE DEF q
    <3>1. {Offer(ask, q, p) : p \in {plan}} = {Offer(ask, q, plan)}
      <4> HIDE DEF plan
      <4> QED
        OBVIOUS
    <3> QED
      BY <3>1
  <2>2. UNION {f(x) : x \in {q}} = f(q)
    <3> HIDE DEF f, q
    <3> QED
      OBVIOUS
  <2> QED
    BY <2>1, <2>2
<1>2. CASE NothingToPlan(now)
  BY <1>2 DEF RoundFor
<1>3. CASE ~NothingToPlan(now)
  <2>1. RoundFor(ask, now) = Offer(ask, q, plan)
    BY <1>1, <1>3, SoleIs DEF RoundFor
  <2> HIDE DEF q, plan
  <2>2. CASE ~plan.ok
    BY <2>1, <2>2 DEF Offer
  <2>3. CASE plan.ok /\ RunsBack(q, plan.events)
    BY <2>1, <2>3 DEF Offer
  <2>4. CASE plan.ok /\ ~RunsBack(q, plan.events)
    BY <1>3, <2>1, <2>4 DEF Offer, q, plan
  <2> QED
    BY <2>2, <2>3, <2>4
<1> QED
  BY <1>2, <1>3

\* A revision planned as things are.
CanPlan(ask, now) ==
    /\ IsAgenda(agenda) /\ NotesOK /\ last \in Int /\ now \in Int
    /\ IsAsk(ask) /\ CreatesOf(ask.decisions) \cap DOMAIN agenda = {}
IsRound(r, ask, now) == CanPlan(ask, now) /\ r = RoundFor(ask, now) /\ r.at = "proposed"
IsOffer(r, ask) ==
    /\ IsQuestion(r.q) /\ Planned(r.q).ok /\ r.ask = ask
    /\ r.events = Planned(r.q).events /\ r.shown = Planned(r.q).shown
    /\ DOMAIN r.q.events \subseteq DOMAIN agenda /\ \A k \in DOMAIN r.q.events : r.q.events[k] = agenda[k]
    /\ r.q.decisions = ask.decisions /\ r.q.history = last /\ Made(r.q) \cap DOMAIN agenda = {}
LEMMA OfferIs ==
    ASSUME NEW r, NEW ask, NEW now, IsRound(r, ask, now)
    PROVE  /\ IsOffer(r, ask) /\ ~RunsBack(r.q, r.events) /\ ~NothingToPlan(now)
           /\ r.q = Asked(ask, now) /\ r.q.now = MinOf(now, DayStart(now) + MaxSpan)
<1>1. r # NoRound
  BY DEF IsRound, NoRound
<1>2. /\ ~NothingToPlan(now) /\ Planned(Asked(ask, now)).ok /\ ~RunsBack(Asked(ask, now), Planned(Asked(ask, now)).events)
      /\ r = [at |-> "proposed", ask |-> ask, q |-> Asked(ask, now), events |-> Planned(Asked(ask, now)).events,
              uses |-> Planned(Asked(ask, now)).uses, shown |-> Planned(Asked(ask, now)).shown, from |-> agenda]
  BY <1>1, RoundIs DEF IsRound
<1>3. r.q = Asked(ask, now) /\ r.events = Planned(r.q).events /\ r.shown = Planned(r.q).shown /\ r.ask = ask
  BY <1>2
<1>4. /\ IsQuestion(r.q) /\ DOMAIN r.q.events \subseteq DOMAIN agenda /\ \A k \in DOMAIN r.q.events : r.q.events[k] = agenda[k]
      /\ r.q.decisions = ask.decisions /\ r.q.history = last /\ r.q.now = MinOf(now, DayStart(now) + MaxSpan)
  BY <1>2, <1>3, AskedIs DEF IsRound, CanPlan
<1>5. Made(r.q) \cap DOMAIN agenda = {}
  BY <1>4 DEF Made, Doing, CreatesOf, IsRound, CanPlan
<1> QED
  BY <1>2, <1>3, <1>4, <1>5 DEF IsOffer

\* The calendar with some of a revision written: those as it has them.
LEMMA WithIs ==
    ASSUME IsAgenda(agenda), NEW r, NEW ask, IsOffer(r, ask), NEW W \in SUBSET Changed(r)
    PROVE  /\ IsAgenda(With(r, W)) /\ DOMAIN With(r, W) \subseteq DOMAIN agenda \cup W
           /\ \A k : k \in DOMAIN With(r, W) <=> IF k \in W THEN k \in DOMAIN r.events ELSE k \in DOMAIN agenda
           /\ \A k \in DOMAIN With(r, W) : With(r, W)[k] = IF k \in W THEN r.events[k] ELSE agenda[k]
<1> DEFINE a == With(r, W)
<1>1. a = [k \in (DOMAIN agenda \ W) \cup (W \cap DOMAIN r.events) |-> IF k \in W THEN r.events[k] ELSE agenda[k]]
  BY DEF With
<1>2. DOMAIN a = (DOMAIN agenda \ W) \cup (W \cap DOMAIN r.events) /\ a = [k \in DOMAIN a |-> a[k]]
  BY <1>1
<1>3. \A k \in DOMAIN a : a[k] = IF k \in W THEN r.events[k] ELSE agenda[k]
  BY <1>1
<1> HIDE DEF a
<1>4. IsAgenda(r.events)
  BY PlanIs DEF IsOffer
<1>5. IsFiniteSet(DOMAIN agenda \ W) /\ IsFiniteSet(DOMAIN r.events \cap W)
  BY <1>4, FS_Difference, FS_Intersection DEF IsAgenda
<1>6. IsFiniteSet(DOMAIN a)
  <2>1. DOMAIN a = (DOMAIN agenda \ W) \cup (DOMAIN r.events \cap W)
    BY <1>2
  <2> QED
    BY <1>5, <2>1, FS_Union
<1>7. DOMAIN a \subseteq Nat \ {Unset}
  BY <1>2, <1>4 DEF IsAgenda
<1>8. \A k \in DOMAIN a : IsEvent(a[k]) /\ a[k].start < a[k].end
  BY <1>2, <1>3, <1>4 DEF IsAgenda
<1> QED
  BY <1>2, <1>3, <1>6, <1>7, <1>8 DEF IsAgenda, a

\* What's recorded stays as recorded, however much is written.
LEMMA WritesKeepHistory ==
    ASSUME IsAgenda(agenda), SettledHolds, NEW r, NEW ask, IsOffer(r, ask), NEW W \in SUBSET Changed(r),
           NEW k \in DOMAIN settled, k \notin Freed(ask.decisions)
    PROVE  /\ k \in DOMAIN With(r, W)
           /\ With(r, W)[k].start = settled[k].start /\ With(r, W)[k].end >= settled[k].until
<1>1. /\ last # NoTime /\ k \in DOMAIN agenda
      /\ settled[k].start \in Int /\ settled[k].until \in Int
      /\ settled[k].start < last /\ settled[k].until <= last
      /\ agenda[k].start = settled[k].start /\ agenda[k].end >= settled[k].until
  BY DEF SettledHolds
<1>2. CASE k \notin W
  BY <1>1, <1>2, WithIs
<1>3. CASE k \in W
  <2>1. k \in DOMAIN r.q.events /\ r.q.events[k] = agenda[k] /\ r.q.history = last
    <3>1. k \in DOMAIN r.q.events
      <4>1. k \in DOMAIN r.q.events \/ k \in DOMAIN r.events \ DOMAIN r.q.events
        BY <1>3 DEF Changed
      <4>2. DOMAIN r.events = There(r.q)
        BY PlanIs DEF IsOffer
      <4>3. CASE k \in Made(r.q)
        <5>1. Made(r.q) \cap DOMAIN agenda = {}
          BY DEF IsOffer
        <5> QED
          BY <1>1, <4>3, <5>1
      <4> QED
        BY <4>1, <4>2, <4>3 DEF There
    <3> QED
      BY <3>1 DEF IsOffer
  <2>2. ~\E d \in r.q.decisions : d.allowHistory /\ k \in {d.id, d.into}
    BY DEF Freed, IsOffer
  <2>3. /\ k \in DOMAIN r.events /\ r.events[k].start = agenda[k].start
        /\ r.events[k].end >= agenda[k].end \/ r.events[k].end >= last
    BY <1>1, <2>1, <2>2, PlanKeepsHistory DEF IsOffer
  <2>4. r.events[k].end \in Int /\ agenda[k].end \in Int /\ last \in Int
    BY <1>1, <2>1, <2>3, PlanIs DEF IsOffer, IsAgenda, IsEvent, IsQuestion
  <2>5. r.events[k].end >= settled[k].until
    BY <1>1, <2>3, <2>4
  <2> QED
    BY <1>1, <1>3, <2>3, <2>5, WithIs
<1> QED
  BY <1>2, <1>3

\* Those writing the same leave the same.
LEMMA SameAre ==
    ASSUME NEW r, NEW s, SameWrites(r, s)
    PROVE  /\ DOMAIN r.q.notes = DOMAIN s.q.notes /\ Changed(r) = Changed(s)
           /\ \A W \in SUBSET Changed(r) : With(s, W) = With(r, W)
<1>1. DOMAIN [k \in Changed(r) |-> TRUE] = DOMAIN [k \in Changed(s) |-> TRUE]
  BY DEF SameWrites
<1>2. Changed(r) = Changed(s)
  BY <1>1
<1>3. ASSUME NEW W \in SUBSET Changed(r) PROVE With(s, W) = With(r, W)
  <2>1. \A k \in W : (k \in DOMAIN r.events <=> k \in DOMAIN s.events) /\ (k \in DOMAIN r.events => r.events[k] = s.events[k])
    BY DEF SameWrites
  <2>2. W \cap DOMAIN s.events = W \cap DOMAIN r.events
    BY <2>1
  <2> DEFINE D == (DOMAIN agenda \ W) \cup (W \cap DOMAIN r.events)
  <2>3. \A k \in D : (IF k \in W THEN s.events[k] ELSE agenda[k]) = (IF k \in W THEN r.events[k] ELSE agenda[k])
    BY <2>1
  <2>4. With(s, W) = [k \in D |-> IF k \in W THEN s.events[k] ELSE agenda[k]]
    BY <2>2 DEF With
  <2>5. With(r, W) = [k \in D |-> IF k \in W THEN r.events[k] ELSE agenda[k]]
    BY DEF With
  <2> HIDE DEF D
  <2> QED
    BY <2>3, <2>4, <2>5
<1> QED
  BY <1>2, <1>3 DEF SameWrites

\* Written whole, each event is as planned, or as it was and wasn't asked of.
LEMMA WholeIs ==
    ASSUME IsAgenda(agenda), NEW r, NEW ask, IsOffer(r, ask), NEW k \in DOMAIN With(r, Changed(r))
    PROVE  \/ k \in There(r.q) /\ With(r, Changed(r))[k] = r.events[k]
           \/ k \in DOMAIN agenda \ DOMAIN r.q.events /\ With(r, Changed(r))[k] = agenda[k]
<1>1. DOMAIN r.events = There(r.q)
  BY PlanIs DEF IsOffer
<1>2. CASE k \in Changed(r)
  BY <1>1, <1>2, WithIs
<1>3. CASE k \notin Changed(r)
  <2>1. k \in DOMAIN agenda /\ With(r, Changed(r))[k] = agenda[k]
    BY <1>3, WithIs
  <2>2. k \in DOMAIN r.q.events => k \in DOMAIN r.events /\ r.events[k] = agenda[k]
    BY <1>3 DEF Changed, IsOffer
  <2> QED
    BY <1>1, <2>1, <2>2
<1> QED
  BY <1>2, <1>3

\* Where an event is put, or was before what it's put over: itself, or one
\* merged into it.
LEMMA PutOverIs ==
    ASSUME NEW r, NEW ask, NEW now, IsRound(r, ask, now),
           NEW k \in There(r.q), NEW j \in DOMAIN agenda \ DOMAIN r.q.events, Overlaps(r.events[k], agenda[j])
    PROVE  \E m \in {k} \cup MergedInto(r.q, k) : m \in DOMAIN agenda /\ Overlaps(agenda[m], agenda[j])
<1> DEFINE q == r.q
<1>1. /\ IsQuestion(q) /\ Planned(q).ok /\ r.events = Planned(q).events
      /\ DOMAIN q.events \subseteq DOMAIN agenda /\ \A i \in DOMAIN q.events : q.events[i] = agenda[i]
      /\ q.decisions = ask.decisions /\ Made(q) \cap DOMAIN agenda = {}
      /\ ~RunsBack(q, r.events)
  BY OfferIs DEF IsOffer
<1>2. /\ q.start \in Int /\ q.revisits \subseteq DOMAIN q.events
      /\ \E ends \in Int :
            /\ \A i \in DOMAIN q.events \ q.revisits : agenda[i].start < ends
            /\ \A i \in DOMAIN agenda \ DOMAIN q.events : agenda[i].start < q.start \/ ends <= agenda[i].start
            /\ \A n \in DOMAIN q.notes : q.notes[n].at <= ends
            /\ \A d \in q.decisions : d.do = "create" \/ (d.do = "keep" /\ d.id \in DOMAIN q.events \ q.revisits) =>
                  d.start <= ends /\ d.end <= ends
  <2>1. /\ ~NothingToPlan(now) /\ q = Asked(ask, now)
        /\ IsAgenda(agenda) /\ NotesOK /\ last \in Int /\ now \in Int
        /\ IsAsk(ask) /\ CreatesOf(ask.decisions) \cap DOMAIN agenda = {}
    BY OfferIs DEF IsRound, CanPlan
  <2> HIDE DEF q
  <2> QED
    BY <2>1, AskedIs
<1>3. PICK ends \in Int :
            /\ \A i \in DOMAIN q.events \ q.revisits : agenda[i].start < ends
            /\ \A i \in DOMAIN agenda \ DOMAIN q.events : agenda[i].start < q.start \/ ends <= agenda[i].start
            /\ \A n \in DOMAIN q.notes : q.notes[n].at <= ends
            /\ \A d \in q.decisions : d.do = "create" \/ (d.do = "keep" /\ d.id \in DOMAIN q.events \ q.revisits) =>
                  d.start <= ends /\ d.end <= ends
  BY <1>2
<1>4. ~Malformed(q) /\ ~Compacted(q) /\ ~Timeless(q)
  BY <1>1, PlannedIs
<1> HIDE DEF q
<1>5. \A i \in DOMAIN agenda : agenda[i].start \in Int /\ agenda[i].end \in Int /\ agenda[i].start < agenda[i].end
  BY DEF IsRound, CanPlan, IsAgenda, IsEvent
<1>6. DOMAIN r.events = There(q) /\ k \in There(q) /\ PlacedAt(q, k, r.events[k]) /\ j \in DOMAIN agenda \ DOMAIN q.events
  BY <1>1, PlanIs DEF q
<1>7. k \in DOMAIN q.events /\ r.events[k].start = agenda[k].start /\ r.events[k].end = agenda[k].end =>
          k \in DOMAIN agenda /\ Overlaps(agenda[k], agenda[j])
  BY <1>1 DEF Overlaps
<1>8. CASE k \notin Decided(q)
  BY <1>1, <1>6, <1>7, <1>8 DEF There, Decided, PlacedAt
<1>9. CASE k \in Decided(q) /\ k \in q.revisits
  <2>1. k \in Kept(q) /\ k \in DOMAIN q.events
    BY <1>1, <1>2, <1>9 DEF Decided
  <2>2. ~Retimed(q, k)
    BY <1>4, <1>9, <2>1 DEF Compacted, Unsettles
  <2> QED
    BY <1>1, <1>6, <1>7, <1>9, <2>1, <2>2 DEF Retimed, PlacedAt
<1>10. CASE k \in Decided(q) /\ k \notin q.revisits
  <2>1. CASE k \in DOMAIN q.events /\ [r.events[k] EXCEPT !.prioritized = q.events[k].prioritized] = q.events[k]
    <3>1. IsEvent(r.events[k])
      BY <1>1, <1>6, PlanIs DEF IsAgenda
    <3>2. [r.events[k] EXCEPT !.prioritized = q.events[k].prioritized].start = r.events[k].start
          /\ [r.events[k] EXCEPT !.prioritized = q.events[k].prioritized].end = r.events[k].end
      BY <3>1, FieldSet
    <3> QED
      BY <1>1, <1>7, <2>1, <3>2
  <2>2. CASE ~(agenda[j].start < q.start)
    <3>1. ends <= agenda[j].start /\ ends < agenda[j].end
      BY <1>3, <1>5, <1>6, <2>2
    <3>2. k \in Kept(q) \cup Made(q)
      BY <1>10 DEF Decided
    <3>3. EndOf(q, k) \in Int /\ (EndOf(q, k) = OwnEnd(q, k) \/ \E m \in MergedInto(q, k) : EndOf(q, k) = q.events[m].end)
      BY <1>1, <1>4, <3>2, TimesAre
    <3>4. agenda[j].start < EndOf(q, k)
      BY <1>6, <1>10 DEF PlacedAt, Overlaps
    <3>5. ASSUME NEW m \in MergedInto(q, k), EndOf(q, k) = q.events[m].end
          PROVE  m \in DOMAIN agenda /\ Overlaps(agenda[m], agenda[j])
      <4>1. m \in DOMAIN q.events /\ m \notin q.revisits
        BY <1>1, <1>4, DecidedAreThere DEF MergedInto, Doing, Malformed
      <4>2. agenda[m].start < ends /\ m \in DOMAIN agenda /\ q.events[m] = agenda[m]
        BY <1>1, <1>3, <4>1
      <4> QED
        BY <1>5, <1>6, <3>1, <3>4, <3>5, <4>2 DEF Overlaps
    <3>6. CASE EndOf(q, k) = OwnEnd(q, k)
      <4> DEFINE d == DecisionOf(q, k)
      <4>1. ~(OwnEnd(q, k) <= ends)
        BY <1>5, <1>6, <3>1, <3>3, <3>4, <3>6
      <4>2. {d.start, d.end} \subseteq Int /\ (d.endNote = Unset \/ d.endNote \in DOMAIN q.notes)
        BY <1>1, <1>4, <3>2, DecidedIs
      <4>3. d.end = NoTime
        <5>1. CASE d = Decision("keep", k)
          BY <5>1 DEF Decision
        <5>2. CASE d \in q.decisions /\ d.id = k
          <6>1. CASE k \in Made(q)
            <7>1. k \notin DOMAIN q.events
              BY <1>1, <6>1
            <7>2. d.do = "create"
              BY <1>4, <5>2, <7>1 DEF Malformed
            <7>3. d.end <= ends
              BY <1>3, <5>2, <7>2
            <7> QED
              BY <4>1, <7>3 DEF OwnEnd, Edge
          <6>2. CASE k \in Kept(q)
            <7>1. d.do = "keep" /\ k \in DOMAIN q.events \ q.revisits
              BY <1>1, <1>4, <1>10, <6>2, KeptIsKept, DecidedAreThere
            <7>2. d.end <= ends
              BY <1>3, <5>2, <7>1
            <7> QED
              BY <4>1, <7>2 DEF OwnEnd, Edge
          <6> QED
            BY <3>2, <6>1, <6>2
        <5> QED
          BY <5>1, <5>2, DecisionIs
      <4>4. d.endNote = Unset
        BY <1>3, <4>1, <4>2, <4>3 DEF OwnEnd, Edge
      <4>5. k \notin Made(q)
        BY <1>4, <3>6, <4>3, <4>4 DEF Timeless, OwnEnd, Edge
      <4>6. k \in DOMAIN q.events /\ EndOf(q, k) = agenda[k].end
        <5>1. k \in DOMAIN q.events
          BY <1>1, <1>4, <3>2, <4>5, DecidedAreThere
        <5> QED
          BY <1>1, <3>6, <4>3, <4>4, <4>5, <5>1 DEF OwnEnd, Edge
      <4>7. agenda[k].start < ends /\ k \in DOMAIN agenda
        BY <1>1, <1>3, <1>10, <4>6
      <4>8. Overlaps(agenda[k], agenda[j])
        BY <1>5, <1>6, <3>1, <3>4, <4>6, <4>7 DEF Overlaps
      <4> QED
        BY <4>7, <4>8
    <3> QED
      BY <3>3, <3>5, <3>6 DEF q
  <2>3. CASE agenda[j].start < q.start /\ ~(k \in DOMAIN q.events /\ [r.events[k] EXCEPT !.prioritized = q.events[k].prioritized] = q.events[k])
    <3>1. RunsBack(q, r.events)
      BY <1>6, <1>10, <2>3 DEF RunsBack
    <3> QED
      BY <1>1, <3>1
  <2> QED
    BY <2>1, <2>2, <2>3
<1> QED
  BY <1>8, <1>9, <1>10

\* Written whole, what's over another was, or came of some that were.
LEMMA CoversNone ==
    ASSUME NEW r, NEW ask, NEW now, IsRound(r, ask, now),
           NEW j \in DOMAIN With(r, Changed(r)), NEW k \in DOMAIN With(r, Changed(r)), j # k,
           Overlaps(With(r, Changed(r))[j], With(r, Changed(r))[k])
    PROVE  \E i \in {j} \cup MergedInto(r.q, j), m \in {k} \cup MergedInto(r.q, k) :
               {i, m} \subseteq DOMAIN agenda /\ Overlaps(agenda[i], agenda[m])
<1> DEFINE q == r.q
           a == With(r, Changed(r))
           Planned1(x) == x \in There(q) /\ a[x] = r.events[x]
           Other(x) == x \in DOMAIN agenda \ DOMAIN q.events /\ a[x] = agenda[x]
<1>1. IsOffer(r, ask) /\ IsAgenda(agenda)
  BY OfferIs DEF IsRound, CanPlan
<1>2. (Planned1(j) \/ Other(j)) /\ (Planned1(k) \/ Other(k))
  BY <1>1, WholeIs
<1>3. CASE Planned1(j) /\ Planned1(k)
  <2>1. IsQuestion(q) /\ Planned(q).ok /\ r.events = Planned(q).events
    BY <1>1 DEF IsOffer
  <2>2. j \notin Decided(q)
    BY <1>3, <2>1, PlanIsClear
  <2>3. k \notin Decided(q)
    <3>1. k \in Decided(q) => ~Overlaps(r.events[k], r.events[j])
      BY <1>3, <2>1, PlanIsClear
    <3> QED
      BY <1>3, <3>1 DEF Overlaps
  <2>4. PlacedAt(q, j, r.events[j]) /\ PlacedAt(q, k, r.events[k])
    BY <1>3, <2>1, PlanIs
  <2>5. {j, k} \subseteq DOMAIN q.events
    BY <1>3, <2>2, <2>3 DEF There, Decided
  <2>6. {j, k} \subseteq DOMAIN agenda /\ q.events[j] = agenda[j] /\ q.events[k] = agenda[k]
    BY <1>1, <2>5 DEF IsOffer
  <2>7. Overlaps(agenda[j], agenda[k])
    BY <1>3, <2>2, <2>3, <2>4, <2>6 DEF PlacedAt, Overlaps
  <2> QED
    BY <2>6, <2>7
<1>4. CASE Planned1(j) /\ Other(k)
  <2>1. \E m \in {j} \cup MergedInto(q, j) : m \in DOMAIN agenda /\ Overlaps(agenda[m], agenda[k])
    BY <1>4, PutOverIs
  <2> QED
    BY <1>4, <2>1
<1>5. CASE Other(j) /\ Planned1(k)
  <2>1. Overlaps(r.events[k], agenda[j])
    BY <1>5 DEF Overlaps
  <2>2. \E m \in {k} \cup MergedInto(q, k) : m \in DOMAIN agenda /\ Overlaps(agenda[m], agenda[j])
    BY <1>5, <2>1, PutOverIs
  <2>3. \A m : Overlaps(agenda[m], agenda[j]) => Overlaps(agenda[j], agenda[m])
    BY DEF Overlaps
  <2> QED
    BY <1>5, <2>2, <2>3
<1>6. CASE Other(j) /\ Other(k)
  BY <1>6
<1> QED
  BY <1>2, <1>3, <1>4, <1>5, <1>6

----------------------------------------------------------------------------
(* The notes that are planned *)

\* A day starts no later than any time of it, and an earlier one's no later.
LEMMA DayIsBefore ==
    ASSUME NEW x \in Nat
    PROVE  /\ (x \div DayLength) * DayLength \in Nat
           /\ (x \div DayLength) * DayLength <= x /\ x < (x \div DayLength) * DayLength + DayLength
           /\ \A y \in Nat : x <= y => (x \div DayLength) * DayLength <= (y \div DayLength) * DayLength
<1> DEFINE D == DayLength
<1>0. D \in Nat \ {0}
  BY RoundsAssumption
<1> HIDE DEF D
<1>1. x \div D \in Nat /\ (x \div D) * D <= x /\ x < (x \div D) * D + D
  BY <1>0
<1>2. \A u, v \in Int : u <= v => u * D <= v * D
  BY <1>0
<1>3. (x \div D) * D \in Nat
  BY <1>0, <1>1
<1>4. ASSUME NEW y \in Nat, x <= y PROVE (x \div D) * D <= (y \div D) * D
  <2>1. y \div D \in Nat /\ x \div D <= y \div D
    BY <1>0, <1>4
  <2> QED
    BY <1>1, <1>2, <2>1
<1> QED
  BY <1>1, <1>3, <1>4 DEF D

\* With nothing stamped yet, the day starts with that of the first note.
LEMMA FirstDayIs ==
    ASSUME NotesOK, \A n \in DOMAIN jotted : jotted[n].at \in Nat, last = NoTime, NEW now, SpanNotes(now) # {}
    PROVE  \E m \in SpanNotes(now) :
               /\ DayStart(now) = (jotted[m].at \div DayLength) * DayLength
               /\ \A n \in SpanNotes(now) : jotted[m].at <= jotted[n].at
<1> DEFINE S == SpanNotes(now)
           f == [n \in S |-> jotted[n].at]
           T == {jotted[n].at : n \in S}
<1>1. S \subseteq DOMAIN jotted
  BY DEF SpanNotes, Unstamped
<1>2. IsFiniteSet(S)
  BY <1>1, FS_Subset DEF NotesOK
<1>3. f \in Surjection(S, T)
  BY DEF Surjection
<1>4. \A n \in S : jotted[n].at \in Nat
  BY <1>1
<1>5. T # {} /\ T \subseteq Int
  <2> HIDE DEF S
  <2> QED
    BY <1>4 DEF S
<1>6. DayStart(now) = (Min(T) \div DayLength) * DayLength
  BY DEF DayStart
<1>7. Min(T) \in T /\ \A y \in T : Min(T) <= y
  <2> HIDE DEF S, T, f
  <2> QED
    BY <1>2, <1>3, <1>5, FS_Surjection, LeastIsMin
<1>8. PICK m \in S : Min(T) = jotted[m].at
  <2> HIDE DEF S
  <2> QED
    BY <1>7
<1>9. \A n \in S : jotted[n].at \in T
  OBVIOUS
<1>10. \A n \in S : jotted[m].at <= jotted[n].at
  <2> HIDE DEF T
  <2> QED
    BY <1>7, <1>8, <1>9
<1>11. DayStart(now) = (jotted[m].at \div DayLength) * DayLength
  BY <1>6, <1>8
<1> QED
  BY <1>10, <1>11

\* A note that's not historical is of the day that's started, or later.
LEMMA DayStartsBefore ==
    ASSUME NotesOK, \A n \in DOMAIN jotted : jotted[n].at \in Nat, last \in Int, NEW now, NEW n \in SpanNotes(now)
    PROVE  DayStart(now) <= jotted[n].at
<1>1. n \in DOMAIN jotted /\ jotted[n].at \in Nat /\ ~IsHistorical(n)
  BY DEF SpanNotes, Unstamped
<1>2. CASE last # NoTime
  BY <1>1, <1>2 DEF DayStart, IsHistorical
<1>3. CASE last = NoTime
  <2>1. PICK m \in SpanNotes(now) : /\ DayStart(now) = (jotted[m].at \div DayLength) * DayLength
                                    /\ jotted[m].at <= jotted[n].at
    BY <1>3, FirstDayIs
  <2>2. jotted[m].at \in Nat
    BY DEF SpanNotes, Unstamped
  <2>3. DayStart(now) <= jotted[m].at /\ DayStart(now) \in Int
    BY <2>1, <2>2, DayIsBefore
  <2> QED
    BY <1>1, <2>1, <2>2, <2>3
<1> QED
  BY <1>2, <1>3

\* What's asked has the notes there are, up to when it is, and of each the
\* event that's on then -- or, of one that's history, one that is.
LEMMA AskedNotes ==
    ASSUME IsAgenda(agenda), NotesOK, \A n \in DOMAIN jotted : jotted[n].at \in Nat, last \in Int, NEW now \in Int,
           ~NothingToPlan(now), NEW ask, IsAsk(ask)
    PROVE  LET q == Asked(ask, now)
           IN  /\ q.ignored = ask.ignored /\ q.targets = ask.targets
               /\ DOMAIN q.notes = {n \in SpanNotes(now) : jotted[n].at <= q.now} \cup Historical(now)
               /\ \A n \in DOMAIN q.notes :
                     /\ n \in DOMAIN jotted /\ q.notes[n].at = jotted[n].at /\ q.notes[n].says = jotted[n].says
                     /\ \A k \in DOMAIN agenda : agenda[k].start <= jotted[n].at /\ jotted[n].at < agenda[k].end =>
                           \/ k \in DOMAIN q.events
                           \/ /\ last # NoTime /\ jotted[n].at < last
                              /\ \E e \in DOMAIN q.events : agenda[e].start <= jotted[n].at /\ jotted[n].at < agenda[e].end
<1> DEFINE span == Cut(now, ask.decisions)
           revisits == Revisits(now, span)
           q == Asked(ask, now)
           taken == {n \in SpanNotes(now) : jotted[n].at <= span.until} \cup Historical(now)
<1>1. q = AskedOf(ask, now, span, revisits)
  BY AskedOfIs
<1>2. /\ q.notes = [n \in taken |-> [at |-> jotted[n].at, says |-> jotted[n].says]]
      /\ DOMAIN q.events = span.ids \cup revisits /\ q.now = span.until
      /\ q.ignored = ask.ignored /\ q.targets = ask.targets
  BY <1>1 DEF AskedOf
<1>3. IsFiniteSet(ask.decisions) /\ \A d \in ask.decisions : {d.start, d.end} \subseteq Int
  BY DEF IsAsk
<1>4. PICK far \in Int : span = Span(now, far)
  BY <1>3, CutIs
<1> HIDE DEF span, q
<1>5. /\ span.start = DayStart(now) /\ span.start \in Int /\ span.until \in Int /\ span.ends \in Int /\ span.until < span.ends
      /\ \A k \in DOMAIN agenda : span.start < agenda[k].end /\ agenda[k].start < span.ends => k \in span.ids
  BY <1>4, SpanIs
<1>6. \A k \in DOMAIN agenda : agenda[k].start \in Int /\ agenda[k].end \in Int
  BY DEF IsAgenda, IsEvent
<1>7. ASSUME NEW n \in SpanNotes(now), jotted[n].at <= span.until, NEW k \in DOMAIN agenda,
             agenda[k].start <= jotted[n].at, jotted[n].at < agenda[k].end
      PROVE  k \in span.ids
  <2>1. DayStart(now) <= jotted[n].at
    BY DayStartsBefore
  <2>2. jotted[n].at \in Int
    BY DEF SpanNotes, Unstamped
  <2> QED
    BY <1>5, <1>6, <1>7, <2>1, <2>2
<1>8. ASSUME NEW n \in Historical(now), NEW k \in DOMAIN agenda, agenda[k].start <= jotted[n].at, jotted[n].at < agenda[k].end
      PROVE  \E e \in span.ids \cup revisits : agenda[e].start <= jotted[n].at /\ jotted[n].at < agenda[e].end
  <2> DEFINE t == jotted[n].at
             within == {j \in DOMAIN agenda : agenda[j].start <= t /\ t < agenda[j].end}
  <2>1. within # {} /\ within \subseteq DOMAIN agenda
    BY <1>8
  <2>2. RevisitedBy(t) = {Earliest(within)}
    BY <2>1 DEF RevisitedBy
  <2>3. Earliest(within) \in within
    <3> HIDE DEF within
    <3> QED
      BY <2>1, EarliestIs
  <2>4. Earliest(within) \in span.ids \cup revisits
    <3>1. Earliest(within) \in RevisitedBy(t)
      <4> HIDE DEF within
      <4> QED
        BY <2>2
    <3> HIDE DEF within
    <3>2. Earliest(within) \in UNION {RevisitedBy(jotted[m].at) : m \in Historical(now)}
      BY <3>1
    <3>3. revisits = (UNION {RevisitedBy(jotted[m].at) : m \in Historical(now)}) \ span.ids
      BY DEF Revisits
    <3> HIDE DEF revisits
    <3> QED
      BY <3>2, <3>3
  <2> HIDE DEF revisits
  <2> QED
    BY <2>3, <2>4
<1> HIDE DEF revisits
<1>9. \A n \in Historical(now) : last # NoTime /\ jotted[n].at < last
  BY DEF Historical, IsHistorical
<1>10. DOMAIN q.notes = taken /\ \A n \in taken : q.notes[n].at = jotted[n].at /\ q.notes[n].says = jotted[n].says
  BY <1>2
<1>11. \A n \in taken : n \in DOMAIN jotted
  BY DEF SpanNotes, Historical, Unstamped
<1>12. ASSUME NEW n \in taken, NEW k \in DOMAIN agenda, agenda[k].start <= jotted[n].at, jotted[n].at < agenda[k].end
       PROVE  \/ k \in DOMAIN q.events
              \/ /\ last # NoTime /\ jotted[n].at < last
                 /\ \E e \in DOMAIN q.events : agenda[e].start <= jotted[n].at /\ jotted[n].at < agenda[e].end
  <2>1. CASE n \in SpanNotes(now) /\ jotted[n].at <= span.until
    BY <1>2, <1>7, <1>12, <2>1
  <2>2. CASE n \in Historical(now)
    BY <1>2, <1>8, <1>9, <1>12, <2>2
  <2> QED
    BY <2>1, <2>2
<1> QED
  BY <1>2, <1>10, <1>11, <1>12 DEF q
----------------------------------------------------------------------------
(* What becomes of notes *)

\* Of finitely many, those first in something are some, and before the rest.
LEMMA LeastOnes ==
    ASSUME NEW S, IsFiniteSet(S), S # {}, NEW f, \A k \in S : f[k] \in Int
    PROVE  LET T == {k \in S : \A j \in S : f[k] <= f[j]}
           IN  /\ T # {} /\ T \subseteq S /\ IsFiniteSet(T)
               /\ \A k \in T : \A j \in S \ T : f[k] < f[j]
               /\ \A j, k \in T : f[j] = f[k]
<1> DEFINE T == {k \in S : \A j \in S : f[k] <= f[j]}
           g == [k \in S |-> f[k]]
           V == {f[k] : k \in S}
<1>1. g \in Surjection(S, V)
  BY DEF Surjection
<1>2. V # {} /\ V \subseteq Int
  OBVIOUS
<1>3. IsFiniteSet(V)
  <2> HIDE DEF g, V
  <2> QED
    BY <1>1, FS_Surjection
<1>4. PICK v \in V : \A w \in V : v <= w
  <2> HIDE DEF V
  <2> QED
    BY <1>2, <1>3, FiniteLeast
<1>5. PICK k \in S : f[k] = v
  BY <1>4
<1>6. \A j \in S : f[j] \in V
  OBVIOUS
<1>7. k \in T
  BY <1>4, <1>5, <1>6
<1>8. IsFiniteSet(T)
  <2>1. T \subseteq S
    OBVIOUS
  <2> QED
    BY <2>1, FS_Subset
<1>9. \A i \in T : \A j \in S \ T : f[i] < f[j]
  <2> SUFFICES ASSUME NEW i \in T, NEW j \in S \ T PROVE f[i] < f[j]
    OBVIOUS
  <2>1. f[i] <= f[j] /\ f[i] \in Int /\ f[j] \in Int /\ ~\A l \in S : f[j] <= f[l]
    OBVIOUS
  <2>2. \A l \in S : f[i] <= f[l] /\ f[l] \in Int
    OBVIOUS
  <2> QED
    BY <2>1, <2>2
<1>10. \A i, j \in T : f[i] = f[j]
  OBVIOUS
<1> QED
  BY <1>7, <1>8, <1>9, <1>10

\* Of some events, the first in order is one of them.
LEMMA FirstIs ==
    ASSUME NEW r, NEW placed, NEW S, IsFiniteSet(S), S \subseteq Nat,
           \A k \in S : placed[k].start \in Int /\ placed[k].end \in Int
    PROVE  (First(r, placed, S) = Unset /\ S = {}) \/ First(r, placed, S) \in S
<1>1. CASE S = {}
  BY <1>1 DEF First
<1>2. CASE S # {}
  <2> DEFINE f == [i \in 1 .. 5 |-> [k \in S |-> Order(r, placed, k)[i]]]
  <2>1. \A k \in S : \A i \in 1 .. 5 : f[i][k] = Order(r, placed, k)[i]
    OBVIOUS
  <2>2. \A k \in S : /\ DOMAIN Order(r, placed, k) = 1 .. 5 /\ Order(r, placed, k)[5] = k
                     /\ \A i \in 1 .. 5 : Order(r, placed, k)[i] \in Int
    BY DEF Order
  <2> DEFINE g1 == f[1] g2 == f[2] g3 == f[3] g4 == f[4] g5 == f[5]
  <2>3. \A k \in S : /\ g1[k] = Order(r, placed, k)[1] /\ g2[k] = Order(r, placed, k)[2] /\ g3[k] = Order(r, placed, k)[3]
                     /\ g4[k] = Order(r, placed, k)[4] /\ g5[k] = Order(r, placed, k)[5]
                     /\ g1[k] \in Int /\ g2[k] \in Int /\ g3[k] \in Int /\ g4[k] \in Int /\ g5[k] \in Int
    BY <2>1, <2>2
  <2> HIDE DEF f, g1, g2, g3, g4, g5
  <2>4. PICK S1 : /\ S1 # {} /\ S1 \subseteq S /\ IsFiniteSet(S1)
                  /\ \A k \in S1 : \A j \in S \ S1 : g1[k] < g1[j]
                  /\ \A j, k \in S1 : g1[j] = g1[k]
    <3>1. \A k \in S : g1[k] \in Int
      BY <2>3
    <3>2. IsFiniteSet(S) /\ S # {}
      BY <1>2
    <3> HIDE DEF g1
    <3> DEFINE T == {k \in S : \A j \in S : g1[k] <= g1[j]}
    <3>3. /\ T # {} /\ T \subseteq S /\ IsFiniteSet(T)
          /\ \A k \in T : \A j \in S \ T : g1[k] < g1[j]
          /\ \A j, k \in T : g1[j] = g1[k]
      BY <3>1, <3>2, LeastOnes
    <3> HIDE DEF T
    <3> QED
      BY <3>3
  <2>5. PICK S2 : /\ S2 # {} /\ S2 \subseteq S1 /\ IsFiniteSet(S2)
                  /\ \A k \in S2 : \A j \in S1 \ S2 : g2[k] < g2[j]
                  /\ \A j, k \in S2 : g2[j] = g2[k]
    <3>1. \A k \in S1 : g2[k] \in Int
      BY <2>3, <2>4
    <3> QED
      BY <2>4, <3>1, LeastOnes
  <2>6. PICK S3 : /\ S3 # {} /\ S3 \subseteq S2 /\ IsFiniteSet(S3)
                  /\ \A k \in S3 : \A j \in S2 \ S3 : g3[k] < g3[j]
                  /\ \A j, k \in S3 : g3[j] = g3[k]
    <3>1. \A k \in S2 : g3[k] \in Int
      BY <2>3, <2>4, <2>5
    <3> QED
      BY <2>5, <3>1, LeastOnes
  <2>7. PICK S4 : /\ S4 # {} /\ S4 \subseteq S3 /\ IsFiniteSet(S4)
                  /\ \A k \in S4 : \A j \in S3 \ S4 : g4[k] < g4[j]
                  /\ \A j, k \in S4 : g4[j] = g4[k]
    <3>1. \A k \in S3 : g4[k] \in Int
      BY <2>3, <2>4, <2>5, <2>6
    <3> QED
      BY <2>6, <3>1, LeastOnes
  <2>8. PICK S5 : /\ S5 # {} /\ S5 \subseteq S4 /\ IsFiniteSet(S5)
                  /\ \A k \in S5 : \A j \in S4 \ S5 : g5[k] < g5[j]
                  /\ \A j, k \in S5 : g5[j] = g5[k]
    <3>1. \A k \in S4 : g5[k] \in Int
      BY <2>3, <2>4, <2>5, <2>6, <2>7
    <3> QED
      BY <2>7, <3>1, LeastOnes
  <2>9. PICK k \in S5 : TRUE
    BY <2>8
  <2>10. k \in S /\ k \in S1 /\ k \in S2 /\ k \in S3 /\ k \in S4
    BY <2>4, <2>5, <2>6, <2>7, <2>8, <2>9
  <2>11. ASSUME NEW j \in S \ {k} PROVE Precedes(Order(r, placed, k), Order(r, placed, j))
    <3> DEFINE a == Order(r, placed, k)
               b == Order(r, placed, j)
    <3>1. /\ a[1] = g1[k] /\ a[2] = g2[k] /\ a[3] = g3[k] /\ a[4] = g4[k] /\ a[5] = g5[k]
          /\ b[1] = g1[j] /\ b[2] = g2[j] /\ b[3] = g3[j] /\ b[4] = g4[j] /\ b[5] = g5[j]
          /\ a[5] = k /\ b[5] = j /\ DOMAIN a = 1 .. 5
      BY <2>2, <2>3, <2>10
    <3>2. j \notin S5
      BY <2>8, <3>1
    <3>3. CASE j \notin S1
      <4>1. a[1] < b[1]
        BY <2>4, <2>10, <3>1, <3>3
      <4> HIDE DEF a, b
      <4> QED
        BY <3>1, <4>1 DEF Precedes, a, b
    <3>4. CASE j \in S1 /\ j \notin S2
      <4>1. a[1] = b[1] /\ a[2] < b[2]
        BY <2>4, <2>5, <2>10, <3>1, <3>4
      <4> HIDE DEF a, b
      <4>2. \A h \in 1 .. 2 - 1 : a[h] = b[h]
        BY <4>1
      <4>3. 2 \in DOMAIN a
        BY <3>1
      <4>4. Precedes(a, b)
        BY <4>1, <4>2, <4>3 DEF Precedes
      <4> QED
        BY <4>4 DEF a, b
    <3>5. CASE j \in S2 /\ j \notin S3
      <4>1. a[1] = b[1] /\ a[2] = b[2] /\ a[3] < b[3]
        BY <2>4, <2>5, <2>6, <2>10, <3>1, <3>5
      <4> HIDE DEF a, b
      <4>2. \A h \in 1 .. 3 - 1 : a[h] = b[h]
        BY <4>1
      <4>3. 3 \in DOMAIN a
        BY <3>1
      <4>4. Precedes(a, b)
        BY <4>1, <4>2, <4>3 DEF Precedes
      <4> QED
        BY <4>4 DEF a, b
    <3>6. CASE j \in S3 /\ j \notin S4
      <4>1. a[1] = b[1] /\ a[2] = b[2] /\ a[3] = b[3] /\ a[4] < b[4]
        BY <2>4, <2>5, <2>6, <2>7, <2>10, <3>1, <3>6
      <4> HIDE DEF a, b
      <4>2. \A h \in 1 .. 4 - 1 : a[h] = b[h]
        BY <4>1
      <4>3. 4 \in DOMAIN a
        BY <3>1
      <4>4. Precedes(a, b)
        BY <4>1, <4>2, <4>3 DEF Precedes
      <4> QED
        BY <4>4 DEF a, b
    <3>7. CASE j \in S4
      <4>a. a[5] < b[5]
        <5>1. g5[k] < g5[j]
          BY <2>8, <2>9, <3>2, <3>7
        <5> QED
          BY <3>1, <5>1
      <4>b. j \in S3 /\ j \in S2 /\ j \in S1
        BY <2>5, <2>6, <2>7, <3>7
      <4>c. g1[k] = g1[j] /\ g2[k] = g2[j] /\ g3[k] = g3[j] /\ g4[k] = g4[j]
        BY <2>4, <2>5, <2>6, <2>7, <2>10, <3>7, <4>b
      <4>1. a[1] = b[1] /\ a[2] = b[2] /\ a[3] = b[3] /\ a[4] = b[4] /\ a[5] < b[5]
        BY <3>1, <4>a, <4>c
      <4> HIDE DEF a, b
      <4>2. \A h \in 1 .. 5 - 1 : a[h] = b[h]
        BY <4>1
      <4>3. 5 \in DOMAIN a
        BY <3>1
      <4>4. Precedes(a, b)
        BY <4>1, <4>2, <4>3 DEF Precedes
      <4> QED
        BY <4>4 DEF a, b
    <3> QED
      BY <3>3, <3>4, <3>5, <3>6, <3>7
  <2>12. \E i \in S : \A j \in S \ {i} : Precedes(Order(r, placed, i), Order(r, placed, j))
    BY <2>10, <2>11
  <2> QED
    BY <1>2, <2>12 DEF First
<1> QED
  BY <1>1, <1>2

\* An event with a field set has the lines it had, or those it's given.
LEMMA LinesKept ==
    ASSUME NEW e, IsEvent(e), NEW v
    PROVE  /\ [e EXCEPT !.start = v].lines = e.lines /\ [e EXCEPT !.end = v].lines = e.lines
           /\ [e EXCEPT !.name = v].lines = e.lines /\ [e EXCEPT !.said = v].lines = e.lines
           /\ [e EXCEPT !.facts = v].lines = e.lines /\ [e EXCEPT !.prioritized = v].lines = e.lines
           /\ [e EXCEPT !.lines = v].lines = v
<1>1. e = [start |-> e.start, end |-> e.end, name |-> e.name, said |-> e.said, facts |-> e.facts, lines |-> e.lines,
           prioritized |-> e.prioritized]
  BY DEF IsEvent
<1> QED
  BY <1>1
LEMMA WordedLines ==
    ASSUME NEW d, NEW e, IsEvent(e)
    PROVE  Worded(d, e).lines = e.lines \/ (d.description.given /\ Worded(d, e).lines = d.description.lines)
<1> DEFINE name == IF d.name THEN {Renamed} ELSE e.name
           a == [e EXCEPT !.name = name]
           said == IF d.said THEN "said" ELSE a.said
           b == [a EXCEPT !.said = said]
           lines == IF d.description.given THEN d.description.lines ELSE b.lines
           c == [b EXCEPT !.lines = lines]
<1>1. Worded(d, e) = c
  BY DEF Worded
<1> HIDE DEF name
<1>2. IsEvent(a) /\ a.lines = e.lines
  BY FieldSet, LinesKept
<1> HIDE DEF a, said
<1>3. IsEvent(b) /\ b.lines = e.lines
  BY <1>2, FieldSet, LinesKept
<1>4. lines = e.lines \/ (d.description.given /\ lines = d.description.lines)
  BY <1>3
<1> HIDE DEF b, lines
<1>5. c.lines = lines
  BY <1>3, LinesKept
<1> QED
  BY <1>1, <1>4, <1>5

\* Before notes are added, an event's lines are those it had or was given.
LEMMA PlacedLines ==
    ASSUME NEW q, IsQuestion(q), ~Malformed(q), NEW k \in There(q), NEW n \in Placing(Resolved(q))[k].lines
    PROVE  \/ k \in DOMAIN q.events /\ n \in q.events[k].lines
           \/ \E d \in q.decisions : d.id = k /\ n \in d.description.lines
<1> DEFINE r == Resolved(q)
           e == Placing(r)[k]
           d == DecisionOf(r, k)
<1>r. r = Resolved(q)
  OBVIOUS
<1>0. n \in e.lines
  OBVIOUS
<1> HIDE DEF r
<1>1. /\ r.there = There(q) /\ r.decided = Decided(q) /\ r.events = q.events /\ r.made = Made(q) /\ r.touched = Touched(q)
      /\ StartOf(r, k) = StartOf(q, k) /\ EndOf(r, k) = EndOf(q, k) /\ d = DecisionOf(q, k)
  BY <1>r, ResolvedIs, ResolvedTimes
<1>2. k \notin Made(q) => k \in DOMAIN q.events /\ IsEvent(q.events[k])
  BY DEF There, IsQuestion, IsAgenda
<1>3. d.description.given => d \in q.decisions /\ d.id = k
  <2>1. ~Decision("keep", k).description.given
    BY DEF Decision, NoDescription
  <2> QED
    BY <1>1, <2>1, DecisionIs
<1>4. CASE k \in Decided(q)
  <2> DEFINE base == IF k \in r.made THEN New(k) ELSE r.events[k]
             named == [base EXCEPT !.name = @ \cup UNION {r.events[m].name : m \in MergedInto(r, k)}]
             w == Worded(d, named)
             a == [w EXCEPT !.start = StartOf(r, k)]
             b == [a EXCEPT !.end = EndOf(r, k)]
             c == [b EXCEPT !.facts = FactsOf(r, k, StartOf(r, k))]
  <2>1. e = c
    BY <1>1, <1>4 DEF Placing
  <2>2. IsEvent(New(k)) /\ New(k).lines = {}
    BY DEF New, IsEvent, NoTime
  <2>3. IsEvent(base) /\ (base.lines = {} \/ (k \in DOMAIN q.events /\ base.lines = q.events[k].lines))
    BY <1>1, <1>2, <2>2
  <2> HIDE DEF base
  <2>4. IsEvent(named) /\ named.lines = base.lines
    BY <2>3, FieldSet, LinesKept
  <2> HIDE DEF named
  <2>5. IsEvent(w) /\ (w.lines = named.lines \/ (d.description.given /\ w.lines = d.description.lines))
    BY <2>4, WordedIs, WordedLines
  <2> HIDE DEF w
  <2>6. StartOf(r, k) \in Int /\ EndOf(r, k) \in Int
    BY <1>1, <1>4, TimesAre DEF Decided
  <2>a. a.lines = w.lines
    BY <2>5, LinesKept
  <2>b. IsEvent(a)
    BY <2>5, <2>6, TimeSet
  <2>7. IsEvent(a) /\ a.lines = w.lines
    BY <2>a, <2>b
  <2> HIDE DEF a
  <2>8. IsEvent(b) /\ b.lines = w.lines
    BY <2>6, <2>7, TimeSet, LinesKept
  <2> HIDE DEF b
  <2>9. c.lines = w.lines
    BY <2>8, LinesKept
  <2> QED
    BY <1>0, <1>3, <2>1, <2>3, <2>4, <2>5, <2>9
<1>5. CASE k \notin Decided(q)
  <2>1. k \notin Made(q)
    BY <1>5 DEF Decided
  <2>2. k \in DOMAIN q.events /\ IsEvent(q.events[k])
    BY <1>2, <2>1
  <2> DEFINE w == Worded(d, r.events[k])
             facts == IF DecisionOf(r, k).facts /\ r.events[k].start < r.now THEN "said" ELSE w.facts
             c == [w EXCEPT !.facts = facts]
  <2>3. e = c \/ e = q.events[k]
    BY <1>1, <1>5 DEF Placing
  <2>4. IsEvent(w) /\ (w.lines = q.events[k].lines \/ (d.description.given /\ w.lines = d.description.lines))
    BY <1>1, <2>2, WordedIs, WordedLines
  <2> HIDE DEF w, facts
  <2>5. c.lines = w.lines
    BY <2>4, LinesKept
  <2> QED
    BY <1>0, <1>3, <2>2, <2>3, <2>4, <2>5
<1> QED
  BY <1>4, <1>5

\* Noted, it has those and the notes that go with it, and is on when it was.
LEMMA NotedLines ==
    ASSUME NEW q, IsQuestion(q), ~Malformed(q), NEW with, NEW k \in There(q)
    PROVE  LET r == Resolved(q)
               e == Noted(r, Placing(r), with)[k]
           IN  /\ e.lines = Placing(r)[k].lines \cup LinesFor(r, with, k)
               /\ e.start = Placing(r)[k].start /\ e.end = Placing(r)[k].end
<1> DEFINE r == Resolved(q)
           placed == Placing(r)
           ls == placed[k].lines \cup LinesFor(r, with, k)
           l == [placed[k] EXCEPT !.lines = ls]
           p == [l EXCEPT !.prioritized = @ \/ l.start < r.now]
<1>1. DOMAIN placed = There(q)
  <2> DEFINE s == r
  <2>1. s = Resolved(q)
    OBVIOUS
  <2> HIDE DEF s
  <2>2. DOMAIN Placing(s) = There(q)
    BY <2>1, ResolvedIs DEF Placing
  <2> QED
    BY <2>2 DEF s
<1>2. IsEvent(placed[k])
  BY PlacingIs
<1> HIDE DEF r, placed
<1>3. Noted(r, placed, with)[k] = p
  BY <1>1 DEF Noted, Prioritized
<1> HIDE DEF ls
<1>4. IsEvent(l) /\ l.lines = ls /\ l.start = placed[k].start /\ l.end = placed[k].end
  BY <1>2, FieldSet, LinesKept
<1> HIDE DEF l
<1>5. p.lines = l.lines /\ p.start = l.start /\ p.end = l.end
  BY <1>4, FieldSet, LinesKept
<1> QED
  BY <1>3, <1>4, <1>5 DEF r, placed, ls


\* The events told of a note: the one it's said to go with, and those it's
\* said to start or end.
Meant(q, n) ==
    {q.targets[m] : m \in DOMAIN q.targets \cap {n}}
        \cup {d.id : d \in {e \in q.decisions : n \in {e.startNote, e.endNote}}}
LEMMA ToldIs ==
    ASSUME NEW q, IsQuestion(q), ~Malformed(q), IsFiniteSet(There(q)), There(q) \subseteq Nat \ {Unset}, NEW n, n # Unset
    PROVE  LET told == Told(Resolved(q), Placing(Resolved(q)), n)
           IN  told = Unset \/ told \in Meant(q, n)
<1> DEFINE r == Resolved(q)
           placed == Placing(r)
           told == Told(r, placed, n)
           ended == {k \in r.decided : DecisionOf(r, k).endNote = n}
           S == IF ended # {} THEN ended ELSE {k \in r.decided : DecisionOf(r, k).startNote = n}
<1>1. /\ r.targets = q.targets /\ r.decided = Decided(q) /\ r.decisions = q.decisions
      /\ \A k : DecisionOf(r, k) = DecisionOf(q, k)
  BY ResolvedIs
<1>2. \A k \in There(q) : placed[k].start \in Int /\ placed[k].end \in Int
  BY PlacingIs DEF IsEvent
<1>3. EdgeOf(r, placed, n) = First(r, placed, S)
  BY DEF EdgeOf
<1>4. told = (IF n \in DOMAIN r.targets /\ r.targets[n] # Unset THEN r.targets[n] ELSE EdgeOf(r, placed, n))
  BY DEF Told
<1> HIDE DEF r, placed, told
<1>5. \A k \in Decided(q) : k \in There(q)
  <2> SUFFICES ASSUME NEW k \in Decided(q) PROVE k \in There(q)
    OBVIOUS
  <2>1. k \in Kept(q) \cup Made(q)
    BY DEF Decided
  <2>2. k \in Kept(q) => k \notin Cancelled(q) /\ k \in DOMAIN q.events
    BY KeptIsKept, DecidedAreThere
  <2> QED
    BY <2>1, <2>2 DEF There
<1>6. S \subseteq Decided(q) /\ \A k \in S : n \in {DecisionOf(q, k).startNote, DecisionOf(q, k).endNote}
  BY <1>1
<1> HIDE DEF S
<1>7. IsFiniteSet(S) /\ S \subseteq Nat /\ S \subseteq There(q)
  BY <1>5, <1>6, FS_Subset
<1>8. First(r, placed, S) = Unset \/ First(r, placed, S) \in S
  BY <1>2, <1>7, FirstIs
<1>9. ASSUME NEW k \in S PROVE k \in Meant(q, n)
  <2>1. n \in {DecisionOf(q, k).startNote, DecisionOf(q, k).endNote}
    BY <1>6
  <2>2. DecisionOf(q, k) # Decision("keep", k)
    BY <2>1 DEF Decision
  <2>3. DecisionOf(q, k) \in q.decisions /\ DecisionOf(q, k).id = k
    BY <2>2, DecisionIs
  <2> QED
    BY <2>1, <2>3 DEF Meant
<1>10. CASE n \in DOMAIN r.targets /\ r.targets[n] # Unset
  <2>1. told = q.targets[n] /\ n \in DOMAIN q.targets \cap {n}
    BY <1>1, <1>4, <1>10
  <2> QED
    BY <2>1 DEF Meant, told, r, placed
<1>11. CASE ~(n \in DOMAIN r.targets /\ r.targets[n] # Unset)
  <2>1. told = First(r, placed, S)
    BY <1>3, <1>4, <1>11
  <2> QED
    BY <1>8, <1>9, <2>1 DEF told, r, placed
<1> QED
  BY <1>10, <1>11

\* A time falls in an event that's on then, or just over; in none only if
\* none is on.
LEMMA FallsIs ==
    ASSUME NEW q, IsQuestion(q), ~Malformed(q), IsFiniteSet(There(q)), There(q) \subseteq Nat \ {Unset}, NEW t \in Int
    PROVE  LET placed == Placing(Resolved(q))
               k == Falls(Resolved(q), placed, t)
           IN  \/ k = Unset /\ ~\E j \in There(q) : placed[j].start <= t /\ t < placed[j].end
               \/ k \in There(q) /\ placed[k].start <= t /\ t <= placed[k].end
<1> DEFINE r == Resolved(q)
           placed == Placing(r)
           within == {k \in DOMAIN placed : placed[k].start <= t /\ t < placed[k].end}
           upTo == {k \in DOMAIN placed : placed[k].start < t /\ t <= placed[k].end}
           S == IF within # {} THEN within ELSE upTo
<1>r. r = Resolved(q)
  OBVIOUS
<1>1. DOMAIN placed = There(q)
  <2> HIDE DEF r
  <2> QED
    BY <1>r, ResolvedIs DEF Placing
<1>2. \A k \in There(q) : placed[k].start \in Int /\ placed[k].end \in Int
  BY PlacingIs DEF IsEvent
<1>3. Falls(r, placed, t) = First(r, placed, S)
  BY DEF Falls
<1> HIDE DEF r, placed
<1>4. S \subseteq There(q) /\ \A k \in S : placed[k].start <= t /\ t <= placed[k].end
  BY <1>1, <1>2
<1>5. within # {} => S # {}
  OBVIOUS
<1> HIDE DEF S
<1>6. IsFiniteSet(S) /\ S \subseteq Nat
  BY <1>4, FS_Subset
<1>7. (First(r, placed, S) = Unset /\ S = {}) \/ First(r, placed, S) \in S
  BY <1>2, <1>4, <1>6, FirstIs
<1>8. CASE S = {}
  <2>1. First(r, placed, S) = Unset
    BY <1>7, <1>8
  <2>2. ~\E j \in There(q) : placed[j].start <= t /\ t < placed[j].end
    BY <1>1, <1>5, <1>8
  <2> QED
    BY <1>3, <2>1, <2>2 DEF r, placed
<1>9. CASE First(r, placed, S) \in S
  BY <1>3, <1>4, <1>9 DEF r, placed
<1> QED
  BY <1>7, <1>8, <1>9

\* The text of a note goes with an event it's meant for, or one on when it
\* was; with none only if none was on.
LEMMA WhereItGoes ==
    ASSUME NEW q, IsQuestion(q), Planned(q).ok, NEW n \in Textual(Resolved(q)), n # Unset
    PROVE  LET r == Resolved(q)
               placed == Placing(r)
               with == GoesWith(r, placed, [m \in Textual(r) |-> Told(r, placed, m)])
               t == q.notes[n].at
           IN  /\ n \in DOMAIN with
               /\ \/ with[n] = Unset /\ ~\E j \in There(q) : placed[j].start <= t /\ t < placed[j].end
                  \/ /\ with[n] \in There(q)
                     /\ with[n] \in Meant(q, n) \/ (placed[with[n]].start <= t /\ t <= placed[with[n]].end)
<1> DEFINE r == Resolved(q)
           placed == Placing(r)
           told == [m \in Textual(r) |-> Told(r, placed, m)]
           with == GoesWith(r, placed, told)
           t == q.notes[n].at
<1>1. ~Malformed(q) /\ IsFiniteSet(There(q)) /\ There(q) \subseteq Nat \ {Unset}
  BY PlannedIs, PlanIs DEF IsAgenda
<1>2. r.notes = q.notes /\ r.there = There(q)
  BY ResolvedIs
<1>3. n \in DOMAIN q.notes
  BY <1>2 DEF Textual
<1>4. t \in Int
  BY <1>3 DEF IsQuestion
<1>5. told[n] = Told(r, placed, n) /\ n \in DOMAIN told
  OBVIOUS
<1>6. told[n] = Unset \/ told[n] \in Meant(q, n)
  BY <1>1, <1>5, ToldIs
<1> DEFINE k == Falls(r, placed, t)
<1>7. \/ k = Unset /\ ~\E j \in There(q) : placed[j].start <= t /\ t < placed[j].end
      \/ k \in There(q) /\ placed[k].start <= t /\ t <= placed[k].end
  BY <1>1, <1>4, FallsIs
<1> HIDE DEF r, placed, told, k
<1>8. n \in DOMAIN with /\ with[n] = (IF told[n] \in r.there THEN told[n] ELSE k)
  BY <1>2, <1>5 DEF GoesWith, k
<1> HIDE DEF with
<1>9. CASE told[n] \in There(q)
  BY <1>1, <1>2, <1>6, <1>8, <1>9 DEF with, told, placed, r
<1>10. CASE told[n] \notin There(q)
  <2>1. with[n] = k
    BY <1>2, <1>8, <1>10
  <2> QED
    BY <1>7, <1>8, <2>1 DEF with, told, placed, r
<1> QED
  BY <1>9, <1>10

\* What's planned has each note with an event that had it, was given it, was
\* meant for it or is on when it was; and with one that's on, if any is,
\* unless the note's left out.
LEMMA NotesPlanned ==
    ASSUME NEW q, IsQuestion(q), Planned(q).ok, NEW n \in DOMAIN q.notes, n \notin {Unset, Annotation}
    PROVE  LET events == Planned(q).events
               t == q.notes[n].at
           IN  /\ \A k \in There(q) : n \in events[k].lines =>
                      \/ k \in DOMAIN q.events /\ n \in q.events[k].lines
                      \/ k \in About(q, n)
                      \/ events[k].start <= t /\ t <= events[k].end
               /\ q.notes[n].says /\ (\E k \in There(q) : events[k].start <= t /\ t < events[k].end) =>
                      (\E k \in There(q) : n \in events[k].lines) \/ LeftOut(q, n)
<1> DEFINE r == Resolved(q)
           placed == Placing(r)
           with == GoesWith(r, placed, [m \in Textual(r) |-> Told(r, placed, m)])
           events == Planned(q).events
           t == q.notes[n].at
<1>1. ~Malformed(q) /\ events = Noted(r, placed, with)
  BY PlannedIs
<1>2. r.notes = q.notes /\ r.ignored = q.ignored /\ r.decisions = q.decisions /\ \A k : DecisionOf(r, k) = DecisionOf(q, k)
  BY ResolvedIs
<1>3. \A k \in There(q) : /\ events[k].lines = placed[k].lines \cup LinesFor(r, with, k)
                          /\ events[k].start = placed[k].start /\ events[k].end = placed[k].end
  BY <1>1, NotedLines
<1>4. \A k \in There(q) : n \in placed[k].lines =>
          (k \in DOMAIN q.events /\ n \in q.events[k].lines) \/ \E d \in q.decisions : d.id = k /\ n \in d.description.lines
  BY <1>1, PlacedLines
<1>5. n \in Textual(r) =>
          /\ n \in DOMAIN with
          /\ \/ with[n] = Unset /\ ~\E j \in There(q) : placed[j].start <= t /\ t < placed[j].end
             \/ /\ with[n] \in There(q)
                /\ with[n] \in Meant(q, n) \/ (placed[with[n]].start <= t /\ t <= placed[with[n]].end)
  BY WhereItGoes
<1>6. n \in Textual(r) <=> q.notes[n].says /\ n \notin q.ignored
  BY <1>2 DEF Textual
<1>7. DOMAIN with = Textual(r)
  BY DEF GoesWith
<1>8. \A k : Meant(q, n) \subseteq About(q, n) /\ ((\E d \in q.decisions : d.id = k /\ n \in d.description.lines) => k \in About(q, n))
  BY DEF Meant, About
<1>9. There(q) \subseteq Nat \ {Unset}
  BY PlanIs DEF IsAgenda
<1> HIDE DEF r, placed, with, events
<1>10. \A k : n \in LinesFor(r, with, k) <=> n \in Textual(r) /\ with[n] = k /\ ~KeptOut(r, k, n)
  BY <1>7 DEF LinesFor
<1>11. ASSUME NEW k \in There(q), n \in events[k].lines
       PROVE  \/ k \in DOMAIN q.events /\ n \in q.events[k].lines
              \/ k \in About(q, n)
              \/ events[k].start <= t /\ t <= events[k].end
  <2>1. CASE n \in placed[k].lines
    BY <1>4, <1>8, <2>1
  <2>2. CASE n \in LinesFor(r, with, k)
    BY <1>3, <1>5, <1>8, <1>9, <1>10, <2>2
  <2> QED
    BY <1>3, <1>11, <2>1, <2>2
<1>12. ASSUME q.notes[n].says, NEW j \in There(q), events[j].start <= t, t < events[j].end, n \notin q.ignored
       PROVE  (\E k \in There(q) : n \in events[k].lines) \/ LeftOut(q, n)
  <2>1. n \in Textual(r) /\ with[n] \in There(q)
    BY <1>3, <1>5, <1>6, <1>12
  <2>2. CASE ~KeptOut(r, with[n], n)
    BY <1>3, <1>10, <2>1, <2>2
  <2>3. CASE KeptOut(r, with[n], n)
    <3> DEFINE d == DecisionOf(q, with[n])
    <3>1. d.description.given /\ (d.description.dropsAll \/ n \in d.description.drops)
      BY <1>2, <2>3 DEF KeptOut, Describes
    <3>2. d # Decision("keep", with[n])
      BY <3>1 DEF Decision, NoDescription
    <3>3. d \in q.decisions
      BY <3>2, DecisionIs
    <3> QED
      BY <3>1, <3>3 DEF LeftOut
  <2> QED
    BY <2>2, <2>3
<1>13. n \in q.ignored => LeftOut(q, n)
  BY DEF LeftOut
<1> QED
  BY <1>11, <1>12, <1>13 DEF events
----------------------------------------------------------------------------
(* The invariant *)

\* A day starts at a time there is.
LEMMA DayStartIsTime ==
    ASSUME NotesOK, \A n \in DOMAIN jotted : jotted[n].at \in Nat, last \in Nat \cup {NoTime}, NEW now \in Nat
    PROVE  DayStart(now) \in Nat
<1>1. CASE last # NoTime
  BY <1>1 DEF DayStart
<1>2. CASE last = NoTime /\ SpanNotes(now) = {}
  BY <1>2 DEF DayStart
<1>3. CASE last = NoTime /\ SpanNotes(now) # {}
  <2> DEFINE S == SpanNotes(now)
             f == [n \in S |-> jotted[n].at]
             T == {jotted[n].at : n \in S}
  <2>1. S \subseteq DOMAIN jotted
    BY DEF SpanNotes, Unstamped
  <2>2. IsFiniteSet(S)
    BY <2>1, FS_Subset DEF NotesOK
  <2>3. f \in Surjection(S, T)
    BY DEF Surjection
  <2>4. \A n \in S : jotted[n].at \in Nat
    BY <2>1
  <2>5. T # {} /\ T \subseteq Nat /\ T \subseteq Int
    <3> HIDE DEF S
    <3> QED
      BY <1>3, <2>4 DEF S
  <2>6. Min(T) \in T
    <3> HIDE DEF S, T, f
    <3> QED
      BY <2>2, <2>3, <2>5, FS_Surjection, LeastIsMin
  <2>7. DayStart(now) = (Min(T) \div DayLength) * DayLength
    BY <1>3 DEF DayStart
  <2> DEFINE least == Min(T)
  <2>8. least \in Nat
    BY <2>5, <2>6
  <2> HIDE DEF least
  <2>9. least \div DayLength \in Nat
    BY <2>8, RoundsAssumption
  <2>10. \A x, y \in Nat : x * y \in Nat
    OBVIOUS
  <2>11. (least \div DayLength) * DayLength \in Nat
    BY <2>9, <2>10, RoundsAssumption
  <2> QED
    BY <2>7, <2>11 DEF least
<1> QED
  BY <1>1, <1>2, <1>3

\* A revision made, if one can be, is of what was asked, and shown as planned.
IsShown(r) == \A k \in Changed(r) \cup DOMAIN r.shown : ShownAs(r.q, r.events, r.shown, k)
IsFit(r, ask) == r.at = "proposed" /\ r.ask = ask /\ r.q.now \in Nat /\ SpanOf(r) /\ IsShown(r)
LEMMA OfferIsShown ==
    ASSUME NEW r, NEW ask, IsOffer(r, ask)
    PROVE  IsShown(r)
<1>1. IsQuestion(r.q) /\ Planned(r.q).ok /\ r.events = Planned(r.q).events /\ r.shown = Planned(r.q).shown
  BY DEF IsOffer
<1>2. Changed(r) = Changed([q |-> r.q, events |-> Planned(r.q).events])
  BY <1>1 DEF Changed
<1>3. \A k \in Changed([q |-> r.q, events |-> Planned(r.q).events]) \cup DOMAIN Planned(r.q).shown :
          ShownAs(r.q, Planned(r.q).events, Planned(r.q).shown, k)
  BY <1>1, PlanIsShown
<1> QED
  BY <1>1, <1>2, <1>3 DEF IsShown

LEMMA OfferIsSpan ==
    ASSUME RoundsTypes, NEW now \in Nat, NEW ask, NEW r, IsRound(r, ask, now)
    PROVE  SpanOf(r)
<1>1. ~NothingToPlan(now) /\ r.q = Asked(ask, now) /\ r.q.now = MinOf(now, DayStart(now) + MaxSpan)
  BY OfferIs
<1>2. IsAgenda(agenda) /\ NotesOK /\ last \in Int /\ IsAsk(ask) /\ \A n \in DOMAIN jotted : jotted[n].at \in Nat
  BY DEF IsRound, CanPlan, RoundsTypes
<1>3. DayStart(now) \in Int
  BY <1>2, DayStartIs
<1>4. r.q.now <= DayStart(now) + MaxSpan
  BY <1>1, <1>3, RoundsAssumption DEF MinOf
<1>5. last # NoTime => DayStart(now) = last
  BY DEF DayStart
<1>6. ASSUME last = NoTime
      PROVE  \E x \in Nat : /\ r.q.now <= (x \div DayLength) * DayLength + MaxSpan
                            /\ \A n \in DOMAIN r.q.notes : n \in DOMAIN jotted /\ x <= jotted[n].at
  <2>1. SpanNotes(now) # {}
    BY <1>1, <1>6 DEF DayStart, NothingToPlan
  <2>2. PICK m \in SpanNotes(now) : /\ DayStart(now) = (jotted[m].at \div DayLength) * DayLength
                                    /\ \A n \in SpanNotes(now) : jotted[m].at <= jotted[n].at
    BY <1>2, <1>6, <2>1, FirstDayIs
  <2>3. DOMAIN r.q.notes = {n \in SpanNotes(now) : jotted[n].at <= r.q.now} \cup Historical(now)
    BY <1>1, <1>2, AskedNotes
  <2>4. Historical(now) = {}
    BY <1>6 DEF Historical, IsHistorical
  <2>5. \A n \in DOMAIN r.q.notes : n \in SpanNotes(now) /\ n \in DOMAIN jotted
    BY <2>3, <2>4 DEF SpanNotes, Unstamped
  <2>6. jotted[m].at \in Nat
    BY <1>2 DEF SpanNotes, Unstamped
  <2> QED
    BY <1>4, <2>2, <2>5, <2>6
<1> QED
  BY <1>4, <1>5, <1>6 DEF SpanOf
LEMMA RoundIsFit ==
    ASSUME RoundsInv, NEW ask, IsAsk(ask), CreatesOf(ask.decisions) \cap DOMAIN agenda = {}, NEW now \in Nat
    PROVE  LET r == RoundFor(ask, now)
           IN  r = NoRound \/ (IsFit(r, ask) /\ IsRound(r, ask, now))
<1> DEFINE r == RoundFor(ask, now)
<1>1. CanPlan(ask, now)
  BY DEF RoundsInv, RoundsTypes, CanPlan, NotesOK, NoTime
<1>2. r = NoRound \/ r.at = "proposed"
  <2>1. \A a, b, c, d, e, f : [at |-> "proposed", ask |-> a, q |-> b, events |-> c, uses |-> d, shown |-> e, from |-> f].at = "proposed"
    OBVIOUS
  <2> QED
    BY <2>1, RoundIs
<1> SUFFICES ASSUME r.at = "proposed" PROVE IsFit(r, ask) /\ IsRound(r, ask, now)
  BY <1>2
<1>3. IsRound(r, ask, now)
  BY <1>1 DEF IsRound
<1> HIDE DEF r
<1>4. IsOffer(r, ask) /\ ~NothingToPlan(now) /\ r.q.now = MinOf(now, DayStart(now) + MaxSpan)
  BY <1>3, OfferIs
<1>5. IsShown(r)
  BY <1>4, OfferIsShown
<1>6. DayStart(now) \in Nat
  BY <1>1, DayStartIsTime DEF CanPlan, RoundsInv, RoundsTypes
<1>7. r.q.now \in Nat
  BY <1>4, <1>6, RoundsAssumption DEF MinOf
<1>8. r.ask = ask
  BY <1>4 DEF IsOffer
<1>9. SpanOf(r)
  BY <1>3, OfferIsSpan DEF RoundsInv
<1> QED
  BY <1>3, <1>5, <1>7, <1>8, <1>9 DEF IsFit

\* A step that leaves all but the revision, planned again.
LEMMA NewRoundFits ==
    ASSUME RoundsInv, NEW ask, IsAsk(ask), CreatesOf(ask.decisions) \cap DOMAIN agenda = {}, NEW now \in Nat,
           round' = RoundFor(ask, now), UNCHANGED <<agenda, jotted, hour, last, settled>>
    PROVE  RoundsInv'
<1>1. round' = NoRound \/ IsFit(round', ask)
  BY RoundIsFit
<1>2. RoundsTypes' /\ SettledHolds'
  BY DEF RoundsInv, RoundsTypes, SettledHolds, IsAgenda, IsEvent
<1>3. RoundHolds'
  BY <1>1 DEF RoundHolds, NoRound, IsFit, SpanOf, IsAsk, CreatesOf
<1>4. ShownIsWritten'
  BY <1>1 DEF ShownIsWritten, NoRound, IsFit, IsShown, ShownAs, Changed
<1> QED
  BY <1>2, <1>3, <1>4 DEF RoundsInv

\* What a confirmation plans again, and that it's confirmed: it writes the same.
Again == RoundFor(round.ask, round.q.now)
Confirmable == round.at = "proposed" /\ Again.at # "none" /\ SameWrites(Again, round)
LEMMA ConfirmIs ==
    ASSUME ConfirmRound
    PROVE  /\ round.at = "proposed"
           /\ \/ round' = Again /\ UNCHANGED <<agenda, jotted, hour, last, settled, elsewhere, rounds>>
              \/ Confirmable /\ StampAll
              \/ Confirmable /\ \E gone \in Changed(round) : \E written \in SUBSET (Changed(round) \ {gone}) : ApplyFails(gone, written)
<1>1. round.at = "proposed"
  BY DEF ConfirmRound
<1>2. PICK r \in {Again} :
        IF r.at = "none" \/ ~SameWrites(r, round)
        THEN round' = r /\ UNCHANGED <<agenda, jotted, hour, last, settled, elsewhere, rounds>>
        ELSE \/ StampAll
             \/ \E gone \in Changed(round) : \E written \in SUBSET (Changed(round) \ {gone}) : ApplyFails(gone, written)
  BY DEF ConfirmRound, Again
<1>3. r = Again
  OBVIOUS
<1> QED
  BY <1>1, <1>2, <1>3 DEF Confirmable

\* What's confirmed is a revision of the calendar as it is, and leaves it so.
LEMMA ConfirmedIs ==
    ASSUME RoundsInv, Confirmable
    PROVE  /\ IsRound(Again, round.ask, round.q.now) /\ IsOffer(Again, round.ask)
           /\ Changed(Again) = Changed(round) /\ DOMAIN Again.q.notes = DOMAIN round.q.notes
           /\ \A W \in SUBSET Changed(round) : With(round, W) = With(Again, W) /\ IsAgenda(With(round, W))
                                               /\ DOMAIN With(round, W) \subseteq DOMAIN agenda \cup W
<1>1. IsAsk(round.ask) /\ CreatesOf(round.ask.decisions) \cap DOMAIN agenda = {} /\ round.q.now \in Nat
  BY DEF RoundsInv, RoundHolds, Confirmable
<1>2. Again = NoRound \/ IsRound(Again, round.ask, round.q.now)
  BY <1>1, RoundIsFit DEF Again
<1>3. IsRound(Again, round.ask, round.q.now)
  BY <1>2 DEF Confirmable, NoRound
<1>4. IsOffer(Again, round.ask)
  BY <1>3, OfferIs
<1>5. /\ DOMAIN Again.q.notes = DOMAIN round.q.notes /\ Changed(Again) = Changed(round)
      /\ \A W \in SUBSET Changed(Again) : With(round, W) = With(Again, W)
  BY SameAre DEF Confirmable
<1>6. IsAgenda(agenda)
  BY DEF RoundsInv, RoundsTypes
<1>7. \A W \in SUBSET Changed(Again) : IsAgenda(With(Again, W)) /\ DOMAIN With(Again, W) \subseteq DOMAIN agenda \cup W
  BY <1>4, <1>6, WithIs
<1> QED
  BY <1>3, <1>4, <1>5, <1>7

\* A calendar without one of its events is one.
LEMMA WithoutIs ==
    ASSUME NEW a, IsAgenda(a), NEW gone
    PROVE  IsAgenda([k \in DOMAIN a \ {gone} |-> a[k]])
<1> DEFINE b == [k \in DOMAIN a \ {gone} |-> a[k]]
<1>1. DOMAIN b = DOMAIN a \ {gone} /\ b = [k \in DOMAIN b |-> b[k]] /\ \A k \in DOMAIN b : b[k] = a[k]
  OBVIOUS
<1> HIDE DEF b
<1>2. IsFiniteSet(DOMAIN b)
  <2>1. DOMAIN b \subseteq DOMAIN a
    BY <1>1
  <2> QED
    BY <2>1, FS_Subset DEF IsAgenda
<1> QED
  BY <1>1, <1>2 DEF IsAgenda, b

LEMMA StampAllKeeps ==
    ASSUME RoundsInv, Confirmable, StampAll
    PROVE  RoundsInv'
<1>1. agenda' = With(round, Changed(round)) /\ IsAgenda(agenda')
  BY ConfirmedIs DEF StampAll
<1>2. round.q.now \in Nat
  BY DEF RoundsInv, RoundHolds, Confirmable
<1>3. RoundsTypes'
  <2>1. hour' = hour /\ last' = round.q.now
    BY DEF StampAll
  <2>2. jotted' = [n \in DOMAIN jotted |-> [jotted[n] EXCEPT !.stamped = @ \/ n \in DOMAIN round.q.notes]]
    BY DEF StampAll
  <2>3. DOMAIN jotted' = DOMAIN jotted
    BY <2>2
  <2>4. \A n \in DOMAIN jotted :
            /\ jotted'[n] = [at |-> jotted'[n].at, says |-> jotted'[n].says, stamped |-> jotted'[n].stamped]
            /\ jotted'[n].at \in Nat
    <3> SUFFICES ASSUME NEW n \in DOMAIN jotted
                 PROVE  /\ jotted'[n] = [at |-> jotted'[n].at, says |-> jotted'[n].says, stamped |-> jotted'[n].stamped]
                        /\ jotted'[n].at \in Nat
      OBVIOUS
    <3> DEFINE s == jotted[n].stamped \/ n \in DOMAIN round.q.notes
    <3>1. jotted'[n] = [jotted[n] EXCEPT !.stamped = s]
      BY <2>2
    <3>2. jotted[n] = [at |-> jotted[n].at, says |-> jotted[n].says, stamped |-> jotted[n].stamped] /\ jotted[n].at \in Nat
      BY DEF RoundsInv, RoundsTypes
    <3> HIDE DEF s
    <3>3. [jotted[n] EXCEPT !.stamped = s] = [at |-> jotted[n].at, says |-> jotted[n].says, stamped |-> s]
      BY <3>2
    <3>4. jotted'[n] = [at |-> jotted[n].at, says |-> jotted[n].says, stamped |-> s]
      BY <3>1, <3>3
    <3> QED
      BY <3>2, <3>4
  <2>5. settled' = [k \in DOMAIN settled' |-> settled'[k]]
    BY DEF StampAll
  <2>6. IsFiniteSet(DOMAIN jotted) /\ DOMAIN jotted = 1 .. Cardinality(DOMAIN jotted) /\ hour \in Nat
    BY DEF RoundsInv, RoundsTypes
  <2> QED
    BY <1>1, <1>2, <2>1, <2>3, <2>4, <2>5, <2>6 DEF RoundsTypes
<1>4. SettledHolds'
  <2> SUFFICES ASSUME NEW k \in DOMAIN settled'
               PROVE  /\ last' # NoTime /\ k \in DOMAIN agenda'
                      /\ settled'[k] = [start |-> settled'[k].start, until |-> settled'[k].until]
                      /\ settled'[k].start \in Int /\ settled'[k].until \in Int
                      /\ settled'[k].start < last' /\ settled'[k].until <= last'
                      /\ agenda'[k].start = settled'[k].start /\ agenda'[k].end >= settled'[k].until
    BY DEF SettledHolds
  <2>1. last' = round.q.now
    BY DEF StampAll
  <2>2. /\ k \in DOMAIN agenda' /\ agenda'[k].start < round.q.now
        /\ settled'[k] = [start |-> agenda'[k].start, until |-> MinOf(agenda'[k].end, round.q.now)]
    BY DEF StampAll
  <2>3. agenda'[k].start \in Int /\ agenda'[k].end \in Int
    BY <1>1, <2>2 DEF IsAgenda, IsEvent
  <2>4. settled'[k].start = agenda'[k].start /\ settled'[k].until = MinOf(agenda'[k].end, round.q.now)
    BY <2>2
  <2>5. settled'[k].until \in Int /\ settled'[k].until <= round.q.now /\ settled'[k].until <= agenda'[k].end
    BY <1>2, <2>3, <2>4 DEF MinOf
  <2> QED
    BY <1>2, <2>1, <2>2, <2>3, <2>4, <2>5 DEF NoTime
<1>5. RoundHolds' /\ ShownIsWritten'
  BY DEF StampAll, NoRound, RoundHolds, ShownIsWritten
<1> QED
  BY <1>3, <1>4, <1>5 DEF RoundsInv

\* Of what a failed write leaves, history is as it was recorded.
LEMMA FailedKeeps ==
    ASSUME RoundsInv, Confirmable, NEW gone \in Changed(round), NEW written \in SUBSET (Changed(round) \ {gone}),
           ApplyFails(gone, written), NEW k \in DOMAIN settled, k # gone, k \notin Freed(round.ask.decisions)
    PROVE  k \in DOMAIN agenda' /\ agenda'[k].start = settled[k].start /\ agenda'[k].end >= settled[k].until
<1>1. IsAgenda(agenda) /\ SettledHolds
  BY DEF RoundsInv, RoundsTypes
<1>2. IsOffer(Again, round.ask) /\ written \in SUBSET Changed(Again) /\ With(round, written) = With(Again, written)
  <2>1. written \in SUBSET Changed(round)
    OBVIOUS
  <2> QED
    BY <2>1, ConfirmedIs
<1>3. /\ k \in DOMAIN With(Again, written)
      /\ With(Again, written)[k].start = settled[k].start /\ With(Again, written)[k].end >= settled[k].until
  BY <1>1, <1>2, WritesKeepHistory
<1>4. agenda' = [j \in DOMAIN With(Again, written) \ {gone} |-> With(Again, written)[j]]
  BY <1>2 DEF ApplyFails
<1> QED
  BY <1>3, <1>4

LEMMA ApplyFailsKeeps ==
    ASSUME RoundsInv, Confirmable, NEW gone \in Changed(round), NEW written \in SUBSET (Changed(round) \ {gone}),
           ApplyFails(gone, written)
    PROVE  RoundsInv'
<1> DEFINE a == With(round, written)
<1>1. IsAgenda(a) /\ DOMAIN a \subseteq DOMAIN agenda \cup written
  <2>1. written \in SUBSET Changed(round)
    OBVIOUS
  <2> QED
    BY <2>1, ConfirmedIs
<1>2. agenda' = [k \in DOMAIN a \ {gone} |-> a[k]]
  BY DEF ApplyFails
<1>3. jotted' = jotted /\ hour' = hour /\ last' = last
  BY DEF ApplyFails
<1> HIDE DEF a
<1>4. IsAgenda(agenda') /\ DOMAIN agenda' = DOMAIN a \ {gone}
  BY <1>1, <1>2, WithoutIs
<1>5. RoundsTypes'
  <2>1. settled' = [k \in DOMAIN settled' |-> settled'[k]]
    BY DEF ApplyFails
  <2> QED
    BY <1>3, <1>4, <2>1 DEF RoundsInv, RoundsTypes
<1>6. SettledHolds'
  <2> SUFFICES ASSUME NEW k \in DOMAIN settled'
               PROVE  /\ last' # NoTime /\ k \in DOMAIN agenda'
                      /\ settled'[k] = [start |-> settled'[k].start, until |-> settled'[k].until]
                      /\ settled'[k].start \in Int /\ settled'[k].until \in Int
                      /\ settled'[k].start < last' /\ settled'[k].until <= last'
                      /\ agenda'[k].start = settled'[k].start /\ agenda'[k].end >= settled'[k].until
    BY DEF SettledHolds
  <2>1. k \in DOMAIN settled /\ k # gone /\ k \notin Freed(round.ask.decisions) /\ settled'[k] = settled[k]
    BY DEF ApplyFails
  <2>2. k \in DOMAIN agenda' /\ agenda'[k].start = settled[k].start /\ agenda'[k].end >= settled[k].until
    BY <2>1, FailedKeeps
  <2> QED
    BY <1>3, <2>1, <2>2 DEF RoundsInv, SettledHolds
<1>7. RoundHolds'
  <2> DEFINE carried == CarriedOver(round, written, gone)
             left == Rebuilt(round, written, gone)
  <2>1. round'.at = "failed" /\ round'.ask = left /\ round'.through = round.q.now
    BY DEF ApplyFails
  <2>2. round.q.now \in Nat /\ IsAsk(round.ask) /\ CreatesOf(round.ask.decisions) \cap DOMAIN agenda = {}
    BY DEF RoundsInv, RoundHolds, Confirmable
  <2>3. carried \subseteq round.ask.decisions /\ \A d \in carried : d.do = "create" => d.id \notin written
    BY DEF CarriedOver
  <2>4. left = [round.ask EXCEPT !.decisions = carried]
    BY DEF Rebuilt
  <2> HIDE DEF carried, left
  <2>5. left = [decisions |-> carried, ignored |-> round.ask.ignored, targets |-> round.ask.targets]
    BY <2>2, <2>4 DEF IsAsk
  <2>6. IsFiniteSet(carried)
    BY <2>2, <2>3, FS_Subset DEF IsAsk
  <2>7. IsAsk(left)
    BY <2>2, <2>3, <2>5, <2>6 DEF IsAsk
  <2>8. CreatesOf(carried) \cap DOMAIN agenda' = {}
    BY <1>1, <1>4, <2>2, <2>3 DEF CreatesOf
  <2>9. left.decisions = carried
    BY <2>5
  <2> QED
    BY <2>1, <2>2, <2>7, <2>8, <2>9 DEF RoundHolds
<1>8. ShownIsWritten'
  BY DEF ApplyFails, ShownIsWritten
<1> QED
  BY <1>5, <1>6, <1>7, <1>8 DEF RoundsInv

LEMMA ConfirmRoundKeeps ==
    ASSUME RoundsInv, ConfirmRound
    PROVE  RoundsInv'
<1>1. CASE round' = Again /\ UNCHANGED <<agenda, jotted, hour, last, settled, elsewhere, rounds>>
  <2>1. IsAsk(round.ask) /\ CreatesOf(round.ask.decisions) \cap DOMAIN agenda = {} /\ round.q.now \in Nat
    BY ConfirmIs DEF RoundsInv, RoundHolds
  <2> QED
    BY <1>1, <2>1, NewRoundFits DEF Again
<1>2. CASE Confirmable /\ StampAll
  BY <1>2, StampAllKeeps
<1>3. CASE Confirmable /\ \E gone \in Changed(round) : \E written \in SUBSET (Changed(round) \ {gone}) : ApplyFails(gone, written)
  BY <1>3, ApplyFailsKeeps
<1> QED
  BY <1>1, <1>2, <1>3, ConfirmIs

LEMMA ProposeRoundKeeps ==
    ASSUME RoundsInv, NEW ask \in Asks, ProposeRound(ask)
    PROVE  RoundsInv'
<1>1. IsAsk(ask) /\ hour \in Nat
  BY AsksAssumption DEF RoundsInv, RoundsTypes
<1>2. CreatesOf(ask.decisions) \cap DOMAIN agenda = {}
  BY DEF ProposeRound, CreatesOf
<1>3. round' = RoundFor(ask, hour) /\ UNCHANGED <<agenda, jotted, hour, last, settled>>
  BY DEF ProposeRound
<1> QED
  BY <1>1, <1>2, <1>3, NewRoundFits

LEMMA RebuildRoundKeeps ==
    ASSUME RoundsInv, RebuildRound
    PROVE  RoundsInv'
<1>1. IsAsk(round.ask) /\ CreatesOf(round.ask.decisions) \cap DOMAIN agenda = {} /\ round.through \in Nat
  BY DEF RoundsInv, RoundHolds, RebuildRound
<1>2. round' = RoundFor(round.ask, round.through) /\ UNCHANGED <<agenda, jotted, hour, last, settled>>
  BY DEF RebuildRound
<1> QED
  BY <1>1, <1>2, NewRoundFits

LEMMA JotKeeps ==
    ASSUME RoundsInv, NEW t \in NoteTimes, NEW says \in NoteSays, Jot(t, says)
    PROVE  RoundsInv'
<1> DEFINE new == Cardinality(DOMAIN jotted) + 1
           note == [at |-> t, says |-> says, stamped |-> FALSE]
<1>1. jotted' = [n \in DOMAIN jotted \cup {new} |-> IF n = new THEN note ELSE jotted[n]]
  BY DEF Jot
<1>2. UNCHANGED <<agenda, hour, last, round, settled>>
  BY DEF Jot
<1>a. DOMAIN jotted = 1 .. Cardinality(DOMAIN jotted) /\ Cardinality(DOMAIN jotted) \in Nat
  BY FS_CardinalityType DEF RoundsInv, RoundsTypes
<1>b. 1 .. new = DOMAIN jotted \cup {new} /\ new \notin DOMAIN jotted /\ new \in Nat
  BY <1>a
<1>c. Cardinality(1 .. new) = new
  BY <1>b, FS_Interval
<1> HIDE DEF new
<1>3. DOMAIN jotted' = DOMAIN jotted \cup {new}
  BY <1>1
<1>4. IsFiniteSet(DOMAIN jotted')
  <2>1. IsFiniteSet(DOMAIN jotted) /\ IsFiniteSet({new})
    BY FS_Singleton DEF RoundsInv, RoundsTypes
  <2> QED
    BY <1>3, <2>1, FS_Union
<1>5. \A n \in DOMAIN jotted' :
          /\ jotted'[n] = [at |-> jotted'[n].at, says |-> jotted'[n].says, stamped |-> jotted'[n].stamped]
          /\ jotted'[n].at \in Nat
  <2> SUFFICES ASSUME NEW n \in DOMAIN jotted'
               PROVE  /\ jotted'[n] = [at |-> jotted'[n].at, says |-> jotted'[n].says, stamped |-> jotted'[n].stamped]
                      /\ jotted'[n].at \in Nat
    OBVIOUS
  <2>1. CASE n = new
    <3>1. jotted'[n] = note
      BY <1>1, <1>3, <2>1
    <3> QED
      BY <3>1, NotesAssumption
  <2>2. CASE n # new
    <3>1. jotted'[n] = jotted[n] /\ n \in DOMAIN jotted
      BY <1>1, <1>3, <2>2
    <3> QED
      BY <3>1 DEF RoundsInv, RoundsTypes
  <2> QED
    BY <2>1, <2>2
<1>d. DOMAIN jotted' = 1 .. Cardinality(DOMAIN jotted')
  BY <1>3, <1>b, <1>c
<1>e. \A n \in DOMAIN jotted : jotted'[n] = jotted[n]
  BY <1>1, <1>b
<1>6. RoundsTypes'
  BY <1>2, <1>4, <1>5, <1>d DEF RoundsInv, RoundsTypes, IsAgenda, IsEvent
<1>7. SettledHolds'
  BY <1>2 DEF RoundsInv, SettledHolds
<1>8. RoundHolds'
  <2>1. SpanOf(round) => SpanOf(round)'
    BY <1>2, <1>3, <1>e DEF SpanOf
  <2> QED
    BY <1>2, <2>1 DEF RoundsInv, RoundHolds, IsAsk, CreatesOf
<1>9. ShownIsWritten'
  BY <1>2 DEF RoundsInv, ShownIsWritten, Changed
<1> QED
  BY <1>6, <1>7, <1>8, <1>9 DEF RoundsInv

\* A calendar with an event moved is one.
LEMMA MovedIs ==
    ASSUME NEW a, IsAgenda(a), NEW k \in DOMAIN a, NEW s \in Int, NEW e \in Int, s < e
    PROVE  LET b == [a EXCEPT ![k].start = s, ![k].end = e]
           IN  /\ IsAgenda(b) /\ DOMAIN b = DOMAIN a
               /\ \A j \in DOMAIN a \ {k} : b[j] = a[j]
<1> DEFINE b == [a EXCEPT ![k].start = s, ![k].end = e]
           begun == [a[k] EXCEPT !.start = s]
           moved == [begun EXCEPT !.end = e]
<1>1. DOMAIN b = DOMAIN a /\ b[k] = moved /\ b = [j \in DOMAIN b |-> b[j]] /\ \A j \in DOMAIN a \ {k} : b[j] = a[j]
  OBVIOUS
<1>2. IsEvent(a[k])
  BY DEF IsAgenda
<1>3. IsEvent(begun) /\ begun.start = s /\ begun.end = a[k].end
  BY <1>2, TimeSet
<1> HIDE DEF b, begun
<1>4. IsEvent(moved) /\ moved.start = s /\ moved.end = e
  BY <1>3, TimeSet
<1> HIDE DEF moved
<1>5. IsAgenda(b)
  BY <1>1, <1>4 DEF IsAgenda
<1> QED
  BY <1>1, <1>5 DEF b

LEMMA MovedElsewhereKeeps ==
    ASSUME RoundsInv, NEW k \in DOMAIN agenda, NEW move \in {-1, 1},
           MovedElsewhere(k, agenda[k].start + move, agenda[k].end + move)
    PROVE  RoundsInv'
<1>1. IsAgenda(agenda) /\ agenda[k].start \in Int /\ agenda[k].end \in Int /\ agenda[k].start < agenda[k].end
  BY DEF RoundsInv, RoundsTypes, IsAgenda, IsEvent
<1> DEFINE s == agenda[k].start + move
           e == agenda[k].end + move
<1>2. s \in Int /\ e \in Int /\ s < e
  BY <1>1
<1>3. agenda' = [agenda EXCEPT ![k].start = s, ![k].end = e] /\ UNCHANGED <<jotted, hour, last, round, rounds>>
      /\ settled' = [j \in DOMAIN settled \ {k} |-> settled[j]]
  BY DEF MovedElsewhere
<1> HIDE DEF s, e
<1>4. IsAgenda(agenda') /\ DOMAIN agenda' = DOMAIN agenda /\ \A j \in DOMAIN agenda \ {k} : agenda'[j] = agenda[j]
  BY <1>1, <1>2, <1>3, MovedIs
<1>5. RoundsTypes'
  <2>1. settled' = [j \in DOMAIN settled' |-> settled'[j]]
    BY <1>3
  <2> QED
    BY <1>3, <1>4, <2>1 DEF RoundsInv, RoundsTypes
<1>6. SettledHolds'
  <2>1. \A j \in DOMAIN settled' : j \in DOMAIN settled /\ j # k /\ settled'[j] = settled[j]
    BY <1>3
  <2> QED
    BY <1>3, <1>4, <2>1 DEF RoundsInv, SettledHolds
<1>7. RoundHolds'
  BY <1>3, <1>4 DEF RoundsInv, RoundHolds, SpanOf, IsAsk, CreatesOf
<1>8. ShownIsWritten'
  BY <1>3 DEF RoundsInv, ShownIsWritten, Changed
<1> QED
  BY <1>5, <1>6, <1>7, <1>8 DEF RoundsInv

LEMMA RoundsInitially == ASSUME RoundsInit PROVE RoundsInv
<1>1. IsAgenda(agenda)
  BY AgendasAssumption DEF RoundsInit
<1>2. DOMAIN jotted = {} /\ settled = [k \in DOMAIN settled |-> settled[k]] /\ DOMAIN settled = {}
  BY DEF RoundsInit
<1>3. IsFiniteSet(DOMAIN jotted) /\ DOMAIN jotted = 1 .. Cardinality(DOMAIN jotted)
  <2>1. IsFiniteSet({}) /\ Cardinality({}) = 0 /\ 1 .. 0 = {}
    BY FS_EmptySet
  <2> QED
    BY <1>2, <2>1
<1>4. RoundsTypes
  BY <1>1, <1>2, <1>3 DEF RoundsInit, RoundsTypes
<1>5. SettledHolds
  BY <1>2 DEF SettledHolds
<1>6. RoundHolds /\ ShownIsWritten
  BY DEF RoundsInit, RoundHolds, ShownIsWritten, NoRound
<1> QED
  BY <1>4, <1>5, <1>6 DEF RoundsInv

LEMMA RoundsStep ==
    ASSUME RoundsInv, [RoundsNext]_roundVars
    PROVE  RoundsInv'
<1>1. CASE \E ask \in Asks : ProposeRound(ask)
  BY <1>1, ProposeRoundKeeps
<1>2. CASE AbandonRound
  <2>1. round' = NoRound /\ UNCHANGED <<agenda, jotted, hour, last, settled>>
    BY <1>2 DEF AbandonRound
  <2>2. RoundsTypes' /\ SettledHolds'
    BY <2>1 DEF RoundsInv, RoundsTypes, SettledHolds, IsAgenda, IsEvent
  <2>3. RoundHolds' /\ ShownIsWritten'
    BY <2>1 DEF NoRound, RoundHolds, ShownIsWritten
  <2> QED
    BY <2>2, <2>3 DEF RoundsInv
<1>3. CASE ConfirmRound
  BY <1>3, ConfirmRoundKeeps
<1>4. CASE RebuildRound
  BY <1>4, RebuildRoundKeeps
<1>5. CASE \E t \in NoteTimes, says \in NoteSays : Jot(t, says)
  BY <1>5, JotKeeps
<1>6. CASE TimePasses
  <2>1. hour' = hour + 1 /\ UNCHANGED <<agenda, jotted, last, settled, round>>
    BY <1>6 DEF TimePasses
  <2>2. RoundsTypes' /\ SettledHolds'
    BY <2>1 DEF RoundsInv, RoundsTypes, SettledHolds, IsAgenda, IsEvent
  <2>3. RoundHolds'
    BY <2>1 DEF RoundsInv, RoundHolds, SpanOf, IsAsk, CreatesOf
  <2>4. ShownIsWritten'
    BY <2>1 DEF RoundsInv, ShownIsWritten, Changed
  <2> QED
    BY <2>2, <2>3, <2>4 DEF RoundsInv
<1>7. CASE \E k \in DOMAIN agenda : \E move \in {-1, 1} : MovedElsewhere(k, agenda[k].start + move, agenda[k].end + move)
  BY <1>7, MovedElsewhereKeeps
<1>8. CASE UNCHANGED roundVars
  <2>1. UNCHANGED <<agenda, jotted, hour, last, round, settled>>
    BY <1>8 DEF roundVars
  <2>2. RoundsTypes' /\ SettledHolds'
    BY <2>1 DEF RoundsInv, RoundsTypes, SettledHolds, IsAgenda, IsEvent
  <2>3. RoundHolds'
    BY <2>1 DEF RoundsInv, RoundHolds, SpanOf, IsAsk, CreatesOf
  <2>4. ShownIsWritten'
    BY <2>1 DEF RoundsInv, ShownIsWritten, Changed
  <2> QED
    BY <2>2, <2>3, <2>4 DEF RoundsInv
<1> QED
  BY <1>1, <1>2, <1>3, <1>4, <1>5, <1>6, <1>7, <1>8 DEF RoundsNext

----------------------------------------------------------------------------
(* The theorems *)

\* What's recorded of history holds still, a proposal is of what isn't there
\* yet, and shown as it's planned, whatever compactions are made, confirmed,
\* fail and are planned again, and whatever's noted and moved meanwhile.
THEOREM RoundsInvariant == RoundsSpec => []RoundsInv
<1>1. RoundsInit => RoundsInv
  BY RoundsInitially
<1>2. RoundsInv /\ [RoundsNext]_roundVars => RoundsInv'
  BY RoundsStep
<1> QED
  BY <1>1, <1>2, PTL DEF RoundsSpec

\* What the user reviews is what's written.
THEOREM ShownIsSo == RoundsSpec => []ShownIsWritten
<1>1. RoundsInv => ShownIsWritten
  BY DEF RoundsInv
<1> QED
  BY <1>1, RoundsInvariant, PTL

\* Of a step, what there was of history stays.
StaysSettled ==
    \A k \in DOMAIN settled :
        rounds' # rounds \/ (round.at = "proposed" /\ round'.at = "failed" /\ k # round'.gone) =>
            \/ k \in Freed(round.ask.decisions)
            \/ /\ k \in DOMAIN agenda'
               /\ agenda'[k].start = settled[k].start /\ agenda'[k].end >= settled[k].until
LEMMA HistoryStep ==
    ASSUME RoundsInv, [RoundsNext]_roundVars
    PROVE  StaysSettled
<1> USE DEF StaysSettled
<1>1. CASE \E ask \in Asks : ProposeRound(ask)
  BY <1>1 DEF ProposeRound
<1>2. CASE AbandonRound
  BY <1>2 DEF AbandonRound, NoRound
<1>3. CASE ConfirmRound
  <2>1. CASE round' = Again /\ UNCHANGED <<agenda, jotted, hour, last, settled, elsewhere, rounds>>
    <3>1. IsAsk(round.ask) /\ CreatesOf(round.ask.decisions) \cap DOMAIN agenda = {} /\ round.q.now \in Nat
      BY <1>3, ConfirmIs DEF RoundsInv, RoundHolds
    <3>2. Again = NoRound \/ Again.at = "proposed"
      BY <3>1, RoundIsFit DEF Again, IsFit
    <3> QED
      BY <2>1, <3>2 DEF NoRound
  <2>2. CASE Confirmable /\ StampAll
    <3> SUFFICES ASSUME NEW k \in DOMAIN settled, k \notin Freed(round.ask.decisions)
                 PROVE  k \in DOMAIN agenda' /\ agenda'[k].start = settled[k].start /\ agenda'[k].end >= settled[k].until
      OBVIOUS
    <3>1. IsAgenda(agenda) /\ SettledHolds
      BY DEF RoundsInv, RoundsTypes
    <3>2. IsOffer(Again, round.ask) /\ agenda' = With(Again, Changed(Again))
      BY <2>2, ConfirmedIs DEF StampAll
    <3> QED
      BY <3>1, <3>2, WritesKeepHistory
  <2>3. CASE Confirmable /\ \E gone \in Changed(round) : \E written \in SUBSET (Changed(round) \ {gone}) : ApplyFails(gone, written)
    <3> SUFFICES ASSUME NEW gone \in Changed(round), NEW written \in SUBSET (Changed(round) \ {gone}), ApplyFails(gone, written)
                 PROVE  StaysSettled
      BY <2>3
    <3>1. rounds' = rounds /\ round'.gone = gone
      BY DEF ApplyFails
    <3>2. \A k \in DOMAIN settled : k # gone /\ k \notin Freed(round.ask.decisions) =>
              k \in DOMAIN agenda' /\ agenda'[k].start = settled[k].start /\ agenda'[k].end >= settled[k].until
      BY <2>3, FailedKeeps
    <3> QED
      BY <3>1, <3>2
  <2> QED
    BY <1>3, <2>1, <2>2, <2>3, ConfirmIs
<1>4. CASE RebuildRound
  BY <1>4 DEF RebuildRound
<1>5. CASE \E t \in NoteTimes, says \in NoteSays : Jot(t, says)
  BY <1>5 DEF Jot
<1>6. CASE TimePasses
  BY <1>6 DEF TimePasses
<1>7. CASE \E k \in DOMAIN agenda : \E move \in {-1, 1} : MovedElsewhere(k, agenda[k].start + move, agenda[k].end + move)
  BY <1>7 DEF MovedElsewhere
<1>8. CASE UNCHANGED roundVars
  BY <1>8 DEF roundVars
<1> QED
  BY <1>1, <1>2, <1>3, <1>4, <1>5, <1>6, <1>7, <1>8 DEF RoundsNext

\* A later compaction, and what's written of one that fails, keeps to what an
\* earlier one settled.
THEOREM HistoryIsKept == RoundsSpec => HistoryStays
<1>1. RoundsInv /\ [RoundsNext]_roundVars =>
          [\A k \in DOMAIN settled :
              rounds' # rounds \/ (round.at = "proposed" /\ round'.at = "failed" /\ k # round'.gone) =>
                  \/ k \in Freed(round.ask.decisions)
                  \/ /\ k \in DOMAIN agenda'
                     /\ agenda'[k].start = settled[k].start /\ agenda'[k].end >= settled[k].until]_roundVars
  BY HistoryStep DEF StaysSettled
<1> QED
  BY <1>1, RoundsInvariant, PTL DEF RoundsSpec, HistoryStays

\* Of a step, what it leaves over another was over it, or merged of what was.
CoversNothing ==
    rounds' # rounds => \A j, k \in DOMAIN agenda' :
        j # k /\ Overlaps(agenda'[j], agenda'[k]) =>
            \E was \in (Became(j) \X Became(k)) :
                {was[1], was[2]} \subseteq DOMAIN agenda /\ Overlaps(agenda[was[1]], agenda[was[2]])
LEMMA StampAllCoversNothing ==
    ASSUME RoundsInv, Confirmable, StampAll
    PROVE  CoversNothing
<1> SUFFICES ASSUME NEW j \in DOMAIN agenda', NEW k \in DOMAIN agenda', j # k, Overlaps(agenda'[j], agenda'[k])
             PROVE  \E was \in (Became(j) \X Became(k)) :
                        {was[1], was[2]} \subseteq DOMAIN agenda /\ Overlaps(agenda[was[1]], agenda[was[2]])
  BY DEF CoversNothing
<1>1. IsRound(Again, round.ask, round.q.now) /\ IsOffer(Again, round.ask) /\ agenda' = With(Again, Changed(Again))
  BY ConfirmedIs DEF StampAll
<1>2. PICK i \in {j} \cup MergedInto(Again.q, j), m \in {k} \cup MergedInto(Again.q, k) :
          {i, m} \subseteq DOMAIN agenda /\ Overlaps(agenda[i], agenda[m])
  BY <1>1, CoversNone
<1>3. Again.q.decisions = round.ask.decisions
  BY <1>1 DEF IsOffer
<1>4. Became(j) = {j} \cup MergedInto(Again.q, j) /\ Became(k) = {k} \cup MergedInto(Again.q, k)
  BY <1>3 DEF Became, MergedInto, Doing
<1>5. <<i, m>> \in Became(j) \X Became(k)
  BY <1>2, <1>4
<1> QED
  BY <1>2, <1>5
\* Only a revision confirmed is stamped.
LEMMA StampsOnly ==
    ASSUME [RoundsNext]_roundVars
    PROVE  rounds' = rounds \/ (Confirmable /\ StampAll)
<1>1. ConfirmRound => rounds' = rounds \/ (Confirmable /\ StampAll)
  BY ConfirmIs DEF ApplyFails
<1>2. (\E ask \in Asks : ProposeRound(ask)) \/ AbandonRound \/ RebuildRound \/ TimePasses => rounds' = rounds
  BY DEF ProposeRound, AbandonRound, RebuildRound, TimePasses
<1>3. (\E t \in NoteTimes, says \in NoteSays : Jot(t, says)) => rounds' = rounds
  BY DEF Jot
<1>4. (\E k \in DOMAIN agenda : \E move \in {-1, 1} : MovedElsewhere(k, agenda[k].start + move, agenda[k].end + move)) =>
          rounds' = rounds
  BY DEF MovedElsewhere
<1>5. UNCHANGED roundVars => rounds' = rounds
  BY DEF roundVars
<1> QED
  BY <1>1, <1>2, <1>3, <1>4, <1>5 DEF RoundsNext

LEMMA CoversStep ==
    ASSUME RoundsInv, [RoundsNext]_roundVars
    PROVE  CoversNothing
<1>1. rounds' = rounds => CoversNothing
  BY DEF CoversNothing
<1>2. Confirmable /\ StampAll => CoversNothing
  BY StampAllCoversNothing
<1> QED
  BY <1>1, <1>2, StampsOnly

\* No compaction puts one event over another.
THEOREM NothingIsCovered == RoundsSpec => NothingCovered
<1>1. RoundsInv /\ [RoundsNext]_roundVars =>
          [rounds' # rounds => \A j, k \in DOMAIN agenda' :
              j # k /\ Overlaps(agenda'[j], agenda'[k]) =>
                  \E was \in (Became(j) \X Became(k)) :
                      {was[1], was[2]} \subseteq DOMAIN agenda /\ Overlaps(agenda[was[1]], agenda[was[2]])]_roundVars
  BY CoversStep DEF CoversNothing
<1> QED
  BY <1>1, RoundsInvariant, PTL DEF RoundsSpec, NothingCovered

\* Confirmed, a revision has all the notes there are that aren't stamped, up
\* to when it is.
LEMMA AllTaken ==
    ASSUME RoundsInv, Confirmable, NEW n \in DOMAIN jotted, jotted[n].at <= round.q.now, ~jotted[n].stamped
    PROVE  n \in DOMAIN round.q.notes /\ n \in DOMAIN Again.q.notes
<1> DEFINE t == round.q.now
           until == Again.q.now
<1>1. t \in Nat /\ SpanOf(round)
  BY DEF RoundsInv, RoundHolds, Confirmable
<1>2. IsRound(Again, round.ask, t) /\ DOMAIN Again.q.notes = DOMAIN round.q.notes
  BY ConfirmedIs
<1>3. ~NothingToPlan(t) /\ Again.q = Asked(round.ask, t) /\ until = MinOf(t, DayStart(t) + MaxSpan)
  BY <1>2, OfferIs
<1>4. IsAgenda(agenda) /\ NotesOK /\ last \in Nat \cup {NoTime} /\ IsAsk(round.ask) /\ \A m \in DOMAIN jotted : jotted[m].at \in Nat
  BY <1>2 DEF IsRound, CanPlan, RoundsInv, RoundsTypes
<1>5. DayStart(t) \in Nat
  BY <1>1, <1>4, DayStartIsTime
<1>6. last \in Int /\ t \in Int
  BY <1>1, <1>4 DEF NoTime
<1>7. DOMAIN Again.q.notes = {m \in SpanNotes(t) : jotted[m].at <= until} \cup Historical(t)
  BY <1>3, <1>4, <1>6, AskedNotes
<1>8. n \in SpanNotes(t) \/ n \in Historical(t)
  BY DEF SpanNotes, Historical, Unstamped
<1>9. ASSUME n \in SpanNotes(t) PROVE t <= DayStart(t) + MaxSpan
  <2>1. CASE last # NoTime
    BY <1>1, <2>1 DEF SpanOf, DayStart
  <2>2. CASE last = NoTime
    <3>1. PICK m \in SpanNotes(t) : /\ DayStart(t) = (jotted[m].at \div DayLength) * DayLength
                                    /\ \A o \in SpanNotes(t) : jotted[m].at <= jotted[o].at
      BY <1>4, <1>9, <2>2, FirstDayIs
    <3>2. m \in DOMAIN jotted /\ jotted[m].at \in Nat /\ jotted[m].at <= t
      BY <1>4 DEF SpanNotes, Unstamped
    <3>3. jotted[m].at < DayStart(t) + DayLength
      BY <3>1, <3>2, DayIsBefore
    <3>4. jotted[m].at <= until
      BY <1>1, <1>3, <1>5, <3>2, <3>3, RoundsAssumption DEF MinOf
    <3>5. m \in DOMAIN round.q.notes
      BY <1>2, <1>7, <3>4
    <3>6. PICK x \in Nat : t <= (x \div DayLength) * DayLength + MaxSpan /\ \A o \in DOMAIN round.q.notes : x <= jotted[o].at
      BY <1>1, <2>2 DEF SpanOf
    <3>7. (x \div DayLength) * DayLength <= DayStart(t) /\ (x \div DayLength) * DayLength \in Nat
      BY <3>1, <3>2, <3>5, <3>6, DayIsBefore
    <3> QED
      BY <1>1, <1>5, <3>6, <3>7, RoundsAssumption
  <2> QED
    BY <2>1, <2>2
<1>10. n \in SpanNotes(t) => until = t
  BY <1>1, <1>3, <1>5, <1>9, RoundsAssumption DEF MinOf
<1> QED
  BY <1>2, <1>7, <1>8, <1>10

\* What a step stamping a compaction does with a note it stamps up to.
TakenIn(n, with, already, on) ==
    /\ jotted'[n].stamped
    /\ with \subseteq on \cup already \cup About(round.ask, n)
    /\ jotted[n].says /\ (\E k \in on : jotted[n].at < agenda'[k].end) =>
           with # {} \/ LeftOut(round.ask, n) \/ Rewritten(round.ask, jotted[n].at)
WithOf(n) == {k \in DOMAIN agenda' : n \in agenda'[k].lines}
AlreadyOf(n) == {k \in DOMAIN agenda : n \in agenda[k].lines}
OnOf(n) == {k \in DOMAIN agenda' : agenda'[k].start <= jotted[n].at /\ jotted[n].at <= agenda'[k].end}

LEMMA StampAllTakesIn ==
    ASSUME RoundsInv, Confirmable, StampAll, NEW n \in DOMAIN jotted, jotted[n].at <= last', ~jotted[n].stamped
    PROVE  TakenIn(n, WithOf(n), AlreadyOf(n), OnOf(n))
<1> DEFINE q == Again.q
           t == jotted[n].at
           now == round.q.now
<1>1. last' = now /\ agenda' = With(Again, Changed(Again))
  <2>1. Changed(round) \in SUBSET Changed(round)
    OBVIOUS
  <2> QED
    BY <2>1, ConfirmedIs DEF StampAll
<1>2. n \in DOMAIN round.q.notes /\ n \in DOMAIN q.notes
  BY <1>1, AllTaken
<1>3. IsRound(Again, round.ask, now) /\ IsOffer(Again, round.ask)
  BY ConfirmedIs
<1>4. ~NothingToPlan(now) /\ q = Asked(round.ask, now)
  BY <1>3, OfferIs
<1>5. IsAgenda(agenda) /\ NotesOK /\ last \in Int /\ now \in Int /\ IsAsk(round.ask) /\ \A m \in DOMAIN jotted : jotted[m].at \in Nat
  BY <1>3 DEF IsRound, CanPlan, RoundsInv, RoundsTypes
<1>6. /\ q.ignored = round.ask.ignored /\ q.targets = round.ask.targets
      /\ q.notes[n].at = t /\ q.notes[n].says = jotted[n].says
      /\ \A k \in DOMAIN agenda : agenda[k].start <= t /\ t < agenda[k].end =>
            \/ k \in DOMAIN q.events
            \/ /\ last # NoTime /\ t < last
               /\ \E e \in DOMAIN q.events : agenda[e].start <= t /\ t < agenda[e].end
  BY <1>2, <1>4, <1>5, AskedNotes
<1>7. /\ IsQuestion(q) /\ Planned(q).ok /\ Again.events = Planned(q).events
      /\ DOMAIN q.events \subseteq DOMAIN agenda /\ \A k \in DOMAIN q.events : q.events[k] = agenda[k]
      /\ q.decisions = round.ask.decisions /\ q.history = last
  BY <1>3 DEF IsOffer
<1>8. About(q, n) = About(round.ask, n) /\ (LeftOut(q, n) <=> LeftOut(round.ask, n)) /\ Freed(q.decisions) = Freed(round.ask.decisions)
  BY <1>6, <1>7 DEF About, LeftOut
<1>9. n \notin {Unset, Annotation}
  <2>1. n \in 1 .. Cardinality(DOMAIN jotted)
    BY DEF RoundsInv, RoundsTypes
  <2>2. Cardinality(DOMAIN jotted) \in Nat
    BY FS_CardinalityType DEF RoundsInv, RoundsTypes
  <2> QED
    BY <2>1, <2>2 DEF Unset, Annotation
<1>10. /\ \A k \in There(q) : n \in Again.events[k].lines =>
              \/ k \in DOMAIN q.events /\ n \in q.events[k].lines
              \/ k \in About(q, n)
              \/ Again.events[k].start <= t /\ t <= Again.events[k].end
       /\ jotted[n].says /\ (\E k \in There(q) : Again.events[k].start <= t /\ t < Again.events[k].end) =>
              (\E k \in There(q) : n \in Again.events[k].lines) \/ LeftOut(q, n)
  BY <1>2, <1>6, <1>7, <1>9, NotesPlanned
<1>11. DOMAIN Again.events = There(q) /\ IsAgenda(Again.events)
  BY <1>7, PlanIs
<1>12. \A k \in DOMAIN agenda' : \/ k \in There(q) /\ agenda'[k] = Again.events[k]
                                 \/ k \in DOMAIN agenda \ DOMAIN q.events /\ agenda'[k] = agenda[k]
  BY <1>1, <1>3, <1>5, WholeIs
<1>13. \A k \in There(q) : k \in DOMAIN agenda' /\ agenda'[k] = Again.events[k]
  <2> SUFFICES ASSUME NEW k \in There(q) PROVE k \in DOMAIN agenda' /\ agenda'[k] = Again.events[k]
    OBVIOUS
  <2>1. Changed(Again) \in SUBSET Changed(Again)
    OBVIOUS
  <2>2. /\ k \in DOMAIN agenda' <=> IF k \in Changed(Again) THEN k \in DOMAIN Again.events ELSE k \in DOMAIN agenda
        /\ k \in DOMAIN agenda' => agenda'[k] = IF k \in Changed(Again) THEN Again.events[k] ELSE agenda[k]
    BY <1>1, <1>3, <1>5, <2>1, WithIs
  <2>3. k \notin Changed(Again) => k \in DOMAIN q.events /\ Again.events[k] = q.events[k]
    BY <1>11 DEF Changed
  <2> QED
    BY <1>7, <1>11, <2>2, <2>3
<1>14. jotted'[n].stamped
  <2> DEFINE s == jotted[n].stamped \/ n \in DOMAIN round.q.notes
  <2>1. jotted'[n] = [jotted[n] EXCEPT !.stamped = s]
    BY DEF StampAll
  <2>2. s = TRUE
    BY <1>2
  <2>3. jotted[n] = [at |-> jotted[n].at, says |-> jotted[n].says, stamped |-> jotted[n].stamped]
    BY DEF RoundsInv, RoundsTypes
  <2> HIDE DEF s
  <2> QED
    BY <2>1, <2>2, <2>3
<1> HIDE DEF q, now
<1>15. ASSUME NEW k \in WithOf(n) PROVE k \in OnOf(n) \cup AlreadyOf(n) \cup About(round.ask, n)
  <2>1. k \in DOMAIN agenda' /\ n \in agenda'[k].lines
    BY DEF WithOf
  <2>2. CASE k \in There(q) /\ agenda'[k] = Again.events[k]
    BY <1>7, <1>8, <1>10, <2>1, <2>2 DEF OnOf, AlreadyOf
  <2>3. CASE k \in DOMAIN agenda /\ agenda'[k] = agenda[k]
    BY <2>1, <2>3 DEF AlreadyOf
  <2> QED
    BY <1>12, <2>1, <2>2, <2>3
<1>16. ASSUME jotted[n].says, NEW k \in OnOf(n), t < agenda'[k].end
       PROVE  WithOf(n) # {} \/ LeftOut(round.ask, n) \/ Rewritten(round.ask, t)
  <2>1. k \in DOMAIN agenda' /\ agenda'[k].start <= t
    BY DEF OnOf
  <2>2. CASE \E j \in There(q) : Again.events[j].start <= t /\ t < Again.events[j].end
    BY <1>8, <1>10, <1>13, <1>16, <2>2 DEF WithOf
  <2>3. CASE ~\E j \in There(q) : Again.events[j].start <= t /\ t < Again.events[j].end
    <3>1. k \in DOMAIN agenda \ DOMAIN q.events /\ agenda[k].start <= t /\ t < agenda[k].end
      BY <1>12, <1>16, <2>1, <2>3
    <3>2. last # NoTime /\ t < last
      BY <1>6, <3>1
    <3>3. PICK e \in DOMAIN q.events : agenda[e].start <= t /\ t < agenda[e].end
      BY <1>6, <3>1
    <3>4. agenda[e].start \in Int /\ agenda[e].end \in Int /\ t \in Nat
      BY <1>5, <1>7 DEF IsAgenda, IsEvent
    <3>5. CASE e \in Freed(q.decisions)
      BY <1>7, <1>8, <3>2, <3>3, <3>5 DEF Rewritten
    <3>6. CASE e \notin Freed(q.decisions)
      <4>1. ~\E d \in q.decisions : d.allowHistory /\ e \in {d.id, d.into}
        BY <3>6 DEF Freed
      <4>2. q.history # NoTime /\ q.events[e].start < q.history /\ q.events[e] = agenda[e]
        BY <1>5, <1>7, <3>2, <3>3, <3>4
      <4>3. /\ e \in DOMAIN Again.events /\ Again.events[e].start = agenda[e].start
            /\ Again.events[e].end >= agenda[e].end \/ Again.events[e].end >= last
        BY <1>7, <4>1, <4>2, PlanKeepsHistory
      <4>4. Again.events[e].end \in Int
        BY <1>11, <4>3 DEF IsAgenda, IsEvent
      <4>5. Again.events[e].start <= t /\ t < Again.events[e].end
        BY <1>5, <3>2, <3>3, <3>4, <4>3, <4>4
      <4> QED
        BY <1>11, <2>3, <4>3, <4>5
    <3> QED
      BY <3>5, <3>6
  <2> QED
    BY <2>2, <2>3
<1>17. WithOf(n) \subseteq OnOf(n) \cup AlreadyOf(n) \cup About(round.ask, n)
  BY <1>15
<1>18. jotted[n].says /\ (\E k \in OnOf(n) : jotted[n].at < agenda'[k].end) =>
           WithOf(n) # {} \/ LeftOut(round.ask, n) \/ Rewritten(round.ask, jotted[n].at)
  BY <1>16
<1> QED
  BY <1>14, <1>17, <1>18 DEF TakenIn

\* What a step stamping a compaction does with the notes it stamps up to.
TakesIn ==
    rounds' # rounds => \A n \in DOMAIN jotted :
        jotted[n].at <= last' /\ ~jotted[n].stamped => TakenIn(n, WithOf(n), AlreadyOf(n), OnOf(n))
LEMMA TakesInStep ==
    ASSUME RoundsInv, [RoundsNext]_roundVars
    PROVE  TakesIn
<1>1. Confirmable /\ StampAll => TakesIn
  BY StampAllTakesIn DEF TakesIn
<1>2. rounds' = rounds => TakesIn
  BY DEF TakesIn
<1> QED
  BY <1>1, <1>2, StampsOnly

\* No compaction loses a note.
THEOREM NotesAreTakenIn == RoundsSpec => NotesTakenIn
<1>1. RoundsInv /\ [RoundsNext]_roundVars =>
          [rounds' # rounds => \A n \in DOMAIN jotted :
              jotted[n].at <= last' /\ ~jotted[n].stamped =>
                  \E with \in {{k \in DOMAIN agenda' : n \in agenda'[k].lines}} :
                  \E already \in {{k \in DOMAIN agenda : n \in agenda[k].lines}} :
                  \E on \in {{k \in DOMAIN agenda' : agenda'[k].start <= jotted[n].at /\ jotted[n].at <= agenda'[k].end}} :
                      /\ jotted'[n].stamped
                      /\ with \subseteq on \cup already \cup About(round.ask, n)
                      /\ jotted[n].says /\ (\E k \in on : jotted[n].at < agenda'[k].end) =>
                             with # {} \/ LeftOut(round.ask, n) \/ Rewritten(round.ask, jotted[n].at)]_roundVars
  <2> SUFFICES ASSUME RoundsInv, [RoundsNext]_roundVars, rounds' # rounds,
                      NEW n \in DOMAIN jotted, jotted[n].at <= last', ~jotted[n].stamped
               PROVE  \E with \in {WithOf(n)} : \E already \in {AlreadyOf(n)} : \E on \in {OnOf(n)} : TakenIn(n, with, already, on)
    BY DEF TakenIn, WithOf, AlreadyOf, OnOf
  <2>1. TakenIn(n, WithOf(n), AlreadyOf(n), OnOf(n))
    BY TakesInStep DEF TakesIn
  <2> QED
    BY <2>1
<1> QED
  BY <1>1, RoundsInvariant, PTL DEF RoundsSpec, NotesTakenIn
=============================================================================
