------------------------ MODULE VersionedRowsProofs ------------------------
(***************************************************************************)
(* What's kept of a tab is the tab's, but for the rows changed by hand;    *)
(* and of each item the tab has what the last change made to it left,      *)
(* each change made once and to the item as its client read it, unless the *)
(* tab was deleted -- whatever reads, writes, refreshes, failures and      *)
(* restarts come between, for any clients, ids and rows, and any number of *)
(* mishaps.                                                                *)
(***************************************************************************)
EXTENDS VersionedRowsProperties, FiniteSetTheorems, SequenceTheorems, WellFoundedInduction, TLAPS

Rows == [id : Ids \cup {"header", NONE}, version : Nat, val : Vals \cup HandVals \cup {NONE}, by : Clients \cup {NONE}]

-----------------------------------------------------------------------------
(* The least and the greatest of some numbers.                             *)

Before == {ss \in Nat \X Nat : ss[1] < ss[2]}

LEMMA BeforeIsWellFounded == IsWellFoundedOn(Before, Nat)
BY NatLessThanWellFounded DEF OpToRel, Before

LEMMA LeastOf ==
    ASSUME NEW T, T \subseteq Nat, T # {}
    PROVE  \E x \in T : \A y \in T : x <= y
<1>1. \E x \in T : \A y \in T : ~ (<<y, x>> \in Before)
  BY WFMin, BeforeIsWellFounded
<1>2. PICK x \in T : \A y \in T : ~ (<<y, x>> \in Before)
  BY <1>1
<1>3. \A y \in T : ~(y < x)
  BY <1>2 DEF Before
<1>. QED
  BY <1>3

LEMMA GreatestOf ==
    ASSUME NEW n \in Nat, NEW T, T \subseteq 0 .. n, T # {}
    PROVE  Max(T) \in T /\ \A y \in T : y <= Max(T)
<1>. DEFINE Over == {x \in Nat : \A y \in T : y <= x}
<1>1. n \in Over
  OBVIOUS
<1>2. PICK m \in Over : \A x \in Over : m <= x
  BY <1>1, LeastOf
<1>3. m \in T
  <2>. SUFFICES ASSUME m \notin T PROVE FALSE
    OBVIOUS
  <2>1. PICK t \in T : TRUE
    OBVIOUS
  <2>2. m > 0
    BY <1>2, <2>1
  <2>3. m - 1 \in Over
    BY <1>2, <2>2
  <2>. QED
    BY <1>2, <2>3
<1>4. \E x \in T : \A y \in T : x >= y
  BY <1>2, <1>3
<1>5. Max(T) \in T /\ \A y \in T : Max(T) >= y
  BY <1>4 DEF Max
<1>. QED
  BY <1>5

-----------------------------------------------------------------------------
(* Rows.                                                                   *)

LEMMA TrimKeepsRows ==
    ASSUME NEW S, NEW rows \in Seq(S)
    PROVE  Trim(rows) \in Seq(S) /\ \A i \in Nat : RowAt(Trim(rows), i) = RowAt(rows, i)
<1>. DEFINE last == {i \in DOMAIN rows : rows[i] # Blank}
<1>1. Len(rows) \in Nat /\ DOMAIN rows = 1 .. Len(rows) /\ \A i \in 1 .. Len(rows) : rows[i] \in S
  BY LenProperties, ElementOfSeq
<1>2. CASE last = {}
  <2>1. Trim(rows) = <<>>
    BY <1>2 DEF Trim
  <2>2. DOMAIN <<>> = {}
    OBVIOUS
  <2>. QED
    BY <1>2, <2>1, <2>2 DEF RowAt
<1>3. CASE last # {}
  <2>. DEFINE m == Max(last)
  <2>1. m \in last /\ \A i \in last : i <= m
    <3>1. last \subseteq 0 .. Len(rows)
      BY <1>1
    <3>. QED
      BY <1>1, <1>3, <3>1, GreatestOf
  <2>2. m \in 1 .. Len(rows)
    BY <1>1, <2>1
  <2>3. Trim(rows) = SubSeq(rows, 1, m)
    BY <1>3 DEF Trim
  <2>. HIDE DEF m
  <2>4. /\ SubSeq(rows, 1, m) \in Seq(S) /\ Len(SubSeq(rows, 1, m)) = m
        /\ \A i \in 1 .. m : SubSeq(rows, 1, m)[i] = rows[i]
    <3>1. \A i \in 1 .. m : rows[i] \in S
      BY <1>1, <2>2
    <3>. QED
      BY <2>2, <3>1, SubSeqProperties
  <2>5. DOMAIN SubSeq(rows, 1, m) = 1 .. m
    BY <2>4, LenProperties
  <2>6. \A i \in Nat : i \in DOMAIN rows /\ i \notin 1 .. m => rows[i] = Blank
    BY <1>1, <2>1, <2>2
  <2>7. \A i \in Nat : RowAt(SubSeq(rows, 1, m), i) = RowAt(rows, i)
    BY <1>1, <2>2, <2>4, <2>5, <2>6 DEF RowAt
  <2>. QED
    BY <2>3, <2>4, <2>7
<1>. QED
  BY <1>2, <1>3

(* Rows to write are of so many rows at most.                              *)
IsWrite(write) ==
    /\ \E n \in Nat : DOMAIN write \subseteq 1 .. n
    /\ write \in [DOMAIN write -> Rows]
Writes == UNION {[places -> Rows] : places \in UNION {SUBSET (1 .. n) : n \in Nat}}

LEMMA WritesAre == \A write : IsWrite(write) <=> write \in Writes
BY DEF IsWrite, Writes

LEMMA BlankIsRow == Blank \in Rows /\ Header \in Rows
BY DEF Blank, Header, Row, Rows

LEMMA RowAtIsRow == ASSUME NEW rows \in Seq(Rows), NEW i PROVE RowAt(rows, i) \in Rows
<1>1. DOMAIN rows = 1 .. Len(rows)
  BY LenProperties
<1>. QED
  BY <1>1, BlankIsRow, ElementOfSeq DEF RowAt

(* A row is as it's written, or as it was.                                 *)
LEMMA SetRowsSetsRows ==
    ASSUME NEW rows \in Seq(Rows), NEW write, IsWrite(write)
    PROVE  /\ SetRows(rows, write) \in Seq(Rows)
           /\ \A i \in Nat : i \in DOMAIN write => RowAt(SetRows(rows, write), i) = write[i]
           /\ \A i \in Nat : i \notin DOMAIN write => RowAt(SetRows(rows, write), i) = RowAt(rows, i)
<1>1. Len(rows) \in Nat /\ DOMAIN rows = 1 .. Len(rows)
  BY LenProperties
<1>2. PICK n \in Nat : DOMAIN write \subseteq 1 .. n
  BY DEF IsWrite
<1>. DEFINE height == Max({Len(rows)} \cup DOMAIN write)
            new == [i \in 1 .. height |-> IF i \in DOMAIN write THEN write[i] ELSE RowAt(rows, i)]
<1>3. height \in Nat /\ height >= Len(rows) /\ \A i \in DOMAIN write : i <= height
  <2>. DEFINE T == {Len(rows)} \cup DOMAIN write
  <2>1. PICK k \in Nat : T \subseteq 0 .. k
    <3>1. CASE n >= Len(rows)
      <4>1. T \subseteq 0 .. n
        BY <1>1, <1>2, <3>1
      <4>. QED
        BY <4>1
    <3>2. CASE n < Len(rows)
      <4>1. T \subseteq 0 .. Len(rows)
        BY <1>1, <1>2, <3>2
      <4>. QED
        BY <1>1, <4>1
    <3>. QED
      BY <1>1, <3>1, <3>2
  <2>2. Max(T) \in T /\ \A y \in T : y <= Max(T)
    BY <2>1, GreatestOf
  <2>3. height = Max(T) /\ Len(rows) \in T /\ DOMAIN write \subseteq T /\ T \subseteq Nat
    BY <2>1
  <2>. HIDE DEF height, T
  <2>. QED
    BY <2>2, <2>3
<1>4. SetRows(rows, write) = Trim(new)
  BY DEF SetRows
<1>. HIDE DEF height
<1>5. \A i \in DOMAIN write : write[i] \in Rows
  BY DEF IsWrite
<1>6. new \in Seq(Rows)
  <2>1. \A i \in 1 .. height : new[i] \in Rows
    BY <1>5, RowAtIsRow
  <2>2. new \in [1 .. height -> Rows]
    BY <2>1
  <2>. QED
    BY <1>3, <2>2, SeqDef
<1>7. Trim(new) \in Seq(Rows) /\ \A i \in Nat : RowAt(Trim(new), i) = RowAt(new, i)
  BY <1>6, TrimKeepsRows
<1>8. \A i \in Nat : i \in DOMAIN write => RowAt(new, i) = write[i]
  BY <1>2, <1>3 DEF RowAt
<1>9. \A i \in Nat : i \notin DOMAIN write => RowAt(new, i) = RowAt(rows, i)
  BY <1>1, <1>3 DEF RowAt
<1>. QED
  BY <1>4, <1>7, <1>8, <1>9

(* The rows written over a kept tab's, or put back over what was found,    *)
(* are rows to write.                                                      *)
LEMMA ChangingIsWrite ==
    ASSUME NEW rows \in Seq(Rows), NEW first \in {1, 2}
    PROVE  IsWrite(Changing(first, rows))
<1>. DEFINE places == {j \in first .. first + Len(rows) - 1 : kept.rows = NONE \/ RowAt(kept.rows, j) # rows[j - first + 1]}
            write == [i \in places |-> rows[i - first + 1]]
<1>1. Len(rows) \in Nat /\ \A i \in 1 .. Len(rows) : rows[i] \in Rows
  BY LenProperties, ElementOfSeq
<1>2. places \subseteq 1 .. Len(rows) + 1
  BY <1>1
<1>3. \A i \in places : rows[i - first + 1] \in Rows
  BY <1>1
<1>4. IsWrite(write)
  BY <1>1, <1>2, <1>3 DEF IsWrite
<1>. QED
  BY <1>4 DEF Changing

LEMMA PutBackPutsBack ==
    ASSUME NEW found \in Seq(Rows), NEW wanted \in Seq(Rows)
    PROVE  /\ IsWrite(PutBack(found, wanted))
           /\ \A i \in DOMAIN PutBack(found, wanted) : PutBack(found, wanted)[i] = RowAt(wanted, i)
<1>1. Len(found) \in Nat /\ Len(wanted) \in Nat
  BY LenProperties
<1>2. Max({Len(found), Len(wanted)}) \in Nat
  <2>1. CASE Len(found) <= Len(wanted)
    <3>1. {Len(found), Len(wanted)} \subseteq 0 .. Len(wanted)
      BY <1>1, <2>1
    <3>. QED
      BY <1>1, <3>1, GreatestOf
  <2>2. CASE Len(wanted) < Len(found)
    <3>1. {Len(found), Len(wanted)} \subseteq 0 .. Len(found)
      BY <1>1, <2>2
    <3>. QED
      BY <1>1, <3>1, GreatestOf
  <2>. QED
    BY <1>1, <2>1, <2>2
<1>3. Differing(found, wanted) \subseteq 1 .. Max({Len(found), Len(wanted)})
  BY DEF Differing
<1>4. \A i \in Differing(found, wanted) : RowAt(wanted, i) \in Rows
  BY RowAtIsRow
<1>. QED
  BY <1>2, <1>3, <1>4 DEF PutBack, IsWrite

LEMMA RowsAreWrite ==
    ASSUME NEW rows \in Seq(Rows)
    PROVE  /\ IsWrite(rows)
           /\ \A i \in DOMAIN rows : rows[i] = RowAt(rows, i)
BY LenProperties DEF IsWrite, RowAt

(* The n-th of some numbers is there.                                      *)
UpTo(places, i) == {j \in places : j <= i}

LEMMA UpToProperties ==
    ASSUME NEW k \in Nat, NEW places \in SUBSET (1 .. k)
    PROVE  /\ IsFiniteSet(places) /\ Cardinality(places) \in Nat
           /\ \A i \in 0 .. k : IsFiniteSet(UpTo(places, i)) /\ Cardinality(UpTo(places, i)) \in Nat
           /\ UpTo(places, k) = places /\ Cardinality(UpTo(places, 0)) = 0
           /\ \A i \in 1 .. k : i \notin places => UpTo(places, i) = UpTo(places, i - 1)
           /\ \A i \in places : Cardinality(UpTo(places, i)) = Cardinality(UpTo(places, i - 1)) + 1
<1>1. IsFiniteSet(1 .. k)
  BY FS_Interval
<1>2. IsFiniteSet(places)
  BY <1>1, FS_Subset
<1>3. \A i \in 0 .. k : IsFiniteSet(UpTo(places, i)) /\ Cardinality(UpTo(places, i)) \in Nat
  <2>. TAKE i \in 0 .. k
  <2>1. UpTo(places, i) \in SUBSET places
    BY DEF UpTo
  <2>. QED
    BY <1>2, <2>1, FS_Subset, FS_CardinalityType
<1>4. UpTo(places, k) = places
  <2>1. \A j \in places : j <= k
    OBVIOUS
  <2>. QED
    BY <2>1, Zenon DEF UpTo
<1>5. UpTo(places, 0) = {}
  <2>1. \A j \in places : ~(j <= 0)
    OBVIOUS
  <2>. QED
    BY <2>1, Zenon DEF UpTo
<1>6. \A i \in 1 .. k : i \notin places => UpTo(places, i) = UpTo(places, i - 1)
  <2>. SUFFICES ASSUME NEW i \in 1 .. k, i \notin places PROVE UpTo(places, i) = UpTo(places, i - 1)
    OBVIOUS
  <2>1. \A j \in places : j <= i <=> j <= i - 1
    OBVIOUS
  <2>. QED
    BY <2>1 DEF UpTo
<1>7. \A i \in places : Cardinality(UpTo(places, i)) = Cardinality(UpTo(places, i - 1)) + 1
  <2>. TAKE i \in places
  <2>1. i \in 1 .. k /\ i - 1 \in 0 .. k
    OBVIOUS
  <2>2. \A j \in places : j <= i <=> j <= i - 1 \/ j = i
    BY <2>1
  <2>3. UpTo(places, i) = UpTo(places, i - 1) \cup {i}
    BY <2>1, <2>2 DEF UpTo
  <2>4. i \notin UpTo(places, i - 1)
    BY <2>1 DEF UpTo
  <2>. QED
    BY <1>3, <2>1, <2>3, <2>4, FS_AddElement
<1>. QED
  BY <1>2, <1>3, <1>4, <1>5, <1>6, <1>7, FS_CardinalityType, FS_EmptySet

LEMMA PlaceOf ==
    ASSUME NEW k \in Nat, NEW places \in SUBSET (1 .. k), NEW n \in 1 .. Cardinality(places)
    PROVE  \E i \in places : Cardinality(UpTo(places, i)) = n
<1>. DEFINE T == {i \in 0 .. k : Cardinality(UpTo(places, i)) >= n}
<1>1. /\ Cardinality(places) \in Nat /\ UpTo(places, k) = places /\ Cardinality(UpTo(places, 0)) = 0
      /\ \A i \in 0 .. k : Cardinality(UpTo(places, i)) \in Nat
      /\ \A i \in 1 .. k : i \notin places => UpTo(places, i) = UpTo(places, i - 1)
      /\ \A i \in places : Cardinality(UpTo(places, i)) = Cardinality(UpTo(places, i - 1)) + 1
  BY UpToProperties
<1>2. k \in T
  BY <1>1
<1>3. PICK m \in T : \A i \in T : m <= i
  <2>1. T \subseteq Nat
    OBVIOUS
  <2>. HIDE DEF T
  <2>. QED
    BY <1>2, <2>1, LeastOf
<1>4. m \in 0 .. k /\ Cardinality(UpTo(places, m)) >= n
  OBVIOUS
<1>5. m \in 1 .. k
  <2>1. m # 0
    BY <1>1, <1>4
  <2>. QED
    BY <1>4, <2>1
<1>6. Cardinality(UpTo(places, m - 1)) < n
  <2>1. m - 1 \notin T /\ m - 1 \in 0 .. k
    BY <1>3, <1>5
  <2>. QED
    BY <1>1, <2>1
<1>7. m \in places
  BY <1>1, <1>4, <1>5, <1>6
<1>8. m - 1 \in 0 .. k
  BY <1>5
<1>. QED
  BY <1>1, <1>4, <1>6, <1>7, <1>8

LEMMA AmongAreRows ==
    ASSUME NEW S, NEW rows \in Seq(S), NEW places \in SUBSET DOMAIN rows
    PROVE  /\ Among(rows, places) \in Seq(S)
           /\ \A n \in DOMAIN Among(rows, places) : \E i \in places : Among(rows, places)[n] = rows[i]
<1>. DEFINE k == Len(rows)
            at(n) == CHOOSE i \in places : Cardinality(UpTo(places, i)) = n
<1>1. k \in Nat /\ places \in SUBSET (1 .. k) /\ \A i \in 1 .. k : rows[i] \in S
  BY LenProperties, ElementOfSeq
<1>2. Cardinality(places) \in Nat
  BY <1>1, UpToProperties
<1>3. \A n \in 1 .. Cardinality(places) : at(n) \in places
  BY <1>1, PlaceOf
<1>4. Among(rows, places) = [n \in 1 .. Cardinality(places) |-> rows[at(n)]]
  BY DEF Among, UpTo
<1>. HIDE DEF at
<1>5. \A n \in 1 .. Cardinality(places) : rows[at(n)] \in S
  BY <1>1, <1>3
<1>6. [n \in 1 .. Cardinality(places) |-> rows[at(n)]] \in [1 .. Cardinality(places) -> S]
  BY <1>5
<1>. QED
  BY <1>2, <1>3, <1>4, <1>6, SeqDef

LEMMA ItemsAreRows == ASSUME NEW rows \in Seq(Rows) PROVE Items(rows) \in Seq(Rows)
BY AmongAreRows DEF Items

LEMMA FilledAreRows ==
    ASSUME NEW items \in Seq(Rows), NEW n \in Int
    PROVE  Filled(items, n) \in Seq(Rows)
<1>1. Len(items) \in Nat
  BY LenProperties
<1>2. CASE Len(items) >= n
  BY <1>2 DEF Filled
<1>3. CASE Len(items) < n
  <2>. DEFINE blanks == [i \in 1 .. n - Len(items) |-> Blank]
  <2>1. n - Len(items) \in Nat /\ blanks \in [1 .. n - Len(items) -> Rows]
    BY <1>1, <1>3, BlankIsRow
  <2>2. blanks \in Seq(Rows)
    BY <2>1, SeqDef
  <2>3. Filled(items, n) = items \o blanks
    BY <1>1, <1>3 DEF Filled
  <2>. HIDE DEF blanks
  <2>. QED
    BY <2>2, <2>3, ConcatProperties
<1>. QED
  BY <1>1, <1>2, <1>3

-----------------------------------------------------------------------------
(* What a change comes to.                                                 *)

Changes == [kind : {"none", "create", "update", "delete"}, id : Ids \cup {"header", NONE}, version : Nat,
            val : Vals \cup HandVals \cup {NONE}]
Results == {"made", "again", "refused", "conflict", "failed", "built", NONE}

LEMMA ItemIsThere ==
    ASSUME NEW items \in Seq(Rows), NEW id, Has(items, id)
    PROVE  /\ Max(PositionsOf(items, id)) \in DOMAIN items
           /\ ItemOf(items, id) = items[Max(PositionsOf(items, id))]
           /\ ItemOf(items, id) \in Rows /\ ItemOf(items, id).id = id
<1>1. Len(items) \in Nat /\ DOMAIN items = 1 .. Len(items)
  BY LenProperties
<1>2. PositionsOf(items, id) \subseteq 0 .. Len(items) /\ PositionsOf(items, id) # {}
  BY <1>1 DEF PositionsOf, Has
<1>3. Max(PositionsOf(items, id)) \in PositionsOf(items, id)
  BY <1>1, <1>2, GreatestOf
<1>. QED
  BY <1>1, <1>3, ElementOfSeq DEF PositionsOf, ItemOf

LEMMA OutcomeIsTyped ==
    ASSUME NEW items \in Seq(Rows), NEW c \in Clients, NEW ch \in Changes
    PROVE  OutcomeOf(items, c, ch).items \in Seq(Rows) /\ OutcomeOf(items, c, ch).result \in Results
<1>1. Created(items, c, ch).items \in Seq(Rows) /\ Created(items, c, ch).result \in Results
  <2>1. Row(ch.id, 1, ch.val, c) \in Rows
    BY DEF Row, Rows, Changes
  <2>2. Append(items, Row(ch.id, 1, ch.val, c)) \in Seq(Rows)
    BY <2>1, AppendProperties
  <2>. QED
    BY <2>2 DEF Created, Outcome, Results
<1>2. Updated(items, c, ch).items \in Seq(Rows) /\ Updated(items, c, ch).result \in Results
  <2>. DEFINE was == ItemOf(items, ch.id)
              new == Row(ch.id, NextVersion(was, ch.val), ch.val, IF Unchanged(was, ch.val) THEN was.by ELSE c)
              written == [items EXCEPT ![Max(PositionsOf(items, ch.id))] = new]
  <2>1. CASE Has(items, ch.id)
    <3>1. was \in Rows /\ Max(PositionsOf(items, ch.id)) \in 1 .. Len(items)
      BY <2>1, ItemIsThere, LenProperties
    <3>2. new \in Rows
      <4>1. NextVersion(was, ch.val) \in Nat
        BY <3>1 DEF NextVersion, Rows
      <4>2. was.by \in Clients \cup {NONE}
        BY <3>1 DEF Rows
      <4>. HIDE DEF was
      <4>. QED
        BY <4>1, <4>2 DEF Row, Rows, Changes
    <3>3. written \in Seq(Rows)
      <4>. HIDE DEF new
      <4>. QED
        BY <3>1, <3>2, ExceptSeq
    <3>4. \/ Updated(items, c, ch) = Outcome(items, "conflict")
          \/ Updated(items, c, ch) = Outcome(items, "again")
          \/ Updated(items, c, ch) = Outcome(written, "made")
      BY DEF Updated
    <3>. HIDE DEF written
    <3>. QED
      BY <3>3, <3>4 DEF Outcome, Results
  <2>2. CASE ~Has(items, ch.id)
    BY <2>2 DEF Updated, Outcome, Results
  <2>. QED
    BY <2>1, <2>2
<1>3. Deleted(items, ch).items \in Seq(Rows) /\ Deleted(items, ch).result \in Results
  <2>1. Among(items, DOMAIN items \ PositionsOf(items, ch.id)) \in Seq(Rows)
    BY AmongAreRows
  <2>. QED
    BY <2>1 DEF Deleted, Outcome, Results
<1>. QED
  BY <1>1, <1>2, <1>3 DEF OutcomeOf

-----------------------------------------------------------------------------
(* Types, and who holds the lock.                                          *)

Keeping == [rows : Seq(Rows) \cup {NONE}, generation : Nat, known : BOOLEAN]
Loading == [at : {"none", "asked", "answered", "done", "failed"}, generation : Nat, rows : Seq(Rows)]
Refreshing == [at : {"none", "asked", "compare", "locked", "adding", "tagging", "putting"}, generation : Nat,
               rows : Seq(Rows), known : BOOLEAN, found : Seq(Rows), gone : BOOLEAN, write : Writes]
Calling == [at : {"none", "finding", "adding", "heading", "tagging", "reading", "deciding", "sending", "keeping", "answering"},
            who : Clients \cup {NONE}, rows : Seq(Rows), write : Writes, result : Results]
Client == [at : {"new", "asking", "done"}, view : Seq(Rows), change : Changes]

TypeOK ==
    /\ tab \in [there : BOOLEAN, tagged : BOOLEAN, rows : Seq(Rows)]
    /\ kept \in Keeping
    /\ load \in [{"call", "reader"} -> Loading]
    /\ refresh \in Refreshing
    /\ lock \in {NONE, "call", "refresh"}
    /\ client \in [Clients -> Client]
    /\ call \in Calling

\* A call under way holds the lock, as does a refresh putting rows back.
Locked ==
    /\ call.at # "none" => lock = "call" /\ call.who \in Clients
    /\ refresh.at \in {"locked", "adding", "tagging", "putting"} => lock = "refresh"

Base == TypeOK /\ Locked

LEMMA NothingIsTyped ==
    /\ <<>> \in Seq(Rows) /\ <<>> \in Writes /\ <<Header>> \in Seq(Rows) /\ <<Header>> \in Writes
    /\ NoLoad \in Loading /\ NoRefresh \in Refreshing /\ NoCall \in Calling
    /\ NoTab \in [there : BOOLEAN, tagged : BOOLEAN, rows : Seq(Rows)]
<1>1. <<>> \in Seq(Rows)
  OBVIOUS
<1>2. <<Header>> \in Seq(Rows)
  BY BlankIsRow
<1>3. <<>> \in Writes /\ <<Header>> \in Writes
  BY <1>1, <1>2, RowsAreWrite, WritesAre
<1>. QED
  BY <1>1, <1>2, <1>3 DEF NoLoad, Loading, NoRefresh, Refreshing, NoCall, Calling, NoTab, Results

LEMMA KeptIsTyped ==
    ASSUME NEW k \in Keeping, NEW rows \in Seq(Rows) \cup {NONE}
    PROVE  /\ [k EXCEPT !.rows = rows] \in Keeping
           /\ [k EXCEPT !.rows = rows, !.generation = @ + 1] \in Keeping
           /\ [k EXCEPT !.generation = @ + 1, !.rows = rows] \in Keeping
           /\ [k EXCEPT !.generation = @ + 1] \in Keeping
<1>. DEFINE g == k.generation + 1
<1>1. g \in Nat
  BY DEF Keeping
<1>2. /\ [k EXCEPT !.rows = rows, !.generation = @ + 1] = [k EXCEPT !.rows = rows, !.generation = g]
      /\ [k EXCEPT !.generation = @ + 1, !.rows = rows] = [k EXCEPT !.rows = rows, !.generation = g]
      /\ [k EXCEPT !.generation = @ + 1] = [k EXCEPT !.generation = g]
  BY DEF Keeping
<1>. HIDE DEF g
<1>. QED
  BY <1>1, <1>2 DEF Keeping

LEMMA BaseInit == Init => Base
<1>. SUFFICES ASSUME Init PROVE Base
  OBVIOUS
<1>1. tab \in [there : BOOLEAN, tagged : BOOLEAN, rows : Seq(Rows)]
  <2>1. CASE tab = NoTab
    BY <2>1, NothingIsTyped
  <2>2. CASE tab # NoTab
    <3>1. PICK id \in Ids, v \in {0, 1}, val \in Vals :
            tab = [there |-> TRUE, tagged |-> TRUE, rows |-> <<Header, Row(id, v, val, NONE)>>]
      BY <2>2 DEF Init, TabInit
    <3>2. Row(id, v, val, NONE) \in Rows
      BY DEF Row, Rows
    <3>3. <<Header, Row(id, v, val, NONE)>> \in Seq(Rows)
      BY <3>2, BlankIsRow
    <3>. QED
      BY <3>1, <3>3
  <2>. QED
    BY <2>1, <2>2
<1>2. /\ kept \in Keeping
      /\ load \in [{"call", "reader"} -> Loading] /\ refresh \in Refreshing
      /\ lock \in {NONE, "call", "refresh"} /\ call \in Calling
  BY NothingIsTyped DEF Init, TabInit, NothingKept, Keeping
<1>3. client \in [Clients -> Client]
  <2>1. [at |-> "new", view |-> <<>>, change |-> NoChange] \in Client
    BY NothingIsTyped DEF Client, NoChange, Changes
  <2>. QED
    BY <2>1 DEF Init
<1>4. Locked
  BY DEF Init, TabInit, NoCall, NoRefresh, Locked
<1>. QED
  BY <1>1, <1>2, <1>3, <1>4 DEF Base, TypeOK

LEMMA TakesIsTyped ==
    ASSUME TypeOK, NEW write \in Writes, Takes(write)
    PROVE  /\ tab' \in [there : BOOLEAN, tagged : BOOLEAN, rows : Seq(Rows)] /\ tab'.there /\ tab'.rows = SetRows(tab.rows, write)
           /\ \A i \in Nat : i \in DOMAIN write => RowAt(tab'.rows, i) = write[i]
           /\ \A i \in Nat : i \notin DOMAIN write => RowAt(tab'.rows, i) = RowAt(tab.rows, i)
<1>1. tab.rows \in Seq(Rows) /\ IsWrite(write)
  BY WritesAre DEF TypeOK
<1>2. /\ SetRows(tab.rows, write) \in Seq(Rows)
      /\ \A i \in Nat : i \in DOMAIN write => RowAt(SetRows(tab.rows, write), i) = write[i]
      /\ \A i \in Nat : i \notin DOMAIN write => RowAt(SetRows(tab.rows, write), i) = RowAt(tab.rows, i)
  BY <1>1, SetRowsSetsRows
<1>3. tab' = [tab EXCEPT !.rows = SetRows(tab.rows, write)]
  BY DEF Takes
<1>. QED
  BY <1>2, <1>3 DEF TypeOK, Takes

LEMMA LoadsKeepBase ==
    ASSUME Base, Loads, UNCHANGED callVars
    PROVE  Base'
<1>. USE DEF Base, TypeOK, Keeping
<1>1. PICK a \in {"call", "reader"} : LoadStep(a)
  BY DEF Loads
<1>2. UNCHANGED <<tab, refresh, lock, byHand, client, call>>
  BY <1>1 DEF LoadStep, LoadAsks, LoadAnswered, LoadFails, LoadKeeps, callVars
<1>3. kept' \in Keeping /\ load' \in [{"call", "reader"} -> Loading]
  <2>1. CASE LoadAsks(a)
    BY <2>1, NothingIsTyped DEF LoadAsks, Loading
  <2>2. CASE LoadAnswered(a)
    BY <2>2 DEF LoadAnswered, Loading
  <2>3. CASE LoadFails(a)
    BY <2>3 DEF LoadFails, Loading
  <2>4. CASE LoadKeeps(a)
    BY <2>4 DEF LoadKeeps, Loading
  <2>. QED
    BY <1>1, <2>1, <2>2, <2>3, <2>4 DEF LoadStep
<1>. QED
  BY <1>2, <1>3 DEF Locked

LEMMA RefreshKeepsBase ==
    ASSUME Base, RefreshStep, UNCHANGED callVars
    PROVE  Base'
<1>. USE DEF Base, TypeOK, Keeping
<1>1. UNCHANGED <<client, call>> /\ UNCHANGED load
  BY DEF RefreshStep, RefreshBegins, RefreshReads, RefreshCompares, RefreshDecides, RefreshAdds, RefreshTags, RefreshPuts,
         RefreshFails, callVars
<1>2. CASE RefreshBegins
  <2>1. refresh' \in Refreshing
    <3>1. kept.rows \in Seq(Rows)
      BY <1>2 DEF RefreshBegins
    <3>. QED
      BY <1>2, <3>1, NothingIsTyped DEF RefreshBegins, Refreshing, NoRefresh
  <2>. QED
    BY <1>1, <1>2, <2>1 DEF RefreshBegins, Locked, NoRefresh
<1>3. CASE RefreshReads
  BY <1>1, <1>3 DEF RefreshReads, Locked, Refreshing
<1>4. CASE RefreshCompares
  <2>1. \/ lock = NONE /\ refresh' = [refresh EXCEPT !.at = "locked"] /\ lock' = "refresh"
        \/ refresh' = NoRefresh /\ lock' = lock
    BY <1>4 DEF RefreshCompares
  <2>2. UNCHANGED <<tab, kept>>
    BY <1>4 DEF RefreshCompares
  <2>3. refresh' \in Refreshing
    BY <2>1, NothingIsTyped DEF Refreshing
  <2>4. Locked'
    BY <1>1, <2>1, NoneAssumption DEF Locked, NoRefresh
  <2>. QED
    BY <1>1, <2>1, <2>2, <2>3, <2>4
<1>5. CASE RefreshDecides
  <2>1. PutBack(refresh.found, refresh.rows) \in Writes
    BY PutBackPutsBack, WritesAre DEF Refreshing
  <2>2. refresh' \in Refreshing
    BY <1>5, <2>1, NothingIsTyped DEF RefreshDecides, RefreshEnds, Refreshing
  <2>3. kept' \in Keeping
    <3>1. kept' = kept \/ kept' = Forgotten
      BY <1>5 DEF RefreshDecides
    <3>. QED
      BY <3>1, KeptIsTyped DEF Forgotten
  <2>4. Locked'
    BY <1>1, <1>5 DEF RefreshDecides, RefreshEnds, Locked, NoRefresh, Refreshing
  <2>. QED
    BY <1>1, <1>5, <2>2, <2>3, <2>4 DEF RefreshDecides, RefreshEnds
<1>6. CASE RefreshAdds
  BY <1>1, <1>6, NothingIsTyped DEF RefreshAdds, Locked, Refreshing
<1>7. CASE RefreshTags
  <2>1. refresh.rows \in Writes
    BY RowsAreWrite, WritesAre DEF Refreshing
  <2>2. refresh' \in Refreshing
    BY <1>7, <2>1, NothingIsTyped DEF RefreshTags, RefreshEnds, Refreshing
  <2>3. Locked'
    BY <1>1, <1>7 DEF RefreshTags, RefreshEnds, Locked, NoRefresh, Refreshing
  <2>. QED
    BY <1>1, <1>7, <2>2, <2>3 DEF RefreshTags, RefreshEnds
<1>8. CASE RefreshPuts
  <2>1. Takes(refresh.write) /\ refresh.write \in Writes
    BY <1>8 DEF RefreshPuts, Refreshing
  <2>2. tab' \in [there : BOOLEAN, tagged : BOOLEAN, rows : Seq(Rows)]
    BY <2>1, TakesIsTyped
  <2>. QED
    BY <1>1, <1>8, <2>2, NothingIsTyped DEF RefreshPuts, RefreshEnds, Locked, NoRefresh
<1>9. CASE RefreshFails
  BY <1>1, <1>9, NothingIsTyped DEF RefreshFails, Locked, NoRefresh
<1>. QED
  BY <1>2, <1>3, <1>4, <1>5, <1>6, <1>7, <1>8, <1>9 DEF RefreshStep

LEMMA HandsKeepBase ==
    ASSUME Base, EditsByHand \/ DeletesTab, UNCHANGED callVars
    PROVE  Base'
<1>. USE DEF Base, TypeOK, Keeping
<1>1. UNCHANGED <<kept, load, refresh, lock, client, call>>
  BY DEF EditsByHand, DeletesTab, callVars
<1>2. tab' \in [there : BOOLEAN, tagged : BOOLEAN, rows : Seq(Rows)]
  <2>1. CASE EditsByHand
    <3>1. PICK i \in DOMAIN tab.rows, v \in HandVals : tab' = [tab EXCEPT !.rows[i].val = v]
      BY <2>1 DEF EditsByHand
    <3>. DEFINE row == [tab.rows[i] EXCEPT !.val = v]
    <3>2. i \in 1 .. Len(tab.rows) /\ tab.rows[i] \in Rows
      BY LenProperties, ElementOfSeq
    <3>3. row \in Rows
      BY <3>2 DEF Rows
    <3>4. [tab.rows EXCEPT ![i] = row] \in Seq(Rows)
      <4>. HIDE DEF row
      <4>. QED
        BY <3>2, <3>3, ExceptSeq
    <3>5. tab' = [tab EXCEPT !.rows = [tab.rows EXCEPT ![i] = row]]
      BY <3>1
    <3>. HIDE DEF row
    <3>. QED
      BY <3>4, <3>5
  <2>2. CASE DeletesTab
    BY <2>2, NothingIsTyped DEF DeletesTab
  <2>. QED
    BY <2>1, <2>2
<1>. QED
  BY <1>1, <1>2 DEF Locked

LEMMA ClientsKeepBase ==
    ASSUME Base, (\E c \in Clients : ClientReads(c)) \/ ReaderGivesUp
    PROVE  Base'
<1>. USE DEF Base, TypeOK, Keeping
<1>1. UNCHANGED <<tab, kept, refresh, lock, call>>
  BY DEF ClientReads, ReaderGivesUp, callVars
<1>2. load' \in [{"call", "reader"} -> Loading]
  BY NothingIsTyped DEF ClientReads, ReaderGivesUp
<1>3. client' \in [Clients -> Client]
  <2>1. CASE ReaderGivesUp
    BY <2>1 DEF ReaderGivesUp, callVars
  <2>2. CASE ~ReaderGivesUp
    <3>1. PICK c \in Clients : ClientReads(c)
      BY <2>2
    <3>2. PICK rows \in Seq(Rows) :
            \E ch \in ChangesFrom(Items(rows)) :
               client' = [client EXCEPT ![c] = [at |-> "asking", view |-> Items(rows), change |-> ch]]
      <4>1. load["reader"].rows \in Seq(Rows) /\ (kept.rows # NONE => kept.rows \in Seq(Rows))
        BY DEF Loading
      <4>2. (IF kept.rows # NONE THEN {kept.rows} ELSE {})
              \cup (IF load["reader"].at = "done" THEN {load["reader"].rows} ELSE {}) \subseteq Seq(Rows)
        BY <4>1
      <4>. QED
        BY <3>1, <4>2 DEF ClientReads
    <3>3. PICK ch \in ChangesFrom(Items(rows)) :
            client' = [client EXCEPT ![c] = [at |-> "asking", view |-> Items(rows), change |-> ch]]
      BY <3>2
    <3>. DEFINE view == Items(rows)
    <3>4. view \in Seq(Rows)
      BY ItemsAreRows
    <3>. HIDE DEF view
    <3>5. \A i \in DOMAIN view : view[i] \in Rows
      BY <3>4, LenProperties, ElementOfSeq
    <3>6. ChangesFrom(view) \subseteq Changes
      BY <3>5 DEF ChangesFrom, Changes, Rows
    <3>7. ch \in Changes
      BY <3>6 DEF view
    <3>. QED
      BY <3>3, <3>4, <3>7 DEF view, Client
  <2>. QED
    BY <2>1, <2>2
<1>. QED
  BY <1>1, <1>2, <1>3 DEF Locked

LEMMA RestartsKeepsBase == Base /\ Restarts => Base'
<1>. SUFFICES ASSUME Base, Restarts PROVE Base'
  OBVIOUS
<1>1. UNCHANGED <<tab, client>> /\ kept' = NothingKept /\ refresh' = NoRefresh /\ call' = NoCall /\ lock' = NONE
  BY DEF Restarts
<1>2. load' \in [{"call", "reader"} -> Loading]
  BY NothingIsTyped DEF Restarts, Base, TypeOK
<1>. QED
  BY <1>1, <1>2, NothingIsTyped DEF Base, TypeOK, Locked, NothingKept, NoRefresh, NoCall, Keeping

\* What a call may have done to what's kept.
LEMMA CallsKeep ==
    ASSUME Base, CallStep
    PROVE  /\ kept' \in Keeping
           /\ UNCHANGED refresh /\ lock' \in {NONE, "call"}
<1>. USE DEF Base, TypeOK, Keeping
<1>1. UNCHANGED refresh
  BY DEF CallStep, CallGoesOn, CallBegins, CallFinds, CallAdds, CallTags, CallReads, CallDecides, CallSends, CallKeeps, CallFails, CallAnswers
<1>2. lock' \in {NONE, "call"}
  BY NoneAssumption DEF Locked, CallStep, CallGoesOn, CallBegins, CallFinds, CallAdds, CallTags, CallReads, CallDecides, CallSends, CallKeeps,
     CallFails, CallAnswers
<1>3. \/ kept' = kept \/ kept' = [kept EXCEPT !.known = TRUE]
      \/ kept' = [kept EXCEPT !.rows = <<>>, !.generation = @ + 1]
      \/ WritingTo \/ (call.at = "keeping" /\ Keeps(call.write)) \/ kept' = Forgotten
  BY DEF CallStep, CallGoesOn, CallBegins, CallFinds, CallAdds, CallTags, CallReads, CallDecides, CallSends, CallKeeps, CallFails, CallAnswers
<1>4. kept' \in Keeping
  <2>1. CASE Keeps(call.write)
    <3>1. IsWrite(call.write)
      BY WritesAre DEF Calling
    <3>2. kept.rows # NONE => SetRows(kept.rows, call.write) \in Seq(Rows)
      BY <3>1, SetRowsSetsRows
    <3>. DEFINE rows == IF kept.rows = NONE THEN NONE ELSE SetRows(kept.rows, call.write)
    <3>3. rows \in Seq(Rows) \cup {NONE}
      BY <3>2
    <3>4. kept' = [kept EXCEPT !.generation = @ + 1, !.rows = rows]
      BY <2>1 DEF Keeps
    <3>. HIDE DEF rows
    <3>. QED
      BY <3>3, <3>4, KeptIsTyped
  <2>2. CASE ~Keeps(call.write)
    <3>1. NONE \in Seq(Rows) \cup {NONE} /\ <<>> \in Seq(Rows) \cup {NONE}
      BY NothingIsTyped
    <3>2. [kept EXCEPT !.known = TRUE] \in Keeping
      OBVIOUS
    <3>. HIDE DEF Keeping
    <3>3. kept' = [kept EXCEPT !.rows = <<>>, !.generation = @ + 1] => kept' \in Keeping
      BY <3>1, KeptIsTyped
    <3>4. WritingTo \/ kept' = Forgotten => kept' \in Keeping
      BY <3>1, KeptIsTyped DEF WritingTo, Forgotten
    <3>. QED
      BY <1>3, <2>2, <3>2, <3>3, <3>4
  <2>. QED
    BY <2>1, <2>2
<1>. QED
  BY <1>1, <1>2, <1>4

LEMMA CallsWrite ==
    ASSUME Base, CallStep
    PROVE  tab' \in [there : BOOLEAN, tagged : BOOLEAN, rows : Seq(Rows)]
<1>. USE DEF Base, TypeOK, Keeping
<1>1. \/ tab' = tab \/ tab' = [NoTab EXCEPT !.there = TRUE] \/ tab' = [tab EXCEPT !.tagged = TRUE]
      \/ Takes(call.write)
  BY DEF CallStep, CallGoesOn, CallBegins, CallFinds, CallAdds, CallTags, CallReads, CallDecides, CallSends, CallKeeps, CallFails, CallAnswers
<1>2. CASE Takes(call.write)
  <2>1. call.write \in Writes
    BY DEF Calling
  <2>. QED
    BY <1>2, <2>1, TakesIsTyped
<1>3. CASE ~Takes(call.write)
  BY <1>1, <1>3, NothingIsTyped
<1>. QED
  BY <1>2, <1>3

LEMMA CallsKeepBase ==
    ASSUME Base, CallStep
    PROVE  Base'
<1>. USE DEF Base, TypeOK, Keeping
<1>1. /\ kept' \in Keeping
      /\ UNCHANGED refresh /\ lock' \in {NONE, "call", "refresh"}
      /\ tab' \in [there : BOOLEAN, tagged : BOOLEAN, rows : Seq(Rows)]
  BY CallsKeep, CallsWrite
<1>2. load' \in [{"call", "reader"} -> Loading]
  BY NothingIsTyped DEF CallStep, CallGoesOn, CallBegins, CallFinds, CallAdds, CallTags, CallReads, CallDecides, CallSends, CallKeeps, CallFails, CallAnswers
<1>3. client' \in [Clients -> Client]
  <2>1. client' = client \/ client' = [client EXCEPT ![call.who].at = "done"]
    BY DEF CallStep, CallGoesOn, CallBegins, CallFinds, CallAdds, CallTags, CallReads, CallDecides, CallSends, CallKeeps, CallFails, CallAnswers
  <2>2. CASE client' = [client EXCEPT ![call.who].at = "done"]
    <3>1. \A c \in Clients : client'[c] = client[c] \/ client'[c] = [client[c] EXCEPT !.at = "done"]
      BY <2>2
    <3>2. client' = [c \in Clients |-> client'[c]]
      BY <2>2
    <3>3. \A r \in Client : [r EXCEPT !.at = "done"] \in Client
      BY DEF Client
    <3>4. \A c \in Clients : client'[c] \in Client
      <4>. TAKE c \in Clients
      <4>1. client[c] \in Client
        OBVIOUS
      <4>2. [client[c] EXCEPT !.at = "done"] \in Client
        BY <3>3, <4>1
      <4>. QED
        BY <3>1, <4>1, <4>2
    <3>. QED
      BY <3>2, <3>4
  <2>. QED
    BY <2>1, <2>2
<1>4. call' \in Calling /\ Locked'
  <2>1. ASSUME NEW c \in Clients, CallBegins(c) PROVE call' \in Calling /\ Locked'
    <3>1. call' \in Calling
      BY <2>1, NothingIsTyped DEF CallBegins, Calling
    <3>2. call'.who = c
      BY <2>1, NothingIsTyped DEF CallBegins, Calling
    <3>. QED
      BY <1>1, <2>1, <3>1, <3>2, NoneAssumption DEF CallBegins, Locked
  <2>2. CASE CallFinds \/ CallTags
    <3>1. call' = [call EXCEPT !.at = "reading"] \/ call' = [call EXCEPT !.at = "adding"]
          \/ call' = [call EXCEPT !.at = "answering", !.result = "built"]
      BY <2>2 DEF CallFinds, CallTags, Built
    <3>2. call' \in Calling /\ call'.who = call.who
      BY <3>1 DEF Calling, Results
    <3>3. call.at # "none" /\ UNCHANGED lock
      BY <2>2 DEF CallFinds, CallTags
    <3>. QED
      BY <1>1, <3>2, <3>3 DEF Locked
  <2>3. CASE CallAdds
    BY <1>1, <2>3, NothingIsTyped DEF CallAdds, Calling, Locked
  <2>4. CASE CallReads
    <3>1. call' \in Calling
      BY <2>4 DEF CallReads, Calling, Loading
    <3>. QED
      BY <1>1, <2>4, <3>1 DEF CallReads, Locked, Calling
  <2>5. CASE CallDecides
    <3>. DEFINE outcome == OutcomeOf(Items(call.rows), call.who, client[call.who].change)
                write == Changing(2, Filled(outcome.items, Len(call.rows) - 1))
    <3>1. call.who \in Clients /\ client[call.who].change \in Changes /\ lock = "call"
      BY <2>5 DEF CallDecides, Locked, Client
    <3>2. Items(call.rows) \in Seq(Rows) /\ Len(call.rows) - 1 \in Int
      BY ItemsAreRows, LenProperties DEF Calling
    <3>3. outcome.items \in Seq(Rows) /\ outcome.result \in Results
      BY <3>1, <3>2, OutcomeIsTyped
    <3>4. write \in Writes
      <4>. HIDE DEF outcome
      <4>1. Filled(outcome.items, Len(call.rows) - 1) \in Seq(Rows)
        BY <3>2, <3>3, FilledAreRows
      <4>. QED
        BY <4>1, ChangingIsWrite, WritesAre
    <3>5. \/ call' = [call EXCEPT !.at = "answering", !.result = "refused"]
          \/ call' = [call EXCEPT !.at = "answering", !.result = outcome.result]
          \/ call' = [call EXCEPT !.at = "sending", !.result = "made", !.rows = <<>>, !.write = write]
      BY <2>5, Zenon DEF CallDecides
    <3>6. UNCHANGED lock
      BY <2>5 DEF CallDecides
    <3>. HIDE DEF outcome, write
    <3>7. call' \in Calling /\ call'.who = call.who
      <4>1. "refused" \in Results /\ "made" \in Results /\ <<>> \in Seq(Rows)
        BY NothingIsTyped DEF Results
      <4>. QED
        BY <3>3, <3>4, <3>5, <4>1 DEF Calling
    <3>. QED
      BY <1>1, <2>5, <3>1, <3>6, <3>7 DEF Locked, CallDecides
  <2>6. CASE CallSends \/ CallKeeps
    BY <1>1, <2>6 DEF CallSends, CallKeeps, Calling, Locked
  <2>7. CASE CallFails
    <3>1. call.at # "none" /\ call' = [call EXCEPT !.at = "answering", !.result = "failed"] /\ UNCHANGED lock
      BY <2>7 DEF CallFails
    <3>. QED
      BY <1>1, <3>1 DEF Calling, Locked, Results
  <2>8. CASE CallAnswers
    <3>1. lock = "call" /\ lock' = NONE /\ call' = NoCall
      BY <2>8 DEF CallAnswers, Locked
    <3>. QED
      BY <1>1, <3>1, NothingIsTyped, NoneAssumption DEF Locked, NoCall
  <2>. QED
    BY <2>1, <2>2, <2>3, <2>4, <2>5, <2>6, <2>7, <2>8 DEF CallStep, CallGoesOn
<1>. QED
  BY <1>1, <1>2, <1>3, <1>4

LEMMA BaseStep == Base /\ [Next]_vars => Base'
<1>. SUFFICES ASSUME Base, [Next]_vars PROVE Base'
  OBVIOUS
<1>1. CASE UNCHANGED vars
  BY <1>1 DEF vars, Base, TypeOK, Locked
<1>2. CASE Next
  BY <1>2, LoadsKeepBase, RefreshKeepsBase, HandsKeepBase, ClientsKeepBase, CallsKeepBase, RestartsKeepsBase DEF Next
<1>. QED
  BY <1>1, <1>2

\* What's kept, what's read and written and the calls under way keep their
\* types, and no two writers -- a call and a refresh putting rows back --
\* are ever at work at once (tools/mod.rs run, sheets.rs refresh).
THEOREM RowsBaseHolds == Spec => []Base
BY BaseInit, BaseStep, PTL DEF Spec

-----------------------------------------------------------------------------
(* What's kept is the tab's.                                               *)

\* Rows a call is about to write, or has written and is about to keep.
Pending(i) == call.at \in {"heading", "sending", "keeping"} /\ i \in DOMAIN call.write
AsTab(rows) == \A i \in Nat : RowAt(rows, i) = RowAt(tab.rows, i) \/ i \in byHand \/ Pending(i)

KeptAsTab == tab.there /\ kept.rows # NONE => AsTab(kept.rows)

\* What's been read, and no write was begun since: it'll be kept.
WillBeKept(a) == load[a].at = "answered" /\ load[a].generation = kept.generation /\ kept.rows = NONE
LoadsAsTab == \A a \in {"call", "reader"} : tab.there /\ WillBeKept(a) => AsTab(load[a].rows)
LoadsBefore == \A a \in {"call", "reader"} : load[a].at # "none" => load[a].generation <= kept.generation

WrittenAsTab ==
    call.at = "keeping" /\ tab.there =>
        \A i \in DOMAIN call.write : RowAt(tab.rows, i) = call.write[i] \/ i \in byHand

\* A refresh has the rows kept as it began, unless they were written since.
RefreshAsKept ==
    refresh.at # "none" =>
        /\ refresh.generation <= kept.generation
        /\ refresh.generation = kept.generation => kept.rows # NONE /\ kept.rows = refresh.rows
PutsBackKept ==
    /\ refresh.at \in {"adding", "tagging", "putting"} => refresh.generation = kept.generation
    /\ refresh.at = "putting" => \A i \in DOMAIN refresh.write : refresh.write[i] = RowAt(refresh.rows, i)

KeptInv == Base /\ KeptAsTab /\ LoadsAsTab /\ LoadsBefore /\ WrittenAsTab /\ RefreshAsKept /\ PutsBackKept

LEMMA KeptInit == Init => KeptInv
<1>. SUFFICES ASSUME Init PROVE KeptInv
  OBVIOUS
<1>1. kept.rows = NONE /\ call.at = "none" /\ refresh.at = "none" /\ \A a \in {"call", "reader"} : load[a].at = "none"
  BY DEF Init, TabInit, NothingKept, NoCall, NoRefresh, NoLoad
<1>. QED
  BY <1>1, BaseInit DEF KeptInv, KeptAsTab, LoadsAsTab, WillBeKept, LoadsBefore, WrittenAsTab, RefreshAsKept, PutsBackKept

\* Nothing but the loads changes.
LEMMA LoadsKeepKept ==
    ASSUME KeptInv, Loads, UNCHANGED callVars
    PROVE  KeptInv'
<1>. USE DEF KeptInv
<1>1. Base'
  BY LoadsKeepBase
<1>2. PICK a \in {"call", "reader"} : LoadStep(a)
  BY DEF Loads, Base, TypeOK
<1>3. UNCHANGED <<tab, refresh, lock, byHand, call>> /\ kept'.generation = kept.generation
  BY <1>2 DEF LoadStep, LoadAsks, LoadAnswered, LoadFails, LoadKeeps, callVars, Base, TypeOK, Keeping
<1>4. /\ (kept'.rows = kept.rows \/ kept.rows = NONE)
      /\ \A b \in {"call", "reader"} : b # a => load'[b] = load[b]
  BY <1>2 DEF LoadStep, LoadAsks, LoadAnswered, LoadFails, LoadKeeps, Base, TypeOK, Keeping
<1>5. kept'.rows = kept.rows \/ (kept'.rows = load[a].rows /\ WillBeKept(a))
  BY <1>2 DEF LoadStep, LoadAsks, LoadAnswered, LoadFails, LoadKeeps, WillBeKept, Base, TypeOK, Keeping
<1>7. KeptAsTab'
  BY <1>3, <1>5 DEF KeptAsTab, LoadsAsTab, AsTab, Pending
<1>8. /\ \/ load'[a].generation = kept.generation
         \/ load'[a].generation = load[a].generation /\ load[a].at # "none"
      /\ load'[a].at = "answered" => load'[a].rows = tab.rows
  <2>. USE DEF Base, TypeOK, Loading
  <2>1. CASE LoadAsks(a)
    BY <2>1 DEF LoadAsks
  <2>2. CASE LoadAnswered(a)
    <3>1. load'[a] = [load[a] EXCEPT !.at = "answered", !.rows = tab.rows] /\ load[a].at = "asked" /\ load[a] \in Loading
      BY <2>2 DEF LoadAnswered
    <3>. QED
      BY <3>1
  <2>3. CASE LoadFails(a) \/ LoadKeeps(a)
    <3>1. load'[a] = [load[a] EXCEPT !.at = "failed"] \/ load'[a] = [load[a] EXCEPT !.at = "done"]
      BY <2>3 DEF LoadFails, LoadKeeps
    <3>2. load[a].at # "none" /\ load[a] \in Loading
      BY <2>3 DEF LoadFails, LoadKeeps
    <3>. QED
      BY <3>1, <3>2
  <2>. QED
    BY <1>2, <2>1, <2>2, <2>3 DEF LoadStep
<1>9. load[a] \in Loading /\ kept.generation \in Nat
  BY DEF Base, TypeOK, Keeping
<1>10. LoadsBefore'
  <2>1. load'[a].generation <= kept.generation
    <3>1. CASE load'[a].generation = kept.generation
      BY <1>9, <3>1
    <3>2. CASE load'[a].generation = load[a].generation /\ load[a].at # "none"
      BY <3>2 DEF LoadsBefore
    <3>. QED
      BY <1>8, <3>1, <3>2
  <2>. QED
    BY <1>3, <1>4, <2>1 DEF LoadsBefore
<1>11. LoadsAsTab'
  <2>. SUFFICES ASSUME NEW b \in {"call", "reader"}, tab.there, load'[b].at = "answered",
                       load'[b].generation = kept.generation, kept'.rows = NONE
       PROVE  \A i \in Nat : RowAt(load'[b].rows, i) = RowAt(tab.rows, i) \/ i \in byHand \/ Pending(i)
    BY <1>3 DEF LoadsAsTab, WillBeKept, AsTab, Pending
  <2>1. CASE b = a
    <3>1. load'[a].rows = tab.rows
      BY <1>8, <2>1
    <3>. QED
      BY <2>1, <3>1
  <2>2. CASE b # a
    <3>2. kept.rows = NONE
      BY <1>4
    <3>. QED
      BY <1>4, <2>2, <3>2 DEF LoadsAsTab, WillBeKept, AsTab
  <2>. QED
    BY <2>1, <2>2
<1>12. WrittenAsTab' /\ PutsBackKept'
  BY <1>3 DEF WrittenAsTab, PutsBackKept
<1>13. RefreshAsKept'
  BY <1>3, <1>4 DEF RefreshAsKept
<1>. QED
  BY <1>1, <1>7, <1>10, <1>11, <1>12, <1>13

\* Rows that aren't kept, tab or loads: nothing to see to.
LEMMA NothingSeen ==
    ASSUME KeptInv, UNCHANGED <<tab, kept, byHand, call>>,
           \A a \in {"call", "reader"} : load'[a] = load[a] \/ load'[a].at = "none"
    PROVE  KeptAsTab' /\ LoadsAsTab' /\ LoadsBefore' /\ WrittenAsTab'
BY DEF KeptInv, KeptAsTab, LoadsAsTab, WillBeKept, LoadsBefore, WrittenAsTab, AsTab, Pending

LEMMA RefreshKeepsKept ==
    ASSUME KeptInv, RefreshStep, UNCHANGED callVars
    PROVE  KeptInv'
<1>. USE DEF KeptInv
<1>1. Base' /\ UNCHANGED <<load, call>>
  BY RefreshKeepsBase DEF RefreshStep, RefreshBegins, RefreshReads, RefreshCompares, RefreshDecides, RefreshAdds, RefreshTags,
     RefreshPuts, RefreshFails, callVars
<1>2. refresh \in Refreshing /\ kept.generation \in Nat
  BY DEF Base, TypeOK, Keeping
<1>3. ASSUME UNCHANGED <<tab, kept, byHand>> PROVE KeptAsTab' /\ LoadsAsTab' /\ LoadsBefore' /\ WrittenAsTab'
  BY <1>1, <1>3, NothingSeen
<1>4. CASE RefreshBegins
  <2>1. RefreshAsKept' /\ PutsBackKept'
    BY <1>2, <1>4 DEF RefreshBegins, NoRefresh, RefreshAsKept, PutsBackKept
  <2>. QED
    BY <1>1, <1>3, <1>4, <2>1 DEF RefreshBegins
<1>5. CASE RefreshReads \/ RefreshCompares
  <2>1. /\ UNCHANGED <<tab, kept, byHand>>
        /\ refresh'.at \in {"none", "compare", "locked"}
        /\ refresh'.at # "none" => refresh.at # "none" /\ refresh'.generation = refresh.generation /\ refresh'.rows = refresh.rows
    <3>1. CASE RefreshReads
      <4>1. refresh' = [refresh EXCEPT !.at = "compare", !.found = tab.rows, !.gone = ~tab.there] /\ refresh.at = "asked"
        BY <3>1 DEF RefreshReads
      <4>. QED
        BY <1>2, <3>1, <4>1 DEF RefreshReads, Refreshing
    <3>2. CASE RefreshCompares
      <4>1. (refresh' = [refresh EXCEPT !.at = "locked"] \/ refresh' = NoRefresh) /\ refresh.at = "compare"
        BY <3>2 DEF RefreshCompares
      <4>. QED
        BY <1>2, <3>2, <4>1 DEF RefreshCompares, Refreshing, NoRefresh
    <3>. QED
      BY <1>5, <3>1, <3>2
  <2>2. RefreshAsKept' /\ PutsBackKept'
    BY <2>1 DEF RefreshAsKept, PutsBackKept
  <2>. QED
    BY <1>1, <1>3, <2>1, <2>2
<1>6. CASE RefreshFails
  <2>1. RefreshAsKept' /\ PutsBackKept'
    BY <1>6 DEF RefreshFails, NoRefresh, RefreshAsKept, PutsBackKept
  <2>. QED
    BY <1>1, <1>3, <1>6, <2>1 DEF RefreshFails
<1>7. CASE RefreshDecides
  <2>1. CASE kept' = kept
    <3>1. UNCHANGED <<tab, byHand>>
      BY <1>7 DEF RefreshDecides
    <3>2. \/ refresh'.at = "none"
          \/ /\ refresh'.at \in {"putting", "adding"} /\ refresh'.generation = refresh.generation /\ refresh'.rows = refresh.rows
             /\ refresh.generation = kept.generation /\ refresh.at # "none"
             /\ refresh'.at = "putting" => refresh'.write = PutBack(refresh.found, refresh.rows)
      <4>1. /\ refresh.at = "locked"
            /\ \/ refresh' = NoRefresh
               \/ /\ refresh.generation = kept.generation
                  /\ \/ refresh' = [refresh EXCEPT !.at = "putting", !.write = PutBack(refresh.found, refresh.rows)]
                     \/ refresh' = [refresh EXCEPT !.at = "adding"]
        BY <1>7 DEF RefreshDecides, RefreshEnds, Unwritten
      <4>2. CASE refresh' = NoRefresh
        BY <4>2 DEF NoRefresh
      <4>3. CASE refresh' = [refresh EXCEPT !.at = "putting", !.write = PutBack(refresh.found, refresh.rows)]
        BY <1>2, <4>1, <4>3 DEF Refreshing, NoRefresh
      <4>4. CASE refresh' = [refresh EXCEPT !.at = "adding"]
        BY <1>2, <4>1, <4>4 DEF Refreshing, NoRefresh
      <4>. QED
        BY <4>1, <4>2, <4>3, <4>4
    <3>3. \A i \in DOMAIN PutBack(refresh.found, refresh.rows) : PutBack(refresh.found, refresh.rows)[i] = RowAt(refresh.rows, i)
      BY <1>2, PutBackPutsBack DEF Refreshing
    <3>4. RefreshAsKept'
      BY <2>1, <3>2 DEF RefreshAsKept
    <3>5. PutsBackKept'
      BY <2>1, <3>2, <3>3 DEF PutsBackKept
    <3>. QED
      BY <1>1, <1>3, <2>1, <3>1, <3>4, <3>5
  <2>2. CASE kept' # kept
    <3>1. kept' = Forgotten /\ refresh' = NoRefresh /\ UNCHANGED <<tab, byHand>>
      BY <1>7, <2>2 DEF RefreshDecides, RefreshEnds
    <3>2. kept'.rows = NONE /\ kept'.generation = kept.generation + 1
      BY <3>1 DEF Forgotten, Base, TypeOK, Keeping
    <3>3. KeptAsTab' /\ RefreshAsKept' /\ PutsBackKept'
      BY <3>1, <3>2 DEF KeptAsTab, RefreshAsKept, PutsBackKept, NoRefresh
    <3>4. \A a \in {"call", "reader"} : load[a].generation \in Nat
      BY DEF Base, TypeOK, Loading
    <3>5. LoadsAsTab' /\ LoadsBefore'
      BY <1>1, <1>2, <3>2, <3>4 DEF LoadsBefore, LoadsAsTab, WillBeKept
    <3>6. WrittenAsTab'
      BY <1>1, <3>1 DEF WrittenAsTab
    <3>. QED
      BY <1>1, <3>3, <3>5, <3>6
  <2>. QED
    BY <2>1, <2>2
<1>8. CASE RefreshAdds
  <2>1. kept.rows # NONE /\ refresh.generation = kept.generation /\ call.at = "none"
    BY <1>8, NoneAssumption DEF RefreshAdds, RefreshAsKept, PutsBackKept, Base, Locked
  <2>2. kept' = kept /\ byHand' = DOMAIN kept.rows /\ tab'.rows = <<>>
        /\ refresh'.at = "tagging" /\ refresh'.generation = refresh.generation /\ refresh'.rows = refresh.rows
    BY <1>2, <1>8 DEF RefreshAdds, NoTab, Refreshing
  <2>3. \A i : RowAt(<<>>, i) = Blank
    BY DEF RowAt
  <2>4. KeptAsTab'
    BY <2>2, <2>3 DEF KeptAsTab, AsTab, RowAt
  <2>5. LoadsAsTab' /\ LoadsBefore'
    BY <1>1, <2>1, <2>2 DEF LoadsAsTab, WillBeKept, LoadsBefore
  <2>6. WrittenAsTab'
    BY <1>1, <2>1 DEF WrittenAsTab
  <2>7. RefreshAsKept' /\ PutsBackKept'
    BY <1>8, <2>1, <2>2 DEF RefreshAsKept, PutsBackKept, RefreshAdds
  <2>. QED
    BY <1>1, <2>4, <2>5, <2>6, <2>7
<1>9. CASE RefreshTags
  <2>1. UNCHANGED <<kept, byHand>> /\ tab'.rows = tab.rows /\ tab'.there = tab.there
    BY <1>9 DEF RefreshTags, Base, TypeOK
  <2>2. KeptAsTab' /\ LoadsAsTab' /\ LoadsBefore' /\ WrittenAsTab'
    BY <1>1, <2>1 DEF KeptAsTab, LoadsAsTab, WillBeKept, LoadsBefore, WrittenAsTab, AsTab, Pending
  <2>3. \/ refresh'.at = "none"
        \/ /\ refresh'.at = "putting" /\ refresh'.generation = refresh.generation /\ refresh'.rows = refresh.rows
           /\ refresh'.write = refresh.rows /\ refresh.at = "tagging"
    <3>1. /\ refresh.at = "tagging"
          /\ (refresh' = NoRefresh \/ refresh' = [refresh EXCEPT !.at = "putting", !.write = refresh.rows])
      BY <1>9 DEF RefreshTags, RefreshEnds
    <3>2. CASE refresh' = NoRefresh
      BY <3>2 DEF NoRefresh
    <3>3. CASE refresh' = [refresh EXCEPT !.at = "putting", !.write = refresh.rows]
      BY <1>2, <3>1, <3>3 DEF Refreshing
    <3>. QED
      BY <3>1, <3>2, <3>3
  <2>4. RefreshAsKept'
    BY <2>1, <2>3 DEF RefreshAsKept
  <2>5. PutsBackKept'
    BY <2>1, <2>3 DEF PutsBackKept, RowAt
  <2>. QED
    BY <1>1, <2>2, <2>4, <2>5
<1>10. CASE RefreshPuts
  <2>1. /\ Takes(refresh.write) /\ refresh.write \in Writes /\ refresh.at = "putting"
        /\ kept' = kept /\ refresh' = NoRefresh /\ byHand' = byHand \ DOMAIN refresh.write
    BY <1>2, <1>10 DEF RefreshPuts, RefreshEnds, Takes, Refreshing
  <2>2. kept.rows # NONE /\ kept.rows = refresh.rows /\ call.at = "none"
    BY <2>1, NoneAssumption DEF RefreshAsKept, PutsBackKept, Base, Locked
  <2>3. /\ tab.there
        /\ \A i \in Nat : i \in DOMAIN refresh.write => RowAt(tab'.rows, i) = refresh.write[i]
        /\ \A i \in Nat : i \notin DOMAIN refresh.write => RowAt(tab'.rows, i) = RowAt(tab.rows, i)
    BY <2>1, TakesIsTyped DEF Base, Takes
  <2>4. KeptAsTab'
    <3>. SUFFICES ASSUME NEW i \in Nat, i \notin byHand' PROVE RowAt(kept.rows, i) = RowAt(tab'.rows, i)
      BY <2>1 DEF KeptAsTab, AsTab
    <3>1. CASE i \in DOMAIN refresh.write
      BY <2>1, <2>2, <2>3, <3>1 DEF PutsBackKept
    <3>2. CASE i \notin DOMAIN refresh.write
      BY <2>1, <2>2, <2>3, <3>2 DEF KeptAsTab, AsTab, Pending
    <3>. QED
      BY <3>1, <3>2
  <2>5. LoadsAsTab' /\ LoadsBefore'
    BY <1>1, <2>1, <2>2 DEF LoadsAsTab, WillBeKept, LoadsBefore
  <2>6. WrittenAsTab' /\ RefreshAsKept' /\ PutsBackKept'
    BY <1>1, <2>1, <2>2 DEF WrittenAsTab, RefreshAsKept, PutsBackKept, NoRefresh
  <2>. QED
    BY <1>1, <2>4, <2>5, <2>6
<1>. QED
  BY <1>4, <1>5, <1>6, <1>7, <1>8, <1>9, <1>10 DEF RefreshStep

LEMMA HandsKeepKept ==
    ASSUME KeptInv, EditsByHand \/ DeletesTab, UNCHANGED callVars
    PROVE  KeptInv'
<1>. USE DEF KeptInv
<1>1. Base' /\ UNCHANGED <<kept, load, refresh, call>>
  BY HandsKeepBase DEF EditsByHand, DeletesTab, callVars
<1>2. LoadsBefore' /\ RefreshAsKept' /\ PutsBackKept'
  BY <1>1 DEF LoadsBefore, RefreshAsKept, PutsBackKept
<1>3. CASE DeletesTab
  <2>1. ~tab'.there
    BY <1>3 DEF DeletesTab, NoTab
  <2>. QED
    BY <1>1, <1>2, <2>1 DEF KeptAsTab, LoadsAsTab, WrittenAsTab
<1>4. CASE EditsByHand
  <2>1. PICK i \in DOMAIN tab.rows, v \in HandVals : tab' = [tab EXCEPT !.rows[i].val = v] /\ byHand' = byHand \cup {i}
    BY <1>4 DEF EditsByHand
  <2>2. tab.rows \in Seq(Rows) /\ tab \in [there : BOOLEAN, tagged : BOOLEAN, rows : Seq(Rows)]
    BY DEF Base, TypeOK
  <2>3. tab'.there = tab.there /\ tab'.rows = [tab.rows EXCEPT ![i].val = v]
    BY <2>1, <2>2
  <2>4. DOMAIN tab'.rows = DOMAIN tab.rows /\ \A j : j \in DOMAIN tab.rows /\ j # i => tab'.rows[j] = tab.rows[j]
    BY <2>2, <2>3
  <2>5. \A j : j # i => RowAt(tab'.rows, j) = RowAt(tab.rows, j)
    BY <2>4 DEF RowAt
  <2>6. \A j : j \notin byHand' => j \notin byHand /\ j # i
    BY <2>1
  <2>7. \A rows : AsTab(rows) =>
          \A j \in Nat : RowAt(rows, j) = RowAt(tab'.rows, j) \/ j \in byHand' \/ Pending(j)
    BY <2>5, <2>6 DEF AsTab
  <2>8. KeptAsTab' /\ LoadsAsTab'
    BY <1>1, <2>3, <2>7 DEF KeptAsTab, LoadsAsTab, WillBeKept, AsTab, Pending
  <2>9. WrittenAsTab'
    BY <1>1, <2>3, <2>5, <2>6 DEF WrittenAsTab
  <2>. QED
    BY <1>1, <1>2, <2>8, <2>9
<1>. QED
  BY <1>3, <1>4

LEMMA ClientsKeepKept ==
    ASSUME KeptInv, (\E c \in Clients : ClientReads(c)) \/ ReaderGivesUp
    PROVE  KeptInv'
<1>. USE DEF KeptInv
<1>1. Base' /\ UNCHANGED <<tab, kept, refresh, byHand, call>>
  BY ClientsKeepBase DEF ClientReads, ReaderGivesUp, callVars
<1>2. \A a \in {"call", "reader"} : load'[a] = load[a] \/ load'[a].at = "none"
  <2>1. load' = [load EXCEPT !["reader"] = IF @.at = "done" THEN NoLoad ELSE @] \/ load' = [load EXCEPT !["reader"] = NoLoad]
    BY DEF ClientReads, ReaderGivesUp
  <2>. QED
    BY <2>1 DEF Base, TypeOK, NoLoad
<1>3. KeptAsTab' /\ LoadsAsTab' /\ LoadsBefore' /\ WrittenAsTab'
  BY <1>1, <1>2, NothingSeen
<1>4. RefreshAsKept' /\ PutsBackKept'
  BY <1>1 DEF RefreshAsKept, PutsBackKept
<1>. QED
  BY <1>1, <1>3, <1>4

LEMMA RestartsKeepKept == KeptInv /\ Restarts => KeptInv'
<1>. SUFFICES ASSUME KeptInv, Restarts PROVE KeptInv'
  OBVIOUS
<1>1. Base'
  BY RestartsKeepsBase DEF KeptInv
<1>2. kept'.rows = NONE /\ call'.at = "none" /\ refresh'.at = "none" /\ \A a \in {"call", "reader"} : load'[a].at = "none"
  BY DEF Restarts, NothingKept, NoCall, NoRefresh, NoLoad, KeptInv, Base, TypeOK
<1>. QED
  BY <1>1, <1>2 DEF KeptInv, KeptAsTab, LoadsAsTab, WillBeKept, LoadsBefore, WrittenAsTab, RefreshAsKept, PutsBackKept

\* While a call holds the lock, no refresh puts rows back.
LEMMA CallsAlone ==
    ASSUME Base, CallStep
    PROVE  UNCHANGED refresh /\ refresh.at \notin {"locked", "adding", "tagging", "putting"}
<1>1. UNCHANGED refresh
  BY CallsKeep
<1>2. lock # "refresh"
  <2>1. call.at # "none" \/ lock = NONE
    BY DEF CallStep, CallGoesOn, CallBegins, CallFinds, CallAdds, CallTags, CallReads, CallDecides, CallSends, CallKeeps, CallFails, CallAnswers
  <2>. QED
    BY <2>1, NoneAssumption DEF Base, Locked
<1>. QED
  BY <1>1, <1>2 DEF Base, Locked

LEMMA CallsKeepLoads ==
    ASSUME Base, CallStep
    PROVE  \A a \in {"call", "reader"} : load'[a] = load[a] \/ load'[a].at = "none"
<1>1. load' = load \/ load' = [load EXCEPT !["call"] = NoLoad]
  BY DEF CallStep, CallGoesOn, CallBegins, CallFinds, CallAdds, CallTags, CallReads, CallDecides, CallSends, CallKeeps, CallFails, CallAnswers
<1>. QED
  BY <1>1 DEF Base, TypeOK, NoLoad

\* What was read before a write began, or of what's forgotten, isn't kept,
\* and what a refresh began with isn't put back.
LEMMA NewGeneration ==
    ASSUME KeptInv, CallStep, kept'.generation = kept.generation + 1
    PROVE  LoadsAsTab' /\ LoadsBefore' /\ RefreshAsKept' /\ PutsBackKept'
<1>. USE DEF KeptInv
<1>1. /\ UNCHANGED refresh /\ refresh.at \notin {"locked", "adding", "tagging", "putting"}
      /\ \A a \in {"call", "reader"} : load'[a] = load[a] \/ load'[a].at = "none"
  BY CallsAlone, CallsKeepLoads
<1>2. kept.generation \in Nat /\ refresh.generation \in Nat /\ \A a \in {"call", "reader"} : load[a].generation \in Nat
  BY DEF Base, TypeOK, Keeping, Refreshing, Loading
<1>3. \A a \in {"call", "reader"} : load'[a].at # "none" => load'[a].generation \in Nat /\ load'[a].generation <= kept.generation
  BY <1>1, <1>2 DEF LoadsBefore
<1>4. LoadsBefore' /\ LoadsAsTab'
  BY <1>2, <1>3 DEF LoadsBefore, LoadsAsTab, WillBeKept
<1>5. RefreshAsKept' /\ PutsBackKept'
  BY <1>1, <1>2 DEF RefreshAsKept, PutsBackKept
<1>. QED
  BY <1>4, <1>5

\* A step of a call that neither writes nor keeps.
LEMMA CallsGoOn ==
    ASSUME KeptInv, CallStep, tab'.rows = tab.rows, tab'.there = tab.there, kept'.rows = kept.rows,
           kept'.generation = kept.generation, byHand' = byHand, ~Writing, ~Writing'
    PROVE  KeptInv'
<1>. USE DEF KeptInv
<1>1. Base'
  BY CallsKeepBase
<1>2. /\ UNCHANGED refresh
      /\ \A a \in {"call", "reader"} : load'[a] = load[a] \/ load'[a].at = "none"
  BY CallsAlone, CallsKeepLoads
<1>3. KeptAsTab' /\ LoadsAsTab' /\ LoadsBefore' /\ WrittenAsTab'
  BY <1>2 DEF KeptAsTab, LoadsAsTab, WillBeKept, LoadsBefore, WrittenAsTab, AsTab, Pending, Writing
<1>4. RefreshAsKept' /\ PutsBackKept'
  BY <1>2 DEF RefreshAsKept, PutsBackKept
<1>. QED
  BY <1>1, <1>3, <1>4

LEMMA CallsForget ==
    ASSUME KeptInv, CallStep, kept' = Forgotten, ~Writing'
    PROVE  KeptInv'
<1>1. kept'.rows = NONE /\ kept'.generation = kept.generation + 1
  BY DEF Forgotten, KeptInv, Base, TypeOK, Keeping
<1>2. Base'
  BY CallsKeepBase DEF KeptInv
<1>3. KeptAsTab' /\ WrittenAsTab'
  BY <1>1 DEF KeptAsTab, WrittenAsTab, Writing
<1>. QED
  BY <1>1, <1>2, <1>3, NewGeneration DEF KeptInv

LEMMA CallSendsKeepsKept == KeptInv /\ CallSends => KeptInv'
<1>. SUFFICES ASSUME KeptInv, CallSends PROVE KeptInv'
  OBVIOUS
<1>. USE DEF KeptInv
<1>1. CallStep
  BY DEF CallStep, CallGoesOn
<1>2. Base' /\ UNCHANGED <<kept, load, refresh>>
  BY <1>1, CallsKeepBase DEF CallSends
<1>3. call.write \in Writes /\ call.at \in {"heading", "sending"} /\ Takes(call.write) /\ call'.at = "keeping" /\ call'.write = call.write
  BY DEF CallSends, Base, TypeOK, Calling
<1>4. /\ tab.there /\ byHand' = byHand \ DOMAIN call.write
      /\ \A i \in Nat : i \in DOMAIN call.write => RowAt(tab'.rows, i) = call.write[i]
      /\ \A i \in Nat : i \notin DOMAIN call.write => RowAt(tab'.rows, i) = RowAt(tab.rows, i)
  BY <1>3, TakesIsTyped DEF Base, Takes
<1>6. KeptAsTab' /\ LoadsAsTab' /\ LoadsBefore'
  <2>1. \A rows : AsTab(rows) =>
          \A i \in Nat : RowAt(rows, i) = RowAt(tab'.rows, i) \/ i \in byHand' \/ (call'.at \in {"heading", "sending", "keeping"} /\ i \in DOMAIN call'.write)
    BY <1>3, <1>4 DEF AsTab, Pending
  <2>. QED
    BY <1>2, <1>4, <2>1 DEF KeptAsTab, LoadsAsTab, WillBeKept, LoadsBefore, AsTab, Pending
<1>7. WrittenAsTab'
  <2>1. \A i \in DOMAIN call.write : i \in Nat
    BY <1>3 DEF Writes
  <2>. QED
    BY <1>3, <1>4, <2>1 DEF WrittenAsTab
<1>8. RefreshAsKept' /\ PutsBackKept'
  BY <1>2 DEF RefreshAsKept, PutsBackKept
<1>. QED
  BY <1>2, <1>6, <1>7, <1>8

LEMMA CallKeepsKeepsKept == KeptInv /\ CallKeeps => KeptInv'
<1>. SUFFICES ASSUME KeptInv, CallKeeps PROVE KeptInv'
  OBVIOUS
<1>. USE DEF KeptInv
<1>1. CallStep
  BY DEF CallStep, CallGoesOn
<1>2. Base' /\ UNCHANGED <<tab, byHand>> /\ call.at = "keeping" /\ ~Writing'
  BY <1>1, CallsKeepBase DEF CallKeeps, Writing, Base, TypeOK, Calling
<1>3. /\ kept'.generation = kept.generation + 1
      /\ kept'.rows = IF kept.rows = NONE THEN NONE ELSE SetRows(kept.rows, call.write)
  BY DEF CallKeeps, Keeps, Base, TypeOK, Keeping
<1>4. KeptAsTab'
  <2>. SUFFICES ASSUME tab.there, kept'.rows # NONE, NEW i \in Nat, i \notin byHand
       PROVE  RowAt(kept'.rows, i) = RowAt(tab.rows, i)
    BY <1>2 DEF KeptAsTab, AsTab
  <2>1. kept.rows # NONE /\ kept.rows \in Seq(Rows) /\ IsWrite(call.write)
    BY <1>3, WritesAre DEF Base, TypeOK, Keeping, Calling
  <2>2. /\ i \in DOMAIN call.write => RowAt(kept'.rows, i) = call.write[i]
        /\ i \notin DOMAIN call.write => RowAt(kept'.rows, i) = RowAt(kept.rows, i)
    BY <1>3, <2>1, SetRowsSetsRows
  <2>3. CASE i \in DOMAIN call.write
    BY <1>2, <2>2, <2>3 DEF WrittenAsTab
  <2>4. CASE i \notin DOMAIN call.write
    BY <2>1, <2>2, <2>4 DEF KeptAsTab, AsTab, Pending
  <2>. QED
    BY <2>3, <2>4
<1>5. WrittenAsTab'
  BY <1>2 DEF WrittenAsTab, Writing
<1>. QED
  BY <1>1, <1>2, <1>3, <1>4, <1>5, NewGeneration

LEMMA CallsKeepKept ==
    ASSUME KeptInv, CallStep
    PROVE  KeptInv'
<1>. USE DEF KeptInv
<1>1. Base' /\ call \in Calling
  BY CallsKeepBase DEF Base, TypeOK
<1>2. CASE (\E c \in Clients : CallBegins(c)) \/ CallReads \/ CallAnswers
  <2>1. UNCHANGED <<tab, kept, byHand>> /\ ~Writing /\ ~Writing'
    <3>1. CASE \E c \in Clients : CallBegins(c)
      BY <3>1 DEF CallBegins, Writing, NoCall
    <3>2. CASE CallReads
      BY <1>1, <3>2 DEF CallReads, Writing, Calling
    <3>3. CASE CallAnswers
      BY <3>3 DEF CallAnswers, Writing, NoCall
    <3>. QED
      BY <1>2, <3>1, <3>2, <3>3
  <2>. QED
    BY <2>1, CallsGoOn
<1>3. CASE CallFinds \/ CallTags
  <2>1. tab'.rows = tab.rows /\ tab'.there = tab.there /\ kept'.rows = kept.rows /\ kept'.generation = kept.generation /\ byHand' = byHand
    BY <1>3 DEF CallFinds, CallTags, Base, TypeOK, Keeping
  <2>2. ~Writing /\ ~Writing'
    BY <1>1, <1>3 DEF CallFinds, CallTags, Built, Writing, Calling
  <2>. QED
    BY <2>1, <2>2, CallsGoOn
<1>4. CASE CallAdds
  <2>1. kept'.rows = <<>> /\ kept'.generation = kept.generation + 1 /\ tab'.rows = <<>> /\ call'.at = "heading"
    BY <1>1, <1>4 DEF CallAdds, NoTab, Base, TypeOK, Keeping, Calling
  <2>2. KeptAsTab' /\ WrittenAsTab'
    BY <2>1 DEF KeptAsTab, AsTab, WrittenAsTab
  <2>. QED
    BY <1>1, <2>1, <2>2, NewGeneration
<1>5. CASE CallDecides
  <2>1. UNCHANGED <<tab, byHand>> /\ ~Writing
    BY <1>5 DEF CallDecides, Writing
  <2>2. \/ kept' = kept /\ call'.at = "answering"
        \/ call'.at = "sending" /\ WritingTo
    <3>. DEFINE outcome == OutcomeOf(Items(call.rows), call.who, client[call.who].change)
                write == Changing(2, Filled(outcome.items, Len(call.rows) - 1))
    <3>1. \/ kept' = kept /\ call' = [call EXCEPT !.at = "answering", !.result = "refused"]
          \/ kept' = kept /\ call' = [call EXCEPT !.at = "answering", !.result = outcome.result]
          \/ WritingTo /\ call' = [call EXCEPT !.at = "sending", !.result = "made", !.rows = <<>>, !.write = write]
      BY <1>5, Zenon DEF CallDecides
    <3>. HIDE DEF outcome, write
    <3>. QED
      BY <1>1, <3>1 DEF Calling
  <2>3. CASE kept' = kept /\ call'.at = "answering"
    BY <2>1, <2>3, CallsGoOn DEF Writing
  <2>4. CASE call'.at = "sending" /\ WritingTo
    <3>1. kept'.rows = kept.rows /\ kept'.generation = kept.generation + 1
      BY <2>4 DEF WritingTo, Base, TypeOK, Keeping
    <3>2. KeptAsTab'
      BY <2>1, <3>1 DEF KeptAsTab, AsTab, Pending, Writing
    <3>3. WrittenAsTab'
      BY <2>4 DEF WrittenAsTab
    <3>. QED
      BY <1>1, <3>1, <3>2, <3>3, NewGeneration
  <2>. QED
    BY <2>2, <2>3, <2>4
<1>6. CASE CallFails
  <2>1. ~Writing' /\ (kept' = kept \/ kept' = Forgotten)
    BY <1>1, <1>6 DEF CallFails, Writing, Calling
  <2>2. CASE kept' # Forgotten
    <3>1. call.at \notin {"heading", "sending"} /\ ~(call.at = "adding" /\ tab' # tab)
      BY <1>6, <2>2 DEF CallFails
    <3>2. ~Writing /\ byHand' = byHand
      BY <1>6, <3>1 DEF CallFails, Writing
    <3>3. tab' = tab \/ tab' = [tab EXCEPT !.tagged = TRUE]
      BY <1>6, <3>1 DEF CallFails
    <3>4. tab'.rows = tab.rows /\ tab'.there = tab.there
      BY <3>3 DEF Base, TypeOK
    <3>. QED
      BY <2>1, <2>2, <3>2, <3>4, CallsGoOn
  <2>. QED
    BY <2>1, <2>2, CallsForget
<1>. QED
  BY <1>2, <1>3, <1>4, <1>5, <1>6, CallSendsKeepsKept, CallKeepsKeepsKept DEF CallStep, CallGoesOn

LEMMA KeptStep == KeptInv /\ [Next]_vars => KeptInv'
<1>. SUFFICES ASSUME KeptInv, [Next]_vars PROVE KeptInv'
  OBVIOUS
<1>1. CASE UNCHANGED vars
  <2>1. Base'
    BY <1>1, BaseStep DEF KeptInv
  <2>. QED
    BY <1>1, <2>1 DEF vars, KeptInv, KeptAsTab, LoadsAsTab, WillBeKept, LoadsBefore, WrittenAsTab, RefreshAsKept, PutsBackKept,
                     AsTab, Pending
<1>2. CASE Next
  BY <1>2, LoadsKeepKept, RefreshKeepsKept, HandsKeepKept, ClientsKeepKept, CallsKeepKept, RestartsKeepKept DEF Next
<1>. QED
  BY <1>1, <1>2

\* Between writes, what's kept of a tab is the tab's but for the rows
\* changed by hand: no read, refresh or write, failed or not, leaves older
\* rows kept (kept.rs:3-7).
THEOREM KeptIsAsSheets == Spec => []KeptIsSheets
<1>1. KeptInv => KeptIsSheets
  <2>. SUFFICES ASSUME KeptInv, kept.rows # NONE, tab.there, ~Writing,
                       NEW i \in 1 .. Max({Len(kept.rows), Len(tab.rows)})
       PROVE  RowAt(kept.rows, i) = RowAt(tab.rows, i) \/ i \in byHand
    BY DEF KeptIsSheets
  <2>1. i \in Nat
    OBVIOUS
  <2>. QED
    BY <2>1 DEF KeptInv, KeptAsTab, AsTab, Pending, Writing
<1>. QED
  BY <1>1, KeptInit, KeptStep, PTL DEF Spec

-----------------------------------------------------------------------------
(* The items there are on rows.                                            *)

\* What's told of an item by its row, whatever's in its cells.
OfRow(row) == [id |-> row.id, version |-> row.version, by |-> row.by]
Told(rows) == {OfRow(rows[i]) : i \in {j \in DOMAIN rows : rows[j].id \in Ids}}
ToldOf(rows, id) == {t \in Told(rows) : t.id = id}
Alike(r, s) == OfRow(r) = OfRow(s)

\* No item is on two rows.
UniqueIn(rows) == \A i, j \in DOMAIN rows : rows[i].id \in Ids /\ rows[i].id = rows[j].id => i = j

\* A row that isn't blank nor a header is an item's.
AllPlain(rows) == \A i \in DOMAIN rows : rows[i] = Blank \/ rows[i].id \in {"header"} \cup Ids

Item == [id : Ids, version : Nat, by : Clients \cup {NONE}]

LEMMA ToldIsTyped == ASSUME NEW rows \in Seq(Rows) PROVE Told(rows) \subseteq Item
<1>1. \A i \in DOMAIN rows : rows[i] \in Rows
  BY LenProperties, ElementOfSeq
<1>2. \A r \in Rows : r.id \in Ids => OfRow(r) \in Item
  BY DEF OfRow, Item, Rows
<1>. QED
  BY <1>1, <1>2 DEF Told

LEMMA ToldAt ==
    ASSUME NEW rows \in Seq(Rows)
    PROVE  /\ \A t : t \in Told(rows) <=> \E i \in Nat : RowAt(rows, i).id \in Ids /\ t = OfRow(RowAt(rows, i))
           /\ UniqueIn(rows) <=> \A i, j \in Nat : RowAt(rows, i).id \in Ids /\ RowAt(rows, i).id = RowAt(rows, j).id => i = j
<1>1. DOMAIN rows \subseteq Nat
  BY LenProperties
<1>2. Blank.id \notin Ids
  BY IdsAssumption DEF Blank, Row
<1>3. \A i : i \in DOMAIN rows => RowAt(rows, i) = rows[i]
  BY DEF RowAt
<1>4. \A i : RowAt(rows, i).id \in Ids => i \in DOMAIN rows
  BY <1>2 DEF RowAt
<1>5. ASSUME NEW t PROVE t \in Told(rows) <=> \E i \in Nat : RowAt(rows, i).id \in Ids /\ t = OfRow(RowAt(rows, i))
  <2>1. t \in Told(rows) <=> \E i \in DOMAIN rows : rows[i].id \in Ids /\ t = OfRow(rows[i])
    BY DEF Told
  <2>. QED
    BY <1>1, <1>3, <1>4, <2>1
<1>6. UniqueIn(rows) <=> \A i, j \in Nat : RowAt(rows, i).id \in Ids /\ RowAt(rows, i).id = RowAt(rows, j).id => i = j
  <2>1. ASSUME UniqueIn(rows), NEW i \in Nat, NEW j \in Nat, RowAt(rows, i).id \in Ids, RowAt(rows, i).id = RowAt(rows, j).id
        PROVE  i = j
    BY <1>3, <1>4, <2>1 DEF UniqueIn
  <2>2. ASSUME \A i, j \in Nat : RowAt(rows, i).id \in Ids /\ RowAt(rows, i).id = RowAt(rows, j).id => i = j
        PROVE  UniqueIn(rows)
    BY <1>1, <1>3, <2>2 DEF UniqueIn
  <2>. QED
    BY <2>1, <2>2
<1>. QED
  BY <1>5, <1>6

LEMMA AlikeIs == \A r, s : Alike(r, s) <=> r.id = s.id /\ r.version = s.version /\ r.by = s.by
BY DEF Alike, OfRow

\* Rows alike tell the same.
LEMMA AlikeTellSame ==
    ASSUME NEW rows \in Seq(Rows), NEW others \in Seq(Rows), \A i \in Nat : Alike(RowAt(rows, i), RowAt(others, i))
    PROVE  Told(rows) = Told(others) /\ (UniqueIn(rows) <=> UniqueIn(others))
<1>1. \A i \in Nat : RowAt(rows, i).id = RowAt(others, i).id /\ OfRow(RowAt(rows, i)) = OfRow(RowAt(others, i))
  BY AlikeIs DEF Alike
<1>2. \A t : t \in Told(rows) <=> t \in Told(others)
  BY <1>1, ToldAt
<1>3. UniqueIn(rows) <=> UniqueIn(others)
  BY <1>1, ToldAt
<1>. QED
  BY <1>2, <1>3

\* Items told from the second row on.
LEMMA BelowHeader ==
    ASSUME NEW rows \in Seq(Rows), NEW items \in Seq(Rows), RowAt(rows, 1).id \notin Ids,
           \A i \in Nat : i >= 1 => Alike(RowAt(rows, i + 1), RowAt(items, i))
    PROVE  Told(rows) = Told(items) /\ (UniqueIn(rows) <=> UniqueIn(items))
<1>1. RowAt(rows, 0).id \notin Ids /\ RowAt(items, 0).id \notin Ids
  BY LenProperties, IdsAssumption DEF RowAt, Blank, Row
<1>2. \A i \in Nat : i >= 1 => RowAt(rows, i + 1).id = RowAt(items, i).id /\ OfRow(RowAt(rows, i + 1)) = OfRow(RowAt(items, i))
  BY AlikeIs DEF Alike
<1>3. \A i \in Nat : i >= 2 => i - 1 \in Nat /\ i - 1 >= 1 /\ (i - 1) + 1 = i
  OBVIOUS
<1>4. \A i \in Nat : i = 0 \/ i = 1 \/ i >= 2
  OBVIOUS
<1>5. ASSUME NEW t PROVE t \in Told(rows) <=> t \in Told(items)
  <2>1. ASSUME t \in Told(rows) PROVE t \in Told(items)
    <3>1. PICK i \in Nat : RowAt(rows, i).id \in Ids /\ t = OfRow(RowAt(rows, i))
      BY <2>1, ToldAt
    <3>2. i >= 2
      BY <1>1, <1>4, <3>1
    <3>3. RowAt(items, i - 1).id \in Ids /\ t = OfRow(RowAt(items, i - 1)) /\ i - 1 \in Nat
      BY <1>2, <1>3, <3>1, <3>2
    <3>. QED
      BY <3>3, ToldAt
  <2>2. ASSUME t \in Told(items) PROVE t \in Told(rows)
    <3>1. PICK i \in Nat : RowAt(items, i).id \in Ids /\ t = OfRow(RowAt(items, i))
      BY <2>2, ToldAt
    <3>2. i # 0
      BY <1>1, <3>1
    <3>3. RowAt(rows, i + 1).id \in Ids /\ t = OfRow(RowAt(rows, i + 1)) /\ i + 1 \in Nat
      BY <1>2, <3>1, <3>2
    <3>. QED
      BY <3>3, ToldAt
  <2>. QED
    BY <2>1, <2>2
<1>6. ASSUME UniqueIn(rows) PROVE UniqueIn(items)
  <2>. SUFFICES ASSUME NEW i \in Nat, NEW j \in Nat, RowAt(items, i).id \in Ids, RowAt(items, i).id = RowAt(items, j).id
       PROVE i = j
    BY ToldAt
  <2>1. i >= 1 /\ j >= 1
    BY <1>1
  <2>2. RowAt(rows, i + 1).id = RowAt(items, i).id /\ RowAt(rows, j + 1).id = RowAt(items, j).id /\ i + 1 \in Nat /\ j + 1 \in Nat
    BY <1>2, <2>1
  <2>3. i + 1 = j + 1
    BY <1>6, <2>2, ToldAt
  <2>. QED
    BY <2>3
<1>7. ASSUME UniqueIn(items) PROVE UniqueIn(rows)
  <2>. SUFFICES ASSUME NEW i \in Nat, NEW j \in Nat, RowAt(rows, i).id \in Ids, RowAt(rows, i).id = RowAt(rows, j).id
       PROVE i = j
    BY ToldAt
  <2>1. i >= 2 /\ j >= 2
    BY <1>1, <1>4
  <2>2. RowAt(items, i - 1).id = RowAt(rows, i).id /\ RowAt(items, j - 1).id = RowAt(rows, j).id /\ i - 1 \in Nat /\ j - 1 \in Nat
    BY <1>2, <1>3, <2>1
  <2>3. i - 1 = j - 1
    BY <1>7, <2>2, ToldAt
  <2>. QED
    BY <2>1, <2>3
<1>. QED
  BY <1>5, <1>6, <1>7

LEMMA UpToGrows ==
    ASSUME NEW k \in Nat, NEW places \in SUBSET (1 .. k), NEW i \in places, NEW j \in places,
           Cardinality(UpTo(places, i)) = Cardinality(UpTo(places, j))
    PROVE  i = j
<1>1. ASSUME NEW a \in places, NEW b \in places, a < b PROVE Cardinality(UpTo(places, a)) < Cardinality(UpTo(places, b))
  <2>1. a \in 1 .. k /\ b \in 1 .. k /\ b - 1 \in 0 .. k /\ a \in 0 .. k
    OBVIOUS
  <2>2. UpTo(places, a) \in SUBSET UpTo(places, b - 1)
    <3>1. \A x \in places : x <= a => x <= b - 1
      BY <1>1, <2>1
    <3>. QED
      BY <3>1 DEF UpTo
  <2>3. IsFiniteSet(UpTo(places, b - 1)) /\ Cardinality(UpTo(places, b - 1)) \in Nat
    BY <2>1, UpToProperties
  <2>4. Cardinality(UpTo(places, a)) <= Cardinality(UpTo(places, b - 1))
    BY <2>2, <2>3, FS_Subset
  <2>5. Cardinality(UpTo(places, b)) = Cardinality(UpTo(places, b - 1)) + 1 /\ Cardinality(UpTo(places, a)) \in Nat
    BY <2>1, UpToProperties
  <2>. QED
    BY <2>3, <2>4, <2>5
<1>2. i \in 1 .. k /\ j \in 1 .. k /\ i \in 0 .. k /\ j \in 0 .. k
  OBVIOUS
<1>3. Cardinality(UpTo(places, i)) \in Nat /\ Cardinality(UpTo(places, j)) \in Nat
  BY <1>2, UpToProperties
<1>4. ~(i < j) /\ ~(j < i)
  BY <1>1, <1>3
<1>. QED
  BY <1>2, <1>4

\* The rows at some places are those, each once.
LEMMA AmongAreThose ==
    ASSUME NEW S, NEW rows \in Seq(S), NEW places \in SUBSET DOMAIN rows
    PROVE  \E at \in [DOMAIN Among(rows, places) -> places] :
               /\ \A n \in DOMAIN Among(rows, places) : Among(rows, places)[n] = rows[at[n]]
               /\ \A i \in places : \E n \in DOMAIN Among(rows, places) : at[n] = i
               /\ \A m, n \in DOMAIN Among(rows, places) : at[m] = at[n] => m = n
<1>. DEFINE k == Len(rows)
            place(n) == CHOOSE i \in places : Cardinality(UpTo(places, i)) = n
            at == [n \in 1 .. Cardinality(places) |-> place(n)]
<1>1. k \in Nat /\ places \in SUBSET (1 .. k)
  BY LenProperties
<1>2. Cardinality(places) \in Nat
  BY <1>1, UpToProperties
<1>3. \A n \in 1 .. Cardinality(places) : place(n) \in places /\ Cardinality(UpTo(places, place(n))) = n
  BY <1>1, PlaceOf
<1>4. Among(rows, places) = [n \in 1 .. Cardinality(places) |-> rows[place(n)]]
  BY DEF Among, UpTo
<1>5. \A i \in places : Cardinality(UpTo(places, i)) \in 1 .. Cardinality(places)
  <2>. TAKE i \in places
  <2>1. i \in 1 .. k /\ i - 1 \in 0 .. k /\ k \in 0 .. k
    BY <1>1
  <2>2. /\ IsFiniteSet(places) /\ \A x \in 0 .. k : Cardinality(UpTo(places, x)) \in Nat
        /\ Cardinality(UpTo(places, i)) = Cardinality(UpTo(places, i - 1)) + 1
    <3>. HIDE DEF k
    <3>. QED
      BY <1>1, UpToProperties
  <2>3. UpTo(places, i) \in SUBSET places
    BY DEF UpTo
  <2>4. Cardinality(UpTo(places, i)) <= Cardinality(places)
    BY <2>2, <2>3, FS_Subset
  <2>5. i \in 0 .. k
    BY <2>1
  <2>. QED
    BY <1>2, <2>1, <2>2, <2>4, <2>5
<1>. HIDE DEF place
<1>6. at \in [DOMAIN Among(rows, places) -> places] /\ \A n \in DOMAIN Among(rows, places) : Among(rows, places)[n] = rows[at[n]]
  BY <1>3, <1>4
<1>7. \A i \in places : \E n \in DOMAIN Among(rows, places) : at[n] = i
  <2>. TAKE i \in places
  <2>. DEFINE n == Cardinality(UpTo(places, i))
  <2>1. n \in 1 .. Cardinality(places)
    BY <1>5
  <2>2. place(n) \in places /\ Cardinality(UpTo(places, place(n))) = n
    BY <1>3, <2>1
  <2>3. place(n) = i
    BY <1>1, <2>2, UpToGrows
  <2>. HIDE DEF n
  <2>. QED
    BY <1>4, <2>1, <2>3
<1>8. \A m, n \in DOMAIN Among(rows, places) : at[m] = at[n] => m = n
  BY <1>3, <1>4
<1>. QED
  BY <1>6, <1>7, <1>8

LEMMA AmongTell ==
    ASSUME NEW rows \in Seq(Rows), NEW places \in SUBSET DOMAIN rows
    PROVE  /\ Told(Among(rows, places)) = {OfRow(rows[i]) : i \in {j \in places : rows[j].id \in Ids}}
           /\ UniqueIn(rows) => UniqueIn(Among(rows, places))
<1>. DEFINE among == Among(rows, places)
<1>1. PICK at \in [DOMAIN among -> places] :
               /\ \A n \in DOMAIN among : among[n] = rows[at[n]]
               /\ \A i \in places : \E n \in DOMAIN among : at[n] = i
               /\ \A m, n \in DOMAIN among : at[m] = at[n] => m = n
  BY AmongAreThose
<1>. HIDE DEF among
<1>2. \A n \in DOMAIN among : at[n] \in places /\ at[n] \in DOMAIN rows
  BY <1>1
<1>3. ASSUME NEW t PROVE t \in Told(among) <=> t \in {OfRow(rows[i]) : i \in {j \in places : rows[j].id \in Ids}}
  <2>1. ASSUME t \in Told(among) PROVE t \in {OfRow(rows[i]) : i \in {j \in places : rows[j].id \in Ids}}
    <3>1. PICK n \in DOMAIN among : among[n].id \in Ids /\ t = OfRow(among[n])
      BY <2>1 DEF Told
    <3>. QED
      BY <1>1, <1>2, <3>1
  <2>2. ASSUME t \in {OfRow(rows[i]) : i \in {j \in places : rows[j].id \in Ids}} PROVE t \in Told(among)
    <3>1. PICK i \in places : rows[i].id \in Ids /\ t = OfRow(rows[i])
      BY <2>2
    <3>2. PICK n \in DOMAIN among : at[n] = i
      BY <1>1
    <3>. QED
      BY <1>1, <3>1, <3>2 DEF Told
  <2>. QED
    BY <2>1, <2>2
<1>4. UniqueIn(rows) => UniqueIn(among)
  BY <1>1, <1>2 DEF UniqueIn
<1>. QED
  BY <1>3, <1>4 DEF among

LEMMA ItemsTell ==
    ASSUME NEW rows \in Seq(Rows)
    PROVE  /\ Told(Items(rows)) = Told(rows)
           /\ UniqueIn(rows) => UniqueIn(Items(rows))
           /\ AllPlain(rows) => \A n \in DOMAIN Items(rows) : Items(rows)[n].id \in Ids
           /\ \A n \in DOMAIN Items(rows) : \E i \in DOMAIN rows : Items(rows)[n] = rows[i]
<1>. DEFINE places == {i \in DOMAIN rows : rows[i] # Blank /\ rows[i].id # "header"}
<1>1. places \in SUBSET DOMAIN rows /\ Items(rows) = Among(rows, places)
  BY DEF Items
<1>2. {i \in places : rows[i].id \in Ids} = {i \in DOMAIN rows : rows[i].id \in Ids}
  BY IdsAssumption DEF Blank, Row
<1>3. \A n \in DOMAIN Among(rows, places) : \E i \in places : Among(rows, places)[n] = rows[i]
  BY <1>1, AmongAreRows
<1>4. AllPlain(rows) => \A i \in places : rows[i].id \in Ids
  BY DEF AllPlain
<1>5. Told(Among(rows, places)) = {OfRow(rows[i]) : i \in {j \in places : rows[j].id \in Ids}}
      /\ (UniqueIn(rows) => UniqueIn(Among(rows, places)))
  BY <1>1, AmongTell
<1>6. Told(rows) = {OfRow(rows[i]) : i \in {j \in DOMAIN rows : rows[j].id \in Ids}}
  BY DEF Told
<1>. HIDE DEF places
<1>. QED
  BY <1>1, <1>2, <1>3, <1>4, <1>5, <1>6

LEMMA HasIsTold ==
    ASSUME NEW rows \in Seq(Rows), NEW id \in Ids
    PROVE  /\ Has(rows, id) <=> ToldOf(rows, id) # {}
           /\ Has(rows, id) => OfRow(ItemOf(rows, id)) \in ToldOf(rows, id)
<1>1. ASSUME Has(rows, id) PROVE OfRow(ItemOf(rows, id)) \in ToldOf(rows, id)
  <2>1. /\ Max(PositionsOf(rows, id)) \in DOMAIN rows
        /\ ItemOf(rows, id) = rows[Max(PositionsOf(rows, id))] /\ ItemOf(rows, id).id = id
    BY <1>1, ItemIsThere
  <2>. QED
    BY <2>1 DEF ToldOf, Told, OfRow
<1>2. ASSUME ToldOf(rows, id) # {} PROVE Has(rows, id)
  BY <1>2 DEF ToldOf, Told, OfRow, Has, PositionsOf
<1>. QED
  BY <1>1, <1>2

LEMMA OneIsTold ==
    ASSUME NEW rows \in Seq(Rows), UniqueIn(rows), NEW id \in Ids, NEW s \in ToldOf(rows, id), NEW t \in ToldOf(rows, id)
    PROVE  s = t
BY DEF UniqueIn, ToldOf, Told, OfRow

LEMMA FilledTell ==
    ASSUME NEW items \in Seq(Rows), NEW n \in Int
    PROVE  /\ \A i \in Nat : RowAt(Filled(items, n), i) = RowAt(items, i)
           /\ Len(Filled(items, n)) >= n
<1>1. Len(items) \in Nat /\ DOMAIN items = 1 .. Len(items)
  BY LenProperties
<1>2. CASE Len(items) >= n
  BY <1>2 DEF Filled
<1>3. CASE Len(items) < n
  <2>. DEFINE blanks == [i \in 1 .. n - Len(items) |-> Blank]
  <2>1. n - Len(items) \in Nat /\ blanks \in [1 .. n - Len(items) -> Rows]
    BY <1>1, <1>3, BlankIsRow
  <2>2. blanks \in Seq(Rows)
    BY <2>1, SeqDef
  <2>3. Len(blanks) = n - Len(items)
    BY <2>1, <2>2, LenProperties
  <2>4. \A i \in 1 .. Len(blanks) : blanks[i] = Blank
    BY <2>3
  <2>5. Filled(items, n) = items \o blanks
    BY <1>1, <1>3 DEF Filled
  <2>. HIDE DEF blanks
  <2>6. /\ Len(items \o blanks) = Len(items) + Len(blanks) /\ items \o blanks \in Seq(Rows)
        /\ \A i \in 1 .. Len(items) + Len(blanks) :
             (items \o blanks)[i] = IF i <= Len(items) THEN items[i] ELSE blanks[i - Len(items)]
    BY <2>2, ConcatProperties
  <2>7. DOMAIN (items \o blanks) = 1 .. Len(items) + Len(blanks)
    BY <2>6, LenProperties
  <2>8. ASSUME NEW i \in Nat PROVE RowAt(items \o blanks, i) = RowAt(items, i)
    <3>1. CASE i \in 1 .. Len(items)
      BY <1>1, <1>3, <2>3, <2>6, <2>7, <3>1 DEF RowAt
    <3>2. CASE i \in Len(items) + 1 .. Len(items) + Len(blanks)
      <4>1. (items \o blanks)[i] = blanks[i - Len(items)] /\ i - Len(items) \in 1 .. Len(blanks) /\ i \notin DOMAIN items
        BY <1>1, <2>3, <1>3, <2>6, <3>2
      <4>. QED
        BY <1>1, <2>3, <1>3, <2>4, <2>7, <3>2, <4>1 DEF RowAt
    <3>3. CASE i \notin 1 .. Len(items) + Len(blanks)
      <4>1. i \notin DOMAIN items
        BY <1>1, <1>3, <2>3, <3>3
      <4>. QED
        BY <2>7, <3>3, <4>1 DEF RowAt
    <3>. QED
      BY <1>1, <1>3, <2>3, <3>1, <3>2, <3>3
  <2>9. Len(items \o blanks) >= n
    BY <1>1, <2>3, <2>6
  <2>. QED
    BY <2>5, <2>8, <2>9
<1>. QED
  BY <1>1, <1>2, <1>3

\* What a change made to the items told by some rows makes of them.
Makes(rows, after, c, ch) ==
    LET of == ToldOf(rows, ch.id)
        rest == Told(rows) \ of
    IN  /\ UniqueIn(after)
        /\ ch.kind = "create" => of = {} /\ Told(after) = rest \cup {[id |-> ch.id, version |-> 1, by |-> c]}
        /\ ch.kind # "create" => \E t \in of : t.version = ch.version
        /\ ch.kind = "update" => Told(after) = rest \cup {[id |-> ch.id, version |-> ch.version + 1, by |-> c]}
        /\ ch.kind = "delete" => Told(after) = rest

LEMMA CreatedMakes ==
    ASSUME NEW items \in Seq(Rows), UniqueIn(items), \A n \in DOMAIN items : items[n].id \in Ids,
           NEW c \in Clients, NEW ch \in Changes, ch.id \in Ids, ch.kind = "create", Created(items, c, ch).result = "made"
    PROVE  LET new == Created(items, c, ch).items
           IN  Makes(items, new, c, ch) /\ \A n \in DOMAIN new : new[n].id \in Ids
<1>. DEFINE row == Row(ch.id, 1, ch.val, c)
            new == Append(items, row)
<1>1. ~Has(items, ch.id) /\ Created(items, c, ch).items = new
  BY DEF Created, Outcome
<1>2. row \in Rows /\ row.id = ch.id /\ OfRow(row) = [id |-> ch.id, version |-> 1, by |-> c]
  BY DEF Row, Rows, Changes, OfRow
<1>. HIDE DEF row
<1>3. Len(items) \in Nat /\ DOMAIN items = 1 .. Len(items)
  BY LenProperties
<1>4. /\ new \in Seq(Rows) /\ Len(new) = Len(items) + 1
      /\ \A n \in 1 .. Len(items) : new[n] = items[n]
      /\ new[Len(items) + 1] = row
  BY <1>2, AppendProperties
<1>5. DOMAIN new = 1 .. Len(items) + 1
  BY <1>4, LenProperties
<1>. HIDE DEF new
<1>6. \A n \in DOMAIN items : items[n].id # ch.id
  BY <1>1 DEF Has, PositionsOf
<1>7. \A n \in DOMAIN new : (n \in DOMAIN items /\ new[n] = items[n]) \/ (n = Len(items) + 1 /\ n \notin DOMAIN items /\ new[n] = row)
  BY <1>3, <1>4, <1>5
<1>8. UniqueIn(new)
  BY <1>2, <1>6, <1>7 DEF UniqueIn
<1>9. ToldOf(items, ch.id) = {}
  BY <1>1, HasIsTold
<1>10. ASSUME NEW t PROVE t \in Told(new) <=> t \in Told(items) \/ t = OfRow(row)
  <2>1. t \in Told(new) <=> \E n \in DOMAIN new : new[n].id \in Ids /\ t = OfRow(new[n])
    BY DEF Told
  <2>2. t \in Told(items) <=> \E n \in DOMAIN items : items[n].id \in Ids /\ t = OfRow(items[n])
    BY DEF Told
  <2>3. ASSUME t \in Told(items) PROVE t \in Told(new)
    BY <1>3, <1>4, <1>5, <2>1, <2>2, <2>3
  <2>4. ASSUME t = OfRow(row) PROVE t \in Told(new)
    BY <1>2, <1>3, <1>4, <1>5, <2>1, <2>4
  <2>5. ASSUME t \in Told(new) PROVE t \in Told(items) \/ t = OfRow(row)
    BY <1>7, <2>1, <2>2, <2>5
  <2>. QED
    BY <2>3, <2>4, <2>5
<1>11. Told(new) = (Told(items) \ ToldOf(items, ch.id)) \cup {[id |-> ch.id, version |-> 1, by |-> c]}
  BY <1>2, <1>9, <1>10
<1>12. Makes(items, new, c, ch)
  BY <1>8, <1>9, <1>11 DEF Makes
<1>13. \A n \in DOMAIN new : new[n].id \in Ids
  BY <1>2, <1>7
<1>. QED
  BY <1>1, <1>12, <1>13

LEMMA UpdatedMakes ==
    ASSUME NEW items \in Seq(Rows), UniqueIn(items), \A n \in DOMAIN items : items[n].id \in Ids,
           NEW c \in Clients, NEW ch \in Changes, ch.id \in Ids, ch.kind = "update", Updated(items, c, ch).result = "made"
    PROVE  LET new == Updated(items, c, ch).items
           IN  Makes(items, new, c, ch) /\ \A n \in DOMAIN new : new[n].id \in Ids
<1>. DEFINE was == ItemOf(items, ch.id)
            m == Max(PositionsOf(items, ch.id))
            row == Row(ch.id, NextVersion(was, ch.val), ch.val, IF Unchanged(was, ch.val) THEN was.by ELSE c)
            new == [items EXCEPT ![m] = row]
<1>1. Has(items, ch.id) /\ ~Stale(was, ch.version, ch.val) /\ row # was /\ Updated(items, c, ch).items = new
  BY DEF Updated, Outcome
<1>2. m \in DOMAIN items /\ was = items[m] /\ was \in Rows /\ was.id = ch.id
  BY <1>1, ItemIsThere
<1>. HIDE DEF was, m
<1>3. ~Unchanged(was, ch.val)
  <2>. SUFFICES ASSUME Unchanged(was, ch.val) PROVE row = was
    BY <1>1
  <2>1. row = [id |-> ch.id, version |-> was.version, val |-> ch.val, by |-> was.by]
    BY DEF NextVersion, Row
  <2>2. was = [id |-> was.id, version |-> was.version, val |-> was.val, by |-> was.by]
    BY <1>2 DEF Rows
  <2>. QED
    BY <1>2, <2>1, <2>2 DEF Unchanged
<1>4. was.version = ch.version
  BY <1>1, <1>3 DEF Stale, SentAgain
<1>5. row \in Rows /\ row.id = ch.id /\ OfRow(row) = [id |-> ch.id, version |-> ch.version + 1, by |-> c]
  <2>1. row = [id |-> ch.id, version |-> ch.version + 1, val |-> ch.val, by |-> c]
    BY <1>3, <1>4 DEF NextVersion, Row
  <2>. QED
    BY <2>1 DEF Rows, Changes, OfRow
<1>. HIDE DEF row
<1>6. DOMAIN new = DOMAIN items /\ new[m] = row /\ \A n \in DOMAIN items : n # m => new[n] = items[n]
  BY <1>2
<1>. HIDE DEF new
<1>7. \A n \in DOMAIN new : new[n].id = items[n].id
  BY <1>2, <1>5, <1>6
<1>8. UniqueIn(new)
  BY <1>6, <1>7 DEF UniqueIn
<1>9. OfRow(was) \in ToldOf(items, ch.id) /\ OfRow(was).version = ch.version
  BY <1>2, <1>4 DEF ToldOf, Told, OfRow
<1>10. ASSUME NEW t PROVE t \in Told(new) <=> (t \in Told(items) /\ t \notin ToldOf(items, ch.id)) \/ t = OfRow(row)
  <2>1. t \in Told(new) <=> \E n \in DOMAIN new : new[n].id \in Ids /\ t = OfRow(new[n])
    BY DEF Told
  <2>2. t \in Told(items) <=> \E n \in DOMAIN items : items[n].id \in Ids /\ t = OfRow(items[n])
    BY DEF Told
  <2>3. t \in ToldOf(items, ch.id) <=> t \in Told(items) /\ t.id = ch.id
    BY DEF ToldOf
  <2>4. \A n \in DOMAIN items : items[n].id = ch.id => n = m
    BY <1>2 DEF UniqueIn
  <2>5. ASSUME t \in Told(items), t \notin ToldOf(items, ch.id) PROVE t \in Told(new)
    <3>1. PICK n \in DOMAIN items : items[n].id \in Ids /\ t = OfRow(items[n])
      BY <2>2, <2>5
    <3>2. n # m
      BY <1>2, <2>3, <2>5, <3>1 DEF OfRow
    <3>. QED
      BY <1>6, <2>1, <3>1, <3>2
  <2>6. ASSUME t = OfRow(row) PROVE t \in Told(new)
    BY <1>2, <1>5, <1>6, <2>1, <2>6
  <2>7. ASSUME t \in Told(new), t # OfRow(row) PROVE t \in Told(items) /\ t \notin ToldOf(items, ch.id)
    <3>1. PICK n \in DOMAIN new : new[n].id \in Ids /\ t = OfRow(new[n])
      BY <2>1, <2>7
    <3>2. n # m
      BY <1>6, <2>7, <3>1
    <3>3. new[n] = items[n] /\ n \in DOMAIN items
      BY <1>6, <3>1, <3>2
    <3>4. t.id # ch.id
      BY <2>4, <3>1, <3>2, <3>3 DEF OfRow
    <3>. QED
      BY <2>2, <2>3, <3>1, <3>3, <3>4
  <2>. QED
    BY <2>5, <2>6, <2>7
<1>11. Told(new) = (Told(items) \ ToldOf(items, ch.id)) \cup {[id |-> ch.id, version |-> ch.version + 1, by |-> c]}
  BY <1>5, <1>10
<1>12. Makes(items, new, c, ch)
  BY <1>8, <1>9, <1>11 DEF Makes
<1>13. \A n \in DOMAIN new : new[n].id \in Ids
  BY <1>6, <1>7
<1>. QED
  BY <1>1, <1>12, <1>13

LEMMA DeletedMakes ==
    ASSUME NEW items \in Seq(Rows), UniqueIn(items), \A n \in DOMAIN items : items[n].id \in Ids,
           NEW c \in Clients, NEW ch \in Changes, ch.id \in Ids, ch.kind = "delete", Deleted(items, ch).result = "made"
    PROVE  LET new == Deleted(items, ch).items
           IN  Makes(items, new, c, ch) /\ \A n \in DOMAIN new : new[n].id \in Ids
<1>. DEFINE places == DOMAIN items \ PositionsOf(items, ch.id)
            new == Among(items, places)
<1>1. Has(items, ch.id) /\ ItemOf(items, ch.id).version = ch.version /\ Deleted(items, ch).items = new
  BY DEF Deleted, Outcome
<1>2. OfRow(ItemOf(items, ch.id)) \in ToldOf(items, ch.id) /\ OfRow(ItemOf(items, ch.id)).version = ch.version
  BY <1>1, HasIsTold DEF OfRow
<1>3. places \in SUBSET DOMAIN items
  OBVIOUS
<1>4. Told(new) = {OfRow(items[i]) : i \in {j \in places : items[j].id \in Ids}} /\ UniqueIn(new)
  <2>. HIDE DEF places
  <2>. QED
    BY <1>3, AmongTell
<1>5. \A n \in DOMAIN new : \E i \in places : new[n] = items[i]
  <2>. HIDE DEF places
  <2>. QED
    BY <1>3, AmongAreRows
<1>. HIDE DEF new
<1>6. Told(new) = Told(items) \ ToldOf(items, ch.id)
  BY <1>4 DEF Told, ToldOf, OfRow, PositionsOf
<1>7. Makes(items, new, c, ch)
  BY <1>2, <1>4, <1>6 DEF Makes
<1>. QED
  BY <1>1, <1>5, <1>7

LEMMA OutcomeMakes ==
    ASSUME NEW items \in Seq(Rows), UniqueIn(items), \A n \in DOMAIN items : items[n].id \in Ids,
           NEW c \in Clients, NEW ch \in Changes, ch.id \in Ids, ch.kind # "none", OutcomeOf(items, c, ch).result = "made"
    PROVE  LET new == OutcomeOf(items, c, ch).items
           IN  Makes(items, new, c, ch) /\ \A n \in DOMAIN new : new[n].id \in Ids
<1>1. ch.kind \in {"create", "update", "delete"}
  BY DEF Changes
<1>2. CASE ch.kind = "create"
  <2>1. OutcomeOf(items, c, ch) = Created(items, c, ch)
    BY <1>2 DEF OutcomeOf
  <2>. QED
    BY <1>2, <2>1, CreatedMakes
<1>3. CASE ch.kind = "update"
  <2>1. OutcomeOf(items, c, ch) = Updated(items, c, ch)
    BY <1>3 DEF OutcomeOf
  <2>. QED
    BY <1>3, <2>1, UpdatedMakes
<1>4. CASE ch.kind = "delete"
  <2>1. OutcomeOf(items, c, ch) = Deleted(items, ch)
    BY <1>4 DEF OutcomeOf
  <2>. QED
    BY <1>4, <2>1, DeletedMakes
<1>. QED
  BY <1>1, <1>2, <1>3, <1>4

\* What's to be written of what a change comes to makes it of the tab, if
\* what was read and what's kept tell what the tab does.
LEMMA DecidedMakes ==
    ASSUME tab.rows \in Seq(Rows), kept.rows \in Seq(Rows) \cup {NONE},
           NEW rows \in Seq(Rows), Readable(rows), UniqueIn(rows), AllPlain(rows),
           \A i \in Nat : Alike(RowAt(rows, i), RowAt(tab.rows, i)),
           kept.rows # NONE => \A i \in Nat : Alike(RowAt(kept.rows, i), RowAt(tab.rows, i)),
           NEW c \in Clients, NEW ch \in Changes, ch.id \in Ids, ch.kind # "none",
           OutcomeOf(Items(rows), c, ch).result = "made"
    PROVE  LET write == Changing(2, Filled(OutcomeOf(Items(rows), c, ch).items, Len(rows) - 1))
           IN  Makes(tab.rows, SetRows(tab.rows, write), c, ch) /\ AllPlain(write)
<1>. DEFINE items == Items(rows)
            new == OutcomeOf(items, c, ch).items
            filled == Filled(new, Len(rows) - 1)
            write == Changing(2, filled)
            after == SetRows(tab.rows, write)
<1>1. items \in Seq(Rows) /\ Len(rows) \in Nat /\ Len(rows) - 1 \in Int /\ DOMAIN rows = 1 .. Len(rows)
  BY ItemsAreRows, LenProperties
<1>2. Told(items) = Told(rows) /\ UniqueIn(items) /\ \A n \in DOMAIN items : items[n].id \in Ids
  BY ItemsTell
<1>. HIDE DEF items
<1>3. new \in Seq(Rows)
  BY <1>1, OutcomeIsTyped
<1>4. Makes(items, new, c, ch) /\ \A n \in DOMAIN new : new[n].id \in Ids
  BY <1>1, <1>2, OutcomeMakes DEF items
<1>. HIDE DEF new
<1>5. filled \in Seq(Rows) /\ \A i \in Nat : RowAt(filled, i) = RowAt(new, i)
  BY <1>1, <1>3, FilledAreRows, FilledTell
<1>6. Len(filled) >= Len(rows) - 1 /\ Len(filled) \in Nat /\ DOMAIN filled = 1 .. Len(filled)
  <2>1. Len(filled) >= Len(rows) - 1
    BY <1>1, <1>3, FilledTell
  <2>. HIDE DEF filled
  <2>. QED
    BY <1>5, <2>1, LenProperties
<1>. HIDE DEF filled
<1>7. /\ IsWrite(write) /\ DOMAIN write \subseteq 2 .. Len(filled) + 1
      /\ \A i \in DOMAIN write : write[i] = filled[i - 1]
      /\ \A i \in 2 .. Len(filled) + 1 : i \notin DOMAIN write => kept.rows # NONE /\ RowAt(kept.rows, i) = filled[i - 1]
  <2>1. IsWrite(write)
    BY <1>5, ChangingIsWrite
  <2>2. write = [i \in {j \in 2 .. Len(filled) + 1 : kept.rows = NONE \/ RowAt(kept.rows, j) # filled[j - 1]} |-> filled[i - 1]]
    <3>1. 2 .. 2 + Len(filled) - 1 = 2 .. Len(filled) + 1
      BY <1>6
    <3>2. \A j \in 2 .. Len(filled) + 1 : j - 2 + 1 = j - 1
      BY <1>6
    <3>3. {j \in 2 .. 2 + Len(filled) - 1 : kept.rows = NONE \/ RowAt(kept.rows, j) # filled[j - 2 + 1]}
            = {j \in 2 .. Len(filled) + 1 : kept.rows = NONE \/ RowAt(kept.rows, j) # filled[j - 1]}
      BY <3>1, <3>2
    <3>. QED
      BY <3>2, <3>3 DEF Changing
  <2>. QED
    BY <2>1, <2>2
<1>8. \A i \in 1 .. Len(filled) : i - 1 + 1 = i /\ filled[i] = RowAt(new, i) /\ i \in Nat
  BY <1>5, <1>6 DEF RowAt
<1>. HIDE DEF write
<1>9. /\ after \in Seq(Rows)
      /\ \A i \in Nat : i \in DOMAIN write => RowAt(after, i) = write[i]
      /\ \A i \in Nat : i \notin DOMAIN write => RowAt(after, i) = RowAt(tab.rows, i)
  BY <1>7, SetRowsSetsRows
<1>. HIDE DEF after
<1>10. RowAt(after, 1).id \notin Ids
  <2>1. RowAt(after, 1) = RowAt(tab.rows, 1)
    BY <1>6, <1>7, <1>9
  <2>2. RowAt(rows, 1) = Header
    BY <1>1 DEF Readable, RowAt
  <2>3. Alike(RowAt(rows, 1), RowAt(tab.rows, 1))
    OBVIOUS
  <2>. QED
    BY <2>1, <2>2, <2>3, AlikeIs, IdsAssumption DEF Header, Row
<1>11. ASSUME NEW i \in Nat, i >= 1 PROVE Alike(RowAt(after, i + 1), RowAt(new, i))
  <2>1. CASE i + 1 \in DOMAIN write
    <3>1. RowAt(after, i + 1) = filled[i] /\ i \in 1 .. Len(filled)
      BY <1>6, <1>7, <1>9, <2>1
    <3>. QED
      BY <1>8, <3>1, AlikeIs
  <2>2. CASE i + 1 \notin DOMAIN write /\ i <= Len(filled)
    <3>1. RowAt(after, i + 1) = RowAt(tab.rows, i + 1) /\ kept.rows # NONE /\ RowAt(kept.rows, i + 1) = filled[i] /\ filled[i] = RowAt(new, i)
      BY <1>6, <1>7, <1>8, <1>9, <2>2, <1>11
    <3>2. Alike(RowAt(kept.rows, i + 1), RowAt(tab.rows, i + 1))
      BY <3>1
    <3>. QED
      BY <3>1, <3>2, AlikeIs
  <2>3. CASE i + 1 \notin DOMAIN write /\ i > Len(filled)
    <3>1. RowAt(after, i + 1) = RowAt(tab.rows, i + 1)
      BY <1>9, <2>3
    <3>2. RowAt(new, i) = Blank
      BY <1>5, <1>6, <2>3 DEF RowAt
    <3>3. RowAt(rows, i + 1) = Blank
      BY <1>1, <1>6, <2>3 DEF RowAt
    <3>4. Alike(RowAt(rows, i + 1), RowAt(tab.rows, i + 1))
      OBVIOUS
    <3>. QED
      BY <3>1, <3>2, <3>3, <3>4, AlikeIs
  <2>. QED
    BY <1>6, <2>1, <2>2, <2>3
<1>12. Told(after) = Told(new) /\ (UniqueIn(after) <=> UniqueIn(new))
  BY <1>3, <1>9, <1>10, <1>11, BelowHeader
<1>13. Told(items) = Told(tab.rows)
  BY <1>2, AlikeTellSame
<1>14. Makes(tab.rows, after, c, ch)
  BY <1>4, <1>12, <1>13 DEF Makes, ToldOf
<1>15. AllPlain(write)
  <2>. SUFFICES ASSUME NEW i \in DOMAIN write PROVE write[i] = Blank \/ write[i].id \in Ids
    BY DEF AllPlain
  <2>1. i - 1 \in 1 .. Len(filled) /\ write[i] = filled[i - 1]
    BY <1>6, <1>7
  <2>2. write[i] = RowAt(new, i - 1)
    BY <1>8, <2>1
  <2>. QED
    BY <1>4, <2>2 DEF RowAt
<1>. QED
  BY <1>14, <1>15 DEF after, write, filled, new, items

-----------------------------------------------------------------------------
(* What's been read tells what the tab did: of an item that's still there, *)
(* an older version, or the very same; of one made again, nothing.         *)

SeenOf(row, told, past, twice) ==
    row.id \in Ids \ twice =>
        /\ \A t \in told : t.id = row.id => row.version <= t.version /\ (row.version = t.version => row.by = t.by)
        /\ (\E t \in told : t.id = row.id) \/ row.id \in past

ReadOf(rows, told, past, twice) ==
    /\ AllPlain(rows) /\ UniqueIn(rows)
    /\ \A i \in DOMAIN rows : SeenOf(rows[i], told, past, twice)

MadeAgain(ch, past, twice) == IF ch.kind = "create" /\ ch.id \in past THEN twice \cup {ch.id} ELSE twice

LEMMA NothingIsRead == \A told, past, twice : ReadOf(<<>>, told, past, twice)
BY DEF ReadOf, AllPlain, UniqueIn

LEMMA MakesKeepsSeen ==
    ASSUME NEW rows \in Seq(Rows), NEW after, NEW c \in Clients, NEW ch \in Changes, ch.kind # "none",
           Makes(rows, after, c, ch), NEW row \in Rows, NEW past, NEW twice, SeenOf(row, Told(rows), past, twice)
    PROVE  SeenOf(row, Told(after), past \cup {ch.id}, MadeAgain(ch, past, twice))
<1>. DEFINE of == ToldOf(rows, ch.id)
            rest == Told(rows) \ of
<1>. SUFFICES ASSUME row.id \in Ids, row.id \notin MadeAgain(ch, past, twice)
     PROVE  /\ \A t \in Told(after) : t.id = row.id => row.version <= t.version /\ (row.version = t.version => row.by = t.by)
            /\ (\E t \in Told(after) : t.id = row.id) \/ row.id \in past \cup {ch.id}
  BY DEF SeenOf
<1>1. /\ row.id \notin twice
      /\ \A t \in Told(rows) : t.id = row.id => row.version <= t.version /\ (row.version = t.version => row.by = t.by)
      /\ (\E t \in Told(rows) : t.id = row.id) \/ row.id \in past
  BY DEF SeenOf, MadeAgain
<1>2. \A t : t \in of <=> t \in Told(rows) /\ t.id = ch.id
  BY DEF ToldOf
<1>3. ch.kind \in {"create", "update", "delete"} /\ ch.version \in Nat /\ row.version \in Nat
  BY DEF Changes, Rows
<1>4. \A t \in Told(rows) : t.version \in Nat
  BY ToldIsTyped DEF Item
<1>5. /\ ch.kind = "create" => of = {} /\ Told(after) = rest \cup {[id |-> ch.id, version |-> 1, by |-> c]}
      /\ ch.kind # "create" => \E t \in of : t.version = ch.version
      /\ ch.kind = "update" => Told(after) = rest \cup {[id |-> ch.id, version |-> ch.version + 1, by |-> c]}
      /\ ch.kind = "delete" => Told(after) = rest
  BY DEF Makes
<1>. HIDE DEF of
<1>6. CASE row.id # ch.id
  <2>1. \A t : t.id = row.id => (t \in Told(after) <=> t \in Told(rows))
    <3>. TAKE t
    <3>. SUFFICES ASSUME t.id = row.id PROVE t \in Told(after) <=> t \in Told(rows)
      OBVIOUS
    <3>1. t \notin of /\ t # [id |-> ch.id, version |-> 1, by |-> c] /\ t # [id |-> ch.id, version |-> ch.version + 1, by |-> c]
      BY <1>2, <1>6
    <3>. QED
      BY <1>3, <1>5, <3>1
  <2>. QED
    BY <1>1, <2>1
<1>7. CASE row.id = ch.id
  <2>1. CASE ch.kind = "create"
    <3>1. row.id \in past
      BY <1>1, <1>2, <1>5, <1>7, <2>1
    <3>. QED
      BY <1>7, <2>1, <3>1 DEF MadeAgain
  <2>2. CASE ch.kind = "update"
    <3>1. PICK s \in of : s.version = ch.version
      BY <1>5, <2>2
    <3>2. row.version <= ch.version
      BY <1>1, <1>2, <1>7, <3>1
    <3>3. \A t \in Told(after) : t.id = ch.id => t.version = ch.version + 1
      BY <1>2, <1>5, <2>2
    <3>. QED
      BY <1>3, <1>7, <3>2, <3>3
  <2>3. CASE ch.kind = "delete"
    BY <1>2, <1>5, <1>7, <2>3
  <2>. QED
    BY <1>3, <2>1, <2>2, <2>3
<1>. QED
  BY <1>6, <1>7

LEMMA MakesKeepsReads ==
    ASSUME NEW rows \in Seq(Rows), NEW after, NEW c \in Clients, NEW ch \in Changes, ch.kind # "none",
           Makes(rows, after, c, ch), NEW read \in Seq(Rows), NEW past, NEW twice, ReadOf(read, Told(rows), past, twice)
    PROVE  ReadOf(read, Told(after), past \cup {ch.id}, MadeAgain(ch, past, twice))
<1>1. \A i \in DOMAIN read : read[i] \in Rows /\ SeenOf(read[i], Told(rows), past, twice)
  BY LenProperties, ElementOfSeq DEF ReadOf
<1>2. \A i \in DOMAIN read : SeenOf(read[i], Told(after), past \cup {ch.id}, MadeAgain(ch, past, twice))
  BY <1>1, MakesKeepsSeen
<1>. QED
  BY <1>2 DEF ReadOf

\* What tells what the tab does is read of it.
LEMMA AlikeIsRead ==
    ASSUME NEW rows \in Seq(Rows), NEW others \in Seq(Rows), UniqueIn(others), AllPlain(rows),
           \A i \in Nat : Alike(RowAt(rows, i), RowAt(others, i)), NEW past, NEW twice
    PROVE  ReadOf(rows, Told(others), past, twice)
<1>1. Told(rows) = Told(others) /\ UniqueIn(rows)
  BY AlikeTellSame
<1>2. ASSUME NEW i \in DOMAIN rows, rows[i].id \in Ids, NEW t \in Told(rows), t.id = rows[i].id PROVE t = OfRow(rows[i])
  BY <1>1, <1>2 DEF UniqueIn, Told, OfRow
<1>3. \A i \in DOMAIN rows : rows[i].version \in Nat
  <2>1. \A i \in DOMAIN rows : rows[i] \in Rows
    BY LenProperties, ElementOfSeq
  <2>. QED
    BY <2>1 DEF Rows
<1>4. ASSUME NEW i \in DOMAIN rows PROVE SeenOf(rows[i], Told(others), past, twice)
  <2>. SUFFICES ASSUME rows[i].id \in Ids
       PROVE  /\ \A t \in Told(rows) : t.id = rows[i].id =>
                    rows[i].version <= t.version /\ (rows[i].version = t.version => rows[i].by = t.by)
              /\ \E t \in Told(rows) : t.id = rows[i].id
    BY <1>1 DEF SeenOf
  <2>1. OfRow(rows[i]) \in Told(rows) /\ OfRow(rows[i]).id = rows[i].id
    BY DEF Told, OfRow
  <2>2. \A t \in Told(rows) : t.id = rows[i].id => t.version = rows[i].version /\ t.by = rows[i].by
    BY <1>2 DEF OfRow
  <2>. QED
    BY <1>3, <2>1, <2>2
<1>. QED
  BY <1>1, <1>4 DEF ReadOf

LEMMA ItemsAreRead ==
    ASSUME NEW rows \in Seq(Rows), NEW told, NEW past, NEW twice, ReadOf(rows, told, past, twice)
    PROVE  ReadOf(Items(rows), told, past, twice)
<1>1. UniqueIn(Items(rows)) /\ AllPlain(Items(rows))
  BY ItemsTell DEF ReadOf, AllPlain
<1>2. \A n \in DOMAIN Items(rows) : \E i \in DOMAIN rows : Items(rows)[n] = rows[i]
  BY ItemsTell
<1>. QED
  BY <1>1, <1>2 DEF ReadOf

-----------------------------------------------------------------------------
(* The invariant, of a tab nobody has deleted.                             *)

Spent == [edits : Nat, deletes : Nat, fails : Nat, restarts : Nat]
MadeChange == [who : Clients, kind : {"create", "update", "delete"}, id : Ids,
               was : Clients \cup {NONE}, saw : Clients \cup {NONE}]


Past == {made[k].id : k \in DOMAIN made}
Change == client[call.who].change

\* The tab is tagged once it's been filled, and found by its tag.
Founded ==
    /\ (tab.tagged \/ tab.rows # <<>>) => tab.there
    /\ kept.known \/ made # <<>> => tab.tagged
    /\ call.at \in {"reading", "deciding", "sending"} => kept.known /\ client[call.who].at = "asking"
    /\ call.at \in {"adding", "heading"} => ~tab.tagged
    /\ call.at = "heading" => tab.there /\ tab.rows = <<>> /\ call.write = <<Header>>
    /\ kept.rows # NONE => tab.there
    /\ \A a \in {"call", "reader"} : load[a].at \in {"answered", "done"} => tab.there
    /\ refresh.at # "none" => tab.there /\ ~refresh.gone /\ refresh.at \notin {"adding", "tagging"}

AllRead ==
    /\ AllPlain(tab.rows) /\ UniqueIn(tab.rows)
    /\ kept.rows # NONE => ReadOf(kept.rows, Told(tab.rows), Past, again)
    /\ \A a \in {"call", "reader"} :
          load[a].at \in {"answered", "done"} => ReadOf(load[a].rows, Told(tab.rows), Past, again)
    /\ \A c \in Clients : ReadOf(client[c].view, Told(tab.rows), Past, again)
    /\ call.at = "deciding" => ReadOf(call.rows, Told(tab.rows), Past, again)
    /\ call.at \in {"heading", "sending", "keeping"} => AllPlain(call.write)

\* What's kept, and what's read to be, tells what the tab does, but for what
\* a call is writing.
AlikeBut(rows, others, places) == \A i \in Nat : i \in places \/ Alike(RowAt(rows, i), RowAt(others, i))
PendingRows == IF call.at \in {"heading", "sending", "keeping"} THEN DOMAIN call.write ELSE {}
AllAlike ==
    /\ kept.rows # NONE => AlikeBut(kept.rows, tab.rows, PendingRows)
    /\ \A a \in {"call", "reader"} : WillBeKept(a) => AlikeBut(load[a].rows, tab.rows, PendingRows)
    /\ load["call"].at # "none" => call.at = "reading"
    /\ load["call"].at \in {"answered", "done"} => AlikeBut(load["call"].rows, tab.rows, {})
    /\ call.at = "deciding" => AlikeBut(call.rows, tab.rows, {})
    /\ call.at = "keeping" => \A i \in DOMAIN call.write : Alike(call.write[i], RowAt(tab.rows, i))

\* What a call is sending makes its client's change of the tab.
SendsChange ==
    call.at = "sending" => Makes(tab.rows, SetRows(tab.rows, call.write), call.who, client[call.who].change)

\* A client asks for a change of an item it read, from the version it read.
AskedOf(c) ==
    /\ client[c].change.kind # "none" /\ client[c].change.id \in Ids
    /\ client[c].change.kind # "create" =>
          \E i \in DOMAIN client[c].view :
             client[c].view[i].id = client[c].change.id /\ client[c].view[i].version = client[c].change.version
Asked == \A c \in Clients : client[c].at = "asking" => AskedOf(c)

\* A change made was its client's, was made to what it read, and isn't made
\* again: of an item updated there's a later version, or none.
MadeAs(k) ==
    /\ client[made[k].who].at # "new"
    /\ made[k].kind = client[made[k].who].change.kind /\ made[k].id = client[made[k].who].change.id
    /\ made[k].kind # "create" /\ made[k].id \notin again =>
          /\ made[k].was = made[k].saw
          /\ \A t \in Told(tab.rows) :
                t.id = made[k].id => made[k].kind = "update" /\ t.version > client[made[k].who].change.version
AllMadeAs == \A k \in DOMAIN made : MadeAs(k)
Once == \A k, l \in DOMAIN made : k # l /\ made[k].id \notin again => made[k].who # made[l].who

\* Of each item there's what was last made of it.
LastTold(k) ==
    IF made[k].kind = "delete" THEN \A t \in Told(tab.rows) : t.id # made[k].id
    ELSE \E t \in Told(tab.rows) : t.id = made[k].id /\ t.by = made[k].who
LastsTold == \A id \in Ids : \A k \in LastMade(id) : LastTold(k)

History == made \in Seq(MadeChange) /\ AllMadeAs /\ Once /\ LastsTold
Tells == Founded /\ AllRead /\ AllAlike /\ SendsChange /\ Asked /\ History
RowsInv == spent \in Spent /\ KeptInv /\ (emptied \/ Tells)

LEMMA TabIsRead ==
    ASSUME RowsInv, ~emptied
    PROVE  ReadOf(tab.rows, Told(tab.rows), Past, again)
<1>1. tab.rows \in Seq(Rows) /\ AllPlain(tab.rows) /\ UniqueIn(tab.rows)
  BY DEF RowsInv, Tells, KeptInv, Base, TypeOK, AllRead
<1>2. \A i \in Nat : Alike(RowAt(tab.rows, i), RowAt(tab.rows, i))
  BY AlikeIs
<1>. QED
  BY <1>1, <1>2, AlikeIsRead

LEMMA RowsInit == Init => RowsInv
<1>. SUFFICES ASSUME Init PROVE RowsInv
  OBVIOUS
<1>1. KeptInv
  BY KeptInit
<1>2. spent \in Spent
  BY DEF Init, TabInit, Spent
<1>3. /\ kept.rows = NONE /\ ~kept.known /\ made = <<>> /\ again = {} /\ call.at = "none" /\ refresh.at = "none"
      /\ \A a \in {"call", "reader"} : load[a].at = "none"
      /\ \A c \in Clients : client[c].at = "new" /\ client[c].view = <<>>
  BY DEF Init, TabInit, NothingKept, NoCall, NoRefresh, NoLoad
<1>4. /\ (tab.tagged \/ tab.rows # <<>>) => tab.there
      /\ tab.rows = <<>> \/ \E row : tab.rows = <<Header, row>> /\ row.id \in Ids
  <2>1. CASE tab = NoTab
    BY <2>1 DEF NoTab
  <2>2. CASE tab # NoTab
    BY <2>2 DEF Init, TabInit, Row
  <2>. QED
    BY <2>1, <2>2
<1>5. AllPlain(tab.rows) /\ UniqueIn(tab.rows)
  <2>1. CASE tab.rows = <<>>
    BY <2>1 DEF AllPlain, UniqueIn
  <2>2. ASSUME NEW row, tab.rows = <<Header, row>>, row.id \in Ids PROVE AllPlain(tab.rows) /\ UniqueIn(tab.rows)
    <3>1. Header.id = "header" /\ "header" \notin Ids
      BY IdsAssumption DEF Header, Row
    <3>2. DOMAIN tab.rows = {1, 2} /\ tab.rows[1] = Header /\ tab.rows[2] = row
      BY <2>2
    <3>. QED
      BY <2>2, <3>1, <3>2 DEF AllPlain, UniqueIn
  <2>. QED
    BY <1>4, <2>1, <2>2
<1>6. Founded
  BY <1>3, <1>4 DEF Founded
<1>7. AllRead
  BY <1>3, <1>5, NothingIsRead DEF AllRead
<1>8. AllAlike /\ SendsChange /\ Asked
  BY <1>3 DEF AllAlike, WillBeKept, SendsChange, Asked
<1>9. History
  <2>1. DOMAIN made = {}
    BY <1>3
  <2>. QED
    BY <2>1 DEF History, AllMadeAs, Once, LastsTold, LastMade
<1>. QED
  BY <1>1, <1>2, <1>6, <1>7, <1>8, <1>9 DEF RowsInv, Tells

-----------------------------------------------------------------------------
(* Steps that make no change of items.                                     *)

\* The reads there were are still so, and so is what was made.
GoesOnSo ==
    /\ AllPlain(tab'.rows) /\ UniqueIn(tab'.rows)
    /\ \A rows \in Seq(Rows) :
          ReadOf(rows, Told(tab.rows), Past, again) => ReadOf(rows, Told(tab'.rows), Past', again')
    /\ made' \in Seq(MadeChange) /\ AllMadeAs' /\ Once' /\ LastsTold'

\* No client that has asked asks for something else.
ClientsKeep ==
    \A c \in Clients : client[c].at # "new" =>
        client'[c].at # "new" /\ client'[c].view = client[c].view /\ client'[c].change = client[c].change

LEMMA MadeIsTyped ==
    ASSUME made \in Seq(MadeChange)
    PROVE  /\ Len(made) \in Nat /\ DOMAIN made = 1 .. Len(made)
           /\ \A k \in DOMAIN made : made[k] \in MadeChange
BY LenProperties, ElementOfSeq

LEMMA TellGoesOn ==
    ASSUME RowsInv, ~emptied, UNCHANGED <<made, again>>, ClientsKeep, AllPlain(tab'.rows),
           Told(tab'.rows) = Told(tab.rows), UniqueIn(tab'.rows)
    PROVE  GoesOnSo
<1>1. AllMadeAs /\ Once /\ LastsTold /\ made \in Seq(MadeChange)
  BY DEF RowsInv, Tells, History
<1>2. Told(tab'.rows) = Told(tab.rows) /\ UniqueIn(tab'.rows)
  OBVIOUS
<1>3. Past' = Past
  BY DEF Past
<1>4. \A k \in DOMAIN made : made[k].who \in Clients
  BY <1>1, MadeIsTyped DEF MadeChange
<1>5. AllMadeAs'
  <2>. SUFFICES ASSUME NEW k \in DOMAIN made PROVE MadeAs(k)'
    BY DEF AllMadeAs
  <2>1. MadeAs(k)
    BY <1>1 DEF AllMadeAs
  <2>2. /\ client'[made[k].who].at # "new" /\ client'[made[k].who].change = client[made[k].who].change
    BY <1>4, <2>1 DEF ClientsKeep, MadeAs
  <2>. QED
    BY <1>2, <2>1, <2>2 DEF MadeAs
<1>6. Once'
  BY <1>1 DEF Once
<1>7. LastsTold'
  BY <1>1, <1>2 DEF LastsTold, LastMade, LastTold
<1>. QED
  BY <1>1, <1>2, <1>3, <1>5, <1>6, <1>7 DEF GoesOnSo

LEMMA SameGoesOn ==
    ASSUME RowsInv, ~emptied, UNCHANGED <<made, again>>, ClientsKeep, AllPlain(tab'.rows), tab'.rows \in Seq(Rows),
           \A i \in Nat : Alike(RowAt(tab'.rows, i), RowAt(tab.rows, i))
    PROVE  GoesOnSo
<1>1. tab.rows \in Seq(Rows) /\ UniqueIn(tab.rows)
  BY DEF RowsInv, Tells, KeptInv, Base, TypeOK, AllRead
<1>2. Told(tab'.rows) = Told(tab.rows) /\ UniqueIn(tab'.rows)
  BY <1>1, AlikeTellSame
<1>. QED
  BY <1>2, TellGoesOn

-----------------------------------------------------------------------------
(* A change is made.                                                       *)

ByOf(items, id) == IF Has(items, id) THEN ItemOf(items, id).by ELSE NONE
NoteOf == [who |-> call.who, kind |-> Change.kind, id |-> Change.id,
           was |-> ByOf(Items(tab.rows), Change.id), saw |-> ByOf(client[call.who].view, Change.id)]

LEMMA ByIsTyped == ASSUME NEW items \in Seq(Rows), NEW id PROVE ByOf(items, id) \in Clients \cup {NONE}
BY ItemIsThere DEF ByOf, Rows

LEMMA NotesAre ==
    ASSUME Notes, call.at = "sending"
    PROVE  made' = Append(made, NoteOf) /\ again' = MadeAgain(Change, Past, again)
<1>1. (\E k \in DOMAIN made : made[k].id = Change.id) <=> Change.id \in Past
  BY DEF Past
<1>. QED
  BY <1>1 DEF Notes, NoteOf, Change, ByOf, MadeAgain

LEMMA PlainSet ==
    ASSUME NEW rows \in Seq(Rows), AllPlain(rows), NEW write \in Writes, AllPlain(write)
    PROVE  AllPlain(SetRows(rows, write))
<1>. DEFINE after == SetRows(rows, write)
<1>1. /\ after \in Seq(Rows)
      /\ \A i \in Nat : i \in DOMAIN write => RowAt(after, i) = write[i]
      /\ \A i \in Nat : i \notin DOMAIN write => RowAt(after, i) = RowAt(rows, i)
  BY WritesAre, SetRowsSetsRows
<1>. HIDE DEF after
<1>2. ASSUME NEW i \in DOMAIN after PROVE after[i] = Blank \/ after[i].id \in {"header"} \cup Ids
  <2>1. i \in Nat /\ after[i] = RowAt(after, i)
    BY <1>1, LenProperties DEF RowAt
  <2>2. CASE i \in DOMAIN write
    BY <1>1, <2>1, <2>2 DEF AllPlain
  <2>3. CASE i \notin DOMAIN write
    BY <1>1, <2>1, <2>3 DEF AllPlain, RowAt
  <2>. QED
    BY <2>2, <2>3
<1>. QED
  BY <1>2 DEF AllPlain, after

\* What there's told of the change's item before and after, and of others.
TellsMade(rows, after, c, ch) ==
    /\ \A t : t.id # ch.id => (t \in Told(after) <=> t \in Told(rows))
    /\ ch.kind = "delete" => \A t \in Told(after) : t.id # ch.id
    /\ ch.kind # "delete" => \E t \in Told(after) : t.id = ch.id /\ t.by = c
    /\ ch.kind = "update" => \A t \in Told(after) : t.id = ch.id => t.version = ch.version + 1
    /\ ch.kind = "create" => \A t \in Told(rows) : t.id # ch.id
    /\ ch.kind # "create" => \E t \in Told(rows) : t.id = ch.id /\ t.version = ch.version

LEMMA MakesTell ==
    ASSUME NEW rows \in Seq(Rows), NEW after, NEW c \in Clients, NEW ch \in Changes, ch.kind # "none", Makes(rows, after, c, ch)
    PROVE  TellsMade(rows, after, c, ch)
<1>. DEFINE of == ToldOf(rows, ch.id)
            rest == Told(rows) \ of
            new == [id |-> ch.id, version |-> IF ch.kind = "create" THEN 1 ELSE ch.version + 1, by |-> c]
<1>1. /\ ch.kind = "create" => of = {} /\ Told(after) = rest \cup {new}
      /\ ch.kind # "create" => \E t \in of : t.version = ch.version
      /\ ch.kind = "update" => Told(after) = rest \cup {new}
      /\ ch.kind = "delete" => Told(after) = rest
  BY DEF Makes
<1>2. \A t : t \in of <=> t \in Told(rows) /\ t.id = ch.id
  BY DEF ToldOf
<1>3. ch.kind \in {"create", "update", "delete"}
  BY DEF Changes
<1>4. new.id = ch.id /\ new.by = c /\ (ch.kind = "update" => new.version = ch.version + 1)
  OBVIOUS
<1>. HIDE DEF of, new
<1>. QED
  BY <1>1, <1>2, <1>3, <1>4 DEF TellsMade

\* What a change replaces was written by whom its client read.
LEMMA AsItRead ==
    ASSUME RowsInv, ~emptied, call.at = "sending", Change.kind # "create", Change.id \notin again
    PROVE  NoteOf.was = NoteOf.saw
<1>. DEFINE ch == Change
            view == client[call.who].view
            items == Items(tab.rows)
<1>1. /\ call.who \in Clients /\ ch \in Changes /\ view \in Seq(Rows) /\ tab.rows \in Seq(Rows)
      /\ ReadOf(view, Told(tab.rows), Past, again) /\ UniqueIn(tab.rows)
  BY DEF RowsInv, Tells, KeptInv, Base, TypeOK, Locked, Client, AllRead, Change
<1>2. AskedOf(call.who)
  BY <1>1 DEF RowsInv, Tells, Founded, Asked
<1>3. ch.kind # "none" /\ ch.id \in Ids
  BY <1>2 DEF AskedOf, Change
<1>4. PICK i \in DOMAIN view : view[i].id = ch.id /\ view[i].version = ch.version
  BY <1>2 DEF AskedOf, Change
<1>5. PICK s \in Told(tab.rows) : s.id = ch.id /\ s.version = ch.version
  <2>1. Makes(tab.rows, SetRows(tab.rows, call.write), call.who, ch)
    BY DEF RowsInv, Tells, SendsChange, Change
  <2>. HIDE DEF ch
  <2>. QED
    <3>1. TellsMade(tab.rows, SetRows(tab.rows, call.write), call.who, ch)
      BY <1>1, <1>3, <2>1, MakesTell
    <3>2. ch.kind # "create"
      BY DEF ch
    <3>. QED
      BY <3>1, <3>2 DEF TellsMade
<1>6. ByOf(items, ch.id) = s.by
  <2>1. items \in Seq(Rows) /\ Told(items) = Told(tab.rows) /\ UniqueIn(items)
    BY <1>1, ItemsAreRows, ItemsTell
  <2>. HIDE DEF items, ch
  <2>2. s \in ToldOf(items, ch.id)
    BY <1>5, <2>1 DEF ToldOf
  <2>3. Has(items, ch.id) /\ OfRow(ItemOf(items, ch.id)) \in ToldOf(items, ch.id)
    BY <1>3, <2>1, <2>2, HasIsTold
  <2>4. OfRow(ItemOf(items, ch.id)) = s
    BY <1>3, <2>1, <2>2, <2>3, OneIsTold
  <2>. QED
    BY <2>3, <2>4 DEF ByOf, OfRow
<1>7. ByOf(view, ch.id) = view[i].by
  <2>. HIDE DEF view, ch
  <2>1. Has(view, ch.id)
    BY <1>4 DEF Has, PositionsOf
  <2>2. /\ Max(PositionsOf(view, ch.id)) \in DOMAIN view
        /\ ItemOf(view, ch.id) = view[Max(PositionsOf(view, ch.id))]
        /\ ItemOf(view, ch.id).id = ch.id
    BY <1>1, <2>1, ItemIsThere
  <2>3. Max(PositionsOf(view, ch.id)) = i
    BY <1>1, <1>3, <1>4, <2>2 DEF ReadOf, UniqueIn
  <2>. QED
    BY <2>1, <2>2, <2>3 DEF ByOf
<1>8. view[i].by = s.by
  <2>1. SeenOf(view[i], Told(tab.rows), Past, again)
    BY <1>1 DEF ReadOf
  <2>. QED
    BY <1>3, <1>4, <1>5, <2>1 DEF SeenOf
<1>. QED
  BY <1>6, <1>7, <1>8 DEF NoteOf

LEMMA SentGoesOn ==
    ASSUME RowsInv, ~emptied, call.at = "sending", Takes(call.write), Notes, UNCHANGED client
    PROVE  GoesOnSo
<1>. DEFINE ch == Change
<1>1. /\ call.who \in Clients /\ ch \in Changes /\ client[call.who].view \in Seq(Rows) /\ tab.rows \in Seq(Rows)
      /\ call.write \in Writes /\ TypeOK
  BY DEF RowsInv, Tells, KeptInv, Base, TypeOK, Locked, Client, Change, Calling
<1>2. ch.kind \in {"create", "update", "delete"} /\ ch.id \in Ids /\ client[call.who].at = "asking" /\ ch.version \in Nat
  <2>1. AskedOf(call.who) /\ client[call.who].at = "asking"
    BY <1>1 DEF RowsInv, Tells, Founded, Asked
  <2>. QED
    BY <1>1, <2>1 DEF AskedOf, Change, Changes
<1>3. tab'.rows \in Seq(Rows) /\ tab'.rows = SetRows(tab.rows, call.write)
  BY <1>1, TakesIsTyped
<1>4. Makes(tab.rows, tab'.rows, call.who, ch)
  BY <1>3 DEF RowsInv, Tells, SendsChange, Change
<1>5. made' = Append(made, NoteOf) /\ again' = MadeAgain(ch, Past, again)
  BY NotesAre
<1>6. NoteOf \in MadeChange
  <2>1. Items(tab.rows) \in Seq(Rows)
    BY <1>1, ItemsAreRows
  <2>2. /\ ByOf(Items(tab.rows), Change.id) \in Clients \cup {NONE}
        /\ ByOf(client[call.who].view, Change.id) \in Clients \cup {NONE}
    BY <1>1, <2>1, ByIsTyped
  <2>. QED
    BY <1>1, <1>2, <2>2 DEF NoteOf, MadeChange
<1>7. /\ made \in Seq(MadeChange) /\ Len(made) \in Nat /\ DOMAIN made = 1 .. Len(made)
      /\ \A k \in DOMAIN made : made[k] \in MadeChange
  BY MadeIsTyped DEF RowsInv, Tells, History
<1>0. PICK last \in Nat : last = Len(made) + 1
  BY <1>7
<1>8. /\ made' \in Seq(MadeChange) /\ DOMAIN made' = DOMAIN made \cup {last} /\ last \notin DOMAIN made
      /\ \A k \in DOMAIN made : made'[k] = made[k]
      /\ made'[last] = NoteOf
  <2>1. /\ made' \in Seq(MadeChange) /\ Len(made') = Len(made) + 1
        /\ \A k \in 1 .. Len(made) : made'[k] = made[k]
        /\ made'[Len(made) + 1] = NoteOf
    BY <1>5, <1>6, <1>7, AppendProperties
  <2>2. DOMAIN made' = 1 .. Len(made) + 1
    BY <2>1, LenProperties
  <2>. QED
    BY <1>0, <1>7, <2>1, <2>2
<1>9. NoteOf.who = call.who /\ NoteOf.kind = ch.kind /\ NoteOf.id = ch.id
  BY DEF NoteOf
<1>10. Past' = Past \cup {ch.id}
  BY <1>8, <1>9 DEF Past
<1>11. /\ \A t : t.id # ch.id => (t \in Told(tab'.rows) <=> t \in Told(tab.rows))
       /\ ch.kind = "delete" => \A t \in Told(tab'.rows) : t.id # ch.id
       /\ ch.kind # "delete" => \E t \in Told(tab'.rows) : t.id = ch.id /\ t.by = call.who
       /\ ch.kind = "update" => \A t \in Told(tab'.rows) : t.id = ch.id => t.version = ch.version + 1
       /\ ch.kind = "create" => \A t \in Told(tab.rows) : t.id # ch.id
       /\ ch.kind # "create" => \E t \in Told(tab.rows) : t.id = ch.id /\ t.version = ch.version
  <2>. HIDE DEF ch
  <2>. QED
    <3>1. TellsMade(tab.rows, tab'.rows, call.who, ch)
      BY <1>1, <1>2, <1>4, MakesTell
    <3>. QED
      BY <3>1 DEF TellsMade
<1>12. again \subseteq again' /\ \A k \in DOMAIN made : ch.kind = "create" /\ made[k].id = ch.id => ch.id \in again'
  BY <1>5 DEF MadeAgain, Past
<1>13. \A t \in Told(tab.rows) : t.version \in Nat
  BY <1>1, ToldIsTyped DEF Item
<1>14. AllPlain(tab'.rows) /\ UniqueIn(tab'.rows)
  <2>1. AllPlain(tab.rows) /\ AllPlain(call.write)
    BY DEF RowsInv, Tells, AllRead
  <2>. QED
    BY <1>1, <1>3, <1>4, <2>1, PlainSet DEF Makes
<1>15. ASSUME NEW rows \in Seq(Rows), ReadOf(rows, Told(tab.rows), Past, again)
       PROVE  ReadOf(rows, Told(tab'.rows), Past', again')
  <2>. HIDE DEF ch
  <2>1. ReadOf(rows, Told(tab'.rows), Past \cup {ch.id}, MadeAgain(ch, Past, again))
    BY <1>1, <1>2, <1>4, <1>15, MakesKeepsReads
  <2>. QED
    BY <1>5, <1>10, <2>1
<1>16. \A k \in DOMAIN made : MadeAs(k) /\ made[k].who \in Clients
  BY <1>7 DEF RowsInv, Tells, History, AllMadeAs, MadeChange
<1>17. \A c \in Clients : client[c].change.version \in Nat
  BY <1>1 DEF TypeOK, Client, Changes
<1>18. ASSUME NEW k \in DOMAIN made PROVE MadeAs(k)'
  <2>. DEFINE version == client[made[k].who].change.version
  <2>1. /\ client[made[k].who].at # "new" /\ version \in Nat
        /\ made[k].kind = client[made[k].who].change.kind /\ made[k].id = client[made[k].who].change.id
        /\ made[k].kind # "create" /\ made[k].id \notin again =>
             /\ made[k].was = made[k].saw
             /\ \A t \in Told(tab.rows) : t.id = made[k].id => made[k].kind = "update" /\ t.version > version
    BY <1>16, <1>17 DEF MadeAs
  <2>2. ASSUME made[k].kind # "create", made[k].id \notin again', NEW t \in Told(tab'.rows), t.id = made[k].id
        PROVE  made[k].kind = "update" /\ t.version > version
    <3>1. \A u \in Told(tab.rows) : u.id = made[k].id => made[k].kind = "update" /\ u.version > version
      BY <1>12, <2>1, <2>2
    <3>2. CASE t.id # ch.id
      BY <1>11, <2>2, <3>1, <3>2
    <3>3. CASE t.id = ch.id
      <4>1. ch.kind = "update"
        BY <1>2, <1>11, <1>12, <2>2, <3>3
      <4>2. PICK s \in Told(tab.rows) : s.id = ch.id /\ s.version = ch.version
        BY <1>11, <4>1
      <4>3. made[k].kind = "update" /\ ch.version > version /\ t.version = ch.version + 1
        BY <1>11, <2>2, <3>1, <3>3, <4>1, <4>2
      <4>. HIDE DEF version, ch
      <4>. QED
        BY <1>2, <2>1, <4>3
    <3>. QED
      BY <3>2, <3>3
  <2>. QED
    BY <1>8, <1>12, <2>1, <2>2 DEF MadeAs
<1>19. MadeAs(last)'
  <2>1. ASSUME ch.kind # "create", ch.id \notin again' PROVE NoteOf.was = NoteOf.saw
    BY <1>12, <2>1, AsItRead
  <2>2. ASSUME ch.kind # "create", NEW t \in Told(tab'.rows), t.id = ch.id PROVE ch.kind = "update" /\ t.version > ch.version
    <3>1. ch.kind = "update" /\ t.version = ch.version + 1
      BY <1>2, <1>11, <2>2
    <3>. HIDE DEF ch
    <3>. QED
      BY <1>2, <3>1
  <2>. QED
    BY <1>2, <1>8, <1>9, <2>1, <2>2 DEF MadeAs, Change
<1>20. AllMadeAs'
  <2>1. \A k \in DOMAIN made' : k \in DOMAIN made \/ k = last
    BY <1>8
  <2>. QED
    BY <1>18, <1>19, <2>1 DEF AllMadeAs
<1>21. ASSUME NEW k \in DOMAIN made, made[k].id \notin again' PROVE made[k].who # call.who
  <2>. SUFFICES ASSUME made[k].who = call.who PROVE FALSE
    OBVIOUS
  <2>1. made[k].kind = ch.kind /\ made[k].id = ch.id
    BY <1>16 DEF MadeAs, Change
  <2>2. ch.kind # "create" /\ ch.id \notin again
    BY <1>12, <1>21, <2>1
  <2>3. \A t \in Told(tab.rows) : t.id = ch.id => ch.kind = "update" /\ t.version > ch.version
    BY <1>16, <2>1, <2>2 DEF MadeAs, Change
  <2>4. PICK s \in Told(tab.rows) : s.id = ch.id /\ s.version = ch.version
    BY <1>11, <2>2
  <2>5. ch.version > ch.version
    BY <2>3, <2>4
  <2>. HIDE DEF ch
  <2>. QED
    BY <1>2, <2>5
<1>22. Once'
  <2>. SUFFICES ASSUME NEW k \in DOMAIN made', NEW l \in DOMAIN made', k # l, made'[k].id \notin again'
       PROVE  made'[k].who # made'[l].who
    BY DEF Once
  <2>1. CASE k \in DOMAIN made /\ l \in DOMAIN made
    BY <1>8, <1>12, <2>1 DEF RowsInv, Tells, History, Once
  <2>2. CASE k \in DOMAIN made /\ l = last
    BY <1>8, <1>9, <1>21, <2>2
  <2>3. CASE k = last /\ l \in DOMAIN made
    <3>1. made'[k].id = ch.id /\ made'[k].who = call.who /\ made'[l] = made[l]
      BY <1>8, <1>9, <2>3
    <3>2. made[l].who = call.who => made[l].id = ch.id
      BY <1>16, <2>3 DEF MadeAs, Change
    <3>. QED
      BY <1>21, <2>3, <3>1, <3>2
  <2>. QED
    BY <1>8, <2>1, <2>2, <2>3
<1>23. LastsTold'
  <2>. SUFFICES ASSUME NEW id \in Ids, NEW k \in LastMade(id)' PROVE LastTold(k)'
    BY DEF LastsTold
  <2>1. k \in DOMAIN made' /\ made'[k].id = id /\ \A l \in DOMAIN made' : made'[l].id = id => l <= k
    BY DEF LastMade
  <2>2. CASE id = ch.id
    <3>1. k = last
      BY <1>0, <1>7, <1>8, <1>9, <2>1, <2>2
    <3>. QED
      BY <1>2, <1>8, <1>9, <1>11, <3>1 DEF LastTold
  <2>3. CASE id # ch.id
    <3>1. k \in LastMade(id) /\ made'[k] = made[k]
      BY <1>8, <1>9, <2>1, <2>3 DEF LastMade
    <3>2. LastTold(k) /\ made[k].id = id
      BY <3>1 DEF RowsInv, Tells, History, LastsTold, LastMade
    <3>. QED
      BY <1>11, <2>3, <3>1, <3>2 DEF LastTold
  <2>. QED
    BY <2>2, <2>3
<1>. QED
  BY <1>8, <1>14, <1>15, <1>20, <1>22, <1>23 DEF GoesOnSo

-----------------------------------------------------------------------------
(* The steps.                                                              *)

LEMMA ReadsGoOn ==
    ASSUME RowsInv, ~emptied, GoesOnSo,
           kept'.rows = kept.rows \/ kept'.rows = NONE \/ ReadOf(kept'.rows, Told(tab'.rows), Past', again'),
           \A a \in {"call", "reader"} :
              \/ load'[a].at \in {"answered", "done"} => load[a].at \in {"answered", "done"} /\ load'[a].rows = load[a].rows
              \/ ReadOf(load'[a].rows, Told(tab'.rows), Past', again'),
           \A c \in Clients : client'[c].view = client[c].view \/ ReadOf(client'[c].view, Told(tab'.rows), Past', again'),
           call'.at = "deciding" =>
              ReadOf(call'.rows, Told(tab'.rows), Past', again') \/ (call.at = "deciding" /\ call'.rows = call.rows),
           call'.at \in {"heading", "sending", "keeping"} =>
              AllPlain(call'.write) \/ (call.at \in {"heading", "sending", "keeping"} /\ call'.write = call.write)
    PROVE  AllRead'
<1>1. AllRead /\ Base
  BY DEF RowsInv, Tells, KeptInv
<1>2. kept'.rows # NONE => ReadOf(kept'.rows, Told(tab'.rows), Past', again')
  BY <1>1 DEF AllRead, GoesOnSo, Base, TypeOK, Keeping
<1>3. ASSUME NEW a \in {"call", "reader"}, load'[a].at \in {"answered", "done"}
      PROVE  ReadOf(load'[a].rows, Told(tab'.rows), Past', again')
  <2>1. CASE load[a].at \in {"answered", "done"} /\ load'[a].rows = load[a].rows
    <3>1. load[a].rows \in Seq(Rows) /\ ReadOf(load[a].rows, Told(tab.rows), Past, again)
      BY <1>1, <2>1 DEF AllRead, Base, TypeOK, Loading
    <3>. QED
      BY <2>1, <3>1 DEF GoesOnSo
  <2>. QED
    BY <1>3, <2>1
<1>4. ASSUME NEW c \in Clients PROVE ReadOf(client'[c].view, Told(tab'.rows), Past', again')
  <2>1. client[c].view \in Seq(Rows) /\ ReadOf(client[c].view, Told(tab.rows), Past, again)
    BY <1>1 DEF AllRead, Base, TypeOK, Client
  <2>. QED
    BY <2>1 DEF GoesOnSo
<1>5. call'.at \in {"heading", "sending", "keeping"} => AllPlain(call'.write)
  BY <1>1 DEF AllRead
<1>6. AllPlain(tab'.rows) /\ UniqueIn(tab'.rows)
  BY DEF GoesOnSo
<1>7. call'.at = "deciding" => ReadOf(call'.rows, Told(tab'.rows), Past', again')
  <2>1. call.at = "deciding" => call.rows \in Seq(Rows) /\ ReadOf(call.rows, Told(tab.rows), Past, again)
    BY <1>1 DEF AllRead, Base, TypeOK, Calling
  <2>. QED
    BY <2>1 DEF GoesOnSo
<1>. QED
  BY <1>2, <1>3, <1>4, <1>5, <1>6, <1>7 DEF AllRead

\* What's to be sent makes the same change of rows alike.
LEMMA AlikeMakes ==
    ASSUME NEW rows \in Seq(Rows), NEW others \in Seq(Rows), \A i \in Nat : Alike(RowAt(others, i), RowAt(rows, i)),
           NEW write \in Writes, NEW c, NEW ch, Makes(rows, SetRows(rows, write), c, ch)
    PROVE  Makes(others, SetRows(others, write), c, ch)
<1>. DEFINE after == SetRows(rows, write)
            then == SetRows(others, write)
<1>1. /\ after \in Seq(Rows) /\ then \in Seq(Rows)
      /\ \A i \in Nat : i \in DOMAIN write => RowAt(after, i) = write[i] /\ RowAt(then, i) = write[i]
      /\ \A i \in Nat : i \notin DOMAIN write => RowAt(after, i) = RowAt(rows, i) /\ RowAt(then, i) = RowAt(others, i)
  BY WritesAre, SetRowsSetsRows
<1>. HIDE DEF after, then
<1>2. \A i \in Nat : Alike(RowAt(then, i), RowAt(after, i))
  BY <1>1, AlikeIs
<1>3. Told(then) = Told(after) /\ (UniqueIn(then) <=> UniqueIn(after)) /\ Told(others) = Told(rows)
  BY <1>1, <1>2, AlikeTellSame
<1>. QED
  BY <1>3 DEF Makes, ToldOf, after, then

\* Rows alike are put in the tab's place, and nothing else of it changes.
LEMMA AlikeTells ==
    ASSUME RowsInv, ~emptied, UNCHANGED <<kept, load, client, call, made, again>>,
           tab'.there = tab.there, tab'.tagged = tab.tagged, tab'.rows \in Seq(Rows), AllPlain(tab'.rows),
           \A i \in Nat : Alike(RowAt(tab'.rows, i), RowAt(tab.rows, i)),
           tab'.rows = tab.rows \/ (tab.there /\ call.at # "heading"),
           refresh'.at # "none" => tab.there /\ ~refresh'.gone /\ refresh'.at \notin {"adding", "tagging"}
    PROVE  Tells'
<1>1. Tells /\ Base
  BY DEF RowsInv, KeptInv, Tells
<1>2. GoesOnSo
  BY SameGoesOn DEF ClientsKeep
<1>3. AllRead'
  BY <1>2, ReadsGoOn
<1>4. Founded'
  BY <1>1 DEF Tells, Founded
<1>5. \A rows, places : AlikeBut(rows, tab.rows, places) => AlikeBut(rows, tab'.rows, places)
  BY AlikeIs DEF AlikeBut
<1>6. AllAlike'
  <2>1. \A i \in DOMAIN call.write : i \in Nat
    BY <1>1 DEF Base, TypeOK, Calling, Writes
  <2>2. call.at = "keeping" => \A i \in DOMAIN call.write : Alike(call.write[i], RowAt(tab'.rows, i))
    BY <1>1, <2>1, AlikeIs DEF Tells, AllAlike
  <2>3. PendingRows' = PendingRows /\ \A a \in {"call", "reader"} : WillBeKept(a)' <=> WillBeKept(a)
    BY DEF PendingRows, WillBeKept
  <2>. QED
    BY <1>1, <1>5, <2>2, <2>3 DEF Tells, AllAlike
<1>7. SendsChange'
  <2>. SUFFICES ASSUME call.at = "sending" PROVE Makes(tab'.rows, SetRows(tab'.rows, call.write), call.who, client[call.who].change)
    BY DEF SendsChange
  <2>1. tab.rows \in Seq(Rows) /\ call.write \in Writes
    BY <1>1 DEF Base, TypeOK, Calling
  <2>2. Makes(tab.rows, SetRows(tab.rows, call.write), call.who, client[call.who].change)
    BY <1>1 DEF Tells, SendsChange
  <2>. QED
    BY <2>1, <2>2, AlikeMakes
<1>8. Asked'
  BY <1>1 DEF Tells, Asked, AskedOf
<1>9. History'
  BY <1>2 DEF GoesOnSo, History
<1>. QED
  BY <1>3, <1>4, <1>6, <1>7, <1>8, <1>9 DEF Tells

LEMMA RefreshTells ==
    ASSUME RowsInv, ~emptied, RefreshStep, UNCHANGED callVars
    PROVE  Tells'
<1>1. Base /\ Base' /\ Founded /\ AllRead /\ KeptInv /\ UNCHANGED <<load, client, call, made, again>>
  BY RefreshKeepsBase DEF RowsInv, Tells, KeptInv, RefreshStep, RefreshBegins, RefreshReads, RefreshCompares, RefreshDecides, RefreshAdds,
     RefreshTags, RefreshPuts, RefreshFails, callVars
<1>2. tab.rows \in Seq(Rows) /\ tab'.rows \in Seq(Rows) /\ AllPlain(tab.rows) /\ refresh \in Refreshing
  BY <1>1 DEF Base, TypeOK, AllRead
<1>3. ASSUME UNCHANGED <<tab, kept>>,
             refresh'.at # "none" => tab.there /\ ~refresh'.gone /\ refresh'.at \notin {"adding", "tagging"}
      PROVE  Tells'
  <2>1. \A i \in Nat : Alike(RowAt(tab'.rows, i), RowAt(tab.rows, i))
    BY <1>3, AlikeIs
  <2>. QED
    BY <1>1, <1>2, <1>3, <2>1, AlikeTells
<1>4. CASE RefreshBegins
  BY <1>1, <1>3, <1>4 DEF RefreshBegins, NoRefresh, Founded
<1>5. CASE RefreshReads
  <2>1. refresh' = [refresh EXCEPT !.at = "compare", !.found = tab.rows, !.gone = ~tab.there] /\ refresh.at = "asked" /\ UNCHANGED <<tab, kept>>
    BY <1>5 DEF RefreshReads
  <2>2. tab.there
    BY <1>1, <2>1 DEF Founded
  <2>. QED
    BY <1>2, <1>3, <2>1, <2>2 DEF Refreshing
<1>6. CASE RefreshCompares \/ RefreshFails
  <2>1. UNCHANGED <<tab, kept>> /\ (refresh' = NoRefresh \/ (refresh' = [refresh EXCEPT !.at = "locked"] /\ refresh.at = "compare"))
    BY <1>6 DEF RefreshCompares, RefreshFails
  <2>2. CASE refresh' = NoRefresh
    BY <1>3, <2>1, <2>2 DEF NoRefresh
  <2>3. CASE refresh' = [refresh EXCEPT !.at = "locked"] /\ refresh.at = "compare"
    <3>1. refresh'.at = "locked" /\ refresh'.gone = refresh.gone
      BY <1>2, <2>3 DEF Refreshing
    <3>. QED
      BY <1>1, <1>3, <2>1, <2>3, <3>1 DEF Founded
  <2>. QED
    BY <2>1, <2>2, <2>3
<1>7. CASE RefreshDecides
  <2>1. refresh.at = "locked" /\ ~refresh.gone
    BY <1>1, <1>7 DEF RefreshDecides, Founded
  <2>2. /\ UNCHANGED <<tab, kept>>
        /\ refresh' = NoRefresh \/ refresh' = [refresh EXCEPT !.at = "putting", !.write = PutBack(refresh.found, refresh.rows)]
    BY <1>7, <2>1 DEF RefreshDecides, RefreshEnds
  <2>3. CASE refresh' = NoRefresh
    BY <1>3, <2>2, <2>3 DEF NoRefresh
  <2>4. CASE refresh' = [refresh EXCEPT !.at = "putting", !.write = PutBack(refresh.found, refresh.rows)]
    <3>1. refresh'.at = "putting" /\ refresh'.gone = refresh.gone
      BY <1>2, <2>4 DEF Refreshing
    <3>. QED
      BY <1>1, <1>3, <2>1, <2>2, <3>1 DEF Founded
  <2>. QED
    BY <2>2, <2>3, <2>4
<1>8. ~RefreshAdds /\ ~RefreshTags
  BY <1>1 DEF RefreshAdds, RefreshTags, Founded
<1>9. CASE RefreshPuts
  <2>1. /\ Takes(refresh.write) /\ refresh.write \in Writes /\ refresh.at = "putting"
        /\ kept' = kept /\ refresh'.at = "none" /\ tab.there
    BY <1>2, <1>9 DEF RefreshPuts, RefreshEnds, Takes, Refreshing, NoRefresh
  <2>2. kept.rows # NONE /\ kept.rows = refresh.rows /\ call.at = "none"
    BY <1>1, <2>1, NoneAssumption DEF KeptInv, RefreshAsKept, PutsBackKept, Base, Locked
  <2>3. kept.rows \in Seq(Rows) /\ AllPlain(kept.rows) /\ AlikeBut(kept.rows, tab.rows, {})
    BY <1>1, <2>2 DEF Base, TypeOK, Keeping, AllRead, ReadOf, RowsInv, Tells, AllAlike, PendingRows
  <2>4. \A i \in DOMAIN refresh.write : i \in Nat /\ refresh.write[i] = RowAt(kept.rows, i)
    BY <1>1, <2>1, <2>2 DEF KeptInv, PutsBackKept, Writes
  <2>5. /\ tab'.rows = SetRows(tab.rows, refresh.write) /\ tab'.there = tab.there /\ tab'.tagged = tab.tagged
        /\ \A i \in Nat : i \in DOMAIN refresh.write => RowAt(tab'.rows, i) = refresh.write[i]
        /\ \A i \in Nat : i \notin DOMAIN refresh.write => RowAt(tab'.rows, i) = RowAt(tab.rows, i)
    BY <1>1, <2>1, TakesIsTyped DEF Base, TypeOK, Takes
  <2>6. AllPlain(refresh.write)
    BY <2>3, <2>4 DEF AllPlain, RowAt
  <2>7. AllPlain(tab'.rows)
    BY <1>2, <2>1, <2>5, <2>6, PlainSet
  <2>8. \A i \in Nat : Alike(RowAt(tab'.rows, i), RowAt(tab.rows, i))
    <3>. TAKE i \in Nat
    <3>1. Alike(RowAt(kept.rows, i), RowAt(tab.rows, i))
      BY <2>3 DEF AlikeBut
    <3>2. CASE i \in DOMAIN refresh.write
      BY <2>4, <2>5, <3>1, <3>2
    <3>3. CASE i \notin DOMAIN refresh.write
      BY <2>5, <3>3, AlikeIs
    <3>. QED
      BY <3>2, <3>3
  <2>. QED
    BY <1>1, <1>2, <2>1, <2>2, <2>5, <2>7, <2>8, AlikeTells
<1>. QED
  BY <1>4, <1>5, <1>6, <1>7, <1>8, <1>9 DEF RefreshStep

LEMMA EditsTell ==
    ASSUME RowsInv, ~emptied, EditsByHand, UNCHANGED callVars
    PROVE  Tells'
<1>1. Base /\ Base' /\ Founded /\ AllRead /\ UNCHANGED <<kept, load, refresh, client, call, made, again>> /\ tab.there
  BY HandsKeepBase DEF RowsInv, Tells, KeptInv, EditsByHand, callVars
<1>2. PICK i \in DOMAIN tab.rows, v \in HandVals : tab' = [tab EXCEPT !.rows[i].val = v] /\ tab.rows[i] # Blank
  BY DEF EditsByHand
<1>3. /\ tab.rows \in Seq(Rows) /\ tab'.rows \in Seq(Rows) /\ AllPlain(tab.rows)
      /\ tab \in [there : BOOLEAN, tagged : BOOLEAN, rows : Seq(Rows)]
  BY <1>1 DEF Base, TypeOK, AllRead
<1>4. tab'.there = tab.there /\ tab'.tagged = tab.tagged /\ tab'.rows = [tab.rows EXCEPT ![i].val = v]
  BY <1>2, <1>3
<1>5. DOMAIN tab'.rows = DOMAIN tab.rows /\ \A j \in DOMAIN tab.rows : j # i => tab'.rows[j] = tab.rows[j]
  BY <1>3, <1>4
<1>6. tab'.rows[i].id = tab.rows[i].id /\ tab'.rows[i].version = tab.rows[i].version /\ tab'.rows[i].by = tab.rows[i].by
  <2>1. tab.rows[i] \in Rows
    BY <1>3, LenProperties, ElementOfSeq
  <2>2. tab'.rows[i] = [tab.rows[i] EXCEPT !.val = v]
    BY <1>3, <1>4
  <2>. QED
    BY <2>1, <2>2 DEF Rows
<1>7. \A j \in DOMAIN tab.rows : Alike(tab'.rows[j], tab.rows[j])
  BY <1>5, <1>6, AlikeIs
<1>8. \A j \in Nat : Alike(RowAt(tab'.rows, j), RowAt(tab.rows, j))
  BY <1>5, <1>7, AlikeIs DEF RowAt
<1>9. AllPlain(tab'.rows)
  BY <1>2, <1>3, <1>5, <1>6 DEF AllPlain
<1>10. call.at # "heading"
  <2>1. tab.rows # <<>>
    BY <1>2
  <2>. QED
    BY <1>1, <2>1 DEF Founded
<1>. QED
  BY <1>1, <1>3, <1>4, <1>8, <1>9, <1>10, AlikeTells DEF Founded

LEMMA LoadsTell ==
    ASSUME RowsInv, ~emptied, Loads, UNCHANGED callVars
    PROVE  Tells'
<1>1. Base /\ Founded /\ AllRead /\ AllAlike /\ Tells /\ UNCHANGED <<client, call, made, again>>
  BY DEF RowsInv, KeptInv, callVars, Tells
<1>2. PICK a \in {"call", "reader"} : LoadStep(a)
  BY <1>1 DEF Loads, Base, TypeOK
<1>3. /\ UNCHANGED <<tab, refresh>> /\ kept'.generation = kept.generation /\ kept'.known = kept.known
      /\ \A b \in {"call", "reader"} : b # a => load'[b] = load[b]
  BY <1>1, <1>2 DEF LoadStep, LoadAsks, LoadAnswered, LoadFails, LoadKeeps, Base, TypeOK, Keeping
<1>4. kept'.rows = kept.rows \/ (kept'.rows = load[a].rows /\ WillBeKept(a))
  BY <1>1, <1>2 DEF LoadStep, LoadAsks, LoadAnswered, LoadFails, LoadKeeps, WillBeKept, Base, TypeOK, Keeping
<1>5. /\ load'[a].at = "answered" => load'[a].rows = tab.rows /\ tab.there
      /\ load'[a].at = "done" => load[a].at = "answered" /\ load'[a].rows = load[a].rows
      /\ a = "call" => call.at = "reading"
  <2>0. load[a] \in Loading
    BY <1>1 DEF Base, TypeOK
  <2>1. CASE LoadAsks(a)
    <3>1. load'[a].at = "asked"
      BY <1>1, <2>1 DEF LoadAsks, Base, TypeOK
    <3>. QED
      BY <1>2, <2>1, <3>1 DEF LoadStep, LoadAsks, LoadAnswered, LoadFails, LoadKeeps
  <2>2. CASE LoadAnswered(a)
    <3>1. load'[a] = [load[a] EXCEPT !.at = "answered", !.rows = tab.rows] /\ load[a].at = "asked" /\ tab.there
      BY <1>1, <2>2 DEF LoadAnswered, Base, TypeOK
    <3>. QED
      BY <1>1, <2>0, <3>1 DEF Loading, AllAlike
  <2>3. CASE LoadFails(a)
    <3>1. load'[a] = [load[a] EXCEPT !.at = "failed"] /\ load[a].at = "asked"
      BY <1>1, <2>3 DEF LoadFails, Base, TypeOK
    <3>. QED
      BY <1>1, <2>0, <3>1 DEF Loading, AllAlike
  <2>4. CASE LoadKeeps(a)
    <3>1. load'[a] = [load[a] EXCEPT !.at = "done"] /\ load[a].at = "answered"
      BY <1>1, <2>4 DEF LoadKeeps, Base, TypeOK
    <3>. QED
      BY <1>1, <2>0, <3>1 DEF Loading, AllAlike
  <2>. QED
    BY <1>2, <2>1, <2>2, <2>3, <2>4 DEF LoadStep
<1>6. tab.rows \in Seq(Rows) /\ AllPlain(tab.rows) /\ ReadOf(tab.rows, Told(tab.rows), Past, again)
  BY <1>1, TabIsRead DEF Base, TypeOK, AllRead
<1>7. GoesOnSo
  <2>1. \A i \in Nat : Alike(RowAt(tab'.rows, i), RowAt(tab.rows, i))
    BY <1>3, AlikeIs
  <2>. QED
    BY <1>1, <1>3, <1>6, <2>1, SameGoesOn DEF ClientsKeep
<1>8. Past' = Past
  BY <1>1 DEF Past
<1>9. AllRead'
  <2>1. kept'.rows = kept.rows \/ ReadOf(kept'.rows, Told(tab'.rows), Past', again')
    BY <1>1, <1>3, <1>4, <1>8 DEF AllRead, WillBeKept
  <2>2. \A b \in {"call", "reader"} :
              \/ load'[b].at \in {"answered", "done"} => load[b].at \in {"answered", "done"} /\ load'[b].rows = load[b].rows
              \/ ReadOf(load'[b].rows, Told(tab'.rows), Past', again')
    BY <1>1, <1>3, <1>5, <1>6, <1>8
  <2>. QED
    BY <1>1, <1>7, <2>1, <2>2, ReadsGoOn
<1>10. Founded'
  BY <1>1, <1>3, <1>4, <1>5 DEF Founded, WillBeKept
<1>11. PendingRows' = PendingRows /\ \A places : AlikeBut(tab.rows, tab.rows, places)
  BY <1>1, AlikeIs DEF PendingRows, AlikeBut
<1>12. AllAlike'
  <2>1. kept'.rows # NONE => AlikeBut(kept'.rows, tab.rows, PendingRows)
    BY <1>1, <1>4 DEF AllAlike
  <2>2. ASSUME NEW b \in {"call", "reader"}, load'[b].at = "answered", load'[b].generation = kept.generation, kept'.rows = NONE
        PROVE  AlikeBut(load'[b].rows, tab.rows, PendingRows)
    <3>1. CASE b = a
      BY <1>5, <1>11, <2>2, <3>1
    <3>2. CASE b # a
      <4>1. kept.rows = NONE
        BY <1>4, <2>2 DEF WillBeKept
      <4>2. WillBeKept(b) /\ load'[b] = load[b]
        BY <1>3, <2>2, <3>2, <4>1 DEF WillBeKept
      <4>. QED
        BY <1>1, <4>2 DEF AllAlike
    <3>. QED
      BY <3>1, <3>2
  <2>3. load'["call"].at # "none" => call.at = "reading"
    BY <1>1, <1>3, <1>5 DEF AllAlike
  <2>4. load'["call"].at \in {"answered", "done"} => AlikeBut(load'["call"].rows, tab.rows, {})
    BY <1>1, <1>3, <1>5, <1>11 DEF AllAlike
  <2>5. \A b \in {"call", "reader"} : WillBeKept(b)' => AlikeBut(load'[b].rows, tab'.rows, PendingRows')
    BY <1>3, <1>11, <2>2 DEF WillBeKept
  <2>. QED
    BY <1>1, <1>3, <1>11, <2>1, <2>3, <2>4, <2>5 DEF AllAlike
<1>13. SendsChange' /\ Asked'
  BY <1>1, <1>3 DEF Tells, SendsChange, Asked, AskedOf
<1>14. History'
  BY <1>7 DEF GoesOnSo, History
<1>. QED
  BY <1>9, <1>10, <1>12, <1>13, <1>14 DEF Tells

LEMMA ClientsTell ==
    ASSUME RowsInv, ~emptied, (\E c \in Clients : ClientReads(c)) \/ ReaderGivesUp
    PROVE  Tells'
<1>1. Base /\ Founded /\ AllRead /\ AllAlike /\ Tells /\ UNCHANGED <<tab, kept, refresh, call, made, again>>
  BY DEF RowsInv, KeptInv, callVars, Tells, ClientReads, ReaderGivesUp
<1>2. \A a \in {"call", "reader"} : load'[a] = load[a] \/ (a = "reader" /\ load'[a].at = "none")
  <2>1. load' = [load EXCEPT !["reader"] = IF @.at = "done" THEN NoLoad ELSE @] \/ load' = [load EXCEPT !["reader"] = NoLoad]
    BY DEF ClientReads, ReaderGivesUp
  <2>. QED
    BY <1>1, <2>1 DEF Base, TypeOK, NoLoad
<1>3. \/ client' = client
      \/ \E c \in Clients, rows \in Seq(Rows) : \E ch \in ChangesFrom(Items(rows)) :
            /\ client[c].at = "new" /\ kept.known /\ ReadOf(rows, Told(tab.rows), Past, again)
            /\ client' = [client EXCEPT ![c] = [at |-> "asking", view |-> Items(rows), change |-> ch]]
  <2>1. CASE ReaderGivesUp
    BY <2>1 DEF ReaderGivesUp, callVars
  <2>2. ASSUME NEW c \in Clients, ClientReads(c)
        PROVE  \E rows \in Seq(Rows) : \E ch \in ChangesFrom(Items(rows)) :
                 /\ client[c].at = "new" /\ kept.known /\ ReadOf(rows, Told(tab.rows), Past, again)
                 /\ client' = [client EXCEPT ![c] = [at |-> "asking", view |-> Items(rows), change |-> ch]]
    <3>1. PICK rows \in (IF kept.rows # NONE THEN {kept.rows} ELSE {})
                          \cup (IF load["reader"].at = "done" THEN {load["reader"].rows} ELSE {}) :
            \E ch \in ChangesFrom(Items(rows)) :
                client' = [client EXCEPT ![c] = [at |-> "asking", view |-> Items(rows), change |-> ch]]
      BY <2>2 DEF ClientReads
    <3>2. rows \in Seq(Rows) /\ ReadOf(rows, Told(tab.rows), Past, again)
      <4>1. CASE kept.rows # NONE /\ rows = kept.rows
        BY <1>1, <4>1 DEF Base, TypeOK, Keeping, AllRead
      <4>2. CASE load["reader"].at = "done" /\ rows = load["reader"].rows
        BY <1>1, <4>2 DEF Base, TypeOK, Loading, AllRead
      <4>. QED
        BY <3>1, <4>1, <4>2
    <3>3. client[c].at = "new" /\ kept.known
      BY <2>2 DEF ClientReads
    <3>. QED
      BY <3>1, <3>2, <3>3
  <2>. QED
    BY <2>1, <2>2
<1>4. \A c \in Clients : \/ client'[c] = client[c]
                         \/ /\ client[c].at = "new" /\ client'[c].at = "asking"
                            /\ ReadOf(client'[c].view, Told(tab.rows), Past, again) /\ AskedOf(c)'
  <2>1. CASE client' = client
    BY <2>1
  <2>2. ASSUME NEW c \in Clients, NEW rows \in Seq(Rows), NEW ch, client[c].at = "new", ReadOf(rows, Told(tab.rows), Past, again),
               ch \in ChangesFrom(Items(rows)),
               client' = [client EXCEPT ![c] = [at |-> "asking", view |-> Items(rows), change |-> ch]]
        PROVE  \A d \in Clients : \/ client'[d] = client[d]
                         \/ /\ client[d].at = "new" /\ client'[d].at = "asking"
                            /\ ReadOf(client'[d].view, Told(tab.rows), Past, again) /\ AskedOf(d)'
    <3>. DEFINE view == Items(rows)
    <3>1. /\ client'[c].at = "asking" /\ client'[c].view = view /\ client'[c].change = ch
          /\ \A d \in Clients : d # c => client'[d] = client[d]
      BY <1>1, <2>2 DEF Base, TypeOK
    <3>2. ReadOf(view, Told(tab.rows), Past, again) /\ \A i \in DOMAIN view : view[i].id \in Ids
      BY <2>2, ItemsAreRead, ItemsTell DEF ReadOf
    <3>. HIDE DEF view
    <3>3. /\ ch.kind # "none" /\ ch.id \in Ids
          /\ ch.kind # "create" => \E i \in DOMAIN view : view[i].id = ch.id /\ view[i].version = ch.version
      <4>1. ch \in ChangesFrom(view)
        BY <2>2 DEF view
      <4>. QED
        BY <3>2, <4>1 DEF ChangesFrom
    <3>4. AskedOf(c)'
      BY <3>1, <3>3 DEF AskedOf
    <3>. QED
      BY <2>2, <3>1, <3>2, <3>4
  <2>. QED
    BY <1>3, <2>1, <2>2
<1>5. GoesOnSo
  <2>1. ClientsKeep
    BY <1>4 DEF ClientsKeep
  <2>2. \A i \in Nat : Alike(RowAt(tab'.rows, i), RowAt(tab.rows, i))
    BY <1>1, AlikeIs
  <2>. QED
    BY <1>1, <2>1, <2>2, SameGoesOn DEF AllRead, Base, TypeOK
<1>6. Past' = Past
  BY <1>1 DEF Past
<1>7. AllRead'
  <2>1. \A c \in Clients : client'[c].view = client[c].view \/ ReadOf(client'[c].view, Told(tab'.rows), Past', again')
    BY <1>1, <1>4, <1>6
  <2>2. \A a \in {"call", "reader"} :
              load'[a].at \in {"answered", "done"} => load[a].at \in {"answered", "done"} /\ load'[a].rows = load[a].rows
    BY <1>2
  <2>. QED
    BY <1>1, <1>5, <2>1, <2>2, ReadsGoOn
<1>8. call.at # "none" => call.who \in Clients
  BY <1>1 DEF Base, Locked
<1>9. Founded'
  BY <1>1, <1>2, <1>4, <1>8 DEF Founded
<1>10. AllAlike'
  <2>1. PendingRows' = PendingRows /\ \A a \in {"call", "reader"} : WillBeKept(a)' => WillBeKept(a) /\ load'[a] = load[a]
    BY <1>1, <1>2 DEF PendingRows, WillBeKept
  <2>2. load'["call"] = load["call"]
    BY <1>2
  <2>. QED
    BY <1>1, <2>1, <2>2 DEF AllAlike
<1>11. SendsChange'
  <2>1. call.at = "sending" => client'[call.who] = client[call.who]
    BY <1>1, <1>4, <1>8 DEF Founded
  <2>. QED
    BY <1>1, <2>1 DEF Tells, SendsChange
<1>12. Asked'
  BY <1>1, <1>4 DEF Tells, Asked, AskedOf
<1>13. History'
  BY <1>5 DEF GoesOnSo, History
<1>. QED
  BY <1>7, <1>9, <1>10, <1>11, <1>12, <1>13 DEF Tells

LEMMA RestartTells ==
    ASSUME RowsInv, ~emptied, Restarts
    PROVE  Tells'
<1>1. Base /\ Tells /\ UNCHANGED <<tab, client, made, again>>
  BY DEF RowsInv, KeptInv, Tells, Restarts
<1>2. /\ kept'.rows = NONE /\ ~kept'.known /\ call'.at = "none" /\ refresh'.at = "none"
      /\ \A a \in {"call", "reader"} : load'[a].at = "none"
  BY <1>1 DEF Restarts, NothingKept, NoCall, NoRefresh, NoLoad, Base, TypeOK
<1>3. GoesOnSo
  <2>1. \A i \in Nat : Alike(RowAt(tab'.rows, i), RowAt(tab.rows, i))
    BY <1>1, AlikeIs
  <2>. QED
    BY <1>1, <2>1, SameGoesOn DEF ClientsKeep, Tells, AllRead, Base, TypeOK
<1>4. AllRead'
  BY <1>1, <1>2, <1>3, ReadsGoOn
<1>5. Founded'
  BY <1>1, <1>2 DEF Tells, Founded
<1>6. AllAlike' /\ SendsChange'
  BY <1>2 DEF AllAlike, WillBeKept, SendsChange
<1>7. Asked'
  BY <1>1 DEF Tells, Asked, AskedOf
<1>8. History'
  BY <1>3 DEF GoesOnSo, History
<1>. QED
  BY <1>4, <1>5, <1>6, <1>7, <1>8 DEF Tells

\* After a step of a call, nothing's being read for it.
LEMMA CallsEndLoad ==
    ASSUME Base, AllAlike, CallStep
    PROVE  load'["call"].at = "none"
<1>1. load \in [{"call", "reader"} -> Loading] /\ NoLoad.at = "none"
  BY DEF Base, TypeOK, NoLoad
<1>2. \/ load' = [load EXCEPT !["call"] = NoLoad]
      \/ load' = load /\ (call.at # "reading" \/ load["call"].at = "none")
  BY DEF CallStep, CallGoesOn, CallBegins, CallFinds, CallAdds, CallTags, CallReads, CallDecides, CallSends, CallKeeps, CallFails, CallAnswers
<1>. QED
  BY <1>1, <1>2 DEF AllAlike

\* A client whose call is answered is done, and has read what it had.
LEMMA CallsKeepClients ==
    ASSUME Base, CallStep
    PROVE  \A c \in Clients : /\ client'[c].view = client[c].view /\ client'[c].change = client[c].change
                              /\ client'[c].at = client[c].at \/ client'[c].at = "done"
<1>. TAKE c \in Clients
<1>1. client' = client \/ client' = [client EXCEPT ![call.who].at = "done"]
  BY DEF CallStep, CallGoesOn, CallBegins, CallFinds, CallAdds, CallTags, CallReads, CallDecides, CallSends, CallKeeps, CallFails, CallAnswers
<1>2. client \in [Clients -> Client] /\ client[c] \in Client
  BY DEF Base, TypeOK
<1>3. client'[c] = client[c] \/ client'[c] = [client[c] EXCEPT !.at = "done"]
  BY <1>1, <1>2
<1>. QED
  BY <1>2, <1>3 DEF Client

\* A step of a call that writes nothing.
LEMMA QuietCallTells ==
    ASSUME RowsInv, ~emptied, CallStep, UNCHANGED <<made, again>>, ClientsKeep,
           tab'.rows = tab.rows, kept'.rows = kept.rows, kept'.generation = kept.generation,
           ~Writing, ~Writing', Asked', Founded',
           call'.at = "deciding" => ReadOf(call'.rows, Told(tab.rows), Past, again) /\ AlikeBut(call'.rows, tab.rows, {})
    PROVE  Tells'
<1>1. Base /\ Tells /\ tab.rows \in Seq(Rows) /\ AllPlain(tab.rows)
  BY DEF RowsInv, KeptInv, Tells, Base, TypeOK, AllRead
<1>2. /\ load'["call"].at = "none"
      /\ \A a \in {"call", "reader"} : load'[a] = load[a] \/ load'[a].at = "none"
  BY <1>1, CallsEndLoad, CallsKeepLoads DEF Tells
<1>3. GoesOnSo
  <2>1. \A i \in Nat : Alike(RowAt(tab'.rows, i), RowAt(tab.rows, i))
    BY AlikeIs
  <2>. QED
    BY <1>1, <2>1, SameGoesOn
<1>4. Past' = Past
  BY DEF Past
<1>5. AllRead'
  <2>1. \A c \in Clients : client'[c].view = client[c].view \/ ReadOf(client'[c].view, Told(tab'.rows), Past', again')
    BY <1>1, CallsKeepClients
  <2>2. call'.at = "deciding" => ReadOf(call'.rows, Told(tab'.rows), Past', again')
    BY <1>4
  <2>. QED
    BY <1>2, <1>3, <2>1, <2>2, ReadsGoOn DEF Writing
<1>6. AllAlike'
  <2>1. PendingRows = {} /\ PendingRows' = {}
    BY DEF PendingRows, Writing
  <2>2. \A a \in {"call", "reader"} : WillBeKept(a)' => WillBeKept(a) /\ load'[a] = load[a]
    BY <1>2 DEF WillBeKept
  <2>. QED
    BY <1>1, <1>2, <2>1, <2>2 DEF Tells, AllAlike, Writing
<1>7. SendsChange'
  BY DEF SendsChange, Writing
<1>8. History'
  BY <1>3 DEF GoesOnSo, History
<1>. QED
  BY <1>5, <1>6, <1>7, <1>8 DEF Tells

\* Of clients that haven't changed, what they ask for is what they asked for.
LEMMA AskedStays == Asked /\ UNCHANGED client => Asked' /\ ClientsKeep
BY DEF Asked, AskedOf, ClientsKeep

LEMMA BeginsTells ==
    ASSUME RowsInv, ~emptied, NEW c \in Clients, CallBegins(c)
    PROVE  Tells'
<1>1. Base /\ Tells /\ Founded /\ CallStep /\ UNCHANGED <<tab, kept, load, refresh, client, made, again>> /\ call.at = "none"
  BY DEF RowsInv, KeptInv, Tells, CallStep, CallGoesOn, CallBegins
<1>2. /\ call'.who = c /\ call'.at \in {"reading", "finding"}
      /\ call'.at = "reading" => kept.known /\ client[c].at = "asking"
  BY DEF CallBegins, NoCall
<1>3. Founded'
  BY <1>1, <1>2 DEF Founded
<1>4. ~Writing /\ ~Writing'
  BY <1>1, <1>2 DEF Writing
<1>5. Asked' /\ ClientsKeep
  BY <1>1, AskedStays DEF Tells
<1>. QED
  BY <1>1, <1>2, <1>3, <1>4, <1>5, QuietCallTells

\* A call to a tab that's found reads it, or answers.
LEMMA BuiltIs ==
    ASSUME Base, call' = Built
    PROVE  /\ call'.who = call.who /\ call'.at \in {"reading", "answering"}
           /\ call'.at = "reading" => client[call.who].at = "asking"
BY DEF Base, TypeOK, Calling, Built

LEMMA FindsTells ==
    ASSUME RowsInv, ~emptied, CallFinds
    PROVE  Tells'
<1>1. Base /\ Tells /\ Founded /\ CallStep /\ UNCHANGED <<tab, load, refresh, client, made, again>> /\ call.at = "finding"
  BY DEF RowsInv, KeptInv, Tells, CallStep, CallGoesOn, CallFinds
<1>2. \/ /\ tab.tagged /\ kept'.known /\ call'.who = call.who /\ call'.at \in {"reading", "answering"}
         /\ call'.at = "reading" => client[call.who].at = "asking"
      \/ ~tab.tagged /\ call'.at = "adding" /\ kept' = kept
  BY <1>1, BuiltIs DEF CallFinds, Founded, Base, TypeOK, Calling, Keeping
<1>3. kept'.rows = kept.rows /\ kept'.generation = kept.generation
  BY <1>1 DEF CallFinds, Base, TypeOK, Keeping
<1>4. Founded'
  BY <1>1, <1>2, <1>3 DEF Founded
<1>5. ~Writing /\ ~Writing'
  BY <1>1, <1>2 DEF Writing
<1>6. Asked' /\ ClientsKeep
  BY <1>1, AskedStays DEF Tells
<1>. QED
  BY <1>1, <1>2, <1>3, <1>4, <1>5, <1>6, QuietCallTells

LEMMA TagsTells ==
    ASSUME RowsInv, ~emptied, CallTags
    PROVE  Tells'
<1>1. Base /\ Tells /\ Founded /\ CallStep /\ UNCHANGED <<load, refresh, client, made, again>> /\ call.at = "tagging" /\ tab.there
  BY DEF RowsInv, KeptInv, Tells, CallStep, CallGoesOn, CallTags
<1>2. /\ tab'.tagged /\ tab'.there /\ tab'.rows = tab.rows /\ kept'.rows = kept.rows /\ kept'.generation = kept.generation /\ kept'.known
      /\ call'.who = call.who /\ call'.at \in {"reading", "answering"}
      /\ call'.at = "reading" => client[call.who].at = "asking"
  BY <1>1, BuiltIs DEF CallTags, Base, TypeOK, Keeping
<1>4. Founded'
  BY <1>1, <1>2 DEF Founded
<1>5. ~Writing /\ ~Writing'
  BY <1>1, <1>2 DEF Writing
<1>6. Asked' /\ ClientsKeep
  BY <1>1, AskedStays DEF Tells
<1>. QED
  BY <1>1, <1>2, <1>4, <1>5, <1>6, QuietCallTells

LEMMA ReadsTells ==
    ASSUME RowsInv, ~emptied, CallReads
    PROVE  Tells'
<1>1. /\ Base /\ Tells /\ Founded /\ AllRead /\ AllAlike /\ CallStep
      /\ UNCHANGED <<tab, kept, refresh, client, made, again>> /\ call.at = "reading"
  BY DEF RowsInv, KeptInv, Tells, CallStep, CallGoesOn, CallReads
<1>2. \A a \in {"call", "reader"} : load'[a] = load[a] \/ load'[a].at = "none"
  BY <1>1, CallsKeepLoads
<1>3. /\ call'.at = "deciding" /\ call'.who = call.who
      /\ \/ kept.rows # NONE /\ call'.rows = kept.rows
         \/ load["call"].at = "done" /\ call'.rows = load["call"].rows
  BY <1>1 DEF CallReads, Base, TypeOK, Calling
<1>4. PendingRows = {}
  BY <1>1 DEF PendingRows
<1>5. ReadOf(call'.rows, Told(tab.rows), Past, again) /\ AlikeBut(call'.rows, tab.rows, {})
  BY <1>1, <1>3, <1>4 DEF AllRead, AllAlike
<1>6. Founded'
  BY <1>1, <1>2, <1>3 DEF Founded
<1>7. ~Writing /\ ~Writing'
  BY <1>1, <1>3 DEF Writing
<1>8. Asked' /\ ClientsKeep
  BY <1>1, AskedStays DEF Tells
<1>. QED
  BY <1>1, <1>3, <1>5, <1>6, <1>7, <1>8, QuietCallTells

LEMMA AnswersTells ==
    ASSUME RowsInv, ~emptied, CallAnswers
    PROVE  Tells'
<1>1. /\ Base /\ Tells /\ Founded /\ CallStep /\ UNCHANGED <<tab, kept, load, refresh, made, again>> /\ call.at = "answering"
      /\ call'.at = "none"
  BY DEF RowsInv, KeptInv, Tells, CallStep, CallGoesOn, CallAnswers, NoCall
<1>2. \A c \in Clients : /\ client'[c].view = client[c].view /\ client'[c].change = client[c].change
                         /\ client'[c].at = client[c].at \/ client'[c].at = "done"
  BY <1>1, CallsKeepClients
<1>3. Founded'
  BY <1>1 DEF Founded
<1>4. ~Writing /\ ~Writing'
  BY <1>1 DEF Writing
<1>5. Asked'
  BY <1>1, <1>2 DEF Tells, Asked, AskedOf
<1>6. ClientsKeep
  BY <1>2 DEF ClientsKeep
<1>. QED
  BY <1>1, <1>3, <1>4, <1>5, <1>6, QuietCallTells

\* What a call sends is taken.
LEMMA TakenGoesOn ==
    ASSUME RowsInv, ~emptied, call.at \in {"heading", "sending"}, Takes(call.write), Notes, UNCHANGED client
    PROVE  /\ GoesOnSo /\ (made' # <<>> => tab.tagged)
           /\ tab'.there /\ tab'.tagged = tab.tagged /\ tab'.rows \in Seq(Rows)
           /\ \A i \in DOMAIN call.write : RowAt(tab'.rows, i) = call.write[i]
           /\ \A i \in Nat : i \notin DOMAIN call.write => RowAt(tab'.rows, i) = RowAt(tab.rows, i)
<1>1. Base /\ Founded /\ AllRead /\ call.write \in Writes /\ tab.rows \in Seq(Rows)
  BY DEF RowsInv, Tells, KeptInv, Base, TypeOK, Calling
<1>2. \A i \in DOMAIN call.write : i \in Nat
  BY <1>1 DEF Writes
<1>3. /\ tab'.there /\ tab'.tagged = tab.tagged /\ tab'.rows \in Seq(Rows) /\ tab'.rows = SetRows(tab.rows, call.write)
      /\ \A i \in DOMAIN call.write : RowAt(tab'.rows, i) = call.write[i]
      /\ \A i \in Nat : i \notin DOMAIN call.write => RowAt(tab'.rows, i) = RowAt(tab.rows, i)
  BY <1>1, <1>2, TakesIsTyped DEF Base, TypeOK, Takes
<1>4. CASE call.at = "sending"
  BY <1>1, <1>3, <1>4, SentGoesOn DEF Founded, GoesOnSo
<1>5. CASE call.at = "heading"
  <2>1. /\ tab.rows = <<>> /\ call.write = <<Header>> /\ UNCHANGED <<made, again>> /\ ~tab.tagged
    BY <1>1, <1>5 DEF Founded, Notes
  <2>2. \A i \in Nat : RowAt(tab.rows, i).id \notin Ids /\ RowAt(tab'.rows, i).id \notin Ids
    <3>. TAKE i \in Nat
    <3>1. DOMAIN call.write = {1} /\ call.write[1] = Header /\ RowAt(tab.rows, i) = Blank
      BY <2>1 DEF RowAt
    <3>2. RowAt(tab'.rows, i) = Header \/ RowAt(tab'.rows, i) = Blank
      BY <1>3, <3>1
    <3>. QED
      BY <3>1, <3>2, IdsAssumption DEF Header, Blank, Row
  <2>3. Told(tab'.rows) = Told(tab.rows) /\ UniqueIn(tab'.rows)
    <3>1. \A t : t \notin Told(tab.rows) /\ t \notin Told(tab'.rows)
      BY <1>1, <1>3, <2>2, ToldAt
    <3>2. UniqueIn(tab'.rows)
      BY <1>3, <2>2, ToldAt
    <3>. QED
      BY <3>1, <3>2
  <2>4. AllPlain(tab'.rows)
    BY <1>1, <1>3, <1>5, PlainSet DEF AllRead
  <2>5. GoesOnSo
    BY <2>1, <2>3, <2>4, TellGoesOn DEF ClientsKeep
  <2>6. made' # <<>> => tab.tagged
    BY <1>1, <2>1 DEF RowsInv, Tells, History, Founded
  <2>. QED
    BY <1>3, <2>5, <2>6
<1>. QED
  BY <1>4, <1>5

LEMMA SendsTells ==
    ASSUME RowsInv, ~emptied, CallSends
    PROVE  Tells'
<1>1. /\ Base /\ Tells /\ Founded /\ AllAlike /\ CallStep /\ UNCHANGED <<kept, load, refresh, client>> /\ call.at \in {"heading", "sending"}
      /\ Takes(call.write) /\ Notes
  BY DEF RowsInv, KeptInv, Tells, CallStep, CallGoesOn, CallSends
<1>2. call'.at = "keeping" /\ call'.who = call.who /\ call'.write = call.write
  BY <1>1 DEF CallSends, Base, TypeOK, Calling
<1>3. /\ GoesOnSo /\ (made' # <<>> => tab.tagged)
      /\ tab'.there /\ tab'.tagged = tab.tagged /\ tab'.rows \in Seq(Rows)
      /\ \A i \in DOMAIN call.write : RowAt(tab'.rows, i) = call.write[i]
      /\ \A i \in Nat : i \notin DOMAIN call.write => RowAt(tab'.rows, i) = RowAt(tab.rows, i)
  BY <1>1, TakenGoesOn
<1>4. AllRead'
  BY <1>1, <1>2, <1>3, ReadsGoOn
<1>5. Founded'
  BY <1>1, <1>2, <1>3 DEF Founded
<1>6. AllAlike'
  <2>1. PendingRows = DOMAIN call.write /\ PendingRows' = DOMAIN call.write
    BY <1>1, <1>2 DEF PendingRows
  <2>2. \A rows : AlikeBut(rows, tab.rows, DOMAIN call.write) => AlikeBut(rows, tab'.rows, DOMAIN call.write)
    BY <1>3 DEF AlikeBut
  <2>3. \A a \in {"call", "reader"} : WillBeKept(a)' <=> WillBeKept(a)
    BY <1>1 DEF WillBeKept
  <2>4. load'["call"].at = "none"
    BY <1>1, CallsEndLoad
  <2>5. \A i \in DOMAIN call.write : Alike(call.write[i], RowAt(tab'.rows, i))
    BY <1>3, AlikeIs
  <2>. QED
    BY <1>1, <1>2, <2>1, <2>2, <2>3, <2>4, <2>5 DEF AllAlike
<1>7. SendsChange'
  BY <1>2 DEF SendsChange
<1>8. Asked'
  BY <1>1, AskedStays DEF Tells
<1>9. History'
  BY <1>3 DEF GoesOnSo, History
<1>. QED
  BY <1>4, <1>5, <1>6, <1>7, <1>8, <1>9 DEF Tells

LEMMA AddsTells ==
    ASSUME RowsInv, ~emptied, CallAdds
    PROVE  Tells'
<1>1. /\ Base /\ Tells /\ Founded /\ AllAlike /\ CallStep /\ UNCHANGED <<load, refresh, client, made, again>> /\ call.at = "adding"
      /\ ~tab.there
  BY DEF RowsInv, KeptInv, Tells, CallStep, CallGoesOn, CallAdds
<1>2. /\ tab.rows = <<>> /\ tab'.rows = <<>> /\ tab'.there /\ ~tab'.tagged
      /\ kept'.rows = <<>> /\ kept'.generation = kept.generation + 1 /\ kept'.known = kept.known
      /\ call'.at = "heading" /\ call'.write = <<Header>>
  BY <1>1 DEF CallAdds, NoTab, Founded, Base, TypeOK, Keeping, Calling
<1>3. GoesOnSo
  <2>1. AllPlain(tab'.rows) /\ UniqueIn(tab'.rows)
    BY <1>2 DEF AllPlain, UniqueIn
  <2>2. Told(tab'.rows) = Told(tab.rows)
    BY <1>2
  <2>. QED
    BY <1>1, <2>1, <2>2, TellGoesOn DEF ClientsKeep
<1>4. AllRead'
  <2>1. ReadOf(kept'.rows, Told(tab'.rows), Past', again')
    BY <1>2, NothingIsRead
  <2>2. AllPlain(call'.write)
    <3>1. DOMAIN <<Header>> = {1} /\ <<Header>>[1] = Header /\ Header.id = "header"
      BY DEF Header, Row
    <3>. QED
      BY <1>2, <3>1 DEF AllPlain
  <2>. QED
    BY <1>1, <1>2, <1>3, <2>1, <2>2, ReadsGoOn
<1>5. Founded'
  BY <1>1, <1>2 DEF Founded
<1>6. AllAlike'
  <2>1. AlikeBut(kept'.rows, tab'.rows, PendingRows')
    BY <1>2, AlikeIs DEF AlikeBut
  <2>2. \A a \in {"call", "reader"} : ~WillBeKept(a)'
    <3>1. \A a \in {"call", "reader"} : load[a].at # "answered"
      BY <1>1 DEF Founded
    <3>. QED
      BY <1>1, <3>1 DEF WillBeKept
  <2>3. load'["call"].at = "none"
    BY <1>1, CallsEndLoad
  <2>. QED
    BY <1>2, <2>1, <2>2, <2>3 DEF AllAlike
<1>7. SendsChange'
  BY <1>2 DEF SendsChange
<1>8. Asked'
  BY <1>1, AskedStays DEF Tells
<1>9. History'
  BY <1>3 DEF GoesOnSo, History
<1>. QED
  BY <1>4, <1>5, <1>6, <1>7, <1>8, <1>9 DEF Tells

\* What was read before a write began, or of what's forgotten, won't be kept.
LEMMA NoneWillBeKept ==
    ASSUME KeptInv, CallStep, kept'.generation = kept.generation + 1
    PROVE  \A a \in {"call", "reader"} : ~WillBeKept(a)'
<1>. TAKE a \in {"call", "reader"}
<1>1. kept.generation \in Nat /\ load[a].generation \in Nat
  BY DEF KeptInv, Base, TypeOK, Keeping, Loading
<1>2. load'[a] = load[a] \/ load'[a].at = "none"
  BY CallsKeepLoads DEF KeptInv
<1>3. load[a].at # "none" => load[a].generation <= kept.generation
  BY DEF KeptInv, LoadsBefore
<1>. QED
  BY <1>1, <1>2, <1>3 DEF WillBeKept

LEMMA DecidesTells ==
    ASSUME RowsInv, ~emptied, CallDecides
    PROVE  Tells'
<1>. DEFINE ch == client[call.who].change
            outcome == OutcomeOf(Items(call.rows), call.who, ch)
            write == Changing(2, Filled(outcome.items, Len(call.rows) - 1))
<1>1. /\ Base /\ Base' /\ KeptInv /\ Tells /\ Founded /\ AllRead /\ AllAlike /\ Asked /\ CallStep
      /\ UNCHANGED <<tab, load, refresh, client, made, again>> /\ call.at = "deciding"
  BY CallsKeepBase DEF RowsInv, KeptInv, Tells, CallStep, CallGoesOn, CallDecides
<1>2. Asked' /\ ClientsKeep
  BY <1>1, AskedStays
<1>3. \/ kept' = kept /\ call' = [call EXCEPT !.at = "answering", !.result = "refused"]
      \/ kept' = kept /\ call' = [call EXCEPT !.at = "answering", !.result = outcome.result]
      \/ /\ WritingTo /\ call' = [call EXCEPT !.at = "sending", !.result = "made", !.rows = <<>>, !.write = write]
         /\ Readable(call.rows) /\ outcome.result = "made"
  BY Zenon DEF CallDecides
<1>. HIDE DEF outcome, write
<1>4. CASE ~WritingTo \/ call'.at # "sending"
  <2>1. call'.at = "answering" /\ kept' = kept
    <3>1. call \in Calling
      BY <1>1 DEF Base, TypeOK
    <3>2. call' = [call EXCEPT !.at = "sending", !.result = "made", !.rows = <<>>, !.write = write] => call'.at = "sending"
      BY <3>1 DEF Calling
    <3>3. kept' = kept /\ (call' = [call EXCEPT !.at = "answering", !.result = "refused"]
                           \/ call' = [call EXCEPT !.at = "answering", !.result = outcome.result])
      BY <1>3, <1>4, <3>2
    <3>. QED
      BY <3>1, <3>3 DEF Calling
  <2>2. Founded'
    BY <1>1, <2>1 DEF Founded
  <2>3. ~Writing /\ ~Writing'
    BY <1>1, <2>1 DEF Writing
  <2>. QED
    BY <1>1, <1>2, <2>1, <2>2, <2>3, QuietCallTells
<1>5. CASE WritingTo /\ call'.at = "sending"
  <2>1. /\ call'.who = call.who /\ call'.write = write /\ Readable(call.rows) /\ outcome.result = "made"
        /\ kept'.rows = kept.rows /\ kept'.generation = kept.generation + 1 /\ kept'.known = kept.known
    <3>1. call \in Calling /\ kept \in Keeping
      BY <1>1 DEF Base, TypeOK
    <3>2. ~(call' = [call EXCEPT !.at = "answering", !.result = "refused"])
          /\ ~(call' = [call EXCEPT !.at = "answering", !.result = outcome.result])
      BY <1>5, <3>1 DEF Calling
    <3>3. call' = [call EXCEPT !.at = "sending", !.result = "made", !.rows = <<>>, !.write = write]
          /\ Readable(call.rows) /\ outcome.result = "made"
      BY <1>3, <3>2
    <3>. QED
      BY <1>5, <3>1, <3>3 DEF Calling, Keeping, WritingTo
  <2>2. /\ call.who \in Clients /\ ch \in Changes /\ call.rows \in Seq(Rows) /\ tab.rows \in Seq(Rows)
        /\ kept.rows \in Seq(Rows) \cup {NONE}
    BY <1>1 DEF Base, TypeOK, Locked, Calling, Client, Keeping
  <2>3. ch.id \in Ids /\ ch.kind # "none"
    BY <1>1, <2>2 DEF Founded, Asked, AskedOf
  <2>4. UniqueIn(call.rows) /\ AllPlain(call.rows)
    BY <1>1 DEF AllRead, ReadOf
  <2>5. PendingRows = {}
    BY <1>1 DEF PendingRows
  <2>6. /\ \A i \in Nat : Alike(RowAt(call.rows, i), RowAt(tab.rows, i))
        /\ kept.rows # NONE => \A i \in Nat : Alike(RowAt(kept.rows, i), RowAt(tab.rows, i))
    BY <1>1, <2>5 DEF AllAlike, AlikeBut
  <2>7. Makes(tab.rows, SetRows(tab.rows, write), call.who, ch) /\ AllPlain(write)
    <3>. HIDE DEF ch
    <3>1. OutcomeOf(Items(call.rows), call.who, ch).result = "made"
      BY <2>1 DEF outcome
    <3>2. LET w == Changing(2, Filled(OutcomeOf(Items(call.rows), call.who, ch).items, Len(call.rows) - 1))
          IN  Makes(tab.rows, SetRows(tab.rows, w), call.who, ch) /\ AllPlain(w)
      BY <2>1, <2>2, <2>3, <2>4, <2>6, <3>1, DecidedMakes
    <3>. QED
      BY <3>2 DEF write, outcome
  <2>8. GoesOnSo
    <3>1. \A i \in Nat : Alike(RowAt(tab'.rows, i), RowAt(tab.rows, i))
      BY <1>1, AlikeIs
    <3>. QED
      BY <1>1, <1>2, <2>2, <3>1, SameGoesOn DEF AllRead
  <2>9. AllRead'
    BY <1>1, <1>5, <2>1, <2>7, <2>8, ReadsGoOn
  <2>10. Founded'
    BY <1>1, <1>5, <2>1 DEF Founded
  <2>11. AllAlike'
    <3>1. load'["call"].at = "none" /\ \A a \in {"call", "reader"} : ~WillBeKept(a)'
      BY <1>1, <2>1, CallsEndLoad, NoneWillBeKept
    <3>2. kept'.rows # NONE => AlikeBut(kept'.rows, tab'.rows, PendingRows')
      BY <1>1, <2>1, <2>6 DEF AlikeBut
    <3>. QED
      BY <1>5, <3>1, <3>2 DEF AllAlike
  <2>12. SendsChange'
    BY <1>1, <2>1, <2>7 DEF SendsChange
  <2>13. History'
    BY <2>8 DEF GoesOnSo, History
  <2>. QED
    BY <1>2, <2>9, <2>10, <2>11, <2>12, <2>13 DEF Tells
<1>. QED
  BY <1>4, <1>5

LEMMA KeepsTells ==
    ASSUME RowsInv, ~emptied, CallKeeps
    PROVE  Tells'
<1>1. /\ Base /\ KeptInv /\ Tells /\ Founded /\ AllRead /\ AllAlike /\ Asked /\ CallStep
      /\ UNCHANGED <<tab, load, refresh, client, made, again>> /\ call.at = "keeping"
  BY DEF RowsInv, KeptInv, Tells, CallStep, CallGoesOn, CallKeeps
<1>2. Asked' /\ ClientsKeep
  BY <1>1, AskedStays
<1>3. /\ call'.at \in {"answering", "tagging"}
      /\ kept'.generation = kept.generation + 1 /\ kept'.known = kept.known
      /\ kept'.rows = IF kept.rows = NONE THEN NONE ELSE SetRows(kept.rows, call.write)
  BY <1>1 DEF CallKeeps, Keeps, Base, TypeOK, Keeping, Calling
<1>4. tab.rows \in Seq(Rows) /\ call.write \in Writes /\ \A i \in DOMAIN call.write : i \in Nat
  BY <1>1 DEF Base, TypeOK, Calling, Writes
<1>5. ASSUME kept.rows # NONE
      PROVE  /\ \A i \in Nat : Alike(RowAt(kept'.rows, i), RowAt(tab.rows, i))
             /\ kept'.rows \in Seq(Rows) /\ AllPlain(kept'.rows)
  <2>1. kept.rows \in Seq(Rows) /\ kept'.rows = SetRows(kept.rows, call.write) /\ IsWrite(call.write)
    BY <1>1, <1>3, <1>4, <1>5, WritesAre DEF Base, TypeOK, Keeping
  <2>2. /\ kept'.rows \in Seq(Rows)
        /\ \A i \in Nat : i \in DOMAIN call.write => RowAt(kept'.rows, i) = call.write[i]
        /\ \A i \in Nat : i \notin DOMAIN call.write => RowAt(kept'.rows, i) = RowAt(kept.rows, i)
    BY <2>1, SetRowsSetsRows
  <2>3. AllPlain(kept'.rows)
    BY <1>1, <1>4, <1>5, <2>1, PlainSet DEF AllRead, ReadOf
  <2>4. \A i \in Nat : Alike(RowAt(kept'.rows, i), RowAt(tab.rows, i))
    <3>. TAKE i \in Nat
    <3>1. CASE i \in DOMAIN call.write
      BY <1>1, <2>2, <3>1 DEF AllAlike
    <3>2. CASE i \notin DOMAIN call.write
      <4>1. Alike(RowAt(kept.rows, i), RowAt(tab.rows, i))
        BY <1>1, <1>5, <3>2 DEF AllAlike, AlikeBut, PendingRows
      <4>. QED
        BY <2>2, <3>2, <4>1
    <3>. QED
      BY <3>1, <3>2
  <2>. QED
    BY <2>2, <2>3, <2>4
<1>6. GoesOnSo
  <2>1. \A i \in Nat : Alike(RowAt(tab'.rows, i), RowAt(tab.rows, i))
    BY <1>1, AlikeIs
  <2>. QED
    BY <1>1, <1>2, <1>4, <2>1, SameGoesOn DEF AllRead
<1>7. AllRead'
  <2>1. kept.rows # NONE => ReadOf(kept'.rows, Told(tab'.rows), Past', again')
    <3>1. UniqueIn(tab.rows)
      BY <1>1 DEF AllRead
    <3>2. kept.rows # NONE => ReadOf(kept'.rows, Told(tab.rows), Past', again')
      BY <1>4, <1>5, <3>1, AlikeIsRead
    <3>. QED
      BY <1>1, <3>2
  <2>2. kept.rows = NONE => kept'.rows = NONE
    BY <1>3
  <2>. QED
    BY <1>1, <1>3, <1>6, <2>1, <2>2, ReadsGoOn
<1>8. Founded'
  BY <1>1, <1>3 DEF Founded
<1>9. AllAlike'
  <2>1. load'["call"].at = "none" /\ \A a \in {"call", "reader"} : ~WillBeKept(a)'
    BY <1>1, <1>3, CallsEndLoad, NoneWillBeKept
  <2>2. kept'.rows # NONE => AlikeBut(kept'.rows, tab'.rows, PendingRows')
    BY <1>1, <1>3, <1>5 DEF AlikeBut
  <2>. QED
    BY <1>3, <2>1, <2>2 DEF AllAlike
<1>10. SendsChange'
  BY <1>3 DEF SendsChange
<1>11. History'
  BY <1>6 DEF GoesOnSo, History
<1>. QED
  BY <1>2, <1>7, <1>8, <1>9, <1>10, <1>11 DEF Tells

LEMMA FailsTells ==
    ASSUME RowsInv, ~emptied, CallFails
    PROVE  Tells'
<1>1. /\ Base /\ KeptInv /\ Tells /\ Founded /\ AllRead /\ AllAlike /\ Asked /\ CallStep /\ UNCHANGED <<refresh, client>>
      /\ call.at \in {"finding", "adding", "tagging", "heading", "sending", "reading"}
  BY DEF RowsInv, KeptInv, Tells, CallStep, CallGoesOn, CallFails
<1>2. Asked' /\ ClientsKeep
  BY <1>1, AskedStays
<1>3. call'.at = "answering"
  BY <1>1 DEF CallFails, Base, TypeOK, Calling
<1>4. \/ tab' = tab /\ UNCHANGED <<made, again>>
      \/ call.at \in {"heading", "sending"} /\ Takes(call.write) /\ Notes
      \/ call.at = "tagging" /\ tab.there /\ tab' = [tab EXCEPT !.tagged = TRUE] /\ UNCHANGED <<made, again>>
      \/ call.at = "adding" /\ ~tab.there /\ tab' = [NoTab EXCEPT !.there = TRUE] /\ UNCHANGED <<made, again>>
  BY DEF CallFails
<1>5. \/ kept' = Forgotten
      \/ kept' = kept /\ call.at \notin {"heading", "sending"} /\ (call.at = "adding" => tab' = tab)
  BY DEF CallFails
<1>6. tab.rows \in Seq(Rows) /\ AllPlain(tab.rows) /\ tab \in [there : BOOLEAN, tagged : BOOLEAN, rows : Seq(Rows)]
  BY <1>1 DEF Base, TypeOK, AllRead
<1>7. /\ GoesOnSo /\ (tab'.tagged \/ tab'.rows # <<>> => tab'.there) /\ (tab.there => tab'.there)
      /\ tab.tagged => tab'.tagged
      /\ made' # <<>> => tab'.tagged
      /\ kept' = kept => tab'.rows = tab.rows
  <2>1. CASE tab'.rows = tab.rows /\ UNCHANGED <<made, again>> /\ tab'.there = tab.there /\ (tab.tagged => tab'.tagged)
             /\ (tab'.tagged => tab'.there)
    <3>1. \A i \in Nat : Alike(RowAt(tab'.rows, i), RowAt(tab.rows, i))
      BY <2>1, AlikeIs
    <3>2. GoesOnSo
      BY <1>2, <1>6, <2>1, <3>1, SameGoesOn
    <3>. QED
      BY <1>1, <2>1, <3>2 DEF Founded
  <2>2. CASE tab' = tab /\ UNCHANGED <<made, again>>
    BY <1>1, <2>1, <2>2 DEF Founded
  <2>3. CASE call.at = "tagging" /\ tab.there /\ tab' = [tab EXCEPT !.tagged = TRUE] /\ UNCHANGED <<made, again>>
    BY <1>6, <2>1, <2>3
  <2>4. CASE call.at \in {"heading", "sending"} /\ Takes(call.write) /\ Notes
    <3>1. GoesOnSo /\ (made' # <<>> => tab.tagged) /\ tab'.there /\ tab'.tagged = tab.tagged
      BY <1>1, <2>4, TakenGoesOn
    <3>2. kept' # kept
      <4>1. kept' = Forgotten
        BY <1>5, <2>4
      <4>2. kept.generation \in Nat /\ kept'.generation = kept.generation + 1
        BY <1>1, <4>1 DEF Forgotten, Base, TypeOK, Keeping
      <4>. QED
        BY <4>2
    <3>. QED
      BY <3>1, <3>2
  <2>5. CASE call.at = "adding" /\ ~tab.there /\ tab' = [NoTab EXCEPT !.there = TRUE] /\ UNCHANGED <<made, again>>
    <3>1. tab.rows = <<>> /\ tab'.rows = <<>> /\ tab'.there /\ ~tab.tagged /\ made = <<>>
      BY <1>1, <2>5 DEF Founded, NoTab
    <3>2. \A i \in Nat : Alike(RowAt(tab'.rows, i), RowAt(tab.rows, i))
      BY <3>1, AlikeIs
    <3>3. GoesOnSo
      BY <1>2, <1>6, <2>5, <3>1, <3>2, SameGoesOn
    <3>. QED
      BY <2>5, <3>1, <3>3
  <2>. QED
    BY <1>4, <2>2, <2>3, <2>4, <2>5
<1>8. /\ load'["call"].at = "none"
      /\ \A a \in {"call", "reader"} : load'[a] = load[a] \/ load'[a].at = "none"
  BY <1>1, CallsEndLoad, CallsKeepLoads
<1>9. \/ kept'.rows = NONE /\ kept'.generation = kept.generation + 1 /\ kept'.known = kept.known
      \/ kept' = kept
  BY <1>1, <1>5 DEF Forgotten, Base, TypeOK, Keeping
<1>10. AllRead'
  BY <1>1, <1>3, <1>7, <1>8, <1>9, ReadsGoOn
<1>11. Founded'
  BY <1>1, <1>3, <1>7, <1>8, <1>9 DEF Founded
<1>12. AllAlike'
  <2>1. CASE kept'.rows = NONE /\ kept'.generation = kept.generation + 1
    <3>1. \A a \in {"call", "reader"} : ~WillBeKept(a)'
      BY <1>1, <2>1, NoneWillBeKept
    <3>. QED
      BY <1>3, <1>8, <2>1, <3>1 DEF AllAlike
  <2>2. CASE kept' = kept
    <3>1. PendingRows = {} /\ PendingRows' = {} /\ tab'.rows = tab.rows
      <4>1. call.at \notin {"heading", "sending"}
        <5>1. kept.generation \in Nat /\ (kept' = Forgotten => kept'.generation = kept.generation + 1)
          BY <1>1 DEF Forgotten, Base, TypeOK, Keeping
        <5>. QED
          BY <1>5, <2>2, <5>1
      <4>. QED
        BY <1>1, <1>3, <1>7, <2>2, <4>1 DEF PendingRows
    <3>2. \A a \in {"call", "reader"} : WillBeKept(a)' => WillBeKept(a) /\ load'[a] = load[a]
      BY <1>8, <2>2 DEF WillBeKept
    <3>. QED
      BY <1>1, <1>3, <1>8, <2>2, <3>1, <3>2 DEF AllAlike
  <2>. QED
    BY <1>9, <2>1, <2>2
<1>13. SendsChange'
  BY <1>3 DEF SendsChange
<1>14. History'
  BY <1>7 DEF GoesOnSo, History
<1>. QED
  BY <1>2, <1>10, <1>11, <1>12, <1>13, <1>14 DEF Tells

-----------------------------------------------------------------------------
(* What was last made is there.                                            *)

LEMMA SpentGrows ==
    ASSUME spent \in Spent, [Next]_vars
    PROVE  spent' \in Spent /\ (emptied => emptied') /\ (DeletesTab => emptied')
<1>1. spent' = spent \/ \E kind \in {"edits", "deletes", "fails", "restarts"} : spent' = [spent EXCEPT ![kind] = @ + 1]
  BY DEF Next, vars, Loads, LoadStep, LoadAsks, LoadAnswered, LoadFails, LoadKeeps, RefreshStep, RefreshBegins, RefreshReads, RefreshCompares,
     RefreshDecides, RefreshAdds, RefreshTags, RefreshPuts, RefreshFails, EditsByHand, DeletesTab, ClientReads, ReaderGivesUp, CallStep, CallGoesOn,
     CallBegins, CallFinds, CallAdds, CallTags, CallReads, CallDecides, CallSends, CallKeeps, CallFails, CallAnswers, Restarts, Fails, Mishap
<1>2. spent' \in Spent /\ spent'.deletes >= spent.deletes
  BY <1>1 DEF Spent
<1>3. ASSUME DeletesTab PROVE spent'.deletes > 0
  BY <1>3 DEF DeletesTab, Mishap, Spent
<1>. QED
  BY <1>2, <1>3 DEF emptied, Spent

LEMMA RowsStep == RowsInv /\ [Next]_vars => RowsInv'
<1>. SUFFICES ASSUME RowsInv, [Next]_vars PROVE RowsInv'
  OBVIOUS
<1>1. spent' \in Spent /\ (emptied => emptied') /\ (DeletesTab => emptied')
  BY SpentGrows DEF RowsInv
<1>2. KeptInv'
  BY KeptStep DEF RowsInv
<1>3. ASSUME ~emptied' PROVE Tells'
  <2>1. ~emptied /\ ~DeletesTab
    BY <1>1, <1>3
  <2>2. CASE UNCHANGED vars
    <3>. USE <2>2 DEF vars
    <3>1. Tells
      BY <2>1 DEF RowsInv
    <3>2. Founded' /\ AllRead'
      BY <3>1 DEF Tells, Founded, AllRead, Past
    <3>3. AllAlike' /\ SendsChange' /\ Asked'
      BY <3>1 DEF Tells, AllAlike, WillBeKept, PendingRows, SendsChange, Asked, AskedOf
    <3>4. History'
      BY <3>1 DEF Tells, History, AllMadeAs, MadeAs, Once, LastsTold, LastMade, LastTold
    <3>. QED
      BY <3>2, <3>3, <3>4 DEF Tells
  <2>3. CASE CallStep
    BY <2>1, <2>3, BeginsTells, FindsTells, AddsTells, TagsTells, ReadsTells, DecidesTells, SendsTells, KeepsTells, FailsTells,
       AnswersTells DEF CallStep, CallGoesOn
  <2>4. CASE ~UNCHANGED vars /\ ~CallStep
    BY <2>1, <2>4, LoadsTell, RefreshTells, EditsTell, ClientsTell, RestartTells DEF Next
  <2>. QED
    BY <2>2, <2>3, <2>4
<1>. QED
  BY <1>1, <1>2, <1>3 DEF RowsInv

LEMMA LastsAreThere ==
    ASSUME RowsInv, ~emptied, NEW id \in Ids, NEW k \in LastMade(id)
    PROVE  IF made[k].kind = "delete" THEN ~Has(tab.rows, id)
           ELSE Cardinality(PositionsOf(tab.rows, id)) = 1 /\ ItemOf(tab.rows, id).by = made[k].who
<1>1. LastTold(k) /\ made[k].id = id /\ tab.rows \in Seq(Rows) /\ UniqueIn(tab.rows)
  BY DEF RowsInv, Tells, History, LastsTold, LastMade, KeptInv, Base, TypeOK, AllRead
<1>2. CASE made[k].kind = "delete"
  <2>1. ToldOf(tab.rows, id) = {}
    BY <1>1, <1>2 DEF LastTold, ToldOf
  <2>. QED
    BY <1>1, <1>2, <2>1, HasIsTold
<1>3. CASE made[k].kind # "delete"
  <2>1. PICK t \in ToldOf(tab.rows, id) : t.by = made[k].who
    BY <1>1, <1>3 DEF LastTold, ToldOf
  <2>2. Has(tab.rows, id) /\ OfRow(ItemOf(tab.rows, id)) \in ToldOf(tab.rows, id)
    BY <1>1, <2>1, HasIsTold
  <2>3. OfRow(ItemOf(tab.rows, id)) = t
    BY <1>1, <2>1, <2>2, OneIsTold
  <2>4. ItemOf(tab.rows, id).by = made[k].who
    BY <2>1, <2>3 DEF OfRow
  <2>5. \A i, j \in PositionsOf(tab.rows, id) : i = j
    BY <1>1 DEF PositionsOf, UniqueIn
  <2>6. PICK i \in PositionsOf(tab.rows, id) : TRUE
    BY <2>2 DEF Has
  <2>7. PositionsOf(tab.rows, id) = {i}
    BY <2>5, <2>6
  <2>8. Cardinality(PositionsOf(tab.rows, id)) = 1
    BY <2>7, FS_Singleton
  <2>. QED
    BY <1>3, <2>4, <2>8
<1>. QED
  BY <1>2, <1>3

\* Unless the tab was deleted, of each item the tab has what the last change
\* made to it left, on one row (sheets.rs:680-686, rows.rs:774-836).
THEOREM LastMadeIsThere == Spec => []TabHasLastMade
<1>1. RowsInv => TabHasLastMade
  BY LastsAreThere DEF TabHasLastMade
<1>. QED
  BY <1>1, RowsInit, RowsStep, PTL DEF Spec

\* No change is made over one its client hasn't read, nor made twice, but of
\* an item made again after its deletion, or of a tab deleted
\* (rows.rs:10-15, 345-359, 774-836).
THEOREM ChangesAreAsRead == Spec => []MadeAsRead
<1>1. RowsInv => MadeAsRead
  <2>. SUFFICES ASSUME RowsInv, ~emptied PROVE MadeAsRead
    BY DEF MadeAsRead, NothingOverwritten, Overwrites, MadeOnce
  <2>1. Once /\ \A k \in DOMAIN made : MadeAs(k)
    BY DEF RowsInv, Tells, History, AllMadeAs
  <2>2. NothingOverwritten
    BY <2>1 DEF NothingOverwritten, Overwrites, MadeAs
  <2>3. MadeOnce
    BY <2>1 DEF MadeOnce, Once
  <2>. QED
    BY <2>2, <2>3 DEF MadeAsRead
<1>. QED
  BY <1>1, RowsInit, RowsStep, PTL DEF Spec
=============================================================================
