------------------------ MODULE ProposalReviewProofs ------------------------
(***************************************************************************)
(* Nothing is applied over feedback that's open, feedback is answered by a *)
(* revision Claude made after it, and a proposal that's finished isn't     *)
(* open again -- for whatever Claude and the user say, however many calls  *)
(* stop and whatever garbage collection takes.                             *)
(***************************************************************************)
EXTENDS ProposalReviewProperties, FiniteSetTheorems, SequenceTheorems, WellFoundedInduction, TLAPS

MarkStatuses == {"superseded", "answered", "replaced", "inapplicable", "failed"}
Marks == Nat \X MarkStatuses

MetaOK(meta, rev) ==
    /\ "base" \in DOMAIN meta /\ "reason" \in DOMAIN meta
    /\ meta.base \in Nat /\ meta.base <= rev

IsRevision(row) ==
    /\ row.kind = "compaction"
    /\ row = [kind |-> "compaction", of |-> row.of, rev |-> row.rev, status |-> row.status, notes |-> row.notes,
              meta |-> row.meta]
    /\ row.rev \in Nat /\ MetaOK(row.meta, row.rev)
IsPlanned(row) ==
    /\ row.kind = "planned"
    /\ row = [kind |-> "planned", of |-> row.of, rev |-> row.rev, claude |-> row.claude, decided |-> row.decided,
              seen |-> row.seen]
IsEdit(row) == row.kind = "edit" /\ row = [kind |-> "edit", of |-> row.of, status |-> row.status, edit |-> row.edit]
IsFeedback(row) ==
    /\ row.kind = "feedback"
    /\ row = [kind |-> "feedback", of |-> row.of, seq |-> row.seq, about |-> row.about, by |-> row.by,
              since |-> row.since, status |-> row.status, answeredIn |-> row.answeredIn]
    /\ row.since \in Nat
RowOK(row) ==
    /\ row.of \in Nat
    /\ IsRevision(row) \/ IsPlanned(row) \/ IsEdit(row) \/ IsFeedback(row)

CallOK ==
    /\ call = [pc |-> call.pc, kind |-> call.kind, p |-> call.p, row |-> call.row, doomed |-> call.doomed,
               marks |-> call.marks, ids |-> call.ids]
    /\ call.pc \in {"idle", "mark", "collect", "apply", "fail"}
    /\ call.marks \in Seq(Marks)
    /\ call.doomed \subseteq DOMAIN journal

Tab == {journal[i] : i \in DOMAIN journal}
TypeOK ==
    /\ proposals \in Nat /\ stops \in Nat
    /\ journal \in Seq(Tab)
    /\ \A i \in DOMAIN journal : RowOK(journal[i]) /\ journal[i].of <= proposals
    /\ CallOK

----------------------------------------------------------------------------
(* The revisions of a proposal *)

\* Its rows are numbered apart, and one being applied is its newest.
RevisionsApart ==
    \A i, j \in CompactionRows(journal) :
        journal[i].of = journal[j].of /\ journal[i].rev = journal[j].rev => i = j
IsNewest(i) == \A j \in CompactionRows(journal) : journal[j].of = journal[i].of => journal[j].rev <= journal[i].rev
AppliedIsNewest == \A i \in CompactionRows(journal) : journal[i].status = "applying" => IsNewest(i)

\* What a call relies on: a confirm that collects garbage, that its proposal
\* stays as it was found; ...
Ready(p) == RowsOf(journal, p, "compaction") # {} /\ OpenFeedback(journal, p) = {} /\ NoneApplying
ConfirmReady ==
    call.pc = "collect" /\ call.kind = "confirm" =>
        Ready(call.p) /\ call.doomed \cap RowsOf(journal, call.p, "compaction") = {}
\* ... one that applies, its revision's status; and one that failed, that
\* it's the first thing it writes.
ApplyHolds ==
    call.pc \in {"apply", "fail"} =>
        /\ call.row \in RowsOf(journal, call.p, "compaction")
        /\ call.pc = "apply" => journal[call.row].status = "applying"
        /\ IsNewest(call.row)
FailFirst ==
    call.pc = "fail" =>
        /\ journal[call.row].status = "applying" => call.marks # <<>> /\ call.marks[1] = <<call.row, "failed">>
        /\ \A n \in DOMAIN call.marks : call.marks[n][2] # "answered"

\* What's to be marked answered comes before its proposal's newest revision,
\* Claude's.
Answering ==
    call.pc = "mark" =>
        \A n \in DOMAIN call.marks : call.marks[n][2] = "answered" =>
            /\ call.marks[n][1] \in Feedback(journal, call.p)
            /\ \E c \in RowsOf(journal, call.p, "compaction") :
                   /\ IsNewest(c) /\ c > call.marks[n][1] /\ journal[c].meta.reason = "revised"

\* What's passed over is about to be marked answered.
ToBeAnswered(i) == call.pc = "mark" /\ \E n \in DOMAIN call.marks : call.marks[n] = <<i, "answered">>
AllAnswered ==
    stops = 0 =>
        \A i \in DOMAIN journal, j \in CompactionRows(journal) :
            (journal[i].kind = "feedback" /\ journal[i].status = "open"
                /\ journal[j].of = journal[i].of /\ journal[j].meta.reason \in RevisedReasons) =>
                    journal[i].since >= journal[j].meta.base \/ ToBeAnswered(i)

ReviewInv ==
    /\ TypeOK /\ RevisionsApart /\ AppliedIsNewest /\ NotAppliedOverFeedback
    /\ ConfirmReady /\ ApplyHolds /\ FailFirst /\ Answering /\ AllAnswered
----------------------------------------------------------------------------
(* Numbers, and how a tab changes *)

Before == {ss \in Nat \X Nat : ss[1] < ss[2]}

LEMMA Least ==
    ASSUME NEW T, T \subseteq Nat, T # {}
    PROVE  \E x \in T : \A y \in T : x <= y
<1>1. IsWellFoundedOn(Before, Nat)
  BY NatLessThanWellFounded DEF OpToRel, Before
<1>2. PICK x \in T : \A y \in T : ~ (<<y, x>> \in Before)
  BY <1>1, WFMin
<1>3. \A y \in T : ~(y < x)
  BY <1>2 DEF Before
<1>. QED
  BY <1>3

LEMMA LeastIsMin ==
    ASSUME NEW T, T \subseteq Nat, T # {}
    PROVE  Min(T) \in T /\ \A y \in T : Min(T) <= y
BY Least DEF Min

LEMMA GreatestIsMax ==
    ASSUME NEW n \in Nat, NEW T, T \subseteq 0 .. n, T # {}
    PROVE  Max(T) \in T /\ \A y \in T : y <= Max(T)
<1>. DEFINE U == {n - x : x \in T}
<1>1. U \subseteq Nat /\ U # {}
  OBVIOUS
<1>2. PICK m \in U : \A y \in U : m <= y
  BY <1>1, Least
<1>3. PICK x \in T : m = n - x
  BY <1>2
<1>4. \A y \in T : y <= x
  <2>. SUFFICES ASSUME NEW y \in T PROVE y <= x
    OBVIOUS
  <2>1. n - y \in U /\ y \in 0 .. n /\ x \in 0 .. n
    OBVIOUS
  <2>2. n - x <= n - y
    BY <1>2, <1>3, <2>1
  <2>. QED
    BY <2>1, <2>2
<1>5. \E z \in T : \A y \in T : z >= y
  BY <1>3, <1>4
<1>. QED
  BY <1>5 DEF Max

\* The tab's rows are numbered from 1.
LEMMA TabIs ==
    ASSUME TypeOK
    PROVE  /\ Len(journal) \in Nat /\ DOMAIN journal = 1 .. Len(journal)
           /\ \A i \in DOMAIN journal : RowOK(journal[i]) /\ journal[i].of \in Nat /\ journal[i].of <= proposals
           /\ \A i \in CompactionRows(journal) : IsRevision(journal[i]) /\ journal[i].rev \in Nat
           /\ \A i \in DOMAIN journal : journal[i].kind = "feedback" => IsFeedback(journal[i])
<1>1. journal \in Seq(Tab)
  BY DEF TypeOK
<1>2. Len(journal) \in Nat /\ DOMAIN journal = 1 .. Len(journal)
  BY <1>1, LenProperties
<1>3. \A i \in DOMAIN journal : RowOK(journal[i]) /\ journal[i].of \in Nat /\ journal[i].of <= proposals
  BY DEF TypeOK, RowOK
<1>4. \A i \in CompactionRows(journal) : i \in DOMAIN journal /\ journal[i].kind = "compaction"
  BY DEF CompactionRows
<1>. QED
  BY <1>2, <1>3, <1>4 DEF RowOK, IsRevision, IsPlanned, IsEdit, IsFeedback

\* A function on 1 .. n is a sequence of its values.
LEMMA IsTab ==
    ASSUME NEW f, NEW n \in Nat, DOMAIN f = 1 .. n, f = [i \in 1 .. n |-> f[i]]
    PROVE  f \in Seq({f[i] : i \in DOMAIN f}) /\ Len(f) = n
<1>. DEFINE S == {f[i] : i \in DOMAIN f}
<1>1. f \in [1 .. n -> S]
  OBVIOUS
<1>2. f \in Seq(S)
  BY <1>1, SeqDef
<1>3. DOMAIN f = 1 .. Len(f) /\ Len(f) \in Nat
  BY <1>2, LenProperties
<1>. QED
  BY <1>2, <1>3

LEMMA TabStays ==
    ASSUME NEW n \in Nat, DOMAIN journal' = 1 .. n, journal' = [i \in 1 .. n |-> journal'[i]]
    PROVE  journal' \in Seq(Tab') /\ Len(journal') = n
<1>1. journal' \in Seq({journal'[i] : i \in DOMAIN journal'}) /\ Len(journal') = n
  BY IsTab
<1>. QED
  BY <1>1 DEF Tab

\* A proposal with revisions has a newest.
LEMMA NewestIs ==
    ASSUME TypeOK, NEW p, RowsOf(journal, p, "compaction") # {}
    PROVE  /\ Newest(journal, p) \in RowsOf(journal, p, "compaction")
           /\ IsNewest(Newest(journal, p))
<1>. DEFINE own == RowsOf(journal, p, "compaction")
            over(i) == {j \in own : journal[j].rev > journal[i].rev}
            counts == {Cardinality(over(i)) : i \in own}
<1>1. /\ own \subseteq CompactionRows(journal) /\ own \subseteq 1 .. Len(journal)
      /\ \A i \in own : journal[i].rev \in Nat /\ journal[i].of = p
  BY TabIs DEF RowsOf, CompactionRows
<1>2. IsFiniteSet(own)
  <2>1. IsFiniteSet(1 .. Len(journal))
    BY FS_Interval, TabIs
  <2>. QED
    BY <1>1, <2>1, FS_Subset
<1>3. \A i \in own : IsFiniteSet(over(i)) /\ Cardinality(over(i)) \in Nat
  BY <1>2, FS_Subset, FS_CardinalityType
<1>4. PICK i \in own : \A j \in own : Cardinality(over(i)) <= Cardinality(over(j))
  <2>1. counts \subseteq Nat /\ counts # {}
    BY <1>3
  <2>2. \E c \in counts : \A d \in counts : c <= d
    BY <2>1, Least
  <2>. QED
    BY <2>2
<1>5. \A j \in own : journal[j].rev <= journal[i].rev
  <2>. SUFFICES ASSUME NEW j \in own, journal[j].rev > journal[i].rev PROVE FALSE
    BY <1>1
  <2>1. over(j) \subseteq over(i) /\ j \in over(i) /\ j \notin over(j)
    BY <1>1
  <2>2. Cardinality(over(j)) <= Cardinality(over(i)) /\ Cardinality(over(j)) # Cardinality(over(i))
    BY <2>1, <1>3, FS_Subset
  <2>3. Cardinality(over(i)) <= Cardinality(over(j))
    BY <1>4
  <2>4. Cardinality(over(i)) \in Nat /\ Cardinality(over(j)) \in Nat
    BY <1>3
  <2>. HIDE DEF over
  <2>. QED
    BY <2>2, <2>3, <2>4
<1>6. Newest(journal, p) \in own /\ \A j \in own : journal[j].rev <= journal[Newest(journal, p)].rev
  BY <1>4, <1>5 DEF Newest
<1>7. \A j \in CompactionRows(journal) : journal[j].of = p => j \in own
  BY DEF RowsOf, CompactionRows
<1>. QED
  BY <1>1, <1>6, <1>7 DEF IsNewest

LEMMA OnlyNewest ==
    ASSUME TypeOK, RevisionsApart, NEW i \in CompactionRows(journal), NEW j \in CompactionRows(journal),
           IsNewest(i), IsNewest(j), journal[i].of = journal[j].of
    PROVE  i = j
<1>1. journal[i].rev \in Nat /\ journal[j].rev \in Nat
  BY TabIs
<1>2. journal[i].rev = journal[j].rev
  BY <1>1 DEF IsNewest
<1>. QED
  BY <1>2 DEF RevisionsApart

\* The open proposal, if there is one, is one that's there.
LEMMA OpenIsThere ==
    ASSUME TypeOK, OpenProposal(journal) # 0
    PROVE  /\ OpenProposal(journal) \in OpenProposals(journal)
           /\ RowsOf(journal, OpenProposal(journal), "compaction") # {}
           /\ OpenProposal(journal) \in Nat /\ OpenProposal(journal) <= proposals
<1>. DEFINE first(p) == Min(RowsOf(journal, p, "compaction"))
            open == OpenProposals(journal)
            firsts == {first(p) : p \in open}
<1>1. \A p \in open : RowsOf(journal, p, "compaction") # {} /\ p \in Nat /\ p <= proposals
  BY TabIs DEF OpenProposals, Proposals, RowsOf, CompactionRows
<1>2. \A p \in open : first(p) \in Nat
  <2>. SUFFICES ASSUME NEW p \in open PROVE first(p) \in Nat
    OBVIOUS
  <2>1. RowsOf(journal, p, "compaction") \subseteq Nat
    BY TabIs DEF RowsOf
  <2>. QED
    BY <1>1, <2>1, LeastIsMin
<1>3. open # {}
  BY DEF OpenProposal
<1>4. firsts \subseteq Nat /\ firsts # {}
  BY <1>2, <1>3
<1>5. \E x \in firsts : \A y \in firsts : x <= y
  BY <1>4, Least
<1>6. \E p \in open : \A q \in open : first(p) <= first(q)
  BY <1>5
<1>7. OpenProposal(journal) \in open
  BY <1>3, <1>6 DEF OpenProposal
<1>. QED
  BY <1>1, <1>7

----------------------------------------------------------------------------
(* Rows given a status, deleted and added *)

\* Row s is row r, whatever its status.
Kept(r, s) ==
    /\ s.kind = r.kind /\ s.of = r.of
    /\ r.kind = "compaction" => s.rev = r.rev /\ s.meta = r.meta
    /\ r.kind = "planned" => s.rev = r.rev
    /\ r.kind = "feedback" => s.since = r.since
Restated(r, s, status) ==
    RowOK(s) /\ Kept(r, s) /\ (r.kind \in {"compaction", "edit", "feedback"} => s.status = status)

LEMMA RowIsRestated ==
    ASSUME NEW row, RowOK(row), NEW status
    PROVE  Restated(row, [row EXCEPT !.status = status], status)
<1>1. CASE IsRevision(row)
  BY <1>1 DEF RowOK, IsRevision, MetaOK, Restated, Kept
<1>2. CASE IsPlanned(row)
  BY <1>2 DEF RowOK, IsPlanned, Restated, Kept
<1>3. CASE IsEdit(row)
  BY <1>3 DEF RowOK, IsEdit, Restated, Kept
<1>4. CASE IsFeedback(row)
  BY <1>4 DEF RowOK, IsFeedback, Restated, Kept
<1>. QED
  BY <1>1, <1>2, <1>3, <1>4 DEF RowOK

LEMMA RowIsMarked ==
    ASSUME NEW row, RowOK(row), NEW status, NEW r
    PROVE  /\ Restated(row, Marked(row, status, r), status)
           /\ row.kind = "feedback" /\ status = "answered" => Marked(row, status, r).answeredIn = r
<1>1. CASE row.kind = "feedback" /\ status = "answered"
  <2>1. IsFeedback(row)
    BY <1>1 DEF RowOK, IsFeedback, IsRevision, IsPlanned, IsEdit
  <2>. QED
    BY <1>1, <2>1 DEF RowOK, IsFeedback, Restated, Kept, Marked
<1>2. CASE ~(row.kind = "feedback" /\ status = "answered")
  BY <1>2, RowIsRestated DEF Marked
<1>. QED
  BY <1>1, <1>2

\* The tab as it was, but for the status of row i.
Restates(i, status) ==
    /\ DOMAIN journal' = DOMAIN journal /\ Len(journal') = Len(journal)
    /\ journal' \in Seq(Tab')
    /\ \A k \in DOMAIN journal : IF k = i THEN Restated(journal[k], journal'[k], status) ELSE journal'[k] = journal[k]

LEMMA RestatesByExcept ==
    ASSUME TypeOK, NEW i, NEW status, journal' = [journal EXCEPT ![i].status = status]
    PROVE  Restates(i, status)
<1>1. Len(journal) \in Nat /\ DOMAIN journal = 1 .. Len(journal) /\ \A k \in DOMAIN journal : RowOK(journal[k])
  BY TabIs
<1>2. \A k \in DOMAIN journal : journal'[k] = IF k = i THEN [journal[k] EXCEPT !.status = status] ELSE journal[k]
  BY <1>1
<1>3. DOMAIN journal' = 1 .. Len(journal) /\ journal' = [k \in 1 .. Len(journal) |-> journal'[k]]
  BY <1>1
<1>4. journal' \in Seq(Tab') /\ Len(journal') = Len(journal)
  BY <1>1, <1>3, TabStays
<1>5. \A k \in DOMAIN journal : k = i => Restated(journal[k], journal'[k], status)
  BY <1>1, <1>2, RowIsRestated
<1>. QED
  BY <1>1, <1>2, <1>3, <1>4, <1>5 DEF Restates

LEMMA RestatesByMark ==
    ASSUME TypeOK, NEW i, NEW status, NEW r, journal' = [journal EXCEPT ![i] = Marked(@, status, r)]
    PROVE  /\ Restates(i, status)
           /\ i \in DOMAIN journal /\ journal[i].kind = "feedback" /\ status = "answered" => journal'[i].answeredIn = r
<1>1. Len(journal) \in Nat /\ DOMAIN journal = 1 .. Len(journal) /\ \A k \in DOMAIN journal : RowOK(journal[k])
  BY TabIs
<1>2. \A k \in DOMAIN journal : journal'[k] = IF k = i THEN Marked(journal[k], status, r) ELSE journal[k]
  BY <1>1
<1>3. DOMAIN journal' = 1 .. Len(journal) /\ journal' = [k \in 1 .. Len(journal) |-> journal'[k]]
  BY <1>1
<1>4. journal' \in Seq(Tab') /\ Len(journal') = Len(journal)
  BY <1>1, <1>3, TabStays
<1>5. \A k \in DOMAIN journal : k = i =>
        /\ Restated(journal[k], journal'[k], status)
        /\ journal[k].kind = "feedback" /\ status = "answered" => journal'[k].answeredIn = r
  BY <1>1, <1>2, RowIsMarked
<1>. QED
  BY <1>1, <1>2, <1>3, <1>4, <1>5 DEF Restates

\* Every row is one there was, none of them twice, and no more of them are
\* applying or open.
ComesFrom(f) ==
    /\ \A k \in DOMAIN journal' : f[k] \in DOMAIN journal /\ Kept(journal[f[k]], journal'[k])
    /\ \A k, l \in DOMAIN journal' : f[k] = f[l] => k = l
    /\ \A k \in DOMAIN journal' : journal'[k].kind = "compaction" /\ journal'[k].status = "applying" => journal[f[k]].status = "applying"
    /\ \A k \in DOMAIN journal' : journal'[k].kind = "feedback" /\ journal'[k].status = "open" => journal[f[k]].status = "open"

LEMMA Inherited ==
    ASSUME TypeOK, RevisionsApart, AppliedIsNewest, NotAppliedOverFeedback, NEW f, ComesFrom(f)
    PROVE  (RevisionsApart /\ AppliedIsNewest /\ NotAppliedOverFeedback)'
<1>1. \A k \in CompactionRows(journal') :
        /\ k \in DOMAIN journal' /\ f[k] \in CompactionRows(journal)
        /\ journal'[k].of = journal[f[k]].of /\ journal'[k].rev = journal[f[k]].rev
        /\ journal'[k].status = "applying" => journal[f[k]].status = "applying"
  BY DEF ComesFrom, Kept, CompactionRows
<1>2. RevisionsApart'
  BY <1>1 DEF RevisionsApart, ComesFrom
<1>3. AppliedIsNewest'
  BY <1>1 DEF AppliedIsNewest, IsNewest
<1>4. NotAppliedOverFeedback'
  <2>. SUFFICES ASSUME NEW k \in CompactionRows(journal'), journal'[k].status = "applying",
                       NEW l \in OpenFeedback(journal', journal'[k].of)
       PROVE FALSE
    BY DEF NotAppliedOverFeedback
  <2>1. f[l] \in OpenFeedback(journal, journal[f[k]].of)
    BY <1>1 DEF OpenFeedback, Feedback, RowsOf, ComesFrom, Kept
  <2>. QED
    BY <1>1, <2>1 DEF NotAppliedOverFeedback
<1>. QED
  BY <1>2, <1>3, <1>4

LEMMA RestatesInherit ==
    ASSUME TypeOK, RevisionsApart, AppliedIsNewest, NotAppliedOverFeedback,
           NEW i, NEW status, Restates(i, status), status \notin {"applying", "open"}
    PROVE  (RevisionsApart /\ AppliedIsNewest /\ NotAppliedOverFeedback)'
<1>. DEFINE f == [k \in DOMAIN journal |-> k]
<1>1. ComesFrom(f)
  BY DEF Restates, Restated, ComesFrom, Kept
<1>. HIDE DEF f
<1>. QED
  BY <1>1, Inherited

\* The last run of rows to delete, and where the tab's rows were before.
LEMMA LastRunIs ==
    ASSUME NEW n \in Nat, NEW doomed, doomed \subseteq 1 .. n, doomed # {}
    PROVE  LET run == LastRun(doomed)
           IN  /\ Min(run) \in run /\ run \subseteq doomed /\ run = Min(run) .. Max(doomed)
               /\ Max(doomed) \in 1 .. n /\ Min(run) \in 1 .. n
               /\ Cardinality(run) = Max(doomed) - Min(run) + 1
               /\ \A i \in doomed \ run : i + 1 < Min(run)
<1>. DEFINE run == LastRun(doomed)
            b == Max(doomed)
            a == Min(run)
<1>1. b \in doomed /\ \A i \in doomed : i <= b
  <2>1. doomed \subseteq 0 .. n
    OBVIOUS
  <2>. QED
    BY <2>1, GreatestIsMax
<1>2. run = {i \in doomed : i .. b \subseteq doomed}
  BY DEF LastRun
<1>. HIDE DEF b, run
<1>3. b \in Nat /\ doomed \subseteq Nat
  BY <1>1
<1>4. b .. b = {b}
  BY <1>3
<1>5. b \in run /\ run \subseteq Nat
  BY <1>1, <1>2, <1>3, <1>4
<1>6. a \in run /\ \A i \in run : a <= i
  BY <1>5, LeastIsMin
<1>. HIDE DEF a
<1>7. a \in Nat /\ a .. b \subseteq doomed /\ a <= b /\ run = a .. b
  <2>1. a \in Nat /\ a .. b \subseteq doomed /\ a <= b
    BY <1>2, <1>5, <1>6
  <2>2. \A i \in a .. b : i \in run
    <3>. SUFFICES ASSUME NEW i \in a .. b PROVE i \in run
      OBVIOUS
    <3>1. i .. b \subseteq a .. b
      BY <2>1, <1>3
    <3>. QED
      BY <1>2, <2>1, <3>1
  <2>3. \A i \in run : i \in a .. b
    BY <1>1, <1>2, <1>3, <1>6, <2>1
  <2>. QED
    BY <2>1, <2>2, <2>3
<1>8. Cardinality(run) = b - a + 1
  BY <1>3, <1>7, FS_Interval
<1>9. \A i \in doomed \ run : i + 1 < a
  <2>. SUFFICES ASSUME NEW i \in doomed \ run, i + 1 >= a PROVE FALSE
    BY <1>3, <1>7
  <2>1. i \in Nat /\ i <= b /\ i \notin a .. b
    BY <1>1, <1>3, <1>7
  <2>2. i = a - 1
    BY <1>3, <1>7, <2>1
  <2>3. i .. b \subseteq {i} \cup a .. b
    BY <1>3, <1>7, <2>2
  <2>4. i .. b \subseteq doomed
    BY <1>7, <2>3
  <2>. QED
    BY <1>2, <2>4
<1>10. a \in 1 .. n /\ b \in 1 .. n /\ run \subseteq doomed
  BY <1>1, <1>2, <1>6
<1>. QED
  BY <1>6, <1>7, <1>8, <1>9, <1>10 DEF run, a, b

WasAt(run, k) == IF k < Min(run) THEN k ELSE k + Cardinality(run)

LEMMA DeletedRows ==
    ASSUME TypeOK, NEW doomed, doomed \subseteq DOMAIN journal, doomed # {},
           journal' = Deleted(journal, LastRun(doomed))
    PROVE  LET run == LastRun(doomed)
               f == [k \in DOMAIN journal' |-> WasAt(run, k)]
           IN  /\ journal' \in Seq(Tab') /\ Len(journal') < Len(journal)
               /\ ComesFrom(f) /\ \A k \in DOMAIN journal' : journal'[k] = journal[f[k]]
               /\ \A i \in DOMAIN journal \ run : \E k \in DOMAIN journal' : f[k] = i
               /\ \A k \in DOMAIN journal' : f[k] \notin run /\ k <= f[k]
               /\ \A k, l \in DOMAIN journal' : k < l => f[k] < f[l]
               /\ \A i \in doomed \ run : i + 1 < Min(run)
               /\ \A i \in DOMAIN journal : i < Min(run) => i \in DOMAIN journal' /\ f[i] = i
<1>. DEFINE run == LastRun(doomed)
            f == [k \in DOMAIN journal' |-> WasAt(run, k)]
            n == Len(journal)
            c == Cardinality(run)
            a == Min(run)
<1>1. n \in Nat /\ DOMAIN journal = 1 .. n
  BY TabIs
<1>2. PICK b \in 1 .. n : a \in 1 .. b /\ run = a .. b /\ c = b - a + 1 /\ run \subseteq doomed /\ \A i \in doomed \ run : i + 1 < a
  BY <1>1, LastRunIs
<1>3. journal' = [i \in 1 .. (n - c) |-> journal[IF i < a THEN i ELSE i + c]]
  BY DEF Deleted
<1>. HIDE DEF run, n, c, a
<1>4. n - c \in Nat /\ n - c < n /\ c \in Nat
  BY <1>1, <1>2
<1>5. DOMAIN journal' = 1 .. (n - c) /\ journal' = [i \in 1 .. (n - c) |-> journal'[i]]
  BY <1>3
<1>6. journal' \in Seq(Tab') /\ Len(journal') = n - c
  BY <1>4, <1>5, TabStays
<1>7. \A k \in DOMAIN journal' : f[k] = IF k < a THEN k ELSE k + c
  BY DEF WasAt, a, c
<1>8. \A k \in DOMAIN journal' : f[k] \in DOMAIN journal /\ journal'[k] = journal[f[k]]
  BY <1>1, <1>2, <1>3, <1>4, <1>5, <1>7
<1>9. \A k, l \in DOMAIN journal' : f[k] = f[l] => k = l
  BY <1>2, <1>4, <1>5, <1>7
<1>. HIDE DEF f
<1>10. ComesFrom(f)
  BY <1>8, <1>9 DEF ComesFrom, Kept
<1>11. \A i \in DOMAIN journal \ run : \E k \in DOMAIN journal' : f[k] = i
  <2>. SUFFICES ASSUME NEW i \in DOMAIN journal \ run PROVE \E k \in DOMAIN journal' : f[k] = i
    OBVIOUS
  <2>1. CASE i < a
    <3>1. i \in DOMAIN journal' /\ f[i] = i
      BY <1>1, <1>2, <1>4, <1>5, <1>7, <2>1
    <3>. QED
      BY <3>1
  <2>2. CASE i > b
    <3>1. i - c \in DOMAIN journal' /\ ~(i - c < a)
      BY <1>1, <1>2, <1>4, <1>5, <2>2
    <3>2. f[i - c] = i
      BY <1>1, <1>7, <1>4, <3>1
    <3>. QED
      BY <3>1, <3>2
  <2>. QED
    BY <1>1, <1>2, <2>1, <2>2
<1>12. \A i \in DOMAIN journal : i < a => i \in DOMAIN journal' /\ f[i] = i
  BY <1>1, <1>2, <1>4, <1>5, <1>7
<1>13. \A k \in DOMAIN journal' : f[k] \notin run /\ k <= f[k]
  BY <1>2, <1>4, <1>5, <1>7
<1>14. \A k, l \in DOMAIN journal' : k < l => f[k] < f[l]
  BY <1>2, <1>4, <1>5, <1>7
<1>. QED
  BY <1>2, <1>4, <1>6, <1>8, <1>10, <1>11, <1>12, <1>13, <1>14 DEF run, f, n, a

\* Nothing that's deleted is one of the open proposal's revisions.
LEMMA DoomedIsNotOpen ==
    ASSUME TypeOK
    PROVE  /\ Doomed(journal) \subseteq DOMAIN journal
           /\ Doomed(journal) \cap RowsOf(journal, OpenProposal(journal), "compaction") = {}
<1>. DEFINE trimmed == UNION {PlannedOf(journal, i) : i \in Trimmed(journal)}
            open == OpenProposal(journal)
            finished == {i \in DOMAIN journal \ trimmed : Finished(journal, open, Block(journal, i))}
<1>1. Doomed(journal) \subseteq trimmed \cup finished
  BY DEF Doomed
<1>2. \A i \in trimmed : i \in DOMAIN journal /\ journal[i].kind = "planned"
  BY DEF PlannedOf, RowsOf
<1>3. \A i \in finished : i \in DOMAIN journal /\ journal[i].of # open
  BY DEF Finished, Block
<1>. QED
  BY <1>1, <1>2, <1>3 DEF RowsOf

\* The tab with a revision of p's written at its end, in row c.
AddsRevision(p, r, meta, c) ==
    /\ journal' \in Seq(Tab') /\ Len(journal') > Len(journal)
    /\ \A i \in DOMAIN journal : i \in DOMAIN journal' /\ journal'[i] = journal[i]
    /\ c \in DOMAIN journal' \ DOMAIN journal
    /\ journal'[c].kind = "compaction" /\ journal'[c].of = p /\ journal'[c].rev = r
    /\ journal'[c].status = "proposed" /\ journal'[c].meta = meta
    /\ \A i \in DOMAIN journal' \ DOMAIN journal :
           /\ p \in Nat /\ r \in Nat /\ MetaOK(meta, r) => RowOK(journal'[i])
           /\ journal'[i].of = p /\ (i # c => journal'[i].kind \in {"edit", "planned"})
           /\ journal'[i].kind = "planned" => i = c + 1 /\ journal'[i].rev = r

LEMMA BatchStarted ==
    ASSUME TypeOK, NEW p, NEW r, NEW notes, NEW meta, NEW claude, NEW decided, NEW seen, NEW E, NEW edits \in Seq(E),
           journal' = StartBatch(journal, p, r, notes, meta, claude, decided, seen, edits)
    PROVE  \E c \in Nat : AddsRevision(p, r, meta, c)
<1>. DEFINE n == Len(journal)
            k == Len(edits)
            X == CompactionRow(p, r, notes, meta)
            Y == PlannedRow(p, r, claude, decided, seen)
            B == [i \in 1 .. k |-> EditRow(p, edits[i])]
            S == Tab \cup {EditRow(p, edits[i]) : i \in 1 .. k} \cup {X, Y}
<1>1. journal \in Seq(Tab) /\ n \in Nat /\ DOMAIN journal = 1 .. n /\ k \in Nat
  BY TabIs, LenProperties DEF TypeOK
<1>2. journal \in Seq(S)
  BY <1>1, SeqMonotonic
<1>3. B \in Seq(S) /\ Len(B) = k
  <2>1. B \in [1 .. k -> S]
    OBVIOUS
  <2>2. B \in Seq(S)
    BY <1>1, <2>1, SeqDef
  <2>. QED
    BY <1>1, <2>2, LenProperties
<1>4. <<X, Y>> \in Seq(S) /\ Len(<<X, Y>>) = 2 /\ <<X, Y>>[1] = X /\ <<X, Y>>[2] = Y
  OBVIOUS
<1>5. journal' = (journal \o B) \o <<X, Y>>
  BY DEF StartBatch
<1>6. X = [kind |-> "compaction", of |-> p, rev |-> r, status |-> "proposed", notes |-> notes, meta |-> meta]
  BY DEF CompactionRow
<1>7. r \in Nat /\ MetaOK(meta, r) => IsRevision(X)
  BY <1>6 DEF IsRevision
<1>8. IsPlanned(Y) /\ Y.of = p /\ Y.kind = "planned" /\ Y.rev = r
  BY DEF PlannedRow, IsPlanned
<1>9. \A i \in 1 .. k : IsEdit(B[i]) /\ B[i].of = p /\ B[i].kind = "edit"
  BY DEF EditRow, IsEdit
<1>. HIDE DEF S, B, X, Y, n, k
<1>10. /\ journal \o B \in Seq(S) /\ Len(journal \o B) = n + k
       /\ \A i \in 1 .. n + k : (journal \o B)[i] = IF i <= n THEN journal[i] ELSE B[i - n]
  BY <1>2, <1>3, ConcatProperties DEF n
<1>11. /\ journal' \in Seq(S) /\ Len(journal') = n + k + 2
       /\ \A i \in 1 .. n + k + 2 :
            journal'[i] = IF i <= n + k THEN (journal \o B)[i] ELSE <<X, Y>>[i - (n + k)]
  BY <1>4, <1>5, <1>10, ConcatProperties
<1>12. DOMAIN journal' = 1 .. n + k + 2 /\ journal' = [i \in 1 .. n + k + 2 |-> journal'[i]]
  BY <1>11, LenProperties
<1>13. journal' \in Seq(Tab')
  BY <1>1, <1>12, TabStays
<1>14. \A i \in DOMAIN journal : i \in DOMAIN journal' /\ journal'[i] = journal[i]
  BY <1>1, <1>10, <1>11, <1>12
<1>15. \A i \in DOMAIN journal' \ DOMAIN journal :
         journal'[i] = IF i <= n + k THEN B[i - n] ELSE IF i = n + k + 1 THEN X ELSE Y
  <2>. SUFFICES ASSUME NEW i \in DOMAIN journal' \ DOMAIN journal
       PROVE  journal'[i] = IF i <= n + k THEN B[i - n] ELSE IF i = n + k + 1 THEN X ELSE Y
    OBVIOUS
  <2>1. i \in 1 .. n + k + 2 /\ i > n
    BY <1>1, <1>12
  <2>2. CASE i <= n + k
    BY <1>1, <1>10, <1>11, <2>1, <2>2
  <2>3. CASE i = n + k + 1
    <3>1. i - (n + k) = 1 /\ ~(i <= n + k)
      BY <1>1, <2>3
    <3>2. journal'[i] = <<X, Y>>[i - (n + k)]
      BY <1>11, <2>1, <3>1
    <3>. QED
      BY <1>4, <2>3, <3>1, <3>2
  <2>4. CASE i = n + k + 2
    <3>1. i - (n + k) = 2 /\ ~(i <= n + k) /\ i # n + k + 1
      BY <1>1, <2>4
    <3>2. journal'[i] = <<X, Y>>[i - (n + k)]
      BY <1>11, <2>1, <3>1
    <3>. QED
      BY <1>4, <3>1, <3>2
  <2>. QED
    BY <1>1, <2>1, <2>2, <2>3, <2>4
<1>16. n + k + 1 \in DOMAIN journal' \ DOMAIN journal /\ journal'[n + k + 1] = X
  BY <1>1, <1>12, <1>15
<1>17. \A i \in DOMAIN journal' \ DOMAIN journal : i <= n + k => i - n \in 1 .. k
  BY <1>1, <1>12
<1>18. \A i \in DOMAIN journal' \ DOMAIN journal :
         /\ p \in Nat /\ r \in Nat /\ MetaOK(meta, r) => RowOK(journal'[i])
         /\ journal'[i].of = p /\ (i # n + k + 1 => journal'[i].kind \in {"edit", "planned"})
  <2>1. /\ X.of = p
        /\ p \in Nat /\ r \in Nat /\ MetaOK(meta, r) => RowOK(X)
    BY <1>6, <1>7 DEF RowOK
  <2>2. p \in Nat => RowOK(Y) /\ \A i \in 1 .. k : RowOK(B[i])
    BY <1>8, <1>9 DEF RowOK
  <2>. QED
    BY <1>8, <1>9, <1>15, <1>17, <2>1, <2>2
<1>19. \A i \in DOMAIN journal' \ DOMAIN journal : journal'[i].kind = "planned" => i = n + k + 1 + 1 /\ journal'[i].rev = r
  <2>. SUFFICES ASSUME NEW i \in DOMAIN journal' \ DOMAIN journal, journal'[i].kind = "planned"
       PROVE  i = n + k + 1 + 1 /\ journal'[i].rev = r
    OBVIOUS
  <2>1. ~(i <= n + k)
    BY <1>9, <1>15, <1>17
  <2>2. i # n + k + 1
    BY <1>6, <1>16
  <2>3. journal'[i] = Y
    BY <1>15, <2>1, <2>2
  <2>4. i \in 1 .. n + k + 2
    BY <1>12
  <2>. QED
    BY <1>1, <1>8, <2>1, <2>2, <2>3, <2>4
<1>20. AddsRevision(p, r, meta, n + k + 1)
  <2>1. Len(journal') > Len(journal)
    BY <1>1, <1>11 DEF n
  <2>. QED
    BY <1>6, <1>13, <1>14, <1>16, <1>18, <1>19, <2>1 DEF AddsRevision
<1>21. n + k + 1 \in Nat
  BY <1>1
<1>. QED
  BY <1>20, <1>21

LEMMA RevisionAdded ==
    ASSUME TypeOK, RevisionsApart, AppliedIsNewest, NotAppliedOverFeedback,
           NEW p, NEW r \in Nat, NEW meta, NEW c, AddsRevision(p, r, meta, c),
           \A i \in RowsOf(journal, p, "compaction") : journal[i].rev < r /\ journal[i].status # "applying"
    PROVE  /\ (RevisionsApart /\ AppliedIsNewest /\ NotAppliedOverFeedback)'
           /\ c \in RowsOf(journal, p, "compaction")' /\ IsNewest(c)'
           /\ \A i \in CompactionRows(journal') : i = c \/ i \in CompactionRows(journal)
           /\ \A i \in CompactionRows(journal) : i \in CompactionRows(journal') /\ journal'[i] = journal[i]
<1>1. \A i \in CompactionRows(journal') : i = c \/ (i \in CompactionRows(journal) /\ journal'[i] = journal[i])
  BY DEF AddsRevision, CompactionRows
<1>2. \A i \in CompactionRows(journal) : /\ i \in CompactionRows(journal') /\ journal'[i] = journal[i]
                                         /\ journal[i].rev \in Nat /\ (journal[i].of = p => i \in RowsOf(journal, p, "compaction"))
  BY TabIs DEF AddsRevision, CompactionRows, RowsOf
<1>3. c \in RowsOf(journal, p, "compaction")' /\ c \in CompactionRows(journal') /\ c \notin CompactionRows(journal)
  BY DEF AddsRevision, RowsOf, CompactionRows
<1>4. journal'[c].of = p /\ journal'[c].rev = r /\ journal'[c].status = "proposed"
  BY DEF AddsRevision
<1>5. RevisionsApart'
  BY <1>1, <1>2, <1>3, <1>4 DEF RevisionsApart
<1>6. IsNewest(c)'
  BY <1>1, <1>2, <1>3, <1>4 DEF IsNewest
<1>7. AppliedIsNewest'
  BY <1>1, <1>2, <1>3, <1>4 DEF AppliedIsNewest, IsNewest
<1>8. NotAppliedOverFeedback'
  <2>. SUFFICES ASSUME NEW i \in CompactionRows(journal'), journal'[i].status = "applying",
                       NEW l \in OpenFeedback(journal', journal'[i].of)
       PROVE FALSE
    BY DEF NotAppliedOverFeedback
  <2>1. i \in CompactionRows(journal) /\ journal'[i] = journal[i]
    BY <1>1, <1>4
  <2>2. l \in DOMAIN journal' /\ journal'[l].kind = "feedback" /\ journal'[l].status = "open" /\ journal'[l].of = journal[i].of
    BY <2>1 DEF OpenFeedback, Feedback, RowsOf
  <2>3. l \in DOMAIN journal /\ journal'[l] = journal[l]
    BY <2>2, <1>3 DEF AddsRevision
  <2>. QED
    BY <2>1, <2>2, <2>3 DEF NotAppliedOverFeedback, OpenFeedback, Feedback, RowsOf
<1>. QED
  BY <1>1, <1>2, <1>3, <1>5, <1>6, <1>7, <1>8

\* The tab with an item of feedback at its end.
AddsFeedback(p, row) ==
    /\ journal' \in Seq(Tab') /\ Len(journal') = Len(journal) + 1
    /\ \A i \in DOMAIN journal : i \in DOMAIN journal' /\ journal'[i] = journal[i]
    /\ \A i \in DOMAIN journal' \ DOMAIN journal : i = Len(journal) + 1 /\ journal'[i] = row

LEMMA FeedbackAppended ==
    ASSUME TypeOK, NEW p \in Nat, NEW row, journal' = Append(journal, row)
    PROVE  AddsFeedback(p, row)
<1>. DEFINE n == Len(journal)
            S == Tab \cup {row}
<1>1. journal \in Seq(Tab) /\ n \in Nat /\ DOMAIN journal = 1 .. n
  BY TabIs DEF TypeOK
<1>2. journal \in Seq(S) /\ row \in S
  BY <1>1, SeqMonotonic
<1>3. journal' \in Seq(S) /\ Len(journal') = n + 1 /\ \A i \in 1 .. n : journal'[i] = journal[i]
  BY <1>2, AppendProperties
<1>4. journal'[n + 1] = row
  BY <1>2, AppendProperties
<1>5. DOMAIN journal' = 1 .. n + 1 /\ journal' = [i \in 1 .. n + 1 |-> journal'[i]]
  BY <1>3, LenProperties
<1>6. journal' \in Seq(Tab')
  BY <1>1, <1>5, TabStays
<1>7. \A i \in DOMAIN journal' \ DOMAIN journal : i = n + 1
  BY <1>1, <1>5
<1>. QED
  BY <1>1, <1>3, <1>4, <1>5, <1>6, <1>7 DEF AddsFeedback

----------------------------------------------------------------------------
(* A revision is written, and what it marks *)

UpTo(rows, k) == {l \in rows : l <= k}

LEMMA LaterHasMore ==
    ASSUME NEW rows, rows \subseteq Nat, IsFiniteSet(rows), NEW i \in rows, NEW j \in rows, i < j
    PROVE  Cardinality(UpTo(rows, i)) # Cardinality(UpTo(rows, j))
<1>1. i \in Nat /\ j \in Nat /\ \A k \in rows : k \in Nat
  OBVIOUS
<1>2. ~(j <= i) /\ j <= j
  BY <1>1
<1>3. \A k \in rows : k <= i => k <= j
  BY <1>1
<1>4. UpTo(rows, i) \in SUBSET UpTo(rows, j) /\ j \in UpTo(rows, j) /\ j \notin UpTo(rows, i)
  BY <1>2, <1>3 DEF UpTo
<1>5. IsFiniteSet(UpTo(rows, j))
  BY FS_Subset DEF UpTo
<1>. QED
  BY <1>4, <1>5, FS_Subset

LEMMA MarksOfIs ==
    ASSUME NEW rows, rows \subseteq Nat, IsFiniteSet(rows), NEW status \in MarkStatuses
    PROVE  /\ MarksOf(rows, status) \in Seq(Marks)
           /\ \A n \in DOMAIN MarksOf(rows, status) :
                MarksOf(rows, status)[n][1] \in rows /\ MarksOf(rows, status)[n][2] = status
           /\ \A i \in rows : \E n \in DOMAIN MarksOf(rows, status) : MarksOf(rows, status)[n] = <<i, status>>
<1>. DEFINE upTo(i) == {j \in rows : j <= i}
            rank == [i \in rows |-> Cardinality(upTo(i))]
            c == Cardinality(rows)
            nth(n) == CHOOSE i \in rows : Cardinality(upTo(i)) = n
            marks == [n \in 1 .. c |-> <<nth(n), status>>]
<1>1. c \in Nat /\ IsFiniteSet(1 .. c) /\ Cardinality(1 .. c) = c
  <2>1. c \in Nat
    BY FS_CardinalityType
  <2>. QED
    BY <2>1, FS_Interval
<1>2. \A i \in rows : IsFiniteSet(upTo(i)) /\ Cardinality(upTo(i)) \in Nat /\ Cardinality(upTo(i)) <= c
  BY FS_Subset, FS_CardinalityType
<1>3. \A i \in rows : rank[i] \in 1 .. c
  <2>. SUFFICES ASSUME NEW i \in rows PROVE Cardinality(upTo(i)) \in 1 .. c
    OBVIOUS
  <2>1. i \in upTo(i)
    OBVIOUS
  <2>2. Cardinality(upTo(i)) # 0
    BY <1>2, <2>1, FS_EmptySet
  <2>. QED
    BY <1>1, <1>2, <2>2
<1>4. \A i, j \in rows : rank[i] = rank[j] => i = j
  <2>1. ASSUME NEW i \in rows, NEW j \in rows, i < j PROVE rank[i] # rank[j]
    <3>1. Cardinality(UpTo(rows, i)) # Cardinality(UpTo(rows, j))
      BY <2>1, LaterHasMore
    <3>3. Cardinality(upTo(j)) # Cardinality(upTo(i))
      BY <3>1 DEF UpTo
    <3>4. rank[i] = Cardinality(upTo(i)) /\ rank[j] = Cardinality(upTo(j))
      OBVIOUS
    <3>. QED
      BY <3>3, <3>4
  <2>2. \A i, j \in rows : i < j \/ i = j \/ j < i
    OBVIOUS
  <2>. QED
    BY <2>1, <2>2
<1>5. rank \in Injection(rows, 1 .. c)
  <2>1. rank \in [rows -> 1 .. c]
    BY <1>3
  <2>. QED
    BY <1>4, <2>1 DEF Injection, IsInjective
<1>6. rank \in Surjection(rows, 1 .. c)
  BY <1>1, <1>5, FS_Injection
<1>7. \A n \in 1 .. c : \E i \in rows : Cardinality(upTo(i)) = n
  BY <1>6 DEF Surjection
<1>8. \A n \in 1 .. c : nth(n) \in rows /\ Cardinality(upTo(nth(n))) = n
  BY <1>7
<1>9. \A i \in rows : nth(rank[i]) = i
  <2>. SUFFICES ASSUME NEW i \in rows PROVE nth(rank[i]) = i
    OBVIOUS
  <2>1. nth(rank[i]) \in rows /\ Cardinality(upTo(nth(rank[i]))) = rank[i]
    BY <1>3, <1>8
  <2>. QED
    BY <1>4, <2>1
<1>10. MarksOf(rows, status) = marks
  BY DEF MarksOf
<1>. HIDE DEF nth, rank
<1>11. \A n \in 1 .. c : marks[n] \in Marks /\ marks[n][1] \in rows /\ marks[n][2] = status
  BY <1>8 DEF Marks
<1>12. marks \in Seq(Marks)
  <2>1. marks \in [1 .. c -> Marks]
    BY <1>11
  <2>. QED
    BY <1>1, <2>1, SeqDef
<1>13. \A i \in rows : rank[i] \in DOMAIN marks /\ marks[rank[i]] = <<i, status>>
  BY <1>3, <1>9
<1>. QED
  BY <1>10, <1>11, <1>12, <1>13

\* What was there when the revision was made from another is answered.
Answered(p, meta, marks) ==
    /\ \A n \in DOMAIN marks : marks[n][2] = "answered" =>
           marks[n][1] \in Feedback(journal, p) /\ meta.reason = "revised"
    /\ meta.reason \in RevisedReasons =>
           \A i \in OpenFeedback(journal, p) :
               journal[i].since >= meta.base \/ \E n \in DOMAIN marks : marks[n] = <<i, "answered">>

LEMMA RevisionWritten ==
    ASSUME ReviewInv, call.pc # "mark", stops' = stops, proposals' \in Nat, proposals <= proposals',
           NEW p \in Nat, p <= proposals', NEW r \in Nat, NEW notes, NEW meta, MetaOK(meta, r), NEW claude, NEW decided,
           NEW E, NEW edits \in Seq(E), NEW marks \in Seq(Marks), Answered(p, meta, marks),
           \A i \in RowsOf(journal, p, "compaction") : journal[i].rev < r /\ journal[i].status # "applying",
           Writes(p, r, notes, meta, claude, decided, edits, marks)
    PROVE  ReviewInv'
<1>0. TypeOK /\ RevisionsApart /\ AppliedIsNewest /\ NotAppliedOverFeedback /\ AllAnswered
  BY DEF ReviewInv
<1>1. PICK c \in Nat : AddsRevision(p, r, meta, c)
  <2>1. journal' = StartBatch(journal, p, r, notes, meta, claude, decided, cal, edits)
    BY DEF Writes
  <2>. QED
    BY <1>0, <2>1, BatchStarted
<1>2. /\ (RevisionsApart /\ AppliedIsNewest /\ NotAppliedOverFeedback)'
      /\ c \in RowsOf(journal, p, "compaction")' /\ IsNewest(c)'
      /\ \A i \in CompactionRows(journal') : i = c \/ i \in CompactionRows(journal)
      /\ \A i \in CompactionRows(journal) : i \in CompactionRows(journal') /\ journal'[i] = journal[i]
  BY <1>0, <1>1, RevisionAdded
<1>3. DOMAIN journal' = 1 .. Len(journal') /\ Len(journal') \in Nat /\ DOMAIN journal = 1 .. Len(journal) /\ Len(journal) \in Nat
  BY <1>0, <1>1, TabIs, LenProperties DEF AddsRevision
<1>4. /\ call' = [pc |-> call'.pc, kind |-> call'.kind, p |-> call'.p, row |-> call'.row, doomed |-> call'.doomed,
                 marks |-> call'.marks, ids |-> call'.ids]
      /\ call'.pc \in {"idle", "mark"} /\ call'.marks \in Seq(Marks) /\ call'.doomed = {}
      /\ marks # <<>> => call'.pc = "mark" /\ call'.p = p /\ call'.marks = marks
      /\ marks = <<>> => call'.pc = "idle" /\ DOMAIN marks = {}
  <2>1. CASE marks = <<>>
    BY <2>1, EmptySeq DEF Writes, Idle
  <2>2. CASE marks # <<>>
    <3>1. call' = [pc |-> "mark", kind |-> "none", p |-> p, row |-> 0, doomed |-> {}, marks |-> marks,
                   ids |-> [aliases |-> <<>>, settled |-> {}]]
      BY <2>2 DEF Writes, Idle
    <3>. QED
      BY <2>2, <3>1
  <2>. QED
    BY <2>1, <2>2
<1>5. TypeOK'
  <2>1. stops' \in Nat /\ journal' \in Seq(Tab')
    BY <1>0, <1>1 DEF TypeOK, AddsRevision
  <2>2. \A i \in DOMAIN journal' : RowOK(journal'[i]) /\ journal'[i].of <= proposals'
    <3>. SUFFICES ASSUME NEW i \in DOMAIN journal' PROVE RowOK(journal'[i]) /\ journal'[i].of <= proposals'
      OBVIOUS
    <3>1. CASE i \in DOMAIN journal
      <4>1. journal'[i] = journal[i]
        BY <1>1, <3>1 DEF AddsRevision
      <4>2. RowOK(journal[i]) /\ journal[i].of \in Nat /\ journal[i].of <= proposals /\ proposals \in Nat
        BY <1>0, <3>1, TabIs DEF TypeOK
      <4>. QED
        BY <4>1, <4>2
    <3>2. CASE i \notin DOMAIN journal
      BY <1>1, <3>2 DEF AddsRevision
    <3>. QED
      BY <3>1, <3>2
  <2>3. CallOK'
    BY <1>4 DEF CallOK
  <2>. QED
    BY <2>1, <2>2, <2>3 DEF TypeOK
<1>6. \A i \in DOMAIN journal' : journal'[i].kind = "feedback" => i \in DOMAIN journal /\ journal'[i] = journal[i]
  BY <1>1 DEF AddsRevision
<1>7. ConfirmReady' /\ ApplyHolds' /\ FailFirst'
  BY <1>4 DEF ConfirmReady, ApplyHolds, FailFirst
<1>8. Answering'
  <2>. SUFFICES ASSUME call'.pc = "mark", NEW n \in DOMAIN call'.marks, call'.marks[n][2] = "answered"
       PROVE  /\ call'.marks[n][1] \in Feedback(journal, call.p)'
              /\ c \in RowsOf(journal, call.p, "compaction")'
              /\ IsNewest(c)' /\ c > call'.marks[n][1] /\ journal'[c].meta.reason = "revised"
    BY DEF Answering
  <2>1. call'.p = p /\ call'.marks = marks
    BY <1>4
  <2>2. marks[n][1] \in Feedback(journal, p) /\ meta.reason = "revised"
    BY <2>1 DEF Answered
  <2>3. marks[n][1] \in DOMAIN journal /\ marks[n][1] \in Feedback(journal', p)
    BY <1>1, <2>2 DEF AddsRevision, Feedback, RowsOf
  <2>4. c \in DOMAIN journal' \ DOMAIN journal /\ journal'[c].meta = meta
    BY <1>1 DEF AddsRevision
  <2>5. c > marks[n][1]
    BY <1>3, <2>3, <2>4
  <2>. QED
    BY <1>2, <2>1, <2>2, <2>3, <2>4, <2>5
<1>9. AllAnswered'
  <2>. SUFFICES ASSUME stops = 0, NEW i \in DOMAIN journal', NEW j \in CompactionRows(journal'),
                       journal'[i].kind = "feedback", journal'[i].status = "open",
                       journal'[j].of = journal'[i].of, journal'[j].meta.reason \in RevisedReasons
       PROVE  journal'[i].since >= journal'[j].meta.base \/ ToBeAnswered(i)'
    BY DEF AllAnswered
  <2>1. i \in DOMAIN journal /\ journal'[i] = journal[i]
    BY <1>6
  <2>2. CASE j \in CompactionRows(journal)
    BY <1>0, <1>2, <2>1, <2>2 DEF AllAnswered, ToBeAnswered
  <2>3. CASE j = c
    <3>1. i \in OpenFeedback(journal, p) /\ meta.reason \in RevisedReasons /\ journal'[j].meta = meta
      BY <1>1, <2>1, <2>3 DEF AddsRevision, OpenFeedback, Feedback, RowsOf
    <3>2. journal[i].since >= meta.base \/ \E n \in DOMAIN marks : marks[n] = <<i, "answered">>
      BY <3>1 DEF Answered
    <3>. QED
      BY <1>4, <2>1, <3>1, <3>2 DEF ToBeAnswered
  <2>. QED
    BY <1>2, <2>2, <2>3
<1>. QED
  BY <1>2, <1>5, <1>7, <1>8, <1>9 DEF ReviewInv

----------------------------------------------------------------------------
(* The marks of a revision *)

LEMMA ConcatMarks ==
    ASSUME NEW s \in Seq(Marks), NEW t \in Seq(Marks)
    PROVE  /\ s \o t \in Seq(Marks)
           /\ \A n \in DOMAIN (s \o t) : (\E k \in DOMAIN s : (s \o t)[n] = s[k]) \/ (\E k \in DOMAIN t : (s \o t)[n] = t[k])
           /\ \A k \in DOMAIN s : \E n \in DOMAIN (s \o t) : (s \o t)[n] = s[k]
           /\ \A k \in DOMAIN t : \E n \in DOMAIN (s \o t) : (s \o t)[n] = t[k]
<1>1. /\ s \o t \in Seq(Marks) /\ Len(s \o t) = Len(s) + Len(t)
      /\ \A i \in 1 .. Len(s) + Len(t) : (s \o t)[i] = IF i <= Len(s) THEN s[i] ELSE t[i - Len(s)]
  BY ConcatProperties
<1>2. /\ Len(s) \in Nat /\ DOMAIN s = 1 .. Len(s) /\ Len(t) \in Nat /\ DOMAIN t = 1 .. Len(t)
      /\ DOMAIN (s \o t) = 1 .. Len(s) + Len(t)
  BY <1>1, LenProperties
<1>. DEFINE u == s \o t
<1>. HIDE DEF u
<1>3. \A n \in DOMAIN u : (\E k \in DOMAIN s : u[n] = s[k]) \/ (\E k \in DOMAIN t : u[n] = t[k])
  <2>. SUFFICES ASSUME NEW n \in DOMAIN u PROVE (\E k \in DOMAIN s : u[n] = s[k]) \/ (\E k \in DOMAIN t : u[n] = t[k])
    OBVIOUS
  <2>1. CASE n <= Len(s)
    BY <1>1, <1>2, <2>1 DEF u
  <2>2. CASE ~(n <= Len(s))
    <3>1. n - Len(s) \in DOMAIN t /\ u[n] = t[n - Len(s)]
      BY <1>1, <1>2, <2>2 DEF u
    <3>. QED
      BY <3>1
  <2>. QED
    BY <2>1, <2>2
<1>4. \A k \in DOMAIN s : k \in DOMAIN u /\ u[k] = s[k]
  BY <1>1, <1>2 DEF u
<1>5. \A k \in DOMAIN t : \E n \in DOMAIN u : u[n] = t[k]
  <2>. SUFFICES ASSUME NEW k \in DOMAIN t PROVE \E n \in DOMAIN u : u[n] = t[k]
    OBVIOUS
  <2>1. k + Len(s) \in DOMAIN u /\ u[k + Len(s)] = t[k]
    BY <1>1, <1>2 DEF u
  <2>. QED
    BY <2>1
<1>. QED
  BY <1>1, <1>3, <1>4, <1>5 DEF u

\* Rows of the tab are a finite set of numbers.
LEMMA RowsAreFinite ==
    ASSUME TypeOK, NEW rows, rows \subseteq DOMAIN journal
    PROVE  rows \subseteq Nat /\ IsFiniteSet(rows)
<1>1. IsFiniteSet(DOMAIN journal) /\ DOMAIN journal \subseteq Nat
  BY TabIs, FS_Interval
<1>. QED
  BY <1>1, FS_Subset

\* Just the replies are marked answered, each of them.
AnswersJust(marks, replies) ==
    /\ marks \in Seq(Marks)
    /\ \A n \in DOMAIN marks : marks[n][2] = "answered" => marks[n][1] \in replies
    /\ \A i \in replies : \E n \in DOMAIN marks : marks[n] = <<i, "answered">>

LEMMA MarksAfterIs ==
    ASSUME TypeOK, NEW p, NEW current \in DOMAIN journal, NEW replies, replies \subseteq DOMAIN journal,
           NEW replaced, replaced \subseteq DOMAIN journal, NEW merged
    PROVE  AnswersJust(MarksAfter(p, current, replies, replaced, merged), replies)
<1>. DEFINE A == Superseding(current)
            B == MarksOf(replies, "answered")
            C == MarksOf(replaced, "replaced")
            D == MarksOf(UnknownRows(p, merged) \ replaced, "inapplicable")
            marks == MarksAfter(p, current, replies, replaced, merged)
<1>1. A \in Seq(Marks) /\ \A n \in DOMAIN A : A[n][2] # "answered"
  <2>1. current \in Nat
    BY TabIs
  <2>2. <<current, "superseded">> \in Marks
    BY <2>1 DEF Marks, MarkStatuses
  <2>. QED
    BY <2>2 DEF Superseding
<1>2. /\ B \in Seq(Marks) /\ \A n \in DOMAIN B : B[n][1] \in replies
      /\ \A i \in replies : \E n \in DOMAIN B : B[n] = <<i, "answered">>
  BY RowsAreFinite, MarksOfIs DEF MarkStatuses
<1>3. C \in Seq(Marks) /\ \A n \in DOMAIN C : C[n][2] # "answered"
  BY RowsAreFinite, MarksOfIs DEF MarkStatuses
<1>4. D \in Seq(Marks) /\ \A n \in DOMAIN D : D[n][2] # "answered"
  <2>1. UnknownRows(p, merged) \ replaced \subseteq DOMAIN journal
    BY DEF UnknownRows, RowsOf
  <2>. QED
    BY <2>1, RowsAreFinite, MarksOfIs DEF MarkStatuses
<1>5. marks = ((A \o B) \o C) \o D
  BY DEF MarksAfter
<1>. HIDE DEF A, B, C, D
<1>. DEFINE AB == A \o B
            ABC == AB \o C
            ABCD == ABC \o D
<1>6. /\ AB \in Seq(Marks) /\ \A n \in DOMAIN AB : AB[n][2] = "answered" => AB[n][1] \in replies
      /\ \A i \in replies : \E n \in DOMAIN AB : AB[n] = <<i, "answered">>
  <2>1. /\ AB \in Seq(Marks)
        /\ \A n \in DOMAIN AB : (\E k \in DOMAIN A : AB[n] = A[k]) \/ (\E k \in DOMAIN B : AB[n] = B[k])
        /\ \A k \in DOMAIN A : \E n \in DOMAIN AB : AB[n] = A[k]
        /\ \A k \in DOMAIN B : \E n \in DOMAIN AB : AB[n] = B[k]
    BY <1>1, <1>2, ConcatMarks
  <2>. HIDE DEF AB
  <2>. QED
    BY <2>1, <1>1, <1>2
<1>. HIDE DEF AB
<1>7. /\ ABC \in Seq(Marks) /\ \A n \in DOMAIN ABC : ABC[n][2] = "answered" => ABC[n][1] \in replies
      /\ \A i \in replies : \E n \in DOMAIN ABC : ABC[n] = <<i, "answered">>
  <2>1. /\ ABC \in Seq(Marks)
        /\ \A n \in DOMAIN ABC : (\E k \in DOMAIN AB : ABC[n] = AB[k]) \/ (\E k \in DOMAIN C : ABC[n] = C[k])
        /\ \A k \in DOMAIN AB : \E n \in DOMAIN ABC : ABC[n] = AB[k]
        /\ \A k \in DOMAIN C : \E n \in DOMAIN ABC : ABC[n] = C[k]
    BY <1>6, <1>3, ConcatMarks
  <2>. HIDE DEF ABC
  <2>. QED
    BY <2>1, <1>6, <1>3
<1>. HIDE DEF ABC
<1>8. /\ ABCD \in Seq(Marks) /\ \A n \in DOMAIN ABCD : ABCD[n][2] = "answered" => ABCD[n][1] \in replies
      /\ \A i \in replies : \E n \in DOMAIN ABCD : ABCD[n] = <<i, "answered">>
  <2>1. /\ ABCD \in Seq(Marks)
        /\ \A n \in DOMAIN ABCD : (\E k \in DOMAIN ABC : ABCD[n] = ABC[k]) \/ (\E k \in DOMAIN D : ABCD[n] = D[k])
        /\ \A k \in DOMAIN ABC : \E n \in DOMAIN ABCD : ABCD[n] = ABC[k]
        /\ \A k \in DOMAIN D : \E n \in DOMAIN ABCD : ABCD[n] = D[k]
    BY <1>7, <1>4, ConcatMarks
  <2>. HIDE DEF ABCD
  <2>. QED
    BY <2>1, <1>7, <1>4
<1>9. marks = ABCD
  BY <1>5 DEF AB, ABC
<1>. HIDE DEF ABCD, marks
<1>10. /\ marks \in Seq(Marks)
       /\ \A n \in DOMAIN marks : marks[n][2] = "answered" => marks[n][1] \in replies
       /\ \A i \in replies : \E n \in DOMAIN marks : marks[n] = <<i, "answered">>
  BY <1>8, <1>9
<1>11. AnswersJust(marks, replies)
  BY <1>10 DEF AnswersJust
<1>. QED
  BY <1>11 DEF marks

----------------------------------------------------------------------------
(* Each step *)

\* The tab and the call left as they are.
LEMMA NothingChanges ==
    ASSUME ReviewInv, UNCHANGED <<journal, call, proposals, stops>>
    PROVE  ReviewInv'
<1>1. TypeOK'
  BY DEF ReviewInv, TypeOK, CallOK, Tab
<1>2. (RevisionsApart /\ AppliedIsNewest /\ NotAppliedOverFeedback)'
  BY DEF ReviewInv, RevisionsApart, AppliedIsNewest, IsNewest, NotAppliedOverFeedback
<1>3. (ConfirmReady /\ ApplyHolds /\ FailFirst)'
  BY DEF ReviewInv, ConfirmReady, ApplyHolds, FailFirst, IsNewest, Ready, NoneApplying
<1>4. Answering'
  BY DEF ReviewInv, Answering, IsNewest
<1>5. AllAnswered'
  BY DEF ReviewInv, AllAnswered, ToBeAnswered
<1>. QED
  BY <1>1, <1>2, <1>3, <1>4, <1>5 DEF ReviewInv

\* The tab left as it is, and the call to something it's as yet to mark.
LEMMA TabKept ==
    ASSUME ReviewInv, UNCHANGED <<journal, proposals>>, stops' \in Nat, CallOK',
           stops' = stops => call.pc # "mark" , stops' # stops => stops' # 0
    PROVE  /\ (TypeOK /\ RevisionsApart /\ AppliedIsNewest /\ NotAppliedOverFeedback)'
           /\ AllAnswered'
<1>1. TypeOK'
  BY DEF ReviewInv, TypeOK, Tab
<1>2. (RevisionsApart /\ AppliedIsNewest /\ NotAppliedOverFeedback)'
  BY DEF ReviewInv, RevisionsApart, AppliedIsNewest, IsNewest, NotAppliedOverFeedback
<1>3. AllAnswered'
  BY DEF ReviewInv, AllAnswered, ToBeAnswered
<1>. QED
  BY <1>1, <1>2, <1>3

LEMMA IdleIs ==
    /\ Idle = [pc |-> Idle.pc, kind |-> Idle.kind, p |-> Idle.p, row |-> Idle.row, doomed |-> Idle.doomed,
               marks |-> Idle.marks, ids |-> Idle.ids]
    /\ Idle.pc = "idle" /\ Idle.marks \in Seq(Marks) /\ Idle.marks = <<>> /\ Idle.doomed = {}
BY DEF Idle

LEMMA CallEnds ==
    ASSUME call' = Idle
    PROVE  CallOK' /\ ConfirmReady' /\ ApplyHolds' /\ FailFirst' /\ Answering' /\ call'.pc = "idle"
<1>1. call'.pc = "idle"
  BY IdleIs
<1>2. CallOK'
  BY IdleIs DEF CallOK
<1>. QED
  BY <1>1, <1>2 DEF ConfirmReady, ApplyHolds, FailFirst, Answering

LEMMA NothingToDoKeeps ==
    ASSUME ReviewInv, NothingToDo
    PROVE  ReviewInv'
<1>1. call.pc = "collect" /\ call' = Idle /\ UNCHANGED <<journal, proposals, stops>>
  BY DEF NothingToDo
<1>2. CallOK' /\ ConfirmReady' /\ ApplyHolds' /\ FailFirst' /\ Answering'
  BY <1>1, CallEnds
<1>3. stops' \in Nat
  BY <1>1 DEF ReviewInv, TypeOK
<1>. QED
  BY <1>1, <1>2, <1>3, TabKept DEF ReviewInv

LEMMA CallStopsKeeps ==
    ASSUME ReviewInv, CallStops
    PROVE  ReviewInv'
<1>1. call' = Idle /\ UNCHANGED <<journal, proposals>> /\ stops' = stops + 1
  BY DEF CallStops
<1>2. CallOK' /\ ConfirmReady' /\ ApplyHolds' /\ FailFirst' /\ Answering'
  BY <1>1, CallEnds
<1>3. stops' \in Nat /\ stops' # 0 /\ stops' # stops
  BY <1>1 DEF ReviewInv, TypeOK
<1>. QED
  BY <1>1, <1>2, <1>3, TabKept DEF ReviewInv

LEMMA CollectKeeps ==
    ASSUME ReviewInv, NEW kind, Collect(kind)
    PROVE  ReviewInv'
<1>. DEFINE p == OpenProposal(journal)
<1>1. /\ call.pc = "idle" /\ UNCHANGED <<journal, proposals, stops>>
      /\ call' = [Idle EXCEPT !.pc = "collect", !.kind = kind, !.p = p, !.doomed = Doomed(journal)]
      /\ kind = "confirm" => Confirmable(p)
  BY IdleIs DEF Collect, MayCall, budgets
<1>2. /\ call' = [pc |-> "collect", kind |-> kind, p |-> p, row |-> 0, doomed |-> Doomed(journal), marks |-> <<>>,
                 ids |-> [aliases |-> <<>>, settled |-> {}]]
  BY <1>1 DEF Idle
<1>3. /\ call'.pc = "collect" /\ call'.kind = kind /\ call'.p = p /\ call'.doomed = Doomed(journal)
      /\ call'.marks = <<>>
  BY <1>2
<1>4. Doomed(journal) \subseteq DOMAIN journal /\ Doomed(journal) \cap RowsOf(journal, p, "compaction") = {}
  BY DoomedIsNotOpen DEF ReviewInv
<1>. HIDE DEF p
<1>5. CallOK'
  <2>1. call'.doomed \subseteq DOMAIN journal'
    BY <1>1, <1>3, <1>4
  <2>2. call'.marks \in Seq(Marks)
    BY <1>3
  <2>3. call' = [pc |-> call'.pc, kind |-> call'.kind, p |-> call'.p, row |-> call'.row, doomed |-> call'.doomed,
                 marks |-> call'.marks, ids |-> call'.ids]
    BY <1>2
  <2>. QED
    BY <1>3, <2>1, <2>2, <2>3 DEF CallOK
<1>6. stops' \in Nat
  BY <1>1 DEF ReviewInv, TypeOK
<1>7. ConfirmReady'
  <2>1. CASE kind = "confirm"
    <3>1. OpenProposal(journal) # 0 /\ OpenFeedback(journal, p) = {} /\ NoneApplying
      BY <1>1, <2>1 DEF Confirmable, p
    <3>2. RowsOf(journal, p, "compaction") # {}
      BY <3>1, OpenIsThere DEF ReviewInv, p
    <3>. QED
      BY <1>1, <1>3, <1>4, <3>1, <3>2 DEF ConfirmReady, Ready, NoneApplying
  <2>2. CASE kind # "confirm"
    BY <1>3, <2>2 DEF ConfirmReady
  <2>. QED
    BY <2>1, <2>2
<1>8. (ApplyHolds /\ FailFirst /\ Answering)'
  BY <1>3 DEF ApplyHolds, FailFirst, Answering
<1>. QED
  BY <1>1, <1>5, <1>6, <1>7, <1>8, TabKept DEF ReviewInv

LEMMA FinishKeeps ==
    ASSUME ReviewInv, NEW p \in Proposals(journal), Finish(p)
    PROVE  ReviewInv'
<1>. DEFINE i == Current(p)
<1>1. /\ call.pc = "idle" /\ UNCHANGED <<journal, proposals, stops>>
      /\ call' = [Idle EXCEPT !.pc = "apply", !.p = p, !.row = i]
      /\ journal[i].status = "applying"
  BY IdleIs DEF Finish, MayCall, ApplyingStatuses
<1>2. RowsOf(journal, p, "compaction") # {}
  BY DEF Proposals, RowsOf, CompactionRows
<1>3. i \in RowsOf(journal, p, "compaction") /\ IsNewest(i)
  BY <1>2, NewestIs DEF ReviewInv, Current
<1>. HIDE DEF i
<1>4. call' = [pc |-> "apply", kind |-> "none", p |-> p, row |-> i, doomed |-> {}, marks |-> <<>>,
               ids |-> [aliases |-> <<>>, settled |-> {}]]
  BY <1>1 DEF Idle
<1>5. CallOK'
  BY <1>4 DEF CallOK
<1>6. stops' \in Nat
  BY <1>1 DEF ReviewInv, TypeOK
<1>7. ApplyHolds'
  BY <1>1, <1>3, <1>4 DEF ApplyHolds, IsNewest
<1>8. (ConfirmReady /\ FailFirst /\ Answering)'
  BY <1>4 DEF ConfirmReady, FailFirst, Answering
<1>. QED
  BY <1>1, <1>5, <1>6, <1>7, <1>8, TabKept DEF ReviewInv

LEMMA ApplyFailsKeeps ==
    ASSUME ReviewInv, ApplyFails
    PROVE  ReviewInv'
<1>0. PICK ids : call' = [call EXCEPT !.pc = "fail", !.marks = <<<<call.row, "failed">>>>, !.ids = ids]
  BY Zenon DEF ApplyFails
<1>1. call.pc = "apply" /\ UNCHANGED <<journal, proposals, stops>>
  BY DEF ApplyFails, budgets
<1>2. CallOK /\ ApplyHolds
  BY DEF ReviewInv, TypeOK
<1>3. call' = [pc |-> "fail", kind |-> call.kind, p |-> call.p, row |-> call.row, doomed |-> call.doomed,
               marks |-> <<<<call.row, "failed">>>>, ids |-> ids]
  BY <1>0, <1>2 DEF CallOK
<1>4. call.row \in RowsOf(journal, call.p, "compaction") /\ IsNewest(call.row)
  BY <1>1, <1>2 DEF ApplyHolds
<1>5. call.row \in Nat
  BY <1>4, TabIs DEF ReviewInv, RowsOf
<1>6. <<<<call.row, "failed">>>> \in Seq(Marks) /\ DOMAIN <<<<call.row, "failed">>>> = {1}
  BY <1>5 DEF Marks, MarkStatuses
<1>7. CallOK'
  BY <1>1, <1>2, <1>3, <1>6 DEF CallOK
<1>8. stops' \in Nat
  BY <1>1 DEF ReviewInv, TypeOK
<1>9. ApplyHolds'
  BY <1>1, <1>3, <1>4 DEF ApplyHolds, IsNewest
<1>10. FailFirst'
  BY <1>3, <1>6 DEF FailFirst
<1>11. (ConfirmReady /\ Answering)'
  BY <1>3 DEF ConfirmReady, Answering
<1>. QED
  BY <1>1, <1>7, <1>8, <1>9, <1>10, <1>11, TabKept DEF ReviewInv

\* What a row's new status leaves as it was.
LEMMA RestatesKeep ==
    ASSUME TypeOK, NEW i, NEW status, Restates(i, status)
    PROVE  /\ DOMAIN journal' = DOMAIN journal
           /\ \A k \in DOMAIN journal : RowOK(journal'[k]) /\ Kept(journal[k], journal'[k])
           /\ CompactionRows(journal') = CompactionRows(journal)
           /\ \A q, kind : RowsOf(journal', q, kind) = RowsOf(journal, q, kind)
           /\ \A k \in CompactionRows(journal) : IsNewest(k) => IsNewest(k)'
           /\ \A k \in DOMAIN journal : k # i => journal'[k] = journal[k]
           /\ i \in DOMAIN journal /\ journal[i].kind \in {"compaction", "edit", "feedback"} => journal'[i].status = status
<1>1. DOMAIN journal' = DOMAIN journal
  BY DEF Restates
<1>2. \A k \in DOMAIN journal : RowOK(journal'[k]) /\ Kept(journal[k], journal'[k])
  <2>. SUFFICES ASSUME NEW k \in DOMAIN journal PROVE RowOK(journal'[k]) /\ Kept(journal[k], journal'[k])
    OBVIOUS
  <2>1. CASE k = i
    BY <2>1 DEF Restates, Restated
  <2>2. CASE k # i
    <3>1. journal'[k] = journal[k] /\ RowOK(journal[k])
      BY <2>2, TabIs DEF Restates
    <3>. QED
      BY <3>1 DEF Kept
  <2>. QED
    BY <2>1, <2>2
<1>3. CompactionRows(journal') = CompactionRows(journal)
  BY <1>1, <1>2 DEF CompactionRows, Kept
<1>4. \A q, kind : RowsOf(journal', q, kind) = RowsOf(journal, q, kind)
  BY <1>1, <1>2 DEF RowsOf, Kept
<1>5. \A k \in CompactionRows(journal) : IsNewest(k) => IsNewest(k)'
  <2>1. \A k \in CompactionRows(journal) : journal'[k].of = journal[k].of /\ journal'[k].rev = journal[k].rev
    BY <1>2 DEF CompactionRows, Kept
  <2>. QED
    BY <1>3, <2>1 DEF IsNewest
<1>6. \A k \in DOMAIN journal : k # i => journal'[k] = journal[k]
  BY DEF Restates
<1>7. i \in DOMAIN journal /\ journal[i].kind \in {"compaction", "edit", "feedback"} => journal'[i].status = status
  BY DEF Restates, Restated
<1>. QED
  BY <1>1, <1>2, <1>3, <1>4, <1>5, <1>6, <1>7

LEMMA RestatedType ==
    ASSUME TypeOK, NEW i, NEW status, Restates(i, status), CallOK', UNCHANGED <<proposals, stops>>
    PROVE  TypeOK'
<1>1. journal' \in Seq(Tab')
  BY DEF Restates
<1>2. \A k \in DOMAIN journal' : RowOK(journal'[k]) /\ journal'[k].of <= proposals'
  <2>1. \A k \in DOMAIN journal : RowOK(journal'[k]) /\ Kept(journal[k], journal'[k]) /\ journal[k].of <= proposals
    BY RestatesKeep, TabIs
  <2>. QED
    BY <2>1, RestatesKeep DEF Kept
<1>. QED
  BY <1>1, <1>2 DEF TypeOK

LEMMA RestatedAnswers ==
    ASSUME TypeOK, AllAnswered, NEW i, NEW status, Restates(i, status), status # "open", stops' = stops,
           \A k \in DOMAIN journal : ToBeAnswered(k) => ToBeAnswered(k)' \/ k = i
    PROVE  AllAnswered'
<1>. SUFFICES ASSUME stops = 0, NEW k \in DOMAIN journal', NEW j \in CompactionRows(journal'),
                     journal'[k].kind = "feedback", journal'[k].status = "open",
                     journal'[j].of = journal'[k].of, journal'[j].meta.reason \in RevisedReasons
     PROVE  journal'[k].since >= journal'[j].meta.base \/ ToBeAnswered(k)'
  BY DEF AllAnswered
<1>1. k \in DOMAIN journal /\ j \in CompactionRows(journal) /\ j \in DOMAIN journal /\ journal[j].kind = "compaction"
  BY RestatesKeep DEF CompactionRows
<1>2. Kept(journal[k], journal'[k]) /\ Kept(journal[j], journal'[j])
  BY <1>1, RestatesKeep
<1>3. journal[k].kind = "feedback" /\ k # i
  BY <1>1, <1>2, RestatesKeep DEF Kept
<1>4. journal'[k] = journal[k]
  BY <1>1, <1>3, RestatesKeep
<1>5. journal[j].of = journal[k].of /\ journal'[j].meta = journal[j].meta
  BY <1>1, <1>2, <1>4 DEF Kept
<1>6. journal[k].since >= journal[j].meta.base \/ ToBeAnswered(k)
  BY <1>1, <1>3, <1>4, <1>5 DEF AllAnswered
<1>. QED
  BY <1>1, <1>3, <1>4, <1>5, <1>6

LEMMA WithdrawKeeps ==
    ASSUME ReviewInv, NEW i, Withdraw(i) \/ Abandon(i)
    PROVE  ReviewInv'
<1>1. call.pc = "idle" /\ UNCHANGED <<call, proposals, stops>>
  BY IdleIs DEF Withdraw, Abandon, MayCall
<1>2. PICK status \in {"withdrawn", "abandoned"} : journal' = [journal EXCEPT ![i].status = status]
  BY DEF Withdraw, Abandon
<1>3. Restates(i, status)
  BY <1>2, RestatesByExcept DEF ReviewInv
<1>4. (RevisionsApart /\ AppliedIsNewest /\ NotAppliedOverFeedback)'
  BY <1>3, RestatesInherit DEF ReviewInv
<1>5. CallOK'
  BY <1>1, <1>3 DEF ReviewInv, TypeOK, CallOK, Restates
<1>6. TypeOK'
  BY <1>1, <1>3, <1>5, RestatedType DEF ReviewInv
<1>7. AllAnswered'
  <2>1. \A k \in DOMAIN journal : ~ToBeAnswered(k)
    BY <1>1 DEF ToBeAnswered
  <2>. QED
    BY <1>1, <1>3, <2>1, RestatedAnswers DEF ReviewInv
<1>8. (ConfirmReady /\ ApplyHolds /\ FailFirst /\ Answering)'
  BY <1>1 DEF ConfirmReady, ApplyHolds, FailFirst, Answering
<1>. QED
  BY <1>4, <1>6, <1>7, <1>8 DEF ReviewInv

LEMMA ApplyEndsKeeps ==
    ASSUME ReviewInv, ApplyEnds
    PROVE  ReviewInv'
<1>1. /\ call.pc = "apply" /\ call' = Idle /\ UNCHANGED <<proposals, stops>>
      /\ journal' = [journal EXCEPT ![call.row].status = "stamped"]
  BY DEF ApplyEnds, budgets
<1>3. Restates(call.row, "stamped")
  BY <1>1, RestatesByExcept DEF ReviewInv
<1>4. (RevisionsApart /\ AppliedIsNewest /\ NotAppliedOverFeedback)'
  BY <1>3, RestatesInherit DEF ReviewInv
<1>5. CallOK' /\ ConfirmReady' /\ ApplyHolds' /\ FailFirst' /\ Answering'
  BY <1>1, CallEnds
<1>6. TypeOK'
  BY <1>1, <1>3, <1>5, RestatedType DEF ReviewInv
<1>7. AllAnswered'
  <2>1. \A k \in DOMAIN journal : ~ToBeAnswered(k)
    BY <1>1 DEF ToBeAnswered
  <2>. QED
    BY <1>1, <1>3, <2>1, RestatedAnswers DEF ReviewInv
<1>. QED
  BY <1>4, <1>5, <1>6, <1>7 DEF ReviewInv

\* What a confirm goes on with is as it was found.
LEMMA ConfirmingIsReady ==
    ASSUME ReviewInv, Collected("confirm")
    PROVE  /\ Ready(Confirming) /\ call.pc \in {"idle", "collect"}
           /\ Current(Confirming) \in RowsOf(journal, Confirming, "compaction") /\ IsNewest(Current(Confirming))
           /\ \A i \in RowsOf(journal, Confirming, "compaction") : journal[i].status # "applying"
           /\ Confirming \in Nat /\ Confirming <= proposals
<1>1. Ready(Confirming) /\ call.pc \in {"idle", "collect"}
  <2>1. CASE call.pc = "collect"
    <3>1. call # Idle
      BY <2>1, IdleIs
    <3>2. call.kind = "confirm"
      BY <2>1, <3>1 DEF Collected, MayCall
    <3>. QED
      BY <2>1, <3>2 DEF ReviewInv, ConfirmReady, Confirming
  <2>2. CASE call.pc # "collect"
    <3>1. Confirmable(OpenProposal(journal)) /\ call.pc = "idle"
      BY <2>2, IdleIs DEF Collected, MayCall
    <3>2. RowsOf(journal, OpenProposal(journal), "compaction") # {}
      BY <3>1, OpenIsThere DEF ReviewInv, Confirmable
    <3>. QED
      BY <2>2, <3>1, <3>2 DEF Confirming, Ready, Confirmable
  <2>. QED
    BY <2>1, <2>2
<1>2. Current(Confirming) \in RowsOf(journal, Confirming, "compaction") /\ IsNewest(Current(Confirming))
  BY <1>1, NewestIs DEF Ready, Current, ReviewInv
<1>3. \A i \in RowsOf(journal, Confirming, "compaction") : journal[i].status # "applying"
  BY <1>1 DEF Ready, NoneApplying, RowsOf, CompactionRows, ApplyingStatuses
<1>4. Confirming \in Nat /\ Confirming <= proposals
  BY <1>2, TabIs DEF ReviewInv, RowsOf
<1>. QED
  BY <1>1, <1>2, <1>3, <1>4

LEMMA ConfirmAppliesKeeps ==
    ASSUME ReviewInv, ConfirmApplies
    PROVE  ReviewInv'
<1>. DEFINE p == Confirming
            i == Current(p)
<1>1. /\ Collected("confirm") /\ UNCHANGED <<proposals, stops>>
      /\ journal' = [journal EXCEPT ![i].status = "applying"]
      /\ call' = [Idle EXCEPT !.pc = "apply", !.p = p, !.row = i]
  BY DEF ConfirmApplies
<1>2. /\ Ready(p) /\ call.pc \in {"idle", "collect"}
      /\ i \in RowsOf(journal, p, "compaction") /\ IsNewest(i)
  BY <1>1, ConfirmingIsReady
<1>. HIDE DEF i, p
<1>3. Restates(i, "applying") /\ TypeOK
  BY <1>1, RestatesByExcept DEF ReviewInv
<1>4. /\ DOMAIN journal' = DOMAIN journal /\ CompactionRows(journal') = CompactionRows(journal)
      /\ \A k \in CompactionRows(journal) : journal'[k].of = journal[k].of /\ journal'[k].rev = journal[k].rev
      /\ \A q, kind : RowsOf(journal', q, kind) = RowsOf(journal, q, kind)
      /\ \A k \in CompactionRows(journal) : IsNewest(k) => IsNewest(k)'
      /\ \A k \in DOMAIN journal : k # i => journal'[k] = journal[k]
      /\ i \in CompactionRows(journal) /\ journal'[i].status = "applying" /\ journal[i].of = p
  BY <1>2, <1>3, RestatesKeep DEF Kept, CompactionRows, RowsOf
<1>5. \A k \in CompactionRows(journal) : k # i => journal'[k].status # "applying"
  BY <1>2, <1>4 DEF Ready, NoneApplying, ApplyingStatuses, CompactionRows
<1>6. RevisionsApart'
  BY <1>4 DEF ReviewInv, RevisionsApart
<1>7. AppliedIsNewest'
  BY <1>2, <1>4, <1>5 DEF AppliedIsNewest
<1>8. NotAppliedOverFeedback'
  <2>1. \A l \in Feedback(journal', p) : l # i /\ l \in Feedback(journal, p) /\ journal'[l] = journal[l]
    BY <1>4 DEF Feedback, RowsOf, CompactionRows
  <2>2. OpenFeedback(journal', p) = {}
    BY <1>2, <2>1 DEF Ready, OpenFeedback
  <2>. QED
    BY <1>4, <1>5, <2>2 DEF NotAppliedOverFeedback
<1>9. call' = [pc |-> "apply", kind |-> "none", p |-> p, row |-> i, doomed |-> {}, marks |-> <<>>,
               ids |-> [aliases |-> <<>>, settled |-> {}]]
  BY <1>1 DEF Idle
<1>10. CallOK'
  BY <1>9 DEF CallOK
<1>11. ApplyHolds'
  BY <1>2, <1>4, <1>9 DEF ApplyHolds
<1>12. (ConfirmReady /\ FailFirst /\ Answering)'
  BY <1>9 DEF ConfirmReady, FailFirst, Answering
<1>13. TypeOK'
  BY <1>1, <1>3, <1>10, RestatedType
<1>14. AllAnswered'
  <2>1. \A k \in DOMAIN journal : ~ToBeAnswered(k)
    BY <1>2 DEF ToBeAnswered
  <2>. QED
    BY <1>1, <1>3, <2>1, RestatedAnswers DEF ReviewInv
<1>. QED
  BY <1>6, <1>7, <1>8, <1>11, <1>12, <1>13, <1>14 DEF ReviewInv

LEMMA MarkKeeps ==
    ASSUME ReviewInv, Mark
    PROVE  ReviewInv'
<1>. DEFINE i == Head(call.marks)[1]
            status == Head(call.marks)[2]
            r == journal[Current(call.p)].rev
<1>1. /\ call.pc \in {"mark", "fail"} /\ call.marks # <<>> /\ UNCHANGED <<proposals, stops>>
      /\ journal' = [journal EXCEPT ![i] = Marked(@, status, r)]
      /\ call' = IF Len(call.marks) = 1 /\ call.pc = "mark" THEN Idle ELSE [call EXCEPT !.marks = Tail(@)]
  BY DEF Mark, budgets
<1>2. TypeOK /\ CallOK /\ call.marks \in Seq(Marks)
  BY DEF ReviewInv, TypeOK, CallOK
<1>3. /\ Len(call.marks) \in Nat /\ Len(call.marks) # 0 /\ DOMAIN call.marks = 1 .. Len(call.marks)
      /\ Head(call.marks) = call.marks[1] /\ call.marks[1] \in Marks
  BY <1>1, <1>2, LenProperties, EmptySeq
<1>4. /\ Tail(call.marks) \in Seq(Marks) /\ Len(Tail(call.marks)) = Len(call.marks) - 1
      /\ DOMAIN Tail(call.marks) = 1 .. Len(call.marks) - 1
      /\ \A n \in DOMAIN Tail(call.marks) : n + 1 \in DOMAIN call.marks /\ Tail(call.marks)[n] = call.marks[n + 1]
  <2>1. /\ Tail(call.marks) \in Seq(Marks) /\ Len(Tail(call.marks)) = Len(call.marks) - 1
        /\ \A n \in 1 .. Len(Tail(call.marks)) : Tail(call.marks)[n] = call.marks[n + 1]
    BY <1>1, <1>2, HeadTailProperties
  <2>2. DOMAIN Tail(call.marks) = 1 .. Len(call.marks) - 1
    BY <2>1, LenProperties
  <2>. QED
    BY <1>3, <2>1, <2>2
<1>5. status \in MarkStatuses
  BY <1>3 DEF Marks
<1>6. Restates(i, status)
  BY <1>1, <1>2, RestatesByMark
<1>7. call.marks[1] = <<i, status>>
  BY <1>3 DEF Marks
<1>. HIDE DEF i, status, r
<1>8. status \notin {"applying", "open"}
  BY <1>5 DEF MarkStatuses
<1>9. (RevisionsApart /\ AppliedIsNewest /\ NotAppliedOverFeedback)'
  BY <1>6, <1>8, RestatesInherit DEF ReviewInv
<1>10. CASE Len(call.marks) = 1 /\ call.pc = "mark"
  <2>1. call' = Idle
    BY <1>1, <1>10
  <2>2. CallOK' /\ ConfirmReady' /\ ApplyHolds' /\ FailFirst' /\ Answering'
    BY <2>1, CallEnds
  <2>3. TypeOK'
    BY <1>1, <1>2, <1>6, <2>2, RestatedType
  <2>4. \A k \in DOMAIN journal : ToBeAnswered(k) => k = i
    BY <1>3, <1>7, <1>10 DEF ToBeAnswered
  <2>5. AllAnswered'
    BY <1>1, <1>2, <1>6, <1>8, <2>4, RestatedAnswers DEF ReviewInv
  <2>. QED
    BY <1>9, <2>2, <2>3, <2>5 DEF ReviewInv
<1>11. CASE ~(Len(call.marks) = 1 /\ call.pc = "mark")
  <2>1. call' = [pc |-> call.pc, kind |-> call.kind, p |-> call.p, row |-> call.row, doomed |-> call.doomed,
                 marks |-> Tail(call.marks), ids |-> call.ids]
    BY <1>1, <1>2, <1>11 DEF CallOK
  <2>2. /\ call'.pc = call.pc /\ call'.p = call.p /\ call'.row = call.row /\ call'.marks = Tail(call.marks)
        /\ call'.doomed = call.doomed
    BY <2>1
  <2>3. CallOK'
    <3>1. call'.doomed \subseteq DOMAIN journal'
      BY <1>2, <1>6, <2>2 DEF CallOK, Restates
    <3>. QED
      BY <1>2, <1>4, <2>1, <2>2, <3>1 DEF CallOK
  <2>4. TypeOK'
    BY <1>1, <1>2, <1>6, <2>3, RestatedType
  <2>5. \A k \in DOMAIN journal : ToBeAnswered(k) => ToBeAnswered(k)' \/ k = i
    <3>. SUFFICES ASSUME NEW k \in DOMAIN journal, ToBeAnswered(k), k # i PROVE ToBeAnswered(k)'
      OBVIOUS
    <3>1. PICK n \in DOMAIN call.marks : call.marks[n] = <<k, "answered">>
      BY DEF ToBeAnswered
    <3>2. n # 1
      BY <1>7, <3>1
    <3>3. n - 1 \in DOMAIN Tail(call.marks)
      BY <1>3, <1>4, <3>2
    <3>4. Tail(call.marks)[n - 1] = call.marks[n]
      <4>1. Tail(call.marks)[n - 1] = call.marks[(n - 1) + 1]
        BY <1>4, <3>3
      <4>2. n \in Int
        BY <1>3
      <4>3. (n - 1) + 1 = n
        BY <4>2
      <4>. QED
        BY <4>1, <4>3
    <3>. QED
      BY <2>2, <3>1, <3>3, <3>4 DEF ToBeAnswered
  <2>6. AllAnswered'
    BY <1>1, <1>2, <1>6, <1>8, <2>5, RestatedAnswers DEF ReviewInv
  <2>7. ConfirmReady'
    BY <1>1, <2>2 DEF ConfirmReady
  <2>8. ApplyHolds'
    <3>1. ASSUME call.pc = "fail" PROVE call.row \in RowsOf(journal', call.p, "compaction") /\ IsNewest(call.row)'
      <4>1. call.row \in RowsOf(journal, call.p, "compaction") /\ IsNewest(call.row)
        BY <3>1 DEF ReviewInv, ApplyHolds
      <4>2. call.row \in CompactionRows(journal)
        BY <4>1 DEF RowsOf, CompactionRows
      <4>3. call'.row = call.row
        BY <2>2
      <4>. QED
        BY <1>2, <1>6, <4>1, <4>2, <4>3, RestatesKeep DEF IsNewest
    <3>. QED
      BY <1>1, <2>2, <3>1 DEF ApplyHolds, IsNewest
  <2>9. FailFirst'
    <3>1. ASSUME call.pc = "fail" PROVE journal'[call.row].status # "applying"
      <4>1. call.row \in DOMAIN journal /\ journal[call.row].kind = "compaction"
        BY <3>1 DEF ReviewInv, ApplyHolds, RowsOf
      <4>2. CASE call.row = i
        BY <1>2, <1>6, <1>8, <4>1, <4>2, RestatesKeep
      <4>3. CASE call.row # i
        <5>1. journal'[call.row] = journal[call.row]
          BY <1>2, <1>6, <4>1, <4>3, RestatesKeep
        <5>2. journal[call.row].status # "applying"
          BY <1>7, <3>1, <4>3 DEF ReviewInv, FailFirst
        <5>. QED
          BY <5>1, <5>2
      <4>. QED
        BY <4>2, <4>3
    <3>2. ASSUME call.pc = "fail" PROVE \A n \in DOMAIN call'.marks : call'.marks[n][2] # "answered"
      BY <1>4, <2>2, <3>2 DEF ReviewInv, FailFirst
    <3>. QED
      BY <2>2, <3>1, <3>2 DEF FailFirst
  <2>10. Answering'
    <3>. SUFFICES ASSUME call.pc = "mark", NEW n \in DOMAIN Tail(call.marks), Tail(call.marks)[n][2] = "answered"
         PROVE  /\ Tail(call.marks)[n][1] \in Feedback(journal', call.p)
                /\ \E c \in RowsOf(journal', call.p, "compaction") :
                       IsNewest(c)' /\ c > Tail(call.marks)[n][1] /\ journal'[c].meta.reason = "revised"
      BY <2>2 DEF Answering
    <3>1. n + 1 \in DOMAIN call.marks /\ Tail(call.marks)[n] = call.marks[n + 1]
      BY <1>4
    <3>2. /\ call.marks[n + 1][1] \in Feedback(journal, call.p)
          /\ \E c \in RowsOf(journal, call.p, "compaction") :
                 IsNewest(c) /\ c > call.marks[n + 1][1] /\ journal[c].meta.reason = "revised"
      BY <3>1 DEF ReviewInv, Answering
    <3>3. PICK c \in RowsOf(journal, call.p, "compaction") :
                 IsNewest(c) /\ c > call.marks[n + 1][1] /\ journal[c].meta.reason = "revised"
      BY <3>2
    <3>4. c \in CompactionRows(journal) /\ c \in DOMAIN journal /\ journal[c].kind = "compaction"
      BY DEF RowsOf, CompactionRows
    <3>5. c \in RowsOf(journal', call.p, "compaction") /\ IsNewest(c)'
      BY <1>2, <1>6, <3>3, <3>4, RestatesKeep
    <3>6. journal'[c].meta = journal[c].meta
      BY <1>2, <1>6, <3>4, RestatesKeep DEF Kept
    <3>7. call.marks[n + 1][1] \in Feedback(journal', call.p)
      BY <1>2, <1>6, <3>2, RestatesKeep DEF Feedback
    <3>. QED
      BY <3>1, <3>3, <3>5, <3>6, <3>7
  <2>. QED
    BY <1>9, <2>4, <2>6, <2>7, <2>8, <2>9, <2>10 DEF ReviewInv
<1>. QED
  BY <1>10, <1>11

\* Feedback is added to a proposal that has revisions, none being applied.
LEMMA FeedbackKeeps ==
    ASSUME ReviewInv, call' = Idle, call.pc # "mark", UNCHANGED <<proposals, stops>>,
           NEW p, NEW i \in RowsOf(journal, p, "compaction"), IsNewest(i), journal[i].status \notin ApplyingStatuses,
           NEW seq, NEW about, NEW by,
           journal' = Append(journal, FeedbackRow(p, seq, about, by, journal[i].rev))
    PROVE  ReviewInv'
<1>. DEFINE row == FeedbackRow(p, seq, about, by, journal[i].rev)
<1>1. TypeOK /\ RevisionsApart /\ AppliedIsNewest /\ NotAppliedOverFeedback /\ AllAnswered
  BY DEF ReviewInv
<1>2. /\ i \in DOMAIN journal /\ i \in CompactionRows(journal) /\ journal[i].of = p
      /\ journal[i].rev \in Nat /\ p \in Nat /\ p <= proposals
  BY <1>1, TabIs DEF RowsOf, CompactionRows
<1>3. AddsFeedback(p, row)
  BY <1>1, <1>2, FeedbackAppended
<1>4. row = [kind |-> "feedback", of |-> p, seq |-> seq, about |-> about, by |-> by, since |-> journal[i].rev,
             status |-> "open", answeredIn |-> 0]
  BY DEF FeedbackRow
<1>5. RowOK(row) /\ row.of = p /\ row.kind = "feedback" /\ row.since = journal[i].rev
  BY <1>2, <1>4 DEF RowOK, IsFeedback
<1>. HIDE DEF row
<1>6. \A k \in DOMAIN journal : k \in DOMAIN journal' /\ journal'[k] = journal[k]
  BY <1>3 DEF AddsFeedback
<1>7. \A k \in DOMAIN journal' : k \in DOMAIN journal \/ journal'[k] = row
  BY <1>3 DEF AddsFeedback
<1>8. CompactionRows(journal') = CompactionRows(journal)
  BY <1>5, <1>6, <1>7 DEF CompactionRows
<1>9. \A k \in CompactionRows(journal) : journal'[k] = journal[k] /\ k \in DOMAIN journal
  BY <1>6 DEF CompactionRows
<1>10. RevisionsApart' /\ AppliedIsNewest'
  BY <1>1, <1>8, <1>9 DEF RevisionsApart, AppliedIsNewest, IsNewest
<1>11. \A k \in CompactionRows(journal) : journal[k].status = "applying" => journal[k].of # p
  <2>. SUFFICES ASSUME NEW k \in CompactionRows(journal), journal[k].status = "applying", journal[k].of = p PROVE FALSE
    OBVIOUS
  <2>1. IsNewest(k)
    BY <1>1 DEF AppliedIsNewest
  <2>2. k = i
    BY <1>1, <1>2, <2>1, OnlyNewest
  <2>. QED
    BY <2>2 DEF ApplyingStatuses
<1>12. NotAppliedOverFeedback'
  <2>. SUFFICES ASSUME NEW k \in CompactionRows(journal'), journal'[k].status = "applying",
                       NEW l \in OpenFeedback(journal', journal'[k].of)
       PROVE FALSE
    BY DEF NotAppliedOverFeedback
  <2>1. k \in CompactionRows(journal) /\ journal'[k] = journal[k]
    BY <1>8, <1>9
  <2>2. l \in DOMAIN journal' /\ journal'[l].kind = "feedback" /\ journal'[l].status = "open" /\ journal'[l].of = journal[k].of
    BY <2>1 DEF OpenFeedback, Feedback, RowsOf
  <2>3. l \in DOMAIN journal /\ journal'[l] = journal[l]
    BY <1>5, <1>6, <1>7, <1>11, <2>1, <2>2
  <2>. QED
    BY <1>1, <2>1, <2>2, <2>3 DEF NotAppliedOverFeedback, OpenFeedback, Feedback, RowsOf
<1>13. CallOK' /\ ConfirmReady' /\ ApplyHolds' /\ FailFirst' /\ Answering'
  BY CallEnds
<1>14. TypeOK'
  <2>1. journal' \in Seq(Tab')
    BY <1>3 DEF AddsFeedback
  <2>2. \A k \in DOMAIN journal' : RowOK(journal'[k]) /\ journal'[k].of <= proposals'
    <3>. SUFFICES ASSUME NEW k \in DOMAIN journal' PROVE RowOK(journal'[k]) /\ journal'[k].of <= proposals'
      OBVIOUS
    <3>1. CASE k \in DOMAIN journal
      <4>1. journal'[k] = journal[k] /\ RowOK(journal[k]) /\ journal[k].of <= proposals
        BY <1>1, <1>6, <3>1, TabIs
      <4>. QED
        BY <4>1
    <3>2. CASE journal'[k] = row
      BY <1>2, <1>5, <3>2
    <3>. QED
      BY <1>7, <3>1, <3>2
  <2>3. proposals' \in Nat /\ stops' \in Nat
    BY <1>1 DEF TypeOK
  <2>. QED
    BY <1>13, <2>1, <2>2, <2>3 DEF TypeOK
<1>15. AllAnswered'
  <2>. SUFFICES ASSUME stops = 0, NEW k \in DOMAIN journal', NEW j \in CompactionRows(journal'),
                       journal'[k].kind = "feedback", journal'[k].status = "open",
                       journal'[j].of = journal'[k].of, journal'[j].meta.reason \in RevisedReasons
       PROVE  journal'[k].since >= journal'[j].meta.base
    BY DEF AllAnswered
  <2>1. j \in CompactionRows(journal) /\ journal'[j] = journal[j]
    BY <1>8, <1>9
  <2>2. CASE k \in DOMAIN journal
    <3>1. journal'[k] = journal[k] /\ ~ToBeAnswered(k)
      BY <1>6, <2>2 DEF ToBeAnswered
    <3>. QED
      BY <1>1, <2>1, <2>2, <3>1 DEF AllAnswered
  <2>3. CASE journal'[k] = row
    <3>1. journal[j].of = p /\ journal'[k].since = journal[i].rev
      BY <1>5, <2>1, <2>3
    <3>2. journal[j].rev <= journal[i].rev
      BY <1>2, <2>1, <3>1 DEF IsNewest
    <3>3. journal[j].rev \in Nat /\ journal[j].meta.base \in Nat /\ journal[j].meta.base <= journal[j].rev
      BY <1>1, <2>1, TabIs DEF IsRevision, MetaOK
    <3>4. journal'[j].meta.base = journal[j].meta.base
      BY <2>1
    <3>5. journal[i].rev >= journal[j].meta.base
      <4>1. \A x, y, z \in Nat : x <= y /\ y <= z => z >= x
        OBVIOUS
      <4>. QED
        BY <1>2, <3>2, <3>3, <4>1
    <3>. QED
      BY <3>1, <3>4, <3>5
  <2>. QED
    BY <1>7, <2>2, <2>3
<1>. QED
  BY <1>10, <1>12, <1>13, <1>14, <1>15 DEF ReviewInv

LEMMA AddNoteKeeps ==
    ASSUME ReviewInv, NEW about, AddNote(about)
    PROVE  ReviewInv'
<1>. DEFINE p == OpenProposal(journal)
<1>1. /\ call = Idle /\ UNCHANGED <<call, proposals, stops>> /\ p # 0
      /\ journal[Current(p)].status \notin ApplyingStatuses
      /\ journal' = Append(journal, FeedbackRow(p, NextFeedbackSeq(journal, p), about, "user", journal[Current(p)].rev))
  BY DEF AddNote, MayCall, Amendable
<1>2. RowsOf(journal, p, "compaction") # {}
  BY <1>1, OpenIsThere DEF ReviewInv
<1>3. Current(p) \in RowsOf(journal, p, "compaction") /\ IsNewest(Current(p))
  BY <1>2, NewestIs DEF ReviewInv, Current
<1>4. call' = Idle /\ call.pc # "mark"
  BY <1>1, IdleIs
<1>. HIDE DEF p
<1>. QED
  BY <1>1, <1>3, <1>4, FeedbackKeeps

LEMMA ConfirmNeedsClaudeKeeps ==
    ASSUME ReviewInv, ConfirmNeedsClaude
    PROVE  ReviewInv'
<1>. DEFINE p == Confirming
<1>1. /\ call' = Idle /\ UNCHANGED <<proposals, stops>> /\ Collected("confirm")
      /\ journal' = Append(journal, FeedbackRow(p, NextFeedbackSeq(journal, p), NoName, "server", journal[Current(p)].rev))
  BY DEF ConfirmNeedsClaude, AsksClaude
<1>2. /\ Current(p) \in RowsOf(journal, p, "compaction") /\ IsNewest(Current(p)) /\ call.pc # "mark"
      /\ journal[Current(p)].status # "applying"
  BY <1>1, ConfirmingIsReady
<1>3. journal[Current(p)].status \notin ApplyingStatuses
  BY <1>2 DEF ApplyingStatuses
<1>. HIDE DEF p
<1>. QED
  BY <1>1, <1>2, <1>3, FeedbackKeeps

LEMMA DeleteRunKeeps ==
    ASSUME ReviewInv, DeleteRun
    PROVE  ReviewInv'
<1>. DEFINE run == LastRun(call.doomed)
            f == [k \in DOMAIN journal' |-> WasAt(run, k)]
<1>1. /\ call.pc = "collect" /\ call.doomed # {} /\ UNCHANGED <<proposals, stops>>
      /\ journal' = Deleted(journal, run) /\ call' = [call EXCEPT !.doomed = @ \ run]
  BY DEF DeleteRun, RunToDelete, budgets
<1>2. TypeOK /\ RevisionsApart /\ AppliedIsNewest /\ NotAppliedOverFeedback /\ CallOK /\ call.doomed \subseteq DOMAIN journal
  BY DEF ReviewInv, TypeOK, CallOK
<1>3. /\ journal' \in Seq(Tab') /\ Len(journal') < Len(journal)
      /\ ComesFrom(f) /\ \A k \in DOMAIN journal' : journal'[k] = journal[f[k]]
      /\ \A i \in DOMAIN journal \ run : \E k \in DOMAIN journal' : f[k] = i
      /\ call.doomed \ run \subseteq DOMAIN journal' /\ \A i \in call.doomed \ run : f[i] = i
  <2>1. /\ journal' \in Seq(Tab') /\ Len(journal') < Len(journal)
        /\ ComesFrom(f) /\ \A k \in DOMAIN journal' : journal'[k] = journal[f[k]]
        /\ \A i \in DOMAIN journal \ run : \E k \in DOMAIN journal' : f[k] = i
        /\ \A i \in call.doomed \ run : i + 1 < Min(run)
        /\ \A i \in DOMAIN journal : i < Min(run) => i \in DOMAIN journal' /\ f[i] = i
    BY <1>1, <1>2, DeletedRows
  <2>2. \A i \in call.doomed \ run : i \in DOMAIN journal /\ i < Min(run)
    <3>1. Min(run) \in Nat /\ \A i \in call.doomed : i \in Nat /\ i \in DOMAIN journal
      BY <1>1, <1>2, TabIs, LastRunIs
    <3>. HIDE DEF run
    <3>. QED
      BY <2>1, <3>1
  <2>. HIDE DEF run, f
  <2>. QED
    BY <2>1, <2>2
<1>. HIDE DEF f
<1>4. (RevisionsApart /\ AppliedIsNewest /\ NotAppliedOverFeedback)'
  BY <1>2, <1>3, Inherited
<1>5. \A k \in DOMAIN journal' : f[k] \in DOMAIN journal
  BY <1>3 DEF ComesFrom
<1>6. run \subseteq call.doomed
  BY DEF LastRun
<1>. HIDE DEF run
<1>7. call' = [pc |-> "collect", kind |-> call.kind, p |-> call.p, row |-> call.row, doomed |-> call.doomed \ run,
               marks |-> call.marks, ids |-> call.ids]
  BY <1>1, <1>2 DEF CallOK
<1>8. /\ call'.pc = "collect" /\ call'.kind = call.kind /\ call'.p = call.p /\ call'.doomed = call.doomed \ run
      /\ call'.marks = call.marks
  BY <1>7
<1>9. CallOK'
  BY <1>2, <1>3, <1>7, <1>8 DEF CallOK
<1>10. TypeOK'
  <2>1. \A k \in DOMAIN journal' : RowOK(journal'[k]) /\ journal'[k].of <= proposals'
    BY <1>1, <1>2, <1>3, <1>5, TabIs
  <2>. QED
    BY <1>1, <1>2, <1>3, <1>9, <2>1 DEF TypeOK
<1>11. ConfirmReady'
  <2>. SUFFICES ASSUME call.kind = "confirm"
       PROVE  /\ RowsOf(journal', call.p, "compaction") # {} /\ OpenFeedback(journal', call.p) = {} /\ NoneApplying'
              /\ (call.doomed \ run) \cap RowsOf(journal', call.p, "compaction") = {}
    BY <1>8 DEF ConfirmReady, Ready
  <2>1. Ready(call.p) /\ call.doomed \cap RowsOf(journal, call.p, "compaction") = {}
    BY <1>1 DEF ReviewInv, ConfirmReady
  <2>2. RowsOf(journal', call.p, "compaction") # {}
    <3>1. PICK i \in RowsOf(journal, call.p, "compaction") : TRUE
      BY <2>1 DEF Ready
    <3>2. i \in DOMAIN journal \ run /\ journal[i].of = call.p /\ journal[i].kind = "compaction"
      BY <1>6, <2>1 DEF RowsOf
    <3>3. PICK k \in DOMAIN journal' : f[k] = i
      BY <1>3, <3>2
    <3>4. journal'[k] = journal[i]
      BY <1>3, <3>3
    <3>. QED
      BY <3>2, <3>4 DEF RowsOf
  <2>3. OpenFeedback(journal', call.p) = {}
    <3>1. OpenFeedback(journal, call.p) = {}
      BY <2>1 DEF Ready
    <3>2. \A k \in OpenFeedback(journal', call.p) : k \in DOMAIN journal' /\ f[k] \in OpenFeedback(journal, call.p)
      BY <1>3, <1>5 DEF OpenFeedback, Feedback, RowsOf
    <3>. QED
      BY <3>1, <3>2
  <2>4. NoneApplying'
    <3>1. NoneApplying
      BY <2>1 DEF Ready
    <3>2. \A k \in CompactionRows(journal') : f[k] \in CompactionRows(journal) /\ journal'[k] = journal[f[k]]
      BY <1>3, <1>5 DEF CompactionRows
    <3>. QED
      BY <3>1, <3>2 DEF NoneApplying
  <2>5. \A i \in call.doomed \ run : i \notin RowsOf(journal', call.p, "compaction")
    <3>1. \A i \in call.doomed \ run : i \in DOMAIN journal' /\ journal'[i] = journal[i] /\ i \in DOMAIN journal
      BY <1>2, <1>3
    <3>. QED
      BY <2>1, <3>1 DEF RowsOf
  <2>. QED
    BY <2>2, <2>3, <2>4, <2>5
<1>12. (ApplyHolds /\ FailFirst /\ Answering)'
  BY <1>8 DEF ApplyHolds, FailFirst, Answering
<1>13. AllAnswered'
  <2>. SUFFICES ASSUME stops = 0, NEW k \in DOMAIN journal', NEW j \in CompactionRows(journal'),
                       journal'[k].kind = "feedback", journal'[k].status = "open",
                       journal'[j].of = journal'[k].of, journal'[j].meta.reason \in RevisedReasons
       PROVE  journal'[k].since >= journal'[j].meta.base
    BY <1>1 DEF AllAnswered
  <2>1. j \in DOMAIN journal' /\ journal'[j].kind = "compaction"
    BY DEF CompactionRows
  <2>2. /\ f[k] \in DOMAIN journal /\ journal'[k] = journal[f[k]]
        /\ f[j] \in CompactionRows(journal) /\ journal'[j] = journal[f[j]]
    BY <1>3, <1>5, <2>1 DEF CompactionRows
  <2>3. ~ToBeAnswered(f[k])
    BY <1>1 DEF ToBeAnswered
  <2>. QED
    BY <2>2, <2>3 DEF ReviewInv, AllAnswered
<1>. QED
  BY <1>4, <1>10, <1>11, <1>12, <1>13 DEF ReviewInv

\* A revision that replaces the newest, i, isn't numbered as any before it.
LEMMA NoneAfterNewest ==
    ASSUME TypeOK, RevisionsApart, AppliedIsNewest, NEW p, NEW i \in RowsOf(journal, p, "compaction"), IsNewest(i),
           journal[i].status # "applying"
    PROVE  /\ i \in DOMAIN journal /\ journal[i].rev \in Nat /\ p \in Nat /\ p <= proposals
           /\ MetaOK(journal[i].meta, journal[i].rev)
           /\ \A j \in RowsOf(journal, p, "compaction") : journal[j].rev < journal[i].rev + 1 /\ journal[j].status # "applying"
<1>1. i \in DOMAIN journal /\ i \in CompactionRows(journal) /\ journal[i].of = p
  BY DEF RowsOf, CompactionRows
<1>2. journal[i].rev \in Nat /\ p \in Nat /\ p <= proposals /\ MetaOK(journal[i].meta, journal[i].rev)
  BY <1>1, TabIs DEF IsRevision
<1>3. \A j \in RowsOf(journal, p, "compaction") : journal[j].rev < journal[i].rev + 1 /\ journal[j].status # "applying"
  <2>. SUFFICES ASSUME NEW j \in RowsOf(journal, p, "compaction")
       PROVE  journal[j].rev < journal[i].rev + 1 /\ journal[j].status # "applying"
    OBVIOUS
  <2>1. j \in CompactionRows(journal) /\ journal[j].of = p
    BY DEF RowsOf, CompactionRows
  <2>2. journal[j].rev \in Nat /\ journal[j].rev <= journal[i].rev
    BY <1>1, <2>1, TabIs DEF IsNewest
  <2>3. journal[j].status = "applying" => j = i
    BY <1>1, <2>1, OnlyNewest DEF AppliedIsNewest
  <2>. QED
    BY <1>2, <2>2, <2>3
<1>. QED
  BY <1>1, <1>2, <1>3

LEMMA CollectedWhen ==
    ASSUME NEW kind, Collected(kind)
    PROVE  call.pc # "mark"
BY IdleIs DEF Collected, MayCall

LEMMA ProposeKeeps ==
    ASSUME ReviewInv, call.pc # "mark", NEW says, Propose(says)
    PROVE  ReviewInv'
<1>. DEFINE p == proposals + 1
            meta == [NewMeta EXCEPT !.keys = says.creates, !.ignore = says.ignores, !.targets = says.targets]
            claude == Keyed(p, says, 0)
            merged == Merge(p, claude, <<>>, OptionsOf(meta, written))
<1>1. /\ proposals' = p /\ stops' = stops /\ call.pc # "mark"
      /\ Writes(p, 1, written, meta, claude, merged.decided, <<>>, <<>>)
  BY DEF Propose
<1>2. meta.base = 0 /\ meta.reason = "proposed" /\ "base" \in DOMAIN meta /\ "reason" \in DOMAIN meta
  <2>1. DOMAIN NewMeta = DOMAIN meta
    OBVIOUS
  <2>2. NewMeta.base = 0 /\ NewMeta.reason = "proposed" /\ "base" \in DOMAIN NewMeta /\ "reason" \in DOMAIN NewMeta
    BY DEF NewMeta
  <2>. QED
    BY <2>1, <2>2
<1>. HIDE DEF claude, merged, meta
<1>3. MetaOK(meta, 1)
  BY <1>2 DEF MetaOK
<1>4. proposals \in Nat /\ p \in Nat /\ proposals <= p
  BY DEF ReviewInv, TypeOK
<1>5. \A i \in RowsOf(journal, p, "compaction") : journal[i].rev < 1 /\ journal[i].status # "applying"
  BY <1>4, TabIs DEF ReviewInv, RowsOf
<1>6. <<>> \in Seq(Marks) /\ Answered(p, meta, <<>>)
  BY <1>2 DEF Answered, RevisedReasons
<1>7. proposals' \in Nat /\ proposals <= proposals' /\ p <= proposals' /\ 1 \in Nat
  BY <1>1, <1>4
<1>8. <<>> \in Seq({})
  OBVIOUS
<1>. HIDE DEF p
<1>. QED
  BY <1>1, <1>3, <1>4, <1>5, <1>6, <1>7, <1>8, RevisionWritten

\* One made from the newest, i, of a proposal, or from one before it.
LEMMA RevisionKeeps ==
    ASSUME ReviewInv, call.pc # "mark", UNCHANGED <<proposals, stops>>,
           NEW p, NEW i \in RowsOf(journal, p, "compaction"), IsNewest(i), journal[i].status # "applying",
           NEW base \in RowsOf(journal, p, "compaction"),
           NEW notes, NEW claude, NEW decided, NEW E, NEW edits \in Seq(E), NEW marks \in Seq(Marks),
           NEW meta, meta.base = journal[base].rev, Answered(p, meta, marks),
           "base" \in DOMAIN meta, "reason" \in DOMAIN meta,
           Writes(p, journal[i].rev + 1, notes, meta, claude, decided, edits, marks)
    PROVE  ReviewInv'
<1>1. TypeOK /\ RevisionsApart /\ AppliedIsNewest /\ proposals' \in Nat /\ proposals <= proposals'
  BY DEF ReviewInv, TypeOK
<1>2. /\ journal[i].rev \in Nat /\ p \in Nat /\ p <= proposals
      /\ \A j \in RowsOf(journal, p, "compaction") : journal[j].rev < journal[i].rev + 1 /\ journal[j].status # "applying"
  BY <1>1, NoneAfterNewest
<1>3. journal[base].rev \in Nat
  BY <1>1, TabIs DEF RowsOf, CompactionRows
<1>4. journal[base].rev <= journal[i].rev + 1
  <2>1. \A x, y \in Nat : x < y + 1 => x <= y + 1
    OBVIOUS
  <2>. QED
    BY <1>2, <1>3, <2>1
<1>5. MetaOK(meta, journal[i].rev + 1)
  BY <1>3, <1>4 DEF MetaOK
<1>6. journal[i].rev + 1 \in Nat /\ p <= proposals'
  BY <1>1, <1>2
<1>. QED
  BY <1>1, <1>2, <1>5, <1>6, RevisionWritten

LEMMA ReviseKeeps ==
    ASSUME ReviewInv, call.pc # "mark", NEW base \in RowsOf(journal, OpenProposal(journal), "compaction"),
           NEW replies \in SUBSET OpenFeedback(journal, OpenProposal(journal)), NEW says, Revise(base, replies, says)
    PROVE  ReviewInv'
<1>. DEFINE p == OpenProposal(journal)
            current == Current(p)
            was == journal[current].meta
            replaced == Replaced(p, base, replies)
            edits == SelectSeq(ActiveEdits(journal, p),
                               LAMBDA edit : \A i \in replaced : journal[i].edit.seq # edit.seq)
            meta == [was EXCEPT !.base = journal[base].rev, !.seq = LastSeq(journal, p), !.by = "claude",
                                !.reason = IF replies = {} THEN "extended" ELSE "revised", !.keys = @ + says.creates,
                                !.ignore = says.ignores, !.targets = says.targets]
            claude == Keyed(p, says, was.keys)
            merged == Merge(p, claude, edits, OptionsOf(meta, written))
            marks == MarksAfter(p, current, replies, replaced, merged)
<1>1. /\ p # 0 /\ NoneApplying /\ Answers(p, base, replies) /\ UNCHANGED <<proposals, stops>>
      /\ Writes(p, journal[current].rev + 1, written, meta, claude, merged.decided, <<>>, marks)
  BY DEF Revise
<1>2. RowsOf(journal, p, "compaction") # {}
  BY <1>1, OpenIsThere DEF ReviewInv
<1>3. current \in RowsOf(journal, p, "compaction") /\ IsNewest(current)
  BY <1>2, NewestIs DEF ReviewInv, Current
<1>4. replaced \subseteq DOMAIN journal /\ replies \subseteq Feedback(journal, p) /\ replies \subseteq DOMAIN journal
  BY DEF Replaced, RowsOf, OpenFeedback, Feedback
<1>. HIDE DEF merged, claude, edits, replaced, current
<1>5. current \in DOMAIN journal /\ IsRevision(journal[current]) /\ journal[current].status # "applying"
  BY <1>1, <1>3, TabIs DEF ReviewInv, RowsOf, CompactionRows, NoneApplying, ApplyingStatuses
<1>6. /\ marks \in Seq(Marks)
      /\ \A n \in DOMAIN marks : marks[n][2] = "answered" => marks[n][1] \in replies
      /\ \A i \in replies : \E n \in DOMAIN marks : marks[n] = <<i, "answered">>
  <2>1. TypeOK /\ current \in DOMAIN journal /\ replies \subseteq DOMAIN journal /\ replaced \subseteq DOMAIN journal
    BY <1>4, <1>5 DEF ReviewInv
  <2>2. AnswersJust(marks, replies)
    BY <2>1, MarksAfterIs
  <2>. QED
    BY <2>2 DEF AnswersJust
<1>7. "base" \in DOMAIN was /\ "reason" \in DOMAIN was
  BY <1>5 DEF IsRevision, MetaOK
<1>. HIDE DEF was, p, marks
<1>8. /\ meta.base = journal[base].rev /\ "base" \in DOMAIN meta /\ "reason" \in DOMAIN meta
      /\ replies # {} => meta.reason = "revised"
  BY <1>7
<1>. HIDE DEF meta
<1>9. Answered(p, meta, marks)
  <2>1. \A i \in OpenFeedback(journal, p) : journal[i].since < journal[base].rev => i \in replies
    BY <1>1 DEF Answers
  <2>2. \A i \in OpenFeedback(journal, p) : journal[i].since \in Nat
    BY TabIs DEF ReviewInv, OpenFeedback, Feedback, RowsOf, IsFeedback
  <2>3. journal[base].rev \in Nat
    BY TabIs DEF ReviewInv, RowsOf, CompactionRows
  <2>4. \A i \in OpenFeedback(journal, p) : journal[i].since >= journal[base].rev \/ i \in replies
    BY <2>1, <2>2, <2>3
  <2>. QED
    BY <1>4, <1>6, <1>8, <2>4 DEF Answered
<1>10. base \in RowsOf(journal, p, "compaction")
  BY DEF p
<1>11. <<>> \in Seq({})
  OBVIOUS
<1>. QED
  BY <1>1, <1>3, <1>5, <1>6, <1>8, <1>9, <1>10, <1>11, RevisionKeeps

\* Marks none of which is an answer, of a revision Claude didn't make.
LEMMA NothingAnswered ==
    ASSUME NEW p, NEW meta, meta.reason \notin RevisedReasons, NEW marks, \A n \in DOMAIN marks : marks[n][2] # "answered"
    PROVE  Answered(p, meta, marks)
BY DEF Answered, RevisedReasons

LEMMA AmendKeeps ==
    ASSUME ReviewInv, call.pc # "mark", NEW base \in RowsOf(journal, OpenProposal(journal), "compaction"),
           NEW says, Amend(base, says)
    PROVE  ReviewInv'
<1>. DEFINE p == OpenProposal(journal)
            current == Current(p)
            was == journal[current].meta
            edit == NewEdit(p, says, LastSeq(journal, p) + 1, journal[base].rev)
            meta == [was EXCEPT !.base = journal[base].rev, !.seq = edit.seq, !.by = "user", !.reason = "user edit"]
            claude == Planned(current).claude
            merged == Merge(p, claude, Append(ActiveEdits(journal, p), edit), OptionsOf(was, journal[current].notes))
            marks == MarksAfter(p, current, {}, {}, merged)
<1>1. /\ p # 0 /\ journal[current].status \notin ApplyingStatuses /\ UNCHANGED <<proposals, stops>>
      /\ Writes(p, journal[current].rev + 1, journal[current].notes, meta, claude, merged.decided, <<edit>>, marks)
  BY DEF Amend, Amendable
<1>2. RowsOf(journal, p, "compaction") # {}
  BY <1>1, OpenIsThere DEF ReviewInv
<1>3. current \in RowsOf(journal, p, "compaction") /\ IsNewest(current)
  BY <1>2, NewestIs DEF ReviewInv, Current
<1>. HIDE DEF merged, claude, edit, current
<1>4. current \in DOMAIN journal /\ IsRevision(journal[current]) /\ journal[current].status # "applying"
  BY <1>1, <1>3, TabIs DEF ReviewInv, RowsOf, CompactionRows, ApplyingStatuses
<1>5. marks \in Seq(Marks) /\ \A n \in DOMAIN marks : marks[n][2] # "answered"
  <2>1. TypeOK /\ {} \subseteq DOMAIN journal
    BY DEF ReviewInv
  <2>2. AnswersJust(marks, {})
    BY <2>1, <1>4, MarksAfterIs
  <2>. QED
    BY <2>2 DEF AnswersJust
<1>6. "base" \in DOMAIN was /\ "reason" \in DOMAIN was
  BY <1>4 DEF IsRevision, MetaOK
<1>7. base \in RowsOf(journal, p, "compaction")
  OBVIOUS
<1>. HIDE DEF was, p, marks
<1>8. meta.base = journal[base].rev /\ "base" \in DOMAIN meta /\ "reason" \in DOMAIN meta
  BY <1>6
<1>9. meta.reason \notin RevisedReasons
  <2>1. meta.reason = "user edit"
    BY <1>6
  <2>2. "user edit" \notin RevisedReasons
    BY DEF RevisedReasons
  <2>. HIDE DEF meta
  <2>. QED
    BY <2>1, <2>2, Zenon
<1>. HIDE DEF meta
<1>10. Answered(p, meta, marks)
  BY <1>5, <1>9, NothingAnswered
<1>11. <<edit>> \in Seq({edit})
  OBVIOUS
<1>. QED
  BY <1>1, <1>3, <1>4, <1>5, <1>7, <1>8, <1>10, <1>11, RevisionKeeps

LEMMA ConfirmRechecksKeeps ==
    ASSUME ReviewInv, ConfirmRechecks
    PROVE  ReviewInv'
<1>. DEFINE p == Confirming
            i == Current(p)
            was == journal[i].meta
            meta == [was EXCEPT !.base = journal[i].rev, !.by = "server", !.reason = "recheck"]
            claude == Planned(i).claude
            decided == Planned(i).decided
            marks == Superseding(i)
<1>1. /\ Collected("confirm") /\ UNCHANGED <<proposals, stops>>
      /\ Writes(p, journal[i].rev + 1, written, meta, claude, decided, <<>>, marks)
  BY DEF ConfirmRechecks
<1>2. /\ i \in RowsOf(journal, p, "compaction") /\ IsNewest(i) /\ call.pc # "mark"
      /\ \A k \in RowsOf(journal, p, "compaction") : journal[k].status # "applying"
  BY <1>1, ConfirmingIsReady
<1>. HIDE DEF p, i, claude, decided
<1>3. i \in DOMAIN journal /\ IsRevision(journal[i]) /\ i \in Nat
  BY <1>2, TabIs DEF ReviewInv, RowsOf, CompactionRows
<1>4. marks \in Seq(Marks) /\ \A n \in DOMAIN marks : marks[n][2] # "answered"
  <2>1. <<i, "superseded">> \in Marks
    BY <1>3 DEF Marks, MarkStatuses
  <2>. QED
    BY <2>1 DEF Superseding
<1>5. "base" \in DOMAIN was /\ "reason" \in DOMAIN was
  BY <1>3 DEF IsRevision, MetaOK
<1>. HIDE DEF was, marks
<1>6. /\ meta.base = journal[i].rev /\ meta.reason = "recheck"
      /\ "base" \in DOMAIN meta /\ "reason" \in DOMAIN meta
  BY <1>5
<1>. HIDE DEF meta
<1>7. Answered(p, meta, marks)
  <2>1. meta.reason \notin RevisedReasons
    BY <1>6 DEF RevisedReasons
  <2>. QED
    BY <1>4, <2>1, NothingAnswered
<1>8. <<>> \in Seq({})
  OBVIOUS
<1>. QED
  BY <1>1, <1>2, <1>4, <1>6, <1>7, <1>8, RevisionKeeps

LEMMA RebuildKeeps ==
    ASSUME ReviewInv, Rebuild
    PROVE  ReviewInv'
<1>. DEFINE i == call.row
            p == call.p
            merged == Left(i, call.ids)
            unknown == UnknownRows(p, merged)
            meta == RebuiltMeta(i, call.ids)
            claude == Carried(Planned(i).claude, call.ids)
<1>1. /\ call.pc = "fail" /\ call.marks = <<>> /\ UNCHANGED <<proposals, stops>>
      /\ \/ /\ call' = [call EXCEPT !.marks = MarksOf(unknown, "inapplicable")]
            /\ UNCHANGED journal
         \/ Writes(p, journal[i].rev + 1, written, meta, claude, merged.decided, <<>>, <<>>)
         \/ AsksClaude(p)
  BY DEF Rebuild, budgets
<1>2. /\ TypeOK /\ CallOK /\ i \in RowsOf(journal, p, "compaction") /\ IsNewest(i)
      /\ journal[i].status # "applying"
  BY <1>1 DEF ReviewInv, TypeOK, ApplyHolds, FailFirst
<1>3. i \in DOMAIN journal /\ IsRevision(journal[i]) /\ unknown \subseteq DOMAIN journal
  BY <1>2, TabIs DEF RowsOf, CompactionRows, UnknownRows
<1>. HIDE DEF merged, unknown, claude
<1>4. CASE call' = [call EXCEPT !.marks = MarksOf(unknown, "inapplicable")] /\ UNCHANGED journal
  <2>. DEFINE marks == MarksOf(unknown, "inapplicable")
  <2>1. marks \in Seq(Marks) /\ \A n \in DOMAIN marks : marks[n][2] # "answered"
    BY <1>2, <1>3, RowsAreFinite, MarksOfIs DEF MarkStatuses
  <2>. HIDE DEF marks
  <2>2. call' = [pc |-> "fail", kind |-> call.kind, p |-> call.p, row |-> call.row, doomed |-> call.doomed,
                 marks |-> marks, ids |-> call.ids]
    BY <1>1, <1>2, <1>4 DEF CallOK, marks
  <2>3. call'.pc = "fail" /\ call'.p = call.p /\ call'.row = call.row /\ call'.marks = marks /\ call'.doomed = call.doomed
    BY <2>2
  <2>4. CallOK'
    BY <1>2, <1>4, <2>1, <2>2, <2>3 DEF CallOK
  <2>5. stops' \in Nat
    BY <1>1, <1>2 DEF TypeOK
  <2>6. (TypeOK /\ RevisionsApart /\ AppliedIsNewest /\ NotAppliedOverFeedback /\ AllAnswered)'
    BY <1>1, <1>4, <2>4, <2>5, TabKept
  <2>7. ApplyHolds' /\ FailFirst'
    BY <1>2, <1>4, <2>1, <2>3 DEF ApplyHolds, FailFirst, IsNewest
  <2>8. ConfirmReady' /\ Answering'
    BY <2>3 DEF ConfirmReady, Answering
  <2>. QED
    BY <2>6, <2>7, <2>8 DEF ReviewInv
<1>5. CASE Writes(p, journal[i].rev + 1, written, meta, claude, merged.decided, <<>>, <<>>)
  <2>1. "base" \in DOMAIN journal[i].meta /\ "reason" \in DOMAIN journal[i].meta
    BY <1>3 DEF IsRevision, MetaOK
  <2>2. meta.base = journal[i].rev /\ "base" \in DOMAIN meta /\ "reason" \in DOMAIN meta
    BY <2>1 DEF RebuiltMeta
  <2>3. meta.reason \notin RevisedReasons
    <3>1. meta.reason = "apply failed"
      BY <2>1 DEF RebuiltMeta
    <3>2. "apply failed" \notin RevisedReasons
      BY DEF RevisedReasons
    <3>. HIDE DEF meta
    <3>. QED
      BY <3>1, <3>2, Zenon
  <2>. HIDE DEF meta
  <2>4. <<>> \in Seq(Marks) /\ Answered(p, meta, <<>>) /\ <<>> \in Seq({})
    BY <2>3 DEF Answered
  <2>. QED
    BY <1>1, <1>2, <1>5, <2>2, <2>4, RevisionKeeps
<1>6. CASE AsksClaude(p)
  <2>0. i = Current(p)
    <3>1. RowsOf(journal, p, "compaction") # {}
      BY <1>2
    <3>2. Current(p) \in RowsOf(journal, p, "compaction") /\ IsNewest(Current(p))
      BY <1>2, <3>1, NewestIs DEF Current
    <3>. QED
      BY <1>2, <3>2, OnlyNewest DEF ReviewInv, RowsOf, CompactionRows
  <2>1. /\ call' = Idle
        /\ journal' = Append(journal, FeedbackRow(p, NextFeedbackSeq(journal, p), NoName, "server", journal[i].rev))
    BY <1>6, <2>0 DEF AsksClaude
  <2>2. journal[i].status \notin ApplyingStatuses
    BY <1>2 DEF ApplyingStatuses
  <2>. HIDE DEF i, p
  <2>. QED
    BY <1>1, <1>2, <2>1, <2>2, FeedbackKeeps
<1>. QED
  BY <1>1, <1>4, <1>5, <1>6

----------------------------------------------------------------------------
(* Every step keeps the invariant *)

LEMMA InitHolds == Init => ReviewInv
<1>. SUFFICES ASSUME Init PROVE ReviewInv
  OBVIOUS
<1>1. journal = <<>> /\ call = Idle /\ proposals = 0 /\ stops = 0
  BY DEF Init
<1>2. DOMAIN journal = {} /\ journal \in Seq(Tab)
  BY <1>1 DEF Tab
<1>3. CompactionRows(journal) = {}
  BY <1>2 DEF CompactionRows
<1>4. call.pc = "idle" /\ CallOK
  BY <1>1, IdleIs DEF CallOK
<1>5. TypeOK
  BY <1>1, <1>2, <1>4 DEF TypeOK
<1>. QED
  BY <1>2, <1>3, <1>4, <1>5
     DEF ReviewInv, RevisionsApart, AppliedIsNewest, NotAppliedOverFeedback, ConfirmReady, ApplyHolds, FailFirst,
         Answering, AllAnswered

\* A step of the world's: the calendar changes, or the user writes a note.
WorldMoves == (\E e \in Events : ChangeOutside(e) \/ Vanish(e)) \/ WriteNote

LEMMA WorldMovesKeeps ==
    ASSUME ReviewInv, WorldMoves
    PROVE  ReviewInv'
<1>1. UNCHANGED <<journal, call, proposals, stops>>
  BY DEF WorldMoves, ChangeOutside, Vanish, WriteNote, budgets
<1>. QED
  BY <1>1, NothingChanges

\* A call that writes a revision, or doesn't come to.
Calls ==
    \/ \E kind : Collect(kind)
    \/ \E kind : Collected(kind) /\ \E says :
           \/ Propose(says)
           \/ \E base \in RowsOf(journal, OpenProposal(journal), "compaction") :
                  \/ \E replies \in SUBSET OpenFeedback(journal, OpenProposal(journal)) : Revise(base, replies, says)
                  \/ Amend(base, says)

LEMMA CallsKeep ==
    ASSUME ReviewInv, Calls
    PROVE  ReviewInv'
<1>1. ASSUME NEW kind, Collect(kind) PROVE ReviewInv'
  BY <1>1, CollectKeeps
<1>2. ASSUME NEW kind, Collected(kind), NEW says, Propose(says) PROVE ReviewInv'
  <2>1. call.pc # "mark"
    BY <1>2, CollectedWhen
  <2>. QED
    BY <1>2, <2>1, ProposeKeeps
<1>3. ASSUME NEW kind, Collected(kind), NEW says, NEW base \in RowsOf(journal, OpenProposal(journal), "compaction"),
             NEW replies \in SUBSET OpenFeedback(journal, OpenProposal(journal)), Revise(base, replies, says)
      PROVE  ReviewInv'
  <2>1. call.pc # "mark"
    BY <1>3, CollectedWhen
  <2>. QED
    BY <1>3, <2>1, ReviseKeeps
<1>4. ASSUME NEW kind, Collected(kind), NEW says, NEW base \in RowsOf(journal, OpenProposal(journal), "compaction"),
             Amend(base, says)
      PROVE  ReviewInv'
  <2>1. call.pc # "mark"
    BY <1>4, CollectedWhen
  <2>. QED
    BY <1>4, <2>1, AmendKeeps
<1>. QED
  BY <1>1, <1>2, <1>3, <1>4 DEF Calls

LEMMA NextIs ==
    ASSUME Next
    PROVE  \/ Calls \/ DeleteRun \/ NothingToDo \/ Mark
           \/ \E about : AddNote(about)
           \/ \E i : Withdraw(i) \/ Abandon(i)
           \/ ConfirmApplies \/ ConfirmRechecks \/ ConfirmNeedsClaude
           \/ \E p \in Proposals(journal) : Finish(p)
           \/ ApplyEnds \/ ApplyFails \/ Rebuild \/ CallStops
           \/ WorldMoves
BY Zenon DEF Next, Calls, WorldMoves

LEMMA NextKeeps ==
    ASSUME ReviewInv, [Next]_vars
    PROVE  ReviewInv'
<1>1. CASE UNCHANGED vars
  BY <1>1, NothingChanges DEF vars
<1>2. CASE Next
  <2>1. CASE Calls
    BY <2>1, CallsKeep
  <2>2. CASE DeleteRun
    BY <2>2, DeleteRunKeeps
  <2>3. CASE NothingToDo
    BY <2>3, NothingToDoKeeps
  <2>4. CASE Mark
    BY <2>4, MarkKeeps
  <2>5. ASSUME NEW about, AddNote(about) PROVE ReviewInv'
    BY <2>5, AddNoteKeeps
  <2>6. ASSUME NEW i, Withdraw(i) \/ Abandon(i) PROVE ReviewInv'
    BY <2>6, WithdrawKeeps
  <2>7. CASE ConfirmApplies
    BY <2>7, ConfirmAppliesKeeps
  <2>8. CASE ConfirmRechecks
    BY <2>8, ConfirmRechecksKeeps
  <2>9. CASE ConfirmNeedsClaude
    BY <2>9, ConfirmNeedsClaudeKeeps
  <2>10. ASSUME NEW p \in Proposals(journal), Finish(p) PROVE ReviewInv'
    BY <2>10, FinishKeeps
  <2>11. CASE ApplyEnds
    BY <2>11, ApplyEndsKeeps
  <2>12. CASE ApplyFails
    BY <2>12, ApplyFailsKeeps
  <2>13. CASE Rebuild
    BY <2>13, RebuildKeeps
  <2>14. CASE CallStops
    BY <2>14, CallStopsKeeps
  <2>15. CASE WorldMoves
    BY <2>15, WorldMovesKeeps
  <2>. QED
    BY <1>2, <2>1, <2>2, <2>3, <2>4, <2>5, <2>6, <2>7, <2>8, <2>9, <2>10, <2>11, <2>12, <2>13, <2>14, <2>15, NextIs
<1>. QED
  BY <1>1, <1>2

\* The invariant holds throughout.
THEOREM ReviewHolds == Spec => []ReviewInv
<1>1. Init => ReviewInv
  BY InitHolds
<1>2. ReviewInv /\ [Next]_vars => ReviewInv'
  BY NextKeeps
<1>. QED
  BY <1>1, <1>2, PTL DEF Spec

\* Nothing is applied over feedback that's still open (confirm, add_note,
\* needs_claude), however the user, Claude and garbage collection meet it.
THEOREM NothingAppliedOverFeedback == Spec => []NotAppliedOverFeedback
<1>1. ReviewInv => NotAppliedOverFeedback
  BY DEF ReviewInv
<1>. QED
  BY <1>1, ReviewHolds, PTL

----------------------------------------------------------------------------
(* Feedback is answered *)

\* Nothing that's open is marked answered in this step.
NoneMarked ==
    Len(journal') = Len(journal) =>
        \A i \in DOMAIN journal : journal[i].kind = "feedback" /\ journal[i].status = "open" => journal'[i].status # "answered"

LEMMA WritesMarkNone ==
    ASSUME ReviewInv, NEW p, NEW r, NEW notes, NEW meta, NEW claude, NEW decided, NEW E, NEW edits \in Seq(E), NEW marks,
           Writes(p, r, notes, meta, claude, decided, edits, marks)
    PROVE  NoneMarked
<1>. DEFINE k == Len(edits)
            X == CompactionRow(p, r, notes, meta)
            Y == PlannedRow(p, r, claude, decided, cal)
            B == [i \in 1 .. k |-> EditRow(p, edits[i])]
            S == Tab \cup {EditRow(p, edits[i]) : i \in 1 .. k} \cup {X, Y}
<1>1. journal \in Seq(Tab) /\ Len(journal) \in Nat /\ k \in Nat
  BY TabIs, LenProperties DEF ReviewInv, TypeOK
<1>2. journal \in Seq(S)
  BY <1>1, SeqMonotonic
<1>3. B \in Seq(S) /\ Len(B) = k
  <2>1. B \in [1 .. k -> S]
    OBVIOUS
  <2>2. B \in Seq(S)
    BY <1>1, <2>1, SeqDef
  <2>. QED
    BY <1>1, <2>2, LenProperties
<1>4. <<X, Y>> \in Seq(S) /\ Len(<<X, Y>>) = 2
  OBVIOUS
<1>5. journal' = (journal \o B) \o <<X, Y>>
  BY DEF Writes, StartBatch
<1>. HIDE DEF S, B, X, Y, k
<1>6. journal \o B \in Seq(S) /\ Len(journal \o B) = Len(journal) + k
  BY <1>2, <1>3, ConcatProperties
<1>7. Len(journal') = Len(journal) + k + 2
  BY <1>4, <1>5, <1>6, ConcatProperties
<1>. QED
  BY <1>1, <1>7 DEF NoneMarked

LEMMA FeedbackMarksNone ==
    ASSUME ReviewInv, NEW row, journal' = Append(journal, row)
    PROVE  NoneMarked
<1>1. journal \in Seq(Tab) /\ Len(journal) \in Nat
  BY TabIs DEF ReviewInv, TypeOK
<1>2. journal \in Seq(Tab \cup {row}) /\ row \in Tab \cup {row}
  BY <1>1, SeqMonotonic
<1>3. Len(journal') = Len(journal) + 1
  BY <1>2, AppendProperties
<1>. QED
  BY <1>1, <1>3 DEF NoneMarked

LEMMA RestatedMarksNone ==
    ASSUME ReviewInv, NEW i, NEW status, status # "answered", journal' = [journal EXCEPT ![i].status = status]
    PROVE  NoneMarked
<1>1. Restates(i, status)
  BY RestatesByExcept DEF ReviewInv
<1>. QED
  BY <1>1 DEF NoneMarked, Restates, Restated

LEMMA TabKeptMarksNone ==
    ASSUME UNCHANGED journal
    PROVE  NoneMarked
BY DEF NoneMarked

LEMMA CallsMarkNone ==
    ASSUME ReviewInv, Calls
    PROVE  NoneMarked
<1>1. ASSUME NEW kind, Collect(kind) PROVE NoneMarked
  <2>1. UNCHANGED journal
    BY <1>1 DEF Collect
  <2>. QED
    BY <2>1, TabKeptMarksNone
<1>2. ASSUME NEW says, Propose(says) PROVE NoneMarked
  <2>1. <<>> \in Seq({})
    OBVIOUS
  <2>. QED
    BY <1>2, <2>1, WritesMarkNone DEF Propose
<1>3. ASSUME NEW base, NEW replies, NEW says, Revise(base, replies, says) PROVE NoneMarked
  <2>1. <<>> \in Seq({})
    OBVIOUS
  <2>. QED
    BY <1>3, <2>1, WritesMarkNone DEF Revise
<1>4. ASSUME NEW base, NEW says, Amend(base, says) PROVE NoneMarked
  <2>1. \A edit : <<edit>> \in Seq({edit})
    OBVIOUS
  <2>. QED
    BY <1>4, <2>1, WritesMarkNone DEF Amend
<1>. QED
  BY <1>1, <1>2, <1>3, <1>4 DEF Calls

\* No step but Mark's.
LEMMA OnlyMarkAnswers ==
    ASSUME ReviewInv, Next, ~Mark
    PROVE  NoneMarked
<1>1. CASE Calls
  BY <1>1, CallsMarkNone
<1>2. CASE DeleteRun
  <2>1. /\ call.pc = "collect" /\ call.doomed # {} /\ journal' = Deleted(journal, LastRun(call.doomed))
        /\ TypeOK /\ call.doomed \subseteq DOMAIN journal
    BY <1>2 DEF DeleteRun, RunToDelete, ReviewInv, TypeOK, CallOK
  <2>2. Len(journal') < Len(journal)
    BY <2>1, DeletedRows
  <2>3. Len(journal) \in Nat
    BY <2>1, TabIs
  <2>. QED
    BY <2>2, <2>3 DEF NoneMarked
<1>3. CASE NothingToDo \/ ApplyFails \/ CallStops \/ WorldMoves \/ \E p \in Proposals(journal) : Finish(p)
  <2>1. NothingToDo \/ CallStops => UNCHANGED journal
    BY DEF NothingToDo, CallStops
  <2>2. ApplyFails => UNCHANGED journal
    BY DEF ApplyFails
  <2>3. WorldMoves => UNCHANGED journal
    BY DEF WorldMoves, ChangeOutside, Vanish, WriteNote
  <2>4. \A p \in Proposals(journal) : Finish(p) => UNCHANGED journal
    BY DEF Finish
  <2>. QED
    BY <1>3, <2>1, <2>2, <2>3, <2>4, TabKeptMarksNone
<1>4. ASSUME NEW about, AddNote(about) PROVE NoneMarked
  BY <1>4, FeedbackMarksNone DEF AddNote
<1>5. CASE ConfirmNeedsClaude
  BY <1>5, FeedbackMarksNone DEF ConfirmNeedsClaude, AsksClaude
<1>6. ASSUME NEW i, Withdraw(i) \/ Abandon(i) PROVE NoneMarked
  <2>1. CASE Withdraw(i)
    BY <2>1, RestatedMarksNone DEF Withdraw
  <2>2. CASE Abandon(i)
    BY <2>2, RestatedMarksNone DEF Abandon
  <2>. QED
    BY <1>6, <2>1, <2>2
<1>7. CASE ConfirmApplies
  BY <1>7, RestatedMarksNone DEF ConfirmApplies
<1>8. CASE ApplyEnds
  BY <1>8, RestatedMarksNone DEF ApplyEnds
<1>9. CASE ConfirmRechecks
  <2>1. <<>> \in Seq({})
    OBVIOUS
  <2>. QED
    BY <1>9, <2>1, WritesMarkNone DEF ConfirmRechecks
<1>10. CASE Rebuild
  <2>. DEFINE i == call.row
              merged == Left(i, call.ids)
              meta == RebuiltMeta(i, call.ids)
              claude == Carried(Planned(i).claude, call.ids)
  <2>1. \/ UNCHANGED journal
        \/ Writes(call.p, journal[i].rev + 1, written, meta, claude, merged.decided, <<>>, <<>>)
        \/ AsksClaude(call.p)
    BY <1>10 DEF Rebuild
  <2>. HIDE DEF merged, meta, claude, i
  <2>2. <<>> \in Seq({})
    OBVIOUS
  <2>3. CASE Writes(call.p, journal[i].rev + 1, written, meta, claude, merged.decided, <<>>, <<>>)
    BY <2>2, <2>3, WritesMarkNone
  <2>4. CASE AsksClaude(call.p)
    BY <2>4, FeedbackMarksNone DEF AsksClaude
  <2>. QED
    BY <2>1, <2>3, <2>4, TabKeptMarksNone
<1>. QED
  BY <1>1, <1>2, <1>3, <1>4, <1>5, <1>6, <1>7, <1>8, <1>9, <1>10, NextIs

\* What's marked answered is answered by a revision Claude made after it.
LEMMA MarkAnswers ==
    ASSUME ReviewInv, Mark
    PROVE  AnswerIsThere
<1>. DEFINE m == Head(call.marks)[1]
            status == Head(call.marks)[2]
            r == journal[Current(call.p)].rev
<1>1. /\ call.pc \in {"mark", "fail"} /\ call.marks # <<>>
      /\ journal' = [journal EXCEPT ![m] = Marked(@, status, r)]
  BY DEF Mark
<1>2. TypeOK /\ RevisionsApart /\ call.marks \in Seq(Marks)
  BY DEF ReviewInv, TypeOK, CallOK
<1>3. 1 \in DOMAIN call.marks /\ call.marks[1] = <<m, status>>
  <2>1. Len(call.marks) \in Nat /\ Len(call.marks) # 0 /\ DOMAIN call.marks = 1 .. Len(call.marks)
    BY <1>1, <1>2, LenProperties, EmptySeq
  <2>2. 1 \in DOMAIN call.marks /\ Head(call.marks) = call.marks[1] /\ call.marks[1] \in Marks
    BY <1>2, <2>1
  <2>. QED
    BY <2>2 DEF Marks
<1>4. /\ Restates(m, status)
      /\ m \in DOMAIN journal /\ journal[m].kind = "feedback" /\ status = "answered" => journal'[m].answeredIn = r
  BY <1>1, <1>2, RestatesByMark
<1>. HIDE DEF m, status
<1>. SUFFICES ASSUME NEW i \in DOMAIN journal, journal[i].kind = "feedback", journal[i].status = "open",
                     journal'[i].status = "answered"
     PROVE  \E j \in RowsOf(journal, journal[i].of, "compaction") :
                j > i /\ journal[j].meta.reason = "revised" /\ journal'[i].answeredIn = journal[j].rev
  BY DEF AnswerIsThere
<1>5. i = m /\ status = "answered"
  BY <1>4 DEF Restates, Restated
<1>6. call.pc = "mark"
  BY <1>1, <1>3, <1>5 DEF ReviewInv, FailFirst
<1>7. /\ i \in Feedback(journal, call.p)
      /\ \E c \in RowsOf(journal, call.p, "compaction") : IsNewest(c) /\ c > i /\ journal[c].meta.reason = "revised"
  BY <1>3, <1>5, <1>6 DEF ReviewInv, Answering
<1>8. PICK c \in RowsOf(journal, call.p, "compaction") : IsNewest(c) /\ c > i /\ journal[c].meta.reason = "revised"
  BY <1>7
<1>9. Current(call.p) \in RowsOf(journal, call.p, "compaction") /\ IsNewest(Current(call.p))
  <2>1. RowsOf(journal, call.p, "compaction") # {}
    OBVIOUS
  <2>. QED
    BY <1>2, <2>1, NewestIs DEF Current
<1>10. Current(call.p) = c
  BY <1>2, <1>8, <1>9, OnlyNewest DEF RowsOf, CompactionRows
<1>11. journal[i].of = call.p
  BY <1>7 DEF Feedback, RowsOf
<1>12. journal'[i].answeredIn = journal[c].rev
  BY <1>4, <1>5, <1>10
<1>. QED
  BY <1>8, <1>11, <1>12

\* The user's feedback is answered: by a revision of Claude's that's there
\* (dry_run writes it before it marks what it answers), and by the first
\* Claude makes of one written after it, unless a call stopped partway.
THEOREM FeedbackIsAnswered == Spec => FeedbackAnswered
<1>1. ReviewInv /\ ReviewInv' /\ [Next]_vars => [AnswerIsThere /\ NonePassedOver']_vars
  <2>. SUFFICES ASSUME ReviewInv, ReviewInv', Next PROVE AnswerIsThere /\ NonePassedOver'
    OBVIOUS
  <2>1. AnswerIsThere
    <3>1. CASE Mark
      BY <3>1, MarkAnswers
    <3>2. CASE ~Mark
      <4>1. NoneMarked
        BY <3>2, OnlyMarkAnswers
      <4>. QED
        BY <4>1 DEF NoneMarked, AnswerIsThere
    <3>. QED
      BY <3>1, <3>2
  <2>2. NonePassedOver'
    <3>1. AllAnswered'
      BY DEF ReviewInv
    <3>2. call' = Idle => \A i \in DOMAIN journal' : ~ToBeAnswered(i)'
      <4>1. call' = Idle => call'.pc = "idle"
        BY IdleIs
      <4>. QED
        BY <4>1 DEF ToBeAnswered
    <3>. QED
      BY <3>1, <3>2 DEF AllAnswered, NonePassedOver
  <2>. QED
    BY <2>1, <2>2
<1>. QED
  BY <1>1, ReviewHolds, PTL DEF Spec, FeedbackAnswered

----------------------------------------------------------------------------
(* Proposals that are finished: what keeps them so *)

\* A proposal's revisions are numbered in order, each plan follows its
\* revision, and one that's stamped is its proposal's newest.
StatusesKnown == \A i \in CompactionRows(journal) : journal[i].status \in RevisionStatuses
RevisionsInOrder ==
    \A i, j \in CompactionRows(journal) :
        journal[i].rev # 0 /\ (i < j /\ journal[i].of = journal[j].of => journal[i].rev < journal[j].rev)
PlanFollows ==
    \A j \in DOMAIN journal : journal[j].kind = "planned" =>
        j - 1 \in CompactionRows(journal) /\ journal[j - 1].of = journal[j].of /\ journal[j - 1].rev = journal[j].rev
StampedIsNewest == \A i \in CompactionRows(journal) : journal[i].status = "stamped" => IsNewest(i)
Ordered == StatusesKnown /\ RevisionsInOrder /\ PlanFollows /\ StampedIsNewest

\* What a call goes on with is open, and its marks are of rows they fit.
ConfirmOpen == call.pc = "collect" /\ call.kind = "confirm" => journal[Current(call.p)].status = "proposed"
FailingOpen == call.pc = "fail" => journal[call.row].status \in {"applying", "failed"}
MarksFit ==
    call.pc \in {"mark", "fail"} =>
        \A n \in DOMAIN call.marks :
            \/ call.marks[n][1] \in DOMAIN journal \ CompactionRows(journal)
            \/ call.pc = "mark" /\ call.marks[n][2] = "superseded"
            \/ call.pc = "fail" /\ call.marks[n] = <<call.row, "failed">>

\* With a revision that's collected go its plan and all its proposal had before
\* it, but for revisions that aren't finished.
TakesBefore(doomed, j) ==
    /\ j + 1 \in DOMAIN journal /\ journal[j + 1].kind = "planned" => j + 1 \in doomed
    /\ \A i \in DOMAIN journal : i < j /\ journal[i].of = journal[j].of /\ journal[i].kind # "planned" =>
           \/ i \in doomed
           \/ journal[i].kind = "compaction" /\ journal[i].status \in {"proposed", "applying"}
DoomedWhole == call.pc = "collect" => \A j \in call.doomed \cap CompactionRows(journal) : TakesBefore(call.doomed, j)
CallFits == ConfirmOpen /\ FailingOpen /\ MarksFit /\ DoomedWhole
FinishedInv == Ordered /\ CallFits

\* A row whose new status leaves finished what was, and a stamped revision its
\* proposal's newest.
Fits(i, status) ==
    i \in CompactionRows(journal) =>
        /\ status \in RevisionStatuses
        /\ status = "stamped" => IsNewest(i)
        /\ status \notin FinishedStatuses => journal[i].status \notin FinishedStatuses

\* Its revision is numbered after those it has, none of them stamped, and it's
\* open already or the one just begun.
Follows(p, r) ==
    /\ r \in Nat /\ r # 0 /\ p \in Nat
    /\ \A i \in RowsOf(journal, p, "compaction") : journal[i].rev < r /\ journal[i].status # "stamped"
    /\ p = proposals' \/ p \in OpenProposals(journal)

\* How a step changes the tab.
TabMoves ==
    \/ UNCHANGED journal
    \/ \E p, r, meta, c : AddsRevision(p, r, meta, c) /\ Follows(p, r)
    \/ \E p, row : AddsFeedback(p, row) /\ row.kind = "feedback"
    \/ \E i, status : Restates(i, status) /\ Fits(i, status)
    \/ DeleteRun

\* Whether a proposal's open is its newest revision's status.
NewestOpens ==
    \A p : \A i \in RowsOf(journal, p, "compaction") :
        IsNewest(i) => Newest(journal, p) = i /\ (p \in OpenProposals(journal) <=> journal[i].status \notin FinishedStatuses)

LEMMA NewestTells == TypeOK /\ RevisionsApart => NewestOpens
<1>. SUFFICES ASSUME TypeOK, RevisionsApart, NEW p, NEW i \in RowsOf(journal, p, "compaction"), IsNewest(i)
     PROVE  Newest(journal, p) = i /\ (p \in OpenProposals(journal) <=> journal[i].status \notin FinishedStatuses)
  BY DEF NewestOpens
<1>1. Newest(journal, p) \in RowsOf(journal, p, "compaction") /\ IsNewest(Newest(journal, p))
  BY NewestIs
<1>2. Newest(journal, p) = i
  BY <1>1, OnlyNewest DEF RowsOf, CompactionRows
<1>3. p \in Proposals(journal)
  BY DEF Proposals, RowsOf, CompactionRows
<1>. QED
  BY <1>2, <1>3 DEF OpenProposals

LEMMA NewestTellsThen == TypeOK' /\ RevisionsApart' => NewestOpens'
<1>1. TypeOK /\ RevisionsApart => NewestOpens
  BY NewestTells
<1>. QED
  BY <1>1, PTL

\* What's open has a newest revision that isn't finished.
OpenHaveNewest ==
    \A p \in OpenProposals(journal) :
        \E i \in RowsOf(journal, p, "compaction") :
            IsNewest(i) /\ i = Newest(journal, p) /\ journal[i].status \notin FinishedStatuses

LEMMA OpenHasNewest == TypeOK => OpenHaveNewest
<1>. SUFFICES ASSUME TypeOK, NEW p \in OpenProposals(journal)
     PROVE  \E i \in RowsOf(journal, p, "compaction") :
                IsNewest(i) /\ i = Newest(journal, p) /\ journal[i].status \notin FinishedStatuses
  BY DEF OpenHaveNewest
<1>1. RowsOf(journal, p, "compaction") # {} /\ journal[Newest(journal, p)].status \notin FinishedStatuses
  BY DEF OpenProposals, Proposals, RowsOf, CompactionRows
<1>. QED
  BY <1>1, NewestIs

LEMMA OpenHasNewestThen == TypeOK' => OpenHaveNewest'
<1>1. TypeOK => OpenHaveNewest
  BY OpenHasNewest
<1>. QED
  BY <1>1, PTL

\* A revision after the newest, i, of a proposal that isn't finished.
LEMMA RevisionFollows ==
    ASSUME ReviewInv, StampedIsNewest, NEW p, NEW i \in RowsOf(journal, p, "compaction"), IsNewest(i),
           journal[i].status \notin FinishedStatuses
    PROVE  Follows(p, journal[i].rev + 1)
<1>1. TypeOK /\ RevisionsApart
  BY DEF ReviewInv
<1>2. i \in CompactionRows(journal) /\ journal[i].of = p
  BY DEF RowsOf, CompactionRows
<1>3. journal[i].rev \in Nat /\ p \in Nat
  BY <1>1, <1>2, TabIs DEF CompactionRows
<1>4. p \in OpenProposals(journal)
  BY <1>1, NewestTells DEF NewestOpens
<1>5. \A j \in RowsOf(journal, p, "compaction") : journal[j].rev < journal[i].rev + 1 /\ journal[j].status # "stamped"
  <2>. SUFFICES ASSUME NEW j \in RowsOf(journal, p, "compaction")
       PROVE  journal[j].rev < journal[i].rev + 1 /\ journal[j].status # "stamped"
    OBVIOUS
  <2>1. j \in CompactionRows(journal) /\ journal[j].of = p
    BY DEF RowsOf, CompactionRows
  <2>2. journal[j].rev \in Nat /\ journal[j].rev <= journal[i].rev
    BY <1>1, <1>2, <2>1, TabIs DEF IsNewest
  <2>3. journal[j].status = "stamped" => j = i
    BY <1>1, <1>2, <2>1, OnlyNewest DEF StampedIsNewest
  <2>4. journal[i].status # "stamped"
    BY DEF FinishedStatuses
  <2>. QED
    BY <1>3, <2>2, <2>3, <2>4
<1>6. journal[i].rev + 1 \in Nat /\ journal[i].rev + 1 # 0
  BY <1>3
<1>. QED
  BY <1>3, <1>4, <1>5, <1>6 DEF Follows

\* What a revision's written as, the edits before it whatever they are.
LEMMA WritesAdd ==
    ASSUME TypeOK, NEW p, NEW r, NEW notes, NEW meta, NEW claude, NEW decided, NEW E, NEW edits \in Seq(E), NEW marks,
           Writes(p, r, notes, meta, claude, decided, edits, marks)
    PROVE  \E c : AddsRevision(p, r, meta, c)
<1>1. journal' = StartBatch(journal, p, r, notes, meta, claude, decided, cal, edits)
  BY DEF Writes
<1>. QED
  BY <1>1, BatchStarted

LEMMA WritesMove ==
    ASSUME ReviewInv, NEW p, NEW r, Follows(p, r), NEW notes, NEW meta, NEW claude, NEW decided, NEW E,
           NEW edits \in Seq(E), NEW marks, Writes(p, r, notes, meta, claude, decided, edits, marks)
    PROVE  TabMoves
<1>1. \E c : AddsRevision(p, r, meta, c)
  BY WritesAdd DEF ReviewInv
<1>. QED
  BY <1>1 DEF TabMoves

\* What the open proposal is revised from.
LEMMA CurrentIsOpen ==
    ASSUME ReviewInv, OpenProposal(journal) # 0
    PROVE  LET p == OpenProposal(journal)
           IN  /\ Current(p) \in RowsOf(journal, p, "compaction") /\ IsNewest(Current(p))
               /\ journal[Current(p)].status \notin FinishedStatuses
<1>1. OpenProposal(journal) \in OpenProposals(journal) /\ TypeOK /\ RevisionsApart
  BY OpenIsThere DEF ReviewInv
<1>. QED
  BY <1>1, OpenHasNewest DEF OpenHaveNewest, Current

LEMMA ConfirmingIsOpen ==
    ASSUME ReviewInv, ConfirmOpen, Collected("confirm")
    PROVE  journal[Current(Confirming)].status = "proposed"
<1>1. CASE call.pc = "collect"
  <2>1. call.kind = "confirm"
    BY <1>1, IdleIs DEF Collected, MayCall
  <2>. QED
    BY <1>1, <2>1 DEF ConfirmOpen, Confirming
<1>2. CASE call.pc # "collect"
  <2>1. Confirmable(OpenProposal(journal))
    BY <1>2 DEF Collected
  <2>. QED
    BY <1>2, <2>1 DEF Confirming, Confirmable
<1>. QED
  BY <1>1, <1>2

LEMMA ProposeMoves ==
    ASSUME ReviewInv, NEW says, Propose(says)
    PROVE  TabMoves
<1>. DEFINE p == proposals + 1
            meta == [NewMeta EXCEPT !.keys = says.creates, !.ignore = says.ignores, !.targets = says.targets]
            claude == Keyed(p, says, 0)
            merged == Merge(p, claude, <<>>, OptionsOf(meta, written))
<1>1. proposals' = p /\ Writes(p, 1, written, meta, claude, merged.decided, <<>>, <<>>)
  BY DEF Propose
<1>. HIDE DEF claude, merged, meta
<1>2. Follows(p, 1)
  <2>1. p \in Nat /\ proposals \in Nat
    BY DEF ReviewInv, TypeOK
  <2>2. \A i \in RowsOf(journal, p, "compaction") : journal[i].of = p /\ journal[i].of \in Nat /\ journal[i].of <= proposals
    BY TabIs DEF ReviewInv, RowsOf
  <2>3. RowsOf(journal, p, "compaction") = {}
    BY <2>1, <2>2
  <2>. QED
    BY <1>1, <2>1, <2>3 DEF Follows
<1>3. <<>> \in Seq({})
  OBVIOUS
<1>. HIDE DEF p
<1>. QED
  BY <1>1, <1>2, <1>3, WritesMove

LEMMA ReviseMoves ==
    ASSUME ReviewInv, StampedIsNewest, NEW base, NEW replies, NEW says, Revise(base, replies, says)
    PROVE  TabMoves
<1>. DEFINE p == OpenProposal(journal)
            current == Current(p)
            was == journal[current].meta
            replaced == Replaced(p, base, replies)
            edits == SelectSeq(ActiveEdits(journal, p),
                               LAMBDA edit : \A i \in replaced : journal[i].edit.seq # edit.seq)
            meta == [was EXCEPT !.base = journal[base].rev, !.seq = LastSeq(journal, p), !.by = "claude",
                                !.reason = IF replies = {} THEN "extended" ELSE "revised", !.keys = @ + says.creates,
                                !.ignore = says.ignores, !.targets = says.targets]
            claude == Keyed(p, says, was.keys)
            merged == Merge(p, claude, edits, OptionsOf(meta, written))
            marks == MarksAfter(p, current, replies, replaced, merged)
<1>1. p # 0 /\ Writes(p, journal[current].rev + 1, written, meta, claude, merged.decided, <<>>, marks)
  BY DEF Revise
<1>. HIDE DEF marks, merged, claude, meta, edits, replaced, was
<1>2. current \in RowsOf(journal, p, "compaction") /\ IsNewest(current) /\ journal[current].status \notin FinishedStatuses
  BY <1>1, CurrentIsOpen
<1>. HIDE DEF current, p
<1>3. Follows(p, journal[current].rev + 1)
  BY <1>2, RevisionFollows
<1>4. <<>> \in Seq({})
  OBVIOUS
<1>. QED
  BY <1>1, <1>3, <1>4, WritesMove

LEMMA AmendMoves ==
    ASSUME ReviewInv, StampedIsNewest, NEW base, NEW says, Amend(base, says)
    PROVE  TabMoves
<1>. DEFINE p == OpenProposal(journal)
            current == Current(p)
            was == journal[current].meta
            edit == NewEdit(p, says, LastSeq(journal, p) + 1, journal[base].rev)
            meta == [was EXCEPT !.base = journal[base].rev, !.seq = edit.seq, !.by = "user", !.reason = "user edit"]
            claude == Planned(current).claude
            merged == Merge(p, claude, Append(ActiveEdits(journal, p), edit), OptionsOf(was, journal[current].notes))
            marks == MarksAfter(p, current, {}, {}, merged)
<1>1. p # 0 /\ Writes(p, journal[current].rev + 1, journal[current].notes, meta, claude, merged.decided, <<edit>>, marks)
  BY DEF Amend, Amendable
<1>. HIDE DEF marks, merged, claude, meta, edit, was
<1>2. current \in RowsOf(journal, p, "compaction") /\ IsNewest(current) /\ journal[current].status \notin FinishedStatuses
  BY <1>1, CurrentIsOpen
<1>. HIDE DEF current, p
<1>3. Follows(p, journal[current].rev + 1)
  BY <1>2, RevisionFollows
<1>4. <<edit>> \in Seq({edit})
  OBVIOUS
<1>. QED
  BY <1>1, <1>3, <1>4, WritesMove

\* Feedback is added.
LEMMA FeedbackMoves ==
    ASSUME ReviewInv, NEW p \in Nat, NEW seq, NEW about, NEW by, NEW since,
           journal' = Append(journal, FeedbackRow(p, seq, about, by, since))
    PROVE  TabMoves
<1>1. AddsFeedback(p, FeedbackRow(p, seq, about, by, since))
  BY FeedbackAppended DEF ReviewInv
<1>2. FeedbackRow(p, seq, about, by, since).kind = "feedback"
  BY DEF FeedbackRow
<1>. QED
  BY <1>1, <1>2 DEF TabMoves

LEMMA AddNoteMoves ==
    ASSUME ReviewInv, NEW about, AddNote(about)
    PROVE  TabMoves
<1>. DEFINE p == OpenProposal(journal)
<1>1. /\ p # 0
      /\ journal' = Append(journal, FeedbackRow(p, NextFeedbackSeq(journal, p), about, "user", journal[Current(p)].rev))
  BY DEF AddNote, Amendable
<1>2. p \in Nat
  BY <1>1, OpenIsThere DEF ReviewInv
<1>. HIDE DEF p
<1>. QED
  BY <1>1, <1>2, FeedbackMoves

LEMMA ConfirmNeedsClaudeMoves ==
    ASSUME ReviewInv, ConfirmNeedsClaude
    PROVE  TabMoves
<1>. DEFINE p == Confirming
<1>1. /\ Collected("confirm")
      /\ journal' = Append(journal, FeedbackRow(p, NextFeedbackSeq(journal, p), NoName, "server", journal[Current(p)].rev))
  BY DEF ConfirmNeedsClaude, AsksClaude
<1>2. p \in Nat
  BY <1>1, ConfirmingIsReady
<1>. HIDE DEF p
<1>. QED
  BY <1>1, <1>2, FeedbackMoves

LEMMA ConfirmAppliesMoves ==
    ASSUME ReviewInv, ConfirmOpen, ConfirmApplies
    PROVE  TabMoves
<1>. DEFINE i == Current(Confirming)
<1>1. Collected("confirm") /\ journal' = [journal EXCEPT ![i].status = "applying"]
  BY DEF ConfirmApplies
<1>2. journal[i].status = "proposed"
  BY <1>1, ConfirmingIsOpen
<1>. HIDE DEF i
<1>3. Restates(i, "applying")
  BY <1>1, RestatesByExcept DEF ReviewInv
<1>4. Fits(i, "applying")
  BY <1>2 DEF Fits, RevisionStatuses, FinishedStatuses
<1>. QED
  BY <1>3, <1>4 DEF TabMoves

LEMMA ConfirmRechecksMoves ==
    ASSUME ReviewInv, StampedIsNewest, ConfirmOpen, ConfirmRechecks
    PROVE  TabMoves
<1>. DEFINE p == Confirming
            i == Current(p)
            meta == [journal[i].meta EXCEPT !.base = journal[i].rev, !.by = "server", !.reason = "recheck"]
            claude == Planned(i).claude
            decided == Planned(i).decided
            marks == Superseding(i)
<1>1. Collected("confirm") /\ Writes(p, journal[i].rev + 1, written, meta, claude, decided, <<>>, marks)
  BY DEF ConfirmRechecks
<1>. HIDE DEF meta, claude, decided, marks
<1>2. i \in RowsOf(journal, p, "compaction") /\ IsNewest(i) /\ journal[i].status = "proposed"
  BY <1>1, ConfirmingIsReady, ConfirmingIsOpen
<1>3. journal[i].status \notin FinishedStatuses
  BY <1>2 DEF FinishedStatuses
<1>. HIDE DEF i, p
<1>4. Follows(p, journal[i].rev + 1)
  BY <1>2, <1>3, RevisionFollows
<1>5. <<>> \in Seq({})
  OBVIOUS
<1>. QED
  BY <1>1, <1>4, <1>5, WritesMove

LEMMA WithdrawMoves ==
    ASSUME ReviewInv, NEW i, Withdraw(i) \/ Abandon(i)
    PROVE  TabMoves
<1>1. CASE Withdraw(i)
  <2>1. Restates(i, "withdrawn")
    BY <1>1, RestatesByExcept DEF Withdraw, ReviewInv
  <2>2. i \notin CompactionRows(journal)
    BY <1>1 DEF Withdraw, OpenFeedback, Feedback, RowsOf, CompactionRows
  <2>. QED
    BY <2>1, <2>2 DEF TabMoves, Fits
<1>2. CASE Abandon(i)
  <2>1. Restates(i, "abandoned")
    BY <1>2, RestatesByExcept DEF Abandon, ReviewInv
  <2>2. Fits(i, "abandoned")
    BY DEF Fits, RevisionStatuses, FinishedStatuses
  <2>. QED
    BY <2>1, <2>2 DEF TabMoves
<1>. QED
  BY <1>1, <1>2

LEMMA ApplyEndsMoves ==
    ASSUME ReviewInv, ApplyEnds
    PROVE  TabMoves
<1>1. call.pc = "apply" /\ journal' = [journal EXCEPT ![call.row].status = "stamped"]
  BY DEF ApplyEnds
<1>2. Restates(call.row, "stamped")
  BY <1>1, RestatesByExcept DEF ReviewInv
<1>3. IsNewest(call.row)
  BY <1>1 DEF ReviewInv, ApplyHolds
<1>4. Fits(call.row, "stamped")
  BY <1>3 DEF Fits, RevisionStatuses, FinishedStatuses
<1>. QED
  BY <1>2, <1>4 DEF TabMoves

LEMMA MarkMoves ==
    ASSUME ReviewInv, MarksFit, FailingOpen, Mark
    PROVE  TabMoves
<1>. DEFINE i == Head(call.marks)[1]
            status == Head(call.marks)[2]
            r == journal[Current(call.p)].rev
<1>1. /\ call.pc \in {"mark", "fail"} /\ call.marks # <<>>
      /\ journal' = [journal EXCEPT ![i] = Marked(@, status, r)]
  BY DEF Mark
<1>2. Restates(i, status)
  BY <1>1, RestatesByMark DEF ReviewInv
<1>3. 1 \in DOMAIN call.marks /\ call.marks[1] = <<i, status>>
  <2>1. call.marks \in Seq(Marks)
    BY DEF ReviewInv, TypeOK, CallOK
  <2>2. Len(call.marks) \in Nat /\ Len(call.marks) # 0 /\ DOMAIN call.marks = 1 .. Len(call.marks)
    BY <1>1, <2>1, LenProperties, EmptySeq
  <2>3. 1 \in DOMAIN call.marks /\ Head(call.marks) = call.marks[1] /\ call.marks[1] \in Marks
    BY <2>1, <2>2
  <2>. QED
    BY <2>3 DEF Marks
<1>. HIDE DEF i, status
<1>4. \/ i \notin CompactionRows(journal)
      \/ status = "superseded"
      \/ i = call.row /\ status = "failed" /\ call.pc = "fail"
  BY <1>1, <1>3 DEF MarksFit
<1>5. Fits(i, status)
  BY <1>4 DEF Fits, FailingOpen, RevisionStatuses, FinishedStatuses
<1>. QED
  BY <1>2, <1>5 DEF TabMoves

LEMMA RebuildMoves ==
    ASSUME ReviewInv, StampedIsNewest, FailingOpen, Rebuild
    PROVE  TabMoves
<1>. DEFINE i == call.row
            p == call.p
            merged == Left(i, call.ids)
            meta == RebuiltMeta(i, call.ids)
            claude == Carried(Planned(i).claude, call.ids)
<1>1. /\ call.pc = "fail"
      /\ \/ UNCHANGED journal
         \/ Writes(p, journal[i].rev + 1, written, meta, claude, merged.decided, <<>>, <<>>)
         \/ AsksClaude(p)
  BY DEF Rebuild
<1>. HIDE DEF merged, meta, claude
<1>2. i \in RowsOf(journal, p, "compaction") /\ IsNewest(i) /\ journal[i].status \notin FinishedStatuses
  BY <1>1 DEF ReviewInv, ApplyHolds, FailingOpen, FinishedStatuses
<1>3. p \in Nat
  BY <1>2, TabIs DEF ReviewInv, RowsOf
<1>. HIDE DEF i, p
<1>4. CASE UNCHANGED journal
  BY <1>4 DEF TabMoves
<1>5. CASE Writes(p, journal[i].rev + 1, written, meta, claude, merged.decided, <<>>, <<>>)
  <2>1. Follows(p, journal[i].rev + 1)
    BY <1>2, RevisionFollows
  <2>2. <<>> \in Seq({})
    OBVIOUS
  <2>. QED
    BY <1>5, <2>1, <2>2, WritesMove
<1>6. CASE AsksClaude(p)
  BY <1>3, <1>6, FeedbackMoves DEF AsksClaude
<1>. QED
  BY <1>1, <1>4, <1>5, <1>6

LEMMA Moves ==
    ASSUME ReviewInv, FinishedInv, [Next]_vars
    PROVE  TabMoves
<1>1. CASE UNCHANGED vars
  BY <1>1 DEF vars, TabMoves
<1>2. CASE Next
  <2>0. StampedIsNewest /\ ConfirmOpen /\ FailingOpen /\ MarksFit
    BY DEF FinishedInv, Ordered, CallFits
  <2>1. CASE Calls
    <3>1. ASSUME NEW kind, Collect(kind) PROVE TabMoves
      BY <3>1 DEF Collect, TabMoves
    <3>. QED
      BY <2>0, <2>1, <3>1, ProposeMoves, ReviseMoves, AmendMoves DEF Calls
  <2>2. CASE DeleteRun
    BY <2>2 DEF TabMoves
  <2>3. CASE NothingToDo \/ CallStops
    BY <2>3 DEF NothingToDo, CallStops, TabMoves
  <2>4. CASE Mark
    BY <2>0, <2>4, MarkMoves
  <2>5. ASSUME NEW about, AddNote(about) PROVE TabMoves
    BY <2>5, AddNoteMoves
  <2>6. ASSUME NEW i, Withdraw(i) \/ Abandon(i) PROVE TabMoves
    BY <2>6, WithdrawMoves
  <2>7. CASE ConfirmApplies
    BY <2>0, <2>7, ConfirmAppliesMoves
  <2>8. CASE ConfirmRechecks
    BY <2>0, <2>8, ConfirmRechecksMoves
  <2>9. CASE ConfirmNeedsClaude
    BY <2>9, ConfirmNeedsClaudeMoves
  <2>10. ASSUME NEW p \in Proposals(journal), Finish(p) PROVE TabMoves
    BY <2>10 DEF Finish, TabMoves
  <2>11. CASE ApplyEnds
    BY <2>11, ApplyEndsMoves
  <2>12. CASE ApplyFails
    <3>1. UNCHANGED journal
      BY <2>12 DEF ApplyFails
    <3>. QED
      BY <3>1 DEF TabMoves
  <2>13. CASE Rebuild
    BY <2>0, <2>13, RebuildMoves
  <2>14. CASE WorldMoves
    <3>1. UNCHANGED journal
      BY <2>14 DEF WorldMoves, ChangeOutside, Vanish, WriteNote
    <3>. QED
      BY <3>1 DEF TabMoves
  <2>. QED
    BY <1>2, <2>1, <2>2, <2>3, <2>4, <2>5, <2>6, <2>7, <2>8, <2>9, <2>10, <2>11, <2>12, <2>13, <2>14, NextIs
<1>. QED
  BY <1>1, <1>2

LEMMA RestatesOrder ==
    ASSUME ReviewInv, Ordered, NEW i, NEW status, Restates(i, status), Fits(i, status)
    PROVE  Ordered'
<1>1. TypeOK
  BY DEF ReviewInv
<1>2. /\ DOMAIN journal' = DOMAIN journal /\ CompactionRows(journal') = CompactionRows(journal)
      /\ \A k \in DOMAIN journal : Kept(journal[k], journal'[k])
      /\ \A k \in CompactionRows(journal) : IsNewest(k) => IsNewest(k)'
      /\ \A k \in DOMAIN journal : k # i => journal'[k] = journal[k]
  BY <1>1, RestatesKeep
<1>3. \A k \in CompactionRows(journal) :
        /\ k \in DOMAIN journal /\ journal'[k].of = journal[k].of /\ journal'[k].rev = journal[k].rev
        /\ journal'[k].status = IF k = i THEN status ELSE journal[k].status
  <2>1. \A k \in CompactionRows(journal) : k \in DOMAIN journal /\ journal[k].kind = "compaction"
    BY DEF CompactionRows
  <2>2. i \in CompactionRows(journal) => journal'[i].status = status
    BY <1>1, <2>1, RestatesKeep
  <2>. QED
    BY <1>2, <2>1, <2>2 DEF Kept
<1>4. StatusesKnown'
  BY <1>2, <1>3 DEF Ordered, StatusesKnown, Fits
<1>5. RevisionsInOrder'
  BY <1>2, <1>3 DEF Ordered, RevisionsInOrder
<1>6. PlanFollows'
  <2>. SUFFICES ASSUME NEW j \in DOMAIN journal', journal'[j].kind = "planned"
       PROVE  j - 1 \in CompactionRows(journal') /\ journal'[j - 1].of = journal'[j].of /\ journal'[j - 1].rev = journal'[j].rev
    BY DEF PlanFollows
  <2>1. j \in DOMAIN journal /\ journal[j].kind = "planned" /\ journal'[j].of = journal[j].of
    BY <1>2 DEF Kept
  <2>2. journal'[j].rev = journal[j].rev
    BY <1>2, <2>1 DEF Kept
  <2>3. j - 1 \in CompactionRows(journal) /\ journal[j - 1].of = journal[j].of /\ journal[j - 1].rev = journal[j].rev
    BY <2>1 DEF Ordered, PlanFollows
  <2>. QED
    BY <1>2, <1>3, <2>1, <2>2, <2>3
<1>7. StampedIsNewest'
  BY <1>2, <1>3 DEF Ordered, StampedIsNewest, Fits
<1>. QED
  BY <1>4, <1>5, <1>6, <1>7 DEF Ordered

LEMMA RevisionOrders ==
    ASSUME ReviewInv, Ordered, NEW p, NEW r, NEW meta, NEW c, AddsRevision(p, r, meta, c), Follows(p, r)
    PROVE  Ordered'
<1>1. TypeOK /\ DOMAIN journal = 1 .. Len(journal) /\ Len(journal) \in Nat
  BY TabIs DEF ReviewInv
<1>2. /\ \A i \in DOMAIN journal : i \in DOMAIN journal' /\ journal'[i] = journal[i]
      /\ c \in DOMAIN journal' \ DOMAIN journal /\ journal'[c].kind = "compaction" /\ journal'[c].of = p
      /\ journal'[c].rev = r /\ journal'[c].status = "proposed"
      /\ \A i \in DOMAIN journal' \ DOMAIN journal :
           /\ journal'[i].of = p /\ (i # c => journal'[i].kind \in {"edit", "planned"})
           /\ journal'[i].kind = "planned" => i = c + 1 /\ journal'[i].rev = r
  BY DEF AddsRevision
<1>3. DOMAIN journal' = 1 .. Len(journal') /\ Len(journal') \in Nat
  BY LenProperties DEF AddsRevision
<1>4. \A i \in CompactionRows(journal') : i = c \/ i \in CompactionRows(journal)
  BY <1>2 DEF CompactionRows
<1>5. \A i \in CompactionRows(journal) :
        /\ i \in CompactionRows(journal') /\ journal'[i] = journal[i] /\ i < c
        /\ journal[i].rev \in Nat /\ (journal[i].of = p => i \in RowsOf(journal, p, "compaction"))
  BY <1>1, <1>2, <1>3, TabIs DEF CompactionRows, RowsOf
<1>6. c \in CompactionRows(journal')
  BY <1>2 DEF CompactionRows
<1>7. StatusesKnown'
  BY <1>2, <1>4, <1>5 DEF Ordered, StatusesKnown, RevisionStatuses
<1>8. RevisionsInOrder'
  <2>. SUFFICES ASSUME NEW i \in CompactionRows(journal'), NEW j \in CompactionRows(journal')
       PROVE  journal'[i].rev # 0 /\ (i < j /\ journal'[i].of = journal'[j].of => journal'[i].rev < journal'[j].rev)
    BY DEF RevisionsInOrder
  <2>1. c \in Nat
    BY <1>2, <1>3
  <2>2. CASE i = c
    <3>1. journal'[i].rev # 0
      BY <1>2, <2>2 DEF Follows
    <3>2. ~(i < j)
      <4>1. j = c \/ j < c
        BY <1>4, <1>5
      <4>2. j \in Nat
        BY <1>3 DEF CompactionRows
      <4>. QED
        BY <2>1, <2>2, <4>1, <4>2
    <3>. QED
      BY <3>1, <3>2
  <2>3. CASE i \in CompactionRows(journal) /\ j = c
    BY <1>2, <1>5, <2>3 DEF Ordered, RevisionsInOrder, Follows
  <2>4. CASE i \in CompactionRows(journal) /\ j \in CompactionRows(journal)
    BY <1>5, <2>4 DEF Ordered, RevisionsInOrder
  <2>. QED
    BY <1>4, <2>2, <2>3, <2>4
<1>9. PlanFollows'
  <2>. SUFFICES ASSUME NEW j \in DOMAIN journal', journal'[j].kind = "planned"
       PROVE  j - 1 \in CompactionRows(journal') /\ journal'[j - 1].of = journal'[j].of /\ journal'[j - 1].rev = journal'[j].rev
    BY DEF PlanFollows
  <2>1. CASE j \in DOMAIN journal
    <3>1. journal'[j] = journal[j]
      BY <1>2, <2>1
    <3>2. j - 1 \in CompactionRows(journal) /\ journal[j - 1].of = journal[j].of /\ journal[j - 1].rev = journal[j].rev
      BY <2>1, <3>1 DEF Ordered, PlanFollows
    <3>. QED
      BY <1>5, <3>1, <3>2
  <2>2. CASE j \notin DOMAIN journal
    <3>1. j = c + 1 /\ journal'[j].rev = r /\ journal'[j].of = p
      BY <1>2, <2>2
    <3>2. j - 1 = c
      BY <1>2, <1>3, <3>1
    <3>. QED
      BY <1>2, <1>6, <3>1, <3>2
  <2>. QED
    BY <2>1, <2>2
<1>10. StampedIsNewest'
  <2>. SUFFICES ASSUME NEW i \in CompactionRows(journal'), journal'[i].status = "stamped",
                       NEW j \in CompactionRows(journal'), journal'[j].of = journal'[i].of
       PROVE  journal'[j].rev <= journal'[i].rev
    BY DEF StampedIsNewest, IsNewest
  <2>1. i \in CompactionRows(journal) /\ journal'[i] = journal[i]
    BY <1>2, <1>4, <1>5
  <2>2. j # c
    BY <1>2, <1>5, <2>1 DEF Follows
  <2>3. j \in CompactionRows(journal) /\ journal'[j] = journal[j]
    BY <1>4, <1>5, <2>2
  <2>. QED
    BY <2>1, <2>3 DEF Ordered, StampedIsNewest, IsNewest
<1>. QED
  BY <1>7, <1>8, <1>9, <1>10 DEF Ordered

LEMMA FeedbackOrders ==
    ASSUME ReviewInv, Ordered, NEW p, NEW row, AddsFeedback(p, row), row.kind = "feedback"
    PROVE  Ordered'
<1>1. /\ \A i \in DOMAIN journal : i \in DOMAIN journal' /\ journal'[i] = journal[i]
      /\ \A i \in DOMAIN journal' : i \in DOMAIN journal \/ journal'[i] = row
  BY DEF AddsFeedback
<1>2. CompactionRows(journal') = CompactionRows(journal) /\ \A i \in CompactionRows(journal) : journal'[i] = journal[i]
  BY <1>1 DEF CompactionRows
<1>3. StatusesKnown' /\ RevisionsInOrder' /\ StampedIsNewest'
  BY <1>2 DEF Ordered, StatusesKnown, RevisionsInOrder, StampedIsNewest, IsNewest
<1>4. PlanFollows'
  <2>1. \A j \in DOMAIN journal' : journal'[j].kind = "planned" => j \in DOMAIN journal /\ journal'[j] = journal[j]
    BY <1>1
  <2>. QED
    BY <1>2, <2>1 DEF Ordered, PlanFollows
<1>. QED
  BY <1>3, <1>4 DEF Ordered

\* A run of rows is deleted, and row k was row f[k].
Deletes(run, f) ==
    /\ call.pc = "collect" /\ run \subseteq call.doomed /\ call.doomed \subseteq DOMAIN journal
    /\ run = LastRun(call.doomed) /\ Min(run) \in Nat /\ \A i \in run : Min(run) <= i
    /\ DOMAIN journal' = 1 .. Len(journal') /\ Len(journal') \in Nat
    /\ \A k \in DOMAIN journal' : f[k] \in DOMAIN journal /\ f[k] \notin run /\ k <= f[k] /\ journal'[k] = journal[f[k]]
    /\ \A i \in DOMAIN journal \ run : \E k \in DOMAIN journal' : f[k] = i
    /\ \A k, l \in DOMAIN journal' : k < l => f[k] < f[l]
    /\ \A i \in call.doomed \ run : i + 1 < Min(run)
    /\ \A i \in DOMAIN journal : i < Min(run) => i \in DOMAIN journal' /\ f[i] = i
    /\ call'.pc = "collect" /\ call'.kind = call.kind /\ call'.p = call.p /\ call'.doomed = call.doomed \ run

LEMMA RunIsDeleted ==
    ASSUME ReviewInv, DeleteRun
    PROVE  \E f : Deletes(LastRun(call.doomed), f)
<1>. DEFINE run == LastRun(call.doomed)
            f == [k \in DOMAIN journal' |-> WasAt(run, k)]
<1>1. /\ call.pc = "collect" /\ call.doomed # {} /\ journal' = Deleted(journal, run)
      /\ call' = [call EXCEPT !.doomed = @ \ run]
  BY DEF DeleteRun, RunToDelete
<1>2. TypeOK /\ CallOK /\ call.doomed \subseteq DOMAIN journal /\ DOMAIN journal = 1 .. Len(journal) /\ Len(journal) \in Nat
  BY TabIs DEF ReviewInv, TypeOK, CallOK
<1>3. /\ journal' \in Seq(Tab')
      /\ ComesFrom(f) /\ \A k \in DOMAIN journal' : journal'[k] = journal[f[k]]
      /\ \A i \in DOMAIN journal \ run : \E k \in DOMAIN journal' : f[k] = i
      /\ \A k \in DOMAIN journal' : f[k] \notin run /\ k <= f[k]
      /\ \A k, l \in DOMAIN journal' : k < l => f[k] < f[l]
      /\ \A i \in call.doomed \ run : i + 1 < Min(run)
      /\ \A i \in DOMAIN journal : i < Min(run) => i \in DOMAIN journal' /\ f[i] = i
  BY <1>1, <1>2, DeletedRows
<1>4. /\ Min(run) \in 1 .. Len(journal) /\ run \subseteq call.doomed /\ run = Min(run) .. Max(call.doomed)
      /\ Max(call.doomed) \in 1 .. Len(journal)
  BY <1>1, <1>2, LastRunIs
<1>5. call' = [pc |-> "collect", kind |-> call.kind, p |-> call.p, row |-> call.row, doomed |-> call.doomed \ run,
               marks |-> call.marks, ids |-> call.ids]
  BY <1>1, <1>2 DEF CallOK
<1>. HIDE DEF f, run
<1>6. call'.pc = "collect" /\ call'.kind = call.kind /\ call'.p = call.p /\ call'.doomed = call.doomed \ run
  BY <1>5
<1>7. DOMAIN journal' = 1 .. Len(journal') /\ Len(journal') \in Nat
  BY <1>3, LenProperties
<1>8. \A k \in DOMAIN journal' : f[k] \in DOMAIN journal
  BY <1>3 DEF ComesFrom
<1>9. Min(run) \in Nat /\ \A i \in run : Min(run) <= i
  BY <1>4
<1>10. run = LastRun(call.doomed)
  BY DEF run
<1>11. Deletes(run, f)
  BY <1>1, <1>2, <1>3, <1>4, <1>6, <1>7, <1>8, <1>9, <1>10 DEF Deletes
<1>. QED
  BY <1>11 DEF run

LEMMA DeletingOrders ==
    ASSUME ReviewInv, Ordered, DoomedWhole, NEW run, NEW f, Deletes(run, f)
    PROVE  Ordered'
<1>1. /\ \A k \in DOMAIN journal' : f[k] \in DOMAIN journal /\ f[k] \notin run /\ journal'[k] = journal[f[k]]
      /\ \A k, l \in DOMAIN journal' : k < l => f[k] < f[l]
  BY DEF Deletes
<1>2. \A k \in CompactionRows(journal') : k \in DOMAIN journal' /\ f[k] \in CompactionRows(journal) /\ journal'[k] = journal[f[k]]
  BY <1>1 DEF CompactionRows
<1>3. StatusesKnown' /\ StampedIsNewest'
  BY <1>2 DEF Ordered, StatusesKnown, StampedIsNewest, IsNewest
<1>4. RevisionsInOrder'
  BY <1>1, <1>2 DEF Ordered, RevisionsInOrder
<1>5. PlanFollows'
  <2>. SUFFICES ASSUME NEW k \in DOMAIN journal', journal'[k].kind = "planned"
       PROVE  k - 1 \in CompactionRows(journal') /\ journal'[k - 1].of = journal'[k].of /\ journal'[k - 1].rev = journal'[k].rev
    BY DEF PlanFollows
  <2>. DEFINE j == f[k]
  <2>1. j \in DOMAIN journal /\ j \notin run /\ journal'[k] = journal[j]
    BY <1>1
  <2>2. j - 1 \in CompactionRows(journal) /\ journal[j - 1].of = journal[j].of /\ journal[j - 1].rev = journal[j].rev
    BY <2>1 DEF Ordered, PlanFollows
  <2>. HIDE DEF j
  <2>3. j \in Nat /\ j - 1 \in DOMAIN journal /\ (j - 1) + 1 = j
    BY <2>1, <2>2, TabIs DEF ReviewInv, CompactionRows
  <2>4. j - 1 \notin run
    <3>. SUFFICES ASSUME j - 1 \in run PROVE FALSE
      OBVIOUS
    <3>1. TakesBefore(call.doomed, j - 1)
      BY <2>2 DEF DoomedWhole, Deletes
    <3>2. j \in call.doomed
      BY <2>1, <2>3, <3>1 DEF TakesBefore
    <3>3. j + 1 < Min(run) /\ Min(run) <= j - 1 /\ Min(run) \in Nat
      BY <2>1, <3>2 DEF Deletes
    <3>. QED
      BY <2>3, <3>3
  <2>5. PICK l \in DOMAIN journal' : f[l] = j - 1
    BY <2>3, <2>4 DEF Deletes
  <2>6. l = k - 1
    <3>1. DOMAIN journal' = 1 .. Len(journal') /\ Len(journal') \in Nat
      BY DEF Deletes
    <3>2. f[k] = j
      BY DEF j
    <3>3. l < k
      <4>1. k < l => f[k] < f[l]
        BY <1>1
      <4>2. k # l
        BY <2>3, <2>5, <3>2
      <4>. QED
        BY <2>3, <2>5, <3>1, <3>2, <4>1, <4>2
    <3>4. ~(l < k - 1)
      <4>. SUFFICES ASSUME l < k - 1 PROVE FALSE
        OBVIOUS
      <4>1. k - 1 \in DOMAIN journal' /\ k - 1 < k
        BY <3>1
      <4>2. f[l] < f[k - 1] /\ f[k - 1] < f[k]
        BY <1>1, <4>1
      <4>3. f[k - 1] \in Nat
        BY <1>1, <4>1, TabIs DEF ReviewInv
      <4>. QED
        BY <2>3, <2>5, <3>2, <4>2, <4>3
    <3>. QED
      BY <3>1, <3>3, <3>4
  <2>7. journal'[k - 1] = journal[j - 1] /\ k - 1 \in DOMAIN journal'
    BY <1>1, <2>5, <2>6
  <2>. QED
    BY <2>1, <2>2, <2>7 DEF CompactionRows
<1>. QED
  BY <1>3, <1>4, <1>5 DEF Ordered

\* Rows still to delete come before the run that went, and so does all that
\* goes with them.
LEMMA StillWhole ==
    ASSUME ReviewInv, DoomedWhole, NEW run, NEW f, Deletes(run, f)
    PROVE  DoomedWhole'
<1>. SUFFICES ASSUME NEW j \in (call.doomed \ run) \cap CompactionRows(journal')
     PROVE  /\ j + 1 \in DOMAIN journal' /\ journal'[j + 1].kind = "planned" => j + 1 \in call.doomed \ run
            /\ \A i \in DOMAIN journal' : i < j /\ journal'[i].of = journal'[j].of /\ journal'[i].kind # "planned" =>
                   \/ i \in call.doomed \ run
                   \/ journal'[i].kind = "compaction" /\ journal'[i].status \in {"proposed", "applying"}
  BY DEF DoomedWhole, Deletes, TakesBefore
<1>1. /\ DOMAIN journal = 1 .. Len(journal) /\ Len(journal) \in Nat /\ DOMAIN journal' = 1 .. Len(journal') /\ Len(journal') \in Nat
      /\ Min(run) \in Nat /\ \A i \in run : Min(run) <= i
  BY TabIs DEF ReviewInv, Deletes
<1>2. \A i \in DOMAIN journal' : i < Min(run) => i \in DOMAIN journal /\ journal'[i] = journal[i] /\ i \notin run
  <2>. SUFFICES ASSUME NEW i \in DOMAIN journal', i < Min(run) PROVE i \in DOMAIN journal /\ journal'[i] = journal[i] /\ i \notin run
    OBVIOUS
  <2>1. i \in DOMAIN journal
    <3>1. i <= f[i] /\ f[i] \in DOMAIN journal
      BY DEF Deletes
    <3>. QED
      BY <1>1, <3>1
  <2>2. f[i] = i /\ journal'[i] = journal[f[i]]
    BY <2>1 DEF Deletes
  <2>. QED
    BY <1>1, <2>1, <2>2
<1>3. j + 1 < Min(run) /\ j \in DOMAIN journal'
  BY DEF Deletes, CompactionRows
<1>4. j < Min(run) /\ j \in CompactionRows(journal) /\ journal'[j] = journal[j] /\ j \in call.doomed
  BY <1>1, <1>2, <1>3 DEF CompactionRows
<1>5. TakesBefore(call.doomed, j)
  BY <1>4 DEF DoomedWhole, Deletes
<1>6. j + 1 \in DOMAIN journal' /\ journal'[j + 1].kind = "planned" => j + 1 \in call.doomed \ run
  BY <1>2, <1>3, <1>5 DEF TakesBefore
<1>7. ASSUME NEW i \in DOMAIN journal', i < j, journal'[i].of = journal'[j].of, journal'[i].kind # "planned"
      PROVE  \/ i \in call.doomed \ run
             \/ journal'[i].kind = "compaction" /\ journal'[i].status \in {"proposed", "applying"}
  <2>1. i < Min(run)
    BY <1>1, <1>3, <1>4, <1>7
  <2>2. i \in DOMAIN journal /\ journal'[i] = journal[i] /\ i \notin run
    BY <1>2, <2>1
  <2>. QED
    BY <1>4, <1>5, <1>7, <2>2 DEF TakesBefore
<1>. QED
  BY <1>6, <1>7

\* The revision a confirm goes on with isn't collected.
LEMMA ConfirmStaysOpen ==
    ASSUME ReviewInv, ReviewInv', ConfirmOpen, NEW run, NEW f, Deletes(run, f)
    PROVE  ConfirmOpen'
<1>. SUFFICES ASSUME call.kind = "confirm" PROVE journal'[Newest(journal', call.p)].status = "proposed"
  BY DEF ConfirmOpen, Deletes, Current
<1>. DEFINE p == call.p
            n == Newest(journal, p)
<1>1. Ready(p) /\ call.doomed \cap RowsOf(journal, p, "compaction") = {} /\ journal[n].status = "proposed"
  BY DEF ReviewInv, ConfirmReady, ConfirmOpen, Deletes, Current
<1>2. n \in RowsOf(journal, p, "compaction") /\ IsNewest(n)
  BY <1>1, NewestIs DEF ReviewInv, Ready
<1>. HIDE DEF n, p
<1>3. n \in DOMAIN journal \ run /\ journal[n].of = p /\ journal[n].kind = "compaction"
  BY <1>1, <1>2 DEF Deletes, RowsOf
<1>4. PICK k \in DOMAIN journal' : f[k] = n
  BY <1>3 DEF Deletes
<1>5. journal'[k] = journal[n]
  BY <1>4 DEF Deletes
<1>6. k \in RowsOf(journal', p, "compaction")
  BY <1>3, <1>4, <1>5 DEF RowsOf
<1>7. IsNewest(k)'
  <2>1. \A i \in CompactionRows(journal') : f[i] \in CompactionRows(journal) /\ journal'[i] = journal[f[i]]
    BY DEF Deletes, CompactionRows
  <2>. QED
    BY <1>2, <1>5, <2>1 DEF IsNewest
<1>8. Newest(journal', p) = k
  <2>1. NewestOpens'
    BY NewestTellsThen DEF ReviewInv
  <2>. QED
    BY <1>6, <1>7, <2>1 DEF NewestOpens
<1>. QED
  BY <1>1, <1>5, <1>8 DEF p

\* A proposal that's finished isn't open again because its newest revision's
\* collected: all it had before it goes in the same run.
LEMMA DeletingReopensNone ==
    ASSUME ReviewInv, ReviewInv', Ordered, DoomedWhole, NoneLeftProposed(journal), OneAfterAnother(journal),
           NEW run, NEW f, Deletes(run, f), NEW p \in OpenProposals(journal')
    PROVE  p \in OpenProposals(journal)
<1>. SUFFICES ASSUME p \notin OpenProposals(journal) PROVE FALSE
  OBVIOUS
<1>1. PICK l \in RowsOf(journal', p, "compaction") : IsNewest(l)' /\ journal'[l].status \notin FinishedStatuses
  BY OpenHasNewestThen DEF OpenHaveNewest, ReviewInv
<1>. DEFINE m == f[l]
            n == Newest(journal, p)
<1>2. m \in RowsOf(journal, p, "compaction") /\ m \notin run /\ journal'[l] = journal[m]
  BY <1>1 DEF Deletes, RowsOf
<1>3. n \in RowsOf(journal, p, "compaction") /\ IsNewest(n) /\ journal[n].status \in FinishedStatuses
  <2>1. n \in RowsOf(journal, p, "compaction") /\ IsNewest(n)
    BY <1>2, NewestIs DEF ReviewInv
  <2>. QED
    BY <2>1, NewestTells DEF NewestOpens, ReviewInv
<1>. HIDE DEF m, n
<1>4. /\ DOMAIN journal = 1 .. Len(journal) /\ Len(journal) \in Nat
      /\ m \in CompactionRows(journal) /\ n \in CompactionRows(journal) /\ m \in DOMAIN journal /\ n \in DOMAIN journal
      /\ journal[m].of = p /\ journal[n].of = p /\ journal[m].rev \in Nat /\ journal[n].rev \in Nat /\ p \in Nat
  BY <1>2, <1>3, TabIs DEF ReviewInv, RowsOf, CompactionRows
<1>5. m # n
  BY <1>1, <1>2, <1>3
<1>6. journal[m].rev <= journal[n].rev /\ journal[m].rev # journal[n].rev
  BY <1>3, <1>4, <1>5 DEF IsNewest, ReviewInv, RevisionsApart
<1>7. n \in run
  <2>. SUFFICES ASSUME n \notin run PROVE FALSE
    OBVIOUS
  <2>1. PICK k \in DOMAIN journal' : f[k] = n
    BY <1>4 DEF Deletes
  <2>2. journal'[k] = journal[n]
    BY <2>1 DEF Deletes
  <2>3. k \in CompactionRows(journal') /\ journal'[k].of = journal'[l].of
    BY <1>2, <1>3, <1>4, <2>1, <2>2 DEF CompactionRows, RowsOf
  <2>4. journal[n].rev <= journal[m].rev
    BY <1>1, <1>2, <2>2, <2>3 DEF IsNewest
  <2>. QED
    BY <1>4, <1>6, <2>4
<1>8. m < n
  <2>1. ~(n < m)
    BY <1>4, <1>6 DEF Ordered, RevisionsInOrder
  <2>. QED
    BY <1>4, <1>5, <2>1
<1>9. \A k \in DOMAIN journal : m <= k /\ k <= n => journal[k].of = p
  <2>. SUFFICES ASSUME NEW k \in DOMAIN journal, m <= k, k <= n PROVE journal[k].of = p
    OBVIOUS
  <2>1. journal[k].of \in Nat
    BY TabIs DEF ReviewInv
  <2>2. journal[m].of <= journal[k].of
    BY <1>4, <2>1 DEF OneAfterAnother
  <2>3. journal[k].of <= journal[n].of
    BY <1>4, <2>1 DEF OneAfterAnother
  <2>. QED
    BY <1>4, <2>1, <2>2, <2>3
<1>10. n \in call.doomed /\ TakesBefore(call.doomed, n)
  BY <1>4, <1>7 DEF Deletes, DoomedWhole
<1>11. \A k \in DOMAIN journal : m <= k /\ k < n /\ journal[k].kind # "planned" => k \in call.doomed
  <2>. SUFFICES ASSUME NEW k \in DOMAIN journal, m <= k, k < n, journal[k].kind # "planned", k \notin call.doomed PROVE FALSE
    OBVIOUS
  <2>1. journal[k].of = journal[n].of
    BY <1>4, <1>9
  <2>2. journal[k].kind = "compaction" /\ journal[k].status \in {"proposed", "applying"}
    BY <1>10, <2>1 DEF TakesBefore
  <2>3. k \in CompactionRows(journal)
    BY <2>2 DEF CompactionRows
  <2>4. IsNewest(k)
    <3>1. CASE journal[k].status = "applying"
      BY <2>3, <3>1 DEF ReviewInv, AppliedIsNewest
    <3>2. CASE journal[k].status = "proposed"
      <4>1. k = Newest(journal, p)
        BY <1>4, <2>1, <2>3, <3>2 DEF NoneLeftProposed
      <4>. QED
        BY <1>3, <4>1 DEF n
    <3>. QED
      BY <2>2, <3>1, <3>2
  <2>5. k = n
    BY <1>3, <1>4, <2>1, <2>3, <2>4, OnlyNewest DEF ReviewInv
  <2>. QED
    BY <1>4, <2>5
<1>12. \A k \in DOMAIN journal : m <= k /\ k <= n => k \in call.doomed
  <2>. SUFFICES ASSUME NEW k \in DOMAIN journal, m <= k, k <= n PROVE k \in call.doomed
    OBVIOUS
  <2>1. CASE k = n
    BY <1>10, <2>1
  <2>2. CASE k # n /\ journal[k].kind # "planned"
    BY <1>4, <1>11, <2>2
  <2>3. CASE k # n /\ journal[k].kind = "planned"
    <3>1. k - 1 \in CompactionRows(journal) /\ k # m
      BY <1>4, <2>3 DEF Ordered, PlanFollows, CompactionRows
    <3>2. k - 1 \in DOMAIN journal /\ journal[k - 1].kind # "planned" /\ m <= k - 1 /\ k - 1 < n /\ (k - 1) + 1 = k
      <4>1. k - 1 \in DOMAIN journal /\ journal[k - 1].kind # "planned"
        BY <3>1 DEF CompactionRows
      <4>2. k \in Nat /\ m \in Nat /\ n \in Nat
        BY <1>4
      <4>3. m <= k - 1 /\ k - 1 < n /\ (k - 1) + 1 = k
        BY <2>3, <3>1, <4>2
      <4>. QED
        BY <4>1, <4>3
    <3>3. k - 1 \in call.doomed
      BY <1>11, <3>2
    <3>4. TakesBefore(call.doomed, k - 1)
      BY <3>1, <3>3 DEF DoomedWhole, Deletes
    <3>. QED
      BY <2>3, <3>2, <3>4 DEF TakesBefore
  <2>. QED
    BY <2>1, <2>2, <2>3
<1>13. m \in run
  <2>. DEFINE b == Max(call.doomed)
  <2>1. run = {i \in call.doomed : i .. b \subseteq call.doomed}
    BY DEF Deletes, LastRun
  <2>2. b \in 1 .. Len(journal) /\ n <= b
    <3>1. call.doomed \subseteq 0 .. Len(journal)
      BY <1>4 DEF Deletes
    <3>2. b \in call.doomed /\ n <= b
      BY <1>4, <1>10, <3>1, GreatestIsMax
    <3>. QED
      BY <1>4, <3>2 DEF Deletes
  <2>. HIDE DEF b
  <2>3. n .. b \subseteq call.doomed
    BY <1>7, <2>1
  <2>4. m .. b \subseteq call.doomed
    <3>. SUFFICES ASSUME NEW k \in m .. b PROVE k \in call.doomed
      OBVIOUS
    <3>1. k \in DOMAIN journal /\ m <= k /\ (k <= n \/ k \in n .. b)
      BY <1>4, <2>2
    <3>. QED
      BY <1>12, <2>3, <3>1
  <2>5. m \in call.doomed
    BY <1>4, <1>8, <1>12
  <2>. QED
    BY <2>1, <2>4, <2>5
<1>. QED
  BY <1>2, <1>13

\* What's collected with a revision: garbage collection takes finished blocks
\* oldest first, so whatever of its proposal's is finished before it goes too.
LEMMA DoomedIsWhole ==
    ASSUME ReviewInv, Ordered, NEW j \in Doomed(journal) \cap CompactionRows(journal)
    PROVE  TakesBefore(Doomed(journal), j)
<1>. DEFINE trimmed == UNION {PlannedOf(journal, i) : i \in Trimmed(journal)}
            open == OpenProposal(journal)
            finished == {i \in DOMAIN journal \ trimmed : Finished(journal, open, Block(journal, i))}
            kept == Len(journal) - Cardinality(trimmed)
            first == [i \in finished |-> FirstOf(journal, Block(journal, i))]
            before(i) == {k \in finished : first[k] < first[i]}
            p == journal[j].of
<1>1. /\ TypeOK /\ RevisionsApart /\ DOMAIN journal = 1 .. Len(journal) /\ Len(journal) \in Nat
      /\ j \in DOMAIN journal /\ journal[j].kind = "compaction" /\ journal[j].rev \in Nat /\ journal[j].rev # 0
  BY TabIs DEF ReviewInv, CompactionRows, Ordered, RevisionsInOrder
<1>2. Doomed(journal) =
        IF kept <= MaxRows THEN trimmed ELSE trimmed \cup {i \in finished : Cardinality(before(i)) < kept - TrimToRows}
  BY DEF Doomed
<1>3. \A i \in trimmed : journal[i].kind = "planned" /\ i \in DOMAIN journal
  BY DEF PlannedOf, RowsOf
<1>4. j \notin trimmed
  BY <1>1, <1>3
<1>5. /\ ~(kept <= MaxRows) /\ j \in finished /\ Cardinality(before(j)) < kept - TrimToRows
      /\ \A i \in finished : Cardinality(before(i)) < kept - TrimToRows => i \in Doomed(journal)
      /\ \A i \in trimmed : i \in Doomed(journal)
  BY <1>2, <1>4
<1>6. /\ Finished(journal, open, Block(journal, j)) /\ Block(journal, j) = <<p, journal[j].rev>>
  BY <1>1, <1>5 DEF Block
<1>7. p \in Proposals(journal) /\ p # open
  BY <1>6 DEF Finished
<1>8. kept \in Int /\ TrimToRows \in Nat
  <2>1. trimmed \subseteq DOMAIN journal
    BY <1>3
  <2>2. IsFiniteSet(trimmed)
    BY <1>1, <2>1, RowsAreFinite
  <2>3. Cardinality(trimmed) \in Nat
    BY <2>2, FS_CardinalityType
  <2>. QED
    BY <1>1, <2>3, GarbageAssumption
<1>. HIDE DEF open, kept
<1>9. \A i \in finished : first[i] = FirstOf(journal, Block(journal, i)) /\ first[i] \in Nat /\ first[i] <= i
  <2>. SUFFICES ASSUME NEW i \in finished PROVE FirstOf(journal, Block(journal, i)) \in Nat /\ FirstOf(journal, Block(journal, i)) <= i
    OBVIOUS
  <2>. DEFINE same == {k \in DOMAIN journal : Block(journal, k) = Block(journal, i)}
  <2>1. same \subseteq Nat /\ i \in same
    BY <1>1
  <2>2. Min(same) \in same /\ Min(same) <= i
    BY <2>1, LeastIsMin
  <2>. QED
    BY <2>1, <2>2 DEF FirstOf
<1>10. \A k \in DOMAIN journal : Block(journal, k) = Block(journal, j) => k = j \/ k = j + 1
  <2>. SUFFICES ASSUME NEW k \in DOMAIN journal, Block(journal, k) = Block(journal, j) PROVE k = j \/ k = j + 1
    OBVIOUS
  <2>1. journal[k].kind \notin {"edit", "feedback"} /\ journal[k].of = p /\ journal[k].rev = journal[j].rev
    BY <1>1, <1>6 DEF Block
  <2>2. journal[k].kind \in {"compaction", "planned"}
    BY <1>1, <2>1, TabIs DEF RowOK, IsRevision, IsPlanned, IsEdit, IsFeedback
  <2>3. CASE journal[k].kind = "compaction"
    BY <1>1, <2>1, <2>3 DEF RevisionsApart, CompactionRows
  <2>4. CASE journal[k].kind = "planned"
    <3>1. k - 1 \in CompactionRows(journal) /\ journal[k - 1].of = p /\ journal[k - 1].rev = journal[j].rev
      BY <2>1, <2>4 DEF Ordered, PlanFollows
    <3>2. k - 1 = j
      BY <1>1, <3>1 DEF RevisionsApart
    <3>. QED
      BY <1>1, <3>2
  <2>. QED
    BY <2>2, <2>3, <2>4
<1>11. first[j] = j
  <2>. DEFINE same == {k \in DOMAIN journal : Block(journal, k) = Block(journal, j)}
  <2>1. same \subseteq Nat /\ j \in same /\ \A k \in same : j <= k
    BY <1>1, <1>10
  <2>2. Min(same) \in same /\ \A k \in same : Min(same) <= k
    BY <2>1, LeastIsMin
  <2>3. Min(same) = j
    <3>1. \A x, y \in Nat : x <= y /\ y <= x => x = y
      OBVIOUS
    <3>2. Min(same) \in Nat /\ j \in Nat
      BY <2>1, <2>2
    <3>. HIDE DEF same
    <3>. QED
      BY <2>1, <2>2, <3>1, <3>2
  <2>. QED
    BY <1>5, <1>9, <2>3 DEF FirstOf
\* What's finished with it or before it is doomed too.
<1>12. \A i \in finished : first[i] <= first[j] => i \in Doomed(journal)
  <2>. SUFFICES ASSUME NEW i \in finished, first[i] <= first[j] PROVE i \in Doomed(journal)
    OBVIOUS
  <2>1. before(i) \subseteq before(j)
    <3>. SUFFICES ASSUME NEW k \in finished, first[k] < first[i] PROVE first[k] < first[j]
      OBVIOUS
    <3>1. first[k] \in Nat /\ first[i] \in Nat /\ first[j] \in Nat
      BY <1>5, <1>9
    <3>. HIDE DEF first
    <3>. QED
      BY <3>1
  <2>2. before(j) \subseteq DOMAIN journal /\ before(i) \subseteq DOMAIN journal
    OBVIOUS
  <2>3. IsFiniteSet(before(j)) /\ IsFiniteSet(before(i))
    BY <1>1, <2>2, RowsAreFinite
  <2>4. Cardinality(before(i)) \in Nat /\ Cardinality(before(j)) \in Nat /\ Cardinality(before(i)) <= Cardinality(before(j))
    BY <2>1, <2>3, FS_Subset, FS_CardinalityType
  <2>5. Cardinality(before(i)) < kept - TrimToRows
    <3>1. \A x, y \in Nat : \A z \in Int : x <= y /\ y < z => x < z
      OBVIOUS
    <3>2. kept - TrimToRows \in Int
      BY <1>8
    <3>. QED
      BY <1>5, <2>4, <3>1, <3>2
  <2>. QED
    BY <1>5, <2>5
<1>13. j + 1 \in DOMAIN journal /\ journal[j + 1].kind = "planned" => j + 1 \in Doomed(journal)
  <2>. SUFFICES ASSUME j + 1 \in DOMAIN journal, journal[j + 1].kind = "planned", j + 1 \notin trimmed
       PROVE  j + 1 \in Doomed(journal)
    BY <1>5
  <2>1. (j + 1) - 1 = j
    BY <1>1
  <2>2. journal[j + 1].of = p /\ journal[j + 1].rev = journal[j].rev
    BY <2>1 DEF Ordered, PlanFollows
  <2>3. Block(journal, j + 1) = Block(journal, j)
    BY <1>6, <2>2 DEF Block
  <2>4. j + 1 \in finished
    BY <1>6, <2>3
  <2>5. first[j + 1] = first[j]
    BY <1>5, <1>9, <2>3, <2>4
  <2>6. first[j] <= first[j]
    BY <1>1, <1>11
  <2>. QED
    BY <1>12, <2>4, <2>5, <2>6
<1>14. ASSUME NEW i \in DOMAIN journal, i < j, journal[i].of = journal[j].of, journal[i].kind # "planned",
              ~(journal[i].kind = "compaction" /\ journal[i].status \in {"proposed", "applying"})
       PROVE  i \in Doomed(journal)
  <2>1. Finished(journal, open, Block(journal, i))
    <3>1. CASE journal[i].kind \in {"edit", "feedback"}
      <4>1. Block(journal, i) = <<p, 0>>
        BY <1>14, <3>1 DEF Block
      <4>. QED
        BY <1>7, <4>1 DEF Finished
    <3>2. CASE journal[i].kind = "compaction"
      <4>1. i \in CompactionRows(journal) /\ i \in RowsOf(journal, p, "compaction")
        BY <1>14, <3>2 DEF CompactionRows, RowsOf
      <4>2. Block(journal, i) = <<p, journal[i].rev>>
        BY <1>14, <3>2 DEF Block
      <4>3. journal[i].status \in FinishedStatuses \cup {"failed"}
        BY <1>14, <3>2, <4>1 DEF Ordered, StatusesKnown, RevisionStatuses, FinishedStatuses
      <4>4. i # LastStamped(journal)
        <5>. DEFINE stamped == {k \in CompactionRows(journal) : journal[k].status = "stamped"}
        <5>. SUFFICES ASSUME i = LastStamped(journal) PROVE FALSE
          OBVIOUS
        <5>1. stamped \subseteq 0 .. Len(journal) /\ i # 0
          BY <1>1 DEF CompactionRows
        <5>2. stamped # {} /\ i = Max(stamped)
          BY <5>1 DEF LastStamped
        <5>3. i \in stamped
          BY <1>1, <5>1, <5>2, GreatestIsMax
        <5>4. IsNewest(i)
          BY <5>3 DEF Ordered, StampedIsNewest
        <5>5. journal[j].rev <= journal[i].rev
          BY <1>14, <5>4 DEF IsNewest
        <5>6. journal[i].rev < journal[j].rev /\ journal[i].rev \in Nat
          BY <1>1, <1>14, <4>1, TabIs DEF Ordered, RevisionsInOrder
        <5>. QED
          BY <1>1, <5>5, <5>6
      <4>. QED
        BY <1>7, <4>1, <4>2, <4>3, <4>4 DEF Finished
    <3>3. journal[i].kind \in {"edit", "feedback", "compaction"}
      BY <1>1, <1>14, TabIs DEF RowOK, IsRevision, IsPlanned, IsEdit, IsFeedback
    <3>. QED
      BY <3>1, <3>2, <3>3
  <2>2. i \in finished
    BY <1>3, <1>14, <2>1
  <2>3. first[i] <= first[j]
    <3>1. first[i] \in Nat /\ first[i] <= i
      BY <1>9, <2>2
    <3>. HIDE DEF first
    <3>. QED
      BY <1>1, <1>11, <1>14, <3>1
  <2>. QED
    BY <1>12, <2>2, <2>3
<1>. QED
  BY <1>13, <1>14 DEF TakesBefore

----------------------------------------------------------------------------
(* What a call has still to mark, and to collect *)

LEMMA NothingLeft ==
    ASSUME call'.pc \in {"idle", "apply"}
    PROVE  CallFits'
BY DEF CallFits, ConfirmOpen, FailingOpen, MarksFit, DoomedWhole

\* Marks of what a new revision supersedes, and of rows that aren't revisions.
RowsFit(marks) ==
    \A n \in DOMAIN marks : marks[n][2] = "superseded" \/ marks[n][1] \in DOMAIN journal \ CompactionRows(journal)

LEMMA SupersedingFits ==
    ASSUME TypeOK, NEW i \in DOMAIN journal
    PROVE  Superseding(i) \in Seq(Marks) /\ RowsFit(Superseding(i))
<1>1. i \in Nat
  BY TabIs
<1>2. <<i, "superseded">> \in Marks
  BY <1>1 DEF Marks, MarkStatuses
<1>. QED
  BY <1>2 DEF Superseding, RowsFit

LEMMA MarksOfFit ==
    ASSUME TypeOK, NEW rows, rows \subseteq DOMAIN journal, \A i \in rows : journal[i].kind # "compaction",
           NEW status \in MarkStatuses
    PROVE  MarksOf(rows, status) \in Seq(Marks) /\ RowsFit(MarksOf(rows, status))
<1>1. /\ MarksOf(rows, status) \in Seq(Marks)
      /\ \A n \in DOMAIN MarksOf(rows, status) : MarksOf(rows, status)[n][1] \in rows
  BY RowsAreFinite, MarksOfIs
<1>. QED
  BY <1>1 DEF RowsFit, CompactionRows

LEMMA ConcatFits ==
    ASSUME NEW s \in Seq(Marks), NEW t \in Seq(Marks), RowsFit(s), RowsFit(t)
    PROVE  s \o t \in Seq(Marks) /\ RowsFit(s \o t)
<1>1. /\ s \o t \in Seq(Marks)
      /\ \A n \in DOMAIN (s \o t) : (\E k \in DOMAIN s : (s \o t)[n] = s[k]) \/ (\E k \in DOMAIN t : (s \o t)[n] = t[k])
  BY ConcatMarks
<1>. DEFINE u == s \o t
<1>. HIDE DEF u
<1>2. \A n \in DOMAIN u : (\E k \in DOMAIN s : u[n] = s[k]) \/ (\E k \in DOMAIN t : u[n] = t[k])
  BY <1>1 DEF u
<1>3. RowsFit(u)
  BY <1>2 DEF RowsFit
<1>. QED
  BY <1>1, <1>3 DEF u

LEMMA MarksAfterFit ==
    ASSUME TypeOK, NEW p, NEW current \in DOMAIN journal, NEW replies, replies \subseteq Feedback(journal, p),
           NEW replaced, replaced \subseteq RowsOf(journal, p, "edit"), NEW merged
    PROVE  RowsFit(MarksAfter(p, current, replies, replaced, merged))
<1>. DEFINE A == Superseding(current)
            B == MarksOf(replies, "answered")
            C == MarksOf(replaced, "replaced")
            D == MarksOf(UnknownRows(p, merged) \ replaced, "inapplicable")
<1>1. A \in Seq(Marks) /\ RowsFit(A)
  BY SupersedingFits
<1>2. B \in Seq(Marks) /\ RowsFit(B)
  BY MarksOfFit DEF Feedback, RowsOf, MarkStatuses
<1>3. C \in Seq(Marks) /\ RowsFit(C)
  BY MarksOfFit DEF RowsOf, MarkStatuses
<1>4. D \in Seq(Marks) /\ RowsFit(D)
  BY MarksOfFit DEF UnknownRows, RowsOf, MarkStatuses
<1>5. MarksAfter(p, current, replies, replaced, merged) = ((A \o B) \o C) \o D
  BY DEF MarksAfter
<1>. HIDE DEF A, B, C, D
<1>6. A \o B \in Seq(Marks) /\ RowsFit(A \o B)
  BY <1>1, <1>2, ConcatFits
<1>7. (A \o B) \o C \in Seq(Marks) /\ RowsFit((A \o B) \o C)
  BY <1>3, <1>6, ConcatFits
<1>8. RowsFit(((A \o B) \o C) \o D)
  BY <1>4, <1>7, ConcatFits
<1>. QED
  BY <1>5, <1>8

LEMMA WritesFit ==
    ASSUME TypeOK, NEW p, NEW r, NEW notes, NEW meta, NEW claude, NEW decided, NEW E, NEW edits \in Seq(E), NEW marks,
           RowsFit(marks), Writes(p, r, notes, meta, claude, decided, edits, marks)
    PROVE  CallFits'
<1>1. CASE marks = <<>>
  <2>1. call'.pc = "idle"
    BY <1>1, IdleIs DEF Writes
  <2>. QED
    BY <2>1, NothingLeft
<1>2. CASE marks # <<>>
  <2>1. call' = [pc |-> "mark", kind |-> "none", p |-> p, row |-> 0, doomed |-> {}, marks |-> marks,
                 ids |-> [aliases |-> <<>>, settled |-> {}]]
    BY <1>2 DEF Writes, Idle
  <2>2. call'.pc = "mark" /\ call'.marks = marks
    BY <2>1
  <2>3. PICK c : AddsRevision(p, r, meta, c)
    BY WritesAdd
  <2>4. \A i \in DOMAIN journal \ CompactionRows(journal) : i \in DOMAIN journal' \ CompactionRows(journal')
    BY <2>3 DEF AddsRevision, CompactionRows
  <2>5. MarksFit'
    BY <2>2, <2>4 DEF MarksFit, RowsFit
  <2>. QED
    BY <2>2, <2>5 DEF CallFits, ConfirmOpen, FailingOpen, DoomedWhole
<1>. QED
  BY <1>1, <1>2

LEMMA ReviseFits ==
    ASSUME ReviewInv, NEW base, NEW replies \in SUBSET OpenFeedback(journal, OpenProposal(journal)), NEW says,
           Revise(base, replies, says)
    PROVE  CallFits'
<1>. DEFINE p == OpenProposal(journal)
            current == Current(p)
            was == journal[current].meta
            replaced == Replaced(p, base, replies)
            edits == SelectSeq(ActiveEdits(journal, p),
                               LAMBDA edit : \A i \in replaced : journal[i].edit.seq # edit.seq)
            meta == [was EXCEPT !.base = journal[base].rev, !.seq = LastSeq(journal, p), !.by = "claude",
                                !.reason = IF replies = {} THEN "extended" ELSE "revised", !.keys = @ + says.creates,
                                !.ignore = says.ignores, !.targets = says.targets]
            claude == Keyed(p, says, was.keys)
            merged == Merge(p, claude, edits, OptionsOf(meta, written))
            marks == MarksAfter(p, current, replies, replaced, merged)
<1>1. p # 0 /\ Writes(p, journal[current].rev + 1, written, meta, claude, merged.decided, <<>>, marks)
  BY DEF Revise
<1>2. current \in DOMAIN journal
  BY <1>1, CurrentIsOpen DEF RowsOf
<1>3. replaced \subseteq RowsOf(journal, p, "edit") /\ replies \subseteq Feedback(journal, p)
  BY DEF Replaced, OpenFeedback
<1>. HIDE DEF merged, claude, meta, edits, replaced, was, current, p
<1>4. RowsFit(marks)
  BY <1>2, <1>3, MarksAfterFit DEF ReviewInv
<1>5. <<>> \in Seq({})
  OBVIOUS
<1>. HIDE DEF marks
<1>. QED
  BY <1>1, <1>4, <1>5, WritesFit DEF ReviewInv

LEMMA AmendFits ==
    ASSUME ReviewInv, NEW base, NEW says, Amend(base, says)
    PROVE  CallFits'
<1>. DEFINE p == OpenProposal(journal)
            current == Current(p)
            was == journal[current].meta
            edit == NewEdit(p, says, LastSeq(journal, p) + 1, journal[base].rev)
            meta == [was EXCEPT !.base = journal[base].rev, !.seq = edit.seq, !.by = "user", !.reason = "user edit"]
            claude == Planned(current).claude
            merged == Merge(p, claude, Append(ActiveEdits(journal, p), edit), OptionsOf(was, journal[current].notes))
            marks == MarksAfter(p, current, {}, {}, merged)
<1>1. p # 0 /\ Writes(p, journal[current].rev + 1, journal[current].notes, meta, claude, merged.decided, <<edit>>, marks)
  BY DEF Amend, Amendable
<1>2. current \in DOMAIN journal
  BY <1>1, CurrentIsOpen DEF RowsOf
<1>. HIDE DEF merged, claude, meta, edit, was, current, p
<1>3. RowsFit(marks)
  BY <1>2, MarksAfterFit DEF ReviewInv
<1>4. <<edit>> \in Seq({edit})
  OBVIOUS
<1>. HIDE DEF marks
<1>. QED
  BY <1>1, <1>3, <1>4, WritesFit DEF ReviewInv

LEMMA ProposeFits ==
    ASSUME ReviewInv, NEW says, Propose(says)
    PROVE  CallFits'
<1>1. call' = Idle
  BY DEF Propose, Writes
<1>2. call'.pc = "idle"
  BY <1>1, IdleIs
<1>. QED
  BY <1>2, NothingLeft

LEMMA ConfirmRechecksFits ==
    ASSUME ReviewInv, ConfirmRechecks
    PROVE  CallFits'
<1>. DEFINE p == Confirming
            i == Current(p)
            meta == [journal[i].meta EXCEPT !.base = journal[i].rev, !.by = "server", !.reason = "recheck"]
            claude == Planned(i).claude
            decided == Planned(i).decided
            marks == Superseding(i)
<1>1. Collected("confirm") /\ Writes(p, journal[i].rev + 1, written, meta, claude, decided, <<>>, marks)
  BY DEF ConfirmRechecks
<1>2. i \in DOMAIN journal
  BY <1>1, ConfirmingIsReady DEF RowsOf
<1>. HIDE DEF meta, claude, decided, i, p
<1>3. RowsFit(marks)
  BY <1>2, SupersedingFits DEF ReviewInv
<1>4. <<>> \in Seq({})
  OBVIOUS
<1>. HIDE DEF marks
<1>. QED
  BY <1>1, <1>3, <1>4, WritesFit DEF ReviewInv

LEMMA CollectFits ==
    ASSUME ReviewInv, Ordered, NEW kind, Collect(kind)
    PROVE  CallFits'
<1>. DEFINE p == OpenProposal(journal)
<1>1. /\ UNCHANGED journal
      /\ call' = [Idle EXCEPT !.pc = "collect", !.kind = kind, !.p = p, !.doomed = Doomed(journal)]
      /\ kind = "confirm" => Confirmable(p)
  BY DEF Collect
<1>. HIDE DEF p
<1>2. call' = [pc |-> "collect", kind |-> kind, p |-> p, row |-> 0, doomed |-> Doomed(journal), marks |-> <<>>,
               ids |-> [aliases |-> <<>>, settled |-> {}]]
  BY <1>1 DEF Idle
<1>3. call'.pc = "collect" /\ call'.kind = kind /\ call'.p = p /\ call'.doomed = Doomed(journal)
  BY <1>2
<1>4. ConfirmOpen'
  BY <1>1, <1>3 DEF ConfirmOpen, Confirmable, Current
<1>5. DoomedWhole'
  <2>1. \A j \in Doomed(journal) \cap CompactionRows(journal) : TakesBefore(Doomed(journal), j)
    BY DoomedIsWhole
  <2>. QED
    BY <1>1, <1>3, <2>1 DEF DoomedWhole, TakesBefore
<1>. QED
  BY <1>3, <1>4, <1>5 DEF CallFits, FailingOpen, MarksFit

LEMMA DeleteRunFits ==
    ASSUME ReviewInv, ReviewInv', CallFits, DeleteRun
    PROVE  CallFits'
<1>1. PICK f : Deletes(LastRun(call.doomed), f)
  BY RunIsDeleted
<1>2. ConfirmOpen' /\ DoomedWhole'
  BY <1>1, ConfirmStaysOpen, StillWhole DEF CallFits
<1>3. call'.pc = "collect"
  BY <1>1 DEF Deletes
<1>. QED
  BY <1>2, <1>3 DEF CallFits, FailingOpen, MarksFit

LEMMA ApplyFailsFits ==
    ASSUME ReviewInv, ApplyFails
    PROVE  CallFits'
<1>1. PICK ids : call' = [call EXCEPT !.pc = "fail", !.marks = <<<<call.row, "failed">>>>, !.ids = ids]
  BY Zenon DEF ApplyFails
<1>2. call.pc = "apply" /\ UNCHANGED journal
  BY DEF ApplyFails
<1>3. call' = [pc |-> "fail", kind |-> call.kind, p |-> call.p, row |-> call.row, doomed |-> call.doomed,
               marks |-> <<<<call.row, "failed">>>>, ids |-> ids]
  BY <1>1 DEF ReviewInv, TypeOK, CallOK
<1>4. call'.pc = "fail" /\ call'.row = call.row /\ call'.marks = <<<<call.row, "failed">>>>
  BY <1>3
<1>5. journal[call.row].status = "applying"
  BY <1>2 DEF ReviewInv, ApplyHolds
<1>6. FailingOpen'
  BY <1>2, <1>4, <1>5 DEF FailingOpen
<1>7. MarksFit'
  BY <1>4 DEF MarksFit
<1>. QED
  BY <1>4, <1>6, <1>7 DEF CallFits, ConfirmOpen, DoomedWhole

LEMMA RebuildFits ==
    ASSUME ReviewInv, CallFits, Rebuild
    PROVE  CallFits'
<1>. DEFINE i == call.row
            p == call.p
            merged == Left(i, call.ids)
            unknown == UnknownRows(p, merged)
            meta == RebuiltMeta(i, call.ids)
            claude == Carried(Planned(i).claude, call.ids)
<1>1. /\ call.pc = "fail"
      /\ \/ /\ call' = [call EXCEPT !.marks = MarksOf(unknown, "inapplicable")]
            /\ UNCHANGED journal
         \/ call' = Idle
  BY DEF Rebuild, Writes, AsksClaude
<1>2. unknown \subseteq DOMAIN journal /\ \A k \in unknown : journal[k].kind # "compaction"
  BY DEF UnknownRows, RowsOf
<1>. HIDE DEF merged, unknown
<1>3. CASE call' = [call EXCEPT !.marks = MarksOf(unknown, "inapplicable")] /\ UNCHANGED journal
  <2>. DEFINE marks == MarksOf(unknown, "inapplicable")
  <2>1. RowsFit(marks) /\ \A n \in DOMAIN marks : marks[n][2] = "inapplicable"
    BY <1>2, MarksOfFit, RowsAreFinite, MarksOfIs DEF MarkStatuses, ReviewInv
  <2>. HIDE DEF marks
  <2>2. call' = [pc |-> "fail", kind |-> call.kind, p |-> call.p, row |-> call.row, doomed |-> call.doomed,
                 marks |-> marks, ids |-> call.ids]
    BY <1>1, <1>3 DEF ReviewInv, TypeOK, CallOK, marks
  <2>3. call'.pc = "fail" /\ call'.row = call.row /\ call'.marks = marks
    BY <2>2
  <2>4. MarksFit'
    BY <1>3, <2>1, <2>3 DEF MarksFit, RowsFit, CompactionRows
  <2>5. FailingOpen'
    BY <1>1, <1>3, <2>3 DEF CallFits, FailingOpen
  <2>. QED
    BY <2>3, <2>4, <2>5 DEF CallFits, ConfirmOpen, DoomedWhole
<1>4. CASE call' = Idle
  <2>1. call'.pc = "idle"
    BY <1>4, IdleIs
  <2>. QED
    BY <2>1, NothingLeft
<1>. QED
  BY <1>1, <1>3, <1>4

LEMMA MarkFits ==
    ASSUME ReviewInv, CallFits, Mark
    PROVE  CallFits'
<1>. DEFINE i == Head(call.marks)[1]
            status == Head(call.marks)[2]
            r == journal[Current(call.p)].rev
<1>1. /\ call.pc \in {"mark", "fail"} /\ call.marks # <<>>
      /\ journal' = [journal EXCEPT ![i] = Marked(@, status, r)]
      /\ call' = Idle \/ call' = [call EXCEPT !.marks = Tail(@)]
  BY DEF Mark
<1>2. TypeOK /\ CallOK /\ call.marks \in Seq(Marks)
  BY DEF ReviewInv, TypeOK, CallOK
<1>3. 1 \in DOMAIN call.marks /\ call.marks[1] = <<i, status>>
  <2>1. Len(call.marks) \in Nat /\ Len(call.marks) # 0 /\ DOMAIN call.marks = 1 .. Len(call.marks)
    BY <1>1, <1>2, LenProperties, EmptySeq
  <2>2. 1 \in DOMAIN call.marks /\ Head(call.marks) = call.marks[1] /\ call.marks[1] \in Marks
    BY <1>2, <2>1
  <2>. QED
    BY <2>2 DEF Marks
<1>4. \A n \in DOMAIN Tail(call.marks) : n + 1 \in DOMAIN call.marks /\ Tail(call.marks)[n] = call.marks[n + 1]
  <2>1. /\ Len(call.marks) \in Nat /\ DOMAIN call.marks = 1 .. Len(call.marks)
        /\ Tail(call.marks) \in Seq(Marks) /\ Len(Tail(call.marks)) = Len(call.marks) - 1
        /\ \A n \in 1 .. Len(Tail(call.marks)) : Tail(call.marks)[n] = call.marks[n + 1]
    BY <1>1, <1>2, HeadTailProperties, LenProperties
  <2>2. DOMAIN Tail(call.marks) = 1 .. Len(call.marks) - 1
    BY <2>1, LenProperties
  <2>. QED
    BY <2>1, <2>2
<1>5. Restates(i, status)
  BY <1>1, <1>2, RestatesByMark
<1>. HIDE DEF i, status
<1>6. /\ DOMAIN journal' = DOMAIN journal /\ CompactionRows(journal') = CompactionRows(journal)
      /\ \A k \in DOMAIN journal : k # i => journal'[k] = journal[k]
      /\ i \in CompactionRows(journal) => journal'[i].status = status
  BY <1>2, <1>5, RestatesKeep DEF CompactionRows
<1>7. CASE call' = Idle
  <2>1. call'.pc = "idle"
    BY <1>7, IdleIs
  <2>. QED
    BY <2>1, NothingLeft
<1>8. CASE call' = [call EXCEPT !.marks = Tail(@)]
  <2>1. call' = [pc |-> call.pc, kind |-> call.kind, p |-> call.p, row |-> call.row, doomed |-> call.doomed,
                 marks |-> Tail(call.marks), ids |-> call.ids]
    BY <1>2, <1>8 DEF CallOK
  <2>2. call'.pc = call.pc /\ call'.row = call.row /\ call'.marks = Tail(call.marks)
    BY <2>1
  <2>3. MarksFit'
    BY <1>1, <1>4, <1>6, <2>2 DEF CallFits, MarksFit
  <2>4. FailingOpen'
    <3>. SUFFICES ASSUME call.pc = "fail" PROVE journal'[call.row].status \in {"applying", "failed"}
      BY <2>2 DEF FailingOpen
    <3>1. journal[call.row].status \in {"applying", "failed"} /\ call.row \in CompactionRows(journal) /\ call.row \in DOMAIN journal
      BY DEF CallFits, FailingOpen, ReviewInv, ApplyHolds, RowsOf, CompactionRows
    <3>2. call.row = i => status = "failed"
      BY <1>3, <3>1 DEF CallFits, MarksFit
    <3>. QED
      BY <1>6, <3>1, <3>2
  <2>. QED
    BY <1>1, <2>2, <2>3, <2>4 DEF CallFits, ConfirmOpen, DoomedWhole
<1>. QED
  BY <1>1, <1>7, <1>8

LEMMA CallsFit ==
    ASSUME ReviewInv, ReviewInv', FinishedInv, [Next]_vars
    PROVE  CallFits'
<1>0. Ordered /\ CallFits
  BY DEF FinishedInv
<1>1. CASE UNCHANGED <<journal, call>>
  BY <1>0, <1>1 DEF CallFits, ConfirmOpen, FailingOpen, MarksFit, DoomedWhole, TakesBefore, Current
<1>2. CASE Next
  <2>1. CASE Calls
    <3>1. ASSUME NEW kind, Collect(kind) PROVE CallFits'
      BY <1>0, <3>1, CollectFits
    <3>. QED
      BY <2>1, <3>1, ProposeFits, ReviseFits, AmendFits DEF Calls
  <2>2. CASE DeleteRun
    BY <1>0, <2>2, DeleteRunFits
  <2>3. CASE NothingToDo \/ CallStops \/ ConfirmNeedsClaude \/ ApplyEnds
    <3>1. call' = Idle
      BY <2>3 DEF NothingToDo, CallStops, ConfirmNeedsClaude, AsksClaude, ApplyEnds
    <3>2. call'.pc = "idle"
      BY <3>1, IdleIs
    <3>. QED
      BY <3>2, NothingLeft
  <2>4. CASE Mark
    BY <1>0, <2>4, MarkFits
  <2>5. CASE (\E about : AddNote(about)) \/ (\E i : Withdraw(i) \/ Abandon(i))
    <3>1. call' = Idle
      BY <2>5 DEF AddNote, Withdraw, Abandon, MayCall
    <3>2. call'.pc = "idle"
      BY <3>1, IdleIs
    <3>. QED
      BY <3>2, NothingLeft
  <2>6. CASE ConfirmApplies \/ \E p \in Proposals(journal) : Finish(p)
    <3>1. \E p, i : call' = [Idle EXCEPT !.pc = "apply", !.p = p, !.row = i]
      BY <2>6, Zenon DEF ConfirmApplies, Finish
    <3>2. call'.pc = "apply"
      BY <3>1 DEF Idle
    <3>. QED
      BY <3>2, NothingLeft
  <2>7. CASE ConfirmRechecks
    BY <2>7, ConfirmRechecksFits
  <2>8. CASE ApplyFails
    BY <2>8, ApplyFailsFits
  <2>9. CASE Rebuild
    BY <1>0, <2>9, RebuildFits
  <2>10. CASE WorldMoves
    <3>1. UNCHANGED <<journal, call>>
      BY <2>10 DEF WorldMoves, ChangeOutside, Vanish, WriteNote
    <3>. QED
      BY <1>1, <3>1
  <2>. QED
    BY <1>2, <2>1, <2>2, <2>3, <2>4, <2>5, <2>6, <2>7, <2>8, <2>9, <2>10, NextIs
<1>. QED
  BY <1>1, <1>2 DEF vars

LEMMA StaysOrdered ==
    ASSUME ReviewInv, FinishedInv, TabMoves
    PROVE  Ordered'
<1>0. Ordered /\ DoomedWhole
  BY DEF FinishedInv, CallFits
<1>1. CASE UNCHANGED journal
  BY <1>0, <1>1 DEF Ordered, StatusesKnown, RevisionsInOrder, PlanFollows, StampedIsNewest, IsNewest
<1>2. ASSUME NEW p, NEW r, NEW meta, NEW c, AddsRevision(p, r, meta, c), Follows(p, r) PROVE Ordered'
  BY <1>0, <1>2, RevisionOrders
<1>3. ASSUME NEW p, NEW row, AddsFeedback(p, row), row.kind = "feedback" PROVE Ordered'
  BY <1>0, <1>3, FeedbackOrders
<1>4. ASSUME NEW i, NEW status, Restates(i, status), Fits(i, status) PROVE Ordered'
  BY <1>0, <1>4, RestatesOrder
<1>5. CASE DeleteRun
  <2>1. PICK f : Deletes(LastRun(call.doomed), f)
    BY <1>5, RunIsDeleted
  <2>. QED
    BY <1>0, <2>1, DeletingOrders
<1>. QED
  BY <1>1, <1>2, <1>3, <1>4, <1>5 DEF TabMoves

LEMMA InitIsFinished == Init => FinishedInv
<1>. SUFFICES ASSUME Init PROVE FinishedInv
  OBVIOUS
<1>1. DOMAIN journal = {} /\ CompactionRows(journal) = {}
  BY DEF Init, CompactionRows
<1>2. call.pc = "idle"
  BY IdleIs DEF Init
<1>. QED
  BY <1>1, <1>2
     DEF FinishedInv, Ordered, StatusesKnown, RevisionsInOrder, PlanFollows, StampedIsNewest,
         CallFits, ConfirmOpen, FailingOpen, MarksFit, DoomedWhole

\* The revisions of every proposal stay in order, and what a call has still to
\* do fits them.
THEOREM FinishedHolds == Spec => []FinishedInv
<1>1. Init => FinishedInv
  BY InitIsFinished
<1>2. ReviewInv /\ ReviewInv' /\ FinishedInv /\ [Next]_vars => FinishedInv'
  BY Moves, StaysOrdered, CallsFit DEF FinishedInv
<1>. QED
  BY <1>1, <1>2, ReviewHolds, PTL DEF Spec

----------------------------------------------------------------------------
(* What's finished isn't open again *)

\* What's open was, or has just begun.
NoneOpens == \A p \in OpenProposals(journal') : p \in OpenProposals(journal) \/ p = proposals'

LEMMA SameRevisionsOpenNone ==
    ASSUME UNCHANGED journal
    PROVE  NoneOpens
BY DEF NoneOpens

LEMMA FeedbackOpensNone ==
    ASSUME ReviewInv, ReviewInv', NEW p, NEW row, AddsFeedback(p, row), row.kind = "feedback"
    PROVE  NoneOpens
<1>. SUFFICES ASSUME NEW q \in OpenProposals(journal') PROVE q \in OpenProposals(journal)
  BY DEF NoneOpens
<1>1. /\ \A i \in DOMAIN journal : i \in DOMAIN journal' /\ journal'[i] = journal[i]
      /\ \A i \in DOMAIN journal' : i \in DOMAIN journal \/ journal'[i] = row
  BY DEF AddsFeedback
<1>2. CompactionRows(journal') = CompactionRows(journal) /\ \A i \in CompactionRows(journal) : journal'[i] = journal[i]
  BY <1>1 DEF CompactionRows
<1>3. PICK n \in RowsOf(journal', q, "compaction") : IsNewest(n)' /\ journal'[n].status \notin FinishedStatuses
  BY OpenHasNewestThen DEF OpenHaveNewest, ReviewInv
<1>4. n \in RowsOf(journal, q, "compaction") /\ journal'[n] = journal[n]
  BY <1>1, <1>2 DEF RowsOf, CompactionRows
<1>5. IsNewest(n)
  BY <1>2, <1>3, <1>4 DEF IsNewest
<1>. QED
  BY <1>3, <1>4, <1>5, NewestTells DEF NewestOpens, ReviewInv

LEMMA RestatesOpenNone ==
    ASSUME ReviewInv, ReviewInv', NEW i, NEW status, Restates(i, status), Fits(i, status)
    PROVE  NoneOpens
<1>. SUFFICES ASSUME NEW q \in OpenProposals(journal') PROVE q \in OpenProposals(journal)
  BY DEF NoneOpens
<1>1. /\ CompactionRows(journal') = CompactionRows(journal)
      /\ RowsOf(journal', q, "compaction") = RowsOf(journal, q, "compaction")
      /\ \A k \in DOMAIN journal : Kept(journal[k], journal'[k])
      /\ \A k \in DOMAIN journal : k # i => journal'[k] = journal[k]
      /\ i \in CompactionRows(journal) => journal'[i].status = status
  BY RestatesKeep DEF ReviewInv, CompactionRows
<1>2. PICK n \in RowsOf(journal', q, "compaction") : IsNewest(n)' /\ journal'[n].status \notin FinishedStatuses
  BY OpenHasNewestThen DEF OpenHaveNewest, ReviewInv
<1>3. n \in RowsOf(journal, q, "compaction") /\ n \in CompactionRows(journal) /\ n \in DOMAIN journal
  BY <1>1 DEF RowsOf, CompactionRows
<1>4. \A k \in CompactionRows(journal) : journal'[k].of = journal[k].of /\ journal'[k].rev = journal[k].rev
  BY <1>1 DEF Kept, CompactionRows
<1>5. IsNewest(n)
  BY <1>1, <1>2, <1>3, <1>4 DEF IsNewest
<1>6. journal[n].status \notin FinishedStatuses
  BY <1>1, <1>2, <1>3 DEF Fits
<1>. QED
  BY <1>3, <1>5, <1>6, NewestTells DEF NewestOpens, ReviewInv

LEMMA RevisionOpensNone ==
    ASSUME ReviewInv, ReviewInv', NEW p, NEW r, NEW meta, NEW c, AddsRevision(p, r, meta, c), Follows(p, r)
    PROVE  NoneOpens
<1>. SUFFICES ASSUME NEW q \in OpenProposals(journal'), q # p PROVE q \in OpenProposals(journal)
  BY DEF NoneOpens, Follows
<1>1. /\ \A i \in DOMAIN journal : i \in DOMAIN journal' /\ journal'[i] = journal[i]
      /\ \A i \in DOMAIN journal' : i \in DOMAIN journal \/ journal'[i].of = p
  BY DEF AddsRevision
<1>2. PICK n \in RowsOf(journal', q, "compaction") : IsNewest(n)' /\ journal'[n].status \notin FinishedStatuses
  BY OpenHasNewestThen DEF OpenHaveNewest, ReviewInv
<1>3. n \in RowsOf(journal, q, "compaction") /\ journal'[n] = journal[n]
  BY <1>1 DEF RowsOf
<1>4. \A k \in CompactionRows(journal) : k \in CompactionRows(journal') /\ journal'[k] = journal[k]
  BY <1>1 DEF CompactionRows
<1>5. IsNewest(n)
  BY <1>2, <1>3, <1>4 DEF IsNewest
<1>. QED
  BY <1>2, <1>3, <1>5, NewestTells DEF NewestOpens, ReviewInv

\* A proposal that's finished isn't open again: not by abandoning another of
\* its revisions, and not because garbage collection took its newest -- but
\* where a stop had left one "proposed" behind it, or one reopened by that went
\* on once the next had begun.
THEOREM FinishedStaysSo == Spec => NoneReopened
<1>1. ASSUME ReviewInv, ReviewInv', FinishedInv, Next, NoneLeftProposed(journal), OneAfterAnother(journal)
      PROVE  NoneOpens
  <2>1. TabMoves
    BY <1>1, Moves
  <2>2. CASE UNCHANGED journal
    BY <2>2, SameRevisionsOpenNone
  <2>3. ASSUME NEW p, NEW r, NEW meta, NEW c, AddsRevision(p, r, meta, c), Follows(p, r) PROVE NoneOpens
    BY <1>1, <2>3, RevisionOpensNone
  <2>4. ASSUME NEW p, NEW row, AddsFeedback(p, row), row.kind = "feedback" PROVE NoneOpens
    BY <1>1, <2>4, FeedbackOpensNone
  <2>5. ASSUME NEW i, NEW status, Restates(i, status), Fits(i, status) PROVE NoneOpens
    BY <1>1, <2>5, RestatesOpenNone
  <2>6. CASE DeleteRun
    <3>1. Ordered /\ DoomedWhole
      BY <1>1 DEF FinishedInv, CallFits
    <3>2. PICK f : Deletes(LastRun(call.doomed), f)
      BY <1>1, <2>6, RunIsDeleted
    <3>3. \A p \in OpenProposals(journal') : p \in OpenProposals(journal)
      BY <1>1, <3>1, <3>2, DeletingReopensNone
    <3>. QED
      BY <3>3 DEF NoneOpens
  <2>. QED
    BY <2>1, <2>2, <2>3, <2>4, <2>5, <2>6 DEF TabMoves
<1>2. ReviewInv /\ ReviewInv' /\ FinishedInv /\ [Next]_vars =>
        [(NoneLeftProposed(journal) /\ OneAfterAnother(journal)) =>
             \A p \in OpenProposals(journal') : p \in OpenProposals(journal) \/ p = proposals']_vars
  BY <1>1 DEF NoneOpens
<1>. QED
  BY <1>2, ReviewHolds, FinishedHolds, PTL DEF Spec, NoneReopened

=============================================================================
