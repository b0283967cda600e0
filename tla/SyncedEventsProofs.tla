------------------------- MODULE SyncedEventsProofs -------------------------
(***************************************************************************)
(* What's kept of the calendar never goes back; and, as long as it isn't   *)
(* forgotten under a sync, misses nothing, is as new as the writes that    *)
(* are over, and warns of what others changed and of nothing else -- for   *)
(* any events, writes, changes, syncs and listings.                        *)
(***************************************************************************)
EXTENDS SyncedEventsProperties, FiniteSetTheorems, SequenceTheorems, TLAPS

Syncs == [at : {"idle", "begun", "answered"}, token : Numbers \cup {NONE}, generation : Nat,
          number : Nat, full : BOOLEAN, items : Numbers, next : Numbers, asked : Nat,
          during : SUBSET Keys]

\* A label's call is to any event; another's to some of them.
CallOK ==
    /\ call = [kind |-> call.kind, stage |-> call.stage, base |-> call.base, version |-> call.version]
    /\ call.kind \in {"none", "edit", "delete", "end", "label"}
    /\ DOMAIN call.stage \subseteq IF call.kind = "label" THEN {All} ELSE Events
    /\ call.stage \in [DOMAIN call.stage -> Stages]
    /\ call.base \in Numbers /\ call.version \in Numbers
    /\ \A k \in DOMAIN call.stage : call.stage[k] = "refused" => call.kind # "label"

TypeOK ==
    /\ made \in [Events -> Seq(Version)]
    /\ clock \in Nat
    /\ feed \in Numbers /\ shown \in Numbers
    /\ store \in Store
    /\ sync \in Syncs
    /\ CallOK
    /\ left \in Course
    /\ past \in [read : Nat, spanned : SUBSET Keys, written : SUBSET Keys, forgot : BOOLEAN]

----------------------------------------------------------------------------
(* What holds of Calendar, and of a sync under way *)

\* Versions are made one after another, by those who write to the event, its
\* series or any event.
MadeInOrder ==
    \A e \in Events : \A i \in 1 .. Latest(e) :
        /\ made[e][i].at <= clock
        /\ \A j \in 1 .. i - 1 : made[e][j].at < made[e][i].at
        /\ made[e][i].by \in Keys => made[e][i].by \in {All, e, SeriesOf[e]}

\* The feed, and full listings, have got to no version there isn't yet.
FeedBehind == \A e \in Events : feed[e] <= Latest(e) /\ shown[e] <= Latest(e)

\* A sync answered asked after the last one taken in; it got what the feed had
\* past its token, or everything, as new as the feed at least.
AnswerOfFeed ==
    /\ past.read <= clock
    /\ sync.at = "begun" => ~sync.full
    /\ sync.at = "answered" =>
         /\ past.read <= sync.asked /\ sync.asked <= clock
         /\ sync.full => sync.items = shown
         /\ ~sync.full => sync.token # NONE
         /\ \A e \in Events :
              /\ sync.next[e] <= feed[e] /\ sync.items[e] <= Latest(e)
              /\ sync.full => sync.next[e] <= sync.items[e]
              /\ ~sync.full => sync.items[e] = IF sync.next[e] > sync.token[e] THEN sync.next[e] ELSE 0

Base == TypeOK /\ MadeInOrder /\ FeedBehind /\ AnswerOfFeed

----------------------------------------------------------------------------
(* Maxima *)

\* A nonempty set of numbers none of which is more than b has a greatest one.
LEMMA Greatest ==
    ASSUME NEW b \in Nat, NEW S, S \subseteq 0 .. b, S # {}
    PROVE  Max(S) \in S /\ \A x \in S : x <= Max(S)
<1>. DEFINE T == {b - x : x \in S}
<1>1. T \subseteq Nat /\ T # {}
  <2>1. \A x \in S : x \in Int /\ 0 <= x /\ x <= b
    OBVIOUS
  <2>2. \A x \in S : b - x \in Nat
    BY <2>1
  <2>. QED
    BY <2>2
<1>2. PICK t \in T : \A y \in T : ~(<<y, t>> \in OpToRel(<, Nat))
  BY <1>1, WFMin, NatLessThanWellFounded
<1>3. \A y \in T : t <= y
  <2>. SUFFICES ASSUME NEW y \in T PROVE t <= y
    OBVIOUS
  <2>. HIDE DEF T
  <2>1. y \in Nat /\ t \in Nat
    BY <1>1
  <2>2. ~(y < t)
    BY <1>2, <2>1 DEF OpToRel
  <2>. QED
    BY <2>1, <2>2
<1>4. PICK x \in S : t = b - x
  BY <1>2
<1>5. \A y \in S : x >= y
  <2>. SUFFICES ASSUME NEW y \in S PROVE x >= y
    OBVIOUS
  <2>1. b - y \in T /\ x \in Int /\ y \in Int /\ b \in Int
    OBVIOUS
  <2>2. b - x <= b - y
    BY <1>3, <1>4, <2>1
  <2>. QED
    BY <2>1, <2>2
<1>6. Max(S) \in S /\ \A y \in S : Max(S) >= y
  BY <1>4, <1>5 DEF Max
<1>. QED
  BY <1>6

LEMMA NewestDoes ==
    ASSUME TypeOK, MadeInOrder, NEW items \in Numbers, \A e \in Events : items[e] <= Latest(e)
    PROVE  /\ Newest(items) \in Nat
           /\ \A e \in Events : items[e] > 0 => made[e][items[e]].at <= Newest(items)
           /\ Newest(items) = 0 \/ \E e \in Events : items[e] > 0 /\ Newest(items) = made[e][items[e]].at
<1>. DEFINE S == {0} \cup {made[e][items[e]].at : e \in {e \in Events : items[e] > 0}}
<1>1. clock \in Nat
  BY DEF TypeOK
<1>2. \A e \in Events : items[e] > 0 => made[e][items[e]].at \in 0 .. clock
  <2>. SUFFICES ASSUME NEW e \in Events, items[e] > 0 PROVE made[e][items[e]].at \in 0 .. clock
    OBVIOUS
  <2>1. made[e] \in Seq(Version) /\ items[e] \in Nat
    BY DEF TypeOK, Numbers
  <2>2. items[e] \in 1 .. Len(made[e])
    BY <2>1, LenProperties DEF Latest
  <2>3. made[e][items[e]] \in Version
    BY <2>1, <2>2, ElementOfSeq
  <2>. QED
    BY <2>2, <2>3, <1>1 DEF MadeInOrder, Latest, Version
<1>3. S \subseteq 0 .. clock /\ S # {}
  BY <1>1, <1>2
<1>. HIDE DEF S
<1>4. Max(S) \in S /\ \A x \in S : x <= Max(S)
  BY <1>1, <1>3, Greatest
<1>5. Newest(items) = Max(S)
  BY DEF Newest, S
<1>6. Newest(items) \in Nat
  <2>1. Max(S) \in 0 .. clock
    BY <1>3, <1>4
  <2>. QED
    BY <2>1, <1>1, <1>5
<1>7. \A e \in Events : items[e] > 0 => made[e][items[e]].at <= Newest(items)
  <2>1. \A e \in Events : items[e] > 0 => made[e][items[e]].at \in S
    BY DEF S
  <2>. QED
    BY <2>1, <1>4, <1>5
<1>8. Newest(items) = 0 \/ \E e \in Events : items[e] > 0 /\ Newest(items) = made[e][items[e]].at
  BY <1>4, <1>5 DEF S
<1>. QED
  BY <1>6, <1>7, <1>8

LEMMA GreaterOfTwo ==
    ASSUME NEW a \in Nat, NEW b \in Nat
    PROVE  Max({a, b}) \in Nat /\ Max({a, b}) >= a /\ Max({a, b}) >= b
<1>1. Max({a, b}) \in {a, b} /\ \A y \in {a, b} : Max({a, b}) >= y
  <2>1. \E x \in {a, b} : \A y \in {a, b} : x >= y
    OBVIOUS
  <2>. QED
    BY <2>1 DEF Max
<1>. QED
  BY <1>1

----------------------------------------------------------------------------
(* Keys *)

LEMMA KeysOfKeys ==
    /\ \A k \in Keys : KeysOf(k) \subseteq Keys /\ k \in KeysOf(k)
    /\ \A e \in Events : KeysOf(e) \subseteq Events
    /\ KeysOf(All) = {All}
    /\ \A e \in Events : SeriesOf[e] # NONE => SeriesOf[e] \in Events /\ SeriesOf[e] # e /\ IsSeries(SeriesOf[e])
BY KeysAssumption, SeriesAssumption DEF KeysOf, Keys, IsSeries

----------------------------------------------------------------------------
(* What a sync takes in *)

Back(s, e, i) == ~IsSeries(e) /\ s.written[e].writing = 0 /\ s.written[e].etag = i
Done(s, e, i) == AnswerIs(s, e, i) \/ AnswerPassedBy(s, e, i)
Warns(s, e, i) ==
    /\ ~Restamped(s, e, i)
    /\ ChangedSinceListed(s, e, i)
    /\ ~IsOurs(s, e)
    /\ ~IsAnswer(s, e, i)

LEMMA BroughtDoes ==
    ASSUME NEW s \in Store, NEW e \in Events, NEW i
    PROVE  LET b == Brought(s, e, i)
           IN  /\ b \in Store
               /\ b.answers = [s.answers EXCEPT ![e] = IF Done(s, e, i) THEN NoAnswer ELSE s.answers[e]]
               /\ b.written = [s.written EXCEPT ![e] = IF Back(s, e, i) THEN Unmarked ELSE s.written[e]]
               /\ b.events = s.events /\ b.outside = s.outside /\ b.listed = s.listed
               /\ b.ended = s.ended
<1>1. NoAnswer \in Answer /\ Unmarked \in Mark
  BY DEF NoAnswer, Answer, Unmarked, Mark, Ages, MARK_SYNCS
<1>2. Events \subseteq Keys
  BY DEF Keys
<1>. QED
  BY <1>1, <1>2 DEF Store, Brought, Done, Back

\* t is s with version i of e taken in.
TakenIn(t, s, e, i, full) ==
    /\ t \in Store
    /\ t.events[e] = IF s.events[e] > i THEN s.events[e] ELSE i
    /\ t.answers[e] = IF Done(s, e, i) THEN NoAnswer ELSE s.answers[e]
    /\ t.written[e] = IF Back(s, e, i) THEN Unmarked ELSE s.written[e]
    /\ t.outside = IF ~full /\ Warns(s, e, i) THEN s.outside \cup {<<e, i>>} ELSE s.outside

LEMMA TakeInItemDoes ==
    ASSUME NEW s \in Store, NEW e \in Events, NEW i \in Nat, NEW full \in BOOLEAN
    PROVE  TakenIn(TakeInItem(s, e, i, full), s, e, i, full)
<1>. DEFINE n == IF ~full /\ Warns(s, e, i) THEN [s EXCEPT !.outside = @ \cup {<<e, i>>}] ELSE s
            b == Brought(n, e, i)
<1>1. TakeInItem(s, e, i, full) = Keep(b, e, i)
  BY DEF TakeInItem, Warns
<1>2. /\ n \in Store /\ n.events = s.events /\ n.answers = s.answers /\ n.written = s.written
      /\ n.outside = IF ~full /\ Warns(s, e, i) THEN s.outside \cup {<<e, i>>} ELSE s.outside
  BY DEF Store
<1>3. Done(n, e, i) = Done(s, e, i) /\ Back(n, e, i) = Back(s, e, i)
  BY <1>2 DEF Done, Back, AnswerIs, AnswerPassedBy
<1>4. /\ b \in Store /\ b.events = s.events /\ b.outside = n.outside
      /\ b.answers[e] = IF Done(s, e, i) THEN NoAnswer ELSE s.answers[e]
      /\ b.written[e] = IF Back(s, e, i) THEN Unmarked ELSE s.written[e]
  <2>1. e \in Keys
    BY DEF Keys
  <2>. HIDE DEF n
  <2>2. n \in Store
    BY <1>2
  <2>3. /\ b \in Store
        /\ b.answers = [n.answers EXCEPT ![e] = IF Done(n, e, i) THEN NoAnswer ELSE n.answers[e]]
        /\ b.written = [n.written EXCEPT ![e] = IF Back(n, e, i) THEN Unmarked ELSE n.written[e]]
        /\ b.events = n.events /\ b.outside = n.outside
    BY <2>2, BroughtDoes
  <2>. QED
    BY <2>1, <2>2, <2>3, <1>2, <1>3 DEF Store
<1>5. /\ Keep(b, e, i) \in Store
      /\ Keep(b, e, i).events[e] = IF b.events[e] > i THEN b.events[e] ELSE i
      /\ Keep(b, e, i).answers = b.answers /\ Keep(b, e, i).written = b.written
      /\ Keep(b, e, i).outside = b.outside
  <2>. HIDE DEF b
  <2>. QED
    BY <1>4 DEF Keep, KeepWhatCame, Store, Numbers
<1>. QED
  BY <1>1, <1>2, <1>4, <1>5 DEF TakenIn

\* A series coming back before its instance changes what's made of the
\* instance only in that its answer may be done with.
LEMMA SeriesBroughtBefore ==
    ASSUME NEW s \in Store, NEW e \in Events, SeriesOf[e] # NONE, NEW j \in Nat, NEW i \in Nat
    PROVE  LET b == Brought(s, SeriesOf[e], j)
           IN  /\ b \in Store
               /\ b.events = s.events /\ b.outside = s.outside /\ b.written = s.written
               /\ b.answers[e] = s.answers[e]
               /\ Done(b, e, i) = Done(s, e, i) /\ Back(b, e, i) = Back(s, e, i)
               /\ Warns(s, e, i) => Warns(b, e, i)
               /\ Warns(b, e, i) => ChangedSinceListed(s, e, i) /\ ~IsOurs(s, e)
<1>. DEFINE r == SeriesOf[e]
            b == Brought(s, r, j)
<1>1. r \in Events /\ r # e /\ IsSeries(r) /\ r \in Keys
  BY KeysOfKeys DEF Keys
<1>2. ~Back(s, r, j)
  BY <1>1 DEF Back
<1>3. /\ b \in Store
      /\ b.answers = [s.answers EXCEPT ![r] = IF Done(s, r, j) THEN NoAnswer ELSE s.answers[r]]
      /\ b.written = [s.written EXCEPT ![r] = s.written[r]]
      /\ b.events = s.events /\ b.outside = s.outside /\ b.listed = s.listed
      /\ b.ended = s.ended
  <2>. HIDE DEF r
  <2>. QED
    BY <1>1, <1>2, BroughtDoes
<1>. HIDE DEF b
<1>4. b.written = s.written /\ b.answers[e] = s.answers[e]
  BY <1>1, <1>3 DEF Store
<1>5. Done(b, e, i) = Done(s, e, i) /\ Back(b, e, i) = Back(s, e, i)
  BY <1>4 DEF Done, Back, AnswerIs, AnswerPassedBy
<1>6. /\ Restamped(b, e, i) = Restamped(s, e, i)
      /\ ChangedSinceListed(b, e, i) = ChangedSinceListed(s, e, i)
      /\ IsOurs(b, e) = IsOurs(s, e)
  BY <1>3, <1>4 DEF Restamped, ChangedSinceListed, IsOurs
<1>7. b.answers[r].deleted => s.answers[r].deleted
  <2>1. s.answers \in [Events -> Answer]
    BY DEF Store
  <2>2. NoAnswer.deleted = FALSE
    BY DEF NoAnswer
  <2>. HIDE DEF r
  <2>3. b.answers[r] = IF Done(s, r, j) THEN NoAnswer ELSE s.answers[r]
    BY <2>1, <1>1, <1>3
  <2>. QED
    BY <2>2, <2>3
<1>8. IsAnswer(b, e, i) => IsAnswer(s, e, i)
  BY <1>3, <1>4, <1>7 DEF IsAnswer, AnswerIs
<1>. QED
  BY <1>3, <1>4, <1>5, <1>6, <1>8 DEF b, Warns

\* t is s with items taken in.
AllTakenIn(t, s, items, full) ==
    /\ t \in Store
    /\ t.token = s.token /\ t.stale = s.stale /\ t.generation = s.generation
    /\ t.ended = s.ended /\ t.listed = s.listed /\ t.syncs = s.syncs
    /\ \A e \in Events :
          /\ t.events[e] = IF items[e] > 0 /\ s.events[e] <= items[e] THEN items[e] ELSE s.events[e]
          /\ t.answers[e] = IF items[e] > 0 /\ Done(s, e, items[e]) THEN NoAnswer ELSE s.answers[e]
          /\ items[e] > 0 /\ ~full /\ Warns(s, e, items[e]) => <<e, items[e]>> \in t.outside
    /\ \A k \in Keys : t.written[k] = IF k \in Events /\ items[k] > 0 /\ Back(s, k, items[k])
                                     THEN Unmarked ELSE s.written[k]
    /\ s.outside \subseteq t.outside
    /\ \A w \in t.outside \ s.outside : \E e \in Events :
          /\ w = <<e, items[e]>> /\ items[e] > 0 /\ ~full
          /\ ChangedSinceListed(s, e, items[e]) /\ ~IsOurs(s, e)

LEMMA TakeInAllDoes ==
    ASSUME NEW s \in Store, NEW items \in Numbers, NEW full \in BOOLEAN,
           NEW after \in SUBSET {e \in Events : items[e] > 0 /\ SeriesOf[e] # NONE /\ items[SeriesOf[e]] > 0}
    PROVE  AllTakenIn(TakeInAll(s, items, full, after), s, items, full)
<1>. DEFINE came == {e \in Events : items[e] > 0}
            Before(e) == IF e \in after THEN Brought(s, SeriesOf[e], items[SeriesOf[e]]) ELSE s
            taken == [e \in came |-> TakeInItem(Before(e), e, items[e], full)]
            t == TakeInAll(s, items, full, after)
<1>1. \A e \in came :
        /\ taken[e] \in Store
        /\ taken[e].events[e] = IF s.events[e] <= items[e] THEN items[e] ELSE s.events[e]
        /\ taken[e].answers[e] = IF Done(s, e, items[e]) THEN NoAnswer ELSE s.answers[e]
        /\ taken[e].written[e] = IF Back(s, e, items[e]) THEN Unmarked ELSE s.written[e]
        /\ s.outside \subseteq taken[e].outside
        /\ ~full /\ Warns(s, e, items[e]) => <<e, items[e]>> \in taken[e].outside
        /\ \A w \in taken[e].outside \ s.outside :
              w = <<e, items[e]>> /\ ~full /\ ChangedSinceListed(s, e, items[e]) /\ ~IsOurs(s, e)
  <2>. SUFFICES ASSUME NEW e \in came
       PROVE /\ taken[e] \in Store
             /\ taken[e].events[e] = IF s.events[e] <= items[e] THEN items[e] ELSE s.events[e]
             /\ taken[e].answers[e] = IF Done(s, e, items[e]) THEN NoAnswer ELSE s.answers[e]
             /\ taken[e].written[e] = IF Back(s, e, items[e]) THEN Unmarked ELSE s.written[e]
             /\ s.outside \subseteq taken[e].outside
             /\ ~full /\ Warns(s, e, items[e]) => <<e, items[e]>> \in taken[e].outside
             /\ \A w \in taken[e].outside \ s.outside :
                   w = <<e, items[e]>> /\ ~full /\ ChangedSinceListed(s, e, items[e]) /\ ~IsOurs(s, e)
    OBVIOUS
  <2>. DEFINE b == Before(e)
              i == items[e]
  <2>1. e \in Events /\ i \in Nat /\ s.events[e] \in Nat
    BY DEF Numbers, Store
  <2>2. /\ b \in Store /\ b.events = s.events /\ b.outside = s.outside /\ b.written = s.written
        /\ b.answers[e] = s.answers[e]
        /\ Done(b, e, i) = Done(s, e, i) /\ Back(b, e, i) = Back(s, e, i)
        /\ Warns(s, e, i) => Warns(b, e, i)
        /\ Warns(b, e, i) => ChangedSinceListed(s, e, i) /\ ~IsOurs(s, e)
    <3>1. CASE e \in after
      <4>1. SeriesOf[e] # NONE /\ SeriesOf[e] \in Events
        BY <3>1, KeysOfKeys
      <4>2. items[SeriesOf[e]] \in Nat
        BY <4>1 DEF Numbers
      <4>. QED
        BY <2>1, <3>1, <4>1, <4>2, SeriesBroughtBefore
    <3>2. CASE e \notin after
      BY <3>2 DEF Warns
    <3>. QED
      BY <3>1, <3>2
  <2>3. taken[e] = TakeInItem(b, e, i, full)
    OBVIOUS
  <2>. HIDE DEF b, i, Before, taken
  <2>4. /\ taken[e] \in Store
        /\ taken[e].events[e] = IF b.events[e] > i THEN b.events[e] ELSE i
        /\ taken[e].answers[e] = IF Done(b, e, i) THEN NoAnswer ELSE b.answers[e]
        /\ taken[e].written[e] = IF Back(b, e, i) THEN Unmarked ELSE b.written[e]
        /\ taken[e].outside = IF ~full /\ Warns(b, e, i) THEN b.outside \cup {<<e, i>>} ELSE b.outside
    <3>1. b \in Store /\ e \in Events /\ i \in Nat
      BY <2>1, <2>2
    <3>2. TakenIn(TakeInItem(b, e, i, full), b, e, i, full)
      BY <3>1, TakeInItemDoes
    <3>. QED
      BY <2>3, <3>2 DEF TakenIn
  <2>. QED
    BY <2>1, <2>2, <2>4 DEF i
<1>2. t = [s EXCEPT !.events = [e \in Events |-> IF e \in came THEN taken[e].events[e] ELSE s.events[e]],
                    !.answers = [e \in Events |-> IF e \in came THEN taken[e].answers[e] ELSE s.answers[e]],
                    !.written = [k \in Keys |-> IF k \in came THEN taken[k].written[k] ELSE s.written[k]],
                    !.outside = s.outside \cup UNION {taken[e].outside : e \in came}]
  BY DEF TakeInAll
<1>. HIDE DEF taken, t, came
<1>3. came \subseteq Events /\ came \subseteq Keys /\ \A e \in Events : e \in came <=> items[e] > 0
  BY DEF came, Keys
<1>4. /\ [e \in Events |-> IF e \in came THEN taken[e].events[e] ELSE s.events[e]] \in Numbers
      /\ [e \in Events |-> IF e \in came THEN taken[e].answers[e] ELSE s.answers[e]] \in [Events -> Answer]
      /\ [k \in Keys |-> IF k \in came THEN taken[k].written[k] ELSE s.written[k]] \in [Keys -> Mark]
      /\ s.outside \cup UNION {taken[e].outside : e \in came} \in SUBSET (Events \X Nat)
  <2>1. \A e \in came : /\ taken[e].events \in Numbers /\ taken[e].answers \in [Events -> Answer]
                        /\ taken[e].written \in [Keys -> Mark] /\ taken[e].outside \subseteq Events \X Nat
    BY <1>1 DEF Store
  <2>2. /\ s.events \in Numbers /\ s.answers \in [Events -> Answer]
        /\ s.written \in [Keys -> Mark] /\ s.outside \subseteq Events \X Nat
    BY DEF Store
  <2>. QED
    BY <2>1, <2>2, <1>3 DEF Numbers
<1>5. t \in Store
  BY <1>2, <1>4 DEF Store
<1>6. /\ t.token = s.token /\ t.stale = s.stale /\ t.generation = s.generation
      /\ t.ended = s.ended /\ t.listed = s.listed /\ t.syncs = s.syncs
      /\ t.events = [e \in Events |-> IF e \in came THEN taken[e].events[e] ELSE s.events[e]]
      /\ t.answers = [e \in Events |-> IF e \in came THEN taken[e].answers[e] ELSE s.answers[e]]
      /\ t.written = [k \in Keys |-> IF k \in came THEN taken[k].written[k] ELSE s.written[k]]
      /\ t.outside = s.outside \cup UNION {taken[e].outside : e \in came}
  BY <1>2 DEF Store
<1>7. \A e \in Events :
        /\ t.events[e] = IF items[e] > 0 /\ s.events[e] <= items[e] THEN items[e] ELSE s.events[e]
        /\ t.answers[e] = IF items[e] > 0 /\ Done(s, e, items[e]) THEN NoAnswer ELSE s.answers[e]
        /\ items[e] > 0 /\ ~full /\ Warns(s, e, items[e]) => <<e, items[e]>> \in t.outside
  BY <1>1, <1>3, <1>6
<1>8. \A k \in Keys : t.written[k] = IF k \in Events /\ items[k] > 0 /\ Back(s, k, items[k])
                                    THEN Unmarked ELSE s.written[k]
  BY <1>1, <1>3, <1>6
<1>9. \A w \in t.outside \ s.outside : \E e \in Events :
        /\ w = <<e, items[e]>> /\ items[e] > 0 /\ ~full
        /\ ChangedSinceListed(s, e, items[e]) /\ ~IsOurs(s, e)
  <2>. SUFFICES ASSUME NEW w \in t.outside \ s.outside
       PROVE \E e \in Events :
               /\ w = <<e, items[e]>> /\ items[e] > 0 /\ ~full
               /\ ChangedSinceListed(s, e, items[e]) /\ ~IsOurs(s, e)
    OBVIOUS
  <2>1. PICK e \in came : w \in taken[e].outside \ s.outside
    BY <1>6
  <2>2. /\ w = <<e, items[e]>> /\ ~full
        /\ ChangedSinceListed(s, e, items[e]) /\ ~IsOurs(s, e)
    BY <2>1, <1>1
  <2>3. e \in Events /\ items[e] > 0
    BY <1>3
  <2>. QED
    BY <2>2, <2>3
<1>. QED
  BY <1>1, <1>3, <1>5, <1>6, <1>7, <1>8, <1>9 DEF t, AllTakenIn

\* What's kept once a sync's taken in.
LEMMA TakesInDoes ==
    ASSUME Base, TakesIn
    PROVE  /\ store' \in Store
           /\ store'.token = sync.next /\ store'.generation = store.generation
           /\ store'.stale = (store.stale /\ store.generation # sync.generation)
           /\ store'.ended = store.ended /\ store'.syncs = store.syncs
           /\ store'.listed = IF sync.full THEN Newest(sync.items) ELSE store.listed
           /\ \A e \in Events :
                 /\ store'.events[e] = IF sync.items[e] > 0
                                       THEN IF store.events[e] <= sync.items[e] THEN sync.items[e] ELSE store.events[e]
                                       ELSE IF sync.full /\ ~IsOurs(store, e) THEN 0 ELSE store.events[e]
                 /\ store'.answers[e] = IF sync.items[e] > 0 /\ Done(store, e, sync.items[e])
                                        THEN NoAnswer ELSE store.answers[e]
                 /\ sync.items[e] > 0 /\ ~sync.full /\ Warns(store, e, sync.items[e])
                      => <<e, sync.items[e]>> \in store'.outside
           /\ \A k \in Keys :
                 \/ /\ store'.written[k] = Unmarked /\ store.written[k].writing = 0
                    /\ \/ store.written[k].age # "fresh"
                       \/ k \in Events /\ sync.items[k] > 0 /\ Back(store, k, sync.items[k])
                 \/ /\ store'.written[k].writing = store.written[k].writing
                    /\ store'.written[k].age = store.written[k].age
                    /\ store'.written[k].etag = store.written[k].etag
           /\ store.outside \subseteq store'.outside
           /\ \A w \in store'.outside \ store.outside : \E e \in Events :
                 /\ w = <<e, sync.items[e]>> /\ sync.items[e] > 0 /\ ~sync.full
                 /\ ChangedSinceListed(store, e, sync.items[e]) /\ ~IsOurs(store, e)
<1>0. /\ store \in Store /\ sync.items \in Numbers /\ sync.full \in BOOLEAN /\ sync.next \in Numbers
      /\ sync.number \in Nat
  BY DEF Base, TypeOK, Syncs
<1>. DEFINE s == IF sync.full THEN [store EXCEPT !.listed = Newest(sync.items)] ELSE store
            t(after) == TakeInAll(s, sync.items, sync.full, after)
            k(after) == IF sync.full THEN KeepOnly(t(after), sync.items) ELSE t(after)
            f(after) == [k(after) EXCEPT !.token = sync.next,
                           !.stale = @ /\ store.generation # sync.generation]
<1>1. PICK after \in SUBSET {e \in Events : /\ sync.items[e] > 0 /\ SeriesOf[e] # NONE
                                          /\ sync.items[SeriesOf[e]] > 0} :
        store' = Lapse(Synced(f(after), sync.number))
  BY DEF TakesIn
<1>2. sync.full => Newest(sync.items) \in Nat
  BY <1>0, NewestDoes DEF Base, AnswerOfFeed, TakesIn
<1>3. /\ s \in Store /\ s.listed = IF sync.full THEN Newest(sync.items) ELSE store.listed
      /\ s.token = store.token /\ s.stale = store.stale /\ s.generation = store.generation
      /\ s.ended = store.ended /\ s.syncs = store.syncs /\ s.events = store.events
      /\ s.answers = store.answers /\ s.written = store.written /\ s.outside = store.outside
  BY <1>0, <1>2 DEF Store
<1>4. /\ \A e \in Events : IsOurs(s, e) = IsOurs(store, e)
      /\ \A e \in Events, i \in Nat : Done(s, e, i) = Done(store, e, i) /\ Back(s, e, i) = Back(store, e, i)
      /\ ~sync.full => s = store
  BY <1>3 DEF IsOurs, Done, Back, AnswerIs, AnswerPassedBy
<1>. HIDE DEF s
<1>. DEFINE T == t(after)
            K == k(after)
            F == f(after)
            G == Synced(F, sync.number)
<1>5. AllTakenIn(T, s, sync.items, sync.full)
  BY <1>0, <1>1, <1>3, TakeInAllDoes
<1>. HIDE DEF T, t
<1>20. /\ T \in Store
       /\ T.token = s.token /\ T.stale = s.stale /\ T.generation = s.generation
       /\ T.ended = s.ended /\ T.listed = s.listed /\ T.syncs = s.syncs
       /\ s.outside \subseteq T.outside
  BY <1>5 DEF AllTakenIn
<1>21. \A e \in Events :
         /\ T.events[e] = IF sync.items[e] > 0 /\ s.events[e] <= sync.items[e] THEN sync.items[e] ELSE s.events[e]
         /\ T.answers[e] = IF sync.items[e] > 0 /\ Done(s, e, sync.items[e]) THEN NoAnswer ELSE s.answers[e]
         /\ sync.items[e] > 0 /\ ~sync.full /\ Warns(s, e, sync.items[e]) => <<e, sync.items[e]>> \in T.outside
  BY <1>5 DEF AllTakenIn
<1>22. \A j \in Keys : T.written[j] = IF j \in Events /\ sync.items[j] > 0 /\ Back(s, j, sync.items[j])
                                    THEN Unmarked ELSE s.written[j]
  BY <1>5 DEF AllTakenIn
<1>23. \A w \in T.outside \ s.outside : \E e \in Events :
         /\ w = <<e, sync.items[e]>> /\ sync.items[e] > 0 /\ ~sync.full
         /\ ChangedSinceListed(s, e, sync.items[e]) /\ ~IsOurs(s, e)
  BY <1>5 DEF AllTakenIn
<1>6. \A e \in Events : sync.items[e] = 0 => IsOurs(T, e) = IsOurs(s, e)
  <2>. SUFFICES ASSUME NEW e \in Events, sync.items[e] = 0 PROVE IsOurs(T, e) = IsOurs(s, e)
    OBVIOUS
  <2>1. \A j \in {All} \cup KeysOf(e) : j \in Keys /\ (j = All \/ j = e \/ (j \in Events /\ IsSeries(j)))
    BY KeysOfKeys, KeysAssumption DEF KeysOf, Keys
  <2>2. \A j \in {All} \cup KeysOf(e) : T.written[j] = s.written[j]
    BY <2>1, <1>22, KeysAssumption DEF Back
  <2>. QED
    BY <2>2 DEF IsOurs
<1>7. /\ K \in Store
      /\ K.token = s.token /\ K.stale = s.stale /\ K.generation = s.generation
      /\ K.ended = s.ended /\ K.listed = s.listed /\ K.syncs = s.syncs
      /\ K.answers = T.answers /\ K.written = T.written /\ K.outside = T.outside
      /\ \A e \in Events : K.events[e] = IF sync.full /\ ~(sync.items[e] > 0 \/ IsOurs(T, e)) THEN 0 ELSE T.events[e]
  <2>1. K = IF sync.full THEN KeepOnly(T, sync.items) ELSE T
    BY DEF T
  <2>2. KeepOnly(T, sync.items) = [T EXCEPT !.events = [e \in Events |-> IF sync.items[e] > 0 \/ IsOurs(T, e) THEN T.events[e] ELSE 0]]
    BY DEF KeepOnly
  <2>. HIDE DEF K
  <2>3. [e \in Events |-> IF sync.items[e] > 0 \/ IsOurs(T, e) THEN T.events[e] ELSE 0] \in Numbers
    BY <1>20 DEF Store, Numbers
  <2>4. KeepOnly(T, sync.items) \in Store
    BY <2>2, <2>3, <1>20 DEF Store
  <2>. QED
    BY <2>1, <2>2, <2>3, <2>4, <1>20 DEF Store
<1>. HIDE DEF K, k
<1>8. /\ F \in Store /\ F.token = sync.next
      /\ F.stale = (s.stale /\ store.generation # sync.generation)
      /\ F.generation = s.generation
      /\ F.ended = s.ended /\ F.listed = s.listed /\ F.syncs = s.syncs
      /\ F.answers = T.answers /\ F.written = T.written /\ F.outside = T.outside
      /\ F.events = K.events
  <2>1. F = [K EXCEPT !.token = sync.next, !.stale = @ /\ store.generation # sync.generation]
    BY DEF K
  <2>. HIDE DEF F
  <2>. QED
    BY <2>1, <1>0, <1>7 DEF Store
<1>. HIDE DEF F, f
<1>9. /\ G = [F EXCEPT !.written = G.written]
      /\ G.written \in [Keys -> Mark]
      /\ \A j \in Keys : /\ G.written[j].writing = F.written[j].writing
                        /\ G.written[j].age = F.written[j].age
                        /\ G.written[j].etag = F.written[j].etag
  <2>. DEFINE w == [j \in Keys |-> SyncedMark(F.written[j], sync.number)]
  <2>1. G = [F EXCEPT !.written = w]
    BY DEF Synced
  <2>2. F.written \in [Keys -> Mark]
    BY <1>8 DEF Store
  <2>3. \A j \in Keys : /\ w[j] \in Mark
                      /\ w[j].writing = F.written[j].writing
                      /\ w[j].age = F.written[j].age
                      /\ w[j].etag = F.written[j].etag
    BY <2>2 DEF SyncedMark, Mark, MARK_SYNCS
  <2>4. w \in [Keys -> Mark]
    BY <2>3
  <2>. HIDE DEF w, G
  <2>5. G.written = w
    BY <2>1, <1>8 DEF Store
  <2>. QED
    BY <2>1, <2>3, <2>4, <2>5
<1>. HIDE DEF G
<1>10. /\ store' = [G EXCEPT !.written = [j \in Keys |-> IF Holds(G.written[j]) THEN G.written[j] ELSE Unmarked]]
  BY <1>1 DEF Lapse, G, F
<1>11. /\ store' \in Store /\ store'.token = F.token /\ store'.stale = F.stale
       /\ store'.generation = F.generation /\ store'.ended = F.ended /\ store'.listed = F.listed
       /\ store'.syncs = F.syncs /\ store'.answers = F.answers /\ store'.outside = F.outside
       /\ store'.events = F.events
       /\ \A j \in Keys : store'.written[j] = IF Holds(G.written[j]) THEN G.written[j] ELSE Unmarked
  <2>1. Unmarked \in Mark
    BY DEF Unmarked, Mark, Ages, MARK_SYNCS
  <2>2. G \in Store /\ G.token = F.token /\ G.stale = F.stale
       /\ G.generation = F.generation /\ G.ended = F.ended /\ G.listed = F.listed
       /\ G.syncs = F.syncs /\ G.answers = F.answers /\ G.outside = F.outside
       /\ G.events = F.events
    BY <1>8, <1>9 DEF Store
  <2>3. [j \in Keys |-> IF Holds(G.written[j]) THEN G.written[j] ELSE Unmarked] \in [Keys -> Mark]
    BY <1>9, <2>1
  <2>. QED
    BY <1>10, <2>2, <2>3 DEF Store
<1>12. \A j \in Keys :
         \/ /\ store'.written[j] = Unmarked /\ store.written[j].writing = 0
            /\ \/ store.written[j].age # "fresh"
               \/ j \in Events /\ sync.items[j] > 0 /\ Back(store, j, sync.items[j])
         \/ /\ store'.written[j].writing = store.written[j].writing
            /\ store'.written[j].age = store.written[j].age
            /\ store'.written[j].etag = store.written[j].etag
  <2>. SUFFICES ASSUME NEW j \in Keys
       PROVE \/ /\ store'.written[j] = Unmarked /\ store.written[j].writing = 0
                /\ \/ store.written[j].age # "fresh"
                   \/ j \in Events /\ sync.items[j] > 0 /\ Back(store, j, sync.items[j])
             \/ /\ store'.written[j].writing = store.written[j].writing
                /\ store'.written[j].age = store.written[j].age
                /\ store'.written[j].etag = store.written[j].etag
    OBVIOUS
  <2>0. Unmarked.writing = 0 /\ Unmarked.age = "never" /\ Unmarked.etag = 0
    BY DEF Unmarked
  <2>1. CASE j \in Events /\ sync.items[j] > 0 /\ Back(s, j, sync.items[j])
    <3>1. sync.items[j] \in Nat
      BY <1>0, <2>1 DEF Numbers
    <3>2. Back(store, j, sync.items[j]) /\ store.written[j].writing = 0
      BY <3>1, <2>1, <1>4 DEF Back
    <3>3. G.written[j].writing = 0 /\ G.written[j].age = "never"
      BY <2>0, <2>1, <1>22, <1>8, <1>9
    <3>4. ~Holds(G.written[j])
      BY <3>3 DEF Holds
    <3>. QED
      BY <3>2, <3>4, <2>1, <1>11
  <2>2. CASE ~(j \in Events /\ sync.items[j] > 0 /\ Back(s, j, sync.items[j]))
    <3>1. /\ G.written[j].writing = store.written[j].writing
          /\ G.written[j].age = store.written[j].age
          /\ G.written[j].etag = store.written[j].etag
      BY <2>2, <1>3, <1>22, <1>8, <1>9
    <3>2. store.written[j].writing \in Nat
      BY <1>0 DEF Store, Mark
    <3>3. ~Holds(G.written[j]) => store.written[j].writing = 0 /\ store.written[j].age # "fresh"
      BY <3>1, <3>2 DEF Holds
    <3>. QED
      BY <3>1, <3>3, <1>11
  <2>. QED
    BY <2>1, <2>2
<1>13. \A e \in Events :
         /\ store'.events[e] = IF sync.items[e] > 0
                                       THEN IF store.events[e] <= sync.items[e] THEN sync.items[e] ELSE store.events[e]
                                       ELSE IF sync.full /\ ~IsOurs(store, e) THEN 0 ELSE store.events[e]
         /\ store'.answers[e] = IF sync.items[e] > 0 /\ Done(store, e, sync.items[e])
                                THEN NoAnswer ELSE store.answers[e]
  <2>. SUFFICES ASSUME NEW e \in Events
       PROVE /\ store'.events[e] = IF sync.items[e] > 0
                                       THEN IF store.events[e] <= sync.items[e] THEN sync.items[e] ELSE store.events[e]
                                       ELSE IF sync.full /\ ~IsOurs(store, e) THEN 0 ELSE store.events[e]
             /\ store'.answers[e] = IF sync.items[e] > 0 /\ Done(store, e, sync.items[e])
                                    THEN NoAnswer ELSE store.answers[e]
    OBVIOUS
  <2>1. sync.items[e] \in Nat
    BY <1>0 DEF Numbers
  <2>2. sync.items[e] = 0 => IsOurs(T, e) = IsOurs(store, e)
    BY <1>4, <1>6
  <2>3. Done(s, e, sync.items[e]) = Done(store, e, sync.items[e])
    BY <2>1, <1>4
  <2>4. store'.events[e] = IF sync.full /\ ~(sync.items[e] > 0 \/ IsOurs(T, e)) THEN 0 ELSE T.events[e]
    BY <1>7, <1>8, <1>11
  <2>5. T.events[e] = IF sync.items[e] > 0 /\ store.events[e] <= sync.items[e] THEN sync.items[e] ELSE store.events[e]
    BY <1>3, <1>21
  <2>6. store'.answers[e] = IF sync.items[e] > 0 /\ Done(store, e, sync.items[e])
                           THEN NoAnswer ELSE store.answers[e]
    <3>1. T.answers[e] = IF sync.items[e] > 0 /\ Done(s, e, sync.items[e]) THEN NoAnswer ELSE s.answers[e]
      BY <1>21
    <3>2. store'.answers = T.answers /\ s.answers = store.answers
      BY <1>3, <1>8, <1>11
    <3>. QED
      BY <2>3, <3>1, <3>2
  <2>7. CASE sync.items[e] > 0
    BY <2>4, <2>5, <2>6, <2>7
  <2>8. CASE sync.items[e] = 0
    <3>1. ~(sync.items[e] > 0)
      BY <2>8
    <3>. QED
      BY <3>1, <2>2, <2>8, <2>4, <2>5, <2>6
  <2>. QED
    BY <2>1, <2>7, <2>8
<1>14. \A w \in store'.outside \ store.outside : \E e \in Events :
                 /\ w = <<e, sync.items[e]>> /\ sync.items[e] > 0 /\ ~sync.full
                 /\ ChangedSinceListed(store, e, sync.items[e]) /\ ~IsOurs(store, e)
  <2>. SUFFICES ASSUME NEW w \in store'.outside \ store.outside
       PROVE \E e \in Events :
                 /\ w = <<e, sync.items[e]>> /\ sync.items[e] > 0 /\ ~sync.full
                 /\ ChangedSinceListed(store, e, sync.items[e]) /\ ~IsOurs(store, e)
    OBVIOUS
  <2>1. w \in T.outside \ s.outside
    BY <1>3, <1>8, <1>11
  <2>2. PICK e \in Events :
            /\ w = <<e, sync.items[e]>> /\ sync.items[e] > 0 /\ ~sync.full
            /\ ChangedSinceListed(s, e, sync.items[e]) /\ ~IsOurs(s, e)
    BY <2>1, <1>23
  <2>. QED
    BY <2>2, <1>4
<1>15. \A e \in Events : sync.items[e] > 0 /\ ~sync.full /\ Warns(store, e, sync.items[e])
                      => <<e, sync.items[e]>> \in store'.outside
  BY <1>4, <1>21, <1>8, <1>11
<1>. QED
  BY <1>3, <1>20, <1>8, <1>11, <1>12, <1>13, <1>14, <1>15

----------------------------------------------------------------------------
(* What each step does *)

\* Versions of the events of dom are made, by `by`.
Grew(by, dom) ==
    /\ clock' = clock + 1
    /\ made' \in [Events -> Seq(Version)]
    /\ \A e \in Events :
         /\ Len(made'[e]) = IF e \in dom THEN Len(made[e]) + 1 ELSE Len(made[e])
         /\ \A i \in 1 .. Len(made[e]) : made'[e][i] = made[e][i]
         /\ e \in dom => LET v == made'[e][Len(made[e]) + 1] IN v.at = clock + 1 /\ v.by = by

LEMMA ChangeDoes ==
    ASSUME TypeOK, NEW live, \A e \in DOMAIN live : live[e] \in BOOLEAN,
           NEW by \in Keys \cup {Outside}, Change(live, by)
    PROVE  Grew(by, DOMAIN live)
<1>1. clock \in Nat /\ made \in [Events -> Seq(Version)]
  BY DEF TypeOK
<1>2. clock' = clock + 1 /\ made' = [e \in Events |->
          IF e \in DOMAIN live
          THEN Append(made[e], [at |-> clock + 1, live |-> live[e], by |-> by]) ELSE made[e]]
  BY DEF Change
<1>3. ASSUME NEW e \in Events
      PROVE /\ made'[e] \in Seq(Version)
            /\ Len(made'[e]) = IF e \in DOMAIN live THEN Len(made[e]) + 1 ELSE Len(made[e])
            /\ \A i \in 1 .. Len(made[e]) : made'[e][i] = made[e][i]
            /\ e \in DOMAIN live => LET v == made'[e][Len(made[e]) + 1] IN v.at = clock + 1 /\ v.by = by
  <2>1. CASE e \in DOMAIN live
    <3>. DEFINE v == [at |-> clock + 1, live |-> live[e], by |-> by]
    <3>1. v \in Version /\ v.at = clock + 1 /\ v.by = by
      BY <1>1, <2>1 DEF Version
    <3>2. made'[e] = Append(made[e], v)
      BY <1>2, <2>1
    <3>. HIDE DEF v
    <3>3. made[e] \in Seq(Version)
      BY <1>1
    <3>. QED
      BY <2>1, <3>1, <3>2, <3>3, AppendProperties
  <2>2. CASE e \notin DOMAIN live
    BY <1>1, <1>2, <2>2
  <2>. QED
    BY <2>1, <2>2
<1>4. made' \in [Events -> Seq(Version)]
  BY <1>2, <1>3
<1>. QED
  BY <1>2, <1>3, <1>4 DEF Grew

LEMMA MakesDoes ==
    ASSUME TypeOK, NEW k \in DOMAIN call.stage, CalendarMakes(k)
    PROVE  \E dom \in SUBSET Events :
             /\ Grew(k, dom)
             /\ k # All => k \in dom
             /\ \A e \in dom : k \in {All, e, SeriesOf[e]}
<1>1. k \in Keys /\ (k = All <=> call.kind = "label")
  BY KeysAssumption DEF TypeOK, CallOK, Keys
<1>2. PICK live \in Changes(k) : Change(live, k)
  BY DEF CalendarMakes
<1>3. /\ DOMAIN live \subseteq Events /\ \A e \in DOMAIN live : live[e] \in BOOLEAN
      /\ k # All => k \in DOMAIN live
      /\ \A e \in DOMAIN live : k \in {All, e, SeriesOf[e]}
  <2>1. CASE call.kind = "label"
    <3>1. PICK es \in SUBSET Events : live = [e \in es |-> LiveNow(e)]
      BY <1>2, <2>1 DEF Changes
    <3>2. \A e \in es : LiveNow(e) \in BOOLEAN
      BY DEF LiveNow, Live, TypeOK
    <3>. QED
      BY <1>1, <2>1, <3>1, <3>2
  <2>2. CASE call.kind = "delete"
    BY <1>1, <1>2, <2>2 DEF Changes, Keys
  <2>3. CASE call.kind = "end"
    BY <1>1, <1>2, <2>3 DEF Changes, Keys
  <2>4. CASE call.kind \notin {"label", "delete", "end"}
    <3>1. PICK es \in SUBSET {e \in Events : SeriesOf[e] = k} : live = [e \in {k} \cup es |-> TRUE]
      BY <1>2, <2>4 DEF Changes
    <3>. QED
      BY <1>1, <2>4, <3>1 DEF Keys
  <2>. QED
    BY <2>1, <2>2, <2>3, <2>4
<1>4. Grew(k, DOMAIN live)
  BY <1>1, <1>2, <1>3, ChangeDoes
<1>. QED
  BY <1>3, <1>4

\* What of the Store only some steps change.
KeepsMarks == store'.written = store.written /\ store'.generation = store.generation
KeepsEvents == store'.events = store.events /\ store'.answers = store.answers /\ store'.ended = store.ended
KeepsSyncs ==
    /\ store'.token = store.token /\ store'.outside = store.outside
    /\ store'.listed = store.listed

\* The marks a call's beginning makes or adds to.
MarksBegun(keys) ==
    \A j \in Keys :
        /\ store'.written[j].writing = store.written[j].writing + WritesOf(keys, j)
        /\ store'.written[j].age = store.written[j].age
        /\ store'.written[j].etag = store.written[j].etag
        /\ WritesOf(keys, j) \in Nat
        /\ WritesOf(keys, j) = 0 => j \notin UNION {KeysOf(k) : k \in keys}
                                /\ store'.written[j] = store.written[j]

LEMMA BeginDoes ==
    ASSUME TypeOK, NEW kind, NEW keys \in SUBSET Keys, keys # {}, Begin(kind, keys)
    PROVE  /\ store' \in Store
           /\ KeepsEvents /\ KeepsSyncs /\ store'.syncs = store.syncs
           /\ store'.stale = TRUE /\ store'.generation > store.generation
           /\ MarksBegun(keys)
<1>1. IsFiniteSet(Keys)
  <2>1. IsFiniteSet(Events)
    BY KeysAssumption
  <2>. QED
    BY <2>1, FS_AddElement DEF Keys
<1>2. Cardinality(keys) \in Nat \ {0}
  BY <1>1, FS_Subset, FS_CardinalityType, FS_EmptySet
<1>3. ASSUME NEW j \in Keys
      PROVE /\ WritesOf(keys, j) \in Nat
            /\ WritesOf(keys, j) = 0 => j \notin UNION {KeysOf(k) : k \in keys}
  <2>. DEFINE S == {k \in keys : j \in KeysOf(k)}
  <2>1. IsFiniteSet(S)
    BY <1>1, FS_Subset
  <2>2. Cardinality(S) \in Nat /\ (Cardinality(S) = 0 <=> S = {})
    BY <2>1, FS_CardinalityType, FS_EmptySet
  <2>. QED
    BY <2>2 DEF WritesOf
<1>. DEFINE w == [j \in Keys |-> Begun(store.written[j], WritesOf(keys, j))]
<1>4. store' = [store EXCEPT !.stale = TRUE, !.generation = @ + Cardinality(keys), !.written = w]
  BY DEF Begin, Writing
<1>5. store \in Store /\ store.written \in [Keys -> Mark]
  BY DEF TypeOK, Store
<1>6. ASSUME NEW j \in Keys
      PROVE /\ w[j] \in Mark
            /\ w[j].writing = store.written[j].writing + WritesOf(keys, j)
            /\ w[j].age = store.written[j].age /\ w[j].etag = store.written[j].etag
            /\ WritesOf(keys, j) = 0 => w[j] = store.written[j]
  BY <1>3, <1>5 DEF Mark, Begun
<1>7. w \in [Keys -> Mark]
  BY <1>6
<1>. HIDE DEF w
<1>8. store' \in Store /\ store'.written = w
  <2>1. store.generation + Cardinality(keys) \in Nat
    BY <1>2, <1>5 DEF Store
  <2>. QED
    BY <2>1, <1>4, <1>5, <1>7 DEF Store
<1>9. KeepsEvents /\ KeepsSyncs /\ store'.stale = TRUE /\ store'.generation > store.generation
      /\ store'.syncs = store.syncs
  BY <1>2, <1>4, <1>5 DEF Store, KeepsEvents, KeepsSyncs
<1>. QED
  BY <1>3, <1>6, <1>8, <1>9 DEF MarksBegun

LEMMA KeepDoes ==
    ASSUME NEW s \in Store, NEW e \in Events, NEW i \in Nat
    PROVE  LET t == Keep(s, e, i)
           IN  /\ t \in Store
               /\ t.events = [s.events EXCEPT ![e] = IF s.events[e] > i THEN s.events[e] ELSE i]
               /\ t.answers = s.answers /\ t.ended = s.ended /\ t.written = s.written
               /\ t.token = s.token /\ t.stale = s.stale /\ t.generation = s.generation
               /\ t.outside = s.outside /\ t.listed = s.listed /\ t.syncs = s.syncs
BY DEF Keep, KeepWhatCame, Store, Numbers

LEMMA NoteDoes ==
    ASSUME TypeOK, NEW k \in DOMAIN call.stage, NoteAnswer(k), k # All
    PROVE  /\ store' \in Store /\ KeepsMarks /\ KeepsSyncs /\ store'.syncs = store.syncs
           /\ store'.stale = store.stale
           /\ \A e \in Events :
                /\ store'.events[e] = IF e = k /\ call.kind # "delete" /\ store.events[e] <= call.version[e]
                                      THEN call.version[e] ELSE store.events[e]
                /\ store'.answers[e] = IF e # k THEN store.answers[e]
                                       ELSE IF call.kind = "delete" THEN [version |-> 0, deleted |-> TRUE]
                                       ELSE [version |-> call.version[e], deleted |-> FALSE]
           /\ \A e \in store'.ended : e \in store.ended \/ SeriesOf[e] = k
<1>1. k \in Events /\ call.kind # "label" /\ store \in Store /\ call.version[k] \in Nat
  BY KeysAssumption DEF TypeOK, CallOK, Numbers
<1>2. store' = Answered(store, call.kind, k, call.version[k])
  BY DEF NoteAnswer
<1>3. CASE call.kind = "delete"
  <2>1. store' = [store EXCEPT !.answers = [store.answers EXCEPT ![k] = [version |-> 0, deleted |-> TRUE]]]
    BY <1>2, <1>3 DEF Answered
  <2>2. [version |-> 0, deleted |-> TRUE] \in Answer
    BY DEF Answer
  <2>. QED
    BY <1>1, <1>3, <2>1, <2>2 DEF Store, KeepsMarks, KeepsSyncs
<1>4. CASE call.kind # "delete"
  <2>. DEFINE a == [version |-> call.version[k], deleted |-> FALSE]
              s == [store EXCEPT !.answers = [store.answers EXCEPT ![k] = a],
                                 !.ended = IF call.kind = "end" THEN store.ended \cup Instances(k) ELSE store.ended]
  <2>1. store' = Keep(s, k, call.version[k])
    BY <1>1, <1>2, <1>4 DEF Answered
  <2>2. a \in Answer /\ Instances(k) \subseteq Events /\ \A e \in Instances(k) : SeriesOf[e] = k
    BY <1>1 DEF Answer, Instances
  <2>. HIDE DEF a
  <2>3. /\ s \in Store /\ s.answers = [store.answers EXCEPT ![k] = a]
        /\ \A e \in s.ended : e \in store.ended \/ SeriesOf[e] = k
        /\ s.events = store.events /\ s.written = store.written
        /\ s.token = store.token /\ s.stale = store.stale /\ s.generation = store.generation
        /\ s.outside = store.outside /\ s.listed = store.listed /\ s.syncs = store.syncs
    BY <1>1, <2>2 DEF Store
  <2>. HIDE DEF s
  <2>4. /\ store' \in Store
        /\ store'.events = [store.events EXCEPT ![k] = IF store.events[k] > call.version[k] THEN store.events[k]
                                                       ELSE call.version[k]]
        /\ store'.answers = [store.answers EXCEPT ![k] = a] /\ store'.ended = s.ended
        /\ store'.stale = store.stale /\ store'.syncs = store.syncs /\ KeepsMarks /\ KeepsSyncs
    <3>1. /\ s \in Store /\ k \in Events /\ call.version[k] \in Nat
      BY <1>1, <2>3
    <3>. QED
      BY <2>1, <2>3, <3>1, KeepDoes DEF KeepsMarks, KeepsSyncs
  <2>5. store.events \in Numbers /\ store.answers \in [Events -> Answer]
    BY <1>1 DEF Store
  <2>6. ASSUME NEW e \in Events
        PROVE /\ store'.events[e] = IF e = k /\ call.kind # "delete" /\ store.events[e] <= call.version[e]
                                      THEN call.version[e] ELSE store.events[e]
              /\ store'.answers[e] = IF e # k THEN store.answers[e]
                                       ELSE IF call.kind = "delete" THEN [version |-> 0, deleted |-> TRUE]
                                       ELSE [version |-> call.version[e], deleted |-> FALSE]
    <3>1. CASE e = k
      BY <3>1, <1>1, <1>4, <2>4, <2>5 DEF Numbers, a
    <3>2. CASE e # k
      BY <3>2, <2>4, <2>5 DEF Numbers
    <3>. QED
      BY <3>1, <3>2
  <2>. QED
    BY <2>3, <2>4, <2>6
<1>. QED
  BY <1>3, <1>4

LEMMA RefreshDoes ==
    ASSUME TypeOK, NEW k \in DOMAIN call.stage, RefreshStale(k)
    PROVE  /\ k \in Events /\ store' \in Store /\ KeepsMarks /\ KeepsSyncs
           /\ store'.stale = store.stale /\ store'.syncs = store.syncs
           /\ store'.answers = store.answers /\ store'.ended = store.ended
           /\ \E e \in KeysOf(k) :
                /\ e \in Events
                /\ store'.events = store.events
                     \/ store'.events = [store.events EXCEPT ![e] = IF store.events[e] > Latest(e) THEN store.events[e]
                                                                   ELSE Latest(e)]
<1>1. k \in Events /\ store \in Store
  BY KeysAssumption DEF TypeOK, CallOK, RefreshStale
<1>2. PICK e \in KeysOf(k) : e \in Events /\ store' = IF Latest(e) > 0 THEN Keep(store, e, Latest(e)) ELSE store
  <2>. DEFINE e == IF SeriesOf[k] = NONE \/ store.events[k] > 0 THEN k ELSE SeriesOf[k]
  <2>1. store' = IF Latest(e) > 0 THEN Keep(store, e, Latest(e)) ELSE store
    BY DEF RefreshStale
  <2>2. e \in KeysOf(k) /\ e \in Events
    BY <1>1, KeysOfKeys, KeysAssumption DEF KeysOf
  <2>. QED
    BY <2>1, <2>2
<1>3. Latest(e) \in Nat
  BY <1>2, LenProperties DEF TypeOK, Latest
<1>4. CASE Latest(e) > 0
  <2>1. store' = Keep(store, e, Latest(e))
    BY <1>2, <1>4
  <2>. QED
    <3>1. store \in Store /\ e \in Events /\ Latest(e) \in Nat
      BY <1>1, <1>2, <1>3
    <3>2. /\ store' \in Store
          /\ store'.events = [store.events EXCEPT ![e] = IF store.events[e] > Latest(e) THEN store.events[e]
                                                        ELSE Latest(e)]
          /\ store'.answers = store.answers /\ store'.ended = store.ended
          /\ store'.stale = store.stale /\ store'.syncs = store.syncs /\ KeepsMarks /\ KeepsSyncs
      BY <2>1, <3>1, KeepDoes DEF KeepsMarks, KeepsSyncs
    <3>. QED
      BY <1>1, <1>2, <3>2
<1>5. CASE ~(Latest(e) > 0)
  <2>1. store' = store
    BY <1>2, <1>5
  <2>. QED
    BY <1>1, <1>2, <2>1 DEF KeepsMarks, KeepsSyncs
<1>. QED
  BY <1>4, <1>5

EtagOf(k) ==
    IF k # All /\ call.stage[k] = "noted" /\ call.kind # "delete" THEN call.version[k] ELSE 0

LEMMA EndDoes ==
    ASSUME TypeOK, NEW k \in DOMAIN call.stage, End(k)
    PROVE  /\ store' \in Store /\ KeepsEvents /\ KeepsSyncs /\ store'.stale = store.stale
           /\ store'.generation = store.generation + 1 /\ store'.syncs = store.syncs
           /\ \A j \in Keys :
                LET m == store.written[j]
                    n == store'.written[j]
                IN  IF j \in KeysOf(k) /\ m.writing > 0
                    THEN /\ n.writing = m.writing - 1 /\ n.age = "fresh"
                         /\ n.etag = IF j = k THEN EtagOf(k) ELSE m.etag
                    ELSE j \in KeysOf(k) \/ n = m
           /\ DOMAIN call'.stage = DOMAIN call.stage \ {k}
           /\ \A j \in DOMAIN call'.stage : call'.stage[j] = call.stage[j] /\ call'.version[j] = call.version[j]
                                          /\ call'.kind = call.kind
<1>1. store \in Store /\ store.written \in [Keys -> Mark] /\ k \in Keys
  BY KeysAssumption DEF TypeOK, Store, CallOK, Keys
<1>2. EtagOf(k) \in Nat
  BY DEF EtagOf, TypeOK, CallOK, Numbers
<1>. DEFINE w == [j \in Keys |-> IF j \notin KeysOf(k) \/ store.written[j] = Unmarked THEN store.written[j]
                               ELSE Ended(store.written[j], store.syncs, IF j = k THEN EtagOf(k) ELSE store.written[j].etag)]
<1>3. store' = [store EXCEPT !.generation = @ + 1, !.written = w]
  BY DEF End, Wrote, EtagOf
<1>4. ASSUME NEW j \in Keys
      PROVE /\ w[j] \in Mark
            /\ IF j \in KeysOf(k) /\ store.written[j].writing > 0
               THEN /\ w[j].writing = store.written[j].writing - 1 /\ w[j].age = "fresh"
                    /\ w[j].etag = IF j = k THEN EtagOf(k) ELSE store.written[j].etag
               ELSE j \in KeysOf(k) \/ w[j] = store.written[j]
  <2>. DEFINE m == store.written[j]
              etag == IF j = k THEN EtagOf(k) ELSE m.etag
  <2>1. m \in Mark /\ store.syncs \in Nat
    BY <1>1 DEF Store
  <2>2. etag \in Nat
    BY <1>2, <2>1 DEF Mark
  <2>3. Unmarked.writing = 0
    BY DEF Unmarked
  <2>4. w[j] = IF j \notin KeysOf(k) \/ m = Unmarked THEN m ELSE Ended(m, store.syncs, etag)
    OBVIOUS
  <2>. HIDE DEF w, m, etag
  <2>5. /\ Ended(m, store.syncs, etag) \in Mark
        /\ m.writing > 0 => Ended(m, store.syncs, etag).writing = m.writing - 1
        /\ Ended(m, store.syncs, etag).age = "fresh"
        /\ Ended(m, store.syncs, etag).etag = etag
    <3>1. m.writing \in Nat /\ (IF m.writing > 0 THEN m.writing - 1 ELSE 0) \in Nat
      BY <2>1 DEF Mark
    <3>2. Ended(m, store.syncs, etag) =
            [m EXCEPT !.writing = IF m.writing > 0 THEN m.writing - 1 ELSE 0, !.etag = etag,
                      !.age = "fresh", !.endedAt = store.syncs, !.syncsAfter = 0]
      BY DEF Ended
    <3>3. 0 \in 0 .. MARK_SYNCS /\ "fresh" \in Ages
      BY DEF Ages, MARK_SYNCS
    <3>. QED
      BY <3>1, <3>2, <3>3, <2>1, <2>2 DEF Mark
  <2>6. w[j] \in Mark
    BY <2>1, <2>4, <2>5
  <2>7. CASE j \in KeysOf(k) /\ m.writing > 0
    <3>1. w[j] = Ended(m, store.syncs, etag)
      BY <2>3, <2>4, <2>7
    <3>2. w[j].writing = m.writing - 1 /\ w[j].age = "fresh" /\ w[j].etag = etag
      BY <3>1, <2>5, <2>7
    <3>. QED
      BY <2>6, <2>7, <3>2 DEF m, etag
  <2>8. CASE ~(j \in KeysOf(k) /\ m.writing > 0)
    BY <2>4, <2>6, <2>8 DEF m
  <2>. QED
    BY <2>7, <2>8
<1>5. w \in [Keys -> Mark]
  BY <1>4
<1>. HIDE DEF w
<1>6. /\ store' \in Store /\ store'.written = w
      /\ KeepsEvents /\ KeepsSyncs /\ store'.stale = store.stale
      /\ store'.generation = store.generation + 1 /\ store'.syncs = store.syncs
  <2>1. store.generation + 1 \in Nat
    BY <1>1 DEF Store
  <2>2. store' \in Store /\ store'.written = w /\ store'.generation = store.generation + 1
    BY <1>1, <1>3, <1>5, <2>1 DEF Store
  <2>. QED
    BY <1>1, <1>3, <2>2 DEF Store, KeepsEvents, KeepsSyncs
<1>7. /\ DOMAIN call'.stage = DOMAIN call.stage \ {k}
      /\ \A j \in DOMAIN call'.stage : call'.stage[j] = call.stage[j] /\ call'.version[j] = call.version[j]
                                     /\ call'.kind = call.kind
  <2>. DEFINE rest == DOMAIN call.stage \ {k}
  <2>1. call' = IF rest = {} THEN NoCall ELSE [call EXCEPT !.stage = [j \in rest |-> @[j]]]
    BY DEF End
  <2>2. CASE rest = {}
    <3>1. NoCall.stage = << >>
      BY DEF NoCall
    <3>2. DOMAIN call'.stage = {}
      BY <2>1, <2>2, <3>1, EmptySeq
    <3>. QED
      BY <2>2, <3>2
  <2>3. CASE rest # {}
    <3>1. call' = [call EXCEPT !.stage = [j \in rest |-> call.stage[j]]]
      BY <2>1, <2>3
    <3>2. call = [kind |-> call.kind, stage |-> call.stage, base |-> call.base, version |-> call.version]
      BY DEF TypeOK, CallOK
    <3>3. call'.stage = [j \in rest |-> call.stage[j]] /\ call'.version = call.version /\ call'.kind = call.kind
      BY <3>1, <3>2
    <3>. QED
      BY <3>3
  <2>. QED
    BY <2>2, <2>3
<1>. QED
  BY <1>4, <1>6, <1>7

\* All that changes of the marks is the age of k's.
MarkAged(k) ==
    /\ \/ store.written[k].age = "fresh" /\ PromptFeed(k) /\ store'.written[k].age = "old"
       \/ store.written[k].age = "old" /\ SyncedByThen(k) /\ store'.written[k].age = "expired"
    /\ \A j \in Keys :
        /\ store'.written[j].writing = store.written[j].writing
        /\ store'.written[j].etag = store.written[j].etag
        /\ store'.written[j].syncsAfter = store.written[j].syncsAfter
        /\ j # k => store'.written[j] = store.written[j]

LEMMA AgesDo ==
    ASSUME TypeOK, NEW k \in Keys, MarkAges(k)
    PROVE  /\ store' \in Store /\ KeepsEvents /\ KeepsSyncs /\ store'.stale = store.stale
           /\ store'.generation = store.generation /\ store'.syncs = store.syncs
           /\ store.written[k].writing = 0
           /\ MarkAged(k)
<1>1. store \in Store /\ store.written \in [Keys -> Mark]
  BY DEF TypeOK, Store
<1>2. PICK age \in Ages :
        /\ Becomes(k, age)
        /\ store.written[k].writing = 0
        /\ \/ age = "old" /\ store.written[k].age = "fresh" /\ PromptFeed(k)
           \/ age = "expired" /\ store.written[k].age = "old" /\ SyncedByThen(k)
  BY DEF MarkAges, Ages
<1>. DEFINE n == [store.written[k] EXCEPT !.age = age]
<1>3. /\ n \in Mark /\ n.age = age /\ n.writing = store.written[k].writing /\ n.etag = store.written[k].etag
      /\ n.syncsAfter = store.written[k].syncsAfter
  BY <1>1 DEF Mark
<1>4. store' = [store EXCEPT !.written = [store.written EXCEPT ![k] = n]]
  BY <1>1, <1>2 DEF Becomes, Store
<1>. HIDE DEF n
<1>5. store' \in Store /\ store'.written = [store.written EXCEPT ![k] = n]
  BY <1>1, <1>3, <1>4 DEF Store
<1>6. /\ KeepsEvents /\ KeepsSyncs /\ store'.stale = store.stale
      /\ store'.generation = store.generation /\ store'.syncs = store.syncs
  BY <1>1, <1>4 DEF Store, KeepsEvents, KeepsSyncs
<1>. QED
  BY <1>1, <1>2, <1>3, <1>5, <1>6 DEF MarkAged

LEMMA EmptyStore ==
    /\ Empty \in Store
    /\ Empty.events = Nothing /\ Empty.token = NONE /\ Empty.stale = FALSE
    /\ Empty.written = [k \in Keys |-> Unmarked] /\ Empty.answers = [e \in Events |-> NoAnswer]
    /\ Empty.ended = {} /\ Empty.outside = {} /\ Empty.listed = 0
<1>1. Unmarked \in Mark /\ NoAnswer \in Answer /\ Nothing \in Numbers
  BY DEF Unmarked, Mark, Ages, MARK_SYNCS, NoAnswer, Answer, Nothing, Numbers
<1>. QED
  BY <1>1 DEF Empty, Store

LEMMA ForgetDoes ==
    ASSUME TypeOK, Forget
    PROVE  /\ store' \in Store
           /\ store'.events = Nothing /\ store'.token = NONE /\ store'.stale = FALSE
           /\ store'.written = [k \in Keys |-> Unmarked] /\ store'.answers = [e \in Events |-> NoAnswer]
           /\ store'.ended = {} /\ store'.outside = {} /\ store'.listed = 0
           /\ store'.generation = store.generation + 1
<1>1. store.generation \in Nat
  BY DEF TypeOK, Store
<1>2. store' = [Empty EXCEPT !.generation = store.generation + 1]
  BY DEF Forget
<1>. QED
  BY <1>1, <1>2, EmptyStore DEF Store

----------------------------------------------------------------------------
(* What holds of Calendar, and of a sync under way, is kept so *)

LEMMA SpendDoes ==
    ASSUME left \in Course, NEW what \in {"writes", "outside", "syncs", "listings", "forgets", "stale"}, Spend(what)
    PROVE  left' \in Course
BY DEF Spend, Course

\* c is the call with k at stage st.
Stepped(c, k, st) ==
    /\ c = [kind |-> c.kind, stage |-> c.stage, base |-> c.base, version |-> c.version]
    /\ c.kind = call.kind /\ c.base = call.base /\ c.version = call.version
    /\ DOMAIN c.stage = DOMAIN call.stage
    /\ c.stage \in [DOMAIN c.stage -> Stages]
    /\ \A j \in DOMAIN call.stage : c.stage[j] = IF j = k THEN st ELSE call.stage[j]

LEMMA ToDoes ==
    ASSUME TypeOK, NEW k \in DOMAIN call.stage, NEW st \in Stages
    PROVE  Stepped(To(k, st), k, st)
<1>1. /\ call = [kind |-> call.kind, stage |-> call.stage, base |-> call.base, version |-> call.version]
      /\ call.stage \in [DOMAIN call.stage -> Stages]
  BY DEF TypeOK, CallOK
<1>2. To(k, st) = [kind |-> call.kind, stage |-> [call.stage EXCEPT ![k] = st], base |-> call.base,
                   version |-> call.version]
  BY <1>1 DEF To
<1>. QED
  BY <1>1, <1>2 DEF Stepped

\* Which calls begin.
LEMMA BeginCallKinds ==
    ASSUME TypeOK, BeginCall
    PROVE  \E kind \in {"edit", "delete", "end", "label"}, keys \in SUBSET Keys :
             /\ Begin(kind, keys) /\ keys # {}
             /\ keys \subseteq IF kind = "label" THEN {All} ELSE Events
<1>1. left.among \subseteq Events
  BY DEF TypeOK, Course
<1>2. CASE \E keys \in (SUBSET left.among) \ {{}} : Begin("edit", keys)
  <2>1. PICK keys \in (SUBSET left.among) \ {{}} : Begin("edit", keys)
    BY <1>2
  <2>2. keys \subseteq left.among /\ keys # {}
    OBVIOUS
  <2>3. keys \subseteq Events /\ keys \subseteq Keys
    BY <1>1, <2>2 DEF Keys
  <2>. QED
    BY <2>1, <2>2, <2>3
<1>3. CASE \E e \in left.among : Begin("delete", {e})
  BY <1>1, <1>3 DEF Keys
<1>4. CASE \E e \in {e \in left.among : IsSeries(e)} : Begin("end", {e})
  BY <1>1, <1>4 DEF Keys
<1>5. CASE Begin("label", {All})
  BY <1>5 DEF Keys
<1>. QED
  BY <1>2, <1>3, <1>4, <1>5 DEF BeginCall

LEMMA CallSteps ==
    ASSUME Base, [Next]_vars
    PROVE  CallOK'
<1>1. TypeOK /\ CallOK
  BY DEF Base, TypeOK
<1>2. Nothing \in Numbers
  BY DEF Nothing, Numbers
<1>3. CASE BeginCall
  <2>1. PICK kind \in {"edit", "delete", "end", "label"}, keys \in SUBSET Keys :
             /\ Begin(kind, keys) /\ keys # {}
             /\ keys \subseteq IF kind = "label" THEN {All} ELSE Events
    BY <1>1, <1>3, BeginCallKinds
  <2>2. call' = [kind |-> kind, stage |-> [k \in keys |-> "sent"], base |-> store.events, version |-> Nothing]
    BY <2>1 DEF Begin
  <2>3. store.events \in Numbers
    BY <1>1 DEF TypeOK, Store
  <2>. QED
    BY <1>2, <2>1, <2>2, <2>3 DEF CallOK, Stages
<1>4. CASE LoseAnswers
  <2>1. call' = [call EXCEPT !.stage = [k \in DOMAIN call.stage |-> "failed"]]
    BY <1>4 DEF LoseAnswers
  <2>2. call' = [kind |-> call.kind, stage |-> [k \in DOMAIN call.stage |-> "failed"], base |-> call.base, version |-> call.version]
    BY <1>1, <2>1 DEF CallOK
  <2>. QED
    BY <1>1, <2>2 DEF CallOK, Stages
<1>5. CASE \E k \in DOMAIN call.stage :
             CalendarMakes(k) \/ CalendarRefuses(k) \/ WriteFails(k) \/ NoteAnswer(k) \/ RefreshStale(k)
  <2>1. PICK k \in DOMAIN call.stage :
             CalendarMakes(k) \/ CalendarRefuses(k) \/ WriteFails(k) \/ NoteAnswer(k) \/ RefreshStale(k)
    BY <1>5
  <2>2. PICK st \in Stages :
          /\ (st = "refused" => call.kind # "label")
          /\ \/ call' = To(k, st)
             \/ call' = [To(k, st) EXCEPT !.version = [To(k, st).version EXCEPT ![k] = Latest(k) + 1]]
    BY <2>1 DEF CalendarMakes, CalendarRefuses, WriteFails, NoteAnswer, RefreshStale, Stages
  <2>. DEFINE c == To(k, st)
  <2>3. Stepped(c, k, st)
    BY <1>1, ToDoes
  <2>. HIDE DEF c
  <2>4. \A j \in DOMAIN c.stage : c.stage[j] = "refused" => c.kind # "label"
    <3>. SUFFICES ASSUME NEW j \in DOMAIN c.stage, c.stage[j] = "refused" PROVE c.kind # "label"
      OBVIOUS
    <3>1. j \in DOMAIN call.stage /\ c.kind = call.kind /\ c.stage[j] = IF j = k THEN st ELSE call.stage[j]
      BY <2>3 DEF Stepped
    <3>2. CASE j = k
      <4>1. st = "refused" => call.kind # "label"
        BY <2>2
      <4>. QED
        BY <3>1, <3>2, <4>1
    <3>3. CASE j # k
      BY <1>1, <3>1, <3>3 DEF CallOK
    <3>. QED
      BY <3>2, <3>3
  <2>5. CASE call' = c
    BY <1>1, <2>3, <2>4, <2>5 DEF CallOK, Stepped
  <2>6. CASE call' = [c EXCEPT !.version = [c.version EXCEPT ![k] = Latest(k) + 1]]
    <3>. DEFINE v == [c.version EXCEPT ![k] = Latest(k) + 1]
    <3>1. v \in Numbers
      <4>1. CASE k \in Events
        BY <1>1, <4>1, <2>3, LenProperties DEF CallOK, TypeOK, Numbers, Latest, Stepped
      <4>2. CASE k \notin Events
        BY <1>1, <4>2, <2>3 DEF CallOK, Numbers, Stepped
      <4>. QED
        BY <4>1, <4>2
    <3>. HIDE DEF v
    <3>2. call' = [kind |-> c.kind, stage |-> c.stage, base |-> c.base, version |-> v]
      BY <2>3, <2>6 DEF v, Stepped
    <3>. QED
      BY <1>1, <2>3, <2>4, <3>1, <3>2 DEF CallOK, Stepped
  <2>. QED
    BY <2>2, <2>5, <2>6 DEF c
<1>6. CASE \E k \in DOMAIN call.stage : End(k)
  <2>1. PICK k \in DOMAIN call.stage : End(k)
    BY <1>6
  <2>. DEFINE rest == DOMAIN call.stage \ {k}
  <2>2. call' = IF rest = {} THEN NoCall ELSE [call EXCEPT !.stage = [j \in rest |-> call.stage[j]]]
    BY <2>1 DEF End
  <2>3. CASE rest = {}
    <3>1. call' = [kind |-> "none", stage |-> << >>, base |-> Nothing, version |-> Nothing]
      BY <2>2, <2>3 DEF NoCall
    <3>2. DOMAIN call'.stage = {} /\ call'.stage \in [{} -> Stages]
      BY <3>1, EmptySeq
    <3>. QED
      BY <1>2, <3>1, <3>2 DEF CallOK
  <2>4. CASE rest # {}
    <3>1. call' = [kind |-> call.kind, stage |-> [j \in rest |-> call.stage[j]], base |-> call.base, version |-> call.version]
      BY <1>1, <2>2, <2>4 DEF CallOK
    <3>. QED
      BY <1>1, <3>1 DEF CallOK
  <2>. QED
    BY <2>3, <2>4
<1>7. CASE UNCHANGED call
  BY <1>1, <1>7 DEF CallOK
<1>8. (MarkStale \/ Forget \/ CalendarStep \/ SyncStep \/ (\E k \in Keys : MarkAges(k)) \/ UNCHANGED vars) => UNCHANGED call
  BY DEF MarkStale, Forget, CalendarStep, OutsideChanges, FeedMoves, SyncStep, SyncBegins, SyncAsks, SyncFails,
      SyncLists, TakesIn, MarkAges, Becomes, vars
<1>. QED
  BY <1>3, <1>4, <1>5, <1>6, <1>7, <1>8 DEF Next, CallStep

\* A version made is made by those who may make it, last.
LEMMA CalendarGrows ==
    ASSUME Base, [Next]_vars
    PROVE  \/ UNCHANGED <<made, clock>>
           \/ /\ UNCHANGED <<feed, shown, store, sync, past>>
              /\ \E by \in Keys \cup {Outside}, dom \in SUBSET Events :
                   /\ Grew(by, dom)
                   /\ \/ by = Outside /\ UNCHANGED call
                      \/ by \in DOMAIN call.stage /\ CalendarMakes(by) /\ (by # All => by \in dom)
                   /\ \A e \in dom : by \in Keys => by \in {All, e, SeriesOf[e]}
<1>1. TypeOK /\ DOMAIN call.stage \subseteq Keys
  BY DEF Base, TypeOK, CallOK, Keys
<1>2. CASE \E e \in left.among, live \in BOOLEAN : OutsideChanges(e, live)
  <2>1. PICK e \in left.among, live \in BOOLEAN : OutsideChanges(e, live)
    BY <1>2
  <2>2. e \in Events /\ Outside \notin Keys
    BY <1>1, KeysAssumption DEF TypeOK, Course
  <2>. DEFINE f == [x \in {e} |-> live]
  <2>3. Grew(Outside, DOMAIN f)
    <3>1. Change(f, Outside) /\ \A x \in DOMAIN f : f[x] \in BOOLEAN
      BY <2>1 DEF OutsideChanges
    <3>. HIDE DEF f
    <3>. QED
      BY <1>1, <3>1, ChangeDoes
  <2>4. UNCHANGED <<feed, shown, store, sync, call, past>>
    BY <2>1 DEF OutsideChanges
  <2>. QED
    BY <2>2, <2>3, <2>4
<1>3. CASE \E k \in DOMAIN call.stage : CalendarMakes(k)
  <2>1. PICK k \in DOMAIN call.stage : CalendarMakes(k)
    BY <1>3
  <2>2. PICK dom \in SUBSET Events :
             /\ Grew(k, dom)
             /\ (k # All => k \in dom)
             /\ \A e \in dom : k \in {All, e, SeriesOf[e]}
    BY <1>1, <2>1, MakesDoes
  <2>3. UNCHANGED <<feed, shown, store, sync, past>> /\ k \in Keys
    BY <1>1, <2>1 DEF CalendarMakes
  <2>. QED
    BY <2>1, <2>2, <2>3
<1>4. (\/ BeginCall \/ LoseAnswers \/ MarkStale \/ Forget \/ SyncStep \/ (\E k \in Keys : MarkAges(k))
       \/ (\E e \in Events : FeedMoves(e)) \/ UNCHANGED vars
       \/ (\E k \in DOMAIN call.stage : CalendarRefuses(k) \/ WriteFails(k) \/ NoteAnswer(k) \/ RefreshStale(k) \/ End(k)))
      => UNCHANGED <<made, clock>>
  BY DEF BeginCall, Begin, LoseAnswers, MarkStale, Forget, SyncStep, SyncBegins, SyncAsks, SyncFails, SyncLists,
      TakesIn, MarkAges, Becomes, FeedMoves, vars, CalendarRefuses, WriteFails, NoteAnswer, RefreshStale, End, Calendar
<1>. QED
  BY <1>2, <1>3, <1>4 DEF Next, CallStep, CalendarStep

LEMMA StoreSteps ==
    ASSUME Base, [Next]_vars
    PROVE  store' \in Store
<1>1. TypeOK /\ store \in Store /\ NONE \notin Numbers
  BY KeysAssumption DEF Base, TypeOK, Numbers
<1>2. CASE BeginCall
  BY <1>1, <1>2, BeginCallKinds, BeginDoes
<1>3. CASE MarkStale
  BY <1>1, <1>3 DEF MarkStale, Store
<1>4. CASE Forget
  BY <1>1, <1>4, ForgetDoes
<1>5. CASE \E k \in DOMAIN call.stage : NoteAnswer(k)
  <2>1. PICK k \in DOMAIN call.stage : NoteAnswer(k)
    BY <1>5
  <2>2. CASE k = All
    BY <1>1, <2>1, <2>2 DEF NoteAnswer
  <2>. QED
    BY <1>1, <2>1, <2>2, NoteDoes
<1>6. CASE \E k \in DOMAIN call.stage : RefreshStale(k)
  BY <1>1, <1>6, RefreshDoes
<1>7. CASE \E k \in DOMAIN call.stage : End(k)
  BY <1>1, <1>7, EndDoes
<1>8. CASE SyncBegins
  <2>1. store.syncs + 1 \in Nat
    BY <1>1 DEF Store
  <2>. QED
    BY <1>1, <1>8, <2>1 DEF SyncBegins, Store
<1>9. CASE TakesIn
  BY <1>9, TakesInDoes
<1>10. CASE \E k \in Keys : MarkAges(k)
  BY <1>1, <1>10, AgesDo
<1>11. CASE UNCHANGED store
  BY <1>1, <1>11
<1>12. (\/ CalendarStep \/ LoseAnswers \/ SyncAsks \/ SyncFails \/ (\E items \in [Events -> 0 .. clock] : SyncLists(items))
        \/ (\E k \in DOMAIN call.stage : CalendarMakes(k) \/ CalendarRefuses(k) \/ WriteFails(k)) \/ UNCHANGED vars)
       => UNCHANGED store
  BY DEF CalendarStep, OutsideChanges, FeedMoves, LoseAnswers, SyncAsks, SyncFails, SyncLists, CalendarMakes,
      CalendarRefuses, WriteFails, vars
<1>. QED
  BY <1>2, <1>3, <1>4, <1>5, <1>6, <1>7, <1>8, <1>9, <1>10, <1>11, <1>12 DEF Next, CallStep, SyncStep

LEMMA MadeSteps ==
    ASSUME Base, [Next]_vars
    PROVE  /\ made' \in [Events -> Seq(Version)] /\ clock' \in Nat /\ clock <= clock'
           /\ \A e \in Events : /\ Len(made[e]) \in Nat /\ Len(made'[e]) \in Nat /\ Len(made[e]) <= Len(made'[e])
                              /\ \A i \in 1 .. Len(made[e]) : made'[e][i] = made[e][i]
           /\ MadeInOrder'
<1>1. /\ made \in [Events -> Seq(Version)] /\ clock \in Nat /\ MadeInOrder
      /\ \A e \in Events : Len(made[e]) \in Nat
  BY LenProperties DEF Base, TypeOK
<1>2. \A e \in Events, i \in Nat : i \in 1 .. Len(made[e]) => made[e][i].at \in Nat
  <2>. SUFFICES ASSUME NEW e \in Events, NEW i \in 1 .. Len(made[e]) PROVE made[e][i].at \in Nat
    OBVIOUS
  <2>1. made[e][i] \in Version
    BY <1>1, ElementOfSeq
  <2>. QED
    BY <2>1 DEF Version
<1>3. CASE UNCHANGED <<made, clock>>
  BY <1>1, <1>3 DEF MadeInOrder, Latest
<1>4. CASE \E by \in Keys \cup {Outside}, dom \in SUBSET Events :
             /\ Grew(by, dom)
             /\ \A e \in dom : by \in Keys => by \in {All, e, SeriesOf[e]}
  <2>1. PICK by \in Keys \cup {Outside}, dom \in SUBSET Events :
             /\ Grew(by, dom)
             /\ \A e \in dom : by \in Keys => by \in {All, e, SeriesOf[e]}
    BY <1>4
  <2>2. /\ clock' = clock + 1 /\ made' \in [Events -> Seq(Version)]
        /\ \A e \in Events :
             /\ Len(made'[e]) = IF e \in dom THEN Len(made[e]) + 1 ELSE Len(made[e])
             /\ \A i \in 1 .. Len(made[e]) : made'[e][i] = made[e][i]
             /\ e \in dom => made'[e][Len(made[e]) + 1].at = clock + 1 /\ made'[e][Len(made[e]) + 1].by = by
    BY <2>1 DEF Grew
  <2>3. ASSUME NEW e \in Events, NEW i \in 1 .. Len(made'[e])
        PROVE /\ made'[e][i].at <= clock'
              /\ \A j \in 1 .. i - 1 : made'[e][j].at < made'[e][i].at
              /\ made'[e][i].by \in Keys => made'[e][i].by \in {All, e, SeriesOf[e]}
    <3>0. Len(made[e]) \in Nat
      BY <1>1
    <3>1. CASE i \in 1 .. Len(made[e])
      <4>1. made'[e][i] = made[e][i]
        BY <2>2, <3>1
      <4>2. /\ made[e][i].at <= clock /\ \A j \in 1 .. i - 1 : made[e][j].at < made[e][i].at
            /\ made[e][i].by \in Keys => made[e][i].by \in {All, e, SeriesOf[e]}
        BY <1>1, <3>1 DEF MadeInOrder, Latest
      <4>3. \A j \in 1 .. i - 1 : made'[e][j] = made[e][j]
        <5>1. \A j \in 1 .. i - 1 : j \in 1 .. Len(made[e])
          BY <3>0, <3>1
        <5>. QED
          BY <5>1, <2>2
      <4>4. made[e][i].at \in Nat
        BY <1>2, <3>1
      <4>. QED
        BY <4>1, <4>2, <4>3, <4>4, <1>1, <2>2
    <3>2. CASE i \notin 1 .. Len(made[e])
      <4>1. e \in dom /\ i = Len(made[e]) + 1
        BY <3>0, <3>2, <2>2
      <4>2. made'[e][i].at = clock + 1 /\ made'[e][i].by = by
        BY <2>2, <4>1
      <4>3. \A j \in 1 .. i - 1 : j \in 1 .. Len(made[e])
        BY <3>0, <4>1
      <4>4. \A j \in 1 .. Len(made[e]) : made'[e][j] = made[e][j] /\ made[e][j].at <= clock /\ made[e][j].at \in Nat
        BY <1>1, <1>2, <2>2 DEF MadeInOrder, Latest
      <4>5. \A j \in 1 .. i - 1 : made'[e][j].at < made'[e][i].at
        <5>. SUFFICES ASSUME NEW j \in 1 .. i - 1 PROVE made'[e][j].at < made'[e][i].at
          OBVIOUS
        <5>1. made'[e][j] = made[e][j] /\ made[e][j].at <= clock /\ made[e][j].at \in Nat
          BY <4>3, <4>4
        <5>. QED
          BY <5>1, <4>2, <1>1
      <4>. QED
        BY <4>1, <4>2, <4>5, <1>1, <2>1, <2>2
    <3>. QED
      BY <3>1, <3>2
  <2>4. MadeInOrder'
    BY <2>3 DEF MadeInOrder, Latest
  <2>. QED
    BY <1>1, <2>2, <2>4, LenProperties
<1>. QED
  BY <1>3, <1>4, CalendarGrows

LEMMA FeedSteps ==
    ASSUME Base, [Next]_vars
    PROVE  /\ feed' \in Numbers /\ shown' \in Numbers /\ FeedBehind'
           /\ \A e \in Events : feed[e] \in Nat /\ feed'[e] \in Nat /\ feed[e] <= feed'[e]
<1>1. /\ feed \in Numbers /\ shown \in Numbers /\ clock \in Nat
      /\ \A e \in Events : feed[e] \in Nat /\ shown[e] \in Nat /\ feed[e] <= Len(made[e]) /\ shown[e] <= Len(made[e])
  BY DEF Base, TypeOK, FeedBehind, Latest, Numbers
<1>2. \A e \in Events : Len(made[e]) \in Nat /\ Len(made'[e]) \in Nat /\ Len(made[e]) <= Len(made'[e])
  BY MadeSteps
<1>3. CASE UNCHANGED <<feed, shown>>
  BY <1>1, <1>2, <1>3 DEF FeedBehind, Latest
<1>4. CASE \E e \in Events : FeedMoves(e)
  <2>1. PICK e \in Events : FeedMoves(e)
    BY <1>4
  <2>2. feed[e] < Len(made[e]) /\ feed' = [feed EXCEPT ![e] = feed[e] + 1] /\ shown' = shown /\ made' = made
    BY <2>1 DEF FeedMoves, Latest
  <2>. QED
    BY <1>1, <1>2, <2>2 DEF Numbers, FeedBehind, Latest
<1>5. CASE \E items \in [Events -> 0 .. clock] : SyncLists(items)
  <2>1. PICK items \in [Events -> 0 .. clock] : SyncLists(items)
    BY <1>5
  <2>2. shown' = items /\ UNCHANGED <<made, feed>>
    BY <2>1 DEF SyncLists
  <2>3. \A e \in Events : items[e] \in Nat /\ items[e] <= Len(made[e])
    <3>. SUFFICES ASSUME NEW e \in Events PROVE items[e] \in Nat /\ items[e] <= Len(made[e])
      OBVIOUS
    <3>1. items[e] \in Max({feed[e], shown[e]}) .. Len(made[e])
      BY <2>1 DEF SyncLists, Latest
    <3>2. Max({feed[e], shown[e]}) \in Nat
      BY <1>1, GreaterOfTwo
    <3>. QED
      BY <3>1, <3>2, <1>2
  <2>. QED
    BY <1>1, <1>2, <2>2, <2>3 DEF Numbers, FeedBehind, Latest
<1>6. (\/ (\E e \in left.among, live \in BOOLEAN : OutsideChanges(e, live)) \/ CallStep \/ (\E k \in Keys : MarkAges(k))
       \/ SyncBegins \/ SyncAsks \/ SyncFails \/ TakesIn \/ UNCHANGED vars) => UNCHANGED <<feed, shown>>
  BY DEF OutsideChanges, CallStep, BeginCall, Begin, LoseAnswers, MarkStale, Forget, CalendarMakes, CalendarRefuses,
      WriteFails, NoteAnswer, RefreshStale, End, MarkAges, Becomes, SyncBegins, SyncAsks, SyncFails, TakesIn, vars, Calendar
<1>. QED
  BY <1>3, <1>4, <1>5, <1>6 DEF Next, CalendarStep, SyncStep

LEMMA AsksDoes ==
    ASSUME TypeOK, SyncAsks
    PROVE  /\ sync' \in Syncs /\ sync.at = "begun" /\ sync.token # NONE
           /\ sync'.at = "answered" /\ sync'.next = feed /\ sync'.asked = clock
           /\ sync'.full = sync.full /\ sync'.token = sync.token /\ sync'.generation = sync.generation
           /\ sync'.during = sync.during
           /\ sync'.items = [e \in Events |-> IF feed[e] > sync.token[e] THEN feed[e] ELSE 0]
<1>. DEFINE items == [e \in Events |-> IF feed[e] > sync.token[e] THEN feed[e] ELSE 0]
<1>1. sync \in Syncs /\ feed \in Numbers /\ clock \in Nat
  BY DEF TypeOK
<1>2. items \in Numbers
  BY <1>1 DEF Numbers
<1>3. sync' = [sync EXCEPT !.at = "answered", !.next = feed, !.asked = clock, !.items = items]
  BY DEF SyncAsks
<1>4. sync.at = "begun" /\ sync.token # NONE
  BY DEF SyncAsks
<1>. HIDE DEF items
<1>5. /\ sync' \in Syncs /\ sync'.at = "answered" /\ sync'.next = feed /\ sync'.asked = clock
      /\ sync'.full = sync.full /\ sync'.token = sync.token /\ sync'.generation = sync.generation
      /\ sync'.during = sync.during /\ sync'.items = items
  BY <1>1, <1>2, <1>3 DEF Syncs
<1>. QED
  BY <1>4, <1>5 DEF items

LEMMA ListsDoes ==
    ASSUME TypeOK, NEW items \in [Events -> 0 .. clock], SyncLists(items)
    PROVE  /\ sync' \in Syncs /\ sync.at = "begun" /\ shown' = items
           /\ sync'.at = "answered" /\ sync'.next = feed /\ sync'.asked = clock
           /\ sync'.full = TRUE /\ sync'.token = sync.token /\ sync'.generation = sync.generation
           /\ sync'.during = sync.during /\ sync'.items = items
           /\ \A e \in Events : /\ items[e] \in Nat /\ items[e] <= Latest(e)
                              /\ feed[e] <= items[e] /\ shown[e] <= items[e]
<1>1. /\ sync \in Syncs /\ feed \in Numbers /\ shown \in Numbers /\ clock \in Nat
      /\ \A e \in Events : feed[e] \in Nat /\ shown[e] \in Nat /\ Latest(e) \in Nat
  BY LenProperties DEF TypeOK, Numbers, Latest
<1>2. items \in Numbers
  BY <1>1 DEF Numbers
<1>3. sync' = [sync EXCEPT !.at = "answered", !.full = TRUE, !.items = items, !.next = feed, !.asked = clock]
  BY DEF SyncLists
<1>4. sync' \in Syncs /\ sync'.at = "answered" /\ sync'.next = feed /\ sync'.asked = clock
      /\ sync'.full = TRUE /\ sync'.token = sync.token /\ sync'.generation = sync.generation
      /\ sync'.during = sync.during /\ sync'.items = items
  BY <1>1, <1>2, <1>3 DEF Syncs
<1>5. ASSUME NEW e \in Events
      PROVE items[e] \in Nat /\ items[e] <= Latest(e) /\ feed[e] <= items[e] /\ shown[e] <= items[e]
  <2>1. items[e] \in Max({feed[e], shown[e]}) .. Latest(e)
    BY DEF SyncLists
  <2>2. Max({feed[e], shown[e]}) \in Nat /\ Max({feed[e], shown[e]}) >= feed[e] /\ Max({feed[e], shown[e]}) >= shown[e]
    BY <1>1, GreaterOfTwo
  <2>. QED
    BY <1>1, <2>1, <2>2
<1>6. sync.at = "begun" /\ shown' = items
  BY DEF SyncLists
<1>. QED
  BY <1>4, <1>5, <1>6

LEMMA BeginsDoes ==
    ASSUME TypeOK, SyncBegins
    PROVE  /\ sync' \in Syncs /\ sync = NoSync /\ sync'.at = "begun" /\ sync'.token = store.token
           /\ sync'.generation = store.generation /\ sync'.during = DOMAIN call.stage
           /\ sync'.full = FALSE
           /\ store' = [store EXCEPT !.syncs = store.syncs + 1]
<1>1. Nothing \in Numbers /\ store \in Store /\ DOMAIN call.stage \subseteq Keys
  BY DEF Nothing, Numbers, TypeOK, CallOK, Keys
<1>2. /\ store.token \in Numbers \cup {NONE} /\ store.generation \in Nat /\ store.syncs + 1 \in Nat
  BY <1>1 DEF Store
<1>3. sync' = [at |-> "begun", token |-> store.token, generation |-> store.generation,
               number |-> store.syncs + 1, full |-> FALSE, items |-> Nothing, next |-> Nothing,
               asked |-> 0, during |-> DOMAIN call.stage]
  BY DEF SyncBegins, NoSync
<1>4. sync = NoSync /\ store' = [store EXCEPT !.syncs = store.syncs + 1]
  BY DEF SyncBegins
<1>. QED
  BY <1>1, <1>2, <1>3, <1>4 DEF Syncs

LEMMA NoSyncIs == NoSync \in Syncs /\ NoSync.at = "idle" /\ NoSync.generation = 0
<1>1. Nothing \in Numbers
  BY DEF Nothing, Numbers
<1>. QED
  BY <1>1 DEF NoSync, Syncs

\* Which steps change the sync under way, or the history of those taken in.
LEMMA SyncKept ==
    ASSUME TypeOK, [Next]_vars
    PROVE  \/ SyncBegins \/ SyncAsks \/ SyncFails \/ TakesIn
           \/ \E items \in [Events -> 0 .. clock] : SyncLists(items)
           \/ UNCHANGED sync /\ past'.read = past.read /\ past'.spanned = past.spanned
<1>1. past \in [read : Nat, spanned : SUBSET Keys, written : SUBSET Keys, forgot : BOOLEAN]
  BY DEF TypeOK
<1>2. CASE BeginCall
  <2>1. PICK kind \in {"edit", "delete", "end", "label"}, keys \in SUBSET Keys : Begin(kind, keys)
    BY <1>2, BeginCallKinds
  <2>2. UNCHANGED sync /\ past' = [past EXCEPT !.written = past.written \cup UNION {KeysOf(k) : k \in keys}]
    BY <2>1 DEF Begin
  <2>. QED
    BY <1>1, <2>2
<1>3. CASE Forget
  BY <1>1, <1>3 DEF Forget
<1>. QED
  BY <1>2, <1>3 DEF Next, CalendarStep, OutsideChanges, FeedMoves, CallStep, LoseAnswers, MarkStale,
    CalendarMakes, CalendarRefuses, WriteFails, NoteAnswer, RefreshStale, End, MarkAges, Becomes, SyncStep, vars

LEMMA TakenInPast ==
    ASSUME TypeOK, TakesIn
    PROVE  /\ past'.read = sync.asked /\ past'.written = past.written /\ past'.forgot = past.forgot
           /\ past'.spanned = IF store.generation = sync.generation
                              THEN sync.during \cap DOMAIN call.stage ELSE past.spanned
           /\ past' \in [read : Nat, spanned : SUBSET Keys, written : SUBSET Keys, forgot : BOOLEAN]
           /\ sync' = NoSync /\ sync.at = "answered"
<1>1. /\ past \in [read : Nat, spanned : SUBSET Keys, written : SUBSET Keys, forgot : BOOLEAN]
      /\ sync.asked \in Nat /\ sync.during \subseteq Keys
  BY DEF TypeOK, Syncs
<1>2. past' = [past EXCEPT !.read = sync.asked,
                 !.spanned = IF store.generation = sync.generation
                             THEN sync.during \cap DOMAIN call.stage ELSE past.spanned]
  BY DEF TakesIn
<1>3. sync' = NoSync /\ sync.at = "answered"
  BY DEF TakesIn
<1>. QED
  BY <1>1, <1>2, <1>3

LEMMA SyncSteps ==
    ASSUME Base, [Next]_vars
    PROVE  sync' \in Syncs /\ AnswerOfFeed'
<1>1. /\ TypeOK /\ AnswerOfFeed /\ FeedBehind /\ sync \in Syncs /\ feed \in Numbers /\ shown \in Numbers
      /\ clock \in Nat /\ clock' \in Nat /\ clock <= clock'
      /\ past.read \in Nat
  BY MadeSteps DEF Base, TypeOK
<1>2. \A e \in Events : /\ Latest(e) \in Nat /\ Latest(e)' \in Nat /\ Latest(e) <= Latest(e)'
                     /\ feed[e] \in Nat /\ feed'[e] \in Nat /\ feed[e] <= feed'[e] /\ feed[e] <= Latest(e)
  BY <1>1, MadeSteps, FeedSteps DEF Latest, FeedBehind
<1>3. CASE SyncBegins
  <2>1. sync' \in Syncs /\ sync'.at = "begun" /\ sync'.full = FALSE
    BY <1>1, <1>3, BeginsDoes
  <2>2. UNCHANGED past
    BY <1>3 DEF SyncBegins
  <2>. QED
    BY <1>1, <2>1, <2>2 DEF AnswerOfFeed
<1>4. CASE SyncAsks
  <2>1. /\ sync' \in Syncs /\ sync.at = "begun" /\ sync.token # NONE
        /\ sync'.at = "answered" /\ sync'.next = feed /\ sync'.asked = clock
        /\ sync'.full = sync.full /\ sync'.token = sync.token
        /\ sync'.items = [e \in Events |-> IF feed[e] > sync.token[e] THEN feed[e] ELSE 0]
    BY <1>1, <1>4, AsksDoes
  <2>2. UNCHANGED <<past, made, feed>>
    BY <1>4 DEF SyncAsks, Calendar
  <2>3. ~sync.full /\ past.read <= clock
    BY <1>1, <2>1 DEF AnswerOfFeed
  <2>4. ASSUME NEW e \in Events
        PROVE /\ sync'.next[e] <= feed'[e] /\ sync'.items[e] <= Latest(e)'
              /\ sync'.items[e] = IF sync'.next[e] > sync'.token[e] THEN sync'.next[e] ELSE 0
    BY <1>2, <2>1, <2>2
  <2>. QED
    BY <1>1, <2>1, <2>2, <2>3, <2>4 DEF AnswerOfFeed
<1>5. CASE \E items \in [Events -> 0 .. clock] : SyncLists(items)
  <2>1. PICK items \in [Events -> 0 .. clock] : SyncLists(items)
    BY <1>5
  <2>2. /\ sync' \in Syncs /\ shown' = items
        /\ sync'.at = "answered" /\ sync'.next = feed /\ sync'.asked = clock
        /\ sync'.full = TRUE /\ sync'.items = items
        /\ \A e \in Events : /\ items[e] \in Nat /\ items[e] <= Latest(e)
                           /\ feed[e] <= items[e] /\ shown[e] <= items[e]
    BY <1>1, <2>1, ListsDoes
  <2>3. UNCHANGED <<past, feed>> /\ past.read <= clock
    BY <1>1, <2>1 DEF SyncLists, AnswerOfFeed
  <2>4. ASSUME NEW e \in Events
        PROVE /\ sync'.next[e] <= feed'[e] /\ sync'.items[e] <= Latest(e)'
              /\ sync'.next[e] <= sync'.items[e]
    BY <1>2, <2>2, <2>3
  <2>. QED
    BY <1>1, <2>2, <2>3, <2>4 DEF AnswerOfFeed
<1>6. CASE SyncFails
  <2>1. sync' = NoSync /\ UNCHANGED past
    BY <1>6 DEF SyncFails
  <2>. QED
    BY <1>1, <2>1, NoSyncIs DEF AnswerOfFeed
<1>7. CASE TakesIn
  <2>1. sync' = NoSync /\ past'.read = sync.asked /\ sync.at = "answered"
    BY <1>1, <1>7, TakenInPast
  <2>2. sync.asked <= clock /\ sync.asked \in Nat
    BY <1>1, <2>1 DEF AnswerOfFeed, Syncs
  <2>. QED
    BY <1>1, <2>1, <2>2, NoSyncIs DEF AnswerOfFeed
<1>8. CASE UNCHANGED sync /\ past'.read = past.read
  <2>1. past'.read <= clock' /\ (sync.at = "answered" => sync.asked <= clock')
    BY <1>1, <1>8 DEF AnswerOfFeed, Syncs
  <2>2. shown' = shown \/ \E items \in [Events -> 0 .. clock] : SyncLists(items)
    BY DEF Next, CalendarStep, OutsideChanges, FeedMoves, CallStep, BeginCall, Begin, LoseAnswers, MarkStale, Forget,
      CalendarMakes, CalendarRefuses, WriteFails, NoteAnswer, RefreshStale, End, MarkAges, Becomes, SyncStep, SyncBegins,
      SyncAsks, SyncFails, TakesIn, vars, Calendar
  <2>3. ASSUME sync.at = "answered", NEW e \in Events
        PROVE sync.next[e] <= feed'[e] /\ sync.items[e] <= Latest(e)'
    <3>1. sync.next[e] <= feed[e] /\ sync.items[e] <= Latest(e)
      BY <1>1, <2>3 DEF AnswerOfFeed
    <3>2. sync.next[e] \in Nat /\ sync.items[e] \in Nat
      BY <1>1 DEF Syncs, Numbers
    <3>. QED
      BY <1>2, <3>1, <3>2
  <2>4. CASE shown' = shown
    BY <1>1, <1>8, <2>1, <2>3, <2>4 DEF AnswerOfFeed
  <2>. QED
    BY <1>5, <2>2, <2>4
<1>. QED
  BY <1>1, <1>3, <1>4, <1>5, <1>6, <1>7, <1>8, SyncKept

LEMMA LeftSteps ==
    ASSUME TypeOK, [Next]_vars
    PROVE  left' \in Course
<1>1. left \in Course
  BY DEF TypeOK
<1>2. CASE BeginCall
  BY <1>1, <1>2, SpendDoes DEF BeginCall, Begin
<1>3. CASE MarkStale \/ Forget
  BY <1>1, <1>3, SpendDoes DEF MarkStale, Forget
<1>4. CASE SyncBegins \/ \E items \in [Events -> 0 .. clock] : SyncLists(items)
  BY <1>1, <1>4, SpendDoes DEF SyncBegins, SyncLists
<1>5. CASE \E e \in left.among, live \in BOOLEAN : OutsideChanges(e, live)
  BY <1>1, <1>5, SpendDoes DEF OutsideChanges
<1>6. CASE UNCHANGED left
  BY <1>1, <1>6
<1>7. (\/ (\E e \in Events : FeedMoves(e)) \/ LoseAnswers \/ SyncAsks \/ SyncFails \/ TakesIn
       \/ (\E k \in Keys : MarkAges(k)) \/ UNCHANGED vars
       \/ (\E k \in DOMAIN call.stage : CalendarMakes(k) \/ CalendarRefuses(k) \/ WriteFails(k)
             \/ NoteAnswer(k) \/ RefreshStale(k) \/ End(k))) => UNCHANGED left
  BY DEF FeedMoves, LoseAnswers, SyncAsks, SyncFails, TakesIn, MarkAges, Becomes, vars, CalendarMakes, CalendarRefuses,
      WriteFails, NoteAnswer, RefreshStale, End
<1>. QED
  BY <1>2, <1>3, <1>4, <1>5, <1>6, <1>7 DEF Next, CalendarStep, CallStep, SyncStep

Pasts == [read : Nat, spanned : SUBSET Keys, written : SUBSET Keys, forgot : BOOLEAN]

LEMMA PastSteps ==
    ASSUME TypeOK, [Next]_vars
    PROVE  /\ past' \in Pasts
           /\ past.written \subseteq past'.written
           /\ past'.forgot = (past.forgot \/ Forget)
<1>1. past \in Pasts
  BY DEF TypeOK, Pasts
<1>2. CASE BeginCall
  <2>1. PICK kind \in {"edit", "delete", "end", "label"}, keys \in SUBSET Keys : Begin(kind, keys)
    BY <1>2, BeginCallKinds
  <2>2. past' = [past EXCEPT !.written = past.written \cup UNION {KeysOf(k) : k \in keys}]
    BY <2>1 DEF Begin
  <2>3. UNION {KeysOf(k) : k \in keys} \subseteq Keys
    BY <2>1, KeysOfKeys
  <2>4. ~Forget
    <3>1. call' # call
      <4>1. call'.kind \in {"edit", "delete", "end", "label"}
        BY <2>1 DEF Begin
      <4>2. call = NoCall /\ NoCall.kind = "none"
        BY <2>1 DEF Begin, NoCall
      <4>. QED
        BY <4>1, <4>2
    <3>. QED
      BY <3>1 DEF Forget
  <2>. QED
    BY <1>1, <2>2, <2>3, <2>4 DEF Pasts
<1>3. CASE Forget
  BY <1>1, <1>3 DEF Forget, Pasts
<1>4. CASE TakesIn
  BY <1>1, <1>4, TakenInPast DEF Forget, Pasts
<1>5. CASE UNCHANGED past /\ ~Forget
  BY <1>1, <1>5 DEF Pasts
<1>6. (\/ CalendarStep \/ LoseAnswers \/ MarkStale \/ SyncBegins \/ SyncAsks \/ SyncFails
       \/ (\E items \in [Events -> 0 .. clock] : SyncLists(items))
       \/ (\E k \in Keys : MarkAges(k)) \/ UNCHANGED vars
       \/ (\E k \in DOMAIN call.stage : CalendarMakes(k) \/ CalendarRefuses(k) \/ WriteFails(k)
             \/ NoteAnswer(k) \/ RefreshStale(k) \/ End(k))) => UNCHANGED past
  BY DEF CalendarStep, OutsideChanges, FeedMoves, LoseAnswers, MarkStale, SyncBegins, SyncAsks, SyncFails, SyncLists,
      MarkAges, Becomes, vars, CalendarMakes, CalendarRefuses, WriteFails, NoteAnswer, RefreshStale, End
<1>7. UNCHANGED past /\ Forget => past.forgot
  BY <1>1 DEF Forget, Pasts
<1>. QED
  BY <1>1, <1>2, <1>3, <1>4, <1>5, <1>6, <1>7 DEF Next, CallStep, SyncStep, Pasts

LEMMA BaseInit == Init => Base
<1>. SUFFICES ASSUME Init PROVE Base
  OBVIOUS
<1>. DEFINE first == [at |-> 1, live |-> TRUE, by |-> Outside]
<1>1. first \in Version /\ first.at = 1 /\ first.by = Outside
  BY DEF Version
<1>2. \A e \in Events : made[e] = <<first>> \/ made[e] = << >>
  BY DEF Init
<1>3. made = [e \in Events |-> IF e \in left.existing THEN <<first>> ELSE <<>>] /\ clock = 1
  BY DEF Init
<1>. HIDE DEF first
<1>4. /\ <<first>> \in Seq(Version) /\ << >> \in Seq(Version)
      /\ Len(<<first>>) = 1 /\ <<first>>[1] = first /\ Len(<< >>) = 0
  BY <1>1, EmptySeq
<1>5. made \in [Events -> Seq(Version)] /\ \A e \in Events : Len(made[e]) \in Nat
  BY <1>3, <1>4
<1>6. feed \in Numbers /\ shown \in Numbers /\ FeedBehind
  BY <1>5 DEF Init, Numbers, FeedBehind, Latest
<1>7. MadeInOrder
  BY <1>1, <1>2, <1>3, <1>4, KeysAssumption DEF MadeInOrder, Latest
<1>8. store \in Store /\ sync \in Syncs /\ sync.at = "idle"
  BY EmptyStore, NoSyncIs DEF Init
<1>9. CallOK
  <2>1. call = [kind |-> "none", stage |-> << >>, base |-> Nothing, version |-> Nothing] /\ Nothing \in Numbers
    BY DEF Init, NoCall, Nothing, Numbers
  <2>2. DOMAIN call.stage = {} /\ call.stage \in [{} -> Stages]
    BY <2>1, EmptySeq
  <2>. QED
    BY <2>1, <2>2 DEF CallOK
<1>10. left \in Course /\ past \in [read : Nat, spanned : SUBSET Keys, written : SUBSET Keys, forgot : BOOLEAN]
       /\ past.read = 0
  BY CoursesAssumption DEF Init
<1>11. AnswerOfFeed
  BY <1>3, <1>8, <1>10 DEF AnswerOfFeed
<1>. QED
  BY <1>3, <1>5, <1>6, <1>7, <1>8, <1>9, <1>10, <1>11 DEF Base, TypeOK

LEMMA BaseStep == Base /\ [Next]_vars => Base'
<1>. SUFFICES ASSUME Base, [Next]_vars PROVE Base'
  OBVIOUS
<1>1. TypeOK
  BY DEF Base
<1>2. left' \in Course /\ past' \in Pasts
  BY <1>1, LeftSteps, PastSteps
<1>. QED
  BY <1>2, MadeSteps, FeedSteps, StoreSteps, SyncSteps, CallSteps DEF Base, TypeOK, Pasts

\* What's kept has the shape it's to have, Calendar's versions are made in
\* order, and a sync's answer is of the feed.
THEOREM BaseHolds == Spec => []Base
BY BaseInit, BaseStep, PTL DEF Spec

----------------------------------------------------------------------------
(* Nothing is missed *)

\* All but a sync taken in and the calendar forgotten keep the token, and no
\* older a version of any event.
LEMMA OthersKeepEvents ==
    ASSUME Base, [Next]_vars, ~TakesIn, ~Forget
    PROVE  /\ KeepsSyncs
           /\ \A e \in Events : /\ store.events[e] \in Nat /\ store'.events[e] \in Nat
                              /\ store.events[e] <= store'.events[e]
<1>1. TypeOK /\ store \in Store /\ store' \in Store
  BY StoreSteps DEF Base, TypeOK
<1>2. \A e \in Events : store.events[e] \in Nat /\ store'.events[e] \in Nat
  BY <1>1 DEF Store, Numbers
<1>3. CASE BeginCall
  <2>1. PICK kind \in {"edit", "delete", "end", "label"}, keys \in SUBSET Keys : Begin(kind, keys) /\ keys # {}
    BY <1>1, <1>3, BeginCallKinds
  <2>2. KeepsEvents /\ KeepsSyncs
    BY <1>1, <2>1, BeginDoes
  <2>. QED
    BY <1>2, <2>2 DEF KeepsEvents
<1>4. CASE MarkStale
  BY <1>1, <1>2, <1>4 DEF MarkStale, KeepsSyncs, Store
<1>5. CASE \E k \in DOMAIN call.stage : NoteAnswer(k)
  <2>1. PICK k \in DOMAIN call.stage : NoteAnswer(k)
    BY <1>5
  <2>2. CASE k = All
    BY <1>1, <1>2, <2>1, <2>2 DEF NoteAnswer, KeepsSyncs
  <2>3. CASE k # All
    <3>1. KeepsSyncs /\ \A e \in Events :
            store'.events[e] = IF e = k /\ call.kind # "delete" /\ store.events[e] <= call.version[e]
                               THEN call.version[e] ELSE store.events[e]
      BY <1>1, <2>1, <2>3, NoteDoes
    <3>. QED
      BY <1>2, <3>1
  <2>. QED
    BY <2>2, <2>3
<1>6. CASE \E k \in DOMAIN call.stage : RefreshStale(k)
  <2>1. PICK k \in DOMAIN call.stage : RefreshStale(k)
    BY <1>6
  <2>2. KeepsSyncs /\ \E e \in KeysOf(k) :
          /\ e \in Events
          /\ store'.events = store.events
               \/ store'.events = [store.events EXCEPT ![e] = IF store.events[e] > Latest(e) THEN store.events[e]
                                                             ELSE Latest(e)]
    BY <1>1, <2>1, RefreshDoes
  <2>3. \A e \in Events : Latest(e) \in Nat
    BY <1>1, LenProperties DEF TypeOK, Latest
  <2>4. store.events \in [Events -> Nat]
    BY <1>1 DEF Store, Numbers
  <2>. QED
    BY <1>2, <2>2, <2>3, <2>4
<1>7. CASE \E k \in DOMAIN call.stage : End(k)
  BY <1>1, <1>2, <1>7, EndDoes DEF KeepsEvents
<1>8. CASE SyncBegins
  BY <1>1, <1>2, <1>8, BeginsDoes DEF KeepsSyncs, Store
<1>9. CASE \E k \in Keys : MarkAges(k)
  BY <1>1, <1>2, <1>9, AgesDo DEF KeepsEvents
<1>10. CASE UNCHANGED store
  BY <1>2, <1>10 DEF KeepsSyncs
<1>11. (\/ CalendarStep \/ LoseAnswers \/ SyncAsks \/ SyncFails \/ (\E items \in [Events -> 0 .. clock] : SyncLists(items))
        \/ (\E k \in DOMAIN call.stage : CalendarMakes(k) \/ CalendarRefuses(k) \/ WriteFails(k)) \/ UNCHANGED vars)
       => UNCHANGED store
  BY DEF CalendarStep, OutsideChanges, FeedMoves, LoseAnswers, SyncAsks, SyncFails, SyncLists, CalendarMakes,
      CalendarRefuses, WriteFails, vars
<1>. QED
  BY <1>3, <1>4, <1>5, <1>6, <1>7, <1>8, <1>9, <1>10, <1>11 DEF Next, CallStep, SyncStep

\* A sync under way has the token kept, and that is no further than the feed.
TokenOfFeed ==
    /\ sync.at # "idle" => store.token = sync.token
    /\ store.token # NONE => \A e \in Events : store.token[e] <= feed[e]

NothingMissedInv == Base /\ TokenOfFeed /\ NothingMissed

LEMMA NothingMissedStep ==
    ASSUME ~ForgetsAnytime, NothingMissedInv, [Next]_vars
    PROVE  NothingMissedInv'
<1>1. Base /\ TypeOK /\ TokenOfFeed /\ NothingMissed /\ AnswerOfFeed /\ store \in Store /\ sync \in Syncs /\ feed \in Numbers
  BY DEF NothingMissedInv, Base, TypeOK
<1>2. Base'
  BY <1>1, BaseStep
<1>3. \A e \in Events : feed[e] \in Nat /\ feed'[e] \in Nat /\ feed[e] <= feed'[e]
  BY <1>1, FeedSteps
<1>4. CASE TakesIn
  <2>1. /\ store'.token = sync.next /\ sync.at = "answered" /\ sync' = NoSync
        /\ \A e \in Events :
             store'.events[e] = IF sync.items[e] > 0
                                THEN IF store.events[e] <= sync.items[e] THEN sync.items[e] ELSE store.events[e]
                                ELSE IF sync.full /\ ~IsOurs(store, e) THEN 0 ELSE store.events[e]
    BY <1>1, <1>4, TakesInDoes DEF TakesIn
  <2>2. sync.token = store.token
    BY <1>1, <2>1 DEF TokenOfFeed
  <2>3. ASSUME NEW e \in Events PROVE sync.next[e] <= feed'[e] /\ store'.events[e] >= sync.next[e]
    <3>1. /\ sync.next[e] <= feed[e] /\ sync.next[e] \in Nat /\ sync.items[e] \in Nat /\ store.events[e] \in Nat
          /\ sync.full => sync.next[e] <= sync.items[e]
          /\ ~sync.full => sync.token # NONE /\ sync.items[e] = IF sync.next[e] > sync.token[e] THEN sync.next[e] ELSE 0
      BY <1>1, <2>1 DEF AnswerOfFeed, Syncs, Store, Numbers
    <3>2. CASE sync.full
      BY <1>3, <2>1, <3>1, <3>2
    <3>3. CASE ~sync.full
      <4>1. store.token # NONE /\ store.token \in Numbers
        BY <1>1, <2>2, <3>1, <3>3 DEF Store
      <4>2. store.events[e] >= store.token[e] /\ store.token[e] \in Nat
        BY <1>1, <4>1 DEF NothingMissed, Numbers
      <4>. QED
        BY <1>3, <2>1, <2>2, <3>1, <3>3, <4>2
    <3>. QED
      BY <3>2, <3>3
  <2>. QED
    BY <1>2, <2>1, <2>3, NoSyncIs DEF NothingMissedInv, TokenOfFeed, NothingMissed
<1>5. CASE Forget
  <2>1. sync' = NoSync /\ store'.token = NONE
    BY <1>1, <1>5, ForgetDoes DEF Forget
  <2>. QED
    BY <1>2, <2>1, NoSyncIs DEF NothingMissedInv, TokenOfFeed, NothingMissed
<1>6. CASE ~TakesIn /\ ~Forget
  <2>1. /\ store'.token = store.token
        /\ \A e \in Events : /\ store.events[e] \in Nat /\ store'.events[e] \in Nat
                           /\ store.events[e] <= store'.events[e]
    BY <1>1, <1>6, OthersKeepEvents DEF KeepsSyncs
  <2>2. store.token \in Numbers \cup {NONE}
    BY <1>1 DEF Store
  <2>3. store'.token # NONE => \A e \in Events : store'.token[e] <= feed'[e] /\ store'.events[e] >= store'.token[e]
    <3>. SUFFICES ASSUME store.token # NONE, NEW e \in Events
         PROVE store.token[e] <= feed'[e] /\ store'.events[e] >= store.token[e]
      BY <2>1
    <3>1. store.token[e] \in Nat /\ store.token[e] <= feed[e] /\ store.events[e] >= store.token[e]
      BY <1>1, <2>2 DEF TokenOfFeed, NothingMissed, Numbers
    <3>. QED
      BY <1>3, <2>1, <3>1
  <2>4. sync'.at # "idle" => store'.token = sync'.token
    <3>1. CASE SyncBegins
      BY <1>1, <2>1, <3>1, BeginsDoes
    <3>2. CASE SyncAsks
      BY <1>1, <2>1, <3>2, AsksDoes DEF TokenOfFeed
    <3>3. CASE \E items \in [Events -> 0 .. clock] : SyncLists(items)
      <4>1. sync.at = "begun" /\ sync'.token = sync.token
        BY <1>1, <3>3, ListsDoes
      <4>. QED
        BY <1>1, <2>1, <4>1 DEF TokenOfFeed
    <3>4. CASE SyncFails
      BY <3>4, NoSyncIs DEF SyncFails
    <3>5. CASE UNCHANGED sync
      BY <1>1, <2>1, <3>5 DEF TokenOfFeed
    <3>. QED
      BY <1>1, <1>6, <3>1, <3>2, <3>3, <3>4, <3>5, SyncKept
  <2>. QED
    BY <1>2, <2>3, <2>4 DEF NothingMissedInv, TokenOfFeed, NothingMissed
<1>. QED
  BY <1>4, <1>5, <1>6

LEMMA NothingMissedInit == Init => NothingMissedInv
<1>1. Init => store.token = NONE /\ sync.at = "idle"
  BY EmptyStore, NoSyncIs DEF Init
<1>. QED
  BY <1>1, BaseInit DEF NothingMissedInv, TokenOfFeed, NothingMissed

\* Nothing Calendar's feed sent before where the next sync starts is missing
\* from what's kept, as long as the calendar isn't forgotten under a sync.
THEOREM NothingIsMissed ==
    ASSUME ~ForgetsAnytime
    PROVE  Spec => []NothingMissed
<1>1. NothingMissedInv /\ [Next]_vars => NothingMissedInv'
  BY NothingMissedStep
<1>2. NothingMissedInv => NothingMissed
  BY DEF NothingMissedInv
<1>. QED
  BY <1>1, <1>2, NothingMissedInit, PTL DEF Spec

----------------------------------------------------------------------------
(* What's kept never goes back *)

\* A key's mark counts the writes of the call under way that mark it.
WritingCounts == \A j \in Keys : store.written[j].writing = WritesOf(DOMAIN call.stage, j)

LEMMA WritesOfSteps ==
    ASSUME NEW keys \in SUBSET Keys, NEW j \in Keys
    PROVE  /\ WritesOf(keys, j) \in Nat
           /\ \A k \in keys : j \in KeysOf(k) =>
                WritesOf(keys, j) > 0 /\ WritesOf(keys \ {k}, j) = WritesOf(keys, j) - 1
           /\ \A k \in keys : j \notin KeysOf(k) => WritesOf(keys \ {k}, j) = WritesOf(keys, j)
           /\ WritesOf({}, j) = 0
<1>. DEFINE S == {k \in keys : j \in KeysOf(k)}
<1>1. IsFiniteSet(Keys)
  <2>1. IsFiniteSet(Events)
    BY KeysAssumption
  <2>. QED
    BY <2>1, FS_AddElement DEF Keys
<1>2. IsFiniteSet(S) /\ Cardinality(S) \in Nat
  BY <1>1, FS_Subset, FS_CardinalityType
<1>3. ASSUME NEW k \in keys, j \in KeysOf(k)
      PROVE WritesOf(keys, j) > 0 /\ WritesOf(keys \ {k}, j) = WritesOf(keys, j) - 1
  <2>1. k \in S /\ {i \in keys \ {k} : j \in KeysOf(i)} = S \ {k}
    BY <1>3
  <2>2. Cardinality(S \ {k}) = Cardinality(S) - 1 /\ Cardinality(S) # 0
    BY <1>2, <2>1, FS_RemoveElement, FS_EmptySet
  <2>. QED
    <3>1. WritesOf(keys, j) = Cardinality(S) /\ WritesOf(keys \ {k}, j) = Cardinality(S \ {k})
      BY <2>1 DEF WritesOf
    <3>. QED
      BY <1>2, <2>2, <3>1
<1>4. ASSUME NEW k \in keys, j \notin KeysOf(k)
      PROVE WritesOf(keys \ {k}, j) = WritesOf(keys, j)
  <2>1. {i \in keys \ {k} : j \in KeysOf(i)} = S
    BY <1>4
  <2>. QED
    BY <2>1 DEF WritesOf
<1>5. WritesOf({}, j) = 0
  <2>1. {i \in {} : j \in KeysOf(i)} = {}
    OBVIOUS
  <2>. QED
    BY <2>1, FS_EmptySet DEF WritesOf
<1>. QED
  BY <1>2, <1>3, <1>4, <1>5 DEF WritesOf

\* Which steps change what call is under way.
LEMMA StagesKept ==
    ASSUME Base, [Next]_vars
    PROVE  \/ BeginCall /\ call = NoCall
           \/ \E k \in DOMAIN call.stage : End(k)
           \/ DOMAIN call'.stage = DOMAIN call.stage /\ call'.kind = call.kind
<1>1. TypeOK /\ CallOK
  BY DEF Base, TypeOK
<1>2. CASE BeginCall
  BY <1>2 DEF BeginCall, Begin
<1>3. CASE LoseAnswers
  <2>1. call' = [call EXCEPT !.stage = [k \in DOMAIN call.stage |-> "failed"]]
    BY <1>3 DEF LoseAnswers
  <2>2. call' = [kind |-> call.kind, stage |-> [k \in DOMAIN call.stage |-> "failed"], base |-> call.base, version |-> call.version]
    BY <1>1, <2>1 DEF CallOK
  <2>. QED
    BY <2>2
<1>4. CASE \E k \in DOMAIN call.stage : CalendarMakes(k)
  <2>1. PICK k \in DOMAIN call.stage : CalendarMakes(k)
    BY <1>4
  <2>. DEFINE c == To(k, "made")
  <2>2. Stepped(c, k, "made")
    BY <1>1, ToDoes DEF Stages
  <2>3. call' = IF k = All THEN c ELSE [c EXCEPT !.version = [c.version EXCEPT ![k] = Latest(k) + 1]]
    BY <2>1 DEF CalendarMakes
  <2>. HIDE DEF c
  <2>4. call'.stage = c.stage /\ call'.kind = c.kind
    BY <2>2, <2>3 DEF Stepped
  <2>. QED
    BY <2>2, <2>4 DEF Stepped
<1>5. CASE \E k \in DOMAIN call.stage : CalendarRefuses(k) \/ WriteFails(k) \/ NoteAnswer(k) \/ RefreshStale(k)
  <2>1. PICK k \in DOMAIN call.stage, st \in Stages : call' = To(k, st)
    BY <1>5 DEF CalendarRefuses, WriteFails, NoteAnswer, RefreshStale, Stages
  <2>2. Stepped(call', k, st)
    BY <1>1, <2>1, ToDoes
  <2>. QED
    BY <2>2 DEF Stepped
<1>6. CASE UNCHANGED call
  BY <1>6
<1>7. (MarkStale \/ Forget \/ CalendarStep \/ SyncStep \/ (\E k \in Keys : MarkAges(k)) \/ UNCHANGED vars) => UNCHANGED call
  BY DEF MarkStale, Forget, CalendarStep, OutsideChanges, FeedMoves, SyncStep, SyncBegins, SyncAsks, SyncFails,
      SyncLists, TakesIn, MarkAges, Becomes, vars
<1>. QED
  BY <1>2, <1>3, <1>4, <1>5, <1>6, <1>7 DEF Next, CallStep

\* Which steps change the marks, but for a write's beginning and end.
LEMMA MarksKept ==
    ASSUME Base, [Next]_vars
    PROVE  \/ BeginCall \/ TakesIn \/ Forget \/ \E k \in DOMAIN call.stage : End(k)
           \/ \E k \in Keys : MarkAges(k)
           \/ KeepsMarks
<1>1. TypeOK /\ store \in Store
  BY DEF Base, TypeOK
<1>2. CASE MarkStale
  BY <1>1, <1>2 DEF MarkStale, KeepsMarks, Store
<1>3. CASE \E k \in DOMAIN call.stage : NoteAnswer(k)
  <2>1. PICK k \in DOMAIN call.stage : NoteAnswer(k)
    BY <1>3
  <2>2. CASE k = All
    BY <2>1, <2>2 DEF NoteAnswer, KeepsMarks
  <2>. QED
    BY <1>1, <2>1, <2>2, NoteDoes
<1>4. CASE \E k \in DOMAIN call.stage : RefreshStale(k)
  BY <1>1, <1>4, RefreshDoes
<1>5. CASE SyncBegins
  BY <1>1, <1>5, BeginsDoes DEF KeepsMarks, Store
<1>6. (\/ CalendarStep \/ LoseAnswers \/ SyncAsks \/ SyncFails \/ (\E items \in [Events -> 0 .. clock] : SyncLists(items))
        \/ (\E k \in DOMAIN call.stage : CalendarMakes(k) \/ CalendarRefuses(k) \/ WriteFails(k)) \/ UNCHANGED vars)
       => KeepsMarks
  BY DEF CalendarStep, OutsideChanges, FeedMoves, LoseAnswers, SyncAsks, SyncFails, SyncLists, CalendarMakes,
      CalendarRefuses, WriteFails, vars, KeepsMarks
<1>. QED
  BY <1>2, <1>3, <1>4, <1>5, <1>6 DEF Next, CallStep, SyncStep

LEMMA WritingCountsStep ==
    ASSUME Base, WritingCounts, [Next]_vars
    PROVE  WritingCounts'
<1>1. TypeOK /\ store \in Store /\ store' \in Store /\ DOMAIN call.stage \in SUBSET Keys /\ Unmarked.writing = 0
  BY StoreSteps DEF Base, TypeOK, CallOK, Keys, Unmarked
<1>2. CASE BeginCall
  <2>1. PICK kind \in {"edit", "delete", "end", "label"}, keys \in SUBSET Keys : Begin(kind, keys) /\ keys # {}
    BY <1>1, <1>2, BeginCallKinds
  <2>2. \A j \in Keys : /\ store'.written[j].writing = store.written[j].writing + WritesOf(keys, j)
                      /\ WritesOf(keys, j) \in Nat
    <3>1. MarksBegun(keys)
      BY <1>1, <2>1, BeginDoes
    <3>. QED
      BY <3>1 DEF MarksBegun
  <2>3. DOMAIN call.stage = {} /\ DOMAIN call'.stage = keys
    <3>1. call = NoCall /\ call'.stage = [k \in keys |-> "sent"]
      BY <2>1 DEF Begin
    <3>2. NoCall.stage = << >>
      BY DEF NoCall
    <3>. QED
      BY <3>1, <3>2, EmptySeq
  <2>4. \A j \in Keys : store.written[j].writing = 0
    BY <2>3, WritesOfSteps DEF WritingCounts
  <2>. QED
    BY <2>2, <2>3, <2>4 DEF WritingCounts
<1>3. CASE \E k \in DOMAIN call.stage : End(k)
  <2>1. PICK k \in DOMAIN call.stage : End(k)
    BY <1>3
  <2>2. /\ DOMAIN call'.stage = DOMAIN call.stage \ {k}
        /\ \A j \in Keys :
             IF j \in KeysOf(k) /\ store.written[j].writing > 0
             THEN store'.written[j].writing = store.written[j].writing - 1
             ELSE j \in KeysOf(k) \/ store'.written[j] = store.written[j]
    BY <1>1, <2>1, EndDoes
  <2>3. ASSUME NEW j \in Keys PROVE store'.written[j].writing = WritesOf(DOMAIN call'.stage, j)
    <3>1. store.written[j].writing = WritesOf(DOMAIN call.stage, j)
      BY DEF WritingCounts
    <3>2. CASE j \in KeysOf(k)
      <4>1. WritesOf(DOMAIN call.stage, j) > 0 /\ WritesOf(DOMAIN call.stage \ {k}, j) = WritesOf(DOMAIN call.stage, j) - 1
        BY <1>1, <3>2, WritesOfSteps
      <4>. QED
        BY <2>2, <3>1, <3>2, <4>1
    <3>3. CASE j \notin KeysOf(k)
      <4>1. WritesOf(DOMAIN call.stage \ {k}, j) = WritesOf(DOMAIN call.stage, j)
        BY <1>1, <3>3, WritesOfSteps
      <4>. QED
        BY <2>2, <3>1, <3>3, <4>1
    <3>. QED
      BY <3>2, <3>3
  <2>. QED
    BY <2>3 DEF WritingCounts
<1>4. CASE DOMAIN call'.stage = DOMAIN call.stage
  <2>1. CASE TakesIn
    <3>1. \A k \in Keys :
                 \/ /\ store'.written[k] = Unmarked /\ store.written[k].writing = 0
                 \/ /\ store'.written[k].writing = store.written[k].writing
      BY <2>1, TakesInDoes
    <3>. QED
      BY <1>1, <1>4, <3>1 DEF WritingCounts
  <2>2. CASE Forget
    <3>1. call = NoCall /\ NoCall.stage = << >> /\ \A j \in Keys : store'.written[j].writing = 0
      BY <1>1, <2>2, ForgetDoes DEF Forget, NoCall
    <3>2. DOMAIN call.stage = {}
      BY <3>1, EmptySeq
    <3>. QED
      BY <1>4, <3>1, <3>2, WritesOfSteps DEF WritingCounts
  <2>3. CASE \E k \in Keys : MarkAges(k)
    <3>1. \A j \in Keys : store'.written[j].writing = store.written[j].writing
      BY <1>1, <2>3, AgesDo DEF MarkAged
    <3>. QED
      BY <1>4, <3>1 DEF WritingCounts
  <2>4. CASE KeepsMarks
    BY <1>4, <2>4 DEF KeepsMarks, WritingCounts
  <2>. QED
    BY <1>2, <1>3, <2>1, <2>2, <2>3, <2>4, MarksKept
<1>. QED
  BY <1>2, <1>3, <1>4, StagesKept

\* What a call's been answered is the last version it made.
MadeByCall ==
    \A k \in DOMAIN call.stage \ {All} : call.stage[k] \in {"made", "noted"} =>
        /\ call.version[k] \in 1 .. Latest(k)
        /\ made[k][call.version[k]].by = k
        /\ \A i \in call.version[k] + 1 .. Latest(k) : made[k][i].by # k

LEMMA MadeByCallStep ==
    ASSUME Base, MadeByCall, [Next]_vars
    PROVE  MadeByCall'
<1>1. TypeOK /\ CallOK /\ DOMAIN call.stage \subseteq Keys
  BY DEF Base, TypeOK, CallOK, Keys
<1>2. \A e \in Events : /\ Len(made[e]) \in Nat /\ Len(made'[e]) \in Nat /\ Len(made[e]) <= Len(made'[e])
                     /\ \A i \in 1 .. Len(made[e]) : made'[e][i] = made[e][i]
  BY MadeSteps
<1>3. \A k \in DOMAIN call.stage \ {All} : k \in Events
  BY <1>1 DEF CallOK
\* What one was answered stays so while none of the event's new versions is its.
<1>4. ASSUME NEW k \in DOMAIN call.stage \ {All}, call.stage[k] \in {"made", "noted"},
             \A i \in Len(made[k]) + 1 .. Len(made'[k]) : made'[k][i].by # k
      PROVE  /\ call.version[k] \in 1 .. Len(made'[k])
             /\ made'[k][call.version[k]].by = k
             /\ \A i \in call.version[k] + 1 .. Len(made'[k]) : made'[k][i].by # k
  <2>1. /\ call.version[k] \in 1 .. Len(made[k])
        /\ made[k][call.version[k]].by = k
        /\ \A i \in call.version[k] + 1 .. Len(made[k]) : made[k][i].by # k
    BY <1>4 DEF MadeByCall, Latest
  <2>2. k \in Events /\ Len(made[k]) \in Nat /\ Len(made'[k]) \in Nat /\ Len(made[k]) <= Len(made'[k])
    BY <1>2, <1>3
  <2>3. \A i \in 1 .. Len(made[k]) : made'[k][i] = made[k][i]
    BY <1>2, <2>2
  <2>4. ASSUME NEW i \in call.version[k] + 1 .. Len(made'[k]) PROVE made'[k][i].by # k
    <3>1. CASE i <= Len(made[k])
      BY <2>1, <2>2, <2>3, <3>1
    <3>2. CASE i > Len(made[k])
      BY <1>4, <2>1, <2>2, <3>2
    <3>. QED
      BY <2>1, <2>2, <3>1, <3>2
  <2>. QED
    BY <2>1, <2>2, <2>3, <2>4
<1>5. CASE UNCHANGED made
  <2>0. \A k \in Events : \A i \in Len(made[k]) + 1 .. Len(made'[k]) : made'[k][i].by # k
    BY <1>2, <1>5
  <2>1. CASE BeginCall
    <3>1. PICK kind \in {"edit", "delete", "end", "label"}, keys \in SUBSET Keys : Begin(kind, keys)
      BY <1>1, <2>1, BeginCallKinds
    <3>2. call'.stage = [k \in keys |-> "sent"]
      BY <3>1 DEF Begin
    <3>. QED
      BY <3>2 DEF MadeByCall
  <2>2. CASE \E k \in DOMAIN call.stage : End(k)
    <3>1. PICK k \in DOMAIN call.stage : End(k)
      BY <2>2
    <3>2. \A j \in DOMAIN call'.stage : j \in DOMAIN call.stage /\ call'.stage[j] = call.stage[j]
                                     /\ call'.version[j] = call.version[j]
      BY <1>1, <3>1, EndDoes
    <3>. QED
      BY <1>3, <1>4, <2>0, <3>2 DEF MadeByCall, Latest
  <2>3. CASE LoseAnswers
    <3>1. call' = [call EXCEPT !.stage = [k \in DOMAIN call.stage |-> "failed"]]
      BY <2>3 DEF LoseAnswers
    <3>2. call' = [kind |-> call.kind, stage |-> [k \in DOMAIN call.stage |-> "failed"], base |-> call.base, version |-> call.version]
      BY <1>1, <3>1 DEF CallOK
    <3>. QED
      BY <3>2 DEF MadeByCall
  <2>4. CASE \E k \in DOMAIN call.stage : CalendarRefuses(k) \/ WriteFails(k) \/ NoteAnswer(k) \/ RefreshStale(k)
    <3>1. PICK k \in DOMAIN call.stage : CalendarRefuses(k) \/ WriteFails(k) \/ NoteAnswer(k) \/ RefreshStale(k)
      BY <2>4
    <3>2. PICK st \in Stages : /\ call' = To(k, st)
                              /\ (st \in {"made", "noted"} => call.stage[k] \in {"made", "noted"})
      BY <3>1 DEF CalendarRefuses, WriteFails, NoteAnswer, RefreshStale, Stages
    <3>3. Stepped(call', k, st)
      BY <1>1, <3>2, ToDoes
    <3>4. ASSUME NEW j \in DOMAIN call'.stage \ {All}, call'.stage[j] \in {"made", "noted"}
          PROVE  /\ call'.version[j] \in 1 .. Len(made'[j])
                 /\ made'[j][call'.version[j]].by = j
                 /\ \A i \in call'.version[j] + 1 .. Len(made'[j]) : made'[j][i].by # j
      <4>1. j \in DOMAIN call.stage \ {All} /\ call'.version = call.version
        BY <3>3 DEF Stepped
      <4>2. call.stage[j] \in {"made", "noted"}
        BY <3>2, <3>3, <3>4, <4>1 DEF Stepped
      <4>3. \A i \in Len(made[j]) + 1 .. Len(made'[j]) : made'[j][i].by # j
        BY <1>3, <2>0, <4>1
      <4>. QED
        BY <1>4, <4>1, <4>2, <4>3
    <3>. QED
      BY <3>4 DEF MadeByCall, Latest
  <2>5. CASE UNCHANGED call
    BY <1>3, <1>4, <1>5, <2>0, <2>5 DEF MadeByCall, Latest
  <2>6. (MarkStale \/ Forget \/ CalendarStep \/ SyncStep \/ (\E k \in Keys : MarkAges(k)) \/ UNCHANGED vars) => UNCHANGED call
    BY DEF MarkStale, Forget, CalendarStep, OutsideChanges, FeedMoves, SyncStep, SyncBegins, SyncAsks, SyncFails,
      SyncLists, TakesIn, MarkAges, Becomes, vars
  <2>7. CASE \E k \in DOMAIN call.stage : CalendarMakes(k)
    <3>1. clock' = clock + 1 /\ clock \in Nat
      BY <1>1, <2>7 DEF CalendarMakes, Change, TypeOK
    <3>2. PICK k \in DOMAIN call.stage : CalendarMakes(k)
      BY <2>7
    <3>3. PICK dom \in SUBSET Events : Grew(k, dom) /\ (k # All => k \in dom)
      BY <1>1, <3>2, MakesDoes
    <3>4. dom = {}
      <4>. SUFFICES ASSUME NEW e \in dom PROVE FALSE
        OBVIOUS
      <4>1. Len(made'[e]) = Len(made[e]) + 1 /\ Len(made[e]) \in Nat
        BY <1>2, <3>3 DEF Grew
      <4>. QED
        BY <1>5, <4>1
    <3>5. k = All
      BY <3>3, <3>4
    <3>6. call' = To(k, "made")
      BY <3>2, <3>5 DEF CalendarMakes
    <3>7. Stepped(call', k, "made")
      BY <1>1, <3>6, ToDoes DEF Stages
    <3>8. \A j \in DOMAIN call'.stage \ {All} : /\ j \in DOMAIN call.stage /\ call'.version[j] = call.version[j]
                                     /\ call'.stage[j] = call.stage[j]
      BY <3>5, <3>7 DEF Stepped
    <3>. QED
      BY <1>3, <1>4, <2>0, <3>8 DEF MadeByCall, Latest
  <2>. QED
    BY <2>1, <2>2, <2>3, <2>4, <2>5, <2>6, <2>7 DEF Next, CallStep
<1>6. CASE \E by \in Keys \cup {Outside}, dom \in SUBSET Events :
             /\ Grew(by, dom)
             /\ \/ by = Outside /\ UNCHANGED call
                \/ by \in DOMAIN call.stage /\ CalendarMakes(by) /\ (by # All => by \in dom)
  <2>1. PICK by \in Keys \cup {Outside}, dom \in SUBSET Events :
             /\ Grew(by, dom)
             /\ \/ by = Outside /\ UNCHANGED call
                \/ by \in DOMAIN call.stage /\ CalendarMakes(by) /\ (by # All => by \in dom)
    BY <1>6
  <2>2. \A e \in Events :
             /\ Len(made'[e]) = IF e \in dom THEN Len(made[e]) + 1 ELSE Len(made[e])
             /\ e \in dom => made'[e][Len(made[e]) + 1].by = by
    BY <2>1 DEF Grew
  <2>3. \A e \in Events : by # e => \A i \in Len(made[e]) + 1 .. Len(made'[e]) : made'[e][i].by # e
    <3>. SUFFICES ASSUME NEW e \in Events, by # e, NEW i \in Len(made[e]) + 1 .. Len(made'[e])
         PROVE made'[e][i].by # e
      OBVIOUS
    <3>1. Len(made[e]) \in Nat
      BY <1>2
    <3>. QED
      BY <2>2, <3>1
  <2>4. CASE by = Outside /\ UNCHANGED call
    <3>1. \A e \in Events : by # e
      BY <2>4, KeysAssumption DEF Keys
    <3>. QED
      BY <1>3, <1>4, <2>3, <2>4, <3>1 DEF MadeByCall, Latest
  <2>5. CASE by \in DOMAIN call.stage /\ CalendarMakes(by) /\ (by # All => by \in dom)
    <3>. DEFINE c == To(by, "made")
    <3>1. Stepped(c, by, "made")
      BY <1>1, <2>5, ToDoes DEF Stages
    <3>2. call' = IF by = All THEN c ELSE [c EXCEPT !.version = [c.version EXCEPT ![by] = Len(made[by]) + 1]]
      BY <2>5 DEF CalendarMakes, Latest
    <3>. HIDE DEF c
    <3>3. /\ DOMAIN call'.stage = DOMAIN call.stage
          /\ \A j \in DOMAIN call.stage : j # by => call'.stage[j] = call.stage[j]
      BY <3>1, <3>2 DEF Stepped
    <3>4. \A j \in Events : call'.version[j] = IF j = by THEN Len(made[j]) + 1 ELSE call.version[j]
      <4>1. call.version \in [Events -> Nat] /\ All \notin Events
        BY <1>1, KeysAssumption DEF CallOK, Numbers
      <4>2. c.version = call.version /\ c = [kind |-> c.kind, stage |-> c.stage, base |-> c.base, version |-> c.version]
        BY <3>1 DEF Stepped
      <4>3. CASE by = All
        BY <3>2, <4>1, <4>2, <4>3
      <4>4. CASE by # All
        <5>1. call'.version = [call.version EXCEPT ![by] = Len(made[by]) + 1]
          BY <3>2, <4>2, <4>4
        <5>. QED
          BY <4>1, <5>1
      <4>. QED
        BY <4>3, <4>4
    <3>5. ASSUME NEW k \in DOMAIN call'.stage \ {All}, call'.stage[k] \in {"made", "noted"}
          PROVE  /\ call'.version[k] \in 1 .. Len(made'[k])
                 /\ made'[k][call'.version[k]].by = k
                 /\ \A i \in call'.version[k] + 1 .. Len(made'[k]) : made'[k][i].by # k
      <4>0. k \in Events /\ Len(made[k]) \in Nat
        BY <1>2, <1>3, <3>3
      <4>1. CASE k = by
        <5>1. call'.version[k] = Len(made[k]) + 1 /\ k \in dom
          BY <2>5, <3>4, <4>0, <4>1
        <5>. QED
          BY <2>2, <4>0, <4>1, <5>1
      <4>2. CASE k # by
        <5>1. call.stage[k] \in {"made", "noted"} /\ k \in DOMAIN call.stage \ {All} /\ call'.version[k] = call.version[k]
          BY <3>3, <3>4, <3>5, <4>0, <4>2
        <5>. QED
          BY <1>4, <2>3, <4>0, <4>2, <5>1
      <4>. QED
        BY <4>1, <4>2
    <3>. QED
      BY <3>5 DEF MadeByCall, Latest
  <2>. QED
    BY <2>1, <2>4, <2>5
<1>. QED
  BY <1>5, <1>6, CalendarGrows

\* An answer kept is to a write to the event itself, and what's kept is as new.
AnswersAreOwn ==
    \A e \in Events :
        LET v == store.answers[e].version
        IN  v > 0 => /\ v <= Latest(e) /\ made[e][v].by = e
                     /\ v <= store.events[e]
                     /\ ~store.answers[e].deleted

\* The feed, and a sync answered, have got to version v of e.
Reached(e, v) == v <= feed[e] /\ (sync.at = "answered" => v <= sync.next[e])

\* It's the server's own until then, so kept whatever a full listing is without.
AnswersHeld ==
    \A e \in Events :
        store.answers[e].version > 0 =>
            \/ store.written[e].writing > 0
            \/ store.written[e].age = "fresh"
            \/ Reached(e, store.answers[e].version)

Noted(e) == e \in DOMAIN call.stage /\ call.stage[e] = "noted"

\* What a write's mark is known by is its answer, once the write's over, and
\* what it will be known by is the call's.
EtagIsAnswer ==
    \A e \in Events :
        store.written[e].etag > 0 /\ ~Noted(e) => store.answers[e].version <= store.written[e].etag
NotedIsAnswer ==
    \A e \in Events :
        Noted(e) /\ call.kind # "delete" => store.answers[e].version <= call.version[e]

\* Which steps change the answers.
LEMMA AnswersKept ==
    ASSUME Base, [Next]_vars
    PROVE  \/ TakesIn \/ Forget \/ (\E k \in DOMAIN call.stage \ {All} : NoteAnswer(k))
           \/ store'.answers = store.answers
<1>1. TypeOK /\ store \in Store
  BY DEF Base, TypeOK
<1>2. CASE BeginCall
  <2>1. PICK kind \in {"edit", "delete", "end", "label"}, keys \in SUBSET Keys : Begin(kind, keys) /\ keys # {}
    BY <1>1, <1>2, BeginCallKinds
  <2>. QED
    BY <1>1, <2>1, BeginDoes DEF KeepsEvents
<1>3. CASE MarkStale
  BY <1>1, <1>3 DEF MarkStale, Store
<1>4. CASE \E k \in DOMAIN call.stage : NoteAnswer(k)
  BY <1>4 DEF NoteAnswer
<1>5. CASE \E k \in DOMAIN call.stage : RefreshStale(k)
  BY <1>1, <1>5, RefreshDoes
<1>6. CASE \E k \in DOMAIN call.stage : End(k)
  BY <1>1, <1>6, EndDoes DEF KeepsEvents
<1>7. CASE SyncBegins
  BY <1>1, <1>7, BeginsDoes DEF Store
<1>8. CASE \E k \in Keys : MarkAges(k)
  BY <1>1, <1>8, AgesDo DEF KeepsEvents
<1>9. (CalendarStep \/ LoseAnswers \/ UNCHANGED vars) => UNCHANGED store
  BY DEF CalendarStep, OutsideChanges, FeedMoves, LoseAnswers, vars
<1>10. (SyncAsks \/ SyncFails) => UNCHANGED store
  BY Zenon DEF SyncAsks, SyncFails
<1>11. (\E k \in DOMAIN call.stage : CalendarMakes(k) \/ CalendarRefuses(k) \/ WriteFails(k)) => UNCHANGED store
  BY DEF CalendarMakes, CalendarRefuses, WriteFails
<1>12. (\E items \in [Events -> 0 .. clock] : SyncLists(items)) => UNCHANGED store
  BY Zenon DEF SyncLists
<1>. QED
  BY <1>2, <1>3, <1>4, <1>5, <1>6, <1>7, <1>8, <1>9, <1>10, <1>11, <1>12 DEF Next, CallStep, SyncStep

\* Which steps make an event's answer noted, or end its write.
LEMMA NotedSteps ==
    ASSUME Base, [Next]_vars, NEW e \in Events
    PROVE  \/ e \in DOMAIN call.stage /\ NoteAnswer(e)
           \/ e \in DOMAIN call.stage /\ End(e) /\ e \notin DOMAIN call'.stage
           \/ ~Noted(e) /\ ~Noted(e)'
           \/ /\ Noted(e) /\ Noted(e)'
              /\ call'.version[e] = call.version[e] /\ call'.kind = call.kind
<1>1. TypeOK /\ CallOK
  BY DEF Base, TypeOK
<1>2. CASE BeginCall
  <2>1. PICK kind \in {"edit", "delete", "end", "label"}, keys \in SUBSET Keys : Begin(kind, keys) /\ keys # {}
    BY <1>1, <1>2, BeginCallKinds
  <2>2. call'.stage = [k \in keys |-> "sent"] /\ call = NoCall
    BY <2>1 DEF Begin
  <2>3. DOMAIN call.stage = {}
    BY <2>2, EmptySeq DEF NoCall
  <2>. QED
    BY <2>2, <2>3 DEF Noted
<1>3. CASE \E k \in DOMAIN call.stage : End(k)
  <2>1. PICK k \in DOMAIN call.stage : End(k)
    BY <1>3
  <2>2. /\ DOMAIN call'.stage = DOMAIN call.stage \ {k}
        /\ \A j \in DOMAIN call'.stage : call'.stage[j] = call.stage[j] /\ call'.version[j] = call.version[j]
                                       /\ call'.kind = call.kind
    BY <1>1, <2>1, EndDoes
  <2>. QED
    BY <2>1, <2>2 DEF Noted
<1>4. CASE LoseAnswers
  <2>1. \A k \in DOMAIN call.stage : call.stage[k] # "noted"
    BY <1>4 DEF LoseAnswers, Stage
  <2>2. call'.stage = [k \in DOMAIN call.stage |-> "failed"]
    BY <1>1, <1>4 DEF LoseAnswers, CallOK
  <2>. QED
    BY <2>1, <2>2 DEF Noted
<1>5. CASE \E k \in DOMAIN call.stage : NoteAnswer(k) \/ CalendarRefuses(k) \/ WriteFails(k) \/ RefreshStale(k)
  <2>1. PICK k \in DOMAIN call.stage : NoteAnswer(k) \/ CalendarRefuses(k) \/ WriteFails(k) \/ RefreshStale(k)
    BY <1>5
  <2>2. CASE NoteAnswer(k)
    <3>1. Stepped(call', k, "noted")
      BY <1>1, <2>2, ToDoes DEF NoteAnswer, Stages
    <3>. QED
      BY <2>2, <3>1 DEF Noted, Stepped
  <2>3. CASE CalendarRefuses(k) \/ WriteFails(k) \/ RefreshStale(k)
    <3>1. PICK st \in {"refused", "failed"} : call' = To(k, st)
      BY <2>3 DEF CalendarRefuses, WriteFails, RefreshStale
    <3>2. Stepped(call', k, st) /\ call.stage[k] # "noted"
      BY <1>1, <2>3, <3>1, ToDoes DEF Stages, CalendarRefuses, WriteFails, RefreshStale
    <3>. QED
      BY <3>2 DEF Noted, Stepped
  <2>. QED
    BY <2>1, <2>2, <2>3
<1>6. CASE \E k \in DOMAIN call.stage : CalendarMakes(k)
  <2>1. PICK k \in DOMAIN call.stage : CalendarMakes(k)
    BY <1>6
  <2>. DEFINE c == To(k, "made")
  <2>2. Stepped(c, k, "made")
    BY <1>1, <2>1, ToDoes DEF Stages
  <2>3. /\ call.stage[k] = "sent"
        /\ call' = IF k = All THEN c ELSE [c EXCEPT !.version = [c.version EXCEPT ![k] = Latest(k) + 1]]
    BY <2>1 DEF CalendarMakes
  <2>. HIDE DEF c
  <2>4. call'.stage = c.stage /\ call'.kind = c.kind /\ (e # k => call'.version[e] = c.version[e])
    <3>1. c.version \in [Events -> Nat] /\ c = [kind |-> c.kind, stage |-> c.stage, base |-> c.base, version |-> c.version]
      BY <1>1, <2>2 DEF Stepped, CallOK, Numbers
    <3>. QED
      BY <2>3, <3>1
  <2>. QED
    BY <2>2, <2>3, <2>4 DEF Noted, Stepped
<1>7. CASE UNCHANGED call
  BY <1>7 DEF Noted
<1>8. (MarkStale \/ Forget \/ CalendarStep \/ SyncStep \/ (\E k \in Keys : MarkAges(k)) \/ UNCHANGED vars) => UNCHANGED call
  BY DEF MarkStale, Forget, CalendarStep, OutsideChanges, FeedMoves, SyncStep, SyncBegins, SyncAsks, SyncFails,
      SyncLists, TakesIn, MarkAges, Becomes, vars
<1>. QED
  BY <1>2, <1>3, <1>4, <1>5, <1>6, <1>7, <1>8 DEF Next, CallStep

GoesOn ==
    Base /\ WritingCounts /\ MadeByCall /\ AnswersAreOwn /\ AnswersHeld /\ EtagIsAnswer /\ NotedIsAnswer

LEMMA AnswersFall ==
    ASSUME Base, [Next]_vars, NEW e \in Events
    PROVE  \/ e \in DOMAIN call.stage /\ NoteAnswer(e)
           \/ store'.answers[e] \in {NoAnswer, store.answers[e]}
<1>1. TypeOK /\ All \notin Events
  BY KeysAssumption DEF Base, TypeOK
<1>2. CASE TakesIn
  <2>1. store'.answers[e] = IF sync.items[e] > 0 /\ Done(store, e, sync.items[e]) THEN NoAnswer ELSE store.answers[e]
    BY <1>2, TakesInDoes
  <2>. QED
    BY <2>1
<1>3. CASE Forget
  BY <1>1, <1>3, ForgetDoes
<1>4. CASE \E k \in DOMAIN call.stage \ {All} : NoteAnswer(k)
  <2>1. PICK k \in DOMAIN call.stage \ {All} : NoteAnswer(k)
    BY <1>4
  <2>2. e # k => store'.answers[e] = store.answers[e]
    BY <1>1, <2>1, NoteDoes
  <2>. QED
    BY <2>1, <2>2
<1>. QED
  BY <1>2, <1>3, <1>4, AnswersKept

\* What a call writes to has a mark that counts it.
LEMMA MarkedWhileWriting ==
    ASSUME CallOK, WritingCounts, NEW k \in DOMAIN call.stage, NEW j \in KeysOf(k)
    PROVE  j \in Keys /\ store.written[j].writing > 0
<1>1. DOMAIN call.stage \in SUBSET Keys
  BY DEF CallOK, Keys
<1>2. j \in Keys
  BY <1>1, KeysOfKeys
<1>3. WritesOf(DOMAIN call.stage, j) > 0
  BY <1>1, <1>2, WritesOfSteps
<1>. QED
  BY <1>2, <1>3 DEF WritingCounts

LEMMA ReachedStays ==
    ASSUME Base, [Next]_vars, NEW e \in Events, NEW v \in Nat, Reached(e, v)
    PROVE  v <= feed'[e] /\ (sync'.at = "answered" => v <= sync'.next[e])
<1>1. TypeOK /\ feed[e] \in Nat /\ feed'[e] \in Nat /\ feed[e] <= feed'[e]
  BY FeedSteps DEF Base
<1>2. v <= feed'[e]
  BY <1>1 DEF Reached
<1>3. CASE SyncBegins
  BY <1>1, <1>2, <1>3, BeginsDoes DEF Reached
<1>4. CASE SyncAsks
  BY <1>1, <1>2, <1>4, AsksDoes DEF Reached
<1>5. CASE \E items \in [Events -> 0 .. clock] : SyncLists(items)
  <2>1. sync'.next = feed
    BY <1>1, <1>5, ListsDoes
  <2>. QED
    BY <1>2, <2>1 DEF Reached
<1>6. CASE SyncFails
  BY <1>2, <1>6, NoSyncIs DEF Reached, SyncFails
<1>7. CASE TakesIn
  BY <1>2, <1>7, NoSyncIs DEF Reached, TakesIn
<1>8. CASE UNCHANGED sync
  BY <1>2, <1>8 DEF Reached
<1>. QED
  BY <1>1, <1>3, <1>4, <1>5, <1>6, <1>7, <1>8, SyncKept

\* An answer a sync doesn't bring is of an event the sync has, or the server's own.
LEMMA AnswersAreOwnStep ==
    ASSUME GoesOn, [Next]_vars
    PROVE  AnswersAreOwn'
<1>1. Base /\ TypeOK /\ CallOK /\ AnswerOfFeed /\ store \in Store /\ sync \in Syncs
  BY DEF GoesOn, Base, TypeOK
<1>2. \A e \in Events : /\ Len(made[e]) \in Nat /\ Len(made'[e]) \in Nat /\ Len(made[e]) <= Len(made'[e])
                     /\ \A i \in 1 .. Len(made[e]) : made'[e][i] = made[e][i]
  BY <1>1, MadeSteps
<1>3. \A e \in Events : store.events[e] \in Nat /\ store.answers[e].version \in Nat
  BY <1>1 DEF Store, Numbers, Answer
<1>4. \A e \in Events : store'.events[e] \in Nat
  BY <1>1, StoreSteps DEF Store, Numbers
\* What's so of an answer stays so, if what's kept is no older.
<1>5. ASSUME NEW e \in Events, store'.answers[e] = store.answers[e], store.answers[e].version > 0,
             store.answers[e].version <= store'.events[e]
      PROVE  LET v == store'.answers[e].version
             IN  /\ v <= Len(made'[e]) /\ made'[e][v].by = e
                 /\ v <= store'.events[e]
                 /\ ~store'.answers[e].deleted
  <2>. DEFINE v == store.answers[e].version
  <2>1. v <= Len(made[e]) /\ made[e][v].by = e /\ ~store.answers[e].deleted
    BY <1>5 DEF GoesOn, AnswersAreOwn, Latest
  <2>2. v \in 1 .. Len(made[e])
    BY <1>2, <1>3, <1>5, <2>1
  <2>3. made'[e][v] = made[e][v] /\ v <= Len(made'[e])
    BY <1>2, <2>2
  <2>. QED
    BY <1>5, <2>1, <2>3
<1>6. ASSUME NEW e \in Events, TakesIn, store'.answers[e].version > 0
      PROVE  store'.answers[e] = store.answers[e] /\ store.answers[e].version <= store'.events[e]
  <2>1. /\ store'.events[e] = IF sync.items[e] > 0
                              THEN IF store.events[e] <= sync.items[e] THEN sync.items[e] ELSE store.events[e]
                              ELSE IF sync.full /\ ~IsOurs(store, e) THEN 0 ELSE store.events[e]
        /\ store'.answers[e] = IF sync.items[e] > 0 /\ Done(store, e, sync.items[e])
                               THEN NoAnswer ELSE store.answers[e]
    BY <1>1, <1>6, TakesInDoes
  <2>2. store'.answers[e] = store.answers[e]
    BY <1>6, <2>1 DEF NoAnswer
  <2>3. store.answers[e].version <= store.events[e]
    BY <1>6, <2>2 DEF GoesOn, AnswersAreOwn
  <2>4. CASE sync.items[e] > 0
    <3>1. sync.items[e] \in Nat
      BY <1>1 DEF Syncs, Numbers
    <3>. QED
      BY <1>3, <2>1, <2>2, <2>3, <2>4, <3>1
  <2>5. CASE ~(sync.items[e] > 0)
    <3>1. ~(sync.full /\ ~IsOurs(store, e))
      <4>. SUFFICES ASSUME sync.full, ~IsOurs(store, e) PROVE FALSE
        OBVIOUS
      <4>1. ~Holds(store.written[e])
        BY KeysOfKeys DEF IsOurs, Keys
      <4>2. Reached(e, store.answers[e].version)
        BY <1>6, <2>2, <4>1 DEF GoesOn, AnswersHeld, Holds
      <4>3. sync.at = "answered" /\ sync.next[e] <= sync.items[e] /\ sync.next[e] \in Nat /\ sync.items[e] \in Nat
        BY <1>1, <1>6 DEF TakesIn, AnswerOfFeed, Syncs, Numbers
      <4>. QED
        BY <1>3, <1>6, <2>2, <2>5, <4>2, <4>3 DEF Reached
    <3>. QED
      BY <2>1, <2>2, <2>3, <2>5, <3>1
  <2>. QED
    BY <2>4, <2>5
<1>7. CASE TakesIn
  BY <1>5, <1>6, <1>7 DEF AnswersAreOwn, Latest
<1>8. CASE Forget
  <2>1. \A e \in Events : store'.answers[e] = NoAnswer
    BY <1>1, <1>8, ForgetDoes
  <2>. QED
    BY <2>1 DEF AnswersAreOwn, NoAnswer
<1>9. CASE ~TakesIn /\ ~Forget
  <2>1. \A e \in Events : store.events[e] <= store'.events[e]
    BY <1>1, <1>9, OthersKeepEvents
  <2>2. ASSUME NEW e \in Events, store'.answers[e] = store.answers[e], store.answers[e].version > 0
        PROVE  LET v == store'.answers[e].version
               IN  /\ v <= Len(made'[e]) /\ made'[e][v].by = e
                   /\ v <= store'.events[e]
                   /\ ~store'.answers[e].deleted
    <3>1. store.answers[e].version <= store.events[e]
      BY <2>2 DEF GoesOn, AnswersAreOwn
    <3>2. store.answers[e].version <= store'.events[e]
      BY <1>3, <1>4, <2>1, <3>1
    <3>. QED
      BY <1>5, <2>2, <3>2
  <2>3. ASSUME NEW e \in Events, e \in DOMAIN call.stage, NoteAnswer(e), store'.answers[e].version > 0
        PROVE  LET v == store'.answers[e].version
               IN  /\ v <= Len(made'[e]) /\ made'[e][v].by = e
                   /\ v <= store'.events[e]
                   /\ ~store'.answers[e].deleted
    <3>1. e # All
      BY KeysAssumption
    <3>2. /\ store'.events[e] = IF call.kind # "delete" /\ store.events[e] <= call.version[e]
                                THEN call.version[e] ELSE store.events[e]
          /\ store'.answers[e] = IF call.kind = "delete" THEN [version |-> 0, deleted |-> TRUE]
                                 ELSE [version |-> call.version[e], deleted |-> FALSE]
      BY <1>1, <2>3, <3>1, NoteDoes
    <3>3. call.kind # "delete" /\ store'.answers[e].version = call.version[e] /\ store'.answers[e].deleted = FALSE
      BY <2>3, <3>2
    <3>4. call.version[e] \in 1 .. Len(made[e]) /\ made[e][call.version[e]].by = e
      BY <2>3, <3>1 DEF GoesOn, MadeByCall, NoteAnswer, Latest
    <3>5. made' = made
      BY <2>3 DEF NoteAnswer, Calendar
    <3>6. call.version[e] <= store'.events[e]
      BY <1>2, <1>3, <3>2, <3>3, <3>4
    <3>. QED
      BY <1>2, <3>3, <3>4, <3>5, <3>6
  <2>. QED
    <3>1. \A e \in Events : store'.answers[e].version > 0 =>
            \/ e \in DOMAIN call.stage /\ NoteAnswer(e)
            \/ store'.answers[e] = store.answers[e] /\ store.answers[e].version > 0
      BY <1>1, AnswersFall DEF NoAnswer
    <3>. QED
      BY <2>2, <2>3, <3>1 DEF AnswersAreOwn, Latest
<1>. QED
  BY <1>7, <1>8, <1>9

LEMMA AnswersHeldStep ==
    ASSUME GoesOn, [Next]_vars
    PROVE  AnswersHeld'
<1>1. Base /\ TypeOK /\ CallOK /\ WritingCounts /\ store \in Store
  BY DEF GoesOn, Base, TypeOK
<1>2. ASSUME NEW e \in Events, store'.answers[e].version > 0
      PROVE  \/ store'.written[e].writing > 0
             \/ store'.written[e].age = "fresh"
             \/ /\ store'.answers[e].version <= feed'[e]
                /\ sync'.at = "answered" => store'.answers[e].version <= sync'.next[e]
  <2>. DEFINE v == store.answers[e].version
  <2>0. e \in Keys /\ e # All /\ v \in Nat /\ store.written[e].writing \in Nat
    BY <1>1, KeysAssumption DEF Keys, Store, Answer, Mark
  <2>1. CASE e \in DOMAIN call.stage /\ NoteAnswer(e)
    <3>1. store'.written = store.written
      BY <1>1, <2>0, <2>1, NoteDoes DEF KeepsMarks
    <3>2. store.written[e].writing > 0
      BY <1>1, <2>0, <2>1, KeysOfKeys, MarkedWhileWriting
    <3>. QED
      BY <3>1, <3>2
  <2>2. CASE store'.answers[e] = store.answers[e]
    <3>1. \/ store.written[e].writing > 0
          \/ store.written[e].age = "fresh"
          \/ Reached(e, v)
      BY <1>2, <2>2 DEF GoesOn, AnswersHeld
    <3>2. Reached(e, v) => v <= feed'[e] /\ (sync'.at = "answered" => v <= sync'.next[e])
      BY <1>1, <2>0, ReachedStays
    <3>3. store'.answers[e].version = v
      BY <2>2
    <3>4. CASE TakesIn
      <4>1. store'.answers[e] = IF sync.items[e] > 0 /\ Done(store, e, sync.items[e]) THEN NoAnswer ELSE store.answers[e]
        BY <1>1, <3>4, TakesInDoes
      <4>2. \/ /\ store'.written[e] = Unmarked /\ store.written[e].writing = 0
               /\ \/ store.written[e].age # "fresh"
                  \/ e \in Events /\ sync.items[e] > 0 /\ Back(store, e, sync.items[e])
            \/ /\ store'.written[e].writing = store.written[e].writing
               /\ store'.written[e].age = store.written[e].age
        BY <1>1, <2>0, <3>4, TakesInDoes
      <4>3. ~(sync.items[e] > 0 /\ Back(store, e, sync.items[e]))
        <5>. SUFFICES ASSUME sync.items[e] > 0, Back(store, e, sync.items[e]) PROVE FALSE
          OBVIOUS
        <5>1. store.written[e].writing = 0 /\ store.written[e].etag = sync.items[e]
          BY DEF Back
        <5>2. ~Noted(e)
          BY <1>1, <2>0, <5>1, KeysOfKeys, MarkedWhileWriting DEF Noted
        <5>3. v <= sync.items[e]
          BY <5>1, <5>2 DEF GoesOn, EtagIsAnswer
        <5>4. ~store.answers[e].deleted
          BY <1>2, <2>2 DEF GoesOn, AnswersAreOwn
        <5>5. sync.items[e] \in Nat
          BY <1>1 DEF TypeOK, Syncs, Numbers
        <5>6. Done(store, e, sync.items[e])
          BY <2>0, <5>3, <5>4, <5>5 DEF Done, AnswerIs, AnswerPassedBy
        <5>. QED
          BY <1>2, <4>1, <5>6 DEF NoAnswer
      <4>. QED
        BY <3>1, <3>2, <3>3, <4>2, <4>3
    <3>5. CASE Forget
      BY <1>1, <1>2, <3>5, ForgetDoes DEF NoAnswer
    <3>6. CASE BeginCall
      <4>1. PICK kind \in {"edit", "delete", "end", "label"}, keys \in SUBSET Keys : Begin(kind, keys) /\ keys # {}
        BY <1>1, <3>6, BeginCallKinds
      <4>2. MarksBegun(keys)
        BY <1>1, <4>1, BeginDoes
      <4>3. /\ store'.written[e].writing = store.written[e].writing + WritesOf(keys, e)
            /\ store'.written[e].age = store.written[e].age /\ WritesOf(keys, e) \in Nat
        BY <2>0, <4>2 DEF MarksBegun
      <4>. QED
        BY <2>0, <3>1, <3>2, <3>3, <4>3
    <3>7. CASE \E k \in DOMAIN call.stage : End(k)
      <4>1. PICK k \in DOMAIN call.stage : End(k)
        BY <3>7
      <4>2. IF e \in KeysOf(k) /\ store.written[e].writing > 0
            THEN store'.written[e].age = "fresh"
            ELSE e \in KeysOf(k) \/ store'.written[e] = store.written[e]
        BY <1>1, <2>0, <4>1, EndDoes
      <4>3. e \in KeysOf(k) => store.written[e].writing > 0
        BY <1>1, MarkedWhileWriting
      <4>. QED
        BY <3>1, <3>2, <3>3, <4>2, <4>3
    <3>8. CASE \E k \in Keys : MarkAges(k)
      <4>1. PICK k \in Keys : MarkAges(k)
        BY <3>8
      <4>2. MarkAged(k)
        BY <1>1, <4>1, AgesDo
      <4>3. CASE k # e
        <5>1. store'.written[e] = store.written[e]
          BY <2>0, <4>2, <4>3 DEF MarkAged
        <5>. QED
          BY <3>1, <3>2, <3>3, <5>1
      <4>4. CASE k = e /\ store.written[e].age = "fresh"
        <5>1. PromptFeed(e)
          BY <4>2, <4>4 DEF MarkAged
        <5>2. v <= Latest(e) /\ v > 0 /\ made[e][v].by = e
          BY <1>2, <2>2 DEF GoesOn, AnswersAreOwn
        <5>3. Latest(e) \in Nat
          BY <1>1, LenProperties DEF TypeOK, Latest
        <5>4. v \in 1 .. Latest(e)
          BY <2>0, <5>2, <5>3
        <5>. DEFINE w == <<e, v>>
        <5>5. w \in MarkedFor(e)
          <6>1. w \in {e} \X (1 .. Latest(e)) /\ w[1] = e /\ w[2] = v
            BY <5>4
          <6>2. made[w[1]][w[2]].by \in Keys /\ e \in KeysOf(made[w[1]][w[2]].by)
            BY <2>0, <5>2, <6>1, KeysOfKeys
          <6>. QED
            BY <6>1, <6>2 DEF MarkedFor
        <5>6. w[1] = e /\ w[2] = v
          OBVIOUS
        <5>. HIDE DEF w
        <5>7. Reached(e, v)
          BY <5>1, <5>5, <5>6 DEF PromptFeed, Reached
        <5>. QED
          BY <3>2, <3>3, <5>7
      <4>5. CASE k = e /\ store.written[e].age # "fresh"
        <5>1. store.written[e].writing = 0
          BY <1>1, <4>1, <4>5, AgesDo
        <5>. QED
          BY <3>1, <3>2, <3>3, <4>5, <5>1
      <4>. QED
        BY <4>3, <4>4, <4>5
    <3>9. CASE KeepsMarks
      BY <3>1, <3>2, <3>3, <3>9 DEF KeepsMarks
    <3>. QED
      BY <1>1, <3>4, <3>5, <3>6, <3>7, <3>8, <3>9, MarksKept
  <2>. QED
    BY <1>1, <1>2, <2>1, <2>2, AnswersFall DEF NoAnswer
<1>. QED
  BY <1>2 DEF AnswersHeld, Reached

\* A mark's etag stays, or is gone, but for the end of a write to the event.
LEMMA EtagStays ==
    ASSUME Base, WritingCounts, [Next]_vars, NEW e \in Events
    PROVE  \/ e \in DOMAIN call.stage /\ End(e)
           \/ store'.written[e].etag \in {0, store.written[e].etag}
<1>1. TypeOK /\ CallOK /\ e \in Keys
  BY DEF Base, TypeOK, Keys
<1>2. CASE TakesIn
  <2>1. store'.written[e] = Unmarked \/ store'.written[e].etag = store.written[e].etag
    BY <1>1, <1>2, TakesInDoes
  <2>. QED
    BY <2>1 DEF Unmarked
<1>3. CASE Forget
  BY <1>1, <1>3, ForgetDoes DEF Unmarked
<1>4. CASE BeginCall
  <2>1. PICK kind \in {"edit", "delete", "end", "label"}, keys \in SUBSET Keys : Begin(kind, keys) /\ keys # {}
    BY <1>1, <1>4, BeginCallKinds
  <2>2. MarksBegun(keys)
    BY <1>1, <2>1, BeginDoes
  <2>. QED
    BY <1>1, <2>2 DEF MarksBegun
<1>5. ASSUME NEW k \in DOMAIN call.stage, End(k), k # e
      PROVE  store'.written[e].etag \in {0, store.written[e].etag}
  <2>1. IF e \in KeysOf(k) /\ store.written[e].writing > 0
        THEN store'.written[e].etag = store.written[e].etag
        ELSE e \in KeysOf(k) \/ store'.written[e] = store.written[e]
    BY <1>1, <1>5, EndDoes
  <2>2. e \in KeysOf(k) => store.written[e].writing > 0
    BY <1>1, MarkedWhileWriting
  <2>. QED
    BY <2>1, <2>2
<1>6. CASE \E k \in Keys : MarkAges(k)
  BY <1>1, <1>6, AgesDo DEF MarkAged
<1>7. CASE KeepsMarks
  BY <1>7 DEF KeepsMarks
<1>. QED
  BY <1>2, <1>3, <1>4, <1>5, <1>6, <1>7, MarksKept

LEMMA EtagIsAnswerStep ==
    ASSUME GoesOn, [Next]_vars
    PROVE  EtagIsAnswer'
<1>1. Base /\ TypeOK /\ CallOK /\ WritingCounts /\ store \in Store
  BY DEF GoesOn, Base, TypeOK
<1>2. ASSUME NEW e \in Events, store'.written[e].etag > 0, ~Noted(e)'
      PROVE  store'.answers[e].version <= store'.written[e].etag
  <2>0. e \in Keys /\ e # All /\ store.answers[e].version \in Nat /\ store.written[e].etag \in Nat /\ call.version[e] \in Nat
    BY <1>1, KeysAssumption DEF Keys, Store, Answer, Mark, CallOK, Numbers
  <2>1. ~(e \in DOMAIN call.stage /\ NoteAnswer(e))
    <3>. SUFFICES ASSUME e \in DOMAIN call.stage, NoteAnswer(e) PROVE FALSE
      OBVIOUS
    <3>1. Stepped(call', e, "noted")
      BY <1>1, ToDoes DEF NoteAnswer, Stages
    <3>. QED
      BY <1>2, <3>1 DEF Stepped, Noted
  <2>2. store'.answers[e] \in {NoAnswer, store.answers[e]}
    BY <1>1, <2>1, AnswersFall
  <2>3. store'.answers[e].version \in Nat /\ store'.answers[e].version <= store.answers[e].version
    BY <2>0, <2>2 DEF NoAnswer
  <2>4. CASE e \in DOMAIN call.stage /\ End(e)
    <3>1. store.written[e].writing > 0 /\ e \in KeysOf(e)
      BY <1>1, <2>0, <2>4, KeysOfKeys, MarkedWhileWriting
    <3>2. store'.written[e].etag = EtagOf(e)
      BY <1>1, <2>0, <2>4, <3>1, EndDoes
    <3>3. Noted(e) /\ call.kind # "delete" /\ store'.written[e].etag = call.version[e]
      BY <1>2, <2>4, <3>2 DEF EtagOf, Noted
    <3>4. store.answers[e].version <= call.version[e]
      BY <3>3 DEF GoesOn, NotedIsAnswer
    <3>. QED
      BY <2>0, <2>3, <3>3, <3>4
  <2>5. CASE ~(e \in DOMAIN call.stage /\ End(e))
    <3>1. store'.written[e].etag = store.written[e].etag
      BY <1>1, <1>2, <2>5, EtagStays
    <3>2. ~Noted(e)
      BY <1>1, <1>2, <2>1, <2>5, NotedSteps
    <3>3. store.answers[e].version <= store.written[e].etag
      BY <1>2, <3>1, <3>2 DEF GoesOn, EtagIsAnswer
    <3>. QED
      BY <2>0, <2>3, <3>1, <3>3
  <2>. QED
    BY <2>4, <2>5
<1>. QED
  BY <1>2 DEF EtagIsAnswer

LEMMA NotedIsAnswerStep ==
    ASSUME GoesOn, [Next]_vars
    PROVE  NotedIsAnswer'
<1>1. Base /\ TypeOK /\ CallOK /\ store \in Store
  BY DEF GoesOn, Base, TypeOK
<1>2. ASSUME NEW e \in Events, Noted(e)', call'.kind # "delete"
      PROVE  store'.answers[e].version <= call'.version[e]
  <2>0. e # All /\ store.answers[e].version \in Nat /\ call.version[e] \in Nat
    BY <1>1, KeysAssumption DEF Store, Answer, CallOK, Numbers
  <2>1. CASE e \in DOMAIN call.stage /\ NoteAnswer(e)
    <3>1. Stepped(call', e, "noted")
      BY <1>1, <2>1, ToDoes DEF NoteAnswer, Stages
    <3>2. call'.version = call.version /\ call.kind # "delete"
      BY <1>2, <3>1 DEF Stepped
    <3>3. store'.answers[e] = [version |-> call.version[e], deleted |-> FALSE]
      BY <1>1, <2>0, <2>1, <3>2, NoteDoes
    <3>. QED
      BY <2>0, <3>2, <3>3
  <2>2. CASE ~(e \in DOMAIN call.stage /\ NoteAnswer(e))
    <3>1. store'.answers[e] \in {NoAnswer, store.answers[e]}
      BY <1>1, <2>2, AnswersFall
    <3>2. Noted(e) /\ call'.version[e] = call.version[e] /\ call'.kind = call.kind
      BY <1>1, <1>2, <2>2, NotedSteps DEF Noted
    <3>3. store.answers[e].version <= call.version[e]
      BY <1>2, <3>2 DEF GoesOn, NotedIsAnswer
    <3>. QED
      BY <2>0, <3>1, <3>2, <3>3 DEF NoAnswer
  <2>. QED
    BY <2>1, <2>2
<1>. QED
  BY <1>2 DEF NotedIsAnswer

LEMMA GoesOnInit == Init => GoesOn
<1>. SUFFICES ASSUME Init PROVE GoesOn
  OBVIOUS
<1>1. DOMAIN call.stage = {}
  BY EmptySeq DEF Init, NoCall
<1>2. \A k \in Keys : store.written[k] = Unmarked
  BY EmptyStore DEF Init
<1>3. \A e \in Events : store.answers[e].version = 0 /\ store.written[e].etag = 0
  BY EmptyStore, <1>2 DEF Init, NoAnswer, Unmarked, Keys
<1>4. WritingCounts
  BY <1>1, <1>2, WritesOfSteps DEF WritingCounts, Unmarked
<1>. QED
  BY <1>1, <1>3, <1>4, BaseInit DEF GoesOn, MadeByCall, AnswersAreOwn, AnswersHeld, EtagIsAnswer, NotedIsAnswer, Noted

LEMMA GoesOnStep == GoesOn /\ [Next]_vars => GoesOn'
BY BaseStep, WritingCountsStep, MadeByCallStep, AnswersAreOwnStep, AnswersHeldStep, EtagIsAnswerStep, NotedIsAnswerStep
   DEF GoesOn

\* What's kept of an event never becomes an older version of it, or older than
\* the answer to a write no sync has brought yet -- by a lagging sync, a slow
\* answer or a lagging full listing, whenever the calendar is forgotten.
THEOREM KeptNeverGoesBack == Spec => NeverGoesBack
<1>. DEFINE Forward ==
       \A e \in Events :
           /\ store.events[e] > 0 /\ store'.events[e] > 0 => store'.events[e] >= store.events[e]
           /\ store'.events[e] >= store'.answers[e].version
<1>1. ASSUME GoesOn, [Next]_vars PROVE Forward
  <2>. SUFFICES ASSUME NEW e \in Events
       PROVE  /\ store.events[e] > 0 /\ store'.events[e] > 0 => store'.events[e] >= store.events[e]
              /\ store'.events[e] >= store'.answers[e].version
    OBVIOUS
  <2>1. Base /\ TypeOK /\ GoesOn'
    BY <1>1, GoesOnStep DEF GoesOn, Base
  <2>2. store \in Store /\ store' \in Store
    BY <1>1, <2>1, StoreSteps DEF TypeOK
  <2>3. store.events[e] \in Nat /\ store'.events[e] \in Nat /\ store'.answers[e].version \in Nat
    BY <2>2 DEF Store, Numbers, Answer
  <2>4. store'.events[e] >= store'.answers[e].version
    <3>1. store'.answers[e].version > 0 => store'.answers[e].version <= store'.events[e]
      BY <2>1 DEF GoesOn, AnswersAreOwn
    <3>. QED
      BY <2>3, <3>1
  <2>5. store.events[e] > 0 /\ store'.events[e] > 0 => store'.events[e] >= store.events[e]
    <3>1. CASE TakesIn
      <4>1. store'.events[e] = IF sync.items[e] > 0
                               THEN IF store.events[e] <= sync.items[e] THEN sync.items[e] ELSE store.events[e]
                               ELSE IF sync.full /\ ~IsOurs(store, e) THEN 0 ELSE store.events[e]
        BY <2>1, <3>1, TakesInDoes
      <4>. QED
        BY <2>3, <4>1
    <3>2. CASE Forget
      BY <2>1, <3>2, ForgetDoes DEF Nothing
    <3>3. CASE ~TakesIn /\ ~Forget
      BY <1>1, <2>1, <2>3, <3>3, OthersKeepEvents
    <3>. QED
      BY <3>1, <3>2, <3>3
  <2>. QED
    BY <2>4, <2>5
<1>2. GoesOn /\ [Next]_vars => [Forward]_vars
  BY <1>1
<1>. QED
  BY <1>2, GoesOnInit, GoesOnStep, PTL DEF Spec, NeverGoesBack

----------------------------------------------------------------------------
(* What's read is as new as the writes that are over *)

\* The generation only moves on; while it's the sync's, the writes under way are
\* those it began during, and nobody else's have been made since it asked.
DuringIsUnderWay ==
    /\ sync.generation <= store.generation
    /\ sync.at # "idle" /\ sync.generation = store.generation => sync.during = DOMAIN call.stage
MadeSinceAsked ==
    sync.at = "answered" /\ sync.generation = store.generation =>
        \A e \in Events : \A i \in 1 .. Latest(e) :
            made[e][i].by \in Keys /\ made[e][i].at > sync.asked => made[e][i].by \in DOMAIN call.stage

\* What's read without a sync is read while nothing is written, but for what a
\* sync has spanned; and what was never synced, while nothing is written at all.
SpannedCovers == ReadsUnsynced => DOMAIN call.stage \subseteq past.spanned
NeverSynced ==
    ~store.stale /\ store.token = NONE =>
        /\ DOMAIN call.stage = {}
        /\ sync.at # "idle" => sync.generation = store.generation

\* ReadsAfterWrites, of each event's versions.
AllRead ==
    ReadsUnsynced =>
        \A e \in Events : \A i \in 1 .. Latest(e) :
            made[e][i].by \in Keys \ past.spanned => made[e][i].at <= past.read

ReadsInv == Base /\ DuringIsUnderWay /\ MadeSinceAsked /\ SpannedCovers /\ NeverSynced /\ AllRead

\* What moves the generation, and what clears stale.
LEMMA StaleSteps ==
    ASSUME Base, [Next]_vars
    PROVE  \/ BeginCall /\ store'.stale = TRUE /\ store'.generation > store.generation
           \/ \E k \in DOMAIN call.stage :
                /\ End(k) /\ store'.stale = store.stale /\ store'.generation = store.generation + 1
                /\ store'.token = store.token /\ DOMAIN call'.stage \subseteq DOMAIN call.stage
           \/ Forget
           \/ TakesIn
           \/ /\ store'.stale \in {TRUE, store.stale} /\ store'.generation = store.generation
              /\ store'.token = store.token /\ DOMAIN call'.stage = DOMAIN call.stage
              /\ ~Forget /\ ~TakesIn
<1>1. TypeOK /\ store \in Store
  BY DEF Base, TypeOK
<1>2. CASE BeginCall
  <2>1. PICK kind \in {"edit", "delete", "end", "label"}, keys \in SUBSET Keys : Begin(kind, keys) /\ keys # {}
    BY <1>1, <1>2, BeginCallKinds
  <2>. QED
    BY <1>1, <1>2, <2>1, BeginDoes
<1>3. CASE \E k \in DOMAIN call.stage : End(k)
  BY <1>1, <1>3, EndDoes DEF KeepsSyncs
<1>4. CASE ~BeginCall /\ ~(\E k \in DOMAIN call.stage : End(k)) /\ ~Forget /\ ~TakesIn
  <2>1. DOMAIN call'.stage = DOMAIN call.stage
    BY <1>1, <1>4, StagesKept
  <2>2. store'.token = store.token
    BY <1>1, <1>4, OthersKeepEvents DEF KeepsSyncs
  <2>3. store'.generation = store.generation
    BY <1>1, <1>4, MarksKept, AgesDo DEF KeepsMarks
  <2>4. store'.stale \in {TRUE, store.stale}
    <3>1. CASE MarkStale
      BY <1>1, <3>1 DEF MarkStale, Store
    <3>2. CASE \E k \in DOMAIN call.stage : NoteAnswer(k)
      <4>1. PICK k \in DOMAIN call.stage : NoteAnswer(k)
        BY <3>2
      <4>2. CASE k = All
        BY <4>1, <4>2 DEF NoteAnswer
      <4>. QED
        BY <1>1, <4>1, <4>2, NoteDoes
    <3>3. CASE \E k \in DOMAIN call.stage : RefreshStale(k)
      BY <1>1, <3>3, RefreshDoes
    <3>4. CASE SyncBegins
      BY <1>1, <3>4, BeginsDoes DEF Store
    <3>5. CASE \E k \in Keys : MarkAges(k)
      BY <1>1, <3>5, AgesDo
    <3>6. (CalendarStep \/ LoseAnswers \/ UNCHANGED vars) => UNCHANGED store
      BY DEF CalendarStep, OutsideChanges, FeedMoves, LoseAnswers, vars
    <3>7. (SyncAsks \/ SyncFails) => UNCHANGED store
      BY Zenon DEF SyncAsks, SyncFails
    <3>8. (\E k \in DOMAIN call.stage : CalendarMakes(k) \/ CalendarRefuses(k) \/ WriteFails(k)) => UNCHANGED store
      BY DEF CalendarMakes, CalendarRefuses, WriteFails
    <3>9. (\E items \in [Events -> 0 .. clock] : SyncLists(items)) => UNCHANGED store
      BY Zenon DEF SyncLists
    <3>. QED
      BY <1>4, <3>1, <3>2, <3>3, <3>4, <3>5, <3>6, <3>7, <3>8, <3>9 DEF Next, CallStep, SyncStep
  <2>. QED
    BY <1>4, <2>1, <2>2, <2>3, <2>4
<1>. QED
  BY <1>2, <1>3, <1>4

LEMMA DuringStep ==
    ASSUME Base, DuringIsUnderWay, [Next]_vars
    PROVE  DuringIsUnderWay'
<1>1. TypeOK /\ store.generation \in Nat /\ sync.generation \in Nat /\ store'.generation \in Nat
  <2>1. TypeOK /\ store' \in Store
    BY StoreSteps DEF Base
  <2>. QED
    BY <2>1 DEF TypeOK, Store, Syncs
<1>2. CASE SyncBegins
  <2>1. /\ sync'.generation = store.generation /\ sync'.during = DOMAIN call.stage
        /\ store' = [store EXCEPT !.syncs = store.syncs + 1] /\ call' = call
    BY <1>1, <1>2, BeginsDoes DEF SyncBegins
  <2>. QED
    BY <1>1, <2>1 DEF DuringIsUnderWay, TypeOK, Store
<1>3. CASE SyncAsks \/ \E items \in [Events -> 0 .. clock] : SyncLists(items)
  <2>1. sync'.generation = sync.generation /\ sync'.during = sync.during /\ sync.at # "idle"
    BY <1>1, <1>3, AsksDoes, ListsDoes
  <2>2. store' = store /\ call' = call
    <3>1. SyncAsks => store' = store /\ call' = call
      BY Zenon DEF SyncAsks
    <3>2. (\E items \in [Events -> 0 .. clock] : SyncLists(items)) => store' = store /\ call' = call
      BY Zenon DEF SyncLists
    <3>. QED
      BY <1>3, <3>1, <3>2
  <2>. QED
    BY <2>1, <2>2 DEF DuringIsUnderWay
<1>4. CASE SyncFails
  BY <1>1, <1>4, NoSyncIs DEF SyncFails, DuringIsUnderWay
<1>5. CASE TakesIn
  BY <1>1, <1>5, NoSyncIs DEF TakesIn, DuringIsUnderWay
<1>6. CASE Forget
  <2>1. store'.generation = store.generation + 1 /\ sync' = sync
    BY <1>1, <1>6, ForgetDoes DEF Forget
  <2>. QED
    BY <1>1, <2>1 DEF DuringIsUnderWay
<1>7. CASE UNCHANGED sync /\ ~Forget /\ ~TakesIn
  <2>1. \/ store'.generation > store.generation
        \/ store'.generation = store.generation /\ DOMAIN call'.stage = DOMAIN call.stage
    <3>1. \/ store'.generation > store.generation
          \/ store'.generation = store.generation + 1
          \/ store'.generation = store.generation /\ DOMAIN call'.stage = DOMAIN call.stage
      BY <1>7, StaleSteps
    <3>. QED
      BY <1>1, <3>1
  <2>. QED
    BY <1>1, <1>7, <2>1 DEF DuringIsUnderWay
<1>. QED
  BY <1>1, <1>2, <1>3, <1>4, <1>5, <1>6, <1>7, SyncKept

\* Only syncs change which sync is under way, only one taken in what's read.
LEMMA PastKept ==
    ASSUME Base, [Next]_vars, ~TakesIn
    PROVE  past'.read = past.read /\ past'.spanned = past.spanned
<1>1. TypeOK
  BY DEF Base
<1>2. (SyncBegins \/ SyncAsks \/ SyncFails) => past' = past
  BY Zenon DEF SyncBegins, SyncAsks, SyncFails
<1>3. (\E items \in [Events -> 0 .. clock] : SyncLists(items)) => past' = past
  BY Zenon DEF SyncLists
<1>. QED
  BY <1>1, <1>2, <1>3, SyncKept

\* A version of the server's is an old one, or a call under way has just made it.
LEMMA MadeOrNew ==
    ASSUME Base, [Next]_vars, NEW e \in Events, NEW i \in 1 .. Len(made'[e]), made'[e][i].by \in Keys
    PROVE  \/ i \in 1 .. Len(made[e]) /\ made'[e][i] = made[e][i]
           \/ made'[e][i].by \in DOMAIN call.stage /\ UNCHANGED <<store, sync, past>>
<1>1. /\ Len(made[e]) \in Nat /\ Len(made'[e]) \in Nat
      /\ \A j \in 1 .. Len(made[e]) : made'[e][j] = made[e][j]
  BY MadeSteps
<1>2. CASE i \in 1 .. Len(made[e])
  BY <1>1, <1>2
<1>3. CASE i \notin 1 .. Len(made[e])
  <2>1. made' # made
    BY <1>3
  <2>2. PICK by \in Keys \cup {Outside}, dom \in SUBSET Events :
          /\ Grew(by, dom)
          /\ \/ by = Outside
             \/ by \in DOMAIN call.stage
    BY <2>1, CalendarGrows
  <2>3. UNCHANGED <<store, sync, past>>
    BY <2>1, CalendarGrows
  <2>4. Len(made'[e]) = IF e \in dom THEN Len(made[e]) + 1 ELSE Len(made[e])
    BY <2>2 DEF Grew
  <2>5. e \in dom /\ i = Len(made[e]) + 1
    BY <1>1, <1>3, <2>4
  <2>6. made'[e][i].by = by
    BY <2>2, <2>5 DEF Grew
  <2>. QED
    BY <2>2, <2>3, <2>6, KeysAssumption
<1>. QED
  BY <1>2, <1>3

LEMMA MadeSinceStep ==
    ASSUME Base, DuringIsUnderWay, MadeSinceAsked, [Next]_vars
    PROVE  MadeSinceAsked'
<1>1. TypeOK /\ MadeInOrder /\ store.generation \in Nat /\ sync.generation \in Nat
  BY DEF Base, TypeOK, Store, Syncs
<1>2. CASE SyncBegins
  BY <1>1, <1>2, BeginsDoes DEF MadeSinceAsked
<1>3. CASE SyncAsks \/ \E items \in [Events -> 0 .. clock] : SyncLists(items)
  <2>1. sync'.asked = clock
    BY <1>1, <1>3, AsksDoes, ListsDoes
  <2>2. made' = made
    <3>1. SyncAsks => made' = made
      BY Zenon DEF SyncAsks, Calendar
    <3>2. (\E items \in [Events -> 0 .. clock] : SyncLists(items)) => made' = made
      BY Zenon DEF SyncLists
    <3>. QED
      BY <1>3, <3>1, <3>2
  <2>3. ASSUME NEW e \in Events, NEW i \in 1 .. Len(made[e]) PROVE ~(made[e][i].at > clock)
    <3>1. made[e] \in Seq(Version) /\ clock \in Nat
      BY <1>1 DEF TypeOK
    <3>2. made[e][i].at <= clock /\ made[e][i] \in Version
      BY <1>1, <3>1, ElementOfSeq DEF MadeInOrder, Latest
    <3>. QED
      BY <3>1, <3>2 DEF Version
  <2>. QED
    BY <2>1, <2>2, <2>3 DEF MadeSinceAsked, Latest
<1>4. CASE SyncFails \/ TakesIn
  <2>1. sync' = NoSync
    BY Zenon, <1>4 DEF SyncFails, TakesIn
  <2>. QED
    BY <2>1, NoSyncIs DEF MadeSinceAsked
<1>5. CASE UNCHANGED sync /\ ~TakesIn
  <2>1. \/ store'.generation > store.generation
        \/ store'.generation = store.generation + 1
        \/ store'.generation = store.generation /\ DOMAIN call'.stage = DOMAIN call.stage
    BY <1>1, <1>5, StaleSteps, ForgetDoes
  <2>2. CASE store'.generation # store.generation
    <3>1. sync.generation <= store.generation /\ store'.generation \in Nat
      BY StoreSteps DEF DuringIsUnderWay, Store
    <3>2. sync'.generation # store'.generation
      BY <1>1, <1>5, <2>1, <2>2, <3>1
    <3>. QED
      BY <3>2 DEF MadeSinceAsked
  <2>3. CASE store'.generation = store.generation /\ DOMAIN call'.stage = DOMAIN call.stage
    <3>. SUFFICES ASSUME sync.at = "answered", sync.generation = store.generation, NEW e \in Events,
                         NEW i \in 1 .. Len(made'[e]), made'[e][i].by \in Keys, made'[e][i].at > sync.asked
         PROVE made'[e][i].by \in DOMAIN call.stage
      BY <1>5, <2>3 DEF MadeSinceAsked, Latest
    <3>1. CASE i \in 1 .. Len(made[e]) /\ made'[e][i] = made[e][i]
      BY <3>1 DEF MadeSinceAsked, Latest
    <3>. QED
      BY <3>1, MadeOrNew
  <2>. QED
    BY <1>1, <2>1, <2>2, <2>3
<1>. QED
  BY <1>1, <1>2, <1>3, <1>4, <1>5, SyncKept

LEMMA SpannedStep ==
    ASSUME ReadsInv, [Next]_vars
    PROVE  SpannedCovers'
<1>1. Base /\ TypeOK
  BY DEF ReadsInv, Base
<1>2. CASE TakesIn
  <2>1. /\ past'.spanned = IF store.generation = sync.generation
                           THEN sync.during \cap DOMAIN call.stage ELSE past.spanned
        /\ sync.at = "answered"
        /\ store'.stale = (store.stale /\ store.generation # sync.generation)
        /\ call' = call
    <3>1. call' = call
      BY <1>2 DEF TakesIn
    <3>. QED
      BY <1>1, <1>2, <3>1, TakenInPast, TakesInDoes
  <2>2. CASE store.generation = sync.generation
    BY <2>1, <2>2 DEF ReadsInv, DuringIsUnderWay, SpannedCovers
  <2>3. CASE store.generation # sync.generation
    <3>1. store.token # NONE \/ store.stale
      BY <2>1, <2>3 DEF ReadsInv, NeverSynced
    <3>. QED
      BY <2>1, <2>3, <3>1 DEF ReadsInv, SpannedCovers, ReadsUnsynced
  <2>. QED
    BY <2>2, <2>3
<1>3. CASE Forget
  BY <1>1, <1>3, ForgetDoes DEF SpannedCovers, ReadsUnsynced
<1>4. CASE BeginCall /\ store'.stale = TRUE
  BY <1>4 DEF SpannedCovers, ReadsUnsynced
<1>5. CASE /\ ~TakesIn /\ ~Forget /\ store'.stale \in {TRUE, store.stale} /\ store'.token = store.token
           /\ DOMAIN call'.stage \subseteq DOMAIN call.stage
  <2>1. past'.spanned = past.spanned
    BY <1>1, <1>5, PastKept
  <2>. QED
    BY <1>5, <2>1 DEF ReadsInv, SpannedCovers, ReadsUnsynced
<1>. QED
  BY <1>1, <1>2, <1>3, <1>4, <1>5, StaleSteps

LEMMA NeverSyncedStep ==
    ASSUME ~ForgetsAnytime, ReadsInv, [Next]_vars
    PROVE  NeverSynced'
<1>1. Base /\ TypeOK /\ sync \in Syncs
  BY DEF ReadsInv, Base, TypeOK
<1>2. CASE TakesIn
  <2>1. store'.token = sync.next /\ sync.next \in Numbers
    BY <1>1, <1>2, TakesInDoes DEF Syncs
  <2>. QED
    BY <2>1, KeysAssumption DEF NeverSynced, Numbers
<1>3. CASE Forget
  <2>1. DOMAIN call'.stage = {} /\ sync'.at = "idle"
    BY <1>3, EmptySeq, NoSyncIs DEF Forget, NoCall
  <2>. QED
    BY <2>1 DEF NeverSynced
<1>4. CASE BeginCall /\ store'.stale = TRUE
  BY <1>4 DEF NeverSynced
<1>5. CASE \E k \in DOMAIN call.stage : End(k) /\ store'.stale = store.stale /\ store'.token = store.token
  BY <1>5 DEF ReadsInv, NeverSynced
<1>6. CASE /\ store'.stale \in {TRUE, store.stale} /\ store'.generation = store.generation
           /\ store'.token = store.token /\ DOMAIN call'.stage = DOMAIN call.stage
  <2>. SUFFICES ASSUME ~store'.stale, store'.token = NONE
       PROVE  DOMAIN call'.stage = {} /\ (sync'.at # "idle" => sync'.generation = store'.generation)
    BY DEF NeverSynced
  <2>1. DOMAIN call.stage = {} /\ (sync.at # "idle" => sync.generation = store.generation)
    BY <1>6 DEF ReadsInv, NeverSynced
  <2>2. CASE SyncBegins
    BY <1>1, <1>6, <2>1, <2>2, BeginsDoes
  <2>3. CASE SyncAsks \/ \E items \in [Events -> 0 .. clock] : SyncLists(items)
    <3>1. sync'.generation = sync.generation /\ sync.at # "idle"
      BY <1>1, <2>3, AsksDoes, ListsDoes
    <3>. QED
      BY <1>6, <2>1, <3>1
  <2>4. CASE SyncFails \/ TakesIn
    <3>1. sync' = NoSync
      BY Zenon, <2>4 DEF SyncFails, TakesIn
    <3>. QED
      BY <1>6, <2>1, <3>1, NoSyncIs
  <2>5. CASE UNCHANGED sync
    BY <1>6, <2>1, <2>5
  <2>. QED
    BY <1>1, <2>2, <2>3, <2>4, <2>5, SyncKept
<1>. QED
  BY <1>1, <1>2, <1>3, <1>4, <1>5, <1>6, StaleSteps

LEMMA AllReadStep ==
    ASSUME ReadsInv, [Next]_vars
    PROVE  AllRead'
<1>1. Base /\ TypeOK /\ AnswerOfFeed /\ MadeInOrder
  BY DEF ReadsInv, Base
<1>2. \A e \in Events : \A i \in 1 .. Len(made[e]) : made[e][i].at \in Nat
  <2>. SUFFICES ASSUME NEW e \in Events, NEW i \in 1 .. Len(made[e]) PROVE made[e][i].at \in Nat
    OBVIOUS
  <2>1. made[e] \in Seq(Version)
    BY <1>1 DEF TypeOK
  <2>2. made[e][i] \in Version
    BY <2>1, ElementOfSeq
  <2>. QED
    BY <2>2 DEF Version
<1>3. CASE TakesIn
  <2>1. /\ past'.read = sync.asked
        /\ past'.spanned = IF store.generation = sync.generation
                           THEN sync.during \cap DOMAIN call.stage ELSE past.spanned
        /\ sync.at = "answered"
        /\ store'.stale = (store.stale /\ store.generation # sync.generation)
        /\ made' = made
    <3>1. made' = made
      BY <1>3 DEF TakesIn, Calendar
    <3>. QED
      BY <1>1, <1>3, <3>1, TakenInPast, TakesInDoes
  <2>2. past.read <= sync.asked /\ past.read \in Nat /\ sync.asked \in Nat
    BY <1>1, <2>1 DEF AnswerOfFeed, TypeOK, Syncs
  <2>. SUFFICES ASSUME ReadsUnsynced', NEW e \in Events, NEW i \in 1 .. Len(made[e]),
                       made[e][i].by \in Keys \ past'.spanned
       PROVE made[e][i].at <= sync.asked
    BY <2>1 DEF AllRead, Latest
  <2>3. made[e][i].at \in Nat
    BY <1>2
  <2>4. CASE store.generation = sync.generation
    <3>1. past'.spanned = DOMAIN call.stage
      BY <2>1, <2>4 DEF ReadsInv, DuringIsUnderWay
    <3>2. ~(made[e][i].at > sync.asked)
      BY <2>1, <2>4, <3>1 DEF ReadsInv, MadeSinceAsked, Latest
    <3>. QED
      BY <2>2, <2>3, <3>2
  <2>5. CASE store.generation # sync.generation
    <3>1. ~store.stale
      BY <2>1, <2>5 DEF ReadsUnsynced
    <3>2. ReadsUnsynced
      BY <2>1, <2>5, <3>1 DEF ReadsInv, NeverSynced, ReadsUnsynced
    <3>3. made[e][i].at <= past.read
      BY <2>1, <2>5, <3>2 DEF ReadsInv, AllRead, Latest
    <3>. QED
      BY <2>2, <2>3, <3>3
  <2>. QED
    BY <2>4, <2>5
<1>4. CASE Forget
  BY <1>1, <1>4, ForgetDoes DEF AllRead, ReadsUnsynced
<1>5. CASE BeginCall /\ store'.stale = TRUE
  BY <1>5 DEF AllRead, ReadsUnsynced
<1>6. CASE ~TakesIn /\ store'.stale \in {TRUE, store.stale} /\ store'.token = store.token
  <2>1. past'.read = past.read /\ past'.spanned = past.spanned
    BY <1>1, <1>6, PastKept
  <2>. SUFFICES ASSUME ReadsUnsynced', NEW e \in Events, NEW i \in 1 .. Len(made'[e]),
                       made'[e][i].by \in Keys \ past.spanned
       PROVE made'[e][i].at <= past.read
    BY <2>1 DEF AllRead, Latest
  <2>2. ReadsUnsynced
    BY <1>6 DEF ReadsUnsynced
  <2>3. made'[e][i].by \notin DOMAIN call.stage
    BY <2>2 DEF ReadsInv, SpannedCovers
  <2>4. i \in 1 .. Len(made[e]) /\ made'[e][i] = made[e][i]
    BY <1>1, <2>3, MadeOrNew
  <2>. QED
    BY <2>2, <2>4 DEF ReadsInv, AllRead, Latest
<1>. QED
  BY <1>1, <1>3, <1>4, <1>5, <1>6, StaleSteps

LEMMA ReadsStep == ~ForgetsAnytime /\ ReadsInv /\ [Next]_vars => ReadsInv'
BY BaseStep, DuringStep, MadeSinceStep, SpannedStep, NeverSyncedStep, AllReadStep DEF ReadsInv

LEMMA ReadsInit == Init => ReadsInv
<1>. SUFFICES ASSUME Init PROVE ReadsInv
  OBVIOUS
<1>1. DOMAIN call.stage = {} /\ sync.at = "idle" /\ sync.generation = 0
  BY EmptySeq, NoSyncIs DEF Init, NoCall
<1>2. store.token = NONE /\ store.generation = 0
  BY EmptyStore DEF Init, Empty
<1>. QED
  BY <1>1, <1>2, BaseInit DEF ReadsInv, DuringIsUnderWay, MadeSinceAsked, SpannedCovers, NeverSynced, AllRead, ReadsUnsynced

\* What's read without a sync was asked for after every write was made, but for
\* one under way all through the sync that cleared stale, as long as the
\* calendar isn't forgotten under a sync.
THEOREM ReadsAreAfterWrites ==
    ASSUME ~ForgetsAnytime
    PROVE  Spec => []ReadsAfterWrites
<1>1. ReadsInv /\ [Next]_vars => ReadsInv'
  BY ReadsStep
<1>2. ReadsInv => ReadsAfterWrites
  <2>. SUFFICES ASSUME ReadsInv, ReadsUnsynced, NEW v \in ServerMade, made[v[1]][v[2]].by \notin past.spanned
       PROVE made[v[1]][v[2]].at <= past.read
    BY DEF ReadsAfterWrites
  <2>1. made[v[1]][v[2]].by \in Keys
    BY DEF ServerMade
  <2>2. v[1] \in Events /\ v[2] \in 1 .. Latest(v[1])
    BY DEF ServerMade
  <2>. QED
    BY <2>1, <2>2 DEF ReadsInv, AllRead
<1>. QED
  BY <1>1, <1>2, ReadsInit, PTL DEF Spec

----------------------------------------------------------------------------
(* What's warned of *)

\* A sync answered has got as far as the token kept at least.
NextPastToken ==
    sync.at = "answered" /\ store.token # NONE => \A e \in Events : store.token[e] <= sync.next[e]

\* What the last listing's newest was made at is no later than what a listing
\* has shown since.
ListedShown ==
    store.listed > 0 => \E e \in Events : shown[e] > 0 /\ store.listed <= made[e][shown[e]].at

\* A write that's over and was answered was the last to its event.
EtagIsLast ==
    \A e \in Events : store.written[e].etag > 0 /\ e \notin DOMAIN call.stage =>
        \A i \in 1 .. Latest(e) : made[e][i].by = e => i <= store.written[e].etag

\* The token is past version i of e, or the last listing's newest is.
PastToken(e, i) == store.token # NONE /\ i <= store.token[e]
SyncedOrListed(e, i) == PastToken(e, i) \/ made[e][i].at <= store.listed

\* A mark that's old is for versions the feed has got to; one that holds no
\* longer, or is gone, for versions taken in.
MarkDone(k, e, i) ==
    LET mark == store.written[k]
    IN  mark.writing = 0 =>
          /\ mark.age = "old" => Reached(e, i) /\ (mark.syncsAfter = MARK_SYNCS => PastToken(e, i))
          /\ mark.age = "expired" => PastToken(e, i)
          /\ mark.age = "never" => SyncedOrListed(e, i)
MarksDone ==
    ~past.forgot =>
        \A k \in Keys, e \in Events : \A i \in 1 .. Latest(e) :
            made[e][i].by \in Keys /\ k \in KeysOf(made[e][i].by) => MarkDone(k, e, i)

\* OwnNotWarned, of the versions there are.
WarnedOfOthers ==
    ~past.forgot => \A w \in store.outside : w[2] \in 1 .. Latest(w[1]) /\ made[w[1]][w[2]].by \notin Keys

\* What was never written to has no mark, answer or end, and is kept as syncs brought it.
CallIsWritten == \A k \in DOMAIN call.stage : KeysOf(k) \subseteq past.written
Unwritten ==
    /\ \A k \in Keys \ past.written : store.written[k].writing = 0 /\ store.written[k].age = "never"
    /\ \A e \in Events \ past.written : store.answers[e] = NoAnswer
    /\ \A e \in store.ended : SeriesOf[e] \in Events \cap past.written
KeptAsBrought ==
    \A e \in Events \ past.written :
        store.events[e] > 0 => store.events[e] <= Latest(e) /\ SyncedOrListed(e, store.events[e])

\* An event's later versions were made later.
LEMMA InOrder ==
    ASSUME NEW m \in Seq(Version), \A i \in 1 .. Len(m) : \A j \in 1 .. i - 1 : m[j].at < m[i].at,
           NEW i \in 1 .. Len(m), NEW j \in 1 .. Len(m)
    PROVE  /\ m[i] \in Version /\ m[i].at \in Nat /\ m[j].at \in Nat
           /\ i <= j => m[i].at <= m[j].at
           /\ m[i].at < m[j].at => i < j
<1>1. Len(m) \in Nat /\ i \in Int /\ j \in Int /\ 1 <= i /\ 1 <= j
  BY LenProperties
<1>2. m[i] \in Version /\ m[j] \in Version
  BY ElementOfSeq
<1>3. m[i].at \in Nat /\ m[j].at \in Nat
  BY <1>2 DEF Version
<1>4. i < j => m[i].at < m[j].at
  <2>1. i < j => i \in 1 .. j - 1
    BY <1>1
  <2>. QED
    BY <2>1
<1>5. j < i => m[j].at < m[i].at
  <2>1. j < i => j \in 1 .. i - 1
    BY <1>1
  <2>. QED
    BY <2>1
<1>6. CASE i = j
  BY <1>2, <1>3, <1>6
<1>7. CASE i < j
  BY <1>1, <1>2, <1>3, <1>4, <1>7
<1>8. CASE j < i
  BY <1>1, <1>2, <1>3, <1>5, <1>8
<1>. QED
  BY <1>1, <1>6, <1>7, <1>8

LEMMA LaterIsNewer ==
    ASSUME Base, NEW e \in Events, NEW i \in 1 .. Latest(e), NEW j \in 1 .. Latest(e)
    PROVE  /\ made[e][i] \in Version /\ made[e][i].at \in Nat /\ made[e][j].at \in Nat
           /\ i <= j => made[e][i].at <= made[e][j].at
           /\ made[e][i].at < made[e][j].at => i < j
<1>1. made[e] \in Seq(Version) /\ i \in 1 .. Len(made[e]) /\ j \in 1 .. Len(made[e])
  BY DEF Base, TypeOK, Latest
<1>2. \A x \in 1 .. Len(made[e]) : \A y \in 1 .. x - 1 : made[e][y].at < made[e][x].at
  BY DEF Base, MadeInOrder, Latest
<1>. QED
  BY <1>1, <1>2, InOrder

\* Only a listing moves what listings have shown, and only forwards.
LEMMA ShownGrows ==
    ASSUME Base, [Next]_vars, NEW e \in Events
    PROVE  shown[e] \in Nat /\ shown'[e] \in Nat /\ shown[e] <= shown'[e] /\ shown'[e] <= Latest(e)'
<1>1. TypeOK /\ shown \in Numbers
  BY DEF Base, TypeOK
<1>2. shown' \in Numbers /\ FeedBehind'
  BY FeedSteps
<1>3. CASE \E items \in [Events -> 0 .. clock] : SyncLists(items)
  <2>1. PICK items \in [Events -> 0 .. clock] : SyncLists(items)
    BY <1>3
  <2>2. shown' = items /\ shown[e] <= items[e]
    BY <1>1, <2>1, ListsDoes
  <2>. QED
    BY <1>1, <1>2, <2>2 DEF Numbers, FeedBehind
<1>4. CASE UNCHANGED shown
  BY <1>1, <1>2, <1>4 DEF Numbers, FeedBehind
<1>5. (CalendarStep \/ MarkStale \/ Forget \/ LoseAnswers \/ (\E k \in Keys : MarkAges(k)) \/ UNCHANGED vars)
      => UNCHANGED shown
  BY Zenon DEF CalendarStep, OutsideChanges, FeedMoves, LoseAnswers, MarkStale, Forget, MarkAges, Becomes, vars, Calendar
<1>6. (BeginCall \/ SyncBegins \/ SyncAsks \/ SyncFails \/ TakesIn) => UNCHANGED shown
  BY Zenon DEF BeginCall, Begin, SyncBegins, SyncAsks, SyncFails, TakesIn, Calendar
<1>7. (\E k \in DOMAIN call.stage : CalendarMakes(k) \/ CalendarRefuses(k) \/ WriteFails(k) \/ NoteAnswer(k)
         \/ RefreshStale(k) \/ End(k)) => UNCHANGED shown
  BY Zenon DEF CalendarMakes, CalendarRefuses, WriteFails, NoteAnswer, RefreshStale, End, Calendar
<1>. QED
  BY <1>3, <1>4, <1>5, <1>6, <1>7 DEF Next, CallStep, SyncStep

LEMMA NextPastTokenStep ==
    ASSUME NothingMissedInv, NextPastToken, [Next]_vars
    PROVE  NextPastToken'
<1>1. Base /\ TypeOK /\ TokenOfFeed
  BY DEF NothingMissedInv, Base
<1>2. CASE TakesIn
  <2>1. sync' = NoSync
    BY <1>2 DEF TakesIn
  <2>. QED
    BY <2>1, NoSyncIs DEF NextPastToken
<1>3. CASE Forget
  BY <1>1, <1>3, ForgetDoes DEF NextPastToken
<1>4. CASE ~TakesIn /\ ~Forget
  <2>1. store'.token = store.token
    BY <1>1, <1>4, OthersKeepEvents DEF KeepsSyncs
  <2>2. CASE SyncBegins
    BY <1>1, <2>2, BeginsDoes DEF NextPastToken
  <2>3. CASE SyncAsks \/ \E items \in [Events -> 0 .. clock] : SyncLists(items)
    <3>1. sync'.next = feed
      BY <1>1, <2>3, AsksDoes, ListsDoes
    <3>. QED
      BY <1>1, <2>1, <3>1 DEF NextPastToken, TokenOfFeed
  <2>4. CASE SyncFails
    BY <2>4, NoSyncIs DEF SyncFails, NextPastToken
  <2>5. CASE UNCHANGED sync
    BY <2>1, <2>5 DEF NextPastToken
  <2>. QED
    BY <1>1, <1>4, <2>2, <2>3, <2>4, <2>5, SyncKept
<1>. QED
  BY <1>2, <1>3, <1>4

\* The token, and what the last listing's newest was, only move on.
LEMMA TokenGrows ==
    ASSUME NothingMissedInv, NextPastToken, TakesIn
    PROVE  /\ store'.token = sync.next /\ store'.token # NONE /\ sync.next \in Numbers
           /\ store.token # NONE => /\ store.token \in Numbers
                                    /\ \A e \in Events : store.token[e] <= sync.next[e]
           /\ ~sync.full => store.token # NONE /\ sync.token = store.token
<1>1. Base /\ TypeOK /\ TokenOfFeed /\ AnswerOfFeed /\ sync.at = "answered"
  BY DEF NothingMissedInv, Base, TakesIn
<1>2. store'.token = sync.next
  BY <1>1, TakesInDoes
<1>3. sync.next \in Numbers /\ store.token \in Numbers \cup {NONE}
  BY <1>1 DEF TypeOK, Syncs, Store
<1>4. sync.next # NONE
  BY <1>3, KeysAssumption DEF Numbers
<1>5. sync.token = store.token
  BY <1>1 DEF TokenOfFeed
<1>. QED
  BY <1>1, <1>2, <1>3, <1>4, <1>5 DEF NextPastToken, AnswerOfFeed

LEMMA ListedGrows ==
    ASSUME Base, ListedShown, TakesIn
    PROVE  /\ store.listed \in Nat /\ store'.listed \in Nat /\ store.listed <= store'.listed
           /\ ~sync.full => store'.listed = store.listed
           /\ sync.full => \A e \in Events : sync.items[e] > 0 => made[e][sync.items[e]].at <= store'.listed
<1>1. TypeOK /\ MadeInOrder /\ AnswerOfFeed /\ FeedBehind /\ sync.at = "answered" /\ store.listed \in Nat
      /\ sync.items \in Numbers /\ shown \in Numbers
  BY DEF Base, TakesIn, TypeOK, Store, Syncs
<1>2. store'.listed = IF sync.full THEN Newest(sync.items) ELSE store.listed
  BY TakesInDoes
<1>3. CASE ~sync.full
  BY <1>1, <1>2, <1>3
<1>4. CASE sync.full
  <2>1. sync.items = shown /\ \A e \in Events : sync.items[e] <= Latest(e)
    BY <1>1, <1>4 DEF AnswerOfFeed
  <2>2. /\ Newest(sync.items) \in Nat
        /\ \A e \in Events : sync.items[e] > 0 => made[e][sync.items[e]].at <= Newest(sync.items)
    BY <1>1, <2>1, NewestDoes
  <2>3. store.listed <= Newest(sync.items)
    <3>1. CASE store.listed = 0
      BY <2>2, <3>1
    <3>2. CASE store.listed > 0
      <4>1. PICK e \in Events : shown[e] > 0 /\ store.listed <= made[e][shown[e]].at
        BY <3>2 DEF ListedShown
      <4>2. made[e][shown[e]].at <= Newest(sync.items)
        BY <2>1, <2>2, <4>1
      <4>3. shown[e] \in 1 .. Latest(e)
        <5>1. shown[e] \in Nat /\ shown[e] <= Latest(e) /\ Latest(e) \in Nat
          BY <1>1, <2>1, LenProperties DEF TypeOK, Latest, Numbers
        <5>. QED
          BY <4>1, <5>1
      <4>4. made[e][shown[e]].at \in Nat
        BY <4>3, LaterIsNewer
      <4>. QED
        BY <1>1, <2>2, <4>1, <4>2, <4>4
    <3>. QED
      BY <1>1, <3>1, <3>2
  <2>. QED
    BY <1>1, <1>2, <1>4, <2>2, <2>3
<1>. QED
  BY <1>3, <1>4

LEMMA ListedShownStep ==
    ASSUME Base, ListedShown, [Next]_vars
    PROVE  ListedShown'
<1>1. TypeOK /\ MadeInOrder /\ AnswerOfFeed /\ Base'
  BY BaseStep DEF Base
<1>2. CASE TakesIn /\ sync.full
  <2>1. sync.items = shown /\ store'.listed = Newest(sync.items) /\ sync.items \in Numbers
        /\ \A e \in Events : sync.items[e] <= Latest(e)
    <3>1. sync.at = "answered"
      BY <1>2 DEF TakesIn
    <3>2. store'.listed = Newest(sync.items)
      BY <1>2, TakesInDoes
    <3>. QED
      BY <1>1, <1>2, <3>1, <3>2 DEF AnswerOfFeed, TypeOK, Syncs
  <2>2. UNCHANGED <<made, shown>>
    BY <1>2 DEF TakesIn, Calendar
  <2>3. Newest(shown) \in Nat /\ (Newest(shown) = 0 \/ \E e \in Events : shown[e] > 0 /\ Newest(shown) = made[e][shown[e]].at)
    BY <1>1, <2>1, NewestDoes
  <2>. QED
    BY <2>1, <2>2, <2>3 DEF ListedShown
<1>3. CASE Forget
  BY <1>1, <1>3, ForgetDoes DEF ListedShown
<1>4. CASE ~Forget /\ ~(TakesIn /\ sync.full)
  <2>1. store'.listed = store.listed
    <3>1. CASE TakesIn
      BY <1>4, <3>1, TakesInDoes
    <3>2. CASE ~TakesIn
      BY <1>4, <3>2, OthersKeepEvents DEF KeepsSyncs
    <3>. QED
      BY <3>1, <3>2
  <2>. SUFFICES ASSUME store.listed > 0 PROVE ListedShown'
    BY <2>1 DEF ListedShown
  <2>2. PICK e \in Events : shown[e] > 0 /\ store.listed <= made[e][shown[e]].at
    BY DEF ListedShown
  <2>3. shown[e] \in Nat /\ shown'[e] \in Nat /\ shown[e] <= shown'[e] /\ shown'[e] <= Len(made'[e])
        /\ shown[e] <= Len(made[e])
    BY ShownGrows DEF Latest, Base, FeedBehind
  <2>4. /\ Len(made[e]) \in Nat /\ Len(made'[e]) \in Nat
        /\ \A i \in 1 .. Len(made[e]) : made'[e][i] = made[e][i]
    BY MadeSteps
  <2>5. made'[e][shown[e]] = made[e][shown[e]]
    BY <2>2, <2>3, <2>4
  <2>. DEFINE m == made'[e]
              i == shown[e]
              j == shown'[e]
  <2>6. m[i].at \in Nat /\ m[j].at \in Nat /\ m[i].at <= m[j].at
    <3>1. m \in Seq(Version)
      BY <1>1 DEF Base, TypeOK
    <3>2. i \in 1 .. Len(m) /\ j \in 1 .. Len(m) /\ i <= j
      BY <2>2, <2>3, <2>4
    <3>3. \A x \in 1 .. Len(m) : \A y \in 1 .. x - 1 : m[y].at < m[x].at
      BY <1>1 DEF Base, MadeInOrder, Latest
    <3>. HIDE DEF m, i, j
    <3>. QED
      BY <3>1, <3>2, <3>3, InOrder
  <2>7. shown'[e] > 0 /\ store'.listed <= made'[e][shown'[e]].at
    <3>1. store.listed \in Nat /\ store.listed <= m[i].at /\ j > 0
      BY <1>1, <2>2, <2>3, <2>5 DEF TypeOK, Store
    <3>2. store.listed <= m[j].at
      <4>. HIDE DEF m, i, j
      <4>. QED
        BY <2>6, <3>1
    <3>. QED
      BY <2>1, <3>1, <3>2
  <2>. QED
    BY <2>7 DEF ListedShown
<1>. QED
  BY <1>2, <1>3, <1>4

WarnBase == GoesOn /\ NothingMissedInv /\ NextPastToken /\ ListedShown

\* What's been synced or listed stays so, but for the calendar forgotten.
LEMMA PastTokenStays ==
    ASSUME WarnBase, [Next]_vars, ~Forget, NEW e \in Events, NEW i \in 1 .. Latest(e)
    PROVE  /\ PastToken(e, i) => store'.token # NONE /\ i <= store'.token[e]
           /\ SyncedOrListed(e, i) => \/ store'.token # NONE /\ i <= store'.token[e]
                                      \/ made'[e][i].at <= store'.listed
<1>1. Base /\ TypeOK /\ i \in 1 .. Len(made[e])
  BY DEF WarnBase, GoesOn, Base, Latest
<1>2. made'[e][i] = made[e][i]
  BY <1>1, MadeSteps
<1>3. CASE TakesIn
  <2>1. /\ store'.token = sync.next /\ store'.token # NONE /\ sync.next \in Numbers
        /\ store.token # NONE => store.token \in Numbers /\ store.token[e] <= sync.next[e]
    BY <1>3, TokenGrows DEF WarnBase
  <2>2. store.listed \in Nat /\ store'.listed \in Nat /\ store.listed <= store'.listed
    BY <1>1, <1>3, ListedGrows DEF WarnBase
  <2>3. made[e][i].at \in Nat
    BY <1>1, LaterIsNewer
  <2>4. PastToken(e, i) => i <= store'.token[e]
    <3>. SUFFICES ASSUME PastToken(e, i) PROVE i <= sync.next[e]
      BY <2>1
    <3>1. i <= store.token[e] /\ store.token[e] <= sync.next[e] /\ store.token[e] \in Nat /\ sync.next[e] \in Nat
      BY <2>1 DEF PastToken, Numbers
    <3>. QED
      BY <3>1
  <2>5. made[e][i].at <= store.listed => made'[e][i].at <= store'.listed
    BY <1>2, <2>2, <2>3
  <2>. QED
    BY <2>1, <2>4, <2>5 DEF SyncedOrListed
<1>4. CASE ~TakesIn
  <2>1. store'.token = store.token /\ store'.listed = store.listed
    BY <1>1, <1>4, OthersKeepEvents DEF KeepsSyncs
  <2>. QED
    BY <1>2, <2>1 DEF PastToken, SyncedOrListed
<1>. QED
  BY <1>3, <1>4

LEMMA EtagIsLastStep ==
    ASSUME GoesOn, EtagIsLast, [Next]_vars
    PROVE  EtagIsLast'
<1>1. Base /\ TypeOK /\ CallOK /\ WritingCounts /\ MadeByCall
  BY DEF GoesOn, Base, TypeOK
<1>2. ASSUME NEW e \in Events, store'.written[e].etag > 0, e \notin DOMAIN call'.stage,
             NEW i \in 1 .. Len(made'[e]), made'[e][i].by = e
      PROVE  i <= store'.written[e].etag
  <2>1. e \in Keys /\ e # All
    BY KeysAssumption DEF Keys
  <2>2. CASE e \in DOMAIN call.stage /\ End(e)
    <3>1. store.written[e].writing > 0 /\ e \in KeysOf(e)
      BY <1>1, <2>1, <2>2, KeysOfKeys, MarkedWhileWriting
    <3>2. store'.written[e].etag = EtagOf(e)
      BY <1>1, <2>1, <2>2, <3>1, EndDoes
    <3>3. call.stage[e] = "noted" /\ store'.written[e].etag = call.version[e]
      BY <1>2, <3>2 DEF EtagOf
    <3>4. made' = made
      BY <2>2 DEF End, Calendar
    <3>5. call.version[e] \in 1 .. Len(made[e]) /\ \A j \in call.version[e] + 1 .. Len(made[e]) : made[e][j].by # e
      BY <1>1, <2>1, <2>2, <3>3 DEF MadeByCall, Latest
    <3>6. Len(made[e]) \in Nat
      BY <1>1, MadeSteps
    <3>. QED
      BY <1>2, <3>3, <3>4, <3>5, <3>6
  <2>3. CASE ~(e \in DOMAIN call.stage /\ End(e))
    <3>1. store'.written[e].etag = store.written[e].etag
      BY <1>1, <1>2, <2>3, EtagStays
    <3>2. e \notin DOMAIN call.stage
      <4>1. SUFFICES ASSUME e \in DOMAIN call.stage PROVE FALSE
        OBVIOUS
      <4>2. call # NoCall
        BY <4>1, EmptySeq DEF NoCall
      <4>3. \E k \in DOMAIN call.stage : End(k)
        BY <1>1, <1>2, <4>1, <4>2, StagesKept
      <4>4. PICK k \in DOMAIN call.stage : End(k)
        BY <4>3
      <4>5. DOMAIN call'.stage = DOMAIN call.stage \ {k}
        BY <1>1, <4>4, EndDoes
      <4>. QED
        BY <1>2, <2>3, <4>1, <4>4, <4>5
    <3>3. i \in 1 .. Len(made[e]) /\ made'[e][i] = made[e][i]
      BY <1>1, <1>2, <2>1, <3>2, MadeOrNew
    <3>. QED
      BY <1>2, <3>1, <3>2, <3>3 DEF EtagIsLast, Latest
  <2>. QED
    BY <2>2, <2>3
<1>. QED
  BY <1>2 DEF EtagIsLast, Latest

\* A write's mark that comes back with its answer is of versions taken in.
LEMMA BackIsTakenIn ==
    ASSUME WarnBase, EtagIsLast, TakesIn, [Next]_vars, NEW k \in Events, sync.items[k] > 0, Back(store, k, sync.items[k]),
           NEW e \in Events, NEW i \in 1 .. Latest(e), made[e][i].by \in Keys, k \in KeysOf(made[e][i].by)
    PROVE  \/ store'.token # NONE /\ i <= store'.token[e]
           \/ made[e][i].at <= store'.listed
<1>1. Base /\ TypeOK /\ CallOK /\ WritingCounts /\ AnswerOfFeed /\ sync.at = "answered"
  BY DEF WarnBase, GoesOn, Base, TypeOK, TakesIn
<1>2. ~IsSeries(k) /\ store.written[k].writing = 0 /\ store.written[k].etag = sync.items[k]
  BY DEF Back
<1>3. made[e][i].by = k
  <2>1. k # All /\ All \notin Events
    BY KeysAssumption
  <2>2. \A j \in Events : SeriesOf[j] # k
    BY <1>2 DEF IsSeries
  <2>3. made[e][i].by # All
    BY <2>1 DEF KeysOf
  <2>4. made[e][i].by \in Events
    BY <2>3 DEF Keys
  <2>. QED
    BY <2>2, <2>3, <2>4 DEF KeysOf
<1>4. e = k
  <2>1. k \in {All, e, SeriesOf[e]}
    BY <1>1, <1>3 DEF Base, MadeInOrder, Keys
  <2>. QED
    BY <1>2, <2>1, KeysAssumption DEF IsSeries
<1>5. k \notin DOMAIN call.stage
  BY <1>1, <1>2, KeysOfKeys, MarkedWhileWriting DEF Keys
<1>6. i <= sync.items[k]
  BY <1>2, <1>3, <1>4, <1>5 DEF EtagIsLast
<1>7. store'.token = sync.next /\ store'.token # NONE
  BY TokenGrows DEF WarnBase
<1>8. sync.items[k] \in Nat /\ Latest(k) \in Nat /\ sync.items[k] <= Latest(k)
  BY <1>1, LenProperties DEF TypeOK, Syncs, Numbers, AnswerOfFeed, Latest
<1>9. CASE ~sync.full
  <2>1. sync.items[k] = sync.next[k]
    BY <1>1, <1>9 DEF AnswerOfFeed
  <2>. QED
    BY <1>4, <1>6, <1>7, <2>1
<1>10. CASE sync.full
  <2>1. made[k][sync.items[k]].at <= store'.listed /\ store'.listed \in Nat
    BY <1>1, <1>10, ListedGrows DEF WarnBase
  <2>2. sync.items[k] \in 1 .. Latest(k)
    BY <1>8
  <2>3. made[k][i].at \in Nat /\ made[k][sync.items[k]].at \in Nat /\ made[k][i].at <= made[k][sync.items[k]].at
    BY <1>1, <1>4, <1>6, <2>2, LaterIsNewer
  <2>. QED
    BY <1>4, <2>1, <2>3
<1>. QED
  BY <1>9, <1>10

LEMMA MarksDoneStep ==
    ASSUME WarnBase, EtagIsLast, MarksDone, [Next]_vars
    PROVE  MarksDone'
<1>1. Base /\ TypeOK /\ CallOK /\ WritingCounts /\ store \in Store
  BY DEF WarnBase, GoesOn, Base, TypeOK
<1>2. past'.forgot = (past.forgot \/ Forget)
  BY <1>1, PastSteps
<1>3. CASE past'.forgot
  BY <1>3 DEF MarksDone
<1>4. CASE ~past'.forgot
  <2>0. ~Forget /\ ~past.forgot
    BY <1>2, <1>4
  <2>. SUFFICES ASSUME NEW k \in Keys, NEW e \in Events, NEW i \in 1 .. Len(made'[e]),
                       made'[e][i].by \in Keys, k \in KeysOf(made'[e][i].by)
       PROVE  MarkDone(k, e, i)'
    BY DEF MarksDone, Latest
  <2>. DEFINE P == store'.token # NONE /\ i <= store'.token[e]
              Q == P \/ made'[e][i].at <= store'.listed
              R == i <= feed'[e] /\ (sync'.at = "answered" => i <= sync'.next[e])
  <2>1. SUFFICES ASSUME store'.written[k].writing = 0
                 PROVE  /\ store'.written[k].age = "old" => R /\ (store'.written[k].syncsAfter = MARK_SYNCS => P)
                        /\ store'.written[k].age = "expired" => P
                        /\ store'.written[k].age = "never" => Q
    BY DEF MarkDone, Reached, SyncedOrListed, PastToken
  <2>2. CASE made'[e][i].by \in DOMAIN call.stage /\ UNCHANGED <<store, sync, past>>
    <3>1. store.written[k].writing > 0
      BY <1>1, <2>2, MarkedWhileWriting
    <3>. QED
      BY <2>1, <2>2, <3>1
  <2>3. CASE i \in 1 .. Len(made[e]) /\ made'[e][i] = made[e][i]
    <3>0. i \in 1 .. Latest(e) /\ i \in Nat /\ made[e][i].by \in Keys /\ k \in KeysOf(made[e][i].by)
      BY <2>3 DEF Latest
    <3>1. MarkDone(k, e, i)
      BY <2>0, <3>0 DEF MarksDone
    <3>2. PastToken(e, i) => P
      BY <2>0, <3>0, PastTokenStays
    <3>3. SyncedOrListed(e, i) => Q
      BY <2>0, <3>0, PastTokenStays
    <3>4. Reached(e, i) => R
      BY <1>1, <3>0, ReachedStays
    <3>. HIDE DEF P, Q, R
    <3>5. CASE store'.written[k] = store.written[k] /\ ~TakesIn
      BY <2>1, <3>1, <3>2, <3>3, <3>4, <3>5 DEF MarkDone
    <3>6. CASE TakesIn
      <4>0. sync.at = "answered" /\ store'.token = sync.next /\ store'.token # NONE
        <5>1. sync.at = "answered"
          BY <3>6 DEF TakesIn
        <5>. QED
          BY <3>6, <5>1, TokenGrows DEF WarnBase
      <4>1. \/ /\ store'.written[k] = Unmarked /\ store.written[k].writing = 0
               /\ \/ store.written[k].age # "fresh"
                  \/ k \in Events /\ sync.items[k] > 0 /\ Back(store, k, sync.items[k])
            \/ /\ store'.written[k].writing = store.written[k].writing
               /\ store'.written[k].age = store.written[k].age
        BY <1>1, <3>6, TakesInDoes
      <4>2. Reached(e, i) => P
        BY <4>0 DEF Reached, P
      <4>3. store.written[k].age \in {"never", "fresh", "old", "expired"}
        BY <1>1 DEF Store, Mark, Ages
      <4>4. P => Q
        BY DEF Q
      <4>5. CASE k \in Events /\ sync.items[k] > 0 /\ Back(store, k, sync.items[k]) /\ store'.written[k] = Unmarked
        <5>1. \/ store'.token # NONE /\ i <= store'.token[e]
              \/ made[e][i].at <= store'.listed
          BY <3>0, <3>6, <4>5, BackIsTakenIn
        <5>2. Q
          BY <2>3, <5>1 DEF P, Q
        <5>. QED
          BY <4>5, <5>2 DEF Unmarked
      <4>6. CASE store'.written[k] = Unmarked /\ store.written[k].writing = 0 /\ store.written[k].age # "fresh"
        <5>1. Q
          BY <3>1, <3>2, <3>3, <4>2, <4>3, <4>4, <4>6 DEF MarkDone
        <5>. QED
          BY <4>6, <5>1 DEF Unmarked
      <4>7. CASE store'.written[k].writing = store.written[k].writing /\ store'.written[k].age = store.written[k].age
        BY <2>1, <3>1, <3>2, <3>3, <3>4, <4>2, <4>7 DEF MarkDone
      <4>. QED
        BY <4>1, <4>5, <4>6, <4>7
    <3>7. CASE BeginCall
      <4>1. PICK kind \in {"edit", "delete", "end", "label"}, keys \in SUBSET Keys : Begin(kind, keys) /\ keys # {}
        BY <1>1, <3>7, BeginCallKinds
      <4>2. MarksBegun(keys)
        BY <1>1, <4>1, BeginDoes
      <4>3. /\ store'.written[k].writing = store.written[k].writing + WritesOf(keys, k)
            /\ WritesOf(keys, k) \in Nat
            /\ WritesOf(keys, k) = 0 => store'.written[k] = store.written[k]
        BY <4>2 DEF MarksBegun
      <4>4. store.written[k].writing \in Nat
        BY <1>1 DEF Store, Mark
      <4>5. store'.written[k] = store.written[k]
        <5>. DEFINE a == store'.written[k].writing
                    b == store.written[k].writing
                    c == WritesOf(keys, k)
        <5>1. a = 0 /\ a = b + c /\ b \in Nat /\ c \in Nat
          BY <2>1, <4>3, <4>4
        <5>2. c = 0
          <6>. HIDE DEF a, b, c
          <6>. QED
            BY <5>1
        <5>. QED
          BY <4>3, <5>2
      <4>. QED
        BY <3>5, <3>6, <4>5
    <3>8. CASE \E j \in DOMAIN call.stage : End(j)
      <4>1. PICK j \in DOMAIN call.stage : End(j)
        BY <3>8
      <4>2. IF k \in KeysOf(j) /\ store.written[k].writing > 0
            THEN store'.written[k].age = "fresh"
            ELSE k \in KeysOf(j) \/ store'.written[k] = store.written[k]
        BY <1>1, <4>1, EndDoes
      <4>3. k \in KeysOf(j) => store.written[k].writing > 0
        BY <1>1, MarkedWhileWriting
      <4>. QED
        BY <3>5, <3>6, <4>2, <4>3
    <3>9. CASE \E j \in Keys : MarkAges(j)
      <4>1. PICK j \in Keys : MarkAges(j)
        BY <3>9
      <4>2. MarkAged(j)
        BY <1>1, <4>1, AgesDo
      <4>3. CASE j # k
        BY <3>5, <3>6, <4>2, <4>3 DEF MarkAged
      <4>4. CASE j = k
        <5>. DEFINE w == <<e, i>>
        <5>1. w \in MarkedFor(k) /\ w[1] = e /\ w[2] = i
          BY <3>0 DEF MarkedFor
        <5>. HIDE DEF w
        <5>2. store'.written[k].syncsAfter = store.written[k].syncsAfter /\ store.written[k].writing = 0
          BY <1>1, <4>1, <4>2, <4>4, AgesDo DEF MarkAged
        <5>3. CASE PromptFeed(k) /\ store'.written[k].age = "old"
          <6>1. Reached(e, i) /\ (store.written[k].syncsAfter = MARK_SYNCS => PastToken(e, i))
            BY <5>1, <5>3 DEF PromptFeed, Reached, PastToken
          <6>. QED
            BY <3>2, <3>4, <5>2, <5>3, <6>1
        <5>4. CASE SyncedByThen(k) /\ store'.written[k].age = "expired"
          <6>1. PastToken(e, i)
            BY <5>1, <5>4 DEF SyncedByThen, PastToken
          <6>. QED
            BY <3>2, <5>4, <6>1
        <5>. QED
          BY <4>2, <4>4, <5>3, <5>4 DEF MarkAged
      <4>. QED
        BY <4>3, <4>4
    <3>10. CASE KeepsMarks
      BY <3>5, <3>6, <3>10 DEF KeepsMarks
    <3>. QED
      BY <1>1, <2>0, <3>6, <3>7, <3>8, <3>9, <3>10, MarksKept
  <2>. QED
    BY <1>1, <2>2, <2>3, MadeOrNew
<1>. QED
  BY <1>3, <1>4

LEMMA WarnedOfOthersStep ==
    ASSUME WarnBase, MarksDone, WarnedOfOthers, [Next]_vars
    PROVE  WarnedOfOthers'
<1>1. Base /\ TypeOK /\ store \in Store /\ MadeInOrder /\ AnswerOfFeed
  BY DEF WarnBase, GoesOn, Base, TypeOK
<1>2. past'.forgot = (past.forgot \/ Forget)
  BY <1>1, PastSteps
<1>3. CASE past'.forgot
  BY <1>3 DEF WarnedOfOthers
<1>4. CASE ~past'.forgot
  <2>0. ~Forget /\ ~past.forgot
    BY <1>2, <1>4
  <2>. SUFFICES ASSUME NEW w \in store'.outside
       PROVE  w[2] \in 1 .. Len(made'[w[1]]) /\ made'[w[1]][w[2]].by \notin Keys
    BY DEF WarnedOfOthers, Latest
  <2>1. CASE w \in store.outside
    <3>1. w[1] \in Events
      BY <1>1, <2>1 DEF Store
    <3>2. w[2] \in 1 .. Len(made[w[1]]) /\ made[w[1]][w[2]].by \notin Keys
      BY <2>0, <2>1 DEF WarnedOfOthers, Latest
    <3>3. /\ Len(made[w[1]]) \in Nat /\ Len(made'[w[1]]) \in Nat /\ Len(made[w[1]]) <= Len(made'[w[1]])
          /\ \A i \in 1 .. Len(made[w[1]]) : made'[w[1]][i] = made[w[1]][i]
      BY <1>1, <3>1, MadeSteps
    <3>. QED
      BY <3>2, <3>3
  <2>2. CASE w \notin store.outside
    <3>1. TakesIn
      <4>1. ~TakesIn => store'.outside = store.outside
        BY <1>1, <2>0, OthersKeepEvents DEF KeepsSyncs
      <4>. QED
        BY <2>2, <4>1
    <3>2. PICK e \in Events :
            /\ w = <<e, sync.items[e]>> /\ sync.items[e] > 0 /\ ~sync.full
            /\ ChangedSinceListed(store, e, sync.items[e]) /\ ~IsOurs(store, e)
      BY <1>1, <2>2, <3>1, TakesInDoes
    <3>. DEFINE i == sync.items[e]
    <3>3. w[1] = e /\ w[2] = i
      BY <3>2
    <3>4. i \in 1 .. Latest(e) /\ i \in Nat
      <4>1. i \in Nat /\ i <= Latest(e) /\ i > 0
        BY <1>1, <3>1, <3>2 DEF TypeOK, Syncs, Numbers, AnswerOfFeed, TakesIn
      <4>2. Latest(e) \in Nat
        BY <1>1, LenProperties DEF TypeOK, Latest
      <4>. QED
        BY <4>1, <4>2
    <3>5. made' = made
      BY <3>1 DEF TakesIn, Calendar
    <3>6. store.token # NONE /\ store.token[e] < i /\ store.token[e] \in Nat
      <4>1. store.token # NONE /\ sync.token = store.token /\ store.token \in Numbers
        BY <3>1, <3>2, TokenGrows DEF WarnBase
      <4>2. i = IF sync.next[e] > sync.token[e] THEN sync.next[e] ELSE 0
        BY <1>1, <3>1, <3>2 DEF AnswerOfFeed, TakesIn
      <4>3. sync.next[e] \in Nat
        BY <1>1 DEF TypeOK, Syncs, Numbers
      <4>. QED
        BY <3>2, <4>1, <4>2, <4>3 DEF Numbers
    <3>7. made[e][i].at > store.listed /\ made[e][i].at \in Nat /\ store.listed \in Nat
      BY <1>1, <3>2, <3>4, LaterIsNewer DEF ChangedSinceListed, Store
    <3>8. made[e][i].by \notin Keys
      <4>. SUFFICES ASSUME made[e][i].by \in Keys PROVE FALSE
        OBVIOUS
      <4>. DEFINE k == made[e][i].by
      <4>1. k \in {All, e, SeriesOf[e]}
        BY <1>1, <3>4 DEF MadeInOrder
      <4>2. k \in Keys /\ k \in KeysOf(k)
        BY KeysOfKeys
      <4>3. k \in {All} \cup KeysOf(e)
        BY <4>1, <4>2, KeysAssumption DEF KeysOf, Keys
      <4>4. ~Holds(store.written[k])
        BY <3>2, <4>3 DEF IsOurs
      <4>5. MarkDone(k, e, i)
        BY <2>0, <3>4, <4>2 DEF MarksDone
      <4>. HIDE DEF k
      <4>6. store.written[k] \in Mark
        BY <1>1, <4>2 DEF Store
      <4>7. /\ store.written[k].writing = 0
            /\ \/ store.written[k].age \in {"never", "expired"}
               \/ store.written[k].age = "old" /\ store.written[k].syncsAfter = MARK_SYNCS
        BY <4>4, <4>6 DEF Holds, Mark, Ages, MARK_SYNCS
      <4>8. SyncedOrListed(e, i)
        BY <4>5, <4>7 DEF MarkDone, SyncedOrListed
      <4>. QED
        BY <3>4, <3>6, <3>7, <4>8 DEF SyncedOrListed, PastToken
    <3>. QED
      BY <3>3, <3>4, <3>5, <3>8 DEF Latest
  <2>. QED
    BY <2>1, <2>2
<1>. QED
  BY <1>3, <1>4

\* Which steps change what's kept of events, or end series, but for syncs taken in.
LEMMA EventsKept ==
    ASSUME Base, CallIsWritten, [Next]_vars, ~TakesIn, ~Forget
    PROVE  /\ \A e \in Events \ past.written : store'.events[e] = store.events[e]
           /\ \A e \in store'.ended : e \in store.ended \/ SeriesOf[e] \in Events \cap past.written
<1>1. TypeOK /\ CallOK /\ store \in Store
  BY DEF Base, TypeOK
<1>2. CASE BeginCall
  <2>1. PICK kind \in {"edit", "delete", "end", "label"}, keys \in SUBSET Keys : Begin(kind, keys) /\ keys # {}
    BY <1>1, <1>2, BeginCallKinds
  <2>. QED
    BY <1>1, <2>1, BeginDoes DEF KeepsEvents
<1>3. CASE MarkStale
  BY <1>1, <1>3 DEF MarkStale, Store
<1>4. CASE \E k \in DOMAIN call.stage : NoteAnswer(k)
  <2>1. PICK k \in DOMAIN call.stage : NoteAnswer(k)
    BY <1>4
  <2>2. CASE k = All
    BY <2>1, <2>2 DEF NoteAnswer
  <2>3. CASE k # All
    <3>1. k \in Events
      BY <1>1, <2>3 DEF CallOK
    <3>2. k \in past.written
      BY <3>1, KeysOfKeys DEF CallIsWritten, Keys
    <3>3. /\ \A e \in Events : e # k => store'.events[e] = store.events[e]
          /\ \A e \in store'.ended : e \in store.ended \/ SeriesOf[e] = k
      BY <1>1, <2>1, <2>3, NoteDoes
    <3>. QED
      BY <3>1, <3>2, <3>3
  <2>. QED
    BY <2>2, <2>3
<1>5. CASE \E k \in DOMAIN call.stage : RefreshStale(k)
  <2>1. PICK k \in DOMAIN call.stage : RefreshStale(k)
    BY <1>5
  <2>2. store'.ended = store.ended
    BY <1>1, <2>1, RefreshDoes
  <2>3. PICK e \in KeysOf(k) :
          /\ e \in Events
          /\ store'.events = store.events
               \/ store'.events = [store.events EXCEPT ![e] = IF store.events[e] > Latest(e) THEN store.events[e]
                                                             ELSE Latest(e)]
    BY <1>1, <2>1, RefreshDoes
  <2>4. e \in past.written
    BY <2>3 DEF CallIsWritten
  <2>5. \A x \in Events : x # e => store'.events[x] = store.events[x]
    BY <1>1, <2>3 DEF Store, Numbers
  <2>. QED
    BY <2>2, <2>4, <2>5
<1>6. CASE \E k \in DOMAIN call.stage : End(k)
  BY <1>1, <1>6, EndDoes DEF KeepsEvents
<1>7. CASE SyncBegins
  BY <1>1, <1>7, BeginsDoes DEF Store
<1>8. CASE \E k \in Keys : MarkAges(k)
  BY <1>1, <1>8, AgesDo DEF KeepsEvents
<1>9. CASE UNCHANGED store
  BY <1>9
<1>10. (CalendarStep \/ LoseAnswers \/ UNCHANGED vars) => UNCHANGED store
  BY DEF CalendarStep, OutsideChanges, FeedMoves, LoseAnswers, vars
<1>11. (SyncAsks \/ SyncFails) => UNCHANGED store
  BY Zenon DEF SyncAsks, SyncFails
<1>12. (\E items \in [Events -> 0 .. clock] : SyncLists(items)) => UNCHANGED store
  BY Zenon DEF SyncLists
<1>13. (\E k \in DOMAIN call.stage : CalendarMakes(k) \/ CalendarRefuses(k) \/ WriteFails(k)) => UNCHANGED store
  BY DEF CalendarMakes, CalendarRefuses, WriteFails
<1>. QED
  BY <1>2, <1>3, <1>4, <1>5, <1>6, <1>7, <1>8, <1>9, <1>10, <1>11, <1>12, <1>13 DEF Next, CallStep, SyncStep

LEMMA CallIsWrittenStep ==
    ASSUME Base, CallIsWritten, [Next]_vars
    PROVE  CallIsWritten'
<1>1. TypeOK /\ past.written \subseteq past'.written /\ past \in Pasts
  BY PastSteps DEF Base, TypeOK, Pasts
<1>2. CASE BeginCall
  <2>1. PICK kind \in {"edit", "delete", "end", "label"}, keys \in SUBSET Keys : Begin(kind, keys)
    BY <1>1, <1>2, BeginCallKinds
  <2>2. DOMAIN call'.stage = keys
    BY <2>1 DEF Begin
  <2>3. past' = [past EXCEPT !.written = past.written \cup UNION {KeysOf(k) : k \in keys}]
    BY <2>1 DEF Begin
  <2>4. UNION {KeysOf(k) : k \in keys} \subseteq past'.written
    BY <1>1, <2>3 DEF Pasts
  <2>. QED
    BY <2>2, <2>4 DEF CallIsWritten
<1>3. CASE DOMAIN call'.stage \subseteq DOMAIN call.stage
  BY <1>1, <1>3 DEF CallIsWritten
<1>4. ASSUME NEW k \in DOMAIN call.stage, End(k) PROVE DOMAIN call'.stage \subseteq DOMAIN call.stage
  BY <1>1, <1>4, EndDoes
<1>. QED
  BY <1>2, <1>3, <1>4, StagesKept

LEMMA UnwrittenStep ==
    ASSUME Base, CallIsWritten, Unwritten, [Next]_vars
    PROVE  Unwritten'
<1>1. TypeOK /\ store \in Store /\ past.written \subseteq past'.written /\ past \in Pasts
  BY PastSteps DEF Base, TypeOK, Pasts
<1>2. ASSUME NEW k \in Keys \ past'.written
      PROVE  store'.written[k].writing = 0 /\ store'.written[k].age = "never"
  <2>1. store.written[k].writing = 0 /\ store.written[k].age = "never"
    BY <1>1, <1>2 DEF Unwritten
  <2>2. CASE BeginCall
    <3>1. PICK kind \in {"edit", "delete", "end", "label"}, keys \in SUBSET Keys : Begin(kind, keys) /\ keys # {}
      BY <1>1, <2>2, BeginCallKinds
    <3>2. MarksBegun(keys)
      BY <1>1, <3>1, BeginDoes
    <3>3. past' = [past EXCEPT !.written = past.written \cup UNION {KeysOf(j) : j \in keys}]
      BY <3>1 DEF Begin
    <3>4. k \notin UNION {KeysOf(j) : j \in keys}
      BY <1>1, <1>2, <3>3 DEF Pasts
    <3>5. WritesOf(keys, k) = 0
      <4>1. {j \in keys : k \in KeysOf(j)} = {}
        BY <3>4
      <4>. QED
        BY <4>1, FS_EmptySet DEF WritesOf
    <3>. QED
      BY <2>1, <3>2, <3>5 DEF MarksBegun
  <2>3. CASE TakesIn
    <3>1. \/ store'.written[k] = Unmarked
          \/ /\ store'.written[k].writing = store.written[k].writing
             /\ store'.written[k].age = store.written[k].age
      BY <2>3, TakesInDoes
    <3>. QED
      BY <2>1, <3>1 DEF Unmarked
  <2>4. CASE Forget
    BY <1>1, <2>4, ForgetDoes DEF Unmarked
  <2>5. CASE \E j \in DOMAIN call.stage : End(j)
    <3>1. PICK j \in DOMAIN call.stage : End(j)
      BY <2>5
    <3>2. k \notin KeysOf(j)
      BY <1>1, <1>2 DEF CallIsWritten
    <3>3. store'.written[k] = store.written[k]
      BY <1>1, <3>1, <3>2, EndDoes
    <3>. QED
      BY <2>1, <3>3
  <2>6. CASE \E j \in Keys : MarkAges(j)
    <3>1. PICK j \in Keys : MarkAges(j)
      BY <2>6
    <3>2. MarkAged(j)
      BY <1>1, <3>1, AgesDo
    <3>. QED
      BY <2>1, <3>2 DEF MarkAged
  <2>7. CASE KeepsMarks
    BY <2>1, <2>7 DEF KeepsMarks
  <2>. QED
    BY <2>2, <2>3, <2>4, <2>5, <2>6, <2>7, MarksKept
<1>3. ASSUME NEW e \in Events \ past'.written PROVE store'.answers[e] = NoAnswer
  <2>1. store.answers[e] = NoAnswer
    BY <1>1, <1>3 DEF Unwritten
  <2>2. e \notin DOMAIN call.stage
    BY <1>1, <1>3, KeysOfKeys DEF CallIsWritten, Keys
  <2>. QED
    BY <2>1, <2>2, AnswersFall
<1>4. ASSUME NEW e \in store'.ended PROVE SeriesOf[e] \in Events \cap past'.written
  <2>1. CASE TakesIn
    <3>1. store'.ended = store.ended
      BY <2>1, TakesInDoes
    <3>. QED
      BY <1>1, <1>4, <3>1 DEF Unwritten
  <2>2. CASE Forget
    BY <1>1, <1>4, <2>2, ForgetDoes
  <2>3. CASE ~TakesIn /\ ~Forget
    <3>1. e \in store.ended \/ SeriesOf[e] \in Events \cap past.written
      BY <1>4, <2>3, EventsKept
    <3>. QED
      BY <1>1, <3>1 DEF Unwritten
  <2>. QED
    BY <2>1, <2>2, <2>3
<1>. QED
  BY <1>2, <1>3, <1>4 DEF Unwritten

LEMMA KeptAsBroughtStep ==
    ASSUME WarnBase, CallIsWritten, KeptAsBrought, [Next]_vars
    PROVE  KeptAsBrought'
<1>1. Base /\ TypeOK /\ store \in Store /\ AnswerOfFeed /\ past.written \subseteq past'.written
  BY PastSteps DEF WarnBase, GoesOn, Base, TypeOK
<1>2. \A e \in Events : /\ Len(made[e]) \in Nat /\ Len(made'[e]) \in Nat /\ Len(made[e]) <= Len(made'[e])
                     /\ \A i \in 1 .. Len(made[e]) : made'[e][i] = made[e][i]
  BY <1>1, MadeSteps
<1>3. CASE Forget
  <2>1. \A e \in Events : store'.events[e] = 0
    BY <1>1, <1>3, ForgetDoes DEF Nothing
  <2>. QED
    BY <2>1 DEF KeptAsBrought
<1>4. ASSUME NEW e \in Events \ past'.written, store'.events[e] > 0, ~Forget
      PROVE  /\ store'.events[e] <= Len(made'[e])
             /\ \/ store'.token # NONE /\ store'.events[e] <= store'.token[e]
                \/ made'[e][store'.events[e]].at <= store'.listed
  <2>0. store.events[e] \in Nat
    BY <1>1 DEF Store, Numbers
  <2>1. CASE store'.events[e] = store.events[e]
    <3>. DEFINE i == store.events[e]
    <3>1. i <= Len(made[e]) /\ SyncedOrListed(e, i)
      BY <1>1, <1>4, <2>1 DEF KeptAsBrought, Latest
    <3>2. i \in 1 .. Latest(e)
      BY <1>2, <1>4, <2>0, <2>1, <3>1 DEF Latest
    <3>3. \/ store'.token # NONE /\ i <= store'.token[e]
          \/ made'[e][i].at <= store'.listed
      BY <1>4, <3>1, <3>2, PastTokenStays
    <3>4. i <= Len(made'[e])
      BY <1>2, <2>0, <3>1
    <3>. QED
      BY <2>1, <3>3, <3>4
  <2>2. CASE TakesIn /\ store'.events[e] # store.events[e]
    <3>. DEFINE i == sync.items[e]
    <3>1. i > 0 /\ store'.events[e] = i
      <4>1. store'.events[e] = IF sync.items[e] > 0
                               THEN IF store.events[e] <= sync.items[e] THEN sync.items[e] ELSE store.events[e]
                               ELSE IF sync.full /\ ~IsOurs(store, e) THEN 0 ELSE store.events[e]
        BY <1>1, <2>2, TakesInDoes
      <4>. QED
        BY <1>4, <2>2, <4>1
    <3>2. sync.at = "answered" /\ made' = made
      BY <2>2 DEF TakesIn, Calendar
    <3>3. i <= Len(made[e]) /\ i \in Nat
      BY <1>1, <3>2 DEF AnswerOfFeed, Latest, TypeOK, Syncs, Numbers
    <3>4. CASE sync.full
      <4>1. made[e][i].at <= store'.listed
        BY <1>1, <2>2, <3>1, <3>4, ListedGrows DEF WarnBase
      <4>. QED
        BY <3>1, <3>2, <3>3, <4>1
    <3>5. CASE ~sync.full
      <4>1. i = IF sync.next[e] > sync.token[e] THEN sync.next[e] ELSE 0
        BY <1>1, <3>2, <3>5 DEF AnswerOfFeed
      <4>2. i = sync.next[e]
        BY <3>1, <4>1
      <4>3. store'.token = sync.next /\ store'.token # NONE
        BY <2>2, TokenGrows DEF WarnBase
      <4>. QED
        BY <3>1, <3>2, <3>3, <4>2, <4>3
    <3>. QED
      BY <3>4, <3>5
  <2>. QED
    BY <1>1, <1>4, <2>1, <2>2, EventsKept
<1>. QED
  BY <1>3, <1>4 DEF KeptAsBrought, SyncedOrListed, PastToken, Latest

\* What isn't a write's, nor the cancelling of what's cancelled, is warned of.
LEMMA OthersAreWarnedOf ==
    ASSUME WarnBase, Unwritten, KeptAsBrought, TakesIn, ~sync.full, NEW e \in Events, sync.items[e] > 0,
           made[e][sync.items[e]].at > store.listed, past.written \cap ({All} \cup KeysOf(e)) = {},
           Live(e, sync.items[e]) \/ \A j \in 1 .. sync.items[e] - 1 : Live(e, j)
    PROVE  <<e, sync.items[e]>> \in store'.outside
<1>. DEFINE i == sync.items[e]
<1>1. Base /\ TypeOK /\ store \in Store /\ AnswerOfFeed /\ sync.at = "answered"
  BY DEF WarnBase, GoesOn, Base, TypeOK, TakesIn
<1>2. e \in Keys \ past.written /\ e \in KeysOf(e) /\ All \in Keys
  BY KeysOfKeys DEF Keys
<1>3. i \in Nat /\ i > 0 /\ i <= Latest(e) /\ Latest(e) \in Nat
  BY <1>1, LenProperties DEF AnswerOfFeed, TypeOK, Syncs, Numbers, Latest
<1>4. ~IsOurs(store, e)
  <2>. SUFFICES ASSUME NEW k \in {All} \cup KeysOf(e) PROVE ~Holds(store.written[k])
    BY DEF IsOurs
  <2>1. k \in Keys \ past.written
    BY <1>2, KeysOfKeys
  <2>. QED
    BY <2>1 DEF Unwritten, Holds
<1>5. ~IsAnswer(store, e, i)
  <2>1. store.answers[e] = NoAnswer
    BY <1>2 DEF Unwritten
  <2>2. ~AnswerIs(store, e, i)
    BY <1>3, <2>1 DEF AnswerIs, NoAnswer
  <2>3. SeriesOf[e] # NONE => SeriesOf[e] \in Events \ past.written
    <3>. SUFFICES ASSUME SeriesOf[e] # NONE
         PROVE  SeriesOf[e] \in Events /\ SeriesOf[e] \notin past.written
      OBVIOUS
    <3>1. SeriesOf[e] \in KeysOf(e)
      BY KeysAssumption DEF KeysOf
    <3>2. SeriesOf[e] \in Events
      BY KeysOfKeys
    <3>. QED
      BY <3>1, <3>2
  <2>4. e \notin store.ended
    <3>1. e \in store.ended => SeriesOf[e] \in Events \cap past.written
      BY DEF Unwritten
    <3>2. SeriesOf[e] \in Events => SeriesOf[e] # NONE
      BY KeysAssumption
    <3>. QED
      BY <2>3, <3>1, <3>2
  <2>5. SeriesOf[e] # NONE => ~store.answers[SeriesOf[e]].deleted
    BY <2>3 DEF Unwritten, NoAnswer
  <2>. QED
    BY <2>2, <2>4, <2>5 DEF IsAnswer
<1>6. ~Restamped(store, e, i)
  <2>. DEFINE j == store.events[e]
  <2>. SUFFICES ASSUME ~Live(e, i), j > 0, ~Live(e, j) PROVE FALSE
    BY DEF Restamped
  <2>1. j \in Nat /\ j <= Latest(e) /\ SyncedOrListed(e, j)
    BY <1>1, <1>2 DEF KeptAsBrought, Store, Numbers
  <2>2. j \in 1 .. Latest(e) /\ i \in 1 .. Latest(e)
    BY <1>3, <2>1
  <2>3. j < i
    <3>1. CASE PastToken(e, j)
      <4>1. store.token \in Numbers /\ sync.token = store.token
        BY TokenGrows DEF WarnBase, PastToken
      <4>2. i = IF sync.next[e] > sync.token[e] THEN sync.next[e] ELSE 0
        BY <1>1 DEF AnswerOfFeed
      <4>3. j <= store.token[e] /\ store.token[e] \in Nat /\ sync.next[e] \in Nat
        BY <1>1, <3>1, <4>1 DEF PastToken, Numbers, TypeOK, Syncs
      <4>. QED
        BY <1>3, <2>1, <4>1, <4>2, <4>3
    <3>2. CASE made[e][j].at <= store.listed
      <4>1. made[e][j].at \in Nat /\ made[e][i].at \in Nat /\ store.listed \in Nat
        BY <1>1, <2>2, LaterIsNewer DEF Store
      <4>2. made[e][j].at < made[e][i].at
        BY <3>2, <4>1
      <4>. QED
        BY <1>1, <2>2, <4>2, LaterIsNewer
    <3>. QED
      BY <2>1, <3>1, <3>2 DEF SyncedOrListed
  <2>4. j \in 1 .. i - 1
    BY <1>3, <2>1, <2>3
  <2>. QED
    BY <2>4
<1>7. Warns(store, e, i)
  BY <1>4, <1>5, <1>6 DEF Warns, ChangedSinceListed
<1>. QED
  BY <1>1, <1>7, TakesInDoes

LEMMA OutsideIsWarnedStep ==
    ASSUME WarnBase, Unwritten, KeptAsBrought, OutsideIsWarned, [Next]_vars
    PROVE  OutsideIsWarned'
<1>1. Base /\ TypeOK /\ store \in Store /\ AnswerOfFeed /\ past.written \subseteq past'.written /\ TokenOfFeed /\ FeedBehind
  BY PastSteps DEF WarnBase, GoesOn, Base, TypeOK, NothingMissedInv
<1>2. CASE Forget
  BY <1>1, <1>2, ForgetDoes DEF OutsideIsWarned
<1>3. CASE TakesIn
  <2>1. /\ store'.token = sync.next /\ store'.token # NONE /\ sync.next \in Numbers
        /\ store.token # NONE => store.token \in Numbers /\ \A e \in Events : store.token[e] <= sync.next[e]
        /\ ~sync.full => store.token # NONE /\ sync.token = store.token
    BY <1>3, TokenGrows DEF WarnBase
  <2>2. /\ store.listed \in Nat /\ store'.listed \in Nat
        /\ ~sync.full => store'.listed = store.listed
        /\ sync.full => \A e \in Events : sync.items[e] > 0 => made[e][sync.items[e]].at <= store'.listed
    BY <1>1, <1>3, ListedGrows DEF WarnBase
  <2>3. UNCHANGED made /\ sync.at = "answered"
    BY <1>3 DEF TakesIn, Calendar
  <2>4. past'.written = past.written /\ store.outside \subseteq store'.outside
    BY <1>1, <1>3, TakenInPast, TakesInDoes
  <2>. SUFFICES ASSUME NEW e \in Events, sync.next[e] > 0, made[e][sync.next[e]].by = Outside,
                       made[e][sync.next[e]].at > store'.listed,
                       Live(e, sync.next[e]) \/ \A j \in 1 .. sync.next[e] - 1 : Live(e, j),
                       past.written \cap ({All} \cup KeysOf(e)) = {}
       PROVE  <<e, sync.next[e]>> \in store'.outside
    BY <2>1, <2>3, <2>4 DEF OutsideIsWarned, Live
  <2>. DEFINE i == sync.next[e]
  <2>5. /\ i \in Nat /\ sync.items[e] \in Nat /\ i <= feed[e] /\ sync.items[e] <= Latest(e)
        /\ sync.full => i <= sync.items[e]
        /\ ~sync.full => sync.items[e] = IF i > sync.token[e] THEN i ELSE 0
    BY <1>1, <2>3 DEF AnswerOfFeed, TypeOK, Syncs, Numbers
  <2>6. ~sync.full
    <3>. SUFFICES ASSUME sync.full PROVE FALSE
      OBVIOUS
    <3>1. i <= sync.items[e] /\ sync.items[e] > 0 /\ Latest(e) \in Nat
      BY <1>1, <2>5, LenProperties DEF TypeOK, Latest
    <3>2. i \in 1 .. Latest(e) /\ sync.items[e] \in 1 .. Latest(e)
      BY <2>5, <3>1
    <3>3. made[e][i].at \in Nat /\ made[e][sync.items[e]].at \in Nat /\ made[e][i].at <= made[e][sync.items[e]].at
      BY <1>1, <3>1, <3>2, LaterIsNewer
    <3>4. made[e][sync.items[e]].at <= store'.listed
      BY <2>2, <3>1
    <3>. QED
      BY <2>2, <3>3, <3>4
  <2>7. CASE i > sync.token[e]
    <3>1. sync.items[e] = i
      BY <2>5, <2>6, <2>7
    <3>. QED
      BY <1>3, <2>2, <2>6, <3>1, OthersAreWarnedOf
  <2>8. CASE ~(i > sync.token[e])
    <3>1. store.token # NONE /\ store.token[e] \in Nat /\ store.token[e] <= i /\ sync.token = store.token
      BY <2>1, <2>6 DEF Numbers
    <3>2. store.token[e] = i
      BY <2>5, <2>8, <3>1
    <3>3. <<e, i>> \in store.outside
      BY <2>2, <2>6, <3>1, <3>2 DEF OutsideIsWarned
    <3>. QED
      BY <2>4, <3>3
  <2>. QED
    BY <2>7, <2>8
<1>4. CASE ~TakesIn /\ ~Forget
  <2>1. store'.token = store.token /\ store'.listed = store.listed /\ store'.outside = store.outside
    BY <1>1, <1>4, OthersKeepEvents DEF KeepsSyncs
  <2>. SUFFICES ASSUME store.token # NONE, NEW e \in Events, store.token[e] > 0,
                       made'[e][store.token[e]].by = Outside, made'[e][store.token[e]].at > store.listed,
                       made'[e][store.token[e]].live \/ \A j \in 1 .. store.token[e] - 1 : made'[e][j].live,
                       past'.written \cap ({All} \cup KeysOf(e)) = {}
       PROVE  <<e, store.token[e]>> \in store.outside
    BY <2>1 DEF OutsideIsWarned, Live
  <2>. DEFINE i == store.token[e]
  <2>2. i \in 1 .. Len(made[e]) /\ i \in Nat
    <3>1. i \in Nat /\ i <= feed[e] /\ feed[e] <= Len(made[e]) /\ feed[e] \in Nat /\ Len(made[e]) \in Nat
      BY <1>1, LenProperties DEF TokenOfFeed, FeedBehind, Latest, TypeOK, Store, Numbers
    <3>. QED
      BY <3>1
  <2>3. \A j \in 1 .. i : made'[e][j] = made[e][j]
    <3>1. \A j \in 1 .. Len(made[e]) : made'[e][j] = made[e][j]
      BY <1>1, MadeSteps
    <3>2. 1 .. i \subseteq 1 .. Len(made[e])
      BY <2>2
    <3>. QED
      BY <3>1, <3>2
  <2>4. made'[e][i] = made[e][i]
    BY <2>2, <2>3
  <2>5. Live(e, i) \/ \A j \in 1 .. i - 1 : Live(e, j)
    <3>1. \A j \in 1 .. i - 1 : made'[e][j] = made[e][j]
      BY <2>2, <2>3
    <3>2. CASE made'[e][i].live
      BY <2>4, <3>2 DEF Live
    <3>3. CASE \A j \in 1 .. i - 1 : made'[e][j].live
      BY <3>1, <3>3 DEF Live
    <3>. QED
      BY <3>2, <3>3
  <2>6. past.written \cap ({All} \cup KeysOf(e)) = {}
    BY <1>1
  <2>. QED
    BY <2>4, <2>5, <2>6 DEF OutsideIsWarned
<1>. QED
  BY <1>2, <1>3, <1>4

WarnInv ==
    /\ WarnBase /\ EtagIsLast /\ MarksDone /\ WarnedOfOthers
    /\ CallIsWritten /\ Unwritten /\ KeptAsBrought /\ OutsideIsWarned

LEMMA WarnInit == Init => WarnInv
<1>. SUFFICES ASSUME Init PROVE WarnInv
  OBVIOUS
<1>1. WarnBase
  <2>1. GoesOn /\ NothingMissedInv
    BY GoesOnInit, NothingMissedInit
  <2>2. store.token = NONE /\ store.listed = 0
    BY EmptyStore DEF Init
  <2>. QED
    BY <2>1, <2>2 DEF WarnBase, NextPastToken, ListedShown
<1>2. DOMAIN call.stage = {}
  BY EmptySeq DEF Init, NoCall
<1>3. /\ \A k \in Keys : store.written[k] = Unmarked
      /\ \A e \in Events : store.answers[e] = NoAnswer /\ store.events[e] = 0
      /\ store.ended = {} /\ store.outside = {} /\ store.token = NONE
  BY EmptyStore DEF Init, Nothing
<1>4. \A e \in Events : \A i \in 1 .. Latest(e) : made[e][i].by \notin Keys
  <2>. SUFFICES ASSUME NEW e \in Events, NEW i \in 1 .. Len(made[e]) PROVE made[e][i].by \notin Keys
    BY DEF Latest
  <2>1. CASE e \in left.existing
    <3>1. made[e] = <<[at |-> 1, live |-> TRUE, by |-> Outside]>>
      BY <2>1 DEF Init
    <3>2. made[e][i].by = Outside
      BY <3>1
    <3>. QED
      BY <3>2, KeysAssumption
  <2>2. CASE e \notin left.existing
    <3>1. made[e] = << >>
      BY <2>2 DEF Init
    <3>. QED
      BY <3>1
  <2>. QED
    BY <2>1, <2>2
<1>5. \A e \in Events : store.written[e].etag = 0
  BY <1>3 DEF Unmarked, Keys
<1>. QED
  BY <1>1, <1>2, <1>3, <1>4, <1>5 DEF WarnInv, EtagIsLast, MarksDone, WarnedOfOthers, CallIsWritten, Unwritten,
     KeptAsBrought, OutsideIsWarned, Unmarked

LEMMA WarnStep == ~ForgetsAnytime /\ WarnInv /\ [Next]_vars => WarnInv'
<1>. SUFFICES ASSUME ~ForgetsAnytime, WarnInv, [Next]_vars PROVE WarnInv'
  OBVIOUS
<1>1. WarnBase /\ GoesOn /\ NothingMissedInv /\ NextPastToken /\ ListedShown /\ Base
  BY DEF WarnInv, WarnBase, GoesOn
<1>2. WarnBase'
  BY <1>1, GoesOnStep, NothingMissedStep, NextPastTokenStep, ListedShownStep DEF WarnBase
<1>. QED
  BY <1>1, <1>2, EtagIsLastStep, MarksDoneStep, WarnedOfOthersStep, CallIsWrittenStep, UnwrittenStep, KeptAsBroughtStep,
     OutsideIsWarnedStep DEF WarnInv

\* The user is warned of what's changed elsewhere, and of nothing the server
\* did, while feed and syncs keep their times, as long as the calendar isn't
\* forgotten under a sync (nor, for what the server did, at all).
THEOREM WarnsOfOutside ==
    ASSUME ~ForgetsAnytime
    PROVE  Spec => []WarnedOfOutside
<1>1. WarnInv /\ [Next]_vars => WarnInv'
  BY WarnStep
<1>2. WarnInv => WarnedOfOutside
  <2>. SUFFICES ASSUME WarnInv, ~past.forgot, NEW w \in store.outside, w \in ServerMade PROVE FALSE
    BY DEF WarnInv, WarnedOfOutside, OwnNotWarned
  <2>1. made[w[1]][w[2]].by \in Keys
    BY DEF ServerMade
  <2>. QED
    BY <2>1 DEF WarnInv, WarnedOfOthers
<1>. QED
  BY <1>1, <1>2, WarnInit, PTL DEF Spec

=============================================================================
