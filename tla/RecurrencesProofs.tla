-------------------------- MODULE RecurrencesProofs --------------------------
(***************************************************************************)
(* What's proved of Recurrences, for any series, calls, edits elsewhere and *)
(* mishaps.                                                                *)
(***************************************************************************)
EXTENDS RecurrencesProperties, FiniteSetTheorems, WellFoundedInduction, TLAPS

----------------------------------------------------------------------------
(* Series, as Google has them and as they're kept *)

IsSeriesOf(c) ==
    /\ c = [series |-> c.series, edited |-> c.edited] /\ c.series = [id \in DOMAIN c.series |-> c.series[id]]
    /\ \A id \in DOMAIN c.series : IsSeries(c.series[id])
\* One the other has been since: what's been written has a later version.
LaterOrSame(s, u) == s = u \/ s.version < u.version
Behind(c, d) ==
    DOMAIN c.series \subseteq DOMAIN d.series /\ \A id \in DOMAIN c.series : LaterOrSame(c.series[id], d.series[id])
CalendarsOK == IsSeriesOf(cal) /\ IsSeriesOf(heldCal) /\ Behind(heldCal, cal)

----------------------------------------------------------------------------
(* The call under way *)

Fields == {"do", "set", "now", "id", "at", "read", "target", "made", "count", "tries", "queue", "seen", "clean"}
Splitting == {"counting", "creating", "reviving", "importing", "dropping", "verifying", "ending", "rereading"}
\* A call is about series there are, and what it has read of the one it splits
\* is that one, or was.
CallOK ==
    /\ DOMAIN call = Fields /\ call = [f \in Fields |-> call[f]]
    /\ call.queue \subseteq DOMAIN cal.series
    /\ stage \notin {"none", "renewing"} => {call.id, call.target} \subseteq DOMAIN cal.series
    /\ stage = "dropping" => Rest(call.at) \in DOMAIN cal.series
    /\ IsSeries(call.read) /\ IsSeries(call.made)
    /\ stage \in Splitting => LaterOrSame(call.read, cal.series[call.id])
\* What's to be copied is the series as it is, unless it was edited since.
CopiesAsRead ==
    /\ elsewhere \in Nat /\ call.seen \in Nat /\ call.seen <= elsewhere
    /\ stage \in {"counting", "creating"} /\ call.seen = elsewhere => call.read = cal.series[call.id]

SeriesInv == CalendarsOK /\ CallOK /\ CopiesAsRead

----------------------------------------------------------------------------
(* Of series written *)

\* Written, a series is as it's written, with a later version than it had.
LEMMA PutIs ==
    ASSUME NEW c, NEW id, NEW s, IsSeriesOf(c), IsSeries(s)
    PROVE  LET d == Put(c, id, s)
           IN  /\ IsSeriesOf(d) /\ d.edited = c.edited
               /\ DOMAIN d.series = DOMAIN c.series \cup {id}
               /\ \A i \in DOMAIN c.series \ {id} : d.series[i] = c.series[i]
               /\ \E version \in Nat : d.series[id] = [s EXCEPT !.version = version]
               /\ \A i \in DOMAIN c.series : LaterOrSame(c.series[i], d.series[i])
<1> DEFINE d == Put(c, id, s)
           version == IF id \in DOMAIN c.series THEN c.series[id].version + 1 ELSE 1
           u == [s EXCEPT !.version = version]
<1>1. c = [series |-> c.series, edited |-> c.edited]
  BY DEF IsSeriesOf
<1>2. d.series = With(c.series, id, u) /\ d.edited = c.edited /\ d = [series |-> d.series, edited |-> d.edited]
  BY <1>1 DEF Put
<1>3. version \in Nat /\ (id \in DOMAIN c.series => c.series[id].version < version)
  BY DEF IsSeriesOf, IsSeries
<1>4. u.version = version /\ IsSeries(u)
  BY <1>3 DEF IsSeries
<1>e. \E v \in Nat : u = [s EXCEPT !.version = v]
  BY <1>3
<1> HIDE DEF d, u
<1>5. /\ DOMAIN d.series = DOMAIN c.series \cup {id} /\ d.series[id] = u
      /\ d.series = [i \in DOMAIN d.series |-> d.series[i]]
      /\ \A i \in DOMAIN c.series \ {id} : d.series[i] = c.series[i]
  BY <1>2 DEF With
<1>6. \A i \in DOMAIN d.series : IsSeries(d.series[i])
  BY <1>4, <1>5 DEF IsSeriesOf
<1>7. IsSeriesOf(d)
  BY <1>2, <1>5, <1>6 DEF IsSeriesOf
<1>8. \A i \in DOMAIN c.series : LaterOrSame(c.series[i], d.series[i])
  BY <1>3, <1>4, <1>5 DEF LaterOrSame
<1> QED
  BY <1>2, <1>e, <1>5, <1>7, <1>8 DEF d

\* A series with one of its fields changed is one, and with several.
LEMMA FieldChanged ==
    ASSUME NEW s, IsSeries(s), NEW v
    PROVE  /\ IsSeries([s EXCEPT !.until = v])
           /\ IsSeries([s EXCEPT !.count = v])
           /\ IsSeries([s EXCEPT !.status = v])
           /\ IsSeries([s EXCEPT !.start = v])
           /\ IsSeries([s EXCEPT !.skips = v])
           /\ IsSeries([s EXCEPT !.days = v])
<1>1. s = [start |-> s.start, count |-> s.count, until |-> s.until, skips |-> s.skips, days |-> s.days, val |-> s.val,
           status |-> s.status, version |-> s.version] /\ s.version \in Nat
  BY DEF IsSeries
<1>2. DOMAIN s = {"start", "count", "until", "skips", "days", "val", "status", "version"}
  BY <1>1
<1> QED
  BY <1>1, <1>2 DEF IsSeries
LEMMA FieldsChanged ==
    ASSUME NEW s, IsSeries(s), NEW v, NEW w, NEW x, NEW y
    PROVE  /\ IsSeries([s EXCEPT !.start = v, !.status = w])
           /\ IsSeries([s EXCEPT !.start = v, !.count = w, !.status = x])
           /\ IsSeries([s EXCEPT !.days = v, !.skips = w, !.count = x, !.until = y])
<1>1. IsSeries([s EXCEPT !.start = v]) /\ IsSeries([s EXCEPT !.days = v])
  BY FieldChanged
<1>2. /\ IsSeries([[s EXCEPT !.start = v] EXCEPT !.status = w]) /\ IsSeries([[s EXCEPT !.start = v] EXCEPT !.count = w])
      /\ IsSeries([[s EXCEPT !.days = v] EXCEPT !.skips = w])
  BY <1>1, FieldChanged
<1>3. /\ IsSeries([[[s EXCEPT !.start = v] EXCEPT !.count = w] EXCEPT !.status = x])
      /\ IsSeries([[[s EXCEPT !.days = v] EXCEPT !.skips = w] EXCEPT !.count = x])
  BY <1>2, FieldChanged
<1>4. IsSeries([[[[s EXCEPT !.days = v] EXCEPT !.skips = w] EXCEPT !.count = x] EXCEPT !.until = y])
  BY <1>3, FieldChanged
<1> QED
  BY <1>2, <1>3, <1>4

\* An update's fields are written, but for the version.
IsPatched(c, id, set, e) ==
    IsSeriesOf(c) /\ id \in DOMAIN c.series /\ e = Put(c, id, Amended(c.series[id], set))
LEMMA AmendedIs ==
    ASSUME NEW c, NEW id, NEW set, NEW e, IsPatched(c, id, set, e)
    PROVE  /\ IsSeriesOf(e) /\ e.edited = c.edited
           /\ DOMAIN e.series = DOMAIN c.series
           /\ \A i \in DOMAIN c.series \ {id} : e.series[i] = c.series[i]
           /\ \A field \in DOMAIN c.series[id] \ {"version"} :
                 e.series[id][field] = IF field \in DOMAIN set THEN set[field] ELSE c.series[id][field]
           /\ \A i \in DOMAIN c.series : LaterOrSame(c.series[i], e.series[i])
<1> DEFINE s == c.series[id]
           a == Amended(s, set)
           t == [a EXCEPT !.version = 0]
<1>1. IsSeries(s) /\ DOMAIN s = {"start", "count", "until", "skips", "days", "val", "status", "version"}
  BY DEF IsSeriesOf, IsSeries, IsPatched
<1>2. DOMAIN a = DOMAIN s /\ \A field \in DOMAIN s : a[field] = IF field \in DOMAIN set THEN set[field] ELSE s[field]
  BY DEF Amended
<1>a. DOMAIN a = {"start", "count", "until", "skips", "days", "val", "status", "version"} /\ a = [f \in DOMAIN a |-> a[f]]
  BY <1>1 DEF Amended
<1>b. t = [start |-> t.start, count |-> t.count, until |-> t.until, skips |-> t.skips, days |-> t.days, val |-> t.val,
           status |-> t.status, version |-> t.version] /\ t.version = 0
  BY <1>a
<1>3. IsSeries(t)
  BY <1>b DEF IsSeries
<1>4. \A v : [t EXCEPT !.version = v] = [a EXCEPT !.version = v]
  BY <1>1 DEF Amended
<1>5. Put(c, id, a) = Put(c, id, t)
  BY <1>4 DEF Put
<1>6. \A field \in DOMAIN s \ {"version"} : t[field] = IF field \in DOMAIN set THEN set[field] ELSE s[field]
  BY <1>2
<1>7. DOMAIN t = DOMAIN s
  BY <1>2
<1> HIDE DEF a, t
<1>8. \A field \in DOMAIN s \ {"version"} : \A v : [t EXCEPT !.version = v][field] = t[field]
  BY <1>7
<1> DEFINE d == Put(c, id, t)
<1>9. /\ IsSeriesOf(d) /\ d.edited = c.edited /\ DOMAIN d.series = DOMAIN c.series \cup {id}
      /\ \A i \in DOMAIN c.series \ {id} : d.series[i] = c.series[i]
      /\ \A i \in DOMAIN c.series : LaterOrSame(c.series[i], d.series[i])
      /\ \E version \in Nat : d.series[id] = [t EXCEPT !.version = version]
  BY <1>3, PutIs DEF IsPatched
<1> HIDE DEF d
<1>10. \A field \in DOMAIN s \ {"version"} : d.series[id][field] = IF field \in DOMAIN set THEN set[field] ELSE s[field]
  BY <1>6, <1>8, <1>9
<1>11. d = e
  BY <1>5 DEF a, d, IsPatched
<1>12. DOMAIN c.series \cup {id} = DOMAIN c.series
  BY DEF IsPatched
<1> QED
  BY <1>9, <1>10, <1>11, <1>12

\* What's kept with a series as Google has it is behind it.
LEMMA KeptOfIs ==
    ASSUME NEW c, NEW id \in DOMAIN c.series, IsSeriesOf(c), IsSeriesOf(heldCal), Behind(heldCal, c)
    PROVE  IsSeriesOf(KeptOf(c, id)) /\ Behind(KeptOf(c, id), c)
<1> DEFINE d == KeptOf(c, id)
<1>1. heldCal = [series |-> heldCal.series, edited |-> heldCal.edited]
  BY DEF IsSeriesOf
<1>2. d.series = With(heldCal.series, id, c.series[id]) /\ d = [series |-> d.series, edited |-> d.edited]
  BY <1>1 DEF KeptOf
<1> HIDE DEF d
<1>3. /\ DOMAIN d.series = DOMAIN heldCal.series \cup {id} /\ d.series[id] = c.series[id]
      /\ d.series = [i \in DOMAIN d.series |-> d.series[i]]
      /\ \A i \in DOMAIN heldCal.series \ {id} : d.series[i] = heldCal.series[i]
  BY <1>2 DEF With
<1> QED
  BY <1>2, <1>3 DEF IsSeriesOf, Behind, LaterOrSame, d

LEMMA LaterGoesOn ==
    ASSUME NEW s, NEW u, NEW w, IsSeries(s), IsSeries(u), IsSeries(w), LaterOrSame(s, u), LaterOrSame(u, w)
    PROVE  LaterOrSame(s, w)
<1>1. s.version \in Nat /\ u.version \in Nat /\ w.version \in Nat
  BY DEF IsSeries
<1> QED
  BY <1>1 DEF LaterOrSame

LEMMA BehindGoesOn ==
    ASSUME NEW c, NEW d, NEW e, IsSeriesOf(c), IsSeriesOf(d), IsSeriesOf(e), Behind(c, d), Behind(d, e)
    PROVE  Behind(c, e)
<1>1. \A id \in DOMAIN c.series : c.series[id].version \in Nat /\ d.series[id].version \in Nat /\ e.series[id].version \in Nat
  BY DEF Behind, IsSeriesOf, IsSeries
<1> QED
  BY <1>1 DEF Behind, LaterOrSame

\* A series' fields as it's written.
LEMMA PutFields ==
    ASSUME NEW c, NEW id, NEW s, IsSeriesOf(c), IsSeries(s),
           NEW field \in {"start", "count", "until", "skips", "days", "val", "status"}
    PROVE  Put(c, id, s).series[id][field] = s[field]
<1>1. PICK version \in Nat : Put(c, id, s).series[id] = [s EXCEPT !.version = version]
  BY PutIs, SMTT(30)
<1>2. field \in DOMAIN s /\ field # "version"
  BY DEF IsSeries
<1> QED
  BY <1>1, <1>2

----------------------------------------------------------------------------
(* What each step writes *)

\* A field of a series as the promise has it kept.
KeptField(id, field) ==
    LET s == cal'.series[id]
        before == IF id \in DOMAIN cal.series THEN cal.series[id] ELSE cal.series[call.id]
    IN  \/ s[field] = before[field]
        \/ stage = "patching" /\ id = call.target /\ field \in DOMAIN call.set /\ s[field] = call.set[field]
        \/ id \notin DOMAIN cal.series /\ call.seen # elsewhere
Keeps ==
    /\ IsSeriesOf(cal') /\ Behind(cal, cal')
    /\ \A id \in DOMAIN cal'.series \ {Rest(call.at)} : \A field \in {"days", "val"} : KeptField(id, field)

LEMMA NothingWritten ==
    ASSUME SeriesInv, UNCHANGED cal
    PROVE  Keeps
BY DEF SeriesInv, CalendarsOK, Keeps, Behind, LaterOrSame, KeptField

\* One series is written, its fields as they were, or as may be.
LEMMA OneWritten ==
    ASSUME SeriesInv, NEW id, NEW s, IsSeries(s), cal' = Put(cal, id, s),
           id = Rest(call.at) \/ \A field \in {"days", "val"} : KeptField(id, field)
    PROVE  Keeps
<1>1. IsSeriesOf(cal)
  BY DEF SeriesInv, CalendarsOK
<1>2. /\ IsSeriesOf(cal') /\ DOMAIN cal'.series = DOMAIN cal.series \cup {id}
      /\ \A i \in DOMAIN cal.series \ {id} : cal'.series[i] = cal.series[i]
      /\ \A i \in DOMAIN cal.series : LaterOrSame(cal.series[i], cal'.series[i])
  BY <1>1, PutIs
<1>3. \A i \in DOMAIN cal.series \ {id} : \A field \in {"days", "val"} : KeptField(i, field)
  BY <1>2 DEF KeptField
<1> QED
  BY <1>2, <1>3 DEF Keeps, Behind

\* A series is written again with its fields as they were.
LEMMA WrittenAgain ==
    ASSUME SeriesInv, NEW id \in DOMAIN cal.series, NEW s, IsSeries(s), cal' = Put(cal, id, s),
           s.days = cal.series[id].days, s.val = cal.series[id].val
    PROVE  Keeps
<1>1. \A field \in {"days", "val"} : cal'.series[id][field] = s[field]
  BY PutFields DEF SeriesInv, CalendarsOK
<1>2. \A field \in {"days", "val"} : KeptField(id, field)
  BY <1>1 DEF KeptField
<1> QED
  BY <1>2, OneWritten

\* A write is made, its answer kept or lost; or refused.
LEMMA WriteCases ==
    ASSUME NEW id, NEW s, Answered(id, s) \/ Refused \/ Lost(id, s)
    PROVE  UNCHANGED cal \/ cal' = Put(cal, id, s)
BY DEF Answered, Refused, Lost

LEMMA SeriesThere ==
    ASSUME SeriesInv, stage \notin {"none", "renewing"}
    PROVE  /\ call.id \in DOMAIN cal.series /\ call.target \in DOMAIN cal.series
           /\ IsSeries(cal.series[call.id]) /\ IsSeries(cal.series[call.target]) /\ IsSeries(call.read) /\ IsSeries(call.made)
BY DEF SeriesInv, CallOK, CalendarsOK, IsSeriesOf

\* Its status changed, its fields stay.
LEMMA StatusWritten ==
    ASSUME SeriesInv, NEW id \in DOMAIN cal.series, NEW v, cal' = Put(cal, id, [cal.series[id] EXCEPT !.status = v])
    PROVE  Keeps
<1>1. IsSeries(cal.series[id])
  BY DEF SeriesInv, CalendarsOK, IsSeriesOf
<1> DEFINE s == [cal.series[id] EXCEPT !.status = v]
<1>2. IsSeries(s)
  BY <1>1, FieldChanged
<1>3. s.days = cal.series[id].days /\ s.val = cal.series[id].val
  BY <1>1 DEF IsSeries
<1> QED
  BY <1>2, <1>3, WrittenAgain

LEMMA CreateWrites ==
    ASSUME SeriesInv, CreateCopy
    PROVE  Keeps
<1> DEFINE id == CopyOf(call.id, call.at)
           copy == [call.read EXCEPT !.start = call.at, !.count = call.count, !.status = "confirmed"]
<1>1. stage = "creating" /\ IsSeries(call.read)
  BY SeriesThere DEF CreateCopy
<1>2. IsSeries(copy)
  BY <1>1, FieldsChanged
<1>3. copy.days = call.read.days /\ copy.val = call.read.val
  BY <1>1 DEF IsSeries
<1>4. UNCHANGED cal \/ (id \notin DOMAIN cal.series /\ cal' = Put(cal, id, copy))
  BY WriteCases DEF CreateCopy
<1> HIDE DEF id, copy
<1>5. CASE UNCHANGED cal
  BY <1>5, NothingWritten
<1>6. CASE id \notin DOMAIN cal.series /\ cal' = Put(cal, id, copy)
  <2>1. \A field \in {"days", "val"} : cal'.series[id][field] = copy[field]
    BY <1>2, <1>6, PutFields DEF SeriesInv, CalendarsOK
  <2>2. call.seen = elsewhere => call.read = cal.series[call.id]
    BY <1>1 DEF SeriesInv, CopiesAsRead
  <2>3. \A field \in {"days", "val"} : KeptField(id, field)
    BY <1>3, <1>6, <2>1, <2>2 DEF KeptField
  <2> QED
    BY <1>2, <1>6, <2>3, OneWritten
<1> QED
  BY <1>4, <1>5, <1>6

LEMMA ReviveWrites ==
    ASSUME SeriesInv, ReviveCopy
    PROVE  Keeps
<1>1. stage = "reviving"
  BY DEF ReviveCopy
<1>2. UNCHANGED cal \/ cal' = Put(cal, call.target, [cal.series[call.target] EXCEPT !.status = "confirmed"])
  BY WriteCases DEF ReviveCopy
<1> QED
  BY <1>1, <1>2, SeriesThere, NothingWritten, StatusWritten

\* Ended onto the version read, a series has its rules as read: as they are.
LEMMA EndWrites ==
    ASSUME SeriesInv, EndSeries
    PROVE  Keeps
<1> DEFINE s == cal.series[call.id]
           ended == [s EXCEPT !.days = call.read.days, !.skips = call.read.skips, !.count = 0, !.until = call.at - 1]
<1>1. stage = "ending" /\ IsSeries(s) /\ IsSeries(call.read) /\ call.id \in DOMAIN cal.series
  BY SeriesThere DEF EndSeries
<1>2. IsSeries(ended)
  BY <1>1, FieldsChanged
<1>3. ended.days = call.read.days /\ ended.val = s.val
  BY <1>1 DEF IsSeries
<1>4. UNCHANGED cal \/ (AtRead(call.id, call.read) /\ cal' = Put(cal, call.id, ended))
  BY WriteCases DEF EndSeries, Outdated
<1>5. ASSUME AtRead(call.id, call.read) PROVE call.read = s
  <2>1. LaterOrSame(call.read, s)
    BY <1>1 DEF SeriesInv, CallOK, Splitting
  <2> QED
    BY <1>1, <1>5, <2>1 DEF AtRead, LaterOrSame, IsSeries
<1> HIDE DEF ended
<1>6. CASE UNCHANGED cal
  BY <1>6, NothingWritten
<1>7. CASE AtRead(call.id, call.read) /\ cal' = Put(cal, call.id, ended)
  <2>1. ended.days = s.days /\ ended.val = s.val
    BY <1>3, <1>5, <1>7
  <2> QED
    BY <1>1, <1>2, <1>7, <2>1, WrittenAgain
<1> QED
  BY <1>4, <1>6, <1>7

LEMMA ImportWrites ==
    ASSUME SeriesInv, ImportRest
    PROVE  Keeps
<1> DEFINE s == cal.series[call.id]
           ended == [s EXCEPT !.until = Min({@, call.at - 1})]
           c == Put(cal, call.id, ended)
           d == Imported(cal)
           rest == [call.read EXCEPT !.start = call.at, !.status = "confirmed"]
<1>1. stage = "importing" /\ IsSeries(s) /\ IsSeries(call.read) /\ call.id \in DOMAIN cal.series /\ IsSeriesOf(cal)
  BY SeriesThere DEF ImportRest, SeriesInv, CalendarsOK
<1>2. IsSeries(ended) /\ IsSeries(rest)
  BY <1>1, FieldChanged, FieldsChanged
<1>3. ended.days = s.days /\ ended.val = s.val
  BY <1>1 DEF IsSeries
<1>4. /\ IsSeriesOf(c) /\ DOMAIN c.series = DOMAIN cal.series \cup {call.id}
      /\ \A i \in DOMAIN cal.series \ {call.id} : c.series[i] = cal.series[i]
      /\ \A i \in DOMAIN cal.series : LaterOrSame(cal.series[i], c.series[i])
  BY <1>1, <1>2, PutIs
<1>a. \E edits : d = [c EXCEPT !.edited = edits]
  BY DEF Imported
<1> HIDE DEF ended
<1>5. \A field \in {"days", "val"} : c.series[call.id][field] = s[field]
  <2>1. \A field \in {"days", "val"} : Put(cal, call.id, ended).series[call.id][field] = ended[field]
    BY <1>1, <1>2, PutFields
  <2> QED
    BY <1>3, <2>1
<1> HIDE DEF c, d, rest
<1>6. d.series = c.series /\ d = [series |-> d.series, edited |-> d.edited]
  BY <1>4, <1>a DEF IsSeriesOf
<1>7. /\ IsSeriesOf(d) /\ DOMAIN d.series = DOMAIN cal.series /\ Behind(cal, d)
      /\ \A i \in DOMAIN cal.series : \A field \in {"days", "val"} : d.series[i][field] = cal.series[i][field]
  <2>1. IsSeriesOf(d)
    BY <1>4, <1>6 DEF IsSeriesOf
  <2>2. DOMAIN d.series = DOMAIN cal.series
    BY <1>1, <1>4, <1>6
  <2>3. Behind(cal, d)
    BY <1>4, <1>6, <2>2 DEF Behind
  <2> QED
    BY <1>4, <1>5, <1>6, <2>1, <2>2, <2>3
<1>8. ASSUME NEW e, e = cal \/ e = d, cal' = Put(e, Rest(call.at), rest)
      PROVE  Keeps
  <2>1. /\ IsSeriesOf(e) /\ DOMAIN e.series = DOMAIN cal.series /\ Behind(cal, e)
        /\ \A i \in DOMAIN cal.series : \A field \in {"days", "val"} : e.series[i][field] = cal.series[i][field]
    BY <1>1, <1>7, <1>8 DEF Behind, LaterOrSame
  <2>2. /\ IsSeriesOf(cal') /\ DOMAIN cal'.series = DOMAIN e.series \cup {Rest(call.at)}
        /\ \A i \in DOMAIN e.series \ {Rest(call.at)} : cal'.series[i] = e.series[i]
        /\ \A i \in DOMAIN e.series : LaterOrSame(e.series[i], cal'.series[i])
    BY <1>2, <1>8, <2>1, PutIs
  <2>3. Behind(e, cal')
    BY <2>2 DEF Behind
  <2>4. Behind(cal, cal')
    BY <1>1, <2>1, <2>2, <2>3, BehindGoesOn
  <2>5. \A i \in DOMAIN cal'.series \ {Rest(call.at)} : \A field \in {"days", "val"} : KeptField(i, field)
    BY <2>1, <2>2 DEF KeptField
  <2> QED
    BY <2>2, <2>4, <2>5 DEF Keeps
<1>9. UNCHANGED cal \/ cal' = WithRest(cal) \/ cal' = WithRest(d)
  BY DEF ImportRest, Refused, d
<1>10. \A e : WithRest(e) = Put(e, Rest(call.at), rest)
  BY DEF WithRest, rest
<1> QED
  BY <1>8, <1>9, <1>10, NothingWritten

LEMMA CancelRestWrites ==
    ASSUME SeriesInv, CancelRest
    PROVE  Keeps
<1> DEFINE s == [cal.series[Rest(call.at)] EXCEPT !.status = "cancelled"]
<1>1. UNCHANGED cal \/ cal' = Put(cal, Rest(call.at), s)
  BY WriteCases DEF CancelRest
<1>2. stage = "dropping"
  BY DEF CancelRest
<1>3. Rest(call.at) \in DOMAIN cal.series
  BY <1>2 DEF SeriesInv, CallOK
<1> QED
  BY <1>1, <1>3, NothingWritten, StatusWritten

LEMMA UndoWrites ==
    ASSUME SeriesInv, UndoCopy
    PROVE  Keeps
<1>1. stage = "undoing"
  BY DEF UndoCopy
<1>2. UNCHANGED cal \/ cal' = Put(cal, call.target, [cal.series[call.target] EXCEPT !.status = "cancelled"])
  BY WriteCases DEF UndoCopy
<1> QED
  BY <1>1, <1>2, SeriesThere, NothingWritten, StatusWritten

LEMMA CancelWrites ==
    ASSUME SeriesInv, CancelWhole
    PROVE  Keeps
<1>1. stage = "cancelling"
  BY DEF CancelWhole
<1>2. UNCHANGED cal \/ cal' = Put(cal, call.id, [cal.series[call.id] EXCEPT !.status = "cancelled"])
  BY WriteCases DEF CancelWhole
<1> QED
  BY <1>1, <1>2, SeriesThere, NothingWritten, StatusWritten

\* An update writes what it's asked, of the series it's asked of.
LEMMA PatchWrites ==
    ASSUME SeriesInv, PatchSeries
    PROVE  Keeps
<1> DEFINE s == cal.series[call.target]
<1>1. stage = "patching" /\ IsSeries(s) /\ call.target \in DOMAIN cal.series /\ IsSeriesOf(cal)
  BY SeriesThere DEF PatchSeries, SeriesInv, CalendarsOK
<1>2. UNCHANGED cal \/ cal' = Put(cal, call.target, Amended(s, call.set))
  BY WriteCases DEF PatchSeries, Outdated
<1>3. CASE cal' = Put(cal, call.target, Amended(s, call.set))
  <2>1. /\ IsSeriesOf(cal') /\ DOMAIN cal'.series = DOMAIN cal.series
        /\ \A i \in DOMAIN cal.series \ {call.target} : cal'.series[i] = cal.series[i]
        /\ \A field \in DOMAIN s \ {"version"} :
              cal'.series[call.target][field] = IF field \in DOMAIN call.set THEN call.set[field] ELSE s[field]
        /\ \A i \in DOMAIN cal.series : LaterOrSame(cal.series[i], cal'.series[i])
    <3>1. IsPatched(cal, call.target, call.set, cal')
      BY <1>1, <1>3 DEF IsPatched
    <3> QED
      BY <3>1, AmendedIs
  <2>2. {"days", "val"} \subseteq DOMAIN s \ {"version"}
    BY <1>1 DEF IsSeries
  <2>3. \A i \in DOMAIN cal.series : \A field \in {"days", "val"} : KeptField(i, field)
    BY <1>1, <2>1, <2>2 DEF KeptField
  <2> QED
    BY <2>1, <2>3 DEF Keeps, Behind
<1> QED
  BY <1>2, <1>3, NothingWritten

----------------------------------------------------------------------------
(* Each step keeps what the promise rests on *)

Writes == CreateCopy \/ ReviveCopy \/ EndSeries \/ ImportRest \/ CancelRest \/ UndoCopy \/ PatchSeries \/ CancelWhole
LEMMA EachWrites ==
    ASSUME SeriesInv, [SeriesNext]_seriesVars, ~EditElsewhere
    PROVE  Keeps
<1>1. CASE Writes
  BY <1>1, CreateWrites, ReviveWrites, EndWrites, ImportWrites, CancelRestWrites, UndoWrites, PatchWrites, CancelWrites
     DEF Writes
<1>2. CASE ~Writes
  <2>1. UNCHANGED cal
    BY <1>2 DEF SeriesNext, Writes, seriesVars, AskSeries, AskRenewal, RenewNext, ReadToSplit, CountInstances, ReadAgainToEnd,
                VerifyEnded, ReadAgainToPatch, StopSeries, SyncSeries
  <2> QED
    BY <2>1, NothingWritten
<1> QED
  BY <1>1, <1>2

LEMMA EditedElsewhere ==
    ASSUME SeriesInv, EditElsewhere
    PROVE  IsSeriesOf(cal') /\ Behind(cal, cal')
<1> DEFINE Edited(id) == LET s == cal.series[id] IN
             \/ \E set : cal' = Put(cal, id, Amended(s, set))
             \/ \E u : IsSeries(u) /\ cal' = Put(cal, id, u)
             \/ \E edits : cal' = [Put(cal, id, s) EXCEPT !.edited = edits]
<1>1. IsSeriesOf(cal) /\ \A id \in DOMAIN cal.series : IsSeries(cal.series[id])
  BY DEF SeriesInv, CalendarsOK, IsSeriesOf
<1>2. PICK id \in DOMAIN cal.series : Edited(id)
  <2>1. PICK id \in {i \in DOMAIN cal.series : Confirmed(cal.series[i])} :
          LET s == cal.series[id]
              instance(edit) == [Put(cal, id, s) EXCEPT !.edited = @ \cup {edit}]
          IN  \/ \E set \in {[val |-> "theirs"], [days |-> "theirs"]} : cal' = Put(cal, id, Amended(s, set))
              \/ cal' = Put(cal, id, [s EXCEPT !.status = "cancelled"])
              \/ cal' = Put(cal, id, IF s.count = 0 THEN [s EXCEPT !.until = s.start] ELSE [s EXCEPT !.count = 1])
              \/ \E edit : cal' = instance(edit)
    BY DEF EditElsewhere
  <2> DEFINE s == cal.series[id]
  <2>2. IsSeries([s EXCEPT !.status = "cancelled"]) /\ IsSeries([s EXCEPT !.until = s.start]) /\ IsSeries([s EXCEPT !.count = 1])
    BY <1>1, FieldChanged
  <2>3. CASE \E set \in {[val |-> "theirs"], [days |-> "theirs"]} : cal' = Put(cal, id, Amended(s, set))
    BY <2>3
  <2>4. CASE cal' = Put(cal, id, [s EXCEPT !.status = "cancelled"])
    BY <2>2, <2>4
  <2>5. CASE cal' = Put(cal, id, IF s.count = 0 THEN [s EXCEPT !.until = s.start] ELSE [s EXCEPT !.count = 1])
    BY <2>2, <2>5
  <2>6. CASE \E edit : cal' = [Put(cal, id, s) EXCEPT !.edited = @ \cup {edit}]
    BY <2>6
  <2> QED
    BY <2>1, <2>3, <2>4, <2>5, <2>6
<1>3. CASE \E set : cal' = Put(cal, id, Amended(cal.series[id], set))
  <2>1. PICK set : cal' = Put(cal, id, Amended(cal.series[id], set))
    BY <1>3
  <2>2. IsPatched(cal, id, set, cal')
    BY <1>1, <2>1 DEF IsPatched
  <2> QED
    BY <2>2, AmendedIs DEF Behind
<1>4. CASE \E u : IsSeries(u) /\ cal' = Put(cal, id, u)
  <2>1. PICK u : IsSeries(u) /\ cal' = Put(cal, id, u)
    BY <1>4
  <2> QED
    BY <1>1, <2>1, PutIs DEF Behind
<1>5. CASE \E edits : cal' = [Put(cal, id, cal.series[id]) EXCEPT !.edited = edits]
  <2> DEFINE d == Put(cal, id, cal.series[id])
  <2>1. IsSeriesOf(d) /\ Behind(cal, d)
    BY <1>1, PutIs DEF Behind
  <2>2. PICK edits : cal' = [d EXCEPT !.edited = edits]
    BY <1>5
  <2> HIDE DEF d
  <2>3. cal'.series = d.series /\ cal' = [series |-> cal'.series, edited |-> cal'.edited]
    BY <2>1, <2>2 DEF IsSeriesOf
  <2> QED
    BY <2>1, <2>3 DEF IsSeriesOf, Behind
<1> QED
  BY <1>2, <1>3, <1>4, <1>5

LEMMA CalMovesOn ==
    ASSUME SeriesInv, [SeriesNext]_seriesVars
    PROVE  IsSeriesOf(cal') /\ Behind(cal, cal') /\ DOMAIN cal.series \subseteq DOMAIN cal'.series
BY EachWrites, EditedElsewhere DEF Keeps, Behind

\* What's left of a series Google split is there once it's imported.
LEMMA RestThere ==
    ASSUME SeriesInv
    PROVE  Rest(call.at) \in DOMAIN WithRest(cal).series /\ Rest(call.at) \in DOMAIN WithRest(Imported(cal)).series
<1>1. ASSUME NEW c, c = [series |-> c.series, edited |-> c.edited]
      PROVE  Rest(call.at) \in DOMAIN WithRest(c).series
  BY <1>1 DEF WithRest, Put, With
<1>2. cal = [series |-> cal.series, edited |-> cal.edited]
  BY DEF SeriesInv, CalendarsOK, IsSeriesOf
<1>3. Imported(cal) = [series |-> Imported(cal).series, edited |-> Imported(cal).edited]
  <2>1. \E c, edits :
            /\ c = Put(cal, call.id, [cal.series[call.id] EXCEPT !.until = Min({@, call.at - 1})])
            /\ Imported(cal) = [c EXCEPT !.edited = edits]
    BY DEF Imported
  <2>2. ASSUME NEW s PROVE Put(cal, call.id, s) = [series |-> Put(cal, call.id, s).series, edited |-> Put(cal, call.id, s).edited]
    BY <1>2 DEF Put
  <2>3. \E c, edits : c = [series |-> c.series, edited |-> c.edited] /\ Imported(cal) = [c EXCEPT !.edited = edits]
    BY <2>1, <2>2
  <2> QED
    BY <2>3
<1> QED
  BY <1>1, <1>2, <1>3

\* What's kept stays, or is of what Google has now.
LEMMA HeldCases ==
    ASSUME SeriesInv, [SeriesNext]_seriesVars
    PROVE  heldCal' = heldCal \/ heldCal' = cal' \/ \E id \in DOMAIN cal'.series : heldCal' = KeptOf(cal', id)
<1>1. ASSUME NEW id, NEW s, Answered(id, s) \/ Refused \/ Lost(id, s)
      PROVE  heldCal' = heldCal \/ (heldCal' = KeptOf(cal', id) /\ cal' = Put(cal, id, s))
  <2>1. CASE Answered(id, s)
    <3>1. PICK c \in {Put(cal, id, s)} : cal' = c /\ heldCal' = KeptOf(c, id)
      BY <2>1 DEF Answered
    <3>2. KeptOf(c, id) = KeptOf(cal', id)
      BY <3>1
    <3> QED
      BY <3>1, <3>2
  <2>2. CASE Refused \/ Lost(id, s)
    BY <2>2 DEF Refused, Lost
  <2> QED
    BY <1>1, <2>1, <2>2
<1>2. \A id, s : id \in DOMAIN Put(cal, id, s).series
  <2>1. cal = [series |-> cal.series, edited |-> cal.edited]
    BY DEF SeriesInv, CalendarsOK, IsSeriesOf
  <2> QED
    BY <2>1 DEF Put, With
<1>3. ASSUME NEW id, NEW s, Answered(id, s) \/ Refused \/ Lost(id, s)
      PROVE  heldCal' = heldCal \/ \E i \in DOMAIN cal'.series : heldCal' = KeptOf(cal', i)
  BY <1>1, <1>2, <1>3
<1>4. CASE CreateCopy
  <2>1. heldCal' = heldCal \/ \E id, s : Answered(id, s) \/ Refused \/ Lost(id, s)
    BY <1>4 DEF CreateCopy
  <2> QED
    BY <1>3, <2>1
<1>5. CASE ReviveCopy \/ CancelRest \/ UndoCopy \/ CancelWhole
  <2>1. \E id, s : Answered(id, s) \/ Refused \/ Lost(id, s)
    BY <1>5 DEF ReviveCopy, CancelRest, UndoCopy, CancelWhole
  <2> QED
    BY <1>3, <2>1
<1>6. CASE EndSeries
  <2>1. call.id \in DOMAIN cal.series
    BY <1>6, SeriesThere DEF EndSeries
  <2>2. CASE \E id, s : Answered(id, s) \/ Refused \/ Lost(id, s)
    BY <1>3, <2>2
  <2>3. CASE Outdated(call.id)
    BY <2>1, <2>3 DEF Outdated
  <2> QED
    BY <1>6, <2>2, <2>3 DEF EndSeries
<1>7. CASE PatchSeries
  <2>1. call.target \in DOMAIN cal.series
    BY <1>7, SeriesThere DEF PatchSeries
  <2>2. CASE \E id, s : Answered(id, s) \/ Refused \/ Lost(id, s)
    BY <1>3, <2>2
  <2>3. CASE Outdated(call.target)
    BY <2>1, <2>3 DEF Outdated
  <2> QED
    BY <1>7, <2>2, <2>3 DEF PatchSeries
<1>8. CASE ImportRest
  <2>1. \/ heldCal' = heldCal
        \/ heldCal' = KeptOf(cal', Rest(call.at)) /\ (cal' = WithRest(cal) \/ cal' = WithRest(Imported(cal)))
    BY <1>8 DEF ImportRest, Refused
  <2> QED
    BY <2>1, RestThere
<1>9. CASE ReadToSplit \/ VerifyEnded
  <2>1. call.id \in DOMAIN cal.series
    BY <1>9, SeriesThere DEF ReadToSplit, VerifyEnded
  <2> QED
    BY <1>9, <2>1 DEF ReadToSplit, VerifyEnded
<1>10. CASE SyncSeries
  BY <1>10 DEF SyncSeries
<1>11. CASE AskSeries \/ AskRenewal \/ RenewNext \/ CountInstances \/ ReadAgainToEnd \/ ReadAgainToPatch \/ StopSeries
            \/ EditElsewhere \/ UNCHANGED seriesVars
  BY <1>11 DEF AskSeries, AskRenewal, RenewNext, CountInstances, ReadAgainToEnd, ReadAgainToPatch, StopSeries,
               EditElsewhere, seriesVars
<1> QED
  BY <1>4, <1>5, <1>6, <1>7, <1>8, <1>9, <1>10, <1>11 DEF SeriesNext

LEMMA CalendarsKept ==
    ASSUME SeriesInv, [SeriesNext]_seriesVars
    PROVE  CalendarsOK'
<1>1. IsSeriesOf(cal') /\ Behind(cal, cal') /\ IsSeriesOf(cal) /\ IsSeriesOf(heldCal) /\ Behind(heldCal, cal)
  BY CalMovesOn DEF SeriesInv, CalendarsOK
<1>2. Behind(heldCal, cal') /\ Behind(cal', cal')
  BY <1>1, BehindGoesOn DEF Behind, LaterOrSame
<1>3. ASSUME NEW id \in DOMAIN cal'.series
      PROVE  IsSeriesOf(KeptOf(cal', id)) /\ Behind(KeptOf(cal', id), cal')
  <2>1. PICK c : c = cal'
    OBVIOUS
  <2>2. IsSeriesOf(KeptOf(c, id)) /\ Behind(KeptOf(c, id), c)
    BY <1>1, <1>2, <1>3, <2>1, KeptOfIs
  <2> QED
    BY <2>1, <2>2
<1>4. IsSeriesOf(heldCal') /\ Behind(heldCal', cal')
  BY <1>1, <1>2, <1>3, HeldCases
<1> QED
  BY <1>1, <1>4 DEF CalendarsOK

\* A call stays a record of its fields.
LEMMA CallShape ==
    ASSUME SeriesInv, [SeriesNext]_seriesVars
    PROVE  DOMAIN call' = Fields /\ call' = [f \in Fields |-> call'[f]]
<1>1. DOMAIN call = Fields /\ call = [f \in Fields |-> call[f]]
  BY DEF SeriesInv, CallOK
<1>2. DOMAIN NewCall = Fields /\ NewCall = [f \in Fields |-> NewCall[f]]
  BY DEF NewCall, Fields
<1>3. CASE UNCHANGED call
  BY <1>1, <1>3
<1>4. CASE AskSeries
  BY <1>2, <1>4 DEF AskSeries, Fields
<1>5. CASE AskRenewal
  BY <1>2, <1>5 DEF AskRenewal, Fields
<1>6. CASE RenewNext
  BY <1>1, <1>6 DEF RenewNext, Fields
<1>7. ASSUME NEW target, NEW read, SplitDone(target, read) PROVE DOMAIN call' = Fields /\ call' = [f \in Fields |-> call'[f]]
  BY <1>1, <1>7 DEF SplitDone, Fields
<1>8. CASE EndDone
  BY <1>3, <1>7, <1>8 DEF EndDone
<1>9. CASE ReadToSplit
  BY <1>1, <1>7, <1>9 DEF ReadToSplit, Fields
<1>10. CASE CountInstances \/ ReadAgainToEnd \/ ReadAgainToPatch
  BY <1>1, <1>3, <1>10 DEF CountInstances, ReadAgainToEnd, ReadAgainToPatch, Fields
<1>11. CASE CreateCopy
  BY <1>1, <1>3, <1>11 DEF CreateCopy, Fields
<1>12. CASE ReviveCopy
  BY <1>1, <1>3, <1>12 DEF ReviveCopy, Fields
<1>13. CASE EndSeries
  BY <1>1, <1>3, <1>8, <1>13 DEF EndSeries, Fields
<1>14. CASE VerifyEnded
  BY <1>3, <1>8, <1>14 DEF VerifyEnded
<1>15. CASE PatchSeries
  BY <1>1, <1>3, <1>15 DEF PatchSeries, Fields
<1>16. CASE ImportRest \/ CancelRest \/ UndoCopy \/ CancelWhole \/ StopSeries \/ EditElsewhere \/ SyncSeries \/ UNCHANGED seriesVars
  BY <1>3, <1>16 DEF ImportRest, CancelRest, UndoCopy, CancelWhole, StopSeries, EditElsewhere, SyncSeries, seriesVars
<1> QED
  BY <1>4, <1>5, <1>6, <1>9, <1>10, <1>11, <1>12, <1>13, <1>14, <1>15, <1>16 DEF SeriesNext

\* A call goes on with the series it's about, what it has read of it being
\* it as it is now, or what it had.
LEMMA CallGoesOn ==
    ASSUME SeriesInv, [SeriesNext]_seriesVars, stage \notin {"none", "renewing"},
           call'.id = call.id, call'.queue = call.queue, call'.target \in DOMAIN cal'.series, IsSeries(call'.read), IsSeries(call'.made),
           stage' = "dropping" => Rest(call'.at) \in DOMAIN cal'.series,
           stage' \in Splitting => \/ stage \in Splitting /\ call'.read = call.read
                                   \/ LaterOrSame(call'.read, cal'.series[call.id])
    PROVE  CallOK'
<1>1. DOMAIN call' = Fields /\ call' = [f \in Fields |-> call'[f]]
  BY CallShape
<1>2. /\ IsSeriesOf(cal) /\ IsSeriesOf(cal') /\ Behind(cal, cal') /\ DOMAIN cal.series \subseteq DOMAIN cal'.series
  BY CalMovesOn DEF SeriesInv, CalendarsOK
<1>3. call.queue \subseteq DOMAIN cal.series /\ call.id \in DOMAIN cal.series /\ IsSeries(call.read)
  BY DEF SeriesInv, CallOK
<1>4. ASSUME stage' \in Splitting PROVE LaterOrSame(call'.read, cal'.series[call'.id])
  <2>1. CASE stage \in Splitting /\ call'.read = call.read
    <3>1. LaterOrSame(call.read, cal.series[call.id]) /\ LaterOrSame(cal.series[call.id], cal'.series[call.id])
      BY <1>2, <1>3, <2>1 DEF SeriesInv, CallOK, Behind
    <3>2. IsSeries(call.read) /\ IsSeries(cal.series[call.id]) /\ IsSeries(cal'.series[call.id])
      BY <1>2, <1>3 DEF IsSeriesOf
    <3>3. LaterOrSame(call.read, cal'.series[call.id])
      BY <3>1, <3>2, LaterGoesOn
    <3> QED
      BY <2>1, <3>3
  <2> QED
    BY <1>4, <2>1
<1> QED
  BY <1>1, <1>2, <1>3, <1>4 DEF CallOK

\* A call that ends, or has none left, is about none.
LEMMA CallIsOver ==
    ASSUME SeriesInv, [SeriesNext]_seriesVars, stage' \in {"none", "renewing"},
           call'.queue \subseteq DOMAIN cal.series, IsSeries(call'.read), IsSeries(call'.made)
    PROVE  CallOK'
<1>1. DOMAIN call' = Fields /\ call' = [f \in Fields |-> call'[f]] /\ DOMAIN cal.series \subseteq DOMAIN cal'.series
  BY CallShape, CalMovesOn
<1> QED
  BY <1>1 DEF CallOK, Splitting

LEMMA UnreadIs == IsSeries(Unread)
BY DEF IsSeries, Unread

LEMMA AskedKept ==
    ASSUME SeriesInv, AskSeries
    PROVE  CallOK'
<1>1. PICK ask \in Asks, id \in DOMAIN heldCal.series : \E at \in Listed(heldCal, id) \cup {0} :
          LET part == at > heldCal.series[id].start
          IN  /\ call' = [NewCall EXCEPT !.do = ask.do, !.set = ask.set, !.id = id, !.at = at, !.read = heldCal.series[id],
                                         !.target = id, !.seen = elsewhere, !.clean = AllWell]
              /\ stage' = CASE ask.do = "delete" /\ ~part -> "cancelling"
                            [] ask.do = "delete" /\ part -> IF ByGoogle(id) THEN "importing" ELSE "ending"
                            [] ask.do = "update" /\ at = 0 -> "patching"
                            [] OTHER -> "reading"
  <2>1. PICK ask \in Asks, id \in DOMAIN heldCal.series : \E at \in Listed(heldCal, id) \cup (IF ask.do = "split" THEN {} ELSE {0}) :
          LET part == at > heldCal.series[id].start
          IN  /\ call' = [NewCall EXCEPT !.do = ask.do, !.set = ask.set, !.id = id, !.at = at, !.read = heldCal.series[id],
                                         !.target = id, !.seen = elsewhere, !.clean = AllWell]
              /\ stage' = CASE ask.do = "delete" /\ ~part -> "cancelling"
                            [] ask.do = "delete" /\ part -> IF ByGoogle(id) THEN "importing" ELSE "ending"
                            [] ask.do = "update" /\ at = 0 -> "patching"
                            [] OTHER -> "reading"
    BY DEF AskSeries
  <2> QED
    BY <2>1
<1>2. call'.id = id /\ call'.target = id /\ call'.read = heldCal.series[id] /\ call'.queue = {} /\ call'.made = Unread
  BY <1>1 DEF NewCall
<1>3. stage' # "dropping"
  BY <1>1
<1>4. cal' = cal /\ id \in DOMAIN cal.series /\ IsSeries(call'.read) /\ LaterOrSame(call'.read, cal.series[id])
  BY <1>2 DEF AskSeries, SeriesInv, CalendarsOK, Behind, IsSeriesOf
<1>5. DOMAIN call' = Fields /\ call' = [f \in Fields |-> call'[f]]
  BY CallShape DEF SeriesNext
<1> QED
  BY <1>2, <1>3, <1>4, <1>5, UnreadIs DEF CallOK

LEMMA RenewalKept ==
    ASSUME SeriesInv, AskRenewal
    PROVE  CallOK'
<1>1. PICK queue \in SUBSET DOMAIN cal.series : \E ask :
          /\ call' = [NewCall EXCEPT !.do = "renew", !.now = ask.now, !.queue = queue, !.clean = AllWell]
          /\ stage' \in {"none", "renewing"}
  BY DEF AskRenewal
<1>2. call'.queue = queue /\ call'.read = Unread /\ call'.made = Unread
  BY <1>1 DEF NewCall
<1> QED
  BY <1>1, <1>2, CallIsOver, UnreadIs DEF SeriesNext

LEMMA RenewingKept ==
    ASSUME SeriesInv, RenewNext
    PROVE  CallOK'
<1>1. PICK id \in call.queue : \E at :
          /\ call' = [call EXCEPT !.queue = @ \ {id}, !.id = id, !.at = at,
                                  !.target = id, !.count = 0, !.tries = 1, !.seen = elsewhere,
                                  !.clean = AllWell]
          /\ stage' \in {"reading", "none", "renewing"}
  BY DEF RenewNext
<1>2. DOMAIN call = Fields /\ call.queue \subseteq DOMAIN cal.series /\ IsSeries(call.read) /\ IsSeries(call.made)
  BY DEF SeriesInv, CallOK
<1>3. call'.queue = call.queue \ {id} /\ call'.id = id /\ call'.target = id /\ call'.read = call.read /\ call'.made = call.made
  BY <1>1, <1>2 DEF Fields
<1>4. DOMAIN call' = Fields /\ call' = [f \in Fields |-> call'[f]] /\ cal' = cal
  BY CallShape DEF SeriesNext, RenewNext
<1> QED
  BY <1>1, <1>2, <1>3, <1>4 DEF CallOK, Splitting

LEMMA ReadKept ==
    ASSUME SeriesInv, ReadToSplit
    PROVE  CallOK'
<1> DEFINE fresh == cal.series[call.id]
<1>1. stage = "reading" /\ cal' = cal /\ DOMAIN call = Fields /\ IsSeries(fresh) /\ call.id \in DOMAIN cal.series
      /\ call.target \in DOMAIN cal.series /\ IsSeries(call.made)
  BY SeriesThere DEF ReadToSplit, SeriesInv, CallOK
<1>2. /\ call'.id = call.id /\ call'.queue = call.queue /\ call'.target \in {call.id, call.target} /\ call'.read = fresh
      /\ call'.made = call.made
      /\ stage' \in {"patching", "none", "renewing", "creating", "counting"}
      /\ LaterOrSame(fresh, fresh)
  <2>1. CASE call.at <= fresh.start
    <3>1. SplitDone(call.id, fresh)
      BY <2>1 DEF ReadToSplit, FreshSeries
    <3> QED
      BY <1>1, <3>1 DEF SplitDone, CallEnds, GoesTo, Fields, LaterOrSame
  <2>2. CASE ~(call.at <= fresh.start)
    <3>1. /\ call' = [call EXCEPT !.read = fresh, !.seen = elsewhere]
          /\ \E step \in {"creating", "counting"} : CallEnds("refused") \/ GoesTo(step)
      BY <2>2 DEF ReadToSplit, FreshSeries
    <3> QED
      BY <1>1, <3>1 DEF CallEnds, GoesTo, Fields, LaterOrSame
  <2> QED
    BY <2>1, <2>2
<1> HIDE DEF fresh
<1>3. stage' \in Splitting => LaterOrSame(call'.read, cal'.series[call.id])
  BY <1>1, <1>2 DEF fresh
<1> QED
  BY <1>1, <1>2, <1>3, CallGoesOn DEF SeriesNext, Splitting

LEMMA CountKept ==
    ASSUME SeriesInv, CountInstances
    PROVE  CallOK'
<1>1. stage = "counting" /\ cal' = cal /\ DOMAIN call = Fields /\ call.target \in DOMAIN cal.series
      /\ IsSeries(call.read) /\ IsSeries(call.made)
  BY SeriesThere DEF CountInstances, SeriesInv, CallOK
<1>2. call'.id = call.id /\ call'.queue = call.queue /\ call'.target = call.target /\ call'.read = call.read
      /\ call'.made = call.made /\ stage' \in {"none", "renewing", "creating"}
  BY <1>1 DEF CountInstances, CallEnds, GoesTo, Fields
<1> QED
  BY <1>1, <1>2, CallGoesOn DEF SeriesNext, Splitting

LEMMA CreateKept ==
    ASSUME SeriesInv, CreateCopy
    PROVE  CallOK'
<1> DEFINE id == CopyOf(call.id, call.at)
<1>1. stage = "creating" /\ DOMAIN call = Fields /\ IsSeries(call.read) /\ DOMAIN cal.series \subseteq DOMAIN cal'.series
      /\ call.target \in DOMAIN cal.series /\ IsSeriesOf(cal) /\ IsSeries(call.made)
      /\ IsSeriesOf(cal') /\ \A i \in DOMAIN cal.series : IsSeries(GetSeries(i))
  BY SeriesThere, CalMovesOn DEF CreateCopy, SeriesInv, CallOK, SeriesNext, CalendarsOK, GetSeries, IsSeriesOf
<1>2. \/ UNCHANGED call /\ stage' \in {"none", "renewing"}
      \/ /\ \E made : IsSeries(made) /\ call' = [call EXCEPT !.target = id, !.made = made]
         /\ stage' \in {"importing", "ending", "reviving"} /\ id \in DOMAIN cal'.series
  <2>1. CASE id \in DOMAIN cal.series
    BY <1>1, <2>1 DEF CreateCopy, GoesTo, ToEnd
  <2>2. CASE id \notin DOMAIN cal.series
    <3>1. \A s : id \in DOMAIN Put(cal, id, s).series
      <4> HIDE DEF id
      <4> QED
        BY <1>1 DEF Put, With, IsSeriesOf
    <3> HIDE DEF id
    <3>2. \A s : Answered(id, s) => id \in DOMAIN cal'.series /\ IsSeries(cal'.series[id])
      BY <1>1, <3>1 DEF Answered, IsSeriesOf
    <3> QED
      BY <2>2, <3>2 DEF CreateCopy, GoesTo, ToEnd, CallEnds, id
  <2> QED
    BY <2>1, <2>2
<1> HIDE DEF id
<1>3. /\ call'.id = call.id /\ call'.queue = call.queue /\ call'.target \in DOMAIN cal'.series /\ call'.read = call.read
      /\ stage' \in {"none", "renewing", "importing", "ending", "reviving"}
  BY <1>1, <1>2 DEF Fields
<1>4. IsSeries(call'.made)
  BY <1>1, <1>2 DEF Fields
<1> QED
  BY <1>1, <1>3, <1>4, CallGoesOn DEF SeriesNext, Splitting

LEMMA ReviveKept ==
    ASSUME SeriesInv, ReviveCopy
    PROVE  CallOK'
<1>1. stage = "reviving" /\ DOMAIN call = Fields /\ IsSeries(call.read) /\ DOMAIN cal.series \subseteq DOMAIN cal'.series
      /\ call.target \in DOMAIN cal.series /\ IsSeries(call.made) /\ IsSeries(cal'.series[call.target])
  BY SeriesThere, CalMovesOn DEF ReviveCopy, SeriesInv, CallOK, SeriesNext, IsSeriesOf
<1>2. call'.id = call.id /\ call'.queue = call.queue /\ call'.target = call.target /\ call'.read = call.read
      /\ call'.made \in {call.made, cal'.series[call.target]}
      /\ stage' \in {"none", "renewing", "importing", "ending"}
  BY <1>1 DEF ReviveCopy, CallEnds, GoesTo, ToEnd, Fields
<1> QED
  BY <1>1, <1>2, CallGoesOn DEF SeriesNext, Splitting

LEMMA EndDoneKept ==
    ASSUME SeriesInv, [SeriesNext]_seriesVars, stage \notin {"none", "renewing"}, EndDone
    PROVE  CallOK'
<1>1. DOMAIN call = Fields /\ IsSeries(call.read) /\ call.target \in DOMAIN cal'.series /\ call.queue \subseteq DOMAIN cal.series
      /\ IsSeries(call.made)
  BY SeriesThere, CalMovesOn DEF SeriesInv, CallOK
<1>2. CASE CallEnds("done") /\ UNCHANGED call
  BY <1>1, <1>2, CallIsOver DEF CallEnds
<1>3. CASE SplitDone(call.target, call.made)
  <2>1. /\ call'.queue = call.queue /\ call'.id = call.id /\ call'.target = call.target
        /\ call'.read = call.made /\ call'.made = call.made /\ stage' \in {"none", "renewing", "patching"}
    BY <1>1, <1>3 DEF SplitDone, Fields, CallEnds, GoesTo
  <2> QED
    BY <1>1, <2>1, CallGoesOn DEF Splitting
<1> QED
  BY <1>2, <1>3 DEF EndDone

\* Steps that leave the call as it was, or but for how often it tried and what it read.
LEMMA OthersKept ==
    ASSUME SeriesInv,
           \/ EndSeries \/ ReadAgainToEnd \/ ImportRest \/ CancelRest \/ VerifyEnded \/ UndoCopy
           \/ PatchSeries \/ ReadAgainToPatch \/ CancelWhole \/ StopSeries
    PROVE  CallOK'
<1>1. /\ SeriesNext /\ stage \notin {"none"} /\ DOMAIN call = Fields /\ IsSeries(call.read) /\ IsSeries(call.made)
      /\ call.queue \subseteq DOMAIN cal.series /\ DOMAIN cal.series \subseteq DOMAIN cal'.series
      /\ IsSeriesOf(cal) /\ IsSeriesOf(heldCal)
  BY CalMovesOn DEF SeriesNext, SeriesInv, CallOK, CalendarsOK, EndSeries, ReadAgainToEnd, ImportRest, CancelRest, VerifyEnded,
     UndoCopy, PatchSeries, ReadAgainToPatch, CancelWhole, StopSeries
<1>2. CASE StopSeries
  <2>1. call' = call /\ stage' = "none"
    BY <1>2 DEF StopSeries
  <2> QED
    BY <1>1, <2>1, CallIsOver
<1>3. CASE stage # "renewing" /\ ~StopSeries
  <2>1. /\ call.id \in DOMAIN cal.series /\ call.target \in DOMAIN cal.series /\ call.target \in DOMAIN cal'.series
        /\ \A id \in DOMAIN cal.series : IsSeries(GetSeries(id)) /\ LaterOrSame(GetSeries(id), cal.series[id])
    BY <1>1, <1>3, SeriesThere DEF GetSeries, IsSeriesOf, SeriesInv, CalendarsOK, Behind, LaterOrSame
  <2>2. CASE EndDone
    BY <1>1, <1>3, <2>2, EndDoneKept
  <2> DEFINE Same == call'.id = call.id /\ call'.queue = call.queue /\ call'.target = call.target /\ call'.made = call.made
  <2>3. ASSUME EndFails, UNCHANGED call PROVE Same /\ call'.read = call.read /\ stage' \in {"none", "renewing", "undoing"}
    BY <2>3 DEF EndFails, CallEnds, GoesTo
  <2>4. CASE EndSeries /\ ~EndDone
    <3>1. Same /\ call'.read = call.read /\ stage' \in {"none", "renewing", "undoing", "rereading"} /\ stage = "ending"
      BY <1>1, <2>3, <2>4 DEF EndSeries, GoesTo, Fields
    <3> QED
      BY <1>1, <2>1, <3>1, CallGoesOn DEF Splitting
  <2>5. CASE ReadAgainToEnd
    <3>1. Same /\ call'.read = GetSeries(call.id) /\ stage' = "ending" /\ stage = "rereading" /\ cal' = cal
      BY <1>1, <2>5 DEF ReadAgainToEnd, GoesTo, Fields
    <3> QED
      BY <1>1, <2>1, <3>1, CallGoesOn
  <2>6. CASE ImportRest
    <3>1. Same /\ call'.read = call.read /\ call' = call /\ stage = "importing"
      BY <2>6 DEF ImportRest
    <3>2. CASE EndFails
      BY <1>1, <2>1, <2>3, <3>1, <3>2, CallGoesOn DEF Splitting
    <3>3. CASE ~EndFails
      <4>1. stage' = "dropping" /\ (cal' = WithRest(cal) \/ cal' = WithRest(Imported(cal)))
        BY <2>6, <3>3 DEF ImportRest, GoesTo
      <4>2. Rest(call.at) \in DOMAIN cal'.series
        BY <4>1, RestThere
      <4> QED
        BY <1>1, <2>1, <3>1, <4>1, <4>2, CallGoesOn DEF Splitting
    <3> QED
      BY <3>2, <3>3
  <2>7. CASE CancelRest
    <3>1. Same /\ call'.read = call.read /\ stage' \in {"none", "renewing", "undoing", "verifying"} /\ stage = "dropping"
      BY <2>3, <2>7 DEF CancelRest, GoesTo
    <3> QED
      BY <1>1, <2>1, <3>1, CallGoesOn DEF Splitting
  <2>8. CASE VerifyEnded /\ ~EndDone
    <3>1. Same /\ call'.read = call.read /\ stage' \in {"none", "renewing", "undoing"}
      BY <2>3, <2>8 DEF VerifyEnded
    <3> QED
      BY <1>1, <1>3, <2>1, <3>1, CallGoesOn DEF Splitting
  <2>9. CASE UndoCopy \/ CancelWhole
    <3>1. Same /\ call'.read = call.read /\ stage' \in {"none", "renewing"}
      BY <2>9 DEF UndoCopy, CancelWhole, CallEnds
    <3> QED
      BY <1>1, <1>3, <2>1, <3>1, CallGoesOn DEF Splitting
  <2>10. CASE PatchSeries
    <3>1. Same /\ call'.read = call.read /\ stage' \in {"none", "renewing", "repatching"}
      BY <1>1, <2>10 DEF PatchSeries, CallEnds, GoesTo, Fields
    <3> QED
      BY <1>1, <1>3, <2>1, <3>1, CallGoesOn DEF Splitting
  <2>11. CASE ReadAgainToPatch
    <3>1. Same /\ call'.read = GetSeries(call.target) /\ stage' = "patching"
      BY <1>1, <2>11 DEF ReadAgainToPatch, GoesTo, Fields
    <3> QED
      BY <1>1, <1>3, <2>1, <3>1, CallGoesOn DEF Splitting
  <2> QED
    BY <1>3, <2>2, <2>4, <2>5, <2>6, <2>7, <2>8, <2>9, <2>10, <2>11
<1>4. stage # "renewing" \/ StopSeries
  BY DEF EndSeries, ReadAgainToEnd, ImportRest, CancelRest, VerifyEnded, UndoCopy, PatchSeries, ReadAgainToPatch, CancelWhole
<1> QED
  BY <1>2, <1>3, <1>4

LEMMA CallKept ==
    ASSUME SeriesInv, [SeriesNext]_seriesVars
    PROVE  CallOK'
<1>1. CASE EditElsewhere \/ SyncSeries \/ UNCHANGED seriesVars
  <2>1. call' = call /\ stage' = stage
    BY <1>1 DEF EditElsewhere, SyncSeries, seriesVars
  <2>2. CASE stage \in {"none", "renewing"}
    BY <2>1, <2>2, CallIsOver DEF SeriesInv, CallOK
  <2>3. CASE stage \notin {"none", "renewing"}
    <3>1. DOMAIN cal.series \subseteq DOMAIN cal'.series /\ call.target \in DOMAIN cal.series
      BY <2>3, CalMovesOn, SeriesThere
    <3> QED
      BY <2>1, <2>3, <3>1, CallGoesOn DEF SeriesInv, CallOK
  <2> QED
    BY <2>2, <2>3
<1> QED
  BY <1>1, AskedKept, RenewalKept, RenewingKept, ReadKept, CountKept, CreateKept, ReviveKept, OthersKept DEF SeriesNext

\* What's read to be copied is the series as it is, till it's edited elsewhere.
LEMMA CopiesKept ==
    ASSUME SeriesInv, [SeriesNext]_seriesVars
    PROVE  CopiesAsRead'
<1>1. /\ elsewhere \in Nat /\ call.seen \in Nat /\ call.seen <= elsewhere /\ DOMAIN call = Fields
      /\ stage \in {"counting", "creating"} /\ call.seen = elsewhere => call.read = cal.series[call.id]
  BY DEF SeriesInv, CopiesAsRead, CallOK
<1>2. CASE EditElsewhere
  <2>1. elsewhere' = elsewhere + 1 /\ call' = call
    BY <1>2 DEF EditElsewhere
  <2> QED
    BY <1>1, <2>1 DEF CopiesAsRead
<1>3. CASE ~EditElsewhere
  <2>1. elsewhere' = elsewhere
    BY <1>3 DEF SeriesNext, seriesVars, AskSeries, AskRenewal, RenewNext, ReadToSplit, CountInstances, CreateCopy, ReviveCopy,
       EndSeries, ReadAgainToEnd, ImportRest, CancelRest, VerifyEnded, UndoCopy, PatchSeries, ReadAgainToPatch, CancelWhole,
       StopSeries, SyncSeries
  <2>2. CASE AskSeries
    <3>1. \E id : call'.seen = elsewhere /\ stage' \notin {"counting", "creating"}
      BY <2>2 DEF AskSeries, NewCall
    <3> QED
      BY <1>1, <2>1, <3>1 DEF CopiesAsRead
  <2>3. CASE AskRenewal
    <3>1. call'.seen = 0 /\ stage' \notin {"counting", "creating"}
      BY <2>3 DEF AskRenewal, NewCall
    <3> QED
      BY <1>1, <2>1, <3>1 DEF CopiesAsRead
  <2>4. CASE RenewNext
    <3>1. call'.seen = elsewhere /\ stage' \notin {"counting", "creating"}
      BY <1>1, <2>4 DEF RenewNext, Fields
    <3> QED
      BY <1>1, <2>1, <3>1 DEF CopiesAsRead
  <2>5. CASE ReadToSplit
    <3>1. cal' = cal /\ stage = "reading"
      BY <2>5 DEF ReadToSplit
    <3>2. CASE call.at <= FreshSeries(call.id).start
      <4>1. SplitDone(call.id, FreshSeries(call.id))
        BY <2>5, <3>2 DEF ReadToSplit
      <4>2. call'.seen = call.seen /\ stage' \notin {"counting", "creating"}
        BY <1>1, <4>1 DEF SplitDone, Fields, CallEnds, GoesTo
      <4> QED
        BY <1>1, <2>1, <4>2 DEF CopiesAsRead
    <3>3. CASE ~(call.at <= FreshSeries(call.id).start)
      <4>1. call' = [call EXCEPT !.read = cal.series[call.id], !.seen = elsewhere]
        BY <2>5, <3>3 DEF ReadToSplit, FreshSeries
      <4>2. call'.seen = elsewhere /\ call'.read = cal.series[call.id] /\ call'.id = call.id
        BY <1>1, <4>1 DEF Fields
      <4> QED
        BY <1>1, <2>1, <3>1, <4>2 DEF CopiesAsRead
    <3> QED
      BY <3>2, <3>3
  <2>6. CASE CountInstances
    <3>1. call'.seen = call.seen /\ call'.read = call.read /\ call'.id = call.id /\ cal' = cal /\ stage = "counting"
      BY <1>1, <2>6 DEF CountInstances, Fields
    <3> QED
      BY <1>1, <2>1, <3>1 DEF CopiesAsRead
  <2>7. CASE CreateCopy
    <3>1. call'.seen = call.seen /\ stage' \notin {"counting", "creating"}
      BY <1>1, <2>7 DEF CreateCopy, Fields, GoesTo, ToEnd, CallEnds
    <3> QED
      BY <1>1, <2>1, <3>1 DEF CopiesAsRead
  <2>8. CASE SyncSeries \/ UNCHANGED seriesVars
    BY <1>1, <2>1, <2>8 DEF SyncSeries, seriesVars, CopiesAsRead
  <2>9. CASE \/ ReviveCopy \/ EndSeries \/ ReadAgainToEnd \/ ImportRest \/ CancelRest \/ VerifyEnded \/ UndoCopy
             \/ PatchSeries \/ ReadAgainToPatch \/ CancelWhole \/ StopSeries
    <3>1. EndDone => call'.seen = call.seen /\ stage' \notin {"counting", "creating"}
      BY <1>1 DEF EndDone, SplitDone, Fields, CallEnds, GoesTo
    <3>2. EndFails => stage' \notin {"counting", "creating"}
      BY DEF EndFails, CallEnds, GoesTo
    <3>3. call'.seen = call.seen /\ stage' \notin {"counting", "creating"}
      BY <1>1, <2>9, <3>1, <3>2 DEF ReviveCopy, EndSeries, ReadAgainToEnd, ImportRest, CancelRest, VerifyEnded, UndoCopy,
         PatchSeries, ReadAgainToPatch, CancelWhole, StopSeries, Fields, CallEnds, GoesTo, ToEnd
    <3> QED
      BY <1>1, <2>1, <3>3 DEF CopiesAsRead
  <2> QED
    BY <1>3, <2>2, <2>3, <2>4, <2>5, <2>6, <2>7, <2>8, <2>9 DEF SeriesNext
<1> QED
  BY <1>2, <1>3

\* Whatever is asked, refused, lost, stopped or edited elsewhere, what a call
\* has read or is kept of a series is that series, or what it was at an
\* earlier version, and what's to be copied was read since the last edit.
THEOREM SeriesInvariant == SeriesSpec => []SeriesInv
<1>1. SeriesInit => SeriesInv
  <2> SUFFICES ASSUME SeriesInit PROVE SeriesInv
    OBVIOUS
  <2>1. IsSeriesOf(cal) /\ heldCal = cal
    BY FirstSeriesAssumption DEF SeriesInit, IsSeriesOf
  <2>2. CalendarsOK
    BY <2>1 DEF CalendarsOK, Behind, LaterOrSame
  <2>3. DOMAIN NewCall = Fields /\ NewCall = [f \in Fields |-> NewCall[f]]
    BY DEF NewCall, Fields
  <2>4. NewCall.queue = {} /\ NewCall.read = Unread /\ NewCall.made = Unread /\ NewCall.seen = 0
    BY DEF NewCall
  <2> QED
    BY <2>2, <2>3, <2>4, UnreadIs DEF SeriesInit, SeriesInv, CallOK, CopiesAsRead, Splitting
<1>2. SeriesInv /\ [SeriesNext]_seriesVars => SeriesInv'
  BY CalendarsKept, CallKept, CopiesKept DEF SeriesInv
<1> QED
  BY <1>1, <1>2, PTL DEF SeriesSpec

\* No write of a call puts back what was edited elsewhere: a series' fields
\* and its rules' days stay as they are but for an update's, and a copy is of
\* the series as it is unless it was edited since it was read for that (apply
\* onto the version read: end_series, patch; split's copy).
THEOREM ElsewhereIsKept == SeriesSpec => EditsKept
<1> DEFINE A == elsewhere' = elsewhere => \A id \in DOMAIN cal'.series \ {Rest(call.at)} :
        LET s == cal'.series[id]
            before == IF id \in DOMAIN cal.series THEN cal.series[id] ELSE cal.series[call.id]
            asked(field) == stage = "patching" /\ id = call.target /\ field \in DOMAIN call.set /\ s[field] = call.set[field]
        IN  \A field \in {"days", "val"} :
                \/ s[field] = before[field] \/ asked(field)
                \/ id \notin DOMAIN cal.series /\ call.seen # elsewhere
<1>1. SeriesInv /\ [SeriesNext]_seriesVars => [A]_seriesVars
  <2> SUFFICES ASSUME SeriesInv, [SeriesNext]_seriesVars PROVE [A]_seriesVars
    OBVIOUS
  <2>1. CASE EditElsewhere
    <3>1. elsewhere \in Nat /\ elsewhere' = elsewhere + 1
      BY <2>1 DEF EditElsewhere, SeriesInv, CopiesAsRead
    <3> QED
      BY <3>1
  <2>2. CASE ~EditElsewhere
    BY <2>2, EachWrites DEF Keeps, KeptField
  <2> QED
    BY <2>1, <2>2
<1>2. EditsKept <=> [][A]_seriesVars
  BY PTL DEF EditsKept
<1> QED
  BY <1>1, <1>2, SeriesInvariant, PTL DEF SeriesSpec

----------------------------------------------------------------------------
(* Ids, and the copies they're of *)

Labels == STRING \cup {"rest"} \cup Int
Rests(id) == Len(id) = 2 /\ id[1] = "rest"
\* One's a copy of another's copy, and so on.
Extends(y, k) == Len(y) > Len(k) /\ \A i \in 1..Len(k) : y[i] = k[i]

LEMMA CopyIs ==
    ASSUME NEW id \in Seq(Labels), NEW at \in Labels
    PROVE  /\ CopyOf(id, at) \in Seq(Labels) /\ Len(CopyOf(id, at)) = Len(id) + 1 /\ Len(id) \in Nat
           /\ \A i \in 1..Len(id) : CopyOf(id, at)[i] = id[i]
           /\ CopyOf(id, at)[Len(id) + 1] = at
           /\ Extends(CopyOf(id, at), id)
BY DEF CopyOf, Extends

\* A copy is of one series, from one time.
LEMMA CopyOfOne ==
    ASSUME NEW p \in Seq(Labels), NEW q \in Seq(Labels), NEW a \in Labels, NEW b \in Labels, CopyOf(p, a) = CopyOf(q, b)
    PROVE  p = q /\ a = b
<1> DEFINE c == CopyOf(p, a)
<1>0. c = CopyOf(q, b)
  OBVIOUS
<1>1. /\ Len(c) = Len(p) + 1 /\ c[Len(p) + 1] = a /\ (\A i \in 1..Len(p) : c[i] = p[i]) /\ Len(p) \in Nat
      /\ Len(c) = Len(q) + 1 /\ c[Len(q) + 1] = b /\ (\A i \in 1..Len(q) : c[i] = q[i]) /\ Len(q) \in Nat
  <2>1. /\ Len(c) = Len(p) + 1 /\ c[Len(p) + 1] = a /\ (\A i \in 1..Len(p) : c[i] = p[i]) /\ Len(p) \in Nat
    BY CopyIs
  <2> HIDE DEF c
  <2>2. /\ Len(c) = Len(q) + 1 /\ c[Len(q) + 1] = b /\ (\A i \in 1..Len(q) : c[i] = q[i]) /\ Len(q) \in Nat
    BY <1>0, CopyIs
  <2> QED
    BY <2>1, <2>2
<1> HIDE DEF c
<1>2. Len(p) = Len(q)
  BY <1>1
<1>3. a = b /\ \A i \in 1..Len(p) : p[i] = q[i]
  BY <1>1, <1>2
<1> QED
  BY <1>2, <1>3

LEMMA ExtendsOn ==
    ASSUME NEW x \in Seq(Labels), NEW y \in Seq(Labels), NEW z \in Seq(Labels), Extends(z, y), Extends(y, x)
    PROVE  Extends(z, x) /\ z # x
<1>1. Len(x) \in Nat /\ Len(y) \in Nat /\ Len(z) \in Nat /\ Len(z) > Len(y) /\ Len(y) > Len(x)
  BY DEF Extends
<1>2. Len(z) > Len(x) /\ 1..Len(x) \subseteq 1..Len(y)
  BY <1>1
<1>3. \A i \in 1..Len(x) : z[i] = x[i]
  BY <1>2 DEF Extends
<1>4. z # x
  BY <1>1, <1>2
<1> QED
  BY <1>2, <1>3, <1>4 DEF Extends

\* What's left of a series Google split is no copy of a series there is.
LEMMA RestIs ==
    ASSUME NEW at \in Int
    PROVE  /\ Rest(at) \in Seq(Labels) /\ Len(Rest(at)) = 2 /\ Rest(at)[2] = at /\ Rests(Rest(at))
           /\ \A id \in Seq(Labels), t \in Labels : Rests(CopyOf(id, t)) => Len(id) = 1 /\ id[1] = "rest"
<1>1. Rest(at) \in Seq(Labels) /\ Len(Rest(at)) = 2 /\ Rest(at)[1] = "rest" /\ Rest(at)[2] = at
  <2>1. "rest" \in Labels /\ at \in Labels
    BY DEF Labels
  <2> QED
    BY <2>1 DEF Rest
<1>2. ASSUME NEW id \in Seq(Labels), NEW t \in Labels, Rests(CopyOf(id, t)) PROVE Len(id) = 1 /\ id[1] = "rest"
  <2> SUFFICES ASSUME NEW c, c = CopyOf(id, t) PROVE Len(id) = 1 /\ id[1] = "rest"
    OBVIOUS
  <2>1. Len(c) = Len(id) + 1 /\ Len(id) \in Nat /\ \A i \in 1..Len(id) : c[i] = id[i]
    BY CopyIs
  <2>2. Len(c) = 2 /\ c[1] = "rest"
    BY <1>2 DEF Rests
  <2>a. \A m, n : n \in Nat /\ m = n + 1 /\ m = 2 => n = 1
    OBVIOUS
  <2>b. Len(c) = Len(id) + 1 /\ Len(id) \in Nat /\ Len(c) = 2
    BY <2>1, <2>2
  <2>3. Len(id) = 1
    BY <2>a, <2>b
  <2>4. c[1] = id[1]
    BY <2>1, <2>3
  <2> QED
    BY <2>2, <2>3, <2>4
<1> QED
  BY <1>1, <1>2 DEF Rests

----------------------------------------------------------------------------
(* The events a series has *)

\* What one gives, confirmed or not.
Gives(c, id) == {t \in Expanded(c.series[id]) : [of |-> id, at |-> t, to |-> 0] \notin c.edited}
LEMMA ListedIs ==
    ASSUME NEW c, NEW id
    PROVE  Listed(c, id) = IF Confirmed(c.series[id]) THEN Gives(c, id) ELSE {}
BY DEF Listed, Gives

\* One event is among the first that are expanded if those of a series'
\* before it are of one it's among the first of.
LEMMA ExpandedToo ==
    ASSUME NEW s, NEW r, IsTimed(s), IsTimed(r), NEW t \in Expanded(s), t \in Ruled(r),
           \A u \in Ruled(r) : u < t => u \in Ruled(s)
    PROVE  t \in Expanded(r)
<1> DEFINE A == {u \in Ruled(s) : u < t}
           B == {u \in Ruled(r) : u < t}
<1>1. t \in Ruled(s) /\ Cardinality(A) < Cap
  BY DEF Expanded
<1>2. B \subseteq A
  OBVIOUS
<1>3. A \subseteq s.start..LastSlot /\ s.start \in Int /\ LastSlot \in Int
  BY SlotsAssumption DEF Ruled, IsTimed
<1>4. IsFiniteSet(s.start..LastSlot)
  BY <1>3, FS_Interval
<1>5. IsFiniteSet(A)
  BY <1>3, <1>4, FS_Subset
<1>6. Cardinality(B) <= Cardinality(A) /\ Cardinality(A) \in Nat /\ Cardinality(B) \in Nat
  BY <1>2, <1>5, FS_Subset, FS_CardinalityType
<1>7. Cardinality(B) < Cap
  BY <1>1, <1>6, SlotsAssumption
<1> QED
  BY <1>7 DEF Expanded
LEMMA ExpandedIs ==
    ASSUME NEW s, IsTimed(s), NEW t \in Expanded(s)
    PROVE  /\ t \in Ruled(s) /\ t \in 1..LastSlot /\ s.start <= t /\ t <= s.until /\ t \notin s.skips
           /\ s.count # 0 => t < s.start + s.count
           /\ \A u \in s.start..t : u \notin s.skips => u \in Expanded(s)
<1>1. t \in Ruled(s) /\ t \in s.start..LastSlot /\ t <= s.until /\ t \notin s.skips /\ (s.count = 0 \/ t < s.start + s.count)
      /\ s.start \in 1..LastSlot /\ s.count \in Nat /\ s.until \in Int
  BY DEF Expanded, Ruled, IsTimed
<1>2. ASSUME NEW u \in s.start..t, u \notin s.skips PROVE u \in Expanded(s)
  <2>1. u \in Ruled(s)
    BY <1>1, <1>2, SlotsAssumption DEF Ruled
  <2> DEFINE A == {v \in Ruled(s) : v < t}
             B == {v \in Ruled(s) : v < u}
  <2>2. B \subseteq A /\ A \subseteq s.start..LastSlot
    BY <1>1, SlotsAssumption DEF Ruled
  <2>3. IsFiniteSet(A)
    <3>1. s.start \in Int /\ LastSlot \in Int
      BY <1>1, SlotsAssumption
    <3>2. IsFiniteSet(s.start..LastSlot)
      BY <3>1, FS_Interval
    <3> QED
      BY <2>2, <3>2, FS_Subset
  <2>4. Cardinality(B) <= Cardinality(A) /\ Cardinality(A) \in Nat /\ Cardinality(B) \in Nat
    BY <2>2, <2>3, FS_Subset, FS_CardinalityType
  <2>5. Cardinality(A) < Cap
    BY DEF Expanded
  <2>6. Cardinality(B) < Cap
    BY <2>4, <2>5, SlotsAssumption
  <2> QED
    BY <2>1, <2>6 DEF Expanded
<1> QED
  BY <1>1, <1>2, SlotsAssumption

\* Its times say what events a series has.
SameTimes(s, r) == s.start = r.start /\ s.count = r.count /\ s.until = r.until /\ s.skips = r.skips
LEMMA TimesSay ==
    ASSUME NEW s, NEW r, SameTimes(s, r)
    PROVE  Expanded(s) = Expanded(r)
<1>1. Ruled(s) = Ruled(r)
  BY DEF Ruled, SameTimes
<1> QED
  BY <1>1 DEF Expanded

\* Cut short, it has those before the end.
LEMMA CutShort ==
    ASSUME NEW s, NEW r, IsTimed(s), IsTimed(r), r.start = s.start, r.skips = s.skips, NEW t \in Expanded(s),
           t <= r.until, r.count = 0 \/ t < r.start + r.count
    PROVE  t \in Expanded(r)
<1>1. t \in Ruled(s) /\ \A u \in s.start..t : u \notin s.skips => u \in Expanded(s)
  BY ExpandedIs
<1>2. t \in Ruled(r)
  BY <1>1 DEF Ruled
<1>3. ASSUME NEW u \in Ruled(r), u < t PROVE u \in Ruled(s)
  <2>1. u \in s.start..t /\ u \notin s.skips
    BY <1>2, <1>3, SlotsAssumption DEF Ruled, IsTimed
  <2> QED
    BY <1>1, <2>1 DEF Expanded
<1> QED
  BY <1>2, <1>3, ExpandedToo

----------------------------------------------------------------------------
(* What is so of every calendar and call, told of or not *)

\* A copy begins at the time it was made from.
IsNamed(id, s) == id \in Seq(Labels) /\ Len(id) >= 1 /\ (Len(id) > 1 => s.start = id[Len(id)])
IsEdit(e) == e = [of |-> e.of, at |-> e.at, to |-> e.to]
SlotsOf(c) ==
    /\ \A id \in DOMAIN c.series : IsTimed(c.series[id]) /\ IsNamed(id, c.series[id])
    /\ \A e \in c.edited : IsEdit(e) /\ e.of \in DOMAIN c.series

\* While a call's under way that may end a series or cancel its copy.
Splits == Splitting \cup {"reading", "undoing"}
\* From when its copy's there till the series is ended.
Copied == {"ending", "rereading", "importing", "dropping", "verifying"}
Target == CopyOf(call.id, call.at)

CallSlots ==
    /\ IsTimed(call.read) /\ IsTimed(call.made) /\ call.count \in Nat /\ DOMAIN call.set \subseteq {"days", "val"}
    /\ stage \in Splits => call.at \in 1..LastSlot
    /\ stage \in Splits /\ stage \notin {"reading", "counting", "creating"} /\ call.do # "delete" => call.target = Target
    /\ stage \in Splits /\ stage \notin Copied => call.do # "delete"
    /\ stage = "cancelling" => call.do = "delete"
    /\ stage = "renewing" \/ call.queue # {} => call.do = "renew"
\* Once it's split, a series has ended before its copy.
SplitEnded ==
    \/ stage \in {"patching", "repatching"}
    \/ stage = "none" /\ reply = "done" /\ call.do \in {"split", "update"}
    => call.target = call.id \/ (call.target = Target /\ call.at \in 1..LastSlot /\ cal.series[call.id].until < call.at
                                 /\ {call.id, call.target} \subseteq DOMAIN cal.series)
SlotsInv == SlotsOf(cal) /\ (\A id \in DOMAIN heldCal.series : IsTimed(heldCal.series[id])) /\ CallSlots /\ SplitEnded

----------------------------------------------------------------------------
(* What's written, field by field *)

\* A series' fields as it's written.
LEMMA PutAll ==
    ASSUME NEW c, NEW id, NEW s, IsSeriesOf(c), IsSeries(s)
    PROVE  LET u == Put(c, id, s).series[id]
           IN  /\ SameTimes(u, s) /\ u.status = s.status
               /\ IsTimed(s) => IsTimed(u)
<1>1. \A field \in {"start", "count", "until", "skips", "status"} : Put(c, id, s).series[id][field] = s[field]
  BY PutFields
<1> QED
  BY <1>1 DEF SameTimes, IsTimed

LEMMA PutOne ==
    ASSUME NEW c, NEW id, NEW s, IsSeriesOf(c), IsSeries(s)
    PROVE  /\ IsSeriesOf(Put(c, id, s)) /\ Put(c, id, s).edited = c.edited
           /\ DOMAIN Put(c, id, s).series = DOMAIN c.series \cup {id}
           /\ \A i \in DOMAIN c.series \ {id} : Put(c, id, s).series[i] = c.series[i]
<1>0. Put(c, id, s).edited = c.edited
  BY DEF Put, IsSeriesOf
<1>a. IsSeriesOf(Put(c, id, s))
  BY PutIs
<1>1. IsSeriesOf(Put(c, id, s)) /\ Put(c, id, s).edited = c.edited
  BY <1>0, <1>a
<1>2. DOMAIN Put(c, id, s).series = DOMAIN c.series \cup {id}
  BY PutIs
<1>3. \A i \in DOMAIN c.series \ {id} : Put(c, id, s).series[i] = c.series[i]
  BY PutIs
<1> QED
  BY <1>1, <1>2, <1>3

LEMMA PutSlots ==
    ASSUME NEW c, NEW id, NEW s, IsSeriesOf(c), IsSeries(s), SlotsOf(c), IsTimed(s), IsNamed(id, s)
    PROVE  SlotsOf(Put(c, id, s))
<1> SUFFICES ASSUME NEW d, d = Put(c, id, s) PROVE SlotsOf(d)
  OBVIOUS
<1>1. /\ IsSeriesOf(d) /\ d.edited = c.edited /\ DOMAIN d.series = DOMAIN c.series \cup {id}
      /\ \A i \in DOMAIN c.series \ {id} : d.series[i] = c.series[i]
  BY PutOne
<1>2. SameTimes(d.series[id], s) /\ IsTimed(d.series[id])
  BY PutAll
<1>3. \A i \in DOMAIN d.series : IsTimed(d.series[i]) /\ IsNamed(i, d.series[i])
  BY <1>1, <1>2 DEF SlotsOf, IsNamed, SameTimes
<1> QED
  BY <1>1, <1>3 DEF SlotsOf

\* One series is written again, its times as they were.
Rewrites(id, status) ==
    /\ id \in DOMAIN cal.series /\ DOMAIN cal'.series = DOMAIN cal.series /\ cal'.edited = cal.edited
    /\ \A i \in DOMAIN cal.series \ {id} : cal'.series[i] = cal.series[i]
    /\ SameTimes(cal'.series[id], cal.series[id]) /\ cal'.series[id].status = status
LEMMA StatusRewritten ==
    ASSUME SeriesInv, NEW id \in DOMAIN cal.series, NEW v, cal' = Put(cal, id, [cal.series[id] EXCEPT !.status = v])
    PROVE  Rewrites(id, v)
<1> DEFINE s == [cal.series[id] EXCEPT !.status = v]
<1>1. IsSeriesOf(cal) /\ IsSeries(cal.series[id])
  BY DEF SeriesInv, CalendarsOK, IsSeriesOf
<1>a. IsSeries(s)
  BY <1>1, FieldChanged
<1>b. SameTimes(s, cal.series[id]) /\ s.status = v
  BY <1>1 DEF IsSeries, SameTimes
<1>2. IsSeries(s) /\ SameTimes(s, cal.series[id]) /\ s.status = v
  BY <1>a, <1>b
<1> HIDE DEF s
<1>3. cal' = Put(cal, id, s)
  BY DEF s
<1>c. /\ Put(cal, id, s).edited = cal.edited /\ DOMAIN Put(cal, id, s).series = DOMAIN cal.series \cup {id}
      /\ \A i \in DOMAIN cal.series \ {id} : Put(cal, id, s).series[i] = cal.series[i]
  BY <1>1, <1>2, PutOne
<1>4. /\ cal'.edited = cal.edited /\ DOMAIN cal'.series = DOMAIN cal.series \cup {id}
      /\ \A i \in DOMAIN cal.series \ {id} : cal'.series[i] = cal.series[i]
  BY <1>3, <1>c
<1>5. SameTimes(cal'.series[id], s) /\ cal'.series[id].status = s.status
  BY <1>1, <1>2, <1>3, PutAll
<1> QED
  BY <1>2, <1>4, <1>5 DEF Rewrites, SameTimes
LEMMA AmendedRewritten ==
    ASSUME SeriesInv, NEW id \in DOMAIN cal.series, NEW set, DOMAIN set \subseteq {"days", "val"},
           cal' = Put(cal, id, Amended(cal.series[id], set))
    PROVE  Rewrites(id, cal.series[id].status)
<1>1. IsSeriesOf(cal) /\ IsSeries(cal.series[id])
  BY DEF SeriesInv, CalendarsOK, IsSeriesOf
<1>2. IsPatched(cal, id, set, cal')
  BY <1>1 DEF IsPatched
<1>3. /\ cal'.edited = cal.edited /\ DOMAIN cal'.series = DOMAIN cal.series
      /\ \A i \in DOMAIN cal.series \ {id} : cal'.series[i] = cal.series[i]
      /\ \A field \in DOMAIN cal.series[id] \ {"version"} :
            cal'.series[id][field] = IF field \in DOMAIN set THEN set[field] ELSE cal.series[id][field]
  BY <1>2, AmendedIs
<1>4. {"start", "count", "until", "skips", "status"} \subseteq DOMAIN cal.series[id] \ {"version"}
  BY <1>1 DEF IsSeries
<1>5. \A field \in {"start", "count", "until", "skips", "status"} : cal'.series[id][field] = cal.series[id][field]
  BY <1>3, <1>4
<1> QED
  BY <1>3, <1>5 DEF Rewrites, SameTimes

LEMMA RewritesKeepsSlots ==
    ASSUME SlotsOf(cal), NEW id, NEW status, Rewrites(id, status)
    PROVE  SlotsOf(cal') /\ \A i \in DOMAIN cal.series : SameTimes(cal'.series[i], cal.series[i])
<1>1. \A i \in DOMAIN cal.series : SameTimes(cal'.series[i], cal.series[i])
  BY DEF Rewrites, SameTimes
<1> QED
  BY <1>1 DEF SlotsOf, Rewrites, SameTimes, IsTimed, IsNamed

\* A copy's made.
Creates ==
    /\ Target \notin DOMAIN cal.series /\ DOMAIN cal'.series = DOMAIN cal.series \cup {Target} /\ cal'.edited = cal.edited
    /\ \A i \in DOMAIN cal.series : cal'.series[i] = cal.series[i]
    /\ LET k == cal'.series[Target]
       IN  /\ k.start = call.at /\ k.count = call.count /\ k.until = call.read.until /\ k.skips = call.read.skips
           /\ k.status = "confirmed"
LEMMA CreatedIs ==
    ASSUME SeriesInv, SlotsInv, CreateCopy
    PROVE  (UNCHANGED cal \/ Creates) /\ SlotsOf(cal')
<1> DEFINE copy == [call.read EXCEPT !.start = call.at, !.count = call.count, !.status = "confirmed"]
<1>1. /\ stage = "creating" /\ IsSeries(call.read) /\ IsSeriesOf(cal) /\ IsTimed(call.read) /\ call.at \in 1..LastSlot
      /\ call.count \in Nat /\ call.id \in DOMAIN cal.series /\ SlotsOf(cal)
  BY SeriesThere DEF CreateCopy, SeriesInv, CalendarsOK, SlotsInv, CallSlots, Splits, Splitting
<1>a. IsSeries(copy)
  BY <1>1, FieldsChanged
<1>b. /\ copy.start = call.at /\ copy.count = call.count /\ copy.until = call.read.until
      /\ copy.skips = call.read.skips /\ copy.status = "confirmed"
  BY <1>1 DEF IsSeries
<1>2. /\ IsSeries(copy) /\ copy.start = call.at /\ copy.count = call.count /\ copy.until = call.read.until
      /\ copy.skips = call.read.skips /\ copy.status = "confirmed"
  BY <1>a, <1>b
<1>3. UNCHANGED cal \/ (Target \notin DOMAIN cal.series /\ cal' = Put(cal, Target, copy))
  BY WriteCases DEF CreateCopy, Target
<1>4. IsTimed(copy) /\ IsNamed(Target, copy)
  <2>1. call.id \in Seq(Labels) /\ Len(call.id) >= 1 /\ call.at \in Labels
    BY <1>1, SlotsAssumption DEF SlotsOf, IsNamed, Labels
  <2>2. Target \in Seq(Labels) /\ Len(Target) = Len(call.id) + 1 /\ Target[Len(call.id) + 1] = call.at /\ Len(call.id) \in Nat
    BY <2>1, CopyIs DEF Target
  <2> QED
    BY <1>1, <1>2, <2>1, <2>2 DEF IsTimed, IsNamed
<1> HIDE DEF copy
<1>5. CASE Target \notin DOMAIN cal.series /\ cal' = Put(cal, Target, copy)
  <2>1. /\ cal'.edited = cal.edited /\ DOMAIN cal'.series = DOMAIN cal.series \cup {Target}
        /\ \A i \in DOMAIN cal.series \ {Target} : cal'.series[i] = cal.series[i]
    BY <1>1, <1>2, <1>5, PutOne
  <2>2. SameTimes(cal'.series[Target], copy) /\ cal'.series[Target].status = copy.status
    BY <1>1, <1>2, <1>5, PutAll
  <2>3. SlotsOf(cal')
    BY <1>1, <1>2, <1>4, <1>5, PutSlots
  <2> QED
    BY <1>2, <1>5, <2>1, <2>2, <2>3 DEF Creates, SameTimes
<1> QED
  BY <1>1, <1>3, <1>5

\* A series is ended before a time, or isn't as its write failed.
Ends ==
    /\ DOMAIN cal'.series = DOMAIN cal.series /\ cal'.edited = cal.edited
    /\ \A i \in DOMAIN cal.series \ {call.id} : cal'.series[i] = cal.series[i]
    /\ LET s == cal.series[call.id]
           e == cal'.series[call.id]
       IN  e.start = s.start /\ e.skips = s.skips /\ e.count = 0 /\ e.until = call.at - 1 /\ e.status = s.status

\* What a step leaves of the call when it ends a series or doesn't.
EndGoes ==
    \/ Ends /\ EndDone /\ heldCal' = KeptOf(cal', call.id) /\ UNCHANGED untold
    \/ Ends /\ EndFails /\ untold' = TRUE /\ UNCHANGED <<heldCal, call>>
    \/ UNCHANGED cal /\ EndFails /\ UNCHANGED <<call, untold>>
    \/ UNCHANGED cal /\ stage' = "rereading" /\ call' = [call EXCEPT !.tries = @ + 1] /\ UNCHANGED untold
LEMMA EndGoesSo ==
    ASSUME SeriesInv, SlotsInv, EndSeries
    PROVE  EndGoes /\ SlotsOf(cal')
<1> DEFINE s == cal.series[call.id]
           ended == [s EXCEPT !.days = call.read.days, !.skips = call.read.skips, !.count = 0, !.until = call.at - 1]
<1>1. /\ stage = "ending" /\ IsSeries(s) /\ IsSeries(call.read) /\ call.id \in DOMAIN cal.series /\ IsSeriesOf(cal)
      /\ call.at \in 1..LastSlot /\ SlotsOf(cal)
  BY SeriesThere DEF EndSeries, SeriesInv, CalendarsOK, SlotsInv, CallSlots, Splits, Splitting
<1>a. IsSeries(ended)
  BY <1>1, FieldsChanged
<1>b. /\ ended.start = s.start /\ ended.skips = call.read.skips /\ ended.count = 0
      /\ ended.until = call.at - 1 /\ ended.status = s.status
  BY <1>1 DEF IsSeries
<1>2. /\ IsSeries(ended) /\ ended.start = s.start /\ ended.skips = call.read.skips /\ ended.count = 0
      /\ ended.until = call.at - 1 /\ ended.status = s.status
  BY <1>a, <1>b
<1>3. ASSUME AtRead(call.id, call.read) PROVE call.read = s
  <2>1. LaterOrSame(call.read, s)
    BY <1>1 DEF SeriesInv, CallOK, Splitting
  <2> QED
    BY <1>1, <1>3, <2>1 DEF AtRead, LaterOrSame, IsSeries
<1>4. IsTimed(ended) /\ IsNamed(call.id, ended)
  <2>1. IsTimed(s) /\ IsNamed(call.id, s) /\ call.at - 1 \in Int
    BY <1>1, SlotsAssumption DEF SlotsOf
  <2> QED
    BY <1>2, <2>1 DEF IsTimed, IsNamed
<1>5. \/ AtRead(call.id, call.read) /\ Answered(call.id, ended) /\ EndDone /\ UNCHANGED untold
      \/ Refused /\ EndFails /\ UNCHANGED <<call, untold>>
      \/ AtRead(call.id, call.read) /\ Lost(call.id, ended) /\ EndFails /\ untold' = TRUE /\ UNCHANGED call
      \/ UNCHANGED cal /\ stage' = "rereading" /\ call' = [call EXCEPT !.tries = @ + 1] /\ UNCHANGED untold
      \/ UNCHANGED cal /\ EndFails /\ UNCHANGED <<call, untold>>
  BY DEF EndSeries, GoesTo, Outdated
<1> HIDE DEF ended
<1>6. ASSUME AtRead(call.id, call.read), cal' = Put(cal, call.id, ended)
      PROVE  Ends /\ SlotsOf(cal')
  <2>a. /\ Put(cal, call.id, ended).edited = cal.edited /\ DOMAIN Put(cal, call.id, ended).series = DOMAIN cal.series \cup {call.id}
        /\ \A i \in DOMAIN cal.series \ {call.id} : Put(cal, call.id, ended).series[i] = cal.series[i]
    BY <1>1, <1>2, PutOne
  <2>b. SameTimes(Put(cal, call.id, ended).series[call.id], ended) /\ Put(cal, call.id, ended).series[call.id].status = ended.status
    BY <1>1, <1>2, PutAll
  <2>c. SlotsOf(Put(cal, call.id, ended))
    BY <1>1, <1>2, <1>4, PutSlots
  <2>1. /\ cal'.edited = cal.edited /\ DOMAIN cal'.series = DOMAIN cal.series \cup {call.id}
        /\ \A i \in DOMAIN cal.series \ {call.id} : cal'.series[i] = cal.series[i]
        /\ SameTimes(cal'.series[call.id], ended) /\ cal'.series[call.id].status = ended.status
        /\ SlotsOf(cal')
    BY <1>6, <2>a, <2>b, <2>c
  <2>2. DOMAIN cal'.series = DOMAIN cal.series
    BY <1>1, <2>1
  <2> QED
    BY <1>2, <1>3, <1>6, <2>1, <2>2 DEF Ends, SameTimes
<1>7. Answered(call.id, ended) => cal' = Put(cal, call.id, ended) /\ heldCal' = KeptOf(cal', call.id)
  <2> SUFFICES ASSUME Answered(call.id, ended) PROVE cal' = Put(cal, call.id, ended) /\ heldCal' = KeptOf(cal', call.id)
    OBVIOUS
  <2>1. PICK c \in {Put(cal, call.id, ended)} : cal' = c /\ heldCal' = KeptOf(c, call.id)
    BY DEF Answered
  <2>2. KeptOf(c, call.id) = KeptOf(cal', call.id)
    BY <2>1
  <2> QED
    BY <2>1, <2>2
<1>8. CASE UNCHANGED cal
  <2>1. SlotsOf(cal')
    BY <1>1, <1>8
  <2>2. AtRead(call.id, call.read) /\ cal' = Put(cal, call.id, ended) => Ends
    BY <1>6
  <2> QED
    BY <1>5, <1>7, <1>8, <2>1, <2>2 DEF EndGoes, Lost
<1>9. CASE ~UNCHANGED cal
  BY <1>5, <1>6, <1>7, <1>9 DEF EndGoes, Lost, Refused
<1> QED
  BY <1>8, <1>9

\* What's left of a series Google split is imported, and ends it or doesn't,
\* what was edited on its own going with it.
MovedEdit(e) == [e EXCEPT !.of = IF e.of = call.id /\ e.at >= call.at THEN Rest(call.at) ELSE @]
CutAt(e, s) ==
    /\ e.start = s.start /\ e.count = s.count /\ e.skips = s.skips /\ e.status = s.status
    /\ e.until <= s.until /\ e.until < call.at /\ e.until \in {s.until, call.at - 1}
Imports ==
    /\ DOMAIN cal'.series = DOMAIN cal.series \cup {Rest(call.at)}
    /\ \A i \in DOMAIN cal.series \ {call.id, Rest(call.at)} : cal'.series[i] = cal.series[i]
    /\ cal'.series[Rest(call.at)].start = call.at /\ IsTimed(cal'.series[Rest(call.at)])
    /\ \/ cal'.edited = cal.edited /\ (call.id # Rest(call.at) => cal'.series[call.id] = cal.series[call.id])
       \/ /\ cal'.edited = {MovedEdit(e) : e \in cal.edited}
          /\ call.id # Rest(call.at) => CutAt(cal'.series[call.id], cal.series[call.id])

LEMMA MinOfTwo ==
    ASSUME NEW a \in Int, NEW b \in Int
    PROVE  Min({a, b}) = IF a <= b THEN a ELSE b
<1>1. \E x \in {a, b} : \A y \in {a, b} : x <= y
  OBVIOUS
<1>2. Min({a, b}) \in {a, b} /\ \A y \in {a, b} : Min({a, b}) <= y
  BY <1>1 DEF Min
<1> QED
  BY <1>2

LEMMA ImportedIs ==
    ASSUME SeriesInv, SlotsInv, stage = "importing", cal' = WithRest(cal) \/ cal' = WithRest(Imported(cal))
    PROVE  Imports /\ SlotsOf(cal')
<1> DEFINE s == cal.series[call.id]
           ended == [s EXCEPT !.until = Min({s.until, call.at - 1})]
           c == Put(cal, call.id, ended)
           d == Imported(cal)
           rest == [call.read EXCEPT !.start = call.at, !.status = "confirmed"]
           r == Rest(call.at)
<1>1. /\ IsSeries(s) /\ IsSeries(call.read) /\ call.id \in DOMAIN cal.series /\ IsSeriesOf(cal)
      /\ call.at \in 1..LastSlot /\ SlotsOf(cal) /\ IsTimed(s) /\ IsTimed(call.read) /\ call.at \in Int
  BY SeriesThere, SlotsAssumption DEF SeriesInv, CalendarsOK, SlotsInv, CallSlots, Splits, Splitting, SlotsOf
<1>2. IsSeries(ended) /\ IsSeries(rest)
  BY <1>1, FieldChanged, FieldsChanged
<1>3. /\ ended.start = s.start /\ ended.count = s.count /\ ended.skips = s.skips /\ ended.status = s.status
      /\ ended.until = Min({s.until, call.at - 1})
  BY <1>1 DEF IsSeries
<1>4. rest.start = call.at /\ rest.count = call.read.count /\ rest.until = call.read.until
  BY <1>1 DEF IsSeries
<1>5. CutAt(ended, s)
  <2>1. s.until \in Int /\ call.at - 1 \in Int
    BY <1>1 DEF IsTimed
  <2>2. Min({s.until, call.at - 1}) = IF s.until <= call.at - 1 THEN s.until ELSE call.at - 1
    BY <2>1, MinOfTwo
  <2> QED
    BY <1>1, <1>3, <2>1, <2>2 DEF CutAt
<1>6. IsTimed(ended) /\ IsTimed(rest)
  <2>1. ended.until \in Int
    BY <1>1, <1>5 DEF CutAt, IsTimed
  <2> QED
    BY <1>1, <1>3, <1>4, <2>1 DEF IsTimed
<1>7. IsNamed(call.id, ended)
  BY <1>1, <1>3 DEF SlotsOf, IsNamed
<1>8. IsNamed(r, rest)
  BY <1>1, <1>4, RestIs DEF IsNamed
<1>9. d = [c EXCEPT !.edited = {MovedEdit(e) : e \in @}]
  BY DEF Imported, MovedEdit
<1> HIDE DEF ended, rest, r
<1>10. /\ IsSeriesOf(c) /\ c.edited = cal.edited /\ DOMAIN c.series = DOMAIN cal.series \cup {call.id}
       /\ \A i \in DOMAIN cal.series \ {call.id} : c.series[i] = cal.series[i]
  BY <1>1, <1>2, PutOne
<1>11. SameTimes(c.series[call.id], ended) /\ c.series[call.id].status = ended.status
  BY <1>1, <1>2, PutAll
<1>12. SlotsOf(c)
  BY <1>1, <1>2, <1>6, <1>7, PutSlots
<1> HIDE DEF c, d
<1>13. d.series = c.series /\ d.edited = {MovedEdit(e) : e \in cal.edited} /\ d = [series |-> d.series, edited |-> d.edited]
  BY <1>9, <1>10 DEF IsSeriesOf
<1>14. IsSeriesOf(d) /\ DOMAIN d.series = DOMAIN cal.series
  BY <1>1, <1>10, <1>13 DEF IsSeriesOf
<1>15. CutAt(d.series[call.id], s) /\ \A i \in DOMAIN cal.series \ {call.id} : d.series[i] = cal.series[i]
  BY <1>5, <1>10, <1>11, <1>13 DEF CutAt, SameTimes
<1>16. \A i \in DOMAIN d.series : IsTimed(d.series[i]) /\ IsNamed(i, d.series[i])
  BY <1>12, <1>13 DEF SlotsOf
<1>17. \A e \in d.edited : IsEdit(e) /\ e.of \in DOMAIN cal.series \cup {r}
  <2>1. \A e \in cal.edited : IsEdit(MovedEdit(e)) /\ MovedEdit(e).of \in {e.of, r} /\ e.of \in DOMAIN cal.series
    <3> SUFFICES ASSUME NEW e \in cal.edited PROVE IsEdit(MovedEdit(e)) /\ MovedEdit(e).of \in {e.of, r} /\ e.of \in DOMAIN cal.series
      OBVIOUS
    <3>1. e = [of |-> e.of, at |-> e.at, to |-> e.to] /\ e.of \in DOMAIN cal.series
      BY <1>1 DEF SlotsOf, IsEdit
    <3>2. \E o \in {e.of, r} : MovedEdit(e) = [e EXCEPT !.of = o]
      BY DEF MovedEdit, r
    <3>3. PICK o \in {e.of, r} : MovedEdit(e) = [e EXCEPT !.of = o]
      BY <3>2
    <3>4. MovedEdit(e) = [of |-> o, at |-> e.at, to |-> e.to]
      BY <3>1, <3>3
    <3> QED
      BY <3>1, <3>4 DEF IsEdit
  <2> QED
    BY <1>13, <2>1
<1>18. ASSUME NEW e, e = cal \/ e = d, cal' = Put(e, r, rest)
       PROVE  Imports /\ SlotsOf(cal')
  <2>1. IsSeriesOf(e) /\ DOMAIN e.series = DOMAIN cal.series
    BY <1>1, <1>14, <1>18
  <2>a. /\ Put(e, r, rest).edited = e.edited /\ DOMAIN Put(e, r, rest).series = DOMAIN e.series \cup {r}
        /\ \A i \in DOMAIN e.series \ {r} : Put(e, r, rest).series[i] = e.series[i]
    BY <1>2, <2>1, PutOne
  <2>b. SameTimes(Put(e, r, rest).series[r], rest)
    BY <1>2, <2>1, PutAll
  <2>2. /\ cal'.edited = e.edited /\ DOMAIN cal'.series = DOMAIN cal.series \cup {r}
        /\ \A i \in DOMAIN cal.series \ {r} : cal'.series[i] = e.series[i]
        /\ SameTimes(cal'.series[r], rest)
    BY <1>18, <2>1, <2>a, <2>b
  <2>3. cal'.series[r].start = call.at /\ IsTimed(cal'.series[r]) /\ IsNamed(r, cal'.series[r])
    BY <1>4, <1>6, <1>8, <2>2 DEF SameTimes, IsTimed, IsNamed
  <2>4. \A i \in DOMAIN cal'.series : IsTimed(cal'.series[i]) /\ IsNamed(i, cal'.series[i])
    BY <1>1, <1>14, <1>16, <1>18, <2>2, <2>3 DEF SlotsOf
  <2>5. \A x \in cal'.edited : IsEdit(x) /\ x.of \in DOMAIN cal'.series
    BY <1>1, <1>17, <1>18, <2>2 DEF SlotsOf
  <2>6. SlotsOf(cal')
    BY <2>4, <2>5 DEF SlotsOf
  <2>7. Imports
    BY <1>1, <1>13, <1>15, <1>18, <2>2, <2>3 DEF Imports, r
  <2> QED
    BY <2>6, <2>7
<1>19. \A e : WithRest(e) = Put(e, r, rest)
  BY DEF WithRest, rest, r
<1> QED
  BY <1>18, <1>19 DEF d

\* A series is cut to its first event elsewhere, or one of its events edited on its own.
Narrows(id) ==
    /\ id \in DOMAIN cal.series /\ DOMAIN cal'.series = DOMAIN cal.series /\ cal'.edited = cal.edited
    /\ \A i \in DOMAIN cal.series \ {id} : cal'.series[i] = cal.series[i]
    /\ LET s == cal.series[id]
           e == cal'.series[id]
       IN  /\ e.start = s.start /\ e.skips = s.skips /\ e.status = s.status
           /\ \/ s.count = 0 /\ e.count = 0 /\ e.until = s.start /\ s.start < s.until
              \/ s.count # 0 /\ e.count = 1 /\ e.until = s.until
           /\ wanted' = wanted \ {t \in Listed(cal, id) : t > s.start}
EditsOne(edit) ==
    /\ DOMAIN cal'.series = DOMAIN cal.series /\ cal'.edited = cal.edited \cup {edit}
    /\ \A i \in DOMAIN cal.series : SameTimes(cal'.series[i], cal.series[i]) /\ cal'.series[i].status = cal.series[i].status
ElsewhereDoes(id) ==
    /\ id \in DOMAIN cal.series /\ Confirmed(cal.series[id])
    /\ \/ Rewrites(id, cal.series[id].status) /\ UNCHANGED wanted
       \/ Rewrites(id, "cancelled") /\ wanted' = {}
       \/ Narrows(id)
       \/ \E t \in Listed(cal, id) : EditsOne([of |-> id, at |-> t, to |-> 0]) /\ wanted' = wanted \ {t}
       \/ \E t \in Listed(cal, id) : EditsOne([of |-> id, at |-> t, to |-> 1]) /\ UNCHANGED wanted

LEMMA NarrowedIs ==
    ASSUME SeriesInv, SlotsOf(cal), NEW id \in DOMAIN cal.series,
           LET s == cal.series[id]
           IN  /\ s.until > s.start /\ s.count # 1
               /\ cal' = Put(cal, id, IF s.count = 0 THEN [s EXCEPT !.until = s.start] ELSE [s EXCEPT !.count = 1])
               /\ wanted' = wanted \ {t \in Listed(cal, id) : t > s.start}
    PROVE  Narrows(id) /\ SlotsOf(cal')
<1> DEFINE s == cal.series[id]
           e == IF s.count = 0 THEN [s EXCEPT !.until = s.start] ELSE [s EXCEPT !.count = 1]
<1>1. IsSeriesOf(cal) /\ IsSeries(s) /\ IsTimed(s) /\ IsNamed(id, s)
  BY DEF SeriesInv, CalendarsOK, IsSeriesOf, SlotsOf
<1>a. IsSeries([s EXCEPT !.until = s.start]) /\ IsSeries([s EXCEPT !.count = 1])
  BY <1>1, FieldChanged
<1>2. IsSeries(e)
  BY <1>a
<1>3. /\ e.start = s.start /\ e.skips = s.skips /\ e.status = s.status
      /\ \/ s.count = 0 /\ e.count = 0 /\ e.until = s.start
         \/ s.count # 0 /\ e.count = 1 /\ e.until = s.until
  BY <1>1 DEF IsSeries
<1>b. cal' = Put(cal, id, e) /\ s.until > s.start /\ wanted' = wanted \ {t \in Listed(cal, id) : t > s.start}
  OBVIOUS
<1> HIDE DEF e
<1>4. IsTimed(e) /\ IsNamed(id, e)
  BY <1>1, <1>3, SlotsAssumption DEF IsTimed, IsNamed
<1>c. /\ Put(cal, id, e).edited = cal.edited /\ DOMAIN Put(cal, id, e).series = DOMAIN cal.series \cup {id}
      /\ \A i \in DOMAIN cal.series \ {id} : Put(cal, id, e).series[i] = cal.series[i]
  BY <1>1, <1>2, PutOne
<1>d. SameTimes(Put(cal, id, e).series[id], e) /\ Put(cal, id, e).series[id].status = e.status
  BY <1>1, <1>2, PutAll
<1>e. SlotsOf(Put(cal, id, e))
  BY <1>1, <1>2, <1>4, PutSlots
<1>5. /\ cal'.edited = cal.edited /\ DOMAIN cal'.series = DOMAIN cal.series \cup {id}
      /\ \A i \in DOMAIN cal.series \ {id} : cal'.series[i] = cal.series[i]
      /\ SameTimes(cal'.series[id], e) /\ cal'.series[id].status = e.status /\ SlotsOf(cal')
  BY <1>b, <1>c, <1>d, <1>e
<1>6. DOMAIN cal'.series = DOMAIN cal.series
  BY <1>5
<1>7. s.start < s.until
  BY <1>1, <1>b DEF IsTimed
<1> HIDE DEF s
<1>8. Narrows(id)
  BY <1>3, <1>5, <1>6, <1>7, <1>b DEF Narrows, SameTimes, s
<1> QED
  BY <1>5, <1>8

LEMMA OneEditedIs ==
    ASSUME SeriesInv, SlotsOf(cal), NEW id \in DOMAIN cal.series, NEW t, NEW to,
           cal' = [Put(cal, id, cal.series[id]) EXCEPT !.edited = @ \cup {[of |-> id, at |-> t, to |-> to]}]
    PROVE  EditsOne([of |-> id, at |-> t, to |-> to]) /\ SlotsOf(cal')
<1> DEFINE s == cal.series[id]
           c == Put(cal, id, s)
           edit == [of |-> id, at |-> t, to |-> to]
<1>1. IsSeriesOf(cal) /\ IsSeries(s) /\ IsTimed(s) /\ IsNamed(id, s)
  BY DEF SeriesInv, CalendarsOK, IsSeriesOf, SlotsOf
<1>2. /\ IsSeriesOf(c) /\ c.edited = cal.edited /\ DOMAIN c.series = DOMAIN cal.series \cup {id}
      /\ \A i \in DOMAIN cal.series \ {id} : c.series[i] = cal.series[i]
  BY <1>1, PutOne
<1>3. SameTimes(c.series[id], s) /\ c.series[id].status = s.status
  BY <1>1, PutAll
<1>4. SlotsOf(c)
  BY <1>1, PutSlots
<1>5. cal' = [c EXCEPT !.edited = @ \cup {edit}]
  OBVIOUS
<1> HIDE DEF c
<1>6. cal'.series = c.series /\ cal'.edited = cal.edited \cup {edit}
  BY <1>2, <1>5 DEF IsSeriesOf
<1>7. DOMAIN cal'.series = DOMAIN cal.series
  BY <1>2, <1>6
<1>8. \A i \in DOMAIN cal.series : SameTimes(cal'.series[i], cal.series[i]) /\ cal'.series[i].status = cal.series[i].status
  BY <1>2, <1>3, <1>6 DEF SameTimes
<1>9. \A e \in cal'.edited : IsEdit(e) /\ e.of \in DOMAIN cal'.series
  <2>1. IsEdit(edit) /\ edit.of = id
    BY DEF IsEdit
  <2> QED
    BY <1>6, <1>7, <2>1 DEF SlotsOf
<1>10. SlotsOf(cal')
  BY <1>4, <1>6, <1>9 DEF SlotsOf
<1> QED
  BY <1>6, <1>7, <1>8, <1>10 DEF EditsOne

LEMMA ElsewhereIs ==
    ASSUME SeriesInv, SlotsOf(cal), EditElsewhere
    PROVE  (\E id \in DOMAIN cal.series : ElsewhereDoes(id)) /\ SlotsOf(cal')
<1>1. PICK id \in {i \in DOMAIN cal.series : Confirmed(cal.series[i])} :
          LET s == cal.series[id]
              instance(edit) == [Put(cal, id, s) EXCEPT !.edited = @ \cup {edit}]
          IN  \/ \E set \in {[val |-> "theirs"], [days |-> "theirs"]} : cal' = Put(cal, id, Amended(s, set)) /\ UNCHANGED wanted
              \/ cal' = Put(cal, id, [s EXCEPT !.status = "cancelled"]) /\ wanted' = {}
              \/ /\ s.until > s.start /\ s.count # 1
                 /\ cal' = Put(cal, id, IF s.count = 0 THEN [s EXCEPT !.until = s.start] ELSE [s EXCEPT !.count = 1])
                 /\ wanted' = wanted \ {t \in Listed(cal, id) : t > s.start}
              \/ \E t \in Listed(cal, id) : cal' = instance([of |-> id, at |-> t, to |-> 0]) /\ wanted' = wanted \ {t}
              \/ \E t \in Listed(cal, id) : cal' = instance([of |-> id, at |-> t, to |-> 1]) /\ UNCHANGED wanted
  BY DEF EditElsewhere
<1> DEFINE s == cal.series[id]
<1>2. id \in DOMAIN cal.series /\ Confirmed(s)
  OBVIOUS
<1>3. CASE \E set \in {[val |-> "theirs"], [days |-> "theirs"]} : cal' = Put(cal, id, Amended(s, set)) /\ UNCHANGED wanted
  <2>1. PICK set \in {[val |-> "theirs"], [days |-> "theirs"]} : cal' = Put(cal, id, Amended(s, set)) /\ UNCHANGED wanted
    BY <1>3
  <2>2. DOMAIN set \subseteq {"days", "val"}
    OBVIOUS
  <2>3. Rewrites(id, s.status)
    BY <1>2, <2>1, <2>2, AmendedRewritten
  <2>4. SlotsOf(cal')
    BY <2>3, RewritesKeepsSlots
  <2> QED
    BY <1>2, <2>1, <2>3, <2>4 DEF ElsewhereDoes
<1>4. CASE cal' = Put(cal, id, [s EXCEPT !.status = "cancelled"]) /\ wanted' = {}
  <2>1. Rewrites(id, "cancelled")
    BY <1>2, <1>4, StatusRewritten
  <2>2. SlotsOf(cal')
    BY <2>1, RewritesKeepsSlots
  <2> QED
    BY <1>2, <1>4, <2>1, <2>2 DEF ElsewhereDoes
<1>5. CASE /\ s.until > s.start /\ s.count # 1
           /\ cal' = Put(cal, id, IF s.count = 0 THEN [s EXCEPT !.until = s.start] ELSE [s EXCEPT !.count = 1])
           /\ wanted' = wanted \ {t \in Listed(cal, id) : t > s.start}
  <2>1. Narrows(id) /\ SlotsOf(cal')
    BY <1>2, <1>5, NarrowedIs
  <2> QED
    BY <1>2, <2>1 DEF ElsewhereDoes
<1>6. CASE \E t \in Listed(cal, id) :
              cal' = [Put(cal, id, s) EXCEPT !.edited = @ \cup {[of |-> id, at |-> t, to |-> 0]}] /\ wanted' = wanted \ {t}
  <2>1. PICK t \in Listed(cal, id) :
              cal' = [Put(cal, id, s) EXCEPT !.edited = @ \cup {[of |-> id, at |-> t, to |-> 0]}] /\ wanted' = wanted \ {t}
    BY <1>6
  <2>2. EditsOne([of |-> id, at |-> t, to |-> 0]) /\ SlotsOf(cal')
    BY <1>2, <2>1, OneEditedIs
  <2> QED
    BY <1>2, <2>1, <2>2 DEF ElsewhereDoes
<1>7. CASE \E t \in Listed(cal, id) :
              cal' = [Put(cal, id, s) EXCEPT !.edited = @ \cup {[of |-> id, at |-> t, to |-> 1]}] /\ UNCHANGED wanted
  <2>1. PICK t \in Listed(cal, id) :
              cal' = [Put(cal, id, s) EXCEPT !.edited = @ \cup {[of |-> id, at |-> t, to |-> 1]}] /\ UNCHANGED wanted
    BY <1>7
  <2>2. EditsOne([of |-> id, at |-> t, to |-> 1]) /\ SlotsOf(cal')
    BY <1>2, <2>1, OneEditedIs
  <2> QED
    BY <1>2, <2>1, <2>2 DEF ElsewhereDoes
<1> QED
  BY <1>1, <1>3, <1>4, <1>5, <1>6, <1>7

\* Every step leaves series at slots there are, and starting where they're named to.
LEMMA CalSlotsKept ==
    ASSUME SeriesInv, SlotsInv, [SeriesNext]_seriesVars
    PROVE  SlotsOf(cal')
<1>1. SlotsOf(cal)
  BY DEF SlotsInv
<1>2. CASE UNCHANGED cal
  BY <1>1, <1>2
<1>3. CASE CreateCopy
  BY <1>3, CreatedIs
<1>4. CASE EndSeries
  BY <1>4, EndGoesSo
<1>5. CASE EditElsewhere
  BY <1>1, <1>5, ElsewhereIs
<1>6. CASE ImportRest /\ ~UNCHANGED cal
  <2>1. stage = "importing" /\ (cal' = WithRest(cal) \/ cal' = WithRest(Imported(cal)))
    BY <1>6 DEF ImportRest, Refused
  <2> QED
    BY <2>1, ImportedIs
<1>7. CASE (ReviveCopy \/ CancelRest \/ UndoCopy \/ CancelWhole \/ PatchSeries) /\ ~UNCHANGED cal
  <2>1. \E id \in DOMAIN cal.series : \E status : Rewrites(id, status)
    <3>1. CASE ReviveCopy
      <4>1. stage = "reviving" /\ cal' = Put(cal, call.target, [cal.series[call.target] EXCEPT !.status = "confirmed"])
        BY <1>7, <3>1, WriteCases DEF ReviveCopy
      <4> QED
        BY <4>1, SeriesThere, StatusRewritten
    <3>2. CASE CancelRest
      <4>1. stage = "dropping" /\ cal' = Put(cal, Rest(call.at), [cal.series[Rest(call.at)] EXCEPT !.status = "cancelled"])
        BY <1>7, <3>2, WriteCases DEF CancelRest
      <4>2. Rest(call.at) \in DOMAIN cal.series
        BY <4>1 DEF SeriesInv, CallOK
      <4> QED
        BY <4>1, <4>2, StatusRewritten
    <3>3. CASE UndoCopy
      <4>1. stage = "undoing" /\ cal' = Put(cal, call.target, [cal.series[call.target] EXCEPT !.status = "cancelled"])
        BY <1>7, <3>3, WriteCases DEF UndoCopy
      <4> QED
        BY <4>1, SeriesThere, StatusRewritten
    <3>4. CASE CancelWhole
      <4>1. stage = "cancelling" /\ cal' = Put(cal, call.id, [cal.series[call.id] EXCEPT !.status = "cancelled"])
        BY <1>7, <3>4, WriteCases DEF CancelWhole
      <4> QED
        BY <4>1, SeriesThere, StatusRewritten
    <3>5. CASE PatchSeries
      <4>1. stage = "patching" /\ cal' = Put(cal, call.target, Amended(cal.series[call.target], call.set))
        BY <1>7, <3>5, WriteCases DEF PatchSeries, Outdated
      <4>2. DOMAIN call.set \subseteq {"days", "val"} /\ call.target \in DOMAIN cal.series
        BY <4>1, SeriesThere DEF SlotsInv, CallSlots
      <4> QED
        BY <4>1, <4>2, AmendedRewritten
    <3> QED
      BY <1>7, <3>1, <3>2, <3>3, <3>4, <3>5
  <2> QED
    BY <1>1, <2>1, RewritesKeepsSlots
<1> QED
  BY <1>2, <1>3, <1>4, <1>5, <1>6, <1>7 DEF SeriesNext, seriesVars, AskSeries, AskRenewal, RenewNext, ReadToSplit, CountInstances,
     ReadAgainToEnd, VerifyEnded, ReadAgainToPatch, StopSeries, SyncSeries

----------------------------------------------------------------------------
(* How a call goes on *)

SameAsk == call'.id = call.id /\ call'.at = call.at /\ call'.do = call.do /\ call'.set = call.set /\ call'.queue = call.queue
StageMoves ==
    \/ stage' \in {stage, "none"}
    \/ stage' = "renewing" /\ call.queue # {}
    \/ stage = "reading" /\ stage' \in {"counting", "creating"}
    \/ stage \in {"reading", "ending", "verifying"} /\ stage' = "patching" /\ call.do = "update"
    \/ stage = "counting" /\ stage' = "creating"
    \/ stage = "creating" /\ stage' \in {"reviving", "ending", "importing"}
    \/ stage = "reviving" /\ stage' \in {"ending", "importing"}
    \/ stage = "ending" /\ stage' = "rereading"
    \/ stage = "rereading" /\ stage' = "ending"
    \/ stage = "importing" /\ stage' = "dropping"
    \/ stage = "dropping" /\ stage' = "verifying"
    \/ stage \in {"ending", "importing", "dropping", "verifying"} /\ stage' = "undoing" /\ call.do # "delete"
    \/ stage = "patching" /\ stage' = "repatching"
    \/ stage = "repatching" /\ stage' = "patching"
\* A series, as it is, as it's kept, or as the call read it.
Read(s) ==
    \/ s \in {call.read, call.made}
    \/ \E id \in DOMAIN cal.series : s \in {cal.series[id], GetSeries(id)}
    \/ \E id \in DOMAIN cal'.series : s = cal'.series[id]
CallMoves ==
    /\ SameAsk /\ StageMoves /\ Read(call'.read) /\ Read(call'.made)
    /\ \/ call'.target = call.target
       \/ stage = "reading" /\ call'.target = call.id /\ stage' \in {"patching", "none", "renewing"}
       \/ stage = "creating" /\ call'.target = Target
    /\ stage = "creating" /\ stage' \in {"reviving", "ending", "importing"} => call'.target = Target
    /\ call'.count = call.count \/ (stage = "counting" /\ call'.count \in Nat)
Asks3 == AskSeries \/ AskRenewal \/ RenewNext

LEMMA EndFailsGoes ==
    ASSUME SeriesInv, EndFails, UNCHANGED call, stage \in {"ending", "importing", "dropping", "verifying"}
    PROVE  CallMoves
BY DEF EndFails, CallEnds, GoesTo, CallMoves, SameAsk, StageMoves, Read
LEMMA EndDoneGoes ==
    ASSUME SeriesInv, EndDone, stage \in {"ending", "verifying"}
    PROVE  CallMoves
<1>1. DOMAIN call = Fields
  BY DEF SeriesInv, CallOK
<1>2. CASE CallEnds("done") /\ UNCHANGED call
  BY <1>2 DEF CallEnds, CallMoves, SameAsk, StageMoves, Read
<1>3. CASE SplitDone(call.target, call.made)
  BY <1>1, <1>3 DEF SplitDone, Fields, CallEnds, GoesTo, CallMoves, SameAsk, StageMoves, Read
<1> QED
  BY <1>2, <1>3 DEF EndDone

LEMMA ReadMoves ==
    ASSUME SeriesInv, ReadToSplit
    PROVE  CallMoves
<1>1. DOMAIN call = Fields /\ stage = "reading" /\ call.id \in DOMAIN cal.series
  BY SeriesThere DEF SeriesInv, CallOK, ReadToSplit
<1>2. CASE call.at <= FreshSeries(call.id).start
  <2>1. SplitDone(call.id, cal.series[call.id])
    BY <1>2 DEF ReadToSplit, FreshSeries
  <2>2. /\ SameAsk /\ call'.target = call.id /\ call'.read = cal.series[call.id] /\ call'.made = call.made
        /\ call'.count = call.count
    BY <1>1, <2>1 DEF SplitDone, Fields, SameAsk
  <2>3. StageMoves /\ stage' \in {"patching", "none", "renewing"}
    BY <1>1, <2>1 DEF SplitDone, CallEnds, GoesTo, StageMoves
  <2> QED
    BY <1>1, <2>2, <2>3 DEF CallMoves, Read
<1>3. CASE ~(call.at <= FreshSeries(call.id).start)
  <2>1. call' = [call EXCEPT !.read = cal.series[call.id], !.seen = elsewhere]
    BY <1>3 DEF ReadToSplit, FreshSeries
  <2>2. SameAsk /\ call'.target = call.target /\ call'.read = cal.series[call.id] /\ call'.made = call.made /\ call'.count = call.count
    BY <1>1, <2>1 DEF Fields, SameAsk
  <2>3. StageMoves /\ stage' \in {"creating", "counting", "none", "renewing"}
    BY <1>1, <1>3 DEF ReadToSplit, CallEnds, GoesTo, StageMoves
  <2> QED
    BY <1>1, <2>2, <2>3 DEF CallMoves, Read
<1> QED
  BY <1>2, <1>3

LEMMA CreateMoves ==
    ASSUME SeriesInv, CreateCopy
    PROVE  CallMoves
<1> DEFINE id == CopyOf(call.id, call.at)
           copy == [call.read EXCEPT !.start = call.at, !.count = call.count, !.status = "confirmed"]
<1>1. DOMAIN call = Fields /\ stage = "creating" /\ IsSeriesOf(cal) /\ id = Target
  BY DEF SeriesInv, CallOK, CreateCopy, CalendarsOK, Target
<1>2. CASE id \in DOMAIN cal.series
  <2>1. call' = [call EXCEPT !.target = id, !.made = GetSeries(id)] /\ stage' \in {"ending", "importing", "reviving"}
    BY <1>2 DEF CreateCopy, GoesTo, ToEnd
  <2> HIDE DEF id
  <2>2. SameAsk /\ call'.target = id /\ call'.read = call.read /\ call'.made = GetSeries(id) /\ call'.count = call.count
    BY <1>1, <2>1 DEF Fields, SameAsk
  <2> QED
    BY <1>1, <1>2, <2>1, <2>2 DEF CallMoves, Read, StageMoves
<1>3. CASE id \notin DOMAIN cal.series
  <2>1. CASE Answered(id, copy) /\ call' = [call EXCEPT !.target = id, !.made = cal'.series[id]] /\ GoesTo(ToEnd(call.id))
    <3>1. cal' = Put(cal, id, copy)
      BY <2>1 DEF Answered
    <3> HIDE DEF id, copy
    <3>2. id \in DOMAIN cal'.series
      BY <1>1, <3>1 DEF Put, With, IsSeriesOf
    <3>3. SameAsk /\ call'.target = id /\ call'.read = call.read /\ call'.made = cal'.series[id] /\ call'.count = call.count
      BY <1>1, <2>1 DEF Fields, SameAsk
    <3> QED
      BY <1>1, <2>1, <3>2, <3>3 DEF CallMoves, Read, StageMoves, GoesTo, ToEnd
  <2>2. CASE CallEnds("failed") /\ UNCHANGED call
    BY <1>1, <2>2 DEF CallMoves, Read, StageMoves, SameAsk, CallEnds
  <2> QED
    BY <1>3, <2>1, <2>2 DEF CreateCopy
<1> QED
  BY <1>2, <1>3

LEMMA ReviveMoves ==
    ASSUME SeriesInv, ReviveCopy
    PROVE  CallMoves
<1>1. DOMAIN call = Fields /\ stage = "reviving" /\ call.target \in DOMAIN cal'.series
  BY SeriesThere, CalMovesOn DEF SeriesInv, CallOK, ReviveCopy, SeriesNext
<1>2. \/ CallEnds("failed") /\ UNCHANGED call
      \/ GoesTo(ToEnd(call.id)) /\ call' = [call EXCEPT !.made = cal'.series[call.target]]
  BY DEF ReviveCopy
<1>3. CASE CallEnds("failed") /\ UNCHANGED call
  BY <1>1, <1>3 DEF CallMoves, Read, StageMoves, SameAsk, CallEnds
<1>4. CASE GoesTo(ToEnd(call.id)) /\ call' = [call EXCEPT !.made = cal'.series[call.target]]
  <2>1. SameAsk /\ call'.target = call.target /\ call'.read = call.read /\ call'.made = cal'.series[call.target] /\ call'.count = call.count
    BY <1>1, <1>4 DEF Fields, SameAsk
  <2> QED
    BY <1>1, <1>4, <2>1 DEF CallMoves, Read, StageMoves, GoesTo, ToEnd
<1> QED
  BY <1>2, <1>3, <1>4

LEMMA EachMoves ==
    ASSUME SeriesInv, SlotsInv, [SeriesNext]_seriesVars, ~Asks3
    PROVE  CallMoves
<1>1. DOMAIN call = Fields
  BY DEF SeriesInv, CallOK
<1>2. CASE EditElsewhere \/ SyncSeries \/ StopSeries \/ UNCHANGED seriesVars
  <2>1. call' = call /\ stage' \in {stage, "none"}
    BY <1>2 DEF EditElsewhere, SyncSeries, StopSeries, seriesVars
  <2> QED
    BY <2>1 DEF CallMoves, SameAsk, StageMoves, Read
<1>3. CASE CountInstances
  <2>1. call.id \in DOMAIN cal.series /\ stage = "counting" /\ IsTimed(call.read)
    BY <1>3, SeriesThere DEF CountInstances, SlotsInv, CallSlots
  <2>2. CountedBefore(cal, call.id, call.at) \in Nat
    <3> DEFINE A == {t \in Expanded(cal.series[call.id]) : t < call.at /\ PutAt(cal, call.id, t) < call.at}
    <3>1. IsTimed(cal.series[call.id])
      BY <2>1 DEF SlotsInv, SlotsOf
    <3>2. A \subseteq 1..LastSlot
      BY <3>1, ExpandedIs
    <3>3. IsFiniteSet(1..LastSlot)
      BY SlotsAssumption, FS_Interval
    <3>4. IsFiniteSet(A)
      BY <3>2, <3>3, FS_Subset
    <3> QED
      BY <3>4, FS_CardinalityType DEF CountedBefore
  <2> DEFINE left == call.read.count - CountedBefore(cal, call.id, call.at)
  <2>3. left \in Int
    BY <2>1, <2>2 DEF IsTimed
  <2> HIDE DEF left
  <2>4. CASE left <= 0
    <3>1. CallEnds("refused") /\ UNCHANGED call
      BY <1>3, <2>4 DEF CountInstances, left
    <3> QED
      BY <3>1 DEF CallMoves, SameAsk, StageMoves, Read, CallEnds
  <2>5. CASE ~(left <= 0)
    <3>1. stage' = "creating" /\ call' = [call EXCEPT !.count = left]
      BY <1>3, <2>5 DEF CountInstances, left, GoesTo
    <3>2. SameAsk /\ call'.target = call.target /\ call'.read = call.read /\ call'.made = call.made /\ call'.count = left
      BY <1>1, <3>1 DEF Fields, SameAsk
    <3> QED
      BY <2>1, <2>3, <2>5, <3>1, <3>2 DEF CallMoves, StageMoves, Read
  <2> QED
    BY <2>4, <2>5
<1>4. CASE EndSeries
  <2>1. EndGoes /\ stage = "ending"
    BY <1>4, EndGoesSo DEF EndSeries
  <2>2. CASE stage' = "rereading" /\ call' = [call EXCEPT !.tries = @ + 1]
    BY <1>1, <2>1, <2>2 DEF CallMoves, StageMoves, Read, SameAsk, Fields
  <2> QED
    BY <2>1, <2>2, EndDoneGoes, EndFailsGoes DEF EndGoes
<1>5. CASE ImportRest \/ CancelRest
  <2>1. CASE EndFails
    BY <1>5, <2>1, EndFailsGoes DEF ImportRest, CancelRest
  <2>2. CASE ~EndFails
    BY <1>5, <2>2 DEF ImportRest, CancelRest, GoesTo, CallMoves, StageMoves, Read, SameAsk
  <2> QED
    BY <2>1, <2>2
<1>6. CASE VerifyEnded
  BY <1>6, EndDoneGoes, EndFailsGoes DEF VerifyEnded
<1>7. CASE UndoCopy \/ CancelWhole
  <2>1. call' = call /\ (\E kind : CallEnds(kind))
    BY <1>7 DEF UndoCopy, CancelWhole
  <2> QED
    BY <2>1 DEF CallEnds, CallMoves, StageMoves, Read, SameAsk
<1>8. CASE PatchSeries
  <2>1. \/ call' = call /\ \E kind : CallEnds(kind)
        \/ call' = [call EXCEPT !.tries = @ + 1] /\ stage = "patching" /\ stage' = "repatching"
    BY <1>8 DEF PatchSeries, GoesTo
  <2>2. CASE call' = call /\ \E kind : CallEnds(kind)
    BY <2>2 DEF CallEnds, CallMoves, StageMoves, Read, SameAsk
  <2>3. CASE call' = [call EXCEPT !.tries = @ + 1] /\ stage = "patching" /\ stage' = "repatching"
    BY <1>1, <2>3 DEF CallMoves, StageMoves, Read, SameAsk, Fields
  <2> QED
    BY <2>1, <2>2, <2>3
<1>9. CASE ReadAgainToEnd \/ ReadAgainToPatch
  <2>1. call.id \in DOMAIN cal.series /\ call.target \in DOMAIN cal.series
    BY <1>9, SeriesThere DEF ReadAgainToEnd, ReadAgainToPatch
  <2>2. \E id \in DOMAIN cal.series : call' = [call EXCEPT !.read = GetSeries(id)]
    BY <1>9, <2>1 DEF ReadAgainToEnd, ReadAgainToPatch
  <2>3. \/ stage = "rereading" /\ stage' = "ending"
        \/ stage = "repatching" /\ stage' = "patching"
    BY <1>9 DEF ReadAgainToEnd, ReadAgainToPatch, GoesTo
  <2>4. /\ SameAsk /\ call'.target = call.target /\ call'.made = call.made /\ call'.count = call.count
        /\ \E id \in DOMAIN cal.series : call'.read = GetSeries(id)
    BY <1>1, <2>2 DEF SameAsk, Fields
  <2> QED
    BY <2>3, <2>4 DEF CallMoves, StageMoves, Read
<1> QED
  BY <1>2, <1>3, <1>4, <1>5, <1>6, <1>7, <1>8, <1>9, ReadMoves, CreateMoves, ReviveMoves DEF SeriesNext, Asks3

\* The least of some numbers.
LEMMA LeastOf ==
    ASSUME NEW N, N \subseteq Nat, N # {}
    PROVE  \E x \in N : \A y \in N : x <= y
<1> DEFINE R == OpToRel(<, Nat)
<1>1. IsWellFoundedOn(R, Nat)
  BY NatLessThanWellFounded
<1> HIDE DEF R
<1>2. PICK x \in N : \A y \in N : ~(<<y, x>> \in R)
  BY <1>1, WFMin
<1>3. \A y \in N : ~(y < x)
  BY <1>2 DEF R, OpToRel
<1> QED
  BY <1>3

\* The last of some times.
LEMMA LastOf ==
    ASSUME NEW S, S \subseteq 1..LastSlot, S # {}
    PROVE  Max(S) \in S
<1> DEFINE N == {LastSlot - t : t \in S}
<1>a. \A t \in S : LastSlot - t \in Nat
  BY SlotsAssumption
<1>b. PICK z \in S : TRUE
  OBVIOUS
<1>c. LastSlot - z \in N
  OBVIOUS
<1>1. N \subseteq Nat /\ N # {}
  BY <1>a, <1>c
<1>2. \E x \in N : \A y \in N : x <= y
  <2> HIDE DEF N
  <2> QED
    BY <1>1, LeastOf
<1>3. \E x \in S : \A y \in S : x >= y
  <2>1. PICK t \in S : \A y \in N : LastSlot - t <= y
    BY <1>2
  <2>2. ASSUME NEW y \in S PROVE t >= y
    <3>1. LastSlot - y \in N
      OBVIOUS
    <3>2. LastSlot - t <= LastSlot - y
      BY <2>1, <3>1
    <3>3. t \in Int /\ y \in Int /\ LastSlot \in Int
      BY SlotsAssumption
    <3> HIDE DEF N
    <3> QED
      BY <3>2, <3>3
  <2> QED
    BY <2>2
<1> QED
  BY <1>3 DEF Max

\* What a client asks.
AskGoes ==
    /\ stage = "none" /\ cal' = cal /\ heldCal' = heldCal /\ untold' = untold /\ reply' = "none"
    /\ call'.clean = AllWell
    /\ call'.id \in DOMAIN heldCal.series /\ Confirmed(heldCal.series[call'.id])
    /\ call'.target = call'.id /\ call'.read = heldCal.series[call'.id] /\ call'.made = Unread /\ call'.queue = {}
    /\ call'.count = 0 /\ DOMAIN call'.set \subseteq {"days", "val"}
    /\ LET part == call'.at > heldCal.series[call'.id].start
           listed == Listed(cal, call'.id) \cup Listed(heldCal, call'.id)
       IN  \/ call'.do = "delete" /\ stage' = "cancelling" /\ wanted' = wanted \ listed
           \/ /\ call'.do = "delete" /\ part /\ stage' \in {"importing", "ending"} /\ call'.at \in Listed(heldCal, call'.id)
              /\ wanted' = wanted \ {t \in listed : t >= call'.at}
           \/ call'.do = "update" /\ stage' = "patching" /\ wanted' = wanted
           \/ call'.do \in {"split", "update"} /\ stage' = "reading" /\ call'.at \in Listed(heldCal, call'.id) /\ wanted' = wanted
LEMMA AskGoesSo ==
    ASSUME SeriesInv, SlotsInv, AskSeries
    PROVE  AskGoes
<1>a. PICK ask \in {a \in Asks : a.do # "renew"}, id \in {i \in DOMAIN heldCal.series : Confirmed(heldCal.series[i])} :
       \E at \in Listed(heldCal, id) \cup (IF ask.do = "split" THEN {} ELSE {0}) :
          LET part == at > heldCal.series[id].start
          IN  /\ call' = [NewCall EXCEPT !.do = ask.do, !.set = ask.set, !.id = id, !.at = at, !.read = heldCal.series[id],
                                         !.target = id, !.seen = elsewhere, !.clean = AllWell]
              /\ stage' = CASE ask.do = "delete" /\ ~part -> "cancelling"
                            [] ask.do = "delete" /\ part -> IF ByGoogle(id) THEN "importing" ELSE "ending"
                            [] ask.do = "update" /\ at = 0 -> "patching"
                            [] OTHER -> "reading"
              /\ wanted' = IF ask.do = "delete" THEN wanted \ {t \in Listed(cal, id) \cup Listed(heldCal, id) : t >= at \/ ~part} ELSE wanted
  BY DEF AskSeries
<1>1. PICK at \in Listed(heldCal, id) \cup (IF ask.do = "split" THEN {} ELSE {0}) :
          LET part == at > heldCal.series[id].start
          IN  /\ call' = [NewCall EXCEPT !.do = ask.do, !.set = ask.set, !.id = id, !.at = at, !.read = heldCal.series[id],
                                         !.target = id, !.seen = elsewhere, !.clean = AllWell]
              /\ stage' = CASE ask.do = "delete" /\ ~part -> "cancelling"
                            [] ask.do = "delete" /\ part -> IF ByGoogle(id) THEN "importing" ELSE "ending"
                            [] ask.do = "update" /\ at = 0 -> "patching"
                            [] OTHER -> "reading"
              /\ wanted' = IF ask.do = "delete" THEN wanted \ {t \in Listed(cal, id) \cup Listed(heldCal, id) : t >= at \/ ~part} ELSE wanted
  BY <1>a
<1>2. /\ call'.id = id /\ call'.do = ask.do /\ call'.set = ask.set /\ call'.at = at /\ call'.read = heldCal.series[id]
      /\ call'.target = id /\ call'.made = Unread /\ call'.queue = {} /\ call'.count = 0 /\ call'.clean = AllWell
  BY <1>1 DEF NewCall
<1>3. /\ stage = "none" /\ cal' = cal /\ heldCal' = heldCal /\ untold' = untold /\ reply' = "none"
  BY DEF AskSeries
<1>4. ask.do \in {"split", "update", "delete"} /\ DOMAIN ask.set \subseteq {"days", "val"}
  BY AsksAssumption
<1>5. IsTimed(heldCal.series[id]) /\ id \in DOMAIN heldCal.series /\ Confirmed(heldCal.series[id])
  BY DEF SlotsInv
<1> DEFINE part == at > heldCal.series[id].start
           listed == Listed(cal, id) \cup Listed(heldCal, id)
<1>6. part \/ ask.do = "split" => at \in Listed(heldCal, id)
  BY <1>5, SlotsAssumption DEF IsTimed
<1>7. /\ stage' = CASE ask.do = "delete" /\ ~part -> "cancelling"
                            [] ask.do = "delete" /\ part -> IF ByGoogle(id) THEN "importing" ELSE "ending"
                            [] ask.do = "update" /\ at = 0 -> "patching"
                            [] OTHER -> "reading"
      /\ wanted' = IF ask.do = "delete" THEN wanted \ {t \in listed : t >= at \/ ~part} ELSE wanted
  BY <1>1
<1>8. CASE ask.do = "delete" /\ ~part
  <2>1. stage' = "cancelling" /\ wanted' = wanted \ listed
    BY <1>7, <1>8
  <2> QED
    BY <1>2, <1>3, <1>4, <1>5, <1>8, <2>1 DEF AskGoes
<1>9. CASE ask.do = "delete" /\ part
  <2>1. stage' \in {"importing", "ending"}
    BY <1>7, <1>9
  <2>2. wanted' = wanted \ {t \in listed : t >= at}
    BY <1>7, <1>9
  <2> QED
    BY <1>2, <1>3, <1>4, <1>5, <1>6, <1>9, <2>1, <2>2 DEF AskGoes
<1>10. CASE ask.do = "update" /\ at = 0
  <2>1. stage' = "patching" /\ wanted' = wanted
    BY <1>7, <1>10
  <2> QED
    BY <1>2, <1>3, <1>4, <1>5, <1>10, <2>1 DEF AskGoes
<1>11. CASE ask.do # "delete" /\ ~(ask.do = "update" /\ at = 0)
  <2>1. stage' = "reading" /\ wanted' = wanted /\ ask.do \in {"split", "update"}
    BY <1>4, <1>7, <1>11
  <2>2. at \in Listed(heldCal, id)
    BY <1>6, <1>11, <2>1
  <2> QED
    BY <1>2, <1>3, <1>4, <1>5, <2>1, <2>2 DEF AskGoes
<1> QED
  BY <1>8, <1>9, <1>10, <1>11

\* The next series is renewed, or it has nothing on any more.
RenewGoes ==
    /\ stage = "renewing" /\ UNCHANGED <<cal, heldCal, untold, wanted, reply>>
    /\ call'.id \in DOMAIN cal.series /\ call'.target = call'.id /\ call'.count = 0 /\ call'.read = call.read
    /\ call'.made = call.made /\ call'.set = call.set /\ call'.do = call.do
    /\ \/ stage' = "reading" /\ call'.at \in Listed(cal, call'.id)
       \/ stage' \in {"none", "renewing"}
LEMMA ListedThere ==
    ASSUME NEW c, SlotsOf(c), NEW id \in DOMAIN c.series
    PROVE  Listed(c, id) \subseteq 1..LastSlot
BY ExpandedIs DEF Listed, SlotsOf
LEMMA RenewGoesSo ==
    ASSUME SeriesInv, SlotsInv, RenewNext
    PROVE  RenewGoes
<1>1. PICK id \in call.queue :
          LET on == {t \in Listed(cal, id) : t >= call.now}
          IN  /\ call' = [call EXCEPT !.queue = @ \ {id}, !.id = id, !.at = IF on = {} THEN 0 ELSE Max(on),
                                      !.target = id, !.count = 0, !.tries = 1, !.seen = elsewhere,
                                      !.clean = AllWell]
              /\ stage' = IF on # {} THEN "reading" ELSE IF call.queue = {id} THEN "none" ELSE "renewing"
  BY DEF RenewNext
<1> DEFINE on == {t \in Listed(cal, id) : t >= call.now}
<1>2. DOMAIN call = Fields /\ id \in DOMAIN cal.series /\ SlotsOf(cal)
  BY DEF SeriesInv, CallOK, SlotsInv
<1>3. /\ call'.id = id /\ call'.at = (IF on = {} THEN 0 ELSE Max(on)) /\ call'.target = id /\ call'.count = 0
      /\ call'.read = call.read /\ call'.made = call.made /\ call'.set = call.set /\ call'.do = call.do
  BY <1>1, <1>2 DEF Fields
<1>4. on # {} => Max(on) \in on
  <2>1. on \subseteq 1..LastSlot
    BY <1>2, ListedThere
  <2> HIDE DEF on
  <2> QED
    BY <2>1, LastOf
<1>5. stage' = IF on # {} THEN "reading" ELSE IF call.queue = {id} THEN "none" ELSE "renewing"
  BY <1>1
<1>6. on # {} => call'.at \in Listed(cal, id)
  BY <1>3, <1>4
<1> HIDE DEF on
<1> QED
  BY <1>2, <1>3, <1>5, <1>6 DEF RenewGoes, RenewNext
LEMMA RenewalGoesSo ==
    ASSUME AskRenewal
    PROVE  /\ stage = "none" /\ UNCHANGED <<cal, heldCal, untold, wanted>> /\ stage' \in {"none", "renewing"}
           /\ call'.do = "renew" /\ call'.count = 0 /\ call'.read = Unread /\ call'.made = Unread /\ call'.set = <<>>
BY DEF AskRenewal, NewCall

----------------------------------------------------------------------------
(* A series split has ended before its copy *)

LEMMA KeptOfSeries ==
    ASSUME NEW c, NEW id, IsSeriesOf(heldCal)
    PROVE  /\ DOMAIN KeptOf(c, id).series = DOMAIN heldCal.series \cup {id}
           /\ KeptOf(c, id).series[id] = c.series[id]
           /\ \A i \in DOMAIN heldCal.series \ {id} : KeptOf(c, id).series[i] = heldCal.series[i]
<1> DEFINE d == KeptOf(c, id)
<1>1. heldCal = [series |-> heldCal.series, edited |-> heldCal.edited]
  BY DEF IsSeriesOf
<1>2. d.series = With(heldCal.series, id, c.series[id])
  BY <1>1 DEF KeptOf
<1> HIDE DEF d
<1>3. /\ DOMAIN d.series = DOMAIN heldCal.series \cup {id} /\ d.series[id] = c.series[id]
      /\ \A i \in DOMAIN heldCal.series \ {id} : d.series[i] = heldCal.series[i]
  BY <1>2 DEF With
<1> QED
  BY <1>3 DEF d

\* What's kept of a series is what was, or is it now.
LEMMA HeldEach ==
    ASSUME SeriesInv, [SeriesNext]_seriesVars, NEW id \in DOMAIN heldCal'.series
    PROVE  \/ id \in DOMAIN heldCal.series /\ heldCal'.series[id] = heldCal.series[id]
           \/ id \in DOMAIN cal'.series /\ heldCal'.series[id] = cal'.series[id]
<1>1. IsSeriesOf(heldCal)
  BY DEF SeriesInv, CalendarsOK
<1>2. CASE heldCal' = heldCal \/ heldCal' = cal'
  BY <1>2
<1>3. CASE \E i \in DOMAIN cal'.series : heldCal' = KeptOf(cal', i)
  <2>1. PICK i \in DOMAIN cal'.series : heldCal' = KeptOf(cal', i)
    BY <1>3
  <2>2. PICK c : c = cal'
    OBVIOUS
  <2>3. /\ DOMAIN KeptOf(c, i).series = DOMAIN heldCal.series \cup {i}
        /\ KeptOf(c, i).series[i] = c.series[i]
        /\ \A j \in DOMAIN heldCal.series \ {i} : KeptOf(c, i).series[j] = heldCal.series[j]
    BY <1>1, KeptOfSeries
  <2> QED
    BY <2>1, <2>2, <2>3
<1> QED
  BY <1>2, <1>3, HeldCases

LEMMA HeldSlotsKept ==
    ASSUME SeriesInv, SlotsInv, [SeriesNext]_seriesVars, NEW id \in DOMAIN heldCal'.series
    PROVE  IsTimed(heldCal'.series[id])
<1>1. SlotsOf(cal')
  BY CalSlotsKept
<1> QED
  BY <1>1, HeldEach DEF SlotsInv, SlotsOf

LEMMA UnreadTimed == IsTimed(Unread)
BY SlotsAssumption DEF IsTimed, Unread, Forever

LEMMA CallSlotsKept ==
    ASSUME SeriesInv, SlotsInv, [SeriesNext]_seriesVars
    PROVE  CallSlots'
<1>1. CallSlots /\ SlotsOf(cal) /\ SlotsOf(cal')
  BY CalSlotsKept DEF SlotsInv
<1>2. CASE AskSeries
  <2>1. AskGoes
    BY <1>2, AskGoesSo
  <2>2. IsTimed(call'.read) /\ IsTimed(call'.made) /\ call'.count \in Nat
    BY <2>1, UnreadTimed DEF AskGoes, SlotsInv
  <2>3. Listed(heldCal, call'.id) \subseteq 1..LastSlot
    <3> SUFFICES ASSUME NEW t \in Listed(heldCal, call'.id) PROVE t \in 1..LastSlot
      OBVIOUS
    <3>1. IsTimed(heldCal.series[call'.id])
      BY <2>1 DEF AskGoes, SlotsInv
    <3>2. t \in Expanded(heldCal.series[call'.id])
      BY DEF Listed
    <3>3. PICK h : h = heldCal.series[call'.id]
      OBVIOUS
    <3> QED
      BY <3>1, <3>2, <3>3, ExpandedIs
  <2> QED
    BY <2>1, <2>2, <2>3 DEF AskGoes, CallSlots, Splits, Splitting, Copied
<1>3. CASE AskRenewal
  <2>1. DOMAIN <<>> = {}
    OBVIOUS
  <2>2. /\ stage' \in {"none", "renewing"} /\ call'.do = "renew" /\ call'.count = 0 /\ call'.read = Unread
        /\ call'.made = Unread /\ call'.set = <<>>
    BY <1>3, RenewalGoesSo
  <2>3. IsTimed(call'.read) /\ IsTimed(call'.made) /\ call'.count \in Nat /\ DOMAIN call'.set \subseteq {"days", "val"}
    BY <2>1, <2>2, UnreadTimed
  <2>4. stage' \notin Splits /\ stage' # "cancelling"
    BY <2>2 DEF Splits, Splitting
  <2> QED
    BY <2>2, <2>3, <2>4 DEF CallSlots
<1>4. CASE RenewNext
  <2>1. RenewGoes
    BY <1>4, RenewGoesSo
  <2>2. call.do = "renew"
    BY <1>1, <2>1 DEF RenewGoes, CallSlots
  <2>3. call'.id \in DOMAIN cal.series
    BY <2>1 DEF RenewGoes
  <2>4. stage' = "reading" => call'.at \in 1..LastSlot
    <3>1. PICK id : id = call'.id
      OBVIOUS
    <3>2. Listed(cal, id) \subseteq 1..LastSlot
      BY <1>1, <2>3, <3>1, ListedThere
    <3> QED
      BY <2>1, <3>1, <3>2 DEF RenewGoes
  <2>5. stage' \in {"reading", "none", "renewing"}
    BY <2>1 DEF RenewGoes
  <2>6. stage' \in Splits => stage' = "reading" /\ stage' \notin Copied
    BY <2>5 DEF Splits, Splitting, Copied
  <2>7. IsTimed(call'.read) /\ IsTimed(call'.made) /\ call'.count \in Nat /\ DOMAIN call'.set \subseteq {"days", "val"}
    BY <1>1, <2>1 DEF RenewGoes, CallSlots
  <2>8. call'.do = "renew" /\ stage' # "cancelling"
    BY <2>1, <2>2, <2>5 DEF RenewGoes
  <2> QED
    BY <2>4, <2>6, <2>7, <2>8 DEF CallSlots
<1>5. CASE ~Asks3
  <2>1. CallMoves
    BY <1>5, EachMoves
  <2>2. \A s : Read(s) => IsTimed(s)
    BY <1>1 DEF Read, CallSlots, SlotsOf, GetSeries, SlotsInv
  <2>3. IsTimed(call'.read) /\ IsTimed(call'.made) /\ call'.count \in Nat
    BY <1>1, <2>1, <2>2 DEF CallMoves, CallSlots
  <2>4. SameAsk /\ StageMoves
    BY <2>1 DEF CallMoves
  <2>5. stage' \in Splits => stage \in Splits
    BY <2>4 DEF StageMoves, Splits, Splitting
  <2>6. ASSUME stage' \in Splits, stage' \notin {"reading", "counting", "creating"}, call'.do # "delete"
        PROVE  call'.target = Target'
    <3>1. Target' = Target /\ call.do # "delete"
      BY <2>4, <2>6 DEF SameAsk, Target
    <3>2. stage \in Splits /\ stage \notin {"reading", "counting"}
      BY <2>4, <2>5, <2>6 DEF StageMoves, Splits, Splitting
    <3>3. CASE stage = "creating"
      BY <2>1, <2>4, <2>6, <3>1, <3>3 DEF CallMoves, StageMoves, Splits, Splitting
    <3>4. CASE stage # "creating"
      BY <1>1, <2>1, <2>4, <2>6, <3>1, <3>2, <3>4 DEF CallMoves, CallSlots
    <3> QED
      BY <3>3, <3>4
  <2>7. stage' \in Splits /\ stage' \notin Copied => call'.do # "delete"
    BY <1>1, <2>4, <2>5 DEF SameAsk, StageMoves, Splits, Splitting, Copied, CallSlots
  <2>8. stage' = "cancelling" => call'.do = "delete"
    BY <1>1, <2>4 DEF SameAsk, StageMoves, CallSlots
  <2>9. stage' = "renewing" \/ call'.queue # {} => call'.do = "renew"
    BY <1>1, <2>4 DEF SameAsk, StageMoves, CallSlots
  <2>10. stage' \in Splits => call'.at \in 1..LastSlot
    BY <1>1, <2>4, <2>5 DEF SameAsk, CallSlots
  <2>11. DOMAIN call'.set \subseteq {"days", "val"}
    BY <1>1, <2>4 DEF SameAsk, CallSlots
  <2> QED
    BY <2>3, <2>6, <2>7, <2>8, <2>9, <2>10, <2>11 DEF CallSlots
<1> QED
  BY <1>2, <1>3, <1>4, <1>5 DEF Asks3

LEMMA UntilFalls ==
    ASSUME SeriesInv, SlotsInv, [SeriesNext]_seriesVars,
           EditElsewhere \/ SyncSeries \/ PatchSeries \/ ReadAgainToPatch \/ UNCHANGED seriesVars, NEW id \in DOMAIN cal.series
    PROVE  id \in DOMAIN cal'.series /\ cal'.series[id].until <= cal.series[id].until
<1>1. IsTimed(cal.series[id]) /\ SlotsOf(cal)
  BY DEF SlotsInv, SlotsOf
<1>2. CASE UNCHANGED cal
  BY <1>1, <1>2 DEF IsTimed
<1>3. CASE EditElsewhere
  <2>1. PICK i \in DOMAIN cal.series : ElsewhereDoes(i)
    BY <1>1, <1>3, ElsewhereIs
  <2>2. CASE Narrows(i)
    BY <1>1, <2>2 DEF Narrows, IsTimed
  <2>3. CASE ~Narrows(i)
    BY <1>1, <2>1, <2>3 DEF ElsewhereDoes, Rewrites, EditsOne, SameTimes, IsTimed
  <2> QED
    BY <2>2, <2>3
<1>4. CASE PatchSeries /\ ~UNCHANGED cal
  <2>1. stage = "patching" /\ cal' = Put(cal, call.target, Amended(cal.series[call.target], call.set))
    BY <1>4, WriteCases DEF PatchSeries, Outdated
  <2>2. DOMAIN call.set \subseteq {"days", "val"} /\ call.target \in DOMAIN cal.series
    BY <2>1, SeriesThere DEF SlotsInv, CallSlots
  <2>3. \E status : Rewrites(call.target, status)
    BY <2>1, <2>2, AmendedRewritten
  <2> QED
    BY <1>1, <2>3 DEF Rewrites, SameTimes, IsTimed
<1> QED
  BY <1>2, <1>3, <1>4 DEF SyncSeries, ReadAgainToPatch, seriesVars

LEMMA EndDoneEnds ==
    ASSUME SeriesInv, SlotsInv, EndDone, stage \in {"ending", "verifying"}, DOMAIN cal'.series = DOMAIN cal.series,
           cal'.series[call.id].until < call.at
    PROVE  SplitEnded'
<1>1. DOMAIN call = Fields /\ call.id \in DOMAIN cal.series /\ call.target \in DOMAIN cal.series /\ call.at \in 1..LastSlot
  BY SeriesThere DEF SeriesInv, CallOK, SlotsInv, CallSlots, Splits, Splitting
<1>2. CASE call.do = "delete"
  <2>1. call' = call /\ stage' \in {"none", "renewing"}
    BY <1>2 DEF EndDone, CallEnds
  <2> QED
    BY <1>2, <2>1 DEF SplitEnded
<1>3. CASE call.do # "delete"
  <2>1. SplitDone(call.target, call.made)
    BY <1>3 DEF EndDone
  <2>2. call'.id = call.id /\ call'.at = call.at /\ call'.target = call.target
    BY <1>1, <2>1 DEF SplitDone, Fields
  <2>3. call.target = Target
    BY <1>3 DEF SlotsInv, CallSlots, Splits, Splitting
  <2> QED
    BY <1>1, <2>2, <2>3 DEF SplitEnded, Target
<1> QED
  BY <1>2, <1>3

LEMMA SplitEndedKept ==
    ASSUME SeriesInv, SlotsInv, [SeriesNext]_seriesVars
    PROVE  SplitEnded'
<1>1. DOMAIN call = Fields /\ SplitEnded /\ SlotsOf(cal) /\ CallSlots
  BY DEF SeriesInv, CallOK, SlotsInv
<1>2. CASE AskSeries
  <2>1. call'.target = call'.id
    BY <1>2, AskGoesSo DEF AskGoes
  <2> QED
    BY <2>1 DEF SplitEnded
<1>3. CASE AskRenewal
  <2>1. stage' \in {"none", "renewing"} /\ call'.do = "renew"
    BY <1>3, RenewalGoesSo
  <2> QED
    BY <2>1 DEF SplitEnded
<1>4. CASE RenewNext
  <2>1. call'.target = call'.id
    BY <1>4, RenewGoesSo DEF RenewGoes
  <2> QED
    BY <2>1 DEF SplitEnded
<1>5. CASE EditElsewhere \/ SyncSeries \/ PatchSeries \/ ReadAgainToPatch \/ UNCHANGED seriesVars
  <2>1. /\ call'.id = call.id /\ call'.at = call.at /\ call'.target = call.target /\ call'.do = call.do
    <3>1. CASE call' = call
      BY <3>1
    <3>2. CASE call' # call
      <4>1. \/ call' = [call EXCEPT !.tries = @ + 1]
            \/ call' = [call EXCEPT !.read = GetSeries(call.target)]
        BY <1>5, <3>2 DEF EditElsewhere, SyncSeries, PatchSeries, ReadAgainToPatch, seriesVars
      <4> QED
        BY <1>1, <4>1 DEF Fields
    <3> QED
      BY <3>1, <3>2
  <2>2. \/ stage' \in {"patching", "repatching"}
        \/ stage' = "none" /\ reply' = "done" /\ call'.do \in {"split", "update"}
        => \/ stage \in {"patching", "repatching"}
           \/ stage = "none" /\ reply = "done" /\ call.do \in {"split", "update"}
    <3>1. CASE PatchSeries \/ ReadAgainToPatch
      BY <3>1 DEF PatchSeries, ReadAgainToPatch
    <3>2. CASE EditElsewhere \/ SyncSeries \/ UNCHANGED seriesVars
      BY <2>1, <3>2 DEF EditElsewhere, SyncSeries, seriesVars
    <3> QED
      BY <1>5, <3>1, <3>2
  <2>3. ASSUME call.target = Target, call.at \in 1..LastSlot, cal.series[call.id].until < call.at,
               {call.id, call.target} \subseteq DOMAIN cal.series
        PROVE  call'.target = Target' /\ cal'.series[call'.id].until < call'.at /\ {call'.id, call'.target} \subseteq DOMAIN cal'.series
    <3>1. cal'.series[call.id].until <= cal.series[call.id].until /\ {call.id, call.target} \subseteq DOMAIN cal'.series
      BY <1>5, <2>3, UntilFalls
    <3>2. IsTimed(cal.series[call.id]) /\ IsTimed(cal'.series[call.id])
      BY <1>1, <2>3, <3>1, CalSlotsKept DEF SlotsOf
    <3> QED
      BY <2>1, <2>3, <3>1, <3>2, SlotsAssumption DEF IsTimed, Target
  <2> QED
    BY <1>1, <2>1, <2>2, <2>3 DEF SplitEnded
<1>6. CASE ReadToSplit
  <2>1. CASE call.at <= FreshSeries(call.id).start
    <3>1. SplitDone(call.id, FreshSeries(call.id))
      BY <1>6, <2>1 DEF ReadToSplit
    <3>2. call'.target = call'.id
      BY <1>1, <3>1 DEF SplitDone, Fields
    <3> QED
      BY <3>2 DEF SplitEnded
  <2>2. CASE ~(call.at <= FreshSeries(call.id).start)
    <3>1. stage' \in {"counting", "creating"} \/ (reply' = "refused" /\ stage' \in {"none", "renewing"})
      BY <1>6, <2>2 DEF ReadToSplit, CallEnds, GoesTo
    <3> QED
      BY <3>1 DEF SplitEnded
  <2> QED
    BY <2>1, <2>2
<1>7. CASE EndSeries
  <2>1. EndGoes /\ stage = "ending"
    BY <1>7, EndGoesSo DEF EndSeries
  <2>2. CASE Ends /\ EndDone
    <3>1. DOMAIN cal'.series = DOMAIN cal.series /\ cal'.series[call.id].until < call.at
      BY <1>1, <2>1, <2>2, SlotsAssumption DEF Ends, CallSlots, Splits, Splitting
    <3> QED
      BY <2>1, <2>2, <3>1, EndDoneEnds
  <2>3. CASE EndFails \/ stage' = "rereading"
    BY <2>3 DEF EndFails, CallEnds, GoesTo, SplitEnded
  <2> QED
    BY <2>1, <2>2, <2>3 DEF EndGoes
<1>8. CASE VerifyEnded
  <2>1. cal' = cal /\ stage = "verifying"
    BY <1>8 DEF VerifyEnded
  <2>2. CASE EndsBefore(cal.series[call.id], call.at) /\ EndDone
    BY <2>1, <2>2, EndDoneEnds DEF EndsBefore
  <2>3. CASE EndFails
    BY <2>3 DEF EndFails, CallEnds, GoesTo, SplitEnded
  <2> QED
    BY <1>8, <2>2, <2>3 DEF VerifyEnded
<1>9. CASE CancelWhole
  <2>1. call' = call /\ call.do = "delete" /\ stage' \in {"none", "renewing"}
    BY <1>1, <1>9 DEF CancelWhole, CallSlots, CallEnds
  <2> QED
    BY <2>1 DEF SplitEnded
<1>10. CASE CountInstances \/ CreateCopy \/ ReviveCopy \/ ReadAgainToEnd \/ ImportRest \/ CancelRest \/ UndoCopy \/ StopSeries
  <2>1. stage' \notin {"patching", "repatching"} /\ (stage' = "none" => reply' # "done")
    BY <1>10 DEF CountInstances, CreateCopy, ReviveCopy, ReadAgainToEnd, ImportRest, CancelRest, UndoCopy, StopSeries,
       CallEnds, GoesTo, EndFails, ToEnd
  <2> QED
    BY <2>1 DEF SplitEnded
<1> QED
  BY <1>2, <1>3, <1>4, <1>5, <1>6, <1>7, <1>8, <1>9, <1>10 DEF SeriesNext

\* Whatever is asked, refused, lost, stopped or edited elsewhere, a series
\* starts, and a copy from where it's named to, at slots there are; and one
\* split has ended before its copy (split, end_before).
THEOREM SlotsInvariant == SeriesSpec => []SlotsInv
<1>1. SeriesInit => SlotsInv
  <2> SUFFICES ASSUME SeriesInit PROVE SlotsInv
    OBVIOUS
  <2>1. cal \in FirstSeries /\ heldCal = cal /\ call = NewCall /\ stage = "none" /\ reply = "none"
    BY DEF SeriesInit
  <2>2. \A id \in DOMAIN cal.series : IsTimed(cal.series[id]) /\ id \in Seq(STRING) /\ Len(id) = 1
    BY <2>1, FirstSeriesAssumption
  <2>3. \A id \in DOMAIN cal.series : IsNamed(id, cal.series[id])
    BY <2>2 DEF IsNamed, Labels
  <2>4. SlotsOf(cal)
    BY <2>1, <2>2, <2>3, FirstSeriesAssumption DEF SlotsOf, IsEdit
  <2>5. NewCall.read = Unread /\ NewCall.made = Unread /\ NewCall.count = 0 /\ NewCall.set = <<>> /\ NewCall.do = "none"
        /\ NewCall.queue = {}
    BY DEF NewCall
  <2>6. CallSlots
    BY <2>1, <2>5, UnreadTimed DEF CallSlots, Splits, Splitting
  <2>7. SplitEnded
    BY <2>1 DEF SplitEnded
  <2> QED
    BY <2>1, <2>2, <2>4, <2>6, <2>7 DEF SlotsInv
<1>2. SeriesInv /\ SlotsInv /\ [SeriesNext]_seriesVars => SlotsInv'
  BY CalSlotsKept, HeldSlotsKept, CallSlotsKept, SplitEndedKept DEF SlotsInv
<1> QED
  BY <1>1, <1>2, SeriesInvariant, PTL DEF SeriesSpec

\* A series split and what was split off it have no event both (split): once a
\* split or an update from an event on is done, whatever failed before it and
\* is edited elsewhere after it.
THEOREM PartsAreApart == SeriesSpec => []PartsApart
<1>1. SlotsInv => PartsApart
  <2> SUFFICES ASSUME SlotsInv, stage = "none", reply = "done", call.do \in {"split", "update"}, call.target # call.id,
                      NEW t \in Listed(cal, call.id), t \in Listed(cal, call.target)
               PROVE  FALSE
    BY DEF PartsApart
  <2>1. /\ call.target = Target /\ call.at \in 1..LastSlot /\ cal.series[call.id].until < call.at
        /\ {call.id, call.target} \subseteq DOMAIN cal.series /\ SlotsOf(cal)
    BY DEF SlotsInv, SplitEnded
  <2>2. t \in Expanded(cal.series[call.id]) /\ t \in Expanded(cal.series[call.target])
    BY DEF Listed
  <2>3. IsTimed(cal.series[call.id]) /\ IsTimed(cal.series[call.target])
    BY <2>1 DEF SlotsOf
  <2>4. t <= cal.series[call.id].until /\ cal.series[call.target].start <= t /\ t \in 1..LastSlot
    BY <2>2, <2>3, ExpandedIs
  <2>5. cal.series[call.target].start = call.at
    <3>1. call.id \in Seq(Labels) /\ call.at \in Labels /\ Len(call.id) >= 1 /\ IsNamed(call.target, cal.series[call.target])
      BY <2>1, SlotsAssumption DEF SlotsOf, IsNamed, Labels
    <3>2. Len(Target) = Len(call.id) + 1 /\ Target[Len(call.id) + 1] = call.at /\ Len(call.id) \in Nat
      BY <3>1, CopyIs DEF Target
    <3> QED
      BY <2>1, <3>1, <3>2 DEF IsNamed
  <2> QED
    BY <2>1, <2>3, <2>4, <2>5, SlotsAssumption DEF IsTimed
<1> QED
  BY <1>1, SlotsInvariant, PTL

----------------------------------------------------------------------------
(* What is so while the server's told of what it did *)

\* A slot's been asked to be there and a series there is gives it none, or has it.
Alive(id) == Confirmed(cal.series[id]) \/ wanted \cap Gives(cal, id) = {}

\* Series are those there first, their copies, copies of those, and what's
\* left of one Google split, cancelled again.
IdsTold ==
    /\ \A id \in DOMAIN cal.series : Len(id) = 1 => id[1] # "rest"
    /\ \A id \in DOMAIN cal.series :
          Rests(id) /\ ~(stage = "dropping" /\ id = Rest(call.at)) => ~Confirmed(cal.series[id])
    /\ \A id \in DOMAIN cal.series : Len(id) > 1 /\ ~Rests(id) =>
          \E p \in DOMAIN cal.series, a \in 1..LastSlot : id = CopyOf(p, a) /\ ~Rests(p)

\* What's kept of a series, if it lags, has none of the events wanted that the
\* series hasn't, but for one that's being ended.
Importing == stage \in {"dropping", "verifying"}
HeldNow(id) ==
    LET h == heldCal.series[id]
        s == cal.series[id]
    IN  /\ h.start = s.start /\ h.skips = s.skips
        /\ ~(Importing /\ call.id = id) =>
              \A t \in wanted : t \in Expanded(h) /\ [of |-> id, at |-> t, to |-> 0] \notin cal.edited => t \in Expanded(s)
        /\ Confirmed(h) => Alive(id)
HeldTold == \A id \in DOMAIN heldCal.series :
    /\ Rests(id) /\ ~(stage = "dropping" /\ id = Rest(call.at)) => ~Confirmed(heldCal.series[id])
    /\ ~Rests(id) => HeldNow(id)

\* The series a call splits has every event wanted before the split; its copy,
\* once made, is there, or has none wanted; and one to be made will have what
\* the series has from then on.
SplitTold ==
    /\ ~Rests(call.id) /\ Alive(call.id)
    /\ LET s == cal.series[call.id]
       IN  \A t \in wanted : s.start <= t /\ t < call.at /\ t \notin s.skips /\ [of |-> call.id, at |-> t, to |-> 0] \notin cal.edited
              => t \in Expanded(s)
CopiedTold ==
    IF call.do = "delete" THEN \A t \in wanted \cap Gives(cal, call.id) : t < call.at ELSE Alive(call.target)
ReadTold ==
    LET s == cal.series[call.id]
        r == call.read
    IN  /\ s.start = r.start /\ s.skips = r.skips /\ s.until <= r.until /\ r.start < call.at
        /\ IF r.count = 0 THEN s.count = 0 ELSE s.count \in {1, r.count}
CountTold ==
    IF call.read.count = 0 THEN call.count = 0 ELSE call.count # 0 /\ call.count >= call.read.count - (call.at - call.read.start)
CallTold ==
    /\ stage \in Splits => SplitTold
    /\ stage \in Copied => CopiedTold
    /\ stage = "cancelling" => ~Rests(call.id) /\ wanted \cap Gives(cal, call.id) = {}
    /\ stage = "reading" => call.count = 0
    /\ stage \in {"counting", "creating"} => ReadTold
    /\ stage = "counting" => call.read.count # 0
    /\ stage = "creating" => CountTold

\* A series has ended for good before a time: no call under way, nor one that
\* begins with what's kept of it, ends it later.
BeingEnded(p, a) == Importing /\ call.id = p /\ call.at = a /\ Confirmed(cal.series[p])
Ended(p, a) ==
    /\ cal.series[p].until < a
    /\ p \in DOMAIN heldCal.series => heldCal.series[p].until < a \/ BeingEnded(p, a)
    /\ stage \in Splits /\ call.id = p => call.at < a \/ BeingEnded(p, a)
\* So its copy won't be undone.
Safe(y) == Len(y) = 1 \/ \E p \in DOMAIN cal.series, a \in 1..LastSlot : y = CopyOf(p, a) /\ Ended(p, a)
Owns(y, t) == y \in DOMAIN cal.series /\ t \in Listed(cal, y) /\ Safe(y)
\* Each event wanted is in a series that stays; and one a series still has from
\* where a copy of it starts on, is the copy's, or that of a copy's that stays.
Owned == \A t \in wanted : \E y \in DOMAIN cal.series : Owns(y, t)
Handed == \A id \in DOMAIN cal.series, t \in wanted \cap (1..LastSlot) : \A a \in 1..t :
    LET k == CopyOf(id, a)
    IN  k \in DOMAIN cal.series /\ ~Rests(k) /\ t \in Gives(cal, id) =>
            t \in Gives(cal, k) \/ \E y \in DOMAIN cal.series : Extends(y, k) /\ Owns(y, t)

Told == IdsTold /\ HeldTold /\ CallTold /\ Handed /\ Owned
ToldInv == untold \/ Told

----------------------------------------------------------------------------
(* What a step leaves of each series *)

\* A series is ended and its events from the split on are the copy's.
HandsOver ==
    /\ stage \in {"ending", "importing"}
    /\ cal'.series[call.id].until < call.at /\ cal'.series[call.id].status = cal.series[call.id].status
    /\ \/ stage = "ending" /\ stage' \notin Splits /\ heldCal' = KeptOf(cal', call.id)
       \/ stage = "importing" /\ stage' = "dropping" /\ call' = call
EditOf(id, t) == [of |-> id, at |-> t, to |-> 0]
\* A series starts when it did, ends no later (but where it's ended), and of the
\* events wanted has those it had, but for what it hands over.
SteadyTimes(id) ==
    LET s == cal.series[id]
        e == cal'.series[id]
    IN  /\ e.start = s.start /\ e.skips = s.skips
        /\ e.until <= s.until \/ (stage = "ending" /\ id = call.id /\ e.until = call.at - 1)
        /\ e.count = s.count \/ (s.count # 0 /\ e.count = 1) \/ (stage = "ending" /\ id = call.id)
        /\ \A t : EditOf(id, t) \in cal.edited =>
              \/ EditOf(id, t) \in cal'.edited
              \/ stage = "importing" /\ stage' = "dropping" /\ call' = call /\ id = call.id /\ t >= call.at
        /\ \A t \in wanted' \cap Gives(cal, id) : t \in Gives(cal', id) \/ (HandsOver /\ id = call.id /\ t >= call.at)
        /\ \A t \in wanted' \cap Gives(cal', id) : t \in Gives(cal, id)
SteadyStatus(id) ==
    Confirmed(cal.series[id]) =>
        \/ Confirmed(cal'.series[id]) \/ wanted' = {}
        \/ stage = "cancelling" /\ id = call.id
        \/ stage = "undoing" /\ id = Target /\ heldCal' = KeptOf(cal', id)
RestStays(id) ==
    Confirmed(cal'.series[id]) =>
        \/ id \in DOMAIN cal.series /\ Confirmed(cal.series[id])
        \/ stage' = "dropping" /\ call' = call /\ id = Rest(call.at)
Steady ==
    /\ DOMAIN cal.series \subseteq DOMAIN cal'.series /\ wanted' \subseteq wanted
    /\ \A id \in DOMAIN cal'.series \ DOMAIN cal.series : Rests(id) \/ (stage = "creating" /\ Creates /\ id = Target)
    /\ \A id \in DOMAIN cal'.series : Rests(id) => RestStays(id)
    /\ \A id \in DOMAIN cal.series : ~Rests(id) => SteadyTimes(id) /\ SteadyStatus(id)

LEMMA GivesAgain ==
    ASSUME NEW id, SameTimes(cal'.series[id], cal.series[id]), cal'.edited = cal.edited
    PROVE  Gives(cal', id) = Gives(cal, id)
<1>1. Ruled(cal'.series[id]) = Ruled(cal.series[id])
  BY DEF Ruled, SameTimes
<1>2. Expanded(cal'.series[id]) = Expanded(cal.series[id])
  BY <1>1 DEF Expanded
<1> QED
  BY <1>2 DEF Gives

LEMMA SteadyAsWas ==
    ASSUME NEW id, IsTimed(cal.series[id]), SameTimes(cal'.series[id], cal.series[id]), cal'.edited = cal.edited
    PROVE  SteadyTimes(id)
<1>1. Gives(cal', id) = Gives(cal, id)
  BY GivesAgain
<1>2. cal'.series[id].until <= cal.series[id].until
  BY DEF SameTimes, IsTimed
<1> QED
  BY <1>1, <1>2 DEF SteadyTimes, SameTimes

LEMMA SteadyAlone ==
    ASSUME SlotsOf(cal), UNCHANGED cal, wanted' \subseteq wanted
    PROVE  Steady
<1>1. \A id \in DOMAIN cal.series : SteadyTimes(id)
  <2> SUFFICES ASSUME NEW id \in DOMAIN cal.series PROVE SteadyTimes(id)
    OBVIOUS
  <2> QED
    BY SteadyAsWas DEF SlotsOf, SameTimes
<1> QED
  BY <1>1 DEF Steady, SteadyStatus, RestStays

LEMMA SteadyRewritten ==
    ASSUME SlotsOf(cal), NEW id, NEW status, Rewrites(id, status), wanted' \subseteq wanted,
           ~Rests(id) => SteadyStatus(id), Rests(id) => RestStays(id)
    PROVE  Steady
<1>1. ASSUME NEW i \in DOMAIN cal.series PROVE SteadyTimes(i)
  <2>1. SameTimes(cal'.series[i], cal.series[i]) /\ cal'.edited = cal.edited /\ IsTimed(cal.series[i])
    BY DEF Rewrites, SameTimes, SlotsOf
  <2> QED
    BY <2>1, SteadyAsWas
<1>2. \A i \in DOMAIN cal.series \ {id} : SteadyStatus(i) /\ RestStays(i)
  BY DEF Rewrites, SteadyStatus, RestStays
<1> QED
  BY <1>1, <1>2 DEF Steady, Rewrites

LEMMA SteadyCreated ==
    ASSUME SlotsOf(cal), stage = "creating", Creates, wanted' \subseteq wanted, ~Rests(Target)
    PROVE  Steady
<1>1. ASSUME NEW i \in DOMAIN cal.series PROVE SteadyTimes(i)
  <2>1. SameTimes(cal'.series[i], cal.series[i]) /\ cal'.edited = cal.edited /\ IsTimed(cal.series[i])
    BY DEF Creates, SameTimes, SlotsOf
  <2> QED
    BY <2>1, SteadyAsWas
<1>2. \A i \in DOMAIN cal.series : SteadyStatus(i) /\ RestStays(i)
  BY DEF Creates, SteadyStatus, RestStays
<1> QED
  BY <1>1, <1>2 DEF Steady, Creates

\* A series cut short has the events it had before its end.
LEMMA EndedGives ==
    ASSUME SlotsOf(cal), SlotsOf(cal'), Ends, stage = "ending", call.id \in DOMAIN cal.series, call.at \in 1..LastSlot,
           ~Rests(call.id), SplitTold, wanted' \subseteq wanted, stage' \notin Splits, heldCal' = KeptOf(cal', call.id)
    PROVE  SteadyTimes(call.id)
<1> DEFINE s == cal.series[call.id]
<1>1. PICK e : e = cal'.series[call.id]
  OBVIOUS
<1>2. /\ e.start = s.start /\ e.skips = s.skips /\ e.count = 0 /\ e.until = call.at - 1 /\ e.status = s.status
      /\ cal'.edited = cal.edited /\ IsTimed(s) /\ IsTimed(e)
  BY <1>1 DEF Ends, SlotsOf
<1>3. HandsOver
  BY <1>1, <1>2, SlotsAssumption DEF HandsOver, IsTimed
<1>4. ASSUME NEW t \in wanted' \cap Gives(cal, call.id) PROVE t \in Gives(cal', call.id) \/ t >= call.at
  <2>1. t \in Expanded(s) /\ t \in 1..LastSlot
    BY <1>2, ExpandedIs DEF Gives
  <2>2. t < call.at => t \in Expanded(e)
    BY <1>2, <2>1, CutShort, SlotsAssumption
  <2> QED
    BY <1>1, <1>2, <2>1, <2>2, SlotsAssumption DEF Gives
<1>5. ASSUME NEW t \in wanted' \cap Gives(cal', call.id) PROVE t \in Gives(cal, call.id)
  <2>1. t \in Expanded(e) /\ EditOf(call.id, t) \notin cal.edited
    BY <1>1, <1>2 DEF Gives, EditOf
  <2>2. s.start <= t /\ t <= call.at - 1 /\ t \notin s.skips /\ t \in 1..LastSlot
    BY <1>2, <2>1, ExpandedIs
  <2>3. t \in Expanded(s)
    BY <2>1, <2>2, SlotsAssumption DEF SplitTold, EditOf
  <2> QED
    BY <2>1, <2>3 DEF Gives, EditOf
<1> QED
  BY <1>1, <1>2, <1>3, <1>4, <1>5 DEF SteadyTimes

LEMMA SteadyEnded ==
    ASSUME SlotsOf(cal), SlotsOf(cal'), Ends, stage = "ending", call.id \in DOMAIN cal.series, call.at \in 1..LastSlot,
           ~Rests(call.id), SplitTold, wanted' \subseteq wanted, stage' \notin Splits, heldCal' = KeptOf(cal', call.id)
    PROVE  Steady
<1>1. ASSUME NEW i \in DOMAIN cal.series PROVE SteadyTimes(i)
  <2>1. CASE i = call.id
    BY <2>1, EndedGives
  <2>2. CASE i # call.id
    <3>1. SameTimes(cal'.series[i], cal.series[i]) /\ cal'.edited = cal.edited /\ IsTimed(cal.series[i])
      BY <2>2 DEF Ends, SameTimes, SlotsOf
    <3> QED
      BY <3>1, SteadyAsWas
  <2> QED
    BY <2>1, <2>2
<1>2. \A i \in DOMAIN cal.series : SteadyStatus(i) /\ RestStays(i)
  BY DEF Ends, SteadyStatus, RestStays, Confirmed
<1> QED
  BY <1>1, <1>2 DEF Steady, Ends

\* What's left of a series is imported, and what was edited on its own moved.
LEMMA EditsMoved ==
    ASSUME SlotsOf(cal), NEW id, NEW t \in Int, cal'.edited = {MovedEdit(e) : e \in cal.edited}, id # Rest(call.at), call.at \in Int
    PROVE  /\ id # call.id => (EditOf(id, t) \in cal'.edited <=> EditOf(id, t) \in cal.edited)
           /\ id = call.id => (EditOf(id, t) \in cal'.edited <=> EditOf(id, t) \in cal.edited /\ t < call.at)
<1>1. \A e \in cal.edited : /\ e.of = call.id /\ e.at >= call.at => MovedEdit(e) = [of |-> Rest(call.at), at |-> e.at, to |-> e.to]
                            /\ ~(e.of = call.id /\ e.at >= call.at) => MovedEdit(e) = e
  <2> SUFFICES ASSUME NEW e \in cal.edited
               PROVE  /\ e.of = call.id /\ e.at >= call.at => MovedEdit(e) = [of |-> Rest(call.at), at |-> e.at, to |-> e.to]
                      /\ ~(e.of = call.id /\ e.at >= call.at) => MovedEdit(e) = e
    OBVIOUS
  <2>1. e = [of |-> e.of, at |-> e.at, to |-> e.to]
    BY DEF SlotsOf, IsEdit
  <2>2. CASE e.of = call.id /\ e.at >= call.at
    <3>1. MovedEdit(e) = [e EXCEPT !.of = Rest(call.at)]
      BY <2>2 DEF MovedEdit
    <3> QED
      BY <2>1, <2>2, <3>1
  <2>3. CASE ~(e.of = call.id /\ e.at >= call.at)
    <3>1. MovedEdit(e) = [e EXCEPT !.of = e.of]
      BY <2>3 DEF MovedEdit
    <3> QED
      BY <2>1, <2>3, <3>1
  <2> QED
    BY <2>2, <2>3
<1>2. EditOf(id, t).of = id /\ EditOf(id, t).at = t
  BY DEF EditOf
<1>3. ASSUME EditOf(id, t) \in cal.edited, ~(id = call.id /\ t >= call.at)
      PROVE  EditOf(id, t) \in cal'.edited
  BY <1>1, <1>2, <1>3
<1>4. ASSUME EditOf(id, t) \in cal'.edited
      PROVE  EditOf(id, t) \in cal.edited /\ ~(id = call.id /\ t >= call.at)
  <2>1. PICK e \in cal.edited : EditOf(id, t) = MovedEdit(e)
    BY <1>4
  <2>2. ~(e.of = call.id /\ e.at >= call.at)
    BY <1>1, <1>2, <2>1
  <2> QED
    BY <1>1, <1>2, <2>1, <2>2
<1> QED
  BY <1>3, <1>4

\* Cut where Google split it, a series has the events it had before.
LEMMA CutGives ==
    ASSUME SlotsOf(cal), SlotsOf(cal'), call.id \in DOMAIN cal.series, DOMAIN cal.series \subseteq DOMAIN cal'.series,
           call.at \in 1..LastSlot, call.id # Rest(call.at),
           cal'.edited = {MovedEdit(e) : e \in cal.edited}, CutAt(cal'.series[call.id], cal.series[call.id]),
           stage = "importing", stage' = "dropping", call' = call
    PROVE  SteadyTimes(call.id)
<1> DEFINE s == cal.series[call.id]
<1>0. call.at \in Int /\ LastSlot \in Int
  BY SlotsAssumption
<1>1. PICK e : e = cal'.series[call.id]
  OBVIOUS
<1>2. /\ e.start = s.start /\ e.skips = s.skips /\ e.count = s.count /\ e.until <= s.until /\ e.until < call.at
      /\ e.until \in {s.until, call.at - 1} /\ e.status = s.status /\ IsTimed(s) /\ IsTimed(e)
  BY <1>1 DEF CutAt, SlotsOf
<1>9. s.start \in Int /\ s.count \in Int /\ s.until \in Int /\ e.until \in Int
  BY <1>0, <1>2 DEF IsTimed
<1> HIDE DEF s
<1>3. HandsOver
  BY <1>1, <1>2 DEF HandsOver, s
<1>4. \A t \in 1..LastSlot : EditOf(call.id, t) \in cal'.edited <=> EditOf(call.id, t) \in cal.edited /\ t < call.at
  <2> SUFFICES ASSUME NEW t \in 1..LastSlot
               PROVE  EditOf(call.id, t) \in cal'.edited <=> EditOf(call.id, t) \in cal.edited /\ t < call.at
    OBVIOUS
  <2>1. t \in Int
    BY SlotsAssumption
  <2> QED
    BY <1>0, <2>1, EditsMoved
<1>5. ASSUME NEW t \in wanted' \cap Gives(cal, call.id) PROVE t \in Gives(cal', call.id) \/ t >= call.at
  <2>1. t \in Expanded(s) /\ t \in 1..LastSlot /\ t <= s.until /\ (s.count # 0 => t < s.start + s.count) /\ EditOf(call.id, t) \notin cal.edited
    BY <1>2, ExpandedIs DEF Gives, EditOf, s
  <2>0. t \in Int
    BY <1>0, <2>1
  <2>2. t < call.at => t <= e.until /\ (e.count = 0 \/ t < e.start + e.count)
    BY <1>0, <1>2, <1>9, <2>0, <2>1
  <2>3. t < call.at => t \in Expanded(e)
    BY <1>2, <2>1, <2>2, CutShort
  <2> QED
    BY <1>0, <1>1, <1>4, <2>0, <2>1, <2>3 DEF Gives, EditOf
<1>6. ASSUME NEW t \in Gives(cal', call.id) PROVE t \in Gives(cal, call.id)
  <2>1. t \in Expanded(e) /\ EditOf(call.id, t) \notin cal'.edited
    BY <1>1, <1>6 DEF Gives, EditOf
  <2>2. t \in Ruled(e) /\ t \in 1..LastSlot /\ t <= e.until
    BY <1>2, <2>1, ExpandedIs
  <2>0. t \in Int
    BY <1>0, <2>2
  <2>3. t \in Ruled(s)
    BY <1>0, <1>2, <1>9, <2>0, <2>2 DEF Ruled
  <2>4. \A u \in Ruled(s) : u < t => u \in Ruled(e)
    <3> SUFFICES ASSUME NEW u \in Ruled(s), u < t PROVE u \in Ruled(e)
      OBVIOUS
    <3>1. u \in Int /\ u <= e.until
      BY <1>0, <1>2, <1>9, <2>0, <2>2 DEF Ruled
    <3> QED
      BY <1>0, <1>2, <1>9, <3>1 DEF Ruled
  <2>5. t \in Expanded(s)
    BY <1>2, <2>1, <2>3, <2>4, ExpandedToo
  <2>6. EditOf(call.id, t) \notin cal.edited
    BY <1>0, <1>2, <1>4, <1>9, <2>0, <2>1, <2>2
  <2> QED
    BY <2>5, <2>6 DEF Gives, EditOf, s
<1>7. \A t : EditOf(call.id, t) \in cal.edited => EditOf(call.id, t) \in cal'.edited \/ t >= call.at
  <2> SUFFICES ASSUME NEW t, EditOf(call.id, t) \in cal.edited, ~(t >= call.at) PROVE EditOf(call.id, t) \in cal'.edited
    OBVIOUS
  <2>1. EditOf(call.id, t) = [of |-> call.id, at |-> t, to |-> 0]
    BY DEF EditOf
  <2>3. EditOf(call.id, t).at = t /\ [EditOf(call.id, t) EXCEPT !.of = call.id] = EditOf(call.id, t)
    BY <2>1
  <2>2. MovedEdit(EditOf(call.id, t)) = EditOf(call.id, t)
    BY <2>1, <2>3 DEF MovedEdit
  <2> QED
    BY <2>2
<1>8. /\ e.until <= s.until \/ (stage = "ending" /\ call.id = call.id /\ e.until = call.at - 1)
      /\ e.count = s.count
  BY <1>2
<1> QED
  BY <1>1, <1>2, <1>3, <1>5, <1>6, <1>7, <1>8 DEF SteadyTimes, s

LEMMA SteadyImported ==
    ASSUME SlotsOf(cal), SlotsOf(cal'), Imports, call.id \in DOMAIN cal.series, call.at \in 1..LastSlot, ~Rests(call.id),
           stage = "importing", stage' = "dropping", call' = call, wanted' \subseteq wanted
    PROVE  Steady
<1>1. Rests(Rest(call.at)) /\ call.id # Rest(call.at)
  <2>1. call.at \in Int
    BY SlotsAssumption
  <2> QED
    BY <2>1, RestIs
<1>2. ASSUME NEW i \in DOMAIN cal.series, ~Rests(i) PROVE SteadyTimes(i) /\ SteadyStatus(i)
  <2>0. i # Rest(call.at)
    BY <1>1, <1>2
  <2>1. IsTimed(cal.series[i])
    BY DEF SlotsOf
  <2>2. CASE i = call.id
    <3>1. CASE cal'.edited = cal.edited /\ cal'.series[call.id] = cal.series[call.id]
      <4>1. SameTimes(cal'.series[i], cal.series[i])
        BY <2>2, <3>1 DEF SameTimes
      <4> QED
        BY <2>1, <2>2, <3>1, <4>1, SteadyAsWas DEF SteadyStatus
    <3>2. CASE cal'.edited = {MovedEdit(e) : e \in cal.edited} /\ CutAt(cal'.series[call.id], cal.series[call.id])
      <4>1. DOMAIN cal.series \subseteq DOMAIN cal'.series
        BY DEF Imports
      <4> QED
        BY <1>1, <2>2, <3>2, <4>1, CutGives DEF SteadyStatus, CutAt, Confirmed
    <3> QED
      BY <1>1, <3>1, <3>2 DEF Imports
  <2>3. CASE i # call.id
    <3>1. SameTimes(cal'.series[i], cal.series[i]) /\ cal'.series[i] = cal.series[i]
      BY <2>0, <2>3 DEF Imports, SameTimes
    <3>2. CASE cal'.edited = cal.edited
      BY <2>1, <3>1, <3>2, SteadyAsWas DEF SteadyStatus
    <3>3. CASE cal'.edited = {MovedEdit(e) : e \in cal.edited}
      <4>1. \A t \in 1..LastSlot : EditOf(i, t) \in cal'.edited <=> EditOf(i, t) \in cal.edited
        <5>1. call.at \in Int /\ \A t \in 1..LastSlot : t \in Int
          BY SlotsAssumption
        <5> QED
          BY <2>0, <2>3, <3>3, <5>1, EditsMoved
      <4>2. Expanded(cal'.series[i]) \subseteq 1..LastSlot /\ Expanded(cal.series[i]) \subseteq 1..LastSlot
        BY <2>1, <3>1, ExpandedIs
      <4>3. Gives(cal', i) = Gives(cal, i)
        BY <3>1, <4>1, <4>2 DEF Gives, EditOf
      <4>4. \A t : EditOf(i, t) \in cal.edited => EditOf(i, t) \in cal'.edited
        <5> SUFFICES ASSUME NEW t, EditOf(i, t) \in cal.edited PROVE EditOf(i, t) \in cal'.edited
          OBVIOUS
        <5>1. EditOf(i, t) = [of |-> i, at |-> t, to |-> 0]
          BY DEF EditOf
        <5>3. EditOf(i, t).of # call.id /\ [EditOf(i, t) EXCEPT !.of = i] = EditOf(i, t) /\ EditOf(i, t).of = i
          BY <2>3, <5>1
        <5>2. MovedEdit(EditOf(i, t)) = EditOf(i, t)
          BY <2>3, <5>1, <5>3 DEF MovedEdit
        <5> QED
          BY <3>3, <5>2
      <4>5. cal'.series[i].until <= cal.series[i].until
        BY <2>1, <3>1 DEF IsTimed
      <4> QED
        BY <3>1, <4>3, <4>4, <4>5 DEF SteadyTimes, SteadyStatus
    <3> QED
      BY <3>2, <3>3 DEF Imports
  <2> QED
    BY <2>2, <2>3
<1>3. ASSUME NEW i \in DOMAIN cal'.series, Rests(i) PROVE RestStays(i)
  <2>1. CASE i = Rest(call.at)
    BY <2>1 DEF RestStays
  <2>2. CASE i # Rest(call.at)
    <3>1. i \in DOMAIN cal.series /\ cal'.series[i] = cal.series[i]
      BY <1>3, <2>2 DEF Imports
    <3> QED
      BY <3>1 DEF RestStays
  <2> QED
    BY <2>1, <2>2
<1> QED
  BY <1>1, <1>2, <1>3 DEF Steady, Imports

\* Cut to its first event elsewhere, a series has that of those still wanted.
LEMMA NarrowedGives ==
    ASSUME SlotsOf(cal), SlotsOf(cal'), NEW id \in DOMAIN cal.series, Narrows(id), Confirmed(cal.series[id])
    PROVE  SteadyTimes(id)
<1> DEFINE s == cal.series[id]
<1>1. PICK e : e = cal'.series[id]
  OBVIOUS
<1>2. /\ e.start = s.start /\ e.skips = s.skips /\ e.status = s.status /\ cal'.edited = cal.edited
      /\ \/ s.count = 0 /\ e.count = 0 /\ e.until = s.start /\ s.start < s.until
         \/ s.count # 0 /\ e.count = 1 /\ e.until = s.until
      /\ IsTimed(s) /\ IsTimed(e) /\ wanted' = wanted \ {t \in Gives(cal, id) : t > s.start}
  BY <1>1 DEF Narrows, SlotsOf, Listed, Gives
<1>3. /\ s.start \in Int /\ s.count \in Nat /\ s.until \in Int /\ e.until \in Int /\ e.count \in Nat
      /\ e.until <= s.until
  BY <1>2, SlotsAssumption DEF IsTimed
<1> HIDE DEF s
<1>4. ASSUME NEW t \in wanted' \cap Gives(cal, id) PROVE t \in Gives(cal', id)
  <2>1. t \in Expanded(s) /\ EditOf(id, t) \notin cal.edited
    BY DEF Gives, EditOf, s
  <2>2. t \in Int /\ s.start <= t /\ t <= s.until /\ t <= s.start
    BY <1>2, <1>3, <2>1, ExpandedIs, SlotsAssumption
  <2>3. t <= e.until /\ (e.count = 0 \/ t < e.start + e.count)
    BY <1>2, <1>3, <2>2
  <2>4. t \in Expanded(e)
    BY <1>2, <2>1, <2>3, CutShort
  <2> QED
    BY <1>1, <1>2, <2>1, <2>4 DEF Gives, EditOf
<1>5. ASSUME NEW t \in Gives(cal', id) PROVE t \in Gives(cal, id)
  <2>1. t \in Expanded(e) /\ EditOf(id, t) \notin cal.edited
    BY <1>1, <1>2 DEF Gives, EditOf
  <2>2. t \in Ruled(e) /\ t \in 1..LastSlot /\ e.start <= t /\ t <= e.until /\ (e.count # 0 => t < e.start + e.count)
    BY <1>2, <2>1, ExpandedIs
  <2>3. t \in Int /\ t = s.start /\ t <= s.until
    BY <1>2, <1>3, <2>2, SlotsAssumption
  <2>4. t \in Ruled(s)
    BY <1>2, <1>3, <2>2, <2>3 DEF Ruled
  <2>5. \A u \in Ruled(s) : ~(u < t)
    BY <1>3, <2>3, SlotsAssumption DEF Ruled
  <2>6. t \in Expanded(s)
    BY <1>2, <2>1, <2>4, <2>5, ExpandedToo
  <2> QED
    BY <2>1, <2>6 DEF Gives, EditOf, s
<1>6. e.count = s.count \/ (s.count # 0 /\ e.count = 1)
  BY <1>2
<1> QED
  BY <1>1, <1>2, <1>3, <1>4, <1>5, <1>6 DEF SteadyTimes, s

LEMMA SteadyNarrowed ==
    ASSUME SlotsOf(cal), SlotsOf(cal'), NEW id \in DOMAIN cal.series, Narrows(id), Confirmed(cal.series[id])
    PROVE  Steady
<1>1. ASSUME NEW i \in DOMAIN cal.series PROVE SteadyTimes(i)
  <2>1. CASE i = id
    BY <2>1, NarrowedGives
  <2>2. CASE i # id
    <3>1. SameTimes(cal'.series[i], cal.series[i]) /\ cal'.edited = cal.edited /\ IsTimed(cal.series[i])
      BY <2>2 DEF Narrows, SameTimes, SlotsOf
    <3> QED
      BY <3>1, SteadyAsWas
  <2> QED
    BY <2>1, <2>2
<1>2. \A i \in DOMAIN cal.series : SteadyStatus(i) /\ RestStays(i)
  BY DEF Narrows, SteadyStatus, RestStays, Confirmed
<1> QED
  BY <1>1, <1>2 DEF Steady, Narrows

\* One of its events is cancelled, and not wanted any more, or moved.
LEMMA SteadyOneEdited ==
    ASSUME SlotsOf(cal), NEW id \in DOMAIN cal.series, NEW t,
           \/ EditsOne([of |-> id, at |-> t, to |-> 0]) /\ wanted' = wanted \ {t}
           \/ EditsOne([of |-> id, at |-> t, to |-> 1]) /\ UNCHANGED wanted
    PROVE  Steady
<1>0. PICK edit : /\ EditsOne(edit) /\ wanted' \subseteq wanted
                  /\ \A i, u : edit = EditOf(i, u) => u \notin wanted'
  <2>1. \A i, u : [of |-> id, at |-> t, to |-> 1] # EditOf(i, u)
    BY DEF EditOf
  <2>2. \A i, u : [of |-> id, at |-> t, to |-> 0] = EditOf(i, u) => u = t
    BY DEF EditOf
  <2> QED
    BY <2>1, <2>2
<1>1. ASSUME NEW i \in DOMAIN cal.series PROVE SteadyTimes(i)
  <2>1. /\ SameTimes(cal'.series[i], cal.series[i]) /\ cal'.edited = cal.edited \cup {edit}
        /\ IsTimed(cal.series[i])
    BY <1>0 DEF EditsOne, SlotsOf
  <2>2. Expanded(cal'.series[i]) = Expanded(cal.series[i])
    <3>1. Ruled(cal'.series[i]) = Ruled(cal.series[i])
      BY <2>1 DEF Ruled, SameTimes
    <3> QED
      BY <3>1 DEF Expanded
  <2>3. \A u : u \in Gives(cal', i) <=> u \in Gives(cal, i) /\ edit # EditOf(i, u)
    BY <2>1, <2>2 DEF Gives, EditOf
  <2>4. \A u \in wanted' : edit # EditOf(i, u)
    BY <1>0
  <2>5. cal'.series[i].until <= cal.series[i].until
    BY <2>1 DEF SameTimes, IsTimed
  <2>6. cal'.series[i].start = cal.series[i].start /\ cal'.series[i].skips = cal.series[i].skips /\ cal'.series[i].count = cal.series[i].count
    BY <2>1 DEF SameTimes
  <2> QED
    BY <2>1, <2>3, <2>4, <2>5, <2>6 DEF SteadyTimes
<1>2. \A i \in DOMAIN cal.series : SteadyStatus(i) /\ RestStays(i)
  BY <1>0 DEF EditsOne, SteadyStatus, RestStays, Confirmed
<1> QED
  BY <1>0, <1>1, <1>2 DEF Steady, EditsOne

LEMMA SteadyElsewhere ==
    ASSUME SeriesInv, SlotsOf(cal), EditElsewhere
    PROVE  Steady
<1>1. PICK id \in DOMAIN cal.series : ElsewhereDoes(id)
  BY ElsewhereIs
<1>2. SlotsOf(cal')
  BY ElsewhereIs
<1>3. CASE Rewrites(id, cal.series[id].status) /\ UNCHANGED wanted
  BY <1>3, SteadyRewritten DEF SteadyStatus, RestStays, Confirmed, Rewrites
<1>4. CASE Rewrites(id, "cancelled") /\ wanted' = {}
  <2>1. SteadyStatus(id) /\ RestStays(id) /\ wanted' \subseteq wanted
    BY <1>4 DEF SteadyStatus, RestStays, Confirmed, Rewrites
  <2> QED
    BY <1>4, <2>1, SteadyRewritten
<1>5. CASE Narrows(id)
  BY <1>1, <1>2, <1>5, SteadyNarrowed DEF ElsewhereDoes
<1>6. CASE \E t \in Listed(cal, id) : EditsOne([of |-> id, at |-> t, to |-> 0]) /\ wanted' = wanted \ {t}
  BY <1>6, SteadyOneEdited
<1>7. CASE \E t \in Listed(cal, id) : EditsOne([of |-> id, at |-> t, to |-> 1]) /\ UNCHANGED wanted
  BY <1>7, SteadyOneEdited
<1> QED
  BY <1>1, <1>3, <1>4, <1>5, <1>6, <1>7 DEF ElsewhereDoes
----------------------------------------------------------------------------
(* Each step, while the server's told of what it did *)

LEMMA AnsweredIs ==
    ASSUME NEW id, NEW s, Answered(id, s)
    PROVE  cal' = Put(cal, id, s) /\ heldCal' = KeptOf(cal', id)
<1>1. PICK c \in {Put(cal, id, s)} : cal' = c /\ heldCal' = KeptOf(c, id)
  BY DEF Answered
<1> QED
  BY <1>1

LEMMA ToldBefore ==
    ASSUME SeriesInv, SlotsInv, [SeriesNext]_seriesVars, ~untold'
    PROVE  ~untold
<1>1. CASE untold' = untold
  BY <1>1
<1>2. CASE EndSeries
  BY <1>2 DEF EndSeries
<1>3. CASE ImportRest \/ CancelRest \/ VerifyEnded \/ UndoCopy \/ StopSeries
  BY <1>3 DEF ImportRest, CancelRest, VerifyEnded, UndoCopy, StopSeries
<1> QED
  BY <1>1, <1>2, <1>3 DEF SeriesNext, seriesVars, AskSeries, AskRenewal, RenewNext, ReadToSplit, CountInstances, CreateCopy,
     ReviveCopy, ReadAgainToEnd, PatchSeries, ReadAgainToPatch, CancelWhole, EditElsewhere, SyncSeries

LEMMA EndDoneLeaves ==
    ASSUME EndDone
    PROVE  stage' \in {"none", "renewing", "patching"} /\ stage' \notin Splits
<1>1. stage' \in {"none", "renewing", "patching"}
  BY DEF EndDone, SplitDone, CallEnds, GoesTo
<1> QED
  BY <1>1 DEF Splits, Splitting

\* What's left of a series stays till it's cancelled.
LEMMA RestIsDropped ==
    ASSUME SeriesInv, SlotsInv, [SeriesNext]_seriesVars, ~untold', stage = "dropping"
    PROVE  \/ call' = call /\ stage' = stage
           \/ /\ call' = call /\ stage' = "verifying" /\ Rewrites(Rest(call.at), "cancelled")
              /\ heldCal' = KeptOf(cal', Rest(call.at))
<1>1. CASE EditElsewhere \/ SyncSeries \/ UNCHANGED seriesVars
  BY <1>1 DEF EditElsewhere, SyncSeries, seriesVars
<1>2. CASE CancelRest
  <2>1. Answered(Rest(call.at), [cal.series[Rest(call.at)] EXCEPT !.status = "cancelled"]) /\ stage' = "verifying" /\ call' = call
    BY <1>2 DEF CancelRest, GoesTo
  <2>2. /\ cal' = Put(cal, Rest(call.at), [cal.series[Rest(call.at)] EXCEPT !.status = "cancelled"])
        /\ heldCal' = KeptOf(cal', Rest(call.at))
    BY <2>1, AnsweredIs
  <2>3. Rest(call.at) \in DOMAIN cal.series
    BY DEF SeriesInv, CallOK
  <2>4. Rewrites(Rest(call.at), "cancelled")
    BY <2>2, <2>3, StatusRewritten
  <2> QED
    BY <2>1, <2>2, <2>4
<1>3. ~StopSeries
  BY DEF StopSeries
<1> QED
  BY <1>1, <1>2, <1>3 DEF SeriesNext, AskSeries, AskRenewal, RenewNext, ReadToSplit, CountInstances, CreateCopy, ReviveCopy,
     EndSeries, ReadAgainToEnd, ImportRest, VerifyEnded, UndoCopy, PatchSeries, ReadAgainToPatch, CancelWhole

\* Whether a series was ended by importing what's left of it is asked before
\* the call goes on.
LEMMA EndIsVerified ==
    ASSUME SeriesInv, SlotsInv, [SeriesNext]_seriesVars, ~untold', Importing
    PROVE  \/ call' = call /\ Importing'
           \/ /\ cal' = cal /\ heldCal' = KeptOf(cal', call.id)
              /\ EndsBefore(cal.series[call.id], call.at) => stage' \notin Splits
<1>1. CASE stage = "dropping"
  BY <1>1, RestIsDropped DEF Importing
<1>2. CASE stage = "verifying"
  <2>1. CASE EditElsewhere \/ SyncSeries \/ UNCHANGED seriesVars
    BY <2>1 DEF EditElsewhere, SyncSeries, seriesVars, Importing
  <2>2. CASE VerifyEnded
    <3>1. cal' = cal /\ heldCal' = KeptOf(cal, call.id) /\ (EndsBefore(cal.series[call.id], call.at) => EndDone)
      BY <2>2 DEF VerifyEnded
    <3> QED
      BY <3>1, EndDoneLeaves
  <2>3. ~StopSeries
    BY <1>2 DEF StopSeries
  <2> QED
    BY <1>2, <2>1, <2>2, <2>3 DEF SeriesNext, AskSeries, AskRenewal, RenewNext, ReadToSplit, CountInstances, CreateCopy, ReviveCopy,
       EndSeries, ReadAgainToEnd, ImportRest, CancelRest, UndoCopy, PatchSeries, ReadAgainToPatch, CancelWhole
<1> QED
  BY <1>1, <1>2 DEF Importing

\* A copy that's one series' is no rest of another.
LEMMA TargetIs ==
    ASSUME SlotsOf(cal), IdsTold, call.id \in DOMAIN cal.series, call.at \in 1..LastSlot, ~Rests(call.id)
    PROVE  /\ Target \in Seq(Labels) /\ Len(Target) = Len(call.id) + 1 /\ Len(call.id) \in Nat \ {0} /\ ~Rests(Target)
           /\ Extends(Target, call.id) /\ call.id \in Seq(Labels) /\ Target # call.id
<1>1. call.id \in Seq(Labels) /\ Len(call.id) >= 1 /\ call.at \in Labels /\ call.at \in Int
  BY SlotsAssumption DEF SlotsOf, IsNamed, Labels
<1>2. Target \in Seq(Labels) /\ Len(Target) = Len(call.id) + 1 /\ Len(call.id) \in Nat /\ Extends(Target, call.id)
  BY <1>1, CopyIs DEF Target
<1>3. ~Rests(Target)
  <2> SUFFICES ASSUME Rests(Target) PROVE FALSE
    OBVIOUS
  <2>1. Len(call.id) = 1 /\ call.id[1] = "rest"
    BY <1>1, RestIs DEF Target
  <2> QED
    BY <2>1 DEF IdsTold
<1> QED
  BY <1>1, <1>2, <1>3

LEMMA SteadyWrites ==
    ASSUME SeriesInv, SlotsInv, Told, ~untold', ReviveCopy \/ CancelRest \/ UndoCopy \/ PatchSeries \/ CancelWhole
    PROVE  Steady
<1>1. SlotsOf(cal) /\ wanted' = wanted
  BY DEF SlotsInv, ReviveCopy, CancelRest, UndoCopy, PatchSeries, CancelWhole
<1>2. CASE UNCHANGED cal
  BY <1>1, <1>2, SteadyAlone
<1>3. CASE ReviveCopy /\ ~UNCHANGED cal
  <2>1. stage = "reviving" /\ cal' = Put(cal, call.target, [cal.series[call.target] EXCEPT !.status = "confirmed"])
    BY <1>3, WriteCases DEF ReviveCopy
  <2>2. Rewrites(call.target, "confirmed")
    BY <2>1, SeriesThere, StatusRewritten
  <2>3. SteadyStatus(call.target)
    BY <2>2 DEF SteadyStatus, Rewrites, Confirmed
  <2>4. /\ call.target = Target /\ call.id \in DOMAIN cal.series /\ call.at \in 1..LastSlot /\ ~Rests(call.id)
    BY <2>1, SeriesThere DEF SlotsInv, CallSlots, Splits, Splitting, Copied, Told, CallTold, SplitTold
  <2>5. ~Rests(call.target)
    BY <1>1, <2>4, TargetIs DEF Told
  <2> QED
    BY <1>1, <2>2, <2>3, <2>5, SteadyRewritten
<1>4. CASE CancelRest /\ ~UNCHANGED cal
  <2>1. Rewrites(Rest(call.at), "cancelled")
    <3>1. stage = "dropping" /\ cal' = Put(cal, Rest(call.at), [cal.series[Rest(call.at)] EXCEPT !.status = "cancelled"])
      BY <1>4, WriteCases DEF CancelRest
    <3>2. Rest(call.at) \in DOMAIN cal.series
      BY <3>1 DEF SeriesInv, CallOK
    <3> QED
      BY <3>1, <3>2, StatusRewritten
  <2>2. Rests(Rest(call.at))
    <3>1. stage \in Splits
      BY <1>4 DEF CancelRest, Splits, Splitting
    <3>2. call.at \in Int
      BY <3>1, SlotsAssumption DEF SlotsInv, CallSlots
    <3> QED
      BY <3>2, RestIs
  <2>3. RestStays(Rest(call.at))
    BY <2>1 DEF RestStays, Rewrites, Confirmed
  <2> QED
    BY <1>1, <2>1, <2>2, <2>3, SteadyRewritten
<1>5. CASE UndoCopy /\ ~UNCHANGED cal
  <2>1. stage = "undoing" /\ Answered(call.target, [cal.series[call.target] EXCEPT !.status = "cancelled"])
    BY <1>5 DEF UndoCopy, Refused
  <2>2. /\ cal' = Put(cal, call.target, [cal.series[call.target] EXCEPT !.status = "cancelled"])
        /\ heldCal' = KeptOf(cal', call.target)
    BY <2>1, AnsweredIs
  <2>3. Rewrites(call.target, "cancelled")
    BY <2>1, <2>2, SeriesThere, StatusRewritten
  <2>4. stage \in Splits /\ call.do # "delete" /\ stage \notin {"reading", "counting", "creating"}
    BY <2>1 DEF SlotsInv, CallSlots, Splits, Splitting, Copied
  <2>5. call.target = Target
    BY <2>4 DEF SlotsInv, CallSlots
  <2>6. SteadyStatus(call.target)
    BY <2>1, <2>2, <2>5 DEF SteadyStatus
  <2>7. RestStays(call.target)
    BY <2>3 DEF RestStays, Rewrites, Confirmed
  <2> QED
    BY <1>1, <2>3, <2>6, <2>7, SteadyRewritten
<1>6. CASE PatchSeries /\ ~UNCHANGED cal
  <2>1. stage = "patching" /\ cal' = Put(cal, call.target, Amended(cal.series[call.target], call.set))
    BY <1>6, WriteCases DEF PatchSeries, Outdated
  <2>2. DOMAIN call.set \subseteq {"days", "val"} /\ call.target \in DOMAIN cal.series
    BY <2>1, SeriesThere DEF SlotsInv, CallSlots
  <2>3. Rewrites(call.target, cal.series[call.target].status)
    BY <2>1, <2>2, AmendedRewritten
  <2>4. SteadyStatus(call.target) /\ RestStays(call.target)
    BY <2>2, <2>3 DEF SteadyStatus, RestStays, Rewrites, Confirmed
  <2> QED
    BY <1>1, <2>3, <2>4, SteadyRewritten
<1>7. CASE CancelWhole /\ ~UNCHANGED cal
  <2>1. stage = "cancelling" /\ cal' = Put(cal, call.id, [cal.series[call.id] EXCEPT !.status = "cancelled"])
    BY <1>7, WriteCases DEF CancelWhole
  <2>2. Rewrites(call.id, "cancelled")
    BY <2>1, SeriesThere, StatusRewritten
  <2>3. SteadyStatus(call.id) /\ RestStays(call.id)
    BY <2>1, <2>2 DEF SteadyStatus, RestStays, Rewrites, Confirmed
  <2> QED
    BY <1>1, <2>2, <2>3, SteadyRewritten
<1> QED
  BY <1>2, <1>3, <1>4, <1>5, <1>6, <1>7

\* A step leaves each series as it's said above.
LEMMA SteadyStep ==
    ASSUME SeriesInv, SlotsInv, Told, [SeriesNext]_seriesVars, ~untold'
    PROVE  Steady
<1>1. SlotsOf(cal) /\ SlotsOf(cal')
  BY CalSlotsKept DEF SlotsInv
<1>2. CASE UNCHANGED cal /\ wanted' \subseteq wanted
  BY <1>1, <1>2, SteadyAlone
<1>3. CASE AskSeries
  <2>1. cal' = cal /\ wanted' \subseteq wanted
    BY <1>3, AskGoesSo DEF AskGoes
  <2> QED
    BY <1>2, <2>1
<1>4. CASE CreateCopy /\ ~UNCHANGED cal
  <2>1. Creates /\ stage = "creating" /\ wanted' \subseteq wanted
    BY <1>4, CreatedIs DEF CreateCopy
  <2>2. call.id \in DOMAIN cal.series /\ call.at \in 1..LastSlot /\ ~Rests(call.id)
    BY <2>1, SeriesThere DEF SlotsInv, CallSlots, Splits, Splitting, Told, CallTold, SplitTold
  <2>3. ~Rests(Target)
    BY <1>1, <2>2, TargetIs DEF Told
  <2> QED
    BY <1>1, <2>1, <2>3, SteadyCreated
<1>5. CASE EndSeries /\ ~UNCHANGED cal
  <2>1. Ends /\ EndDone /\ heldCal' = KeptOf(cal', call.id) /\ stage = "ending" /\ wanted' \subseteq wanted
    BY <1>5, EndGoesSo DEF EndGoes, EndSeries
  <2>2. call.id \in DOMAIN cal.series /\ call.at \in 1..LastSlot /\ ~Rests(call.id) /\ SplitTold
    BY <2>1, SeriesThere DEF SlotsInv, CallSlots, Splits, Splitting, Told, CallTold, SplitTold
  <2>3. stage' \notin Splits
    BY <2>1, EndDoneLeaves
  <2> QED
    BY <1>1, <2>1, <2>2, <2>3, SteadyEnded
<1>6. CASE ImportRest /\ ~UNCHANGED cal
  <2>1. /\ stage = "importing" /\ (cal' = WithRest(cal) \/ cal' = WithRest(Imported(cal)))
        /\ call' = call /\ stage' = "dropping" /\ wanted' \subseteq wanted
    BY <1>6 DEF ImportRest, Refused, GoesTo
  <2>2. call.id \in DOMAIN cal.series /\ call.at \in 1..LastSlot /\ ~Rests(call.id)
    BY <2>1, SeriesThere DEF SlotsInv, CallSlots, Splits, Splitting, Told, CallTold, SplitTold
  <2> QED
    BY <1>1, <2>1, <2>2, ImportedIs, SteadyImported
<1>7. CASE EditElsewhere
  BY <1>1, <1>7, SteadyElsewhere
<1> QED
  BY <1>2, <1>3, <1>4, <1>5, <1>6, <1>7, SteadyWrites DEF SeriesNext, seriesVars, AskRenewal, RenewNext, ReadToSplit, CountInstances,
     CreateCopy, EndSeries, ImportRest, ReadAgainToEnd, VerifyEnded, ReadAgainToPatch, StopSeries, SyncSeries
----------------------------------------------------------------------------
(* The events wanted stay with series that stay *)

ToldStep == SeriesInv /\ SlotsInv /\ Told /\ [SeriesNext]_seriesVars /\ ~untold'

LEMMA ToldSteady ==
    ASSUME ToldStep
    PROVE  /\ Steady /\ SlotsOf(cal) /\ SlotsOf(cal') /\ wanted' \subseteq wanted /\ DOMAIN cal.series \subseteq DOMAIN cal'.series
           /\ \A id \in DOMAIN cal.series : ~Rests(id) => SteadyTimes(id) /\ SteadyStatus(id)
<1>1. Steady /\ SlotsOf(cal')
  BY SteadyStep, CalSlotsKept DEF ToldStep
<1> QED
  BY <1>1 DEF Steady, ToldStep, SlotsInv

\* A series is there, or has no event wanted, till its copy's undone.
LEMMA AliveStays ==
    ASSUME ToldStep, NEW id \in DOMAIN cal.series, ~Rests(id), Alive(id)
    PROVE  \/ Confirmed(cal'.series[id]) \/ wanted' \cap Gives(cal', id) = {}
           \/ stage = "undoing" /\ id = Target /\ heldCal' = KeptOf(cal', id)
<1>1. SteadyTimes(id) /\ SteadyStatus(id) /\ wanted' \subseteq wanted
  BY ToldSteady
<1>2. wanted' \cap Gives(cal', id) \subseteq wanted \cap Gives(cal, id)
  BY <1>1 DEF SteadyTimes
<1>3. stage = "cancelling" => wanted \cap Gives(cal, call.id) = {}
  BY DEF ToldStep, Told, CallTold
<1> QED
  BY <1>1, <1>2, <1>3 DEF Alive, SteadyStatus

\* One that's there stays so while it has an event wanted.
LEMMA StaysThere ==
    ASSUME ToldStep, NEW id \in DOMAIN cal.series, ~Rests(id), Confirmed(cal.series[id]),
           NEW t \in wanted' \cap Gives(cal, id), ~(HandsOver /\ id = call.id /\ t >= call.at),
           ~(stage = "undoing" /\ id = Target)
    PROVE  t \in Listed(cal', id)
<1>1. SteadyTimes(id) /\ SteadyStatus(id) /\ wanted' \subseteq wanted
  BY ToldSteady
<1>2. t \in Gives(cal', id)
  BY <1>1 DEF SteadyTimes
<1>3. stage = "cancelling" => wanted \cap Gives(cal, call.id) = {}
  BY DEF ToldStep, Told, CallTold
<1>4. Confirmed(cal'.series[id])
  BY <1>1, <1>3 DEF SteadyStatus
<1>5. PICK c : c = cal'
  OBVIOUS
<1>6. Listed(c, id) = IF Confirmed(c.series[id]) THEN Gives(c, id) ELSE {}
  BY ListedIs
<1> QED
  BY <1>2, <1>4, <1>5, <1>6

\* A call splits a series at one of its events, as it is or as it's kept.
LEMMA SplitsWithin ==
    ASSUME ToldStep, Asks3, stage' \in Splits
    PROVE  /\ ~Importing
           /\ \/ /\ call'.id \in DOMAIN heldCal.series /\ call'.at \in Expanded(heldCal.series[call'.id])
                 /\ Confirmed(heldCal.series[call'.id])
              \/ /\ call'.id \in DOMAIN cal.series /\ call'.at \in Expanded(cal.series[call'.id])
                 /\ Confirmed(cal.series[call'.id])
<1>1. stage' \notin {"cancelling", "patching", "none", "renewing"}
  BY DEF Splits, Splitting
<1>2. CASE AskSeries
  <2>1. AskGoes
    BY <1>2, AskGoesSo DEF ToldStep
  <2> QED
    BY <1>1, <2>1 DEF AskGoes, Listed, Importing
<1>3. CASE AskRenewal
  BY <1>1, <1>3, RenewalGoesSo
<1>4. CASE RenewNext
  <2>1. RenewGoes
    BY <1>4, RenewGoesSo DEF ToldStep
  <2> QED
    BY <1>1, <2>1 DEF RenewGoes, Listed, Importing
<1> QED
  BY <1>2, <1>3, <1>4 DEF Asks3

\* Ended for good, a series stays so.
LEMMA EndedStays ==
    ASSUME ToldStep, NEW p \in DOMAIN cal.series, ~Rests(p), NEW a \in 1..LastSlot, Ended(p, a), wanted' # {}
    PROVE  Ended(p, a)'
<1>1. /\ SteadyTimes(p) /\ SteadyStatus(p) /\ IsTimed(cal.series[p]) /\ p \in DOMAIN cal'.series /\ IsTimed(cal'.series[p])
      /\ a \in Int
  BY ToldSteady, SlotsAssumption DEF SlotsOf
<1>2. Importing => stage \in Splits /\ stage # "ending" /\ stage # "cancelling" /\ stage # "undoing"
  BY DEF Importing, Splits, Splitting
<1>3. stage = "ending" => stage \in Splits
  BY DEF Splits, Splitting
<1>4. cal'.series[p].until < a
  <2>1. CASE cal'.series[p].until <= cal.series[p].until
    BY <1>1, <2>1 DEF Ended, IsTimed
  <2>2. CASE stage = "ending" /\ p = call.id /\ cal'.series[p].until = call.at - 1
    <3>1. call.at < a /\ call.at \in 1..LastSlot
      BY <1>2, <1>3, <2>2 DEF Ended, BeingEnded, ToldStep, SlotsInv, CallSlots
    <3> QED
      BY <1>1, <2>2, <3>1, SlotsAssumption
  <2> QED
    BY <1>1, <2>1, <2>2 DEF SteadyTimes
<1>5. ASSUME BeingEnded(p, a)
      PROVE  \/ BeingEnded(p, a)'
             \/ /\ p \in DOMAIN heldCal'.series => heldCal'.series[p] = cal'.series[p]
                /\ stage' \notin Splits
  <2>1. CASE call' = call /\ Importing'
    <3>1. Confirmed(cal'.series[p])
      BY <1>1, <1>2, <1>5 DEF BeingEnded, SteadyStatus
    <3> QED
      BY <1>5, <2>1, <3>1 DEF BeingEnded
  <2>2. CASE /\ cal' = cal /\ heldCal' = KeptOf(cal', call.id)
             /\ EndsBefore(cal.series[call.id], call.at) => stage' \notin Splits
    <3>1. EndsBefore(cal.series[call.id], call.at)
      BY <1>5 DEF BeingEnded, EndsBefore, Ended
    <3>2. KeptOf(cal, call.id).series[call.id] = cal.series[call.id]
      BY KeptOfSeries DEF ToldStep, SeriesInv, CalendarsOK
    <3>3. heldCal'.series[p] = cal'.series[p]
      BY <1>5, <2>2, <3>2 DEF BeingEnded
    <3> QED
      BY <2>2, <3>1, <3>3
  <2> QED
    BY <1>5, <2>1, <2>2, EndIsVerified DEF BeingEnded, ToldStep
<1>6. ASSUME p \in DOMAIN heldCal'.series PROVE heldCal'.series[p].until < a \/ BeingEnded(p, a)'
  <2>1. CASE heldCal'.series[p] = cal'.series[p]
    BY <1>4, <2>1
  <2>2. CASE p \in DOMAIN heldCal.series /\ heldCal'.series[p] = heldCal.series[p]
    BY <1>4, <1>5, <1>6, <2>2 DEF Ended
  <2> QED
    BY <1>6, <2>1, <2>2, HeldEach DEF ToldStep
<1>7. ASSUME stage' \in Splits, call'.id = p PROVE call'.at < a \/ BeingEnded(p, a)'
  <2>1. CASE Asks3
    <3>1. /\ ~Importing
          /\ \/ p \in DOMAIN heldCal.series /\ call'.at \in Expanded(heldCal.series[p])
             \/ call'.at \in Expanded(cal.series[p])
      BY <1>7, <2>1, SplitsWithin
    <3>2. PICK at : at = call'.at
      OBVIOUS
    <3>3. CASE p \in DOMAIN heldCal.series /\ at \in Expanded(heldCal.series[p])
      <4>1. IsTimed(heldCal.series[p]) /\ heldCal.series[p].until < a
        BY <3>1, <3>3 DEF Ended, BeingEnded, ToldStep, SlotsInv
      <4>2. at \in 1..LastSlot /\ at <= heldCal.series[p].until
        BY <3>3, <4>1, ExpandedIs
      <4> QED
        BY <1>1, <3>2, <4>1, <4>2, SlotsAssumption DEF IsTimed
    <3>4. CASE at \in Expanded(cal.series[p])
      <4>2. at \in 1..LastSlot /\ at <= cal.series[p].until
        BY <1>1, <3>4, ExpandedIs
      <4> QED
        BY <1>1, <3>2, <4>2, SlotsAssumption DEF IsTimed, Ended
    <3> QED
      BY <3>1, <3>2, <3>3, <3>4
  <2>2. CASE ~Asks3
    <3>1. SameAsk /\ StageMoves
      BY <2>2, EachMoves DEF CallMoves, ToldStep
    <3>2. stage \in Splits
      BY <1>7, <3>1 DEF StageMoves, Splits, Splitting
    <3> QED
      BY <1>5, <1>7, <3>1, <3>2 DEF Ended, SameAsk
  <2> QED
    BY <2>1, <2>2
<1> QED
  BY <1>4, <1>6, <1>7 DEF Ended

\* A series that owns an event is no rest of another, nor to be undone, and what
\* it's a copy of has ended for good.
LEMMA OwnerIs ==
    ASSUME ToldStep, NEW y, NEW t, Owns(y, t)
    PROVE  /\ y \in DOMAIN cal.series /\ ~Rests(y) /\ Confirmed(cal.series[y]) /\ t \in Gives(cal, y)
           /\ ~(stage = "undoing" /\ y = Target)
           /\ Len(y) = 1 \/ \E p \in DOMAIN cal.series, a \in 1..LastSlot : y = CopyOf(p, a) /\ ~Rests(p) /\ Ended(p, a)
<1>1. y \in DOMAIN cal.series /\ Confirmed(cal.series[y]) /\ t \in Gives(cal, y) /\ Safe(y) /\ y \in Seq(Labels)
  BY ToldSteady DEF Owns, Listed, Gives, SlotsOf, IsNamed
<1>2. \A a \in 1..LastSlot : a \in Labels
  BY SlotsAssumption DEF Labels
<1>3. ASSUME NEW p \in DOMAIN cal.series, NEW a \in 1..LastSlot, y = CopyOf(p, a)
      PROVE  ~Rests(y) /\ ~Rests(p) /\ Len(y) > 1
  <2>1. p \in Seq(Labels) /\ Len(p) >= 1 /\ a \in Labels /\ Len(p) \in Nat
    BY <1>2, ToldSteady DEF SlotsOf, IsNamed
  <2>2. Len(y) = Len(p) + 1
    BY <1>3, <2>1, CopyIs
  <2>3. ~Rests(y)
    <3> SUFFICES ASSUME Rests(y) PROVE FALSE
      OBVIOUS
    <3>1. Len(p) = 1 /\ p[1] = "rest"
      <4>1. \A id \in Seq(Labels), u \in Labels : Rests(CopyOf(id, u)) => Len(id) = 1 /\ id[1] = "rest"
        <5>1. 0 \in Int
          OBVIOUS
        <5> QED
          BY <5>1, RestIs
      <4> QED
        BY <1>3, <2>1, <4>1
    <3> QED
      BY <3>1 DEF ToldStep, Told, IdsTold
  <2>4. PICK q \in DOMAIN cal.series, b \in 1..LastSlot : y = CopyOf(q, b) /\ ~Rests(q)
    BY <1>1, <2>1, <2>2, <2>3 DEF ToldStep, Told, IdsTold
  <2>5. q \in Seq(Labels) /\ b \in Labels
    BY <1>2, ToldSteady DEF SlotsOf, IsNamed
  <2>6. q = p
    BY <1>3, <2>1, <2>4, <2>5, CopyOfOne
  <2> QED
    BY <2>1, <2>2, <2>3, <2>4, <2>6
<1>4. ~Rests(y)
  <2>1. CASE Len(y) = 1
    BY <2>1 DEF Rests
  <2>2. CASE Len(y) # 1
    BY <1>1, <1>3, <2>2 DEF Safe
  <2> QED
    BY <2>1, <2>2
<1>5. Len(y) = 1 \/ \E p \in DOMAIN cal.series, a \in 1..LastSlot : y = CopyOf(p, a) /\ ~Rests(p) /\ Ended(p, a)
  BY <1>1, <1>3 DEF Safe
<1>6. ASSUME stage = "undoing", y = Target PROVE FALSE
  <2>1. call.id \in DOMAIN cal.series /\ call.at \in 1..LastSlot /\ stage \in Splits /\ ~Importing /\ ~Rests(call.id)
    BY <1>6, SeriesThere DEF ToldStep, SlotsInv, CallSlots, Splits, Splitting, Importing, Told, CallTold, SplitTold
  <2>2. Len(y) # 1
    <3>1. Len(y) > 1 /\ Len(y) \in Nat
      BY <1>1, <1>3, <1>6, <2>1 DEF Target
    <3>2. PICK n : n = Len(y)
      OBVIOUS
    <3>3. n \in Nat /\ n > 1
      BY <3>1, <3>2
    <3>4. n # 1
      BY <3>3
    <3> QED
      BY <3>2, <3>4
  <2>3. PICK p \in DOMAIN cal.series, a \in 1..LastSlot : y = CopyOf(p, a) /\ Ended(p, a)
    BY <1>1, <2>2 DEF Safe
  <2>4. p \in Seq(Labels) /\ call.id \in Seq(Labels) /\ a \in Labels /\ call.at \in Labels
    BY <1>2, <2>1, ToldSteady DEF SlotsOf, IsNamed
  <2>5. p = call.id /\ a = call.at
    BY <1>6, <2>3, <2>4, CopyOfOne DEF Target
  <2>6. call.at < call.at
    BY <2>1, <2>3, <2>5 DEF Ended, BeingEnded
  <2> QED
    BY <2>1, <2>6, SlotsAssumption
<1> QED
  BY <1>1, <1>4, <1>5, <1>6

\* An owner stays so, but for what it hands over.
LEMMA OwnerStays ==
    ASSUME ToldStep, NEW y, NEW t \in wanted', Owns(y, t), ~(HandsOver /\ y = call.id /\ t >= call.at)
    PROVE  Owns(y, t)'
<1>1. /\ y \in DOMAIN cal.series /\ ~Rests(y) /\ Confirmed(cal.series[y]) /\ t \in Gives(cal, y)
      /\ ~(stage = "undoing" /\ y = Target)
      /\ Len(y) = 1 \/ \E p \in DOMAIN cal.series, a \in 1..LastSlot : y = CopyOf(p, a) /\ ~Rests(p) /\ Ended(p, a)
  BY OwnerIs
<1>2. t \in Listed(cal', y)
  BY <1>1, StaysThere
<1>3. y \in DOMAIN cal'.series /\ DOMAIN cal.series \subseteq DOMAIN cal'.series
  BY <1>1, ToldSteady
<1>4. CASE Len(y) = 1
  BY <1>2, <1>3, <1>4 DEF Owns, Safe
<1>5. CASE \E p \in DOMAIN cal.series, a \in 1..LastSlot : y = CopyOf(p, a) /\ ~Rests(p) /\ Ended(p, a)
  <2>1. PICK p \in DOMAIN cal.series, a \in 1..LastSlot : y = CopyOf(p, a) /\ ~Rests(p) /\ Ended(p, a)
    BY <1>5
  <2>2. Ended(p, a)'
    BY <2>1, EndedStays
  <2>3. p \in DOMAIN cal'.series
    BY <1>3
  <2>4. Safe(y)'
    BY <2>1, <2>2, <2>3 DEF Safe
  <2> QED
    BY <1>2, <1>3, <2>4 DEF Owns
<1> QED
  BY <1>1, <1>4, <1>5

\* What a series hands over its copy has, or a copy of that, which stays.
LEMMA HandedOn ==
    ASSUME ToldStep, HandsOver, NEW t \in wanted' \cap Gives(cal, call.id), t >= call.at
    PROVE  \E z \in DOMAIN cal'.series : Extends(z, call.id) /\ Owns(z, t)'
<1>1. /\ stage \in Splits /\ stage \in Copied /\ stage \notin {"none", "renewing", "reading", "counting", "creating", "undoing"}
      /\ ~Importing
  BY DEF HandsOver, Splits, Splitting, Copied, Importing
<1>2. /\ call.id \in DOMAIN cal.series /\ call.target \in DOMAIN cal.series /\ call.at \in 1..LastSlot /\ wanted' \subseteq wanted
      /\ SlotsOf(cal) /\ DOMAIN cal.series \subseteq DOMAIN cal'.series
  BY <1>1, SeriesThere, ToldSteady DEF ToldStep, SlotsInv, CallSlots
<1>3. SplitTold /\ CopiedTold /\ Handed /\ IdsTold
  BY <1>1 DEF ToldStep, Told, CallTold
<1>4. ~Rests(call.id) /\ Alive(call.id)
  BY <1>3 DEF SplitTold
<1>5. t \in Int /\ t \in 1..LastSlot /\ call.at \in Int
  <2>1. t \in Expanded(cal.series[call.id]) /\ IsTimed(cal.series[call.id])
    BY <1>2 DEF Gives, SlotsOf
  <2>2. PICK s : s = cal.series[call.id]
    OBVIOUS
  <2> QED
    BY <1>2, <2>1, <2>2, ExpandedIs, SlotsAssumption
<1>6. call.do # "delete"
  <2>1. call.do = "delete" => t < call.at
    BY <1>2, <1>3 DEF CopiedTold
  <2> QED
    BY <1>5, <2>1
<1>7. call.target = Target /\ Target \in DOMAIN cal.series /\ Alive(Target)
  BY <1>1, <1>2, <1>3, <1>6 DEF ToldStep, SlotsInv, CallSlots, CopiedTold
<1>8. /\ Target \in Seq(Labels) /\ ~Rests(Target) /\ Extends(Target, call.id) /\ call.id \in Seq(Labels) /\ Target # call.id
  BY <1>2, <1>3, <1>4, TargetIs
<1>9. call.at \in 1..t
  BY <1>2, <1>5, SlotsAssumption
<1>10. t \in Gives(cal, Target) \/ \E y \in DOMAIN cal.series : Extends(y, Target) /\ Owns(y, t)
  BY <1>2, <1>3, <1>5, <1>7, <1>8, <1>9 DEF Handed, Target
<1>11. CASE t \in Gives(cal, Target)
  <2>1. Confirmed(cal.series[Target])
    BY <1>2, <1>7, <1>11 DEF Alive
  <2>2. t \in Listed(cal', Target)
    BY <1>1, <1>2, <1>7, <1>8, <1>11, <2>1, StaysThere
  <2>3. Confirmed(cal.series[call.id])
    BY <1>2, <1>4 DEF Alive
  <2>4. Confirmed(cal'.series[call.id]) /\ cal'.series[call.id].until < call.at
    BY <2>3 DEF HandsOver, Confirmed
  <2>5. PICK p, a, k : p = call.id /\ a = call.at /\ k = Target
    OBVIOUS
  <2>6. Ended(p, a)'
    <3>1. CASE stage = "ending" /\ stage' \notin Splits /\ heldCal' = KeptOf(cal', call.id)
      <4>1. PICK c : c = cal'
        OBVIOUS
      <4>2. KeptOf(c, p).series[p] = c.series[p]
        BY KeptOfSeries DEF ToldStep, SeriesInv, CalendarsOK
      <4>3. heldCal'.series[p] = cal'.series[p]
        BY <2>5, <3>1, <4>1, <4>2
      <4> QED
        BY <2>4, <2>5, <3>1, <4>3 DEF Ended
    <3>2. CASE stage = "importing" /\ stage' = "dropping" /\ call' = call
      BY <2>4, <2>5, <3>2 DEF Ended, BeingEnded, Importing
    <3> QED
      BY <3>1, <3>2 DEF HandsOver
  <2>7. p \in DOMAIN cal'.series /\ a \in 1..LastSlot /\ k = CopyOf(p, a) /\ k \in DOMAIN cal'.series
    BY <1>2, <1>7, <2>5 DEF Target
  <2>8. Safe(k)'
    BY <2>6, <2>7 DEF Safe
  <2>9. Owns(k, t)'
    BY <2>2, <2>5, <2>7, <2>8 DEF Owns
  <2> QED
    BY <1>8, <2>5, <2>7, <2>9
<1>12. CASE \E y \in DOMAIN cal.series : Extends(y, Target) /\ Owns(y, t)
  <2>1. PICK y \in DOMAIN cal.series : Extends(y, Target) /\ Owns(y, t)
    BY <1>12
  <2>2. y \in Seq(Labels)
    BY <1>2 DEF SlotsOf, IsNamed
  <2>3. Extends(y, call.id) /\ y # call.id
    BY <1>8, <2>1, <2>2, ExtendsOn
  <2>4. Owns(y, t)'
    BY <2>1, <2>3, OwnerStays
  <2> QED
    BY <1>2, <2>3, <2>4
<1> QED
  BY <1>10, <1>11, <1>12

LEMMA OwnersGoOn ==
    ASSUME ToldStep, NEW y, NEW t \in wanted', Owns(y, t)
    PROVE  \E z \in DOMAIN cal'.series : (z = y \/ Extends(z, y)) /\ Owns(z, t)'
<1>1. CASE HandsOver /\ y = call.id /\ t >= call.at
  <2>1. t \in Gives(cal, call.id)
    BY <1>1, OwnerIs
  <2> QED
    BY <1>1, <2>1, HandedOn
<1>2. CASE ~(HandsOver /\ y = call.id /\ t >= call.at)
  <2>1. Owns(y, t)'
    BY <1>2, OwnerStays
  <2>2. y \in DOMAIN cal'.series
    BY <2>1 DEF Owns
  <2> QED
    BY <2>1, <2>2
<1> QED
  BY <1>1, <1>2

LEMMA OwnedKept ==
    ASSUME ToldStep
    PROVE  Owned'
<1> SUFFICES ASSUME NEW t \in wanted' PROVE \E z \in DOMAIN cal'.series : Owns(z, t)'
  BY DEF Owned
<1>1. wanted' \subseteq wanted
  BY ToldSteady
<1>2. PICK y \in DOMAIN cal.series : Owns(y, t)
  BY <1>1 DEF ToldStep, Told, Owned
<1> QED
  BY <1>2, OwnersGoOn

\* A copy made has every event of the series from then on.
LEMMA CopyHasThem ==
    ASSUME ToldStep, stage = "creating", Creates, NEW t \in Gives(cal', call.id), call.at <= t
    PROVE  t \in Gives(cal', Target)
<1>1. /\ call.id \in DOMAIN cal.series /\ call.at \in 1..LastSlot /\ SlotsOf(cal) /\ SlotsOf(cal') /\ ReadTold /\ CountTold
      /\ IsTimed(call.read) /\ call.count \in Nat
  BY SeriesThere, ToldSteady DEF ToldStep, SlotsInv, CallSlots, Splits, Splitting, Told, CallTold
<1>2. PICK s : s = cal'.series[call.id]
  OBVIOUS
<1>3. PICK k : k = cal'.series[Target]
  OBVIOUS
<1>4. PICK r : r = call.read
  OBVIOUS
<1>5. s = cal.series[call.id] /\ IsTimed(s) /\ IsTimed(k) /\ IsTimed(r) /\ cal'.edited = cal.edited
  BY <1>1, <1>2, <1>3, <1>4 DEF Creates, SlotsOf
<1>6. k.start = call.at /\ k.count = call.count /\ k.until = r.until /\ k.skips = r.skips
  BY <1>3, <1>4 DEF Creates
<1>7. /\ s.start = r.start /\ s.skips = r.skips /\ s.until <= r.until /\ r.start < call.at
      /\ IF r.count = 0 THEN s.count = 0 ELSE s.count \in {1, r.count}
      /\ IF r.count = 0 THEN call.count = 0 ELSE call.count # 0 /\ call.count >= r.count - (call.at - r.start)
  BY <1>1, <1>4, <1>5 DEF ReadTold, CountTold
<1>8. /\ call.at \in Int /\ call.count \in Int /\ s.start \in Int /\ s.count \in Nat /\ s.until \in Int /\ r.until \in Int /\ r.count \in Nat
      /\ k.until \in Int /\ LastSlot \in Int
  BY <1>1, <1>5, <1>6, SlotsAssumption DEF IsTimed
<1>9. t \in Expanded(s)
  BY <1>2 DEF Gives
<1>10. t \in Ruled(s) /\ t \in Int /\ t \in 1..LastSlot
  BY <1>5, <1>8, <1>9, ExpandedIs
<1>11. t \in call.at..LastSlot /\ t <= k.until /\ t \notin k.skips
  BY <1>6, <1>7, <1>8, <1>10 DEF Ruled
<1>12. k.count = 0 \/ t < k.start + k.count
  <2>1. s.count = 0 \/ t < s.start + s.count
    BY <1>10 DEF Ruled
  <2>2. r.count # 0 => t < r.start + r.count
    BY <1>7, <1>8, <1>10, <2>1
  <2> QED
    BY <1>6, <1>7, <1>8, <1>10, <2>2
<1>13. t \in Ruled(k)
  BY <1>6, <1>11, <1>12 DEF Ruled
<1>14. \A u \in Ruled(k) : u < t => u \in Ruled(s)
  <2> SUFFICES ASSUME NEW u \in Ruled(k), u < t PROVE u \in Ruled(s)
    OBVIOUS
  <2>1. u \in call.at..LastSlot /\ u \notin s.skips /\ u \in Int
    BY <1>6, <1>7, <1>8 DEF Ruled
  <2>2. t <= s.until /\ (s.count = 0 \/ t < s.start + s.count)
    BY <1>10 DEF Ruled
  <2>3. u \in s.start..LastSlot /\ u <= s.until /\ (s.count = 0 \/ u < s.start + s.count)
    BY <1>7, <1>8, <1>10, <2>1, <2>2
  <2> QED
    BY <2>1, <2>3 DEF Ruled
<1>15. t \in Expanded(k)
  BY <1>5, <1>9, <1>13, <1>14, ExpandedToo
<1>16. EditOf(Target, t) \notin cal'.edited
  <2>1. EditOf(Target, t).of = Target
    BY DEF EditOf
  <2> QED
    BY <1>1, <1>5, <2>1 DEF SlotsOf, Creates
<1> QED
  BY <1>3, <1>15, <1>16 DEF Gives, EditOf

\* An event a series still has after a copy of it starts is the copy's too.
LEMMA HandedKept ==
    ASSUME ToldStep
    PROVE  Handed'
<1> SUFFICES ASSUME NEW id \in DOMAIN cal'.series, NEW t \in wanted' \cap (1..LastSlot), NEW a \in 1..t,
                    CopyOf(id, a) \in DOMAIN cal'.series, ~Rests(CopyOf(id, a)), t \in Gives(cal', id)
             PROVE  t \in Gives(cal', CopyOf(id, a)) \/ \E y \in DOMAIN cal'.series : Extends(y, CopyOf(id, a)) /\ Owns(y, t)'
  BY DEF Handed
<1>0. PICK k : k = CopyOf(id, a)
  OBVIOUS
<1>1. /\ SlotsOf(cal) /\ SlotsOf(cal') /\ wanted' \subseteq wanted /\ Handed /\ IdsTold /\ Steady
      /\ \A i \in DOMAIN cal.series : ~Rests(i) => SteadyTimes(i)
  BY ToldSteady DEF ToldStep, Told
<1>2. a \in Int /\ a \in Labels /\ t \in Int /\ a <= t
  BY SlotsAssumption DEF Labels
<1>3. id \in Seq(Labels) /\ Len(id) >= 1 /\ k \in Seq(Labels) /\ Len(k) = Len(id) + 1 /\ Len(id) \in Nat
  BY <1>0, <1>1, <1>2, CopyIs DEF SlotsOf, IsNamed
<1>4. CASE k \in DOMAIN cal.series
  <2>1. Len(k) > 1
    BY <1>3
  <2>2. PICK p \in DOMAIN cal.series, b \in 1..LastSlot : k = CopyOf(p, b) /\ ~Rests(p)
    BY <1>0, <1>1, <1>4, <2>1 DEF IdsTold
  <2>3. p \in Seq(Labels) /\ b \in Labels
    BY <1>1, <2>2, SlotsAssumption DEF SlotsOf, IsNamed, Labels
  <2>4. p = id
    BY <1>0, <1>2, <1>3, <2>2, <2>3, CopyOfOne
  <2>5. id \in DOMAIN cal.series /\ ~Rests(id) /\ t \in Gives(cal, id)
    BY <1>1, <2>2, <2>4 DEF SteadyTimes
  <2>6. t \in Gives(cal, k) \/ \E y \in DOMAIN cal.series : Extends(y, k) /\ Owns(y, t)
    BY <1>0, <1>1, <1>4, <2>5 DEF Handed
  <2>7. CASE t \in Gives(cal, k)
    <3>1. SteadyTimes(k)
      BY <1>0, <1>1, <1>4
    <3>2. t \in Gives(cal', k) \/ (HandsOver /\ k = call.id /\ t >= call.at)
      BY <2>7, <3>1 DEF SteadyTimes
    <3>3. CASE HandsOver /\ k = call.id /\ t >= call.at
      BY <1>0, <2>7, <3>3, HandedOn
    <3> QED
      BY <1>0, <3>2, <3>3
  <2>8. CASE \E y \in DOMAIN cal.series : Extends(y, k) /\ Owns(y, t)
    <3>1. PICK y \in DOMAIN cal.series : Extends(y, k) /\ Owns(y, t)
      BY <2>8
    <3>2. PICK z \in DOMAIN cal'.series : (z = y \/ Extends(z, y)) /\ Owns(z, t)'
      BY <3>1, OwnersGoOn
    <3>3. y \in Seq(Labels) /\ z \in Seq(Labels)
      BY <1>1, <3>1, <3>2 DEF SlotsOf, IsNamed
    <3>4. Extends(z, k)
      BY <1>3, <3>1, <3>2, <3>3, ExtendsOn
    <3> QED
      BY <1>0, <3>2, <3>4
  <2> QED
    BY <2>6, <2>7, <2>8
<1>5. CASE k \notin DOMAIN cal.series
  <2>1. stage = "creating" /\ Creates /\ k = Target
    BY <1>0, <1>1, <1>5 DEF Steady
  <2>2. call.id \in DOMAIN cal.series /\ call.at \in 1..LastSlot
    BY <2>1, SeriesThere DEF ToldStep, SlotsInv, CallSlots, Splits, Splitting
  <2>3. call.id \in Seq(Labels) /\ call.at \in Labels
    BY <1>1, <2>2, SlotsAssumption DEF SlotsOf, IsNamed, Labels
  <2>4. id = call.id /\ a = call.at
    <3>1. PICK q, b : q = call.id /\ b = call.at
      OBVIOUS
    <3>2. CopyOf(id, a) = CopyOf(q, b)
      BY <1>0, <2>1, <3>1 DEF Target
    <3>3. q \in Seq(Labels) /\ b \in Labels
      BY <2>3, <3>1
    <3> QED
      <4>1. id \in Seq(Labels) /\ a \in Labels
        BY <1>2, <1>3
      <4>2. id = q /\ a = b
        BY <3>2, <3>3, <4>1, CopyOfOne
      <4> QED
        BY <3>1, <4>2
  <2>5. t \in Gives(cal', Target)
    BY <1>2, <2>1, <2>4, CopyHasThem
  <2> QED
    BY <1>0, <2>1, <2>5
<1> QED
  BY <1>4, <1>5
----------------------------------------------------------------------------
(* What a call reads, counts and makes *)

LEMMA Waits ==
    ASSUME EditElsewhere \/ SyncSeries \/ StopSeries \/ UNCHANGED seriesVars
    PROVE  call' = call /\ stage' \in {stage, "none"}
BY DEF EditElsewhere, SyncSeries, StopSeries, seriesVars

LEMMA ReadGoes ==
    ASSUME ToldStep, stage = "reading", stage' \in {"reading", "counting", "creating"}
    PROVE  \/ stage' = "reading" /\ call' = call
           \/ /\ call'.read = cal.series[call.id] /\ cal' = cal /\ cal.series[call.id].start < call.at
              /\ call'.id = call.id /\ call'.at = call.at /\ call'.count = call.count
              /\ stage' = (IF cal.series[call.id].count = 0 THEN "creating" ELSE "counting")
<1>1. CASE EditElsewhere \/ SyncSeries \/ StopSeries \/ UNCHANGED seriesVars
  BY <1>1, Waits
<1>2. CASE ReadToSplit
  <2>1. DOMAIN call = Fields
    BY DEF ToldStep, SeriesInv, CallOK
  <2> DEFINE s == cal.series[call.id]
  <2>2. call.id \in DOMAIN cal.series /\ IsTimed(s) /\ call.at \in 1..LastSlot
    BY SeriesThere DEF ToldStep, SlotsInv, SlotsOf, CallSlots, Splits, Splitting
  <2>3. CASE call.at <= s.start
    <3>1. SplitDone(call.id, s)
      BY <1>2, <2>3 DEF ReadToSplit, FreshSeries
    <3>2. stage' \in {"patching", "none", "renewing"}
      BY <3>1 DEF SplitDone, GoesTo, CallEnds
    <3> QED
      BY <3>2
  <2>4. CASE ~(call.at <= s.start)
    <3>1. call' = [call EXCEPT !.read = s, !.seen = elsewhere] /\ cal' = cal
      BY <1>2, <2>4 DEF ReadToSplit, FreshSeries
    <3>2. stage' = (IF s.count = 0 THEN "creating" ELSE "counting")
      BY <1>2, <2>4 DEF ReadToSplit, FreshSeries, GoesTo, CallEnds
    <3>3. s.start < call.at
      BY <2>2, <2>4, SlotsAssumption DEF IsTimed
    <3>4. call'.read = s /\ call'.id = call.id /\ call'.at = call.at /\ call'.count = call.count
      BY <2>1, <3>1 DEF Fields
    <3> QED
      BY <3>1, <3>2, <3>3, <3>4
  <2> QED
    BY <2>3, <2>4
<1> QED
  BY <1>1, <1>2 DEF ToldStep, SeriesNext, AskSeries, AskRenewal, RenewNext, CountInstances, CreateCopy, ReviveCopy,
     EndSeries, ReadAgainToEnd, ImportRest, CancelRest, VerifyEnded, UndoCopy, PatchSeries, ReadAgainToPatch, CancelWhole

LEMMA CountGoes ==
    ASSUME ToldStep, stage = "counting", stage' \in {"counting", "creating"}
    PROVE  \/ stage' = "counting" /\ call' = call
           \/ /\ cal' = cal /\ stage' = "creating" /\ call'.read = call.read /\ call'.id = call.id /\ call'.at = call.at
              /\ call'.count = call.read.count - CountedBefore(cal, call.id, call.at) /\ ~(call'.count <= 0)
<1>1. CASE EditElsewhere \/ SyncSeries \/ StopSeries \/ UNCHANGED seriesVars
  BY <1>1, Waits
<1>2. CASE CountInstances
  <2>1. DOMAIN call = Fields
    BY DEF ToldStep, SeriesInv, CallOK
  <2> DEFINE left == call.read.count - CountedBefore(cal, call.id, call.at)
  <2>2. \/ left <= 0 /\ CallEnds("refused")
        \/ ~(left <= 0) /\ stage' = "creating" /\ call' = [call EXCEPT !.count = left] /\ cal' = cal
    BY <1>2 DEF CountInstances, GoesTo
  <2>3. ~CallEnds("refused")
    BY DEF CallEnds
  <2> HIDE DEF left
  <2>4. call'.read = call.read /\ call'.id = call.id /\ call'.at = call.at /\ call'.count = left
    BY <2>1, <2>2, <2>3 DEF Fields
  <2> QED
    BY <2>2, <2>3, <2>4 DEF left
<1> QED
  BY <1>1, <1>2 DEF ToldStep, SeriesNext, AskSeries, AskRenewal, RenewNext, ReadToSplit, CreateCopy, ReviveCopy,
     EndSeries, ReadAgainToEnd, ImportRest, CancelRest, VerifyEnded, UndoCopy, PatchSeries, ReadAgainToPatch, CancelWhole

\* The copy's there as its series goes on to be ended.
LEMMA CreateGoes ==
    ASSUME ToldStep, stage = "creating", stage' \in Copied \cup {"creating", "reviving"}
    PROVE  \/ stage' = "creating" /\ call' = call
           \/ stage' = "reviving"
           \/ Confirmed(cal'.series[Target])
           \/ cal' = cal /\ Target \in DOMAIN cal.series /\ Confirmed(GetSeries(Target))
<1>1. CASE EditElsewhere \/ SyncSeries \/ StopSeries \/ UNCHANGED seriesVars
  BY <1>1, Waits DEF Copied
<1>2. CASE CreateCopy
  <2>0. \A kind : ~CallEnds(kind)
    BY DEF CallEnds, Copied
  <2>1. CASE Target \notin DOMAIN cal.series
    <3>1. UNCHANGED cal \/ Creates
      BY <1>2, CreatedIs DEF ToldStep
    <3>2. CASE Creates
      BY <3>2 DEF Creates, Confirmed
    <3>3. CASE UNCHANGED cal
      <4>1. Answered(Target, [call.read EXCEPT !.start = call.at, !.count = call.count, !.status = "confirmed"])
        BY <1>2, <2>0, <2>1 DEF CreateCopy, Target
      <4>2. cal' = Put(cal, Target, [call.read EXCEPT !.start = call.at, !.count = call.count, !.status = "confirmed"])
        BY <4>1, AnsweredIs
      <4>3. Target \in DOMAIN cal'.series
        BY <4>2 DEF Put, With, ToldStep, SeriesInv, CalendarsOK, IsSeriesOf
      <4> QED
        BY <2>1, <3>3, <4>3
    <3> QED
      BY <3>1, <3>2, <3>3
  <2>2. CASE Target \in DOMAIN cal.series
    <3>1. cal' = cal /\ stage' = (IF Confirmed(GetSeries(Target)) THEN ToEnd(call.id) ELSE "reviving")
      BY <1>2, <2>2 DEF CreateCopy, Target, GoesTo
    <3> QED
      BY <2>2, <3>1
  <2> QED
    BY <2>1, <2>2
<1> QED
  BY <1>1, <1>2 DEF ToldStep, SeriesNext, AskSeries, AskRenewal, RenewNext, ReadToSplit, CountInstances, ReviveCopy,
     EndSeries, ReadAgainToEnd, ImportRest, CancelRest, VerifyEnded, UndoCopy, PatchSeries, ReadAgainToPatch, CancelWhole

LEMMA ReviveGoes ==
    ASSUME ToldStep, stage = "reviving", stage' \in Copied
    PROVE  Confirmed(cal'.series[call.target])
<1>1. CASE EditElsewhere \/ SyncSeries \/ StopSeries \/ UNCHANGED seriesVars
  BY <1>1, Waits DEF Copied
<1>2. CASE ReviveCopy
  <2>1. \A kind : ~CallEnds(kind)
    BY DEF CallEnds, Copied
  <2>2. Answered(call.target, [cal.series[call.target] EXCEPT !.status = "confirmed"])
    BY <1>2, <2>1 DEF ReviveCopy
  <2>3. cal' = Put(cal, call.target, [cal.series[call.target] EXCEPT !.status = "confirmed"])
    BY <2>2, AnsweredIs
  <2>4. Rewrites(call.target, "confirmed")
    BY <2>3, SeriesThere, StatusRewritten DEF ToldStep
  <2> QED
    BY <2>4 DEF Rewrites, Confirmed
<1> QED
  BY <1>1, <1>2 DEF ToldStep, SeriesNext, AskSeries, AskRenewal, RenewNext, ReadToSplit, CountInstances, CreateCopy,
     EndSeries, ReadAgainToEnd, ImportRest, CancelRest, VerifyEnded, UndoCopy, PatchSeries, ReadAgainToPatch, CancelWhole
----------------------------------------------------------------------------
(* The server's told, and so goes on *)

LEMMA IdsToldKept ==
    ASSUME ToldStep
    PROVE  IdsTold'
<1>1. Steady /\ SlotsOf(cal) /\ SlotsOf(cal') /\ IdsTold /\ DOMAIN cal.series \subseteq DOMAIN cal'.series
  BY ToldSteady DEF ToldStep, Told
<1>2. ASSUME NEW id \in DOMAIN cal'.series \ DOMAIN cal.series
      PROVE  \/ Rests(id)
             \/ /\ id = Target /\ call.id \in DOMAIN cal.series /\ call.at \in 1..LastSlot /\ ~Rests(call.id)
                /\ Len(id) = Len(call.id) + 1 /\ Len(call.id) \in Nat \ {0}
  <2>1. CASE ~Rests(id)
    <3>1. stage = "creating" /\ id = Target
      BY <1>1, <1>2, <2>1 DEF Steady
    <3>2. call.id \in DOMAIN cal.series /\ call.at \in 1..LastSlot /\ ~Rests(call.id)
      BY <3>1, SeriesThere DEF ToldStep, SlotsInv, CallSlots, Splits, Splitting, Told, CallTold, SplitTold
    <3> QED
      BY <1>1, <3>1, <3>2, TargetIs
  <2> QED
    BY <2>1
<1>3. ASSUME NEW id \in DOMAIN cal'.series, Len(id) = 1 PROVE id[1] # "rest"
  <2>1. CASE id \in DOMAIN cal.series
    BY <1>1, <1>3, <2>1 DEF IdsTold
  <2>2. CASE id \notin DOMAIN cal.series
    <3>1. ~Rests(id)
      BY <1>3 DEF Rests
    <3>2. PICK n \in Nat \ {0} : Len(id) = n + 1
      BY <1>2, <2>2, <3>1
    <3> QED
      BY <1>3, <3>2
  <2> QED
    BY <2>1, <2>2
<1>4. ASSUME NEW id \in DOMAIN cal'.series, Rests(id), ~(stage' = "dropping" /\ id = Rest(call'.at)), Confirmed(cal'.series[id])
      PROVE  FALSE
  <2>1. RestStays(id)
    BY <1>1, <1>4 DEF Steady
  <2>2. id \in DOMAIN cal.series /\ Confirmed(cal.series[id])
    BY <1>4, <2>1 DEF RestStays
  <2>3. stage = "dropping" /\ id = Rest(call.at)
    BY <1>1, <1>4, <2>2 DEF IdsTold
  <2>4. Rewrites(Rest(call.at), "cancelled")
    BY <1>4, <2>3, RestIsDropped DEF ToldStep
  <2> QED
    BY <1>4, <2>3, <2>4 DEF Rewrites, Confirmed
<1>5. ASSUME NEW id \in DOMAIN cal'.series, Len(id) > 1, ~Rests(id)
      PROVE  \E p \in DOMAIN cal'.series, a \in 1..LastSlot : id = CopyOf(p, a) /\ ~Rests(p)
  <2>1. CASE id \in DOMAIN cal.series
    BY <1>1, <1>5, <2>1 DEF IdsTold
  <2>2. CASE id \notin DOMAIN cal.series
    BY <1>1, <1>2, <1>5, <2>2 DEF Target
  <2> QED
    BY <2>1, <2>2
<1> QED
  BY <1>3, <1>4, <1>5 DEF IdsTold

LEMMA HeldToldKept ==
    ASSUME ToldStep
    PROVE  HeldTold'
<1>1. /\ Steady /\ SlotsOf(cal) /\ SlotsOf(cal') /\ IdsTold /\ IdsTold' /\ HeldTold /\ wanted' \subseteq wanted
      /\ DOMAIN cal.series \subseteq DOMAIN cal'.series
      /\ \A i \in DOMAIN cal.series : ~Rests(i) => SteadyTimes(i)
      /\ IsSeriesOf(heldCal) /\ DOMAIN heldCal.series \subseteq DOMAIN cal.series
  BY ToldSteady, IdsToldKept DEF ToldStep, Told, SeriesInv, CalendarsOK, Behind
<1>2. ASSUME NEW id \in DOMAIN heldCal'.series, Rests(id), ~(stage' = "dropping" /\ id = Rest(call'.at)), Confirmed(heldCal'.series[id])
      PROVE  FALSE
  <2>1. CASE id \in DOMAIN cal'.series /\ heldCal'.series[id] = cal'.series[id]
    BY <1>1, <1>2, <2>1 DEF IdsTold
  <2>2. CASE id \in DOMAIN heldCal.series /\ heldCal'.series[id] = heldCal.series[id]
    <3>1. stage = "dropping" /\ id = Rest(call.at)
      BY <1>1, <1>2, <2>2 DEF HeldTold
    <3>2. Rewrites(id, "cancelled") /\ heldCal' = KeptOf(cal', id)
      BY <1>2, <3>1, RestIsDropped DEF ToldStep
    <3>3. PICK c : c = cal'
      OBVIOUS
    <3>4. KeptOf(c, id).series[id] = c.series[id]
      BY <1>1, KeptOfSeries
    <3>5. heldCal'.series[id] = cal'.series[id]
      BY <3>2, <3>3, <3>4
    <3> QED
      BY <1>2, <3>2, <3>5 DEF Rewrites, Confirmed
  <2> QED
    BY <1>2, <2>1, <2>2, HeldEach DEF ToldStep
<1>3. ASSUME NEW id \in DOMAIN heldCal'.series, ~Rests(id)
      PROVE  HeldNow(id)'
  <2>1. CASE id \in DOMAIN cal'.series /\ heldCal'.series[id] = cal'.series[id]
    BY <2>1 DEF HeldNow, Alive
  <2>2. CASE id \in DOMAIN heldCal.series /\ heldCal'.series[id] = heldCal.series[id] /\ heldCal'.series[id] # cal'.series[id]
    <3>1. HeldNow(id) /\ SteadyTimes(id) /\ id \in DOMAIN cal.series
      BY <1>1, <1>3, <2>2 DEF HeldTold
    <3>2. PICK h, c : h = heldCal.series[id] /\ c = cal'
      OBVIOUS
    <3>3. KeptOf(c, id).series[id] = c.series[id]
      BY <1>1, KeptOfSeries
    <3>4. heldCal' # KeptOf(cal', id)
      BY <2>2, <3>2, <3>3
    <3>5. heldCal'.series[id].start = cal'.series[id].start /\ heldCal'.series[id].skips = cal'.series[id].skips
      BY <2>2, <3>1 DEF HeldNow, SteadyTimes
    <3>6. ASSUME ~(Importing' /\ call'.id = id), NEW t \in wanted', t \in Expanded(heldCal'.series[id]), EditOf(id, t) \notin cal'.edited
          PROVE  t \in Expanded(cal'.series[id])
      <4>1. ~(Importing /\ call.id = id)
        BY <3>4, <3>6, EndIsVerified DEF ToldStep
      <4>2. stage' = "dropping" => Importing'
        BY DEF Importing
      <4>3. EditOf(id, t) \notin cal.edited
        BY <3>1, <3>6, <4>2 DEF SteadyTimes
      <4>4. t \in Expanded(cal.series[id])
        BY <1>1, <2>2, <3>1, <3>6, <4>1, <4>3 DEF HeldNow, EditOf
      <4>5. t \in Gives(cal, id)
        BY <4>3, <4>4 DEF Gives, EditOf
      <4>6. ~(HandsOver /\ id = call.id)
        BY <3>4, <3>6, <4>2 DEF HandsOver
      <4>7. t \in Gives(cal', id)
        BY <3>1, <4>5, <4>6 DEF SteadyTimes
      <4> QED
        BY <3>2, <4>7 DEF Gives
    <3>7. ASSUME Confirmed(heldCal'.series[id]) PROVE Confirmed(cal'.series[id]) \/ wanted' \cap Gives(cal', id) = {}
      <4>1. Alive(id)
        BY <2>2, <3>1, <3>7 DEF HeldNow
      <4> QED
        BY <1>3, <3>1, <3>4, <4>1, AliveStays
    <3> QED
      BY <3>5, <3>6, <3>7 DEF HeldNow, Alive, EditOf
  <2> QED
    BY <1>1, <1>3, <2>1, <2>2, HeldEach DEF ToldStep
<1> QED
  BY <1>2, <1>3 DEF HeldTold

LEMMA WantedSlots ==
    ASSUME ToldStep
    PROVE  wanted \subseteq 1..LastSlot /\ \A t \in wanted : t \in Int
<1> SUFFICES ASSUME NEW t \in wanted PROVE t \in 1..LastSlot /\ t \in Int
  OBVIOUS
<1>1. PICK y \in DOMAIN cal.series : Owns(y, t)
  BY DEF ToldStep, Told, Owned
<1>2. PICK s : s = cal.series[y]
  OBVIOUS
<1>3. t \in Expanded(s) /\ IsTimed(s)
  BY <1>1, <1>2, ToldSteady DEF Owns, Listed, SlotsOf
<1>4. t \in 1..LastSlot
  BY <1>3, ExpandedIs
<1> QED
  BY <1>4, SlotsAssumption

\* A series split as it's kept is one that's kept as it is now.
LEMMA AskedTold ==
    ASSUME ToldStep, AskSeries
    PROVE  CallTold'
<1>1. /\ Steady /\ SlotsOf(cal) /\ HeldTold /\ wanted' \subseteq wanted /\ IdsTold
      /\ \A i \in DOMAIN heldCal.series : IsTimed(heldCal.series[i])
      /\ DOMAIN heldCal.series \subseteq DOMAIN cal.series
  BY ToldSteady DEF ToldStep, Told, SlotsInv, SeriesInv, CalendarsOK, Behind
<1>2. AskGoes
  BY AskGoesSo DEF ToldStep
<1>3. PICK id, at, h, s : id = call'.id /\ at = call'.at /\ h = heldCal.series[id] /\ s = cal.series[id]
  OBVIOUS
<1>4. /\ stage = "none" /\ cal' = cal /\ id \in DOMAIN heldCal.series /\ id \in DOMAIN cal.series /\ Confirmed(h)
      /\ call'.target = id /\ call'.count = 0 /\ IsTimed(h) /\ IsTimed(s) /\ ~Importing
  <2>1. stage = "none" /\ cal' = cal /\ id \in DOMAIN heldCal.series /\ Confirmed(h) /\ call'.target = id /\ call'.count = 0
    BY <1>2, <1>3 DEF AskGoes
  <2>2. id \in DOMAIN cal.series /\ IsTimed(h) /\ IsTimed(s)
    BY <1>1, <1>3, <2>1 DEF SlotsOf
  <2> QED
    BY <2>1, <2>2 DEF Importing
<1>5. ~Rests(id) /\ HeldNow(id)
  BY <1>1, <1>3, <1>4 DEF HeldTold
<1>6. /\ h.start = s.start /\ h.skips = s.skips /\ Alive(id)
      /\ \A t \in wanted : t \in Expanded(h) /\ EditOf(id, t) \notin cal.edited => t \in Expanded(s)
  BY <1>3, <1>4, <1>5 DEF HeldNow, EditOf
<1>7. Confirmed(cal'.series[id]) \/ wanted' \cap Gives(cal', id) = {}
  BY <1>1, <1>4, <1>6 DEF Alive
<1>8. stage' \in Splits => at \in Listed(heldCal, id)
  BY <1>2, <1>3 DEF AskGoes, Splits, Splitting
<1>9. ASSUME at \in Listed(heldCal, id), NEW t \in wanted', s.start <= t, t < at, t \notin s.skips, EditOf(id, t) \notin cal.edited
      PROVE  t \in Expanded(s)
  <2>1. at \in Expanded(h)
    BY <1>3, <1>9 DEF Listed
  <2>2. \A u \in h.start..at : u \notin h.skips => u \in Expanded(h)
    BY <1>4, <2>1, ExpandedIs
  <2>3. at \in Int /\ h.start \in Int
    BY <1>4, <2>1, ExpandedIs, SlotsAssumption DEF IsTimed
  <2>4. t \in Int => t \in h.start..at
    BY <1>6, <1>9, <2>3
  <2>5. t \in Int
    BY <1>1, <1>9, WantedSlots
  <2> QED
    BY <1>1, <1>6, <1>9, <2>2, <2>4, <2>5
<1>10. stage' \in Splits => SplitTold'
  BY <1>3, <1>4, <1>5, <1>7, <1>8, <1>9 DEF SplitTold, Alive, EditOf
<1> DEFINE listed == Listed(cal, id) \cup Listed(heldCal, id)
<1>11. ASSUME wanted' = wanted \ {t \in listed : t >= at}, NEW t \in wanted' \cap Gives(cal', id) PROVE ~(t >= at)
  <2>1. t \in wanted \cap Gives(cal, id)
    BY <1>1, <1>4, <1>11
  <2>2. Confirmed(s)
    BY <1>3, <1>6, <2>1 DEF Alive
  <2>3. t \in listed
    BY <1>3, <2>1, <2>2, ListedIs
  <2> QED
    BY <1>11, <2>3
<1>12. ASSUME wanted' = wanted \ listed PROVE wanted' \cap Gives(cal', id) = {}
  <2>1. Listed(cal, id) = IF Confirmed(s) THEN Gives(cal, id) ELSE {}
    BY <1>3, ListedIs
  <2> QED
    BY <1>1, <1>3, <1>4, <1>6, <1>12, <2>1 DEF Alive
<1>13. stage' \in Copied => CopiedTold'
  <2> SUFFICES ASSUME stage' \in Copied PROVE CopiedTold'
    OBVIOUS
  <2>1. call'.do = "delete" /\ wanted' = wanted \ {t \in listed : t >= at} /\ at \in Listed(heldCal, id)
    BY <1>2, <1>3 DEF AskGoes, Copied
  <2>2. at \in Expanded(h)
    BY <1>3, <2>1 DEF Listed
  <2>3. at \in Int
    BY <1>4, <2>2, ExpandedIs, SlotsAssumption
  <2>4. \A t \in wanted' \cap Gives(cal', id) : t \in Int /\ ~(t >= at)
    BY <1>1, <1>11, <2>1, WantedSlots
  <2>5. \A t \in wanted' \cap Gives(cal', id) : t < at
    BY <2>3, <2>4
  <2> QED
    BY <1>3, <2>1, <2>5 DEF CopiedTold
<1>14. stage' = "cancelling" => ~Rests(call'.id) /\ wanted' \cap Gives(cal', call'.id) = {}
  <2>1. stage' = "cancelling" => wanted' = wanted \ listed
    BY <1>2, <1>3 DEF AskGoes
  <2> QED
    BY <1>3, <1>5, <1>12, <2>1
<1>15. stage' \notin {"counting", "creating"}
  BY <1>2 DEF AskGoes
<1> QED
  BY <1>4, <1>10, <1>13, <1>14, <1>15 DEF CallTold

LEMMA RenewedTold ==
    ASSUME ToldStep, AskRenewal \/ RenewNext
    PROVE  CallTold'
<1>1. CASE stage' \in {"none", "renewing"}
  BY <1>1 DEF CallTold, Splits, Splitting, Copied
<1>2. CASE RenewNext /\ stage' \notin {"none", "renewing"}
  <2>1. RenewGoes
    BY <1>2, RenewGoesSo DEF ToldStep
  <2>2. PICK id, at, s : id = call'.id /\ at = call'.at /\ s = cal.series[id]
    OBVIOUS
  <2>3. /\ cal' = cal /\ wanted' = wanted /\ id \in DOMAIN cal.series /\ stage' = "reading" /\ at \in Listed(cal, id) /\ call'.count = 0
        /\ call'.target = id /\ stage = "renewing"
    BY <1>2, <2>1, <2>2 DEF RenewGoes
  <2>4. Confirmed(s) /\ at \in Expanded(s) /\ IsTimed(s)
    BY <2>2, <2>3, ToldSteady DEF Listed, SlotsOf
  <2>5. ~Rests(id)
    BY <2>2, <2>3, <2>4 DEF ToldStep, Told, IdsTold
  <2>6. at \in Int /\ s.start \in Int /\ \A u \in s.start..at : u \notin s.skips => u \in Expanded(s)
    BY <2>4, ExpandedIs, SlotsAssumption DEF IsTimed
  <2>7. ASSUME NEW t \in wanted, s.start <= t, t < at, t \notin s.skips PROVE t \in Expanded(s)
    <3>1. t \in Int
      BY WantedSlots
    <3> QED
      BY <2>6, <2>7, <3>1
  <2>8. SplitTold'
    BY <2>2, <2>3, <2>4, <2>5, <2>7 DEF SplitTold, Alive
  <2>9. stage' \notin Copied
    BY <2>3 DEF Copied
  <2> QED
    BY <2>3, <2>8, <2>9 DEF CallTold
<1>3. CASE AskRenewal
  BY <1>1, <1>3, RenewalGoesSo
<1> QED
  BY <1>1, <1>2, <1>3

\* While it splits one, a call's series has every event wanted before the split.
LEMMA SplitToldKept ==
    ASSUME ToldStep, CallMoves, stage' \in Splits
    PROVE  SplitTold'
<1>1. SameAsk /\ StageMoves
  BY DEF CallMoves
<1>2. stage \in Splits
  BY <1>1 DEF StageMoves, Splits, Splitting
<1>3. /\ SplitTold /\ call.id \in DOMAIN cal.series /\ call.at \in 1..LastSlot /\ stage \notin {"none", "renewing"}
  BY <1>2, SeriesThere DEF ToldStep, Told, CallTold, SlotsInv, CallSlots, Splits, Splitting
<1>4. PICK id, at : id = call.id /\ at = call.at /\ id = call'.id /\ at = call'.at
  BY <1>1 DEF SameAsk
<1>5. /\ ~Rests(id) /\ Alive(id) /\ id \in DOMAIN cal.series /\ SteadyTimes(id) /\ wanted' \subseteq wanted /\ at \in Int
      /\ \A t \in wanted : cal.series[id].start <= t /\ t < at /\ t \notin cal.series[id].skips /\ EditOf(id, t) \notin cal.edited
            => t \in Expanded(cal.series[id])
  BY <1>3, <1>4, ToldSteady, SlotsAssumption DEF SplitTold, EditOf
<1>6. id # Target
  <2>1. SlotsOf(cal) /\ IdsTold
    BY ToldSteady DEF ToldStep, Told
  <2> QED
    BY <1>3, <1>4, <1>5, <2>1, TargetIs
<1>7. Confirmed(cal'.series[id]) \/ wanted' \cap Gives(cal', id) = {}
  BY <1>5, <1>6, AliveStays
<1>8. ASSUME NEW t \in wanted', cal'.series[id].start <= t, t < at, t \notin cal'.series[id].skips, EditOf(id, t) \notin cal'.edited
      PROVE  t \in Expanded(cal'.series[id])
  <2>0. t \in Int /\ ~(t >= at)
    BY <1>5, <1>8, WantedSlots
  <2>1. EditOf(id, t) \notin cal.edited
    BY <1>4, <1>5, <1>8, <2>0 DEF SteadyTimes
  <2>2. t \in Expanded(cal.series[id])
    BY <1>5, <1>8, <2>1 DEF SteadyTimes
  <2>3. t \in Gives(cal, id)
    BY <2>1, <2>2 DEF Gives, EditOf
  <2>4. t \in Gives(cal', id)
    BY <1>4, <1>5, <2>0, <2>3 DEF SteadyTimes
  <2> QED
    BY <2>4 DEF Gives
<1> QED
  BY <1>4, <1>5, <1>7, <1>8 DEF SplitTold, Alive, EditOf

\* A copy that's made is there.
LEMMA CopiedToldKept ==
    ASSUME ToldStep, CallMoves, stage' \in Copied
    PROVE  CopiedTold'
<1>1. SameAsk /\ StageMoves
  BY DEF CallMoves
<1>2. stage \in Copied \cup {"creating", "reviving"} /\ stage \in Splits
  BY <1>1 DEF StageMoves, Copied, Splits, Splitting
<1>3. /\ CallSlots /\ SplitTold /\ call.id \in DOMAIN cal.series /\ call.target \in DOMAIN cal.series /\ call.at \in 1..LastSlot /\ SlotsOf(cal)
      /\ IdsTold /\ HeldTold /\ wanted' \subseteq wanted /\ DOMAIN cal.series \subseteq DOMAIN cal'.series /\ stage \notin {"none", "renewing"}
  BY <1>2, SeriesThere, ToldSteady DEF ToldStep, Told, CallTold, SlotsInv, CallSlots, Splits, Splitting
<1>4. ~Rests(call.id) /\ ~Rests(Target)
  BY <1>3, TargetIs DEF SplitTold
<1>5. CASE call.do = "delete"
  <2>1. stage \in Copied
    BY <1>2, <1>3, <1>5 DEF CallSlots, Copied
  <2>2. \A t \in wanted \cap Gives(cal, call.id) : t < call.at
    BY <1>5, <2>1 DEF ToldStep, Told, CallTold, CopiedTold
  <2>3. SteadyTimes(call.id)
    BY <1>3, <1>4, ToldSteady
  <2>4. \A t \in wanted' \cap Gives(cal', call.id) : t < call.at
    BY <1>3, <2>2, <2>3 DEF SteadyTimes
  <2> QED
    BY <1>1, <1>5, <2>4 DEF SameAsk, CopiedTold
<1>6. CASE call.do # "delete"
  <2> DEFINE There(id) == Confirmed(cal'.series[id]) \/ wanted' \cap Gives(cal', id) = {}
  <2>1. CASE stage \in Copied
    <3>1. call.target = Target /\ stage \notin {"reading", "creating", "undoing"}
      BY <1>2, <1>3, <1>6, <2>1 DEF CallSlots, Copied
    <3>2. Alive(call.target)
      BY <1>6, <2>1 DEF ToldStep, Told, CallTold, CopiedTold
    <3>3. There(call.target)
      BY <1>3, <1>4, <3>1, <3>2, AliveStays
    <3>4. call'.target = call.target
      BY <3>1 DEF CallMoves
    <3> QED
      BY <1>1, <1>6, <3>3, <3>4 DEF SameAsk, CopiedTold, Alive
  <2>2. CASE stage = "reviving"
    <3>1. Confirmed(cal'.series[call.target]) /\ call'.target = call.target
      BY <2>2, ReviveGoes DEF CallMoves
    <3> QED
      BY <1>1, <1>6, <3>1 DEF SameAsk, CopiedTold, Alive
  <2>3. CASE stage = "creating"
    <3>1. call'.target = Target
      BY <1>1, <2>3 DEF CallMoves, StageMoves, Copied
    <3>2. There(Target)
      <4>1. \/ Confirmed(cal'.series[Target])
            \/ cal' = cal /\ Target \in DOMAIN cal.series /\ Confirmed(GetSeries(Target))
        BY <2>3, CreateGoes DEF Copied
      <4>2. CASE cal' = cal /\ Target \in DOMAIN cal.series /\ Confirmed(GetSeries(Target))
        <5>1. Alive(Target)
          BY <1>3, <1>4, <4>2 DEF GetSeries, HeldTold, HeldNow, Alive
        <5> QED
          BY <1>3, <4>2, <5>1 DEF Alive
      <4> QED
        BY <4>1, <4>2
    <3> QED
      BY <1>1, <1>6, <3>1, <3>2 DEF SameAsk, CopiedTold, Alive
  <2> QED
    BY <1>2, <2>1, <2>2, <2>3
<1> QED
  BY <1>5, <1>6

\* How many of a series' events are before a time are no more than there are
\* slots from its start.
LEMMA CountedIs ==
    ASSUME NEW id, IsTimed(cal.series[id]), NEW at \in 1..LastSlot, cal.series[id].start < at
    PROVE  CountedBefore(cal, id, at) \in Nat /\ CountedBefore(cal, id, at) <= at - cal.series[id].start
<1> DEFINE A == {t \in Expanded(cal.series[id]) : t < at /\ PutAt(cal, id, t) < at}
<1>1. PICK s : s = cal.series[id]
  OBVIOUS
<1>2. s.start \in Int /\ at \in Int /\ s.start < at /\ IsTimed(s)
  BY <1>1, SlotsAssumption DEF IsTimed
<1>3. A \subseteq s.start..(at - 1)
  <2> SUFFICES ASSUME NEW t \in A PROVE t \in s.start..(at - 1)
    OBVIOUS
  <2>1. t \in Expanded(s) /\ t < at
    BY <1>1
  <2>2. t \in 1..LastSlot /\ s.start <= t
    BY <1>2, <2>1, ExpandedIs
  <2> QED
    BY <1>2, <2>1, <2>2, SlotsAssumption
<1>4. IsFiniteSet(s.start..(at - 1)) /\ Cardinality(s.start..(at - 1)) = at - s.start
  <2>1. at - 1 \in Int /\ s.start <= at - 1
    BY <1>2
  <2>2. /\ IsFiniteSet(s.start..(at - 1))
        /\ Cardinality(s.start..(at - 1)) = IF s.start > at - 1 THEN 0 ELSE (at - 1) - s.start + 1
    BY <1>2, <2>1, FS_Interval
  <2> QED
    BY <1>2, <2>1, <2>2
<1>5. IsFiniteSet(A) /\ Cardinality(A) \in Nat /\ Cardinality(A) <= at - s.start
  BY <1>3, <1>4, FS_Subset, FS_CardinalityType
<1> QED
  BY <1>1, <1>5 DEF CountedBefore

LEMMA ReadToldKept ==
    ASSUME ToldStep, CallMoves, stage' \in {"counting", "creating"}
    PROVE  ReadTold' /\ (stage' = "counting" => call'.read.count # 0) /\ (stage' = "creating" => CountTold')
<1>1. SameAsk /\ StageMoves
  BY DEF CallMoves
<1>2. stage \in {"reading", "counting", "creating"}
  BY <1>1 DEF StageMoves
<1>3. /\ SplitTold /\ call.id \in DOMAIN cal.series /\ call.at \in 1..LastSlot /\ SlotsOf(cal) /\ SlotsOf(cal') /\ IsTimed(call.read)
  BY <1>2, SeriesThere, ToldSteady DEF ToldStep, Told, CallTold, SlotsInv, CallSlots, Splits, Splitting
<1>4. PICK id, at, s, e, r : /\ id = call.id /\ at = call.at /\ s = cal.series[id] /\ e = cal'.series[id] /\ r = call.read
                             /\ id = call'.id /\ at = call'.at
  BY <1>1 DEF SameAsk
<1>5. /\ SteadyTimes(id) /\ IsTimed(s) /\ IsTimed(e) /\ IsTimed(r) /\ at \in Int /\ stage # "ending"
  BY <1>2, <1>3, <1>4, ToldSteady, SlotsAssumption DEF SplitTold, SlotsOf
<1>6. e.start = s.start /\ e.skips = s.skips /\ e.until <= s.until /\ (e.count = s.count \/ (s.count # 0 /\ e.count = 1))
  BY <1>4, <1>5 DEF SteadyTimes
<1>7. s.until \in Int /\ e.until \in Int /\ r.until \in Int /\ s.start \in Int /\ r.start \in Int /\ s.count \in Int /\ r.count \in Int
  BY <1>5, SlotsAssumption DEF IsTimed
<1>8. CASE stage = "reading"
  <2>1. /\ call'.read = s /\ cal' = cal /\ s.start < at /\ call'.count = call.count
        /\ stage' = (IF s.count = 0 THEN "creating" ELSE "counting")
    BY <1>4, <1>8, ReadGoes
  <2>2. call.count = 0
    BY <1>8 DEF ToldStep, Told, CallTold
  <2>3. ReadTold'
    <3>1. e = s /\ cal'.series[call'.id] = e
      BY <1>4, <2>1
    <3>2. s.until <= s.until /\ (IF s.count = 0 THEN s.count = 0 ELSE s.count \in {1, s.count})
      BY <1>7
    <3> QED
      BY <1>4, <2>1, <3>1, <3>2 DEF ReadTold
  <2>4. stage' = "creating" => s.count = 0
    BY <2>1
  <2>5. stage' = "counting" => s.count # 0
    BY <2>1
  <2> QED
    BY <2>1, <2>2, <2>3, <2>4, <2>5 DEF CountTold
<1>9. CASE stage \in {"counting", "creating"}
  <2>1. /\ s.start = r.start /\ s.skips = r.skips /\ s.until <= r.until /\ r.start < at
        /\ IF r.count = 0 THEN s.count = 0 ELSE s.count \in {1, r.count}
    BY <1>4, <1>9 DEF ToldStep, Told, CallTold, ReadTold
  <2>2. ASSUME call'.read = r PROVE ReadTold'
    <3>1. e.until <= r.until
      BY <1>6, <1>7, <2>1
    <3>2. IF r.count = 0 THEN e.count = 0 ELSE e.count \in {1, r.count}
      BY <1>6, <2>1
    <3> QED
      BY <1>4, <1>6, <2>1, <2>2, <3>1, <3>2 DEF ReadTold
  <2>3. CASE call' = call /\ stage' = stage
    <3>1. CountTold \/ stage # "creating"
      BY DEF ToldStep, Told, CallTold
    <3>2. stage = "counting" => call.read.count # 0
      BY DEF ToldStep, Told, CallTold
    <3> QED
      BY <1>4, <2>2, <2>3, <3>1, <3>2 DEF CountTold
  <2>4. CASE stage = "counting" /\ stage' = "creating"
    <3>1. /\ cal' = cal /\ call'.read = r /\ call'.count = r.count - CountedBefore(cal, id, at) /\ ~(call'.count <= 0)
      BY <1>4, <2>4, CountGoes
    <3>2. r.count # 0
      BY <1>4, <2>4 DEF ToldStep, Told, CallTold
    <3>3. CountedBefore(cal, id, at) \in Nat /\ CountedBefore(cal, id, at) <= at - s.start
      BY <1>3, <1>4, <1>5, <2>1, CountedIs
    <3>4. PICK n, m : n = CountedBefore(cal, id, at) /\ m = call'.count
      OBVIOUS
    <3>5. m # 0 /\ m >= r.count - (at - r.start)
      BY <1>5, <1>7, <2>1, <3>1, <3>3, <3>4
    <3> QED
      BY <1>4, <2>2, <2>4, <3>1, <3>2, <3>4, <3>5 DEF CountTold
  <2>5. CASE stage = "creating" /\ stage' = "creating"
    <3>1. call' = call
      <4>1. CASE EditElsewhere \/ SyncSeries \/ StopSeries \/ UNCHANGED seriesVars
        BY <4>1, Waits
      <4>2. CASE CreateCopy
        BY <2>5, <4>2 DEF CreateCopy, GoesTo, CallEnds, ToEnd
      <4> QED
        BY <2>5, <4>1, <4>2 DEF ToldStep, SeriesNext, AskSeries, AskRenewal, RenewNext, ReadToSplit, CountInstances, ReviveCopy,
           EndSeries, ReadAgainToEnd, ImportRest, CancelRest, VerifyEnded, UndoCopy, PatchSeries, ReadAgainToPatch, CancelWhole
    <3> QED
      BY <2>3, <2>5, <3>1
  <2>6. CASE stage = "counting" /\ stage' = "counting"
    BY <2>3, <2>6, CountGoes
  <2>7. ~(stage = "creating" /\ stage' = "counting")
    BY <1>1 DEF StageMoves
  <2> QED
    BY <1>9, <2>4, <2>5, <2>6, <2>7
<1> QED
  BY <1>2, <1>8, <1>9

LEMMA CallToldKept ==
    ASSUME ToldStep
    PROVE  CallTold'
<1>1. CASE Asks3
  BY <1>1, AskedTold, RenewedTold DEF Asks3
<1>2. CASE ~Asks3
  <2>1. CallMoves /\ SameAsk /\ StageMoves
    BY <1>2, EachMoves DEF ToldStep, CallMoves
  <2>2. stage' = "cancelling" => ~Rests(call'.id) /\ wanted' \cap Gives(cal', call'.id) = {}
    <3> SUFFICES ASSUME stage' = "cancelling" PROVE ~Rests(call'.id) /\ wanted' \cap Gives(cal', call'.id) = {}
      OBVIOUS
    <3>1. stage = "cancelling"
      BY <2>1 DEF StageMoves
    <3>2. ~Rests(call.id) /\ wanted \cap Gives(cal, call.id) = {} /\ call.id \in DOMAIN cal.series
      BY <3>1, SeriesThere DEF ToldStep, Told, CallTold
    <3>3. SteadyTimes(call.id) /\ wanted' \subseteq wanted
      BY <3>2, ToldSteady
    <3>4. wanted' \cap Gives(cal', call.id) = {}
      BY <3>2, <3>3 DEF SteadyTimes
    <3> QED
      BY <2>1, <3>2, <3>4 DEF SameAsk
  <2>3. stage' = "reading" => call'.count = 0
    <3> SUFFICES ASSUME stage' = "reading" PROVE call'.count = 0
      OBVIOUS
    <3>1. stage = "reading"
      BY <2>1 DEF StageMoves
    <3> QED
      BY <2>1, <3>1 DEF CallMoves, ToldStep, Told, CallTold
  <2> QED
    BY <2>1, <2>2, <2>3, SplitToldKept, CopiedToldKept, ReadToldKept DEF CallTold
<1> QED
  BY <1>1, <1>2
----------------------------------------------------------------------------

LEMMA ToldKept ==
    ASSUME SeriesInv, SlotsInv, ToldInv, [SeriesNext]_seriesVars
    PROVE  ToldInv'
<1> SUFFICES ASSUME ~untold' PROVE Told'
  BY DEF ToldInv
<1>1. ~untold
  BY ToldBefore
<1>2. ToldStep
  BY <1>1 DEF ToldInv, ToldStep
<1> QED
  BY <1>2, IdsToldKept, HeldToldKept, CallToldKept, HandedKept, OwnedKept DEF Told

LEMMA ToldAtFirst ==
    ASSUME SeriesInit
    PROVE  Told
<1>1. /\ cal \in FirstSeries /\ heldCal = cal /\ stage = "none" /\ wanted = AllListed(cal)
      /\ \A id \in DOMAIN cal.series : IsTimed(cal.series[id]) /\ id \in Seq(STRING) /\ Len(id) = 1 /\ id[1] # "rest"
  BY FirstSeriesAssumption DEF SeriesInit
<1>2. ASSUME NEW id \in DOMAIN cal.series, NEW a \in Labels
      PROVE  CopyOf(id, a) \notin DOMAIN cal.series
  <2>1. id \in Seq(Labels)
    BY <1>1 DEF Labels
  <2>2. Len(CopyOf(id, a)) = Len(id) + 1
    BY <2>1, CopyIs
  <2>3. Len(id) = 1
    BY <1>1
  <2>4. Len(CopyOf(id, a)) # 1
    BY <2>2, <2>3
  <2>5. \A i \in DOMAIN cal.series : Len(i) = 1
    BY <1>1
  <2> QED
    BY <2>4, <2>5
<1>3. \A id \in DOMAIN cal.series : ~Rests(id)
  BY <1>1 DEF Rests
<1>4. IdsTold
  <2>1. \A id \in DOMAIN cal.series : Len(id) = 1 /\ id[1] # "rest"
    BY <1>1
  <2>2. \A id \in DOMAIN cal.series : ~(Len(id) > 1)
    <3> SUFFICES ASSUME NEW id \in DOMAIN cal.series, Len(id) > 1 PROVE FALSE
      OBVIOUS
    <3>1. PICK n : n = Len(id)
      OBVIOUS
    <3>2. n = 1 /\ n > 1
      BY <2>1, <3>1
    <3> QED
      BY <3>2
  <2> QED
    BY <1>3, <2>1, <2>2 DEF IdsTold
<1>5. HeldTold
  BY <1>1, <1>3 DEF HeldTold, HeldNow, Alive
<1>6. CallTold
  BY <1>1 DEF CallTold, Splits, Splitting, Copied
<1>7. Handed
  <2> SUFFICES ASSUME NEW id \in DOMAIN cal.series, NEW t \in wanted \cap (1..LastSlot), NEW a \in 1..t
               PROVE  CopyOf(id, a) \notin DOMAIN cal.series
    BY DEF Handed
  <2>1. a \in Labels
    BY SlotsAssumption DEF Labels
  <2> QED
    BY <1>2, <2>1
<1>8. Owned
  BY <1>1 DEF Owned, Owns, AllListed, Safe
<1> QED
  BY <1>4, <1>5, <1>6, <1>7, <1>8 DEF Told

\* While the server's told of every series ended and copy cancelled, each event
\* wanted is in a series that won't be undone, and what a series has after a
\* copy of it starts, that copy or one of its own has too (split: the copy made
\* before the series is ended, undone only if it wasn't).
THEOREM ToldInvariant == SeriesSpec => []ToldInv
<1>1. SeriesInit => ToldInv
  BY ToldAtFirst DEF ToldInv
<1>2. SeriesInv /\ SlotsInv /\ ToldInv /\ [SeriesNext]_seriesVars => ToldInv'
  BY ToldKept
<1> QED
  BY <1>1, <1>2, SeriesInvariant, SlotsInvariant, PTL DEF SeriesSpec

\* No event wanted is lost, whatever's asked, refused, stopped or edited
\* elsewhere, unless a series was ended, or a copy cancelled, and the server not
\* told of it (split, delete_from, renew: copied first, then ended).
THEOREM NoneIsLost == SeriesSpec => []NoneLost
<1>1. ToldInv => NoneLost
  BY DEF ToldInv, Told, Owned, Owns, NoneLost, AllListed
<1> QED
  BY <1>1, ToldInvariant, PTL

----------------------------------------------------------------------------
(* What is so while every call goes well *)

\* No call went wrong, but for the one under way if it's to cancel its copy, or
\* the last if it did.
Fine ==
    /\ call.clean /\ mishaps = 0 /\ stage # "undoing"
    /\ stage \in {"none", "renewing"} => reply # "unsplit"
Undone == call.clean /\ (stage = "undoing" \/ (stage \in {"none", "renewing"} /\ reply = "unsplit"))
\* What went wrong shows.
WrongShows ==
    /\ mishaps \in Nat /\ (untold => mishaps > 0) /\ call.clean \in BOOLEAN
    /\ call.clean /\ stage \notin {"none", "renewing", "undoing"} => mishaps = 0
    /\ call.clean /\ stage \in {"none", "renewing"} /\ reply \in {"done", "refused"} => mishaps = 0

\* A copy is made from after the start of what it's a copy of.
Labelled == \A id \in DOMAIN cal.series :
    /\ id[1] = "rest" => Rests(id)
    /\ \A n \in 2..Len(id) : id[n] \in Int /\ id[n] <= id[Len(id)]
\* Two series come from one, the first from before the second was split off (or
\* is that one).
Precedes(i, j, n) ==
    /\ n \in 2..Len(j) /\ n - 1 <= Len(i) /\ \A m \in 1..n - 1 : i[m] = j[m]
    /\ n <= Len(i) => i[n] < j[n]
BeingSplit(i, j) == stage \in Copied \cup {"undoing"} /\ call.do # "delete" /\ i = call.id /\ j = Target
\* So the first ends before it, but while the second's being split off it; and no
\* call is about to end it later, or to copy it with a later end.
Apart(i, b) ==
    /\ cal.series[i].until < b
    /\ i \in DOMAIN heldCal.series => heldCal.series[i].until < b
    /\ stage \in Splits /\ i = call.id => call.at < b
    /\ stage \in {"counting", "creating"} /\ i = call.id => call.read.until < b
AllApart == \A i \in DOMAIN cal.series, j \in DOMAIN cal.series : \A n \in 2..Len(j) :
    i[1] # "rest" /\ Precedes(i, j, n) /\ ~BeingSplit(i, j) => Apart(i, j[n])
\* As it's undone, all but the copy are, and once it's undone the copy's cancelled.
ApartButOne ==
    /\ \A i \in DOMAIN cal.series, j \in DOMAIN cal.series : \A n \in 2..Len(j) :
          i[1] # "rest" /\ Precedes(i, j, n) => cal.series[i].until < j[n] \/ (i = call.id /\ j = Target)
    /\ \A id \in DOMAIN cal.series : Rests(id) /\ Confirmed(cal.series[id]) => id = Rest(call.at)
    /\ stage # "undoing" /\ Target \in DOMAIN cal.series => ~Confirmed(cal.series[Target])

CleanInv == WrongShows /\ (Fine => Labelled /\ AllApart) /\ (Undone => Labelled /\ ApartButOne)

----------------------------------------------------------------------------
(* How going well goes on *)

Idle == {"none", "renewing"}
\* A call ends well, or not, or goes on; what goes wrong in it shows at once.
Goes ==
    /\ call'.clean = call.clean
    /\ (mishaps' = mishaps /\ untold' = untold) \/ mishaps' = mishaps + 1
    /\ \/ stage' = stage /\ reply' = reply /\ mishaps' = mishaps
       \/ stage \notin Idle \cup {"undoing"} /\ stage' \notin Idle /\ (mishaps' = mishaps \/ stage' = "undoing")
       \/ /\ stage \notin Idle \cup {"undoing"} /\ stage' \in Idle /\ mishaps' = mishaps
          /\ reply' \in {"done", "refused", "failed"}
       \/ stage = "undoing" /\ stage' \in Idle /\ reply' = "unsplit" /\ mishaps' = mishaps
       \/ stage' \in Idle /\ reply' \in {"failed", "stopped", "copied"} /\ mishaps' = mishaps + 1

LEMMA EndsSo ==
    ASSUME NEW kind, CallEnds(kind)
    PROVE  stage' \in Idle /\ reply' = kind
BY DEF CallEnds, Idle
LEMMA SplitDoneSo ==
    ASSUME SeriesInv, NEW target, NEW read, SplitDone(target, read)
    PROVE  call'.clean = call.clean /\ (stage' = "patching" \/ (stage' \in Idle /\ reply' = "done"))
<1>1. DOMAIN call = Fields
  BY DEF SeriesInv, CallOK
<1> QED
  BY <1>1 DEF SplitDone, Fields, GoesTo, CallEnds, Idle
LEMMA EndDoneSo ==
    ASSUME SeriesInv, EndDone
    PROVE  call'.clean = call.clean /\ (stage' = "patching" \/ (stage' \in Idle /\ reply' = "done"))
BY SplitDoneSo, EndsSo DEF EndDone
LEMMA EndFailsSo ==
    ASSUME EndFails
    PROVE  stage' = "undoing" \/ (stage' \in Idle /\ reply' = "failed")
BY EndsSo DEF EndFails, GoesTo
LEMMA WrittenSo ==
    ASSUME NEW id, NEW s
    PROVE  /\ Answered(id, s) => mishaps' = mishaps
           /\ Refused \/ Lost(id, s) => mishaps' = mishaps + 1
BY DEF Answered, Refused, Lost, Mishap

LEMMA GoesSo ==
    ASSUME SeriesInv, [SeriesNext]_seriesVars, ~Asks3
    PROVE  Goes
<1>0. DOMAIN call = Fields
  BY DEF SeriesInv, CallOK
<1>1. CASE EditElsewhere \/ SyncSeries \/ UNCHANGED seriesVars
  BY <1>1 DEF EditElsewhere, SyncSeries, seriesVars, Goes
<1>2. CASE StopSeries
  BY <1>2 DEF StopSeries, Mishap, Goes, Idle
<1>3. CASE ReadToSplit
  <2>1. stage = "reading" /\ mishaps' = mishaps /\ untold' = untold
    BY <1>3 DEF ReadToSplit
  <2>2. CASE \E read : SplitDone(call.id, read)
    BY <2>1, <2>2, SplitDoneSo DEF Goes, Idle
  <2>3. CASE ~\E read : SplitDone(call.id, read)
    <3>1. call' = [call EXCEPT !.read = FreshSeries(call.id), !.seen = elsewhere]
      BY <1>3, <2>3 DEF ReadToSplit
    <3>2. call'.clean = call.clean
      BY <1>0, <3>1 DEF Fields
    <3>3. stage' \in {"creating", "counting"} \/ CallEnds("refused")
      BY <1>3, <2>3 DEF ReadToSplit, GoesTo
    <3> QED
      BY <2>1, <3>2, <3>3, EndsSo DEF Goes, Idle
  <2> QED
    BY <2>2, <2>3
<1>4. CASE CountInstances
  <2>1. stage = "counting" /\ mishaps' = mishaps /\ untold' = untold
    BY <1>4 DEF CountInstances
  <2>2. \/ CallEnds("refused") /\ call' = call
        \/ stage' = "creating" /\ \E left : call' = [call EXCEPT !.count = left]
    BY <1>4 DEF CountInstances, GoesTo
  <2>3. call'.clean = call.clean
    BY <1>0, <2>2 DEF Fields
  <2> QED
    BY <2>1, <2>2, <2>3, EndsSo DEF Goes, Idle
<1>5. CASE CreateCopy
  <2> DEFINE id == CopyOf(call.id, call.at)
             copy == [call.read EXCEPT !.start = call.at, !.count = call.count, !.status = "confirmed"]
  <2>1. stage = "creating" /\ untold' = untold
    BY <1>5 DEF CreateCopy
  <2>2. \/ /\ mishaps' = mishaps /\ stage' \in {"importing", "ending", "reviving"}
           /\ \E made : call' = [call EXCEPT !.target = id, !.made = made]
        \/ (Refused \/ Lost(id, copy)) /\ CallEnds("failed") /\ call' = call
    BY <1>5, WrittenSo DEF CreateCopy, GoesTo, ToEnd
  <2>3. call'.clean = call.clean
    BY <1>0, <2>2 DEF Fields
  <2> HIDE DEF id, copy
  <2> QED
    BY <2>1, <2>2, <2>3, EndsSo, WrittenSo DEF Goes, Idle
<1>6. CASE ReviveCopy
  <2> DEFINE revived == [cal.series[call.target] EXCEPT !.status = "confirmed"]
  <2>1. stage = "reviving" /\ untold' = untold
    BY <1>6 DEF ReviveCopy
  <2>2. \/ /\ mishaps' = mishaps /\ stage' \in {"importing", "ending"}
           /\ \E made : call' = [call EXCEPT !.made = made]
        \/ (Refused \/ Lost(call.target, revived)) /\ CallEnds("failed") /\ call' = call
    BY <1>6, WrittenSo DEF ReviveCopy, GoesTo, ToEnd
  <2>3. call'.clean = call.clean
    BY <1>0, <2>2 DEF Fields
  <2> HIDE DEF revived
  <2> QED
    BY <2>1, <2>2, <2>3, EndsSo, WrittenSo DEF Goes, Idle
<1>7. CASE EndSeries
  <2> DEFINE ended == [cal.series[call.id] EXCEPT !.days = call.read.days, !.skips = call.read.skips, !.count = 0,
                                                  !.until = call.at - 1]
  <2>1. stage = "ending"
    BY <1>7 DEF EndSeries
  <2>2. \/ Answered(call.id, ended) /\ EndDone /\ untold' = untold
        \/ (Refused \/ Lost(call.id, ended)) /\ EndFails /\ call' = call
        \/ mishaps' = mishaps /\ untold' = untold /\ stage' = "rereading" /\ call' = [call EXCEPT !.tries = @ + 1]
        \/ mishaps' = mishaps /\ untold' = untold /\ EndFails /\ call' = call
    BY <1>7 DEF EndSeries, GoesTo, Outdated
  <2> HIDE DEF ended
  <2>3. CASE Answered(call.id, ended) /\ EndDone /\ untold' = untold
    BY <2>1, <2>3, EndDoneSo, WrittenSo DEF Goes, Idle
  <2>4. CASE (Refused \/ Lost(call.id, ended)) /\ EndFails /\ call' = call
    BY <2>1, <2>4, EndFailsSo, WrittenSo DEF Goes, Idle
  <2>5. CASE mishaps' = mishaps /\ untold' = untold /\ stage' = "rereading" /\ call' = [call EXCEPT !.tries = @ + 1]
    BY <1>0, <2>1, <2>5 DEF Goes, Idle, Fields
  <2>6. CASE mishaps' = mishaps /\ untold' = untold /\ EndFails /\ call' = call
    BY <2>1, <2>6, EndFailsSo DEF Goes, Idle
  <2> QED
    BY <2>2, <2>3, <2>4, <2>5, <2>6
<1>8. CASE ImportRest
  <2>1. /\ stage = "importing" /\ call' = call
        /\ \/ stage' = "dropping" /\ mishaps' = mishaps /\ untold' = untold
           \/ mishaps' = mishaps + 1 /\ EndFails
    BY <1>8 DEF ImportRest, GoesTo, Refused, Mishap
  <2> QED
    BY <2>1, EndFailsSo DEF Goes, Idle
<1>9. CASE CancelRest
  <2> DEFINE cancelled == [cal.series[Rest(call.at)] EXCEPT !.status = "cancelled"]
  <2>1. /\ stage = "dropping" /\ call' = call
        /\ \/ stage' = "verifying" /\ Answered(Rest(call.at), cancelled) /\ untold' = untold
           \/ (Refused \/ Lost(Rest(call.at), cancelled)) /\ EndFails
    BY <1>9 DEF CancelRest, GoesTo
  <2> HIDE DEF cancelled
  <2> QED
    BY <2>1, EndFailsSo, WrittenSo DEF Goes, Idle
<1>10. CASE VerifyEnded
  <2>1. /\ stage = "verifying"
        /\ \/ mishaps' = mishaps /\ untold' = untold /\ (EndDone \/ (EndFails /\ call' = call))
           \/ mishaps' = mishaps + 1 /\ EndFails /\ call' = call
    BY <1>10 DEF VerifyEnded, Mishap
  <2>2. CASE EndDone /\ mishaps' = mishaps /\ untold' = untold
    BY <2>1, <2>2, EndDoneSo DEF Goes, Idle
  <2>3. CASE EndFails /\ call' = call
    BY <2>1, <2>3, EndFailsSo DEF Goes, Idle
  <2> QED
    BY <2>1, <2>2, <2>3
<1>11. CASE UndoCopy
  <2> DEFINE cancelled == [cal.series[call.target] EXCEPT !.status = "cancelled"]
  <2>1. /\ stage = "undoing" /\ call' = call
        /\ \/ Answered(call.target, cancelled) /\ CallEnds("unsplit") /\ untold' = untold
           \/ (Refused \/ Lost(call.target, cancelled)) /\ CallEnds("copied")
    BY <1>11 DEF UndoCopy
  <2> HIDE DEF cancelled
  <2> QED
    BY <2>1, EndsSo, WrittenSo DEF Goes, Idle
<1>12. CASE PatchSeries
  <2> DEFINE patched == Amended(cal.series[call.target], call.set)
  <2>1. stage = "patching" /\ untold' = untold
    BY <1>12 DEF PatchSeries
  <2>2. \/ mishaps' = mishaps /\ call' = call /\ (CallEnds("refused") \/ CallEnds("failed"))
        \/ Answered(call.target, patched) /\ call' = call /\ CallEnds("done")
        \/ (Refused \/ Lost(call.target, patched)) /\ call' = call /\ CallEnds("failed")
        \/ mishaps' = mishaps /\ stage' = "repatching" /\ call' = [call EXCEPT !.tries = @ + 1]
    BY <1>12 DEF PatchSeries, Outdated, GoesTo
  <2>3. call'.clean = call.clean
    BY <1>0, <2>2 DEF Fields
  <2> HIDE DEF patched
  <2> QED
    BY <2>1, <2>2, <2>3, EndsSo, WrittenSo DEF Goes, Idle
<1>13. CASE ReadAgainToEnd \/ ReadAgainToPatch
  <2>1. /\ mishaps' = mishaps /\ untold' = untold /\ \E read : call' = [call EXCEPT !.read = read]
        /\ stage \in {"rereading", "repatching"} /\ stage' \in {"ending", "patching"}
    BY <1>13 DEF ReadAgainToEnd, ReadAgainToPatch, GoesTo
  <2>2. call'.clean = call.clean
    BY <1>0, <2>1 DEF Fields
  <2> QED
    BY <2>1, <2>2 DEF Goes, Idle
<1>14. CASE CancelWhole
  <2> DEFINE cancelled == [cal.series[call.id] EXCEPT !.status = "cancelled"]
  <2>1. /\ stage = "cancelling" /\ call' = call /\ untold' = untold
        /\ \/ Answered(call.id, cancelled) /\ CallEnds("done")
           \/ (Refused \/ Lost(call.id, cancelled)) /\ CallEnds("failed")
    BY <1>14 DEF CancelWhole
  <2> HIDE DEF cancelled
  <2> QED
    BY <2>1, EndsSo, WrittenSo DEF Goes, Idle
<1> QED
  BY <1>1, <1>2, <1>3, <1>4, <1>5, <1>6, <1>7, <1>8, <1>9, <1>10, <1>11, <1>12, <1>13, <1>14 DEF SeriesNext, Asks3

----------------------------------------------------------------------------
(* Series end earlier, and are cancelled *)

Falls ==
    /\ DOMAIN cal.series \subseteq DOMAIN cal'.series
    /\ \A id \in DOMAIN cal'.series \ DOMAIN cal.series :
          (stage = "importing" /\ id = Rest(call.at)) \/ (stage = "creating" /\ Creates /\ id = Target)
    /\ \A id \in DOMAIN cal.series :
          /\ ~Rests(id) => \/ cal'.series[id].until <= cal.series[id].until
                           \/ stage = "ending" /\ id = call.id /\ cal'.series[id].until = call.at - 1
          /\ Confirmed(cal'.series[id]) =>
                Confirmed(cal.series[id]) \/ stage = "reviving" \/ (stage = "importing" /\ id = Rest(call.at))

LEMMA FallsRewritten ==
    ASSUME SlotsOf(cal), NEW id, NEW status, Rewrites(id, status), status = "confirmed" => stage = "reviving" \/ Confirmed(cal.series[id])
    PROVE  Falls
<1>1. \A i \in DOMAIN cal.series : SameTimes(cal'.series[i], cal.series[i]) /\ IsTimed(cal.series[i])
  BY RewritesKeepsSlots DEF SlotsOf
<1>2. \A i \in DOMAIN cal.series : cal'.series[i].until <= cal.series[i].until
  BY <1>1 DEF SameTimes, IsTimed
<1>3. \A i \in DOMAIN cal.series : Confirmed(cal'.series[i]) => Confirmed(cal.series[i]) \/ stage = "reviving"
  BY DEF Rewrites, Confirmed
<1> QED
  BY <1>2, <1>3 DEF Falls, Rewrites

LEMMA FallsElsewhere ==
    ASSUME SeriesInv, SlotsInv, EditElsewhere
    PROVE  Falls
<1>1. SlotsOf(cal) /\ \A i \in DOMAIN cal.series : IsTimed(cal.series[i])
  BY DEF SlotsInv, SlotsOf
<1>2. PICK id \in DOMAIN cal.series : ElsewhereDoes(id)
  BY <1>1, ElsewhereIs
<1>3. CASE \E status \in {cal.series[id].status, "cancelled"} : Rewrites(id, status)
  BY <1>1, <1>2, <1>3, FallsRewritten DEF Confirmed
<1>4. CASE Narrows(id)
  <2>1. \A i \in DOMAIN cal.series : cal'.series[i].until <= cal.series[i].until
    BY <1>1, <1>4 DEF Narrows, IsTimed
  <2>2. \A i \in DOMAIN cal.series : Confirmed(cal'.series[i]) => Confirmed(cal.series[i])
    BY <1>4 DEF Narrows, Confirmed
  <2> QED
    BY <1>4, <2>1, <2>2 DEF Falls, Narrows
<1>5. CASE \E edit : EditsOne(edit)
  <2>1. \A i \in DOMAIN cal.series : cal'.series[i].until <= cal.series[i].until
    BY <1>1, <1>5 DEF EditsOne, SameTimes, IsTimed
  <2> QED
    BY <1>5, <2>1 DEF Falls, EditsOne, Confirmed
<1> QED
  BY <1>2, <1>3, <1>4, <1>5 DEF ElsewhereDoes

LEMMA FallsWritten ==
    ASSUME SeriesInv, SlotsInv, ReviveCopy \/ CancelRest \/ UndoCopy \/ CancelWhole \/ PatchSeries, ~UNCHANGED cal
    PROVE  Falls /\ (UndoCopy => Rewrites(call.target, "cancelled"))
<1>1. SlotsOf(cal)
  BY DEF SlotsInv
<1>2. CASE ReviveCopy
  <2>1. stage = "reviving" /\ cal' = Put(cal, call.target, [cal.series[call.target] EXCEPT !.status = "confirmed"])
    BY <1>2, WriteCases DEF ReviveCopy
  <2>2. Rewrites(call.target, "confirmed") /\ ~UndoCopy
    BY <2>1, SeriesThere, StatusRewritten DEF UndoCopy
  <2> QED
    BY <1>1, <2>1, <2>2, FallsRewritten
<1>3. CASE CancelRest
  <2>1. stage = "dropping" /\ cal' = Put(cal, Rest(call.at), [cal.series[Rest(call.at)] EXCEPT !.status = "cancelled"])
    BY <1>3, WriteCases DEF CancelRest
  <2>2. Rest(call.at) \in DOMAIN cal.series
    BY <2>1 DEF SeriesInv, CallOK
  <2>3. Rewrites(Rest(call.at), "cancelled") /\ ~UndoCopy
    BY <2>1, <2>2, StatusRewritten DEF UndoCopy
  <2> QED
    BY <1>1, <2>3, FallsRewritten
<1>4. CASE UndoCopy
  <2>1. stage = "undoing" /\ cal' = Put(cal, call.target, [cal.series[call.target] EXCEPT !.status = "cancelled"])
    BY <1>4, WriteCases DEF UndoCopy
  <2>2. Rewrites(call.target, "cancelled")
    BY <2>1, SeriesThere, StatusRewritten
  <2> QED
    BY <1>1, <2>2, FallsRewritten
<1>5. CASE CancelWhole
  <2>1. stage = "cancelling" /\ cal' = Put(cal, call.id, [cal.series[call.id] EXCEPT !.status = "cancelled"])
    BY <1>5, WriteCases DEF CancelWhole
  <2>2. Rewrites(call.id, "cancelled") /\ ~UndoCopy
    BY <2>1, SeriesThere, StatusRewritten DEF UndoCopy
  <2> QED
    BY <1>1, <2>2, FallsRewritten
<1>6. CASE PatchSeries
  <2>1. stage = "patching" /\ cal' = Put(cal, call.target, Amended(cal.series[call.target], call.set))
    BY <1>6, WriteCases DEF PatchSeries, Outdated
  <2>2. DOMAIN call.set \subseteq {"days", "val"} /\ call.target \in DOMAIN cal.series
    BY <2>1, SeriesThere DEF SlotsInv, CallSlots
  <2>3. Rewrites(call.target, cal.series[call.target].status) /\ ~UndoCopy
    BY <2>1, <2>2, AmendedRewritten DEF UndoCopy
  <2> QED
    BY <1>1, <2>3, FallsRewritten DEF Confirmed
<1> QED
  BY <1>2, <1>3, <1>4, <1>5, <1>6

LEMMA FallsAlways ==
    ASSUME SeriesInv, SlotsInv, [SeriesNext]_seriesVars
    PROVE  Falls
<1>1. SlotsOf(cal) /\ \A i \in DOMAIN cal.series : IsTimed(cal.series[i])
  BY DEF SlotsInv, SlotsOf
<1>2. CASE UNCHANGED cal
  BY <1>1, <1>2 DEF Falls, IsTimed
<1>3. CASE CreateCopy /\ ~UNCHANGED cal
  <2>1. Creates /\ stage = "creating"
    BY <1>3, CreatedIs DEF CreateCopy
  <2>2. \A i \in DOMAIN cal.series : cal'.series[i].until <= cal.series[i].until
    BY <1>1, <2>1 DEF Creates, IsTimed
  <2>3. \A i \in DOMAIN cal.series : Confirmed(cal'.series[i]) => Confirmed(cal.series[i])
    BY <2>1 DEF Creates
  <2>4. DOMAIN cal'.series = DOMAIN cal.series \cup {Target}
    BY <2>1 DEF Creates
  <2> QED
    BY <2>1, <2>2, <2>3, <2>4 DEF Falls
<1>4. CASE EndSeries /\ ~UNCHANGED cal
  <2>1. Ends /\ stage = "ending"
    BY <1>4, EndGoesSo DEF EndGoes, EndSeries
  <2>2. \A i \in DOMAIN cal.series \ {call.id} : cal'.series[i] = cal.series[i] /\ cal.series[i].until <= cal.series[i].until
    BY <1>1, <2>1 DEF Ends, IsTimed
  <2>3. cal'.series[call.id].until = call.at - 1 /\ cal'.series[call.id].status = cal.series[call.id].status
        /\ DOMAIN cal'.series = DOMAIN cal.series
    BY <2>1 DEF Ends
  <2> QED
    BY <2>1, <2>2, <2>3 DEF Falls, Confirmed
<1>5. CASE ImportRest /\ ~UNCHANGED cal
  <2>1. stage = "importing" /\ (cal' = WithRest(cal) \/ cal' = WithRest(Imported(cal)))
    BY <1>5 DEF ImportRest, Refused
  <2>2. Imports
    BY <2>1, ImportedIs
  <2>3. Rests(Rest(call.at))
    <3>1. call.at \in Int
      BY <2>1, SlotsAssumption DEF SlotsInv, CallSlots, Splits, Splitting
    <3> QED
      BY <3>1, RestIs
  <2>4. ASSUME NEW i \in DOMAIN cal.series, i # Rest(call.at)
        PROVE  cal'.series[i].until <= cal.series[i].until /\ cal'.series[i].status = cal.series[i].status
    <3>1. cal'.series[i] = cal.series[i] \/ (i = call.id /\ CutAt(cal'.series[i], cal.series[i]))
      BY <2>2, <2>4 DEF Imports
    <3> QED
      BY <1>1, <2>4, <3>1 DEF CutAt, IsTimed
  <2>5. DOMAIN cal'.series = DOMAIN cal.series \cup {Rest(call.at)}
    BY <2>2 DEF Imports
  <2> QED
    BY <2>1, <2>3, <2>4, <2>5 DEF Falls, Confirmed
<1>6. CASE (ReviveCopy \/ CancelRest \/ UndoCopy \/ CancelWhole \/ PatchSeries) /\ ~UNCHANGED cal
  BY <1>6, FallsWritten
<1> QED
  BY <1>2, <1>3, <1>4, <1>5, <1>6, FallsElsewhere DEF SeriesNext, seriesVars, AskSeries, AskRenewal, RenewNext, ReadToSplit, CountInstances,
     ReadAgainToEnd, VerifyEnded, ReadAgainToPatch, StopSeries, SyncSeries

----------------------------------------------------------------------------
(* What went well before a call that goes well *)

LEMMA AsksWell ==
    ASSUME SeriesInv, SlotsInv, Asks3
    PROVE  /\ call'.clean = AllWell /\ mishaps' = mishaps /\ untold' = untold /\ cal' = cal /\ heldCal' = heldCal
           /\ stage \in Idle /\ stage' # "undoing" /\ reply' \in {reply, "none", "done"}
<1>1. CASE AskSeries
  <2>2. mishaps' = mishaps
    BY <1>1 DEF AskSeries
  <2>3. AskGoes
    BY <1>1, AskGoesSo
  <2> QED
    BY <2>2, <2>3 DEF AskGoes, Idle
<1>2. CASE AskRenewal
  <2>1. call'.clean = AllWell
    <3>1. PICK ask, queue : call' = [NewCall EXCEPT !.do = "renew", !.now = ask.now, !.queue = queue, !.clean = AllWell]
      BY <1>2 DEF AskRenewal
    <3> QED
      BY <3>1 DEF NewCall
  <2>2. mishaps' = mishaps /\ reply' = "done"
    BY <1>2 DEF AskRenewal
  <2> QED
    BY <1>2, <2>1, <2>2, RenewalGoesSo DEF Idle
<1>3. CASE RenewNext
  <2>1. call'.clean = AllWell
    <3>1. DOMAIN call = Fields
      BY DEF SeriesInv, CallOK
    <3>2. PICK id, at : call' = [call EXCEPT !.queue = @ \ {id}, !.id = id, !.at = at,
                                      !.target = id, !.count = 0, !.tries = 1, !.seen = elsewhere, !.clean = AllWell]
      BY <1>3 DEF RenewNext
    <3> QED
      BY <3>1, <3>2 DEF Fields
  <2>2. mishaps' = mishaps
    BY <1>3 DEF RenewNext
  <2>3. RenewGoes
    BY <1>3, RenewGoesSo
  <2> QED
    BY <2>1, <2>2, <2>3 DEF RenewGoes, Idle
<1> QED
  BY <1>1, <1>2, <1>3 DEF Asks3

LEMMA WrongShowsKept ==
    ASSUME SeriesInv, SlotsInv, WrongShows, [SeriesNext]_seriesVars
    PROVE  WrongShows'
<1>1. CASE Asks3
  <2>1. call'.clean = AllWell /\ mishaps' = mishaps /\ untold' = untold
    BY <1>1, AsksWell
  <2>2. call'.clean \in BOOLEAN /\ (call'.clean => mishaps = 0)
    BY <2>1, Zenon DEF AllWell
  <2> QED
    BY <2>1, <2>2 DEF WrongShows
<1>2. CASE ~Asks3
  <2>1. Goes
    BY <1>2, GoesSo
  <2>2. mishaps' \in Nat /\ (untold' => mishaps' > 0)
    BY <2>1 DEF Goes, WrongShows
  <2> QED
    BY <2>1, <2>2 DEF Goes, WrongShows, Idle
<1> QED
  BY <1>1, <1>2

LEMMA FineBefore ==
    ASSUME SeriesInv, SlotsInv, WrongShows, [SeriesNext]_seriesVars, Fine'
    PROVE  Fine /\ ~untold /\ ~untold' /\ mishaps = 0
<1>1. WrongShows'
  BY WrongShowsKept
<1>2. ~untold'
  BY <1>1 DEF WrongShows, Fine
<1>3. CASE Asks3
  <2>1. call'.clean = AllWell /\ call'.clean
    BY <1>3, AsksWell DEF Fine
  <2>2. call.clean /\ mishaps = 0 /\ reply # "unsplit"
    BY <2>1, Zenon DEF AllWell
  <2>3. untold' = untold /\ stage \in Idle
    BY <1>3, AsksWell
  <2> QED
    BY <1>2, <2>2, <2>3 DEF Fine, Idle
<1>4. CASE ~Asks3
  <2>1. Goes
    BY <1>4, GoesSo
  <2>2. mishaps = 0 /\ mishaps' = mishaps
    BY <2>1 DEF Goes, WrongShows, Fine
  <2> QED
    BY <1>2, <2>1, <2>2 DEF Goes, Fine, Idle
<1> QED
  BY <1>3, <1>4

LEMMA UndoneBefore ==
    ASSUME SeriesInv, SlotsInv, WrongShows, [SeriesNext]_seriesVars, Undone'
    PROVE  ~Asks3 /\ (Undone \/ (Fine /\ stage' = "undoing" /\ stage \notin Idle))
<1>1. ~Asks3
  BY AsksWell DEF Undone, AllWell, Idle
<1>2. Goes
  BY <1>1, GoesSo
<1> QED
  BY <1>1, <1>2 DEF Goes, Undone, Fine, WrongShows, Idle

----------------------------------------------------------------------------
(* Which of two series was first *)

LEMMA CopyPrecedes ==
    ASSUME NEW p \in Seq(Labels), NEW j \in Seq(Labels), NEW a \in Labels, Len(p) >= 1,
           NEW n \in 2..Len(j), Precedes(CopyOf(p, a), j, n)
    PROVE  \/ Precedes(p, j, n)
           \/ Len(p) + 1 \in 2..Len(j) /\ Precedes(p, j, Len(p) + 1) /\ j[Len(p) + 1] = a
<1>0. PICK c, L : c = CopyOf(p, a) /\ L = Len(p)
  OBVIOUS
<1>1. /\ c = CopyOf(p, a) /\ L = Len(p) /\ L \in Nat /\ Len(c) = L + 1 /\ c[L + 1] = a /\ L >= 1
      /\ \A m \in 1..L : c[m] = p[m]
  BY <1>0, CopyIs
<1>z. Precedes(c, j, n)
  BY <1>0
<1>2. /\ n - 1 <= L + 1 /\ (\A m \in 1..n - 1 : c[m] = j[m]) /\ (n <= L + 1 => c[n] < j[n]) /\ Len(j) \in Nat
  BY <1>1, <1>z DEF Precedes
<1>3. CASE n - 1 <= L
  <2>1. \A m \in 1..n - 1 : p[m] = j[m]
    BY <1>1, <1>2, <1>3
  <2>2. n <= L => p[n] < j[n]
    BY <1>1, <1>2, <1>3
  <2> QED
    BY <1>1, <1>3, <2>1, <2>2 DEF Precedes
<1>4. CASE ~(n - 1 <= L)
  <2>1. n = L + 2 /\ n - 1 = L + 1 /\ L + 1 \in 2..Len(j)
    BY <1>1, <1>2, <1>4
  <2>2. \A m \in 1..L + 1 : c[m] = j[m]
    BY <1>2, <2>1
  <2>3. j[L + 1] = a /\ \A m \in 1..(L + 1) - 1 : p[m] = j[m]
    BY <1>1, <2>2
  <2>4. (L + 1) - 1 <= L /\ ~(L + 1 <= L)
    BY <1>1
  <2> QED
    BY <1>1, <2>1, <2>3, <2>4 DEF Precedes
<1> QED
  BY <1>3, <1>4

LEMMA CopyPreceded ==
    ASSUME NEW i \in Seq(Labels), NEW p \in Seq(Labels), NEW a \in Labels, Len(p) >= 1,
           NEW n \in 2..Len(CopyOf(p, a)), Precedes(i, CopyOf(p, a), n)
    PROVE  \/ n \in 2..Len(p) /\ Precedes(i, p, n) /\ CopyOf(p, a)[n] = p[n]
           \/ n = Len(p) + 1 /\ CopyOf(p, a)[n] = a /\ i = p
           \/ n = Len(p) + 1 /\ CopyOf(p, a)[n] = a /\ n \in 2..Len(i) /\ Precedes(p, i, n) /\ i[n] < a
<1>0. PICK c, L : c = CopyOf(p, a) /\ L = Len(p)
  OBVIOUS
<1>1. /\ c = CopyOf(p, a) /\ L = Len(p) /\ L \in Nat /\ Len(c) = L + 1 /\ c[L + 1] = a /\ L >= 1
      /\ \A m \in 1..L : c[m] = p[m]
  BY <1>0, CopyIs
<1>z. n \in 2..Len(c) /\ Precedes(i, c, n)
  BY <1>0
<1>2. n \in 2..(L + 1) /\ n - 1 <= Len(i) /\ (\A m \in 1..n - 1 : i[m] = c[m]) /\ (n <= Len(i) => i[n] < c[n]) /\ Len(i) \in Nat
  BY <1>1, <1>z DEF Precedes
<1>3. CASE n <= L
  <2>1. n \in 2..L /\ c[n] = p[n] /\ \A m \in 1..n - 1 : i[m] = p[m]
    BY <1>1, <1>2, <1>3
  <2> QED
    BY <1>1, <1>2, <2>1 DEF Precedes
<1>4. CASE ~(n <= L)
  <2>1. n = L + 1 /\ \A m \in 1..L : i[m] = p[m]
    BY <1>1, <1>2, <1>4
  <2>2. CASE Len(i) = L
    <3>1. i = p
      BY <1>1, <2>1, <2>2
    <3> QED
      BY <1>1, <2>1, <3>1
  <2>3. CASE Len(i) # L
    <3>1. n \in 2..Len(i) /\ i[n] < a /\ n - 1 <= L /\ ~(n <= L)
      BY <1>1, <1>2, <2>1, <2>3
    <3>2. \A m \in 1..n - 1 : p[m] = i[m]
      BY <1>1, <2>1
    <3> QED
      BY <1>1, <2>1, <3>1, <3>2 DEF Precedes
  <2> QED
    BY <2>2, <2>3
<1> QED
  BY <1>3, <1>4

\* Of two that come from one, one precedes the other.
LEMMA OnePrecedes ==
    ASSUME NEW i \in Seq(Labels), NEW j \in Seq(Labels), i # j, Len(i) >= 1, Len(j) >= 1, i[1] = j[1],
           \A n \in 2..Len(i) : i[n] \in Int, \A n \in 2..Len(j) : j[n] \in Int
    PROVE  (\E n \in 2..Len(j) : Precedes(i, j, n)) \/ (\E n \in 2..Len(i) : Precedes(j, i, n))
<1> DEFINE D == {n \in Nat : n >= 1 /\ (n > Len(i) \/ n > Len(j) \/ i[n] # j[n])}
<1>1. Len(i) \in Nat /\ Len(j) \in Nat
  OBVIOUS
<1>2. Len(i) + 1 \in D
  BY <1>1
<1>3. PICK n \in D : \A m \in D : n <= m
  <2> HIDE DEF D
  <2>1. D \subseteq Nat
    BY DEF D
  <2> QED
    BY <1>2, <2>1, LeastOf
<1>4. n \in Nat /\ n >= 2
  BY <1>3
<1>5. ASSUME NEW m \in 1..n - 1 PROVE m <= Len(i) /\ m <= Len(j) /\ i[m] = j[m]
  <2>1. m \in Nat /\ m < n /\ m >= 1
    BY <1>4
  <2>2. m \notin D
    BY <1>3, <1>4, <2>1
  <2> QED
    BY <1>1, <2>1, <2>2
<1>6. n - 1 <= Len(i) /\ n - 1 <= Len(j) /\ \A m \in 1..n - 1 : i[m] = j[m]
  <2>1. n - 1 \in 1..n - 1
    BY <1>4
  <2> QED
    BY <1>5, <2>1
<1>7. CASE n > Len(i)
  <2>1. CASE n > Len(j)
    <3>1. Len(i) = n - 1 /\ Len(j) = n - 1
      BY <1>1, <1>4, <1>6, <1>7, <2>1
    <3>2. i = j
      BY <1>6, <3>1
    <3> QED
      BY <3>2
  <2>2. CASE ~(n > Len(j))
    <3>1. n \in 2..Len(j) /\ ~(n <= Len(i))
      BY <1>1, <1>4, <1>7, <2>2
    <3> QED
      BY <1>6, <3>1 DEF Precedes
  <2> QED
    BY <2>1, <2>2
<1>8. CASE ~(n > Len(i)) /\ n > Len(j)
  <2>1. n \in 2..Len(i) /\ ~(n <= Len(j))
    BY <1>1, <1>4, <1>8
  <2> QED
    BY <1>6, <2>1 DEF Precedes
<1>9. CASE ~(n > Len(i)) /\ ~(n > Len(j))
  <2>1. n \in 2..Len(i) /\ n \in 2..Len(j) /\ i[n] # j[n]
    BY <1>1, <1>3, <1>4, <1>9
  <2>2. i[n] < j[n] \/ j[n] < i[n]
    BY <2>1
  <2> QED
    BY <1>6, <2>1, <2>2 DEF Precedes
<1> QED
  BY <1>7, <1>8, <1>9

----------------------------------------------------------------------------
(* What goes well keeps series apart *)

CleanStep ==
    /\ ToldStep /\ Labelled /\ AllApart /\ Fine /\ Fine' /\ mishaps = 0 /\ mishaps' = 0
    /\ SlotsOf(cal) /\ SlotsOf(cal') /\ Falls

LEMMA CleanInts ==
    ASSUME CleanStep
    PROVE  /\ \A id \in DOMAIN cal.series : cal.series[id].until \in Int /\ id \in Seq(Labels) /\ Len(id) >= 1 /\ Len(id) \in Nat
           /\ \A id \in DOMAIN cal'.series : cal'.series[id].until \in Int /\ id \in Seq(Labels) /\ Len(id) >= 1 /\ Len(id) \in Nat
           /\ \A id \in DOMAIN heldCal.series : heldCal.series[id].until \in Int /\ id \in DOMAIN cal.series
           /\ stage \in Splits => call.at \in 1..LastSlot /\ call.at \in Int /\ call.at \in Labels
           /\ call.read.until \in Int
<1>1. /\ \A id \in DOMAIN cal.series : IsTimed(cal.series[id]) /\ IsNamed(id, cal.series[id])
      /\ \A id \in DOMAIN cal'.series : IsTimed(cal'.series[id]) /\ IsNamed(id, cal'.series[id])
  BY DEF CleanStep, SlotsOf
<1>2. \A id \in DOMAIN heldCal.series : IsTimed(heldCal.series[id]) /\ id \in DOMAIN cal.series
  BY DEF CleanStep, ToldStep, SlotsInv, SeriesInv, CalendarsOK, Behind
<1>3. stage \in Splits => call.at \in 1..LastSlot
  BY DEF CleanStep, ToldStep, SlotsInv, CallSlots
<1>4. IsTimed(call.read)
  BY DEF CleanStep, ToldStep, SlotsInv, CallSlots
<1>5. stage \in Splits => call.at \in Int /\ call.at \in Labels
  BY <1>3, SlotsAssumption DEF Labels
<1> QED
  BY <1>1, <1>2, <1>3, <1>4, <1>5 DEF IsTimed, IsNamed

\* A call that splits a series and is still to end it has a copy not there yet.
LEMMA NoCopyYet ==
    ASSUME CleanStep, stage \in Splits, stage \notin Copied \/ call.do = "delete", ~Rests(call.id), call.id \in DOMAIN cal.series
    PROVE  Target \notin DOMAIN cal.series
<1> SUFFICES ASSUME Target \in DOMAIN cal.series PROVE FALSE
  OBVIOUS
<1>1. /\ call.id \in Seq(Labels) /\ Len(call.id) >= 1 /\ Len(call.id) \in Nat /\ call.at \in Int /\ call.at \in Labels
  BY CleanInts
<1>2. PICK L \in Nat : L = Len(call.id)
  BY <1>1
<1>3. Len(Target) = L + 1 /\ Target[L + 1] = call.at /\ \A m \in 1..L : Target[m] = call.id[m]
  BY <1>1, <1>2, CopyIs DEF Target
<1>4. L + 1 \in 2..Len(Target) /\ Precedes(call.id, Target, L + 1)
  <2>1. L + 1 \in 2..Len(Target) /\ (L + 1) - 1 <= L /\ ~(L + 1 <= L) /\ 1..(L + 1) - 1 = 1..L
    BY <1>1, <1>2, <1>3
  <2> QED
    BY <1>2, <1>3, <2>1 DEF Precedes
<1>5. call.id[1] # "rest"
  BY DEF CleanStep, Labelled
<1>6. ~BeingSplit(call.id, Target)
  BY DEF BeingSplit, CleanStep, Fine
<1>7. Apart(call.id, Target[L + 1])
  BY <1>4, <1>5, <1>6 DEF CleanStep, AllApart
<1> QED
  BY <1>1, <1>3, <1>7 DEF Apart

LEMMA CreatedGoes ==
    ASSUME CleanStep, stage = "creating", Creates
    PROVE  stage' \in {"importing", "ending"} /\ call'.id = call.id /\ call'.at = call.at /\ call'.do = call.do /\ call.do # "delete"
<1>1. ~Asks3
  BY DEF Asks3, AskSeries, AskRenewal, RenewNext
<1>2. SameAsk
  BY <1>1, EachMoves DEF CleanStep, ToldStep, CallMoves
<1>3. call.do # "delete"
  BY DEF CleanStep, ToldStep, SlotsInv, CallSlots, Splits, Splitting, Copied
<1>4. CreateCopy
  <2>1. ~EditElsewhere
    <3>1. SUFFICES ASSUME EditElsewhere PROVE FALSE
      OBVIOUS
    <3>2. PICK id \in DOMAIN cal.series : ElsewhereDoes(id)
      BY <3>1, ElsewhereIs DEF CleanStep, ToldStep
    <3>3. DOMAIN cal'.series = DOMAIN cal.series
      BY <3>2 DEF ElsewhereDoes, Rewrites, Narrows, EditsOne
    <3> QED
      BY <3>3 DEF Creates
  <2>2. ~UNCHANGED cal
    BY DEF Creates
  <2> QED
    BY <2>1, <2>2 DEF CleanStep, ToldStep, SeriesNext, seriesVars, AskSeries, AskRenewal, RenewNext, ReadToSplit, CountInstances,
       ReviveCopy, EndSeries, ReadAgainToEnd, ImportRest, CancelRest, VerifyEnded, UndoCopy, PatchSeries, ReadAgainToPatch,
       CancelWhole, StopSeries, SyncSeries
<1>5. Target \notin DOMAIN cal.series
  BY DEF Creates
<1>6. stage' \in {"importing", "ending"}
  <2> DEFINE copy == [call.read EXCEPT !.start = call.at, !.count = call.count, !.status = "confirmed"]
  <2>1. \/ stage' \in {"importing", "ending"}
        \/ Refused \/ Lost(Target, copy)
    BY <1>4, <1>5 DEF CreateCopy, Target, GoesTo, ToEnd
  <2> HIDE DEF copy
  <2>2. mishaps' # mishaps + 1
    BY DEF CleanStep
  <2> QED
    BY <2>1, <2>2, WrittenSo
<1> QED
  BY <1>2, <1>3, <1>6 DEF SameAsk

\* A split that's done has ended the series, and the server's told.
LEMMA LeavesApart ==
    ASSUME CleanStep, ~Asks3, stage \in Copied, call.do # "delete", stage' \notin Copied \cup {"undoing"}
    PROVE  /\ cal'.series[call.id].until < call.at
           /\ call.id \in DOMAIN heldCal'.series => heldCal'.series[call.id].until < call.at
<1>0. call.at \in Int /\ IsSeriesOf(heldCal) /\ mishaps' # mishaps + 1 /\ SeriesInv /\ SlotsInv
  BY CleanInts DEF CleanStep, ToldStep, SeriesInv, CalendarsOK, Copied, Splits, Splitting
<1>1. ASSUME heldCal' = KeptOf(cal', call.id) PROVE heldCal'.series[call.id] = cal'.series[call.id]
  <2>1. PICK c, id : c = cal' /\ id = call.id
    OBVIOUS
  <2>2. KeptOf(c, id).series[id] = c.series[id]
    BY <1>0, KeptOfSeries
  <2> QED
    BY <1>1, <2>1, <2>2
<1>2. CASE EndSeries
  <2>1. Ends /\ heldCal' = KeptOf(cal', call.id)
    BY <1>0, <1>2, EndGoesSo, EndFailsSo DEF EndGoes, EndFails, GoesTo, Copied
  <2>2. cal'.series[call.id].until < call.at
    BY <1>0, <2>1 DEF Ends
  <2> QED
    BY <1>1, <2>1, <2>2
<1>3. CASE VerifyEnded
  <2>1. ~EndFails
    BY DEF EndFails, GoesTo
  <2>2. cal' = cal /\ heldCal' = KeptOf(cal, call.id) /\ EndsBefore(cal.series[call.id], call.at)
    BY <1>3, <2>1 DEF VerifyEnded
  <2> QED
    BY <1>1, <2>2 DEF EndsBefore
<1>4. ~StopSeries
  BY <1>0 DEF StopSeries, Mishap
<1>5. ~(ImportRest \/ CancelRest \/ ReadAgainToEnd \/ EditElsewhere \/ SyncSeries \/ UNCHANGED seriesVars)
  BY DEF ImportRest, CancelRest, ReadAgainToEnd, EditElsewhere, SyncSeries, seriesVars, EndFails, GoesTo, Copied
<1> QED
  BY <1>2, <1>3, <1>4, <1>5 DEF CleanStep, ToldStep, SeriesNext, Asks3, ReadToSplit, CountInstances, CreateCopy, ReviveCopy, UndoCopy,
     PatchSeries, ReadAgainToPatch, CancelWhole, Copied

LEMMA SplitIs ==
    ASSUME CleanStep, stage \in Splits
    PROVE  call.id \in DOMAIN cal.series /\ ~Rests(call.id) /\ call.id[1] # "rest"
<1>1. call.id \in DOMAIN cal.series
  BY SeriesThere DEF CleanStep, ToldStep, Splits, Splitting
<1>2. ~Rests(call.id)
  BY DEF CleanStep, ToldStep, Told, CallTold, SplitTold
<1> QED
  BY <1>1, <1>2 DEF CleanStep, Labelled

LEMMA NewOnesAre ==
    ASSUME CleanStep, NEW id \in DOMAIN cal'.series \ DOMAIN cal.series
    PROVE  \/ Rests(id) /\ id[1] = "rest" /\ id[2] \in Int
           \/ stage = "creating" /\ Creates /\ id = Target
<1>1. (stage = "importing" /\ id = Rest(call.at)) \/ (stage = "creating" /\ Creates /\ id = Target)
  BY DEF CleanStep, Falls
<1>2. CASE stage = "importing" /\ id = Rest(call.at)
  <2>1. call.at \in Int
    BY <1>2, CleanInts DEF Splits, Splitting
  <2> QED
    BY <1>2, <2>1, RestIs DEF Rests
<1> QED
  BY <1>1, <1>2

LEMMA CreatingIs ==
    ASSUME CleanStep, stage = "creating"
    PROVE  /\ \E L \in Nat : /\ L = Len(call.id) /\ L >= 1 /\ Len(Target) = L + 1 /\ Target[L + 1] = call.at
                             /\ \A m \in 1..L : Target[m] = call.id[m]
           /\ call.at \in Int /\ call.at \in Labels /\ call.id \in DOMAIN cal.series /\ call.id[1] # "rest"
           /\ call.id \in Seq(Labels) /\ Len(call.id) >= 1
           /\ Target[1] = call.id[1] /\ Target \notin DOMAIN cal.series
<1>0. stage \in Splits /\ stage \notin Copied
  BY DEF Splits, Splitting, Copied
<1>1. call.id \in DOMAIN cal.series /\ call.id[1] # "rest" /\ ~Rests(call.id)
  BY <1>0, SplitIs
<1>2. call.at \in Int /\ call.at \in Labels /\ call.id \in Seq(Labels) /\ Len(call.id) >= 1 /\ Len(call.id) \in Nat
  BY <1>0, <1>1, CleanInts
<1>3. PICK L \in Nat : L = Len(call.id)
  BY <1>2
<1>4. Len(Target) = L + 1 /\ Target[L + 1] = call.at /\ \A m \in 1..L : Target[m] = call.id[m]
  BY <1>2, <1>3, CopyIs DEF Target
<1>5. Target[1] = call.id[1]
  BY <1>2, <1>3, <1>4
<1> QED
  BY <1>0, <1>1, <1>2, <1>3, <1>4, <1>5, NoCopyYet

LEMMA LabelledKept ==
    ASSUME CleanStep
    PROVE  Labelled'
<1>1. ASSUME NEW id \in DOMAIN cal'.series
      PROVE  /\ id[1] = "rest" => Rests(id)
             /\ \A n \in 2..Len(id) : id[n] \in Int /\ id[n] <= id[Len(id)]
  <2>1. CASE id \in DOMAIN cal.series
    BY <2>1 DEF CleanStep, Labelled
  <2>2. CASE Rests(id) /\ id[2] \in Int
    BY <2>2 DEF Rests
  <2>3. CASE id \notin DOMAIN cal.series /\ stage = "creating" /\ id = Target
    <3>1. PICK L \in Nat : /\ L = Len(call.id) /\ L >= 1 /\ Len(id) = L + 1 /\ id[L + 1] = call.at
                           /\ \A m \in 1..L : id[m] = call.id[m]
      BY <2>3, CreatingIs
    <3>2. id[1] # "rest" /\ call.at \in Int
      BY <2>3, CreatingIs
    <3>3. ASSUME NEW n \in 2..L PROVE id[n] \in Int /\ id[n] <= call.at
      <4>1. call.id[n] \in Int /\ call.id[n] <= call.id[L] /\ call.id[L] \in Int
        <5>1. n \in 2..Len(call.id) /\ L \in 2..Len(call.id)
          BY <3>1
        <5> QED
          BY <2>3, <3>1, <5>1, CreatingIs DEF CleanStep, Labelled
      <4>2. call.id[L] = cal.series[call.id].start
        <5>1. IsNamed(call.id, cal.series[call.id])
          BY <2>3, CreatingIs DEF CleanStep, SlotsOf
        <5>2. L > 1
          BY <3>3
        <5> QED
          BY <3>1, <5>1, <5>2 DEF IsNamed
      <4>3. cal.series[call.id].start < call.at
        BY <2>3 DEF CleanStep, ToldStep, Told, CallTold, ReadTold
      <4>4. id[n] = call.id[n]
        BY <3>1
      <4> QED
        BY <3>2, <4>1, <4>2, <4>3, <4>4
    <3>4. ASSUME NEW n \in 2..L + 1 PROVE id[n] \in Int /\ id[n] <= call.at
      BY <3>1, <3>2, <3>3
    <3> QED
      BY <3>1, <3>2, <3>4
  <2> QED
    BY <2>1, <2>2, <2>3, NewOnesAre
<1> QED
  BY <1>1 DEF Labelled

LEMMA CreateWaits ==
    ASSUME ToldStep, stage = "creating", stage' = "creating"
    PROVE  call' = call
<1>1. CASE EditElsewhere \/ SyncSeries \/ StopSeries \/ UNCHANGED seriesVars
  BY <1>1, Waits
<1>2. CASE CreateCopy
  BY <1>2 DEF CreateCopy, GoesTo, CallEnds, ToEnd
<1> QED
  BY <1>1, <1>2 DEF ToldStep, SeriesNext, AskSeries, AskRenewal, RenewNext, ReadToSplit, CountInstances, ReviveCopy,
     EndSeries, ReadAgainToEnd, ImportRest, CancelRest, VerifyEnded, UndoCopy, PatchSeries, ReadAgainToPatch, CancelWhole

\* What's read to be copied ends as the series does.
LEMMA ReadEnds ==
    ASSUME CleanStep, ~Asks3, stage' \in {"counting", "creating"}
    PROVE  \/ stage \in {"counting", "creating"} /\ call'.read = call.read
           \/ call'.read = cal.series[call.id]
<1>1. stage \in {"reading", "counting", "creating"}
  BY EachMoves DEF CleanStep, ToldStep, CallMoves, StageMoves
<1>2. CASE stage = "reading"
  BY <1>2, ReadGoes DEF CleanStep
<1>3. CASE stage = "counting"
  BY <1>3, CountGoes DEF CleanStep
<1>4. CASE stage = "creating"
  <2>1. stage' = "creating"
    BY <1>4, EachMoves DEF CleanStep, ToldStep, CallMoves, StageMoves
  <2> QED
    BY <1>4, <2>1, CreateWaits DEF CleanStep
<1> QED
  BY <1>1, <1>2, <1>3, <1>4

\* Two that were there stay apart, or are once the second's split off.
LEMMA ApartStays ==
    ASSUME CleanStep, ~Asks3, NEW i \in DOMAIN cal.series, NEW j \in DOMAIN cal.series, NEW n \in 2..Len(j),
           i[1] # "rest", Precedes(i, j, n), ~BeingSplit(i, j)'
    PROVE  Apart(i, j[n])'
<1> DEFINE b == j[n]
<1>0. b \in Int /\ ~Rests(i)
  BY DEF CleanStep, Labelled, Rests
<1>1. CallMoves /\ SameAsk /\ StageMoves /\ Target' = Target
  BY EachMoves DEF CleanStep, ToldStep, CallMoves, SameAsk, Target
<1>2. CASE BeingSplit(i, j)
  <2>1. stage \in Copied /\ call.do # "delete" /\ i = call.id /\ j = Target
    BY <1>2 DEF BeingSplit, CleanStep, Fine
  <2>2. stage' \notin Copied \cup {"undoing"}
    BY <1>1, <2>1 DEF BeingSplit, SameAsk
  <2>3. stage' \notin Splits /\ stage' \notin {"counting", "creating"}
    BY <1>1, <2>1, <2>2 DEF StageMoves, Copied, Splits, Splitting
  <2>4. b = call.at
    <3>1. n = Len(call.id) + 1 /\ Target[Len(call.id) + 1] = call.at
      <4>1. /\ call.id \in Seq(Labels) /\ Len(call.id) >= 1 /\ call.at \in Labels /\ call.at \in Int
            /\ \A m \in 2..Len(call.id) : call.id[m] \in Int
        BY <2>1, CleanInts DEF CleanStep, Labelled, Copied, Splits, Splitting
      <4>2. PICK L \in Nat : L = Len(call.id)
        BY <4>1
      <4>3. Len(Target) = L + 1 /\ Target[L + 1] = call.at /\ \A m \in 1..L : Target[m] = call.id[m]
        BY <4>1, <4>2, CopyIs DEF Target
      <4>4. n <= L => FALSE
        <5> SUFFICES ASSUME n <= L PROVE FALSE
          OBVIOUS
        <5>1. call.id[n] < Target[n]
          BY <2>1, <4>2 DEF Precedes
        <5>2. n \in 2..L
          BY <2>1, <4>3
        <5> QED
          BY <4>1, <4>2, <4>3, <5>1, <5>2
      <4>5. n \in 2..L + 1
        BY <2>1, <4>3
      <4> QED
        BY <4>2, <4>3, <4>4, <4>5
    <3> QED
      BY <2>1, <3>1
  <2> QED
    BY <1>1, <2>1, <2>2, <2>3, <2>4, LeavesApart DEF Apart
<1>3. CASE ~BeingSplit(i, j)
  <2>1. Apart(i, b)
    BY <1>3 DEF CleanStep, AllApart
  <2> HIDE DEF b
  <2>2. cal'.series[i].until < b
    <3>1. \/ cal'.series[i].until <= cal.series[i].until
          \/ stage = "ending" /\ i = call.id /\ cal'.series[i].until = call.at - 1
      BY <1>0 DEF CleanStep, Falls
    <3>2. cal.series[i].until \in Int /\ cal'.series[i].until \in Int /\ (stage = "ending" => call.at \in Int)
      BY CleanInts DEF CleanStep, Falls, Splits, Splitting
    <3>3. stage = "ending" => stage \in Splits
      BY DEF Splits, Splitting
    <3> QED
      BY <1>0, <2>1, <3>1, <3>2, <3>3 DEF Apart
  <2>3. i \in DOMAIN heldCal'.series => heldCal'.series[i].until < b
    BY <2>1, <2>2, HeldEach DEF CleanStep, ToldStep, Apart
  <2>4. stage' \in Splits /\ i = call'.id => call'.at < b
    <3> SUFFICES ASSUME stage' \in Splits, i = call'.id PROVE call'.at < b
      OBVIOUS
    <3>1. stage \in Splits
      BY <1>1 DEF StageMoves, Splits, Splitting
    <3> QED
      BY <1>1, <2>1, <3>1 DEF Apart, SameAsk
  <2>5. stage' \in {"counting", "creating"} /\ i = call'.id => call'.read.until < b
    <3> SUFFICES ASSUME stage' \in {"counting", "creating"}, i = call'.id PROVE call'.read.until < b
      OBVIOUS
    <3>1. \/ stage \in {"counting", "creating"} /\ call'.read = call.read
          \/ call'.read = cal.series[call.id]
      BY ReadEnds
    <3> QED
      BY <1>1, <2>1, <3>1 DEF Apart, SameAsk
  <2> QED
    BY <2>2, <2>3, <2>4, <2>5 DEF Apart, b
<1> QED
  BY <1>2, <1>3

\* A copy that's made is apart from all but what it's a copy of, which is then
\* to end before it.
LEMMA CopyApart ==
    ASSUME CleanStep, stage = "creating", Creates, NEW j \in DOMAIN cal.series, NEW n \in 2..Len(j), Precedes(Target, j, n)
    PROVE  Apart(Target, j[n])'
<1>1. /\ call.at \in Int /\ call.at \in Labels /\ call.id \in DOMAIN cal.series /\ call.id[1] # "rest"
      /\ call.id \in Seq(Labels) /\ Len(call.id) >= 1 /\ Target \notin DOMAIN cal.series /\ j \in Seq(Labels)
  BY CreatingIs, CleanInts
<1>2. ASSUME NEW m \in 2..Len(j), Precedes(call.id, j, m)
      PROVE  call.at < j[m] /\ call.read.until < j[m]
  <2>1. ~BeingSplit(call.id, j)
    BY DEF BeingSplit, Copied
  <2>2. Apart(call.id, j[m])
    BY <1>1, <1>2, <2>1 DEF CleanStep, AllApart
  <2> QED
    BY <2>2 DEF Apart, Splits, Splitting
<1>3. Precedes(call.id, j, n)
  <2>1. \/ Precedes(call.id, j, n)
        \/ Len(call.id) + 1 \in 2..Len(j) /\ Precedes(call.id, j, Len(call.id) + 1) /\ j[Len(call.id) + 1] = call.at
    BY <1>1, CopyPrecedes DEF Target
  <2> QED
    BY <1>1, <1>2, <2>1
<1>4. cal'.series[Target].until < j[n]
  BY <1>2, <1>3 DEF Creates
<1>5. ASSUME Target \in DOMAIN heldCal'.series PROVE heldCal'.series[Target].until < j[n]
  <2>1. Target \notin DOMAIN heldCal.series
    BY <1>1, CleanInts
  <2>2. heldCal'.series[Target] = cal'.series[Target]
    <3>1. PICK k : k = Target
      OBVIOUS
    <3>2. heldCal'.series[k] = cal'.series[k]
      BY <1>5, <2>1, <3>1, HeldEach DEF CleanStep, ToldStep
    <3> QED
      BY <3>1, <3>2
  <2> QED
    BY <1>4, <2>2
<1>6. Target # call'.id
  BY <1>1, CreatedGoes
<1>7. Target' = Target
  BY CreatedGoes DEF Target
<1> QED
  BY <1>4, <1>5, <1>6, <1>7 DEF Apart

LEMMA ApartFromCopy ==
    ASSUME CleanStep, stage = "creating", Creates, NEW i \in DOMAIN cal.series, NEW n \in 2..Len(Target), i[1] # "rest",
           Precedes(i, Target, n), i # call.id
    PROVE  \E b : b = Target[n] /\ Apart(i, b)'
<1>1. /\ call.at \in Int /\ call.at \in Labels /\ call.id \in DOMAIN cal.series /\ call.id[1] # "rest"
      /\ call.id \in Seq(Labels) /\ Len(call.id) >= 1 /\ i \in Seq(Labels)
  BY CreatingIs, CleanInts
<1>2. \A j \in DOMAIN cal.series : ~BeingSplit(i, j) /\ ~BeingSplit(call.id, j)
  BY DEF BeingSplit, Copied
<1>3. \/ n \in 2..Len(call.id) /\ Precedes(i, call.id, n) /\ Target[n] = call.id[n]
      \/ i = call.id
      \/ n \in 2..Len(i) /\ Precedes(call.id, i, n) /\ i[n] < call.at
  BY <1>1, CopyPreceded DEF Target
<1>4. CASE n \in 2..Len(i) /\ Precedes(call.id, i, n) /\ i[n] < call.at
  <2>1. Apart(call.id, i[n])
    BY <1>1, <1>2, <1>4 DEF CleanStep, AllApart
  <2>2. call.at < i[n] /\ i[n] \in Int
    BY <1>4, <2>1 DEF Apart, Splits, Splitting, CleanStep, Labelled
  <2> QED
    BY <1>1, <1>4, <2>2
<1>5. CASE n \in 2..Len(call.id) /\ Precedes(i, call.id, n) /\ Target[n] = call.id[n]
  <2>1. PICK b : b = call.id[n]
    OBVIOUS
  <2>2. Apart(i, b)
    BY <1>1, <1>2, <1>5, <2>1 DEF CleanStep, AllApart
  <2>3. cal'.series[i].until < b
    BY <2>2 DEF Creates, Apart
  <2>4. i \in DOMAIN heldCal'.series => heldCal'.series[i].until < b
    BY <2>2, <2>3, HeldEach DEF CleanStep, ToldStep, Apart
  <2>5. i # call'.id
    BY CreatedGoes
  <2>6. Apart(i, b)'
    BY <2>3, <2>4, <2>5 DEF Apart
  <2> QED
    BY <1>5, <2>1, <2>6
<1> QED
  BY <1>3, <1>4, <1>5

LEMMA NotItself ==
    ASSUME NEW i, NEW n \in 2..Len(i), Precedes(i, i, n), i[n] \in Int, Len(i) \in Nat
    PROVE  FALSE
<1>1. n <= Len(i)
  OBVIOUS
<1> QED
  BY <1>1 DEF Precedes

LEMMA AllApartKept ==
    ASSUME CleanStep, ~Asks3
    PROVE  AllApart'
<1>0. Labelled'
  BY LabelledKept
<1>1. ASSUME NEW i \in DOMAIN cal'.series, NEW j \in DOMAIN cal'.series, NEW n \in 2..Len(j),
             i[1] # "rest", Precedes(i, j, n), ~BeingSplit(i, j)'
      PROVE  Apart(i, j[n])'
  <2>1. j[1] # "rest" /\ Len(i) \in Nat /\ Len(j) \in Nat /\ j[n] \in Int
    <3>1. Len(i) \in Nat /\ Len(j) \in Nat /\ i[1] = j[1]
      <4>1. Len(i) \in Nat /\ Len(j) \in Nat
        BY CleanInts
      <4>2. 1 \in 1..n - 1
        BY <4>1
      <4> QED
        BY <1>1, <4>1, <4>2 DEF Precedes
    <3> QED
      BY <1>0, <1>1, <3>1 DEF Labelled
  <2>2. CASE i \in DOMAIN cal.series /\ j \in DOMAIN cal.series
    BY <1>1, <2>2, ApartStays
  <2>3. CASE ~(i \in DOMAIN cal.series /\ j \in DOMAIN cal.series)
    <3>1. stage = "creating" /\ Creates /\ (i = Target \/ i \in DOMAIN cal.series) /\ (j = Target \/ j \in DOMAIN cal.series)
      BY <1>1, <2>1, <2>3, NewOnesAre
    <3>2. CASE i = Target /\ j = Target
      BY <1>1, <2>1, <3>2, NotItself
    <3>3. CASE i = Target /\ j \in DOMAIN cal.series
      <4>1. PICK k, b : k = Target /\ b = j[n]
        OBVIOUS
      <4>2. Target' = Target
        BY <3>1, CreatedGoes DEF Target
      <4>3. Apart(Target, j[n])'
        BY <1>1, <3>1, <3>3, CopyApart
      <4> QED
        BY <3>3, <4>2, <4>3
    <3>4. CASE i \in DOMAIN cal.series /\ j = Target
      <4>1. i # call.id
        <5>1. /\ stage' \in {"importing", "ending"} /\ call'.id = call.id /\ call'.at = call.at /\ call'.do = call.do
              /\ call.do # "delete"
          BY <3>1, CreatedGoes
        <5>2. Target' = Target
          BY <5>1 DEF Target
        <5> QED
          BY <1>1, <3>4, <5>1, <5>2 DEF BeingSplit, Copied
      <4>2. \E b : b = Target[n] /\ Apart(i, b)'
        BY <1>1, <3>1, <3>4, <4>1, ApartFromCopy
      <4> QED
        BY <3>4, <4>2
    <3> QED
      BY <2>3, <3>1, <3>2, <3>3, <3>4
  <2> QED
    BY <2>2, <2>3
<1> QED
  BY <1>1 DEF AllApart

\* What's asked of a series is at an event it has, so none split off it is there
\* before.
LEMMA AskedApart ==
    ASSUME CleanStep, Asks3
    PROVE  AllApart'
<1>0. cal' = cal /\ heldCal' = heldCal /\ stage \in Idle /\ SeriesInv /\ SlotsInv
  BY AsksWell DEF CleanStep, ToldStep
<1>1. ASSUME NEW i \in DOMAIN cal.series, NEW j \in DOMAIN cal.series, NEW n \in 2..Len(j), i[1] # "rest", Precedes(i, j, n)
      PROVE  /\ cal.series[i].until < j[n] /\ j[n] \in Int
             /\ i \in DOMAIN heldCal.series => heldCal.series[i].until < j[n]
  <2>1. ~BeingSplit(i, j)
    BY <1>0 DEF BeingSplit, Copied, Idle
  <2>2. Apart(i, j[n])
    BY <1>1, <2>1 DEF CleanStep, AllApart
  <2> QED
    BY <2>2 DEF Apart, CleanStep, Labelled
<1>2. stage' \in Splits =>
         \/ call'.id \in DOMAIN heldCal.series /\ call'.at <= heldCal.series[call'.id].until /\ call'.at \in Int
         \/ call'.id \in DOMAIN cal.series /\ call'.at <= cal.series[call'.id].until /\ call'.at \in Int
  <2> SUFFICES ASSUME stage' \in Splits
               PROVE  \/ call'.id \in DOMAIN heldCal.series /\ call'.at <= heldCal.series[call'.id].until /\ call'.at \in Int
                      \/ call'.id \in DOMAIN cal.series /\ call'.at <= cal.series[call'.id].until /\ call'.at \in Int
    OBVIOUS
  <2>1. CASE AskSeries
    <3>1. AskGoes
      BY <1>0, <2>1, AskGoesSo
    <3>2. call'.id \in DOMAIN heldCal.series /\ call'.at \in Listed(heldCal, call'.id)
      BY <3>1 DEF AskGoes, Splits, Splitting
    <3>3. IsTimed(heldCal.series[call'.id])
      BY <1>0, <3>2 DEF SlotsInv
    <3>4. call'.at \in Expanded(heldCal.series[call'.id])
      BY <3>2 DEF Listed
    <3>5. call'.at \in 1..LastSlot /\ call'.at <= heldCal.series[call'.id].until
      BY <3>3, <3>4, ExpandedIs
    <3> QED
      BY <3>2, <3>5, SlotsAssumption
  <2>2. CASE AskRenewal
    BY <2>2, RenewalGoesSo DEF Splits, Splitting
  <2>3. CASE RenewNext
    <3>1. RenewGoes
      BY <1>0, <2>3, RenewGoesSo
    <3>2. call'.id \in DOMAIN cal.series /\ call'.at \in Listed(cal, call'.id)
      BY <3>1 DEF RenewGoes, Splits, Splitting
    <3>3. IsTimed(cal.series[call'.id])
      BY <1>0, <3>2 DEF SlotsInv, SlotsOf
    <3>4. call'.at \in Expanded(cal.series[call'.id])
      BY <3>2 DEF Listed
    <3>5. call'.at \in 1..LastSlot /\ call'.at <= cal.series[call'.id].until
      BY <3>3, <3>4, ExpandedIs
    <3> QED
      BY <3>2, <3>5, SlotsAssumption
  <2> QED
    BY <2>1, <2>2, <2>3 DEF Asks3
<1>3. stage' \notin {"counting", "creating"}
  <2>1. CASE AskSeries
    BY <1>0, <2>1, AskGoesSo DEF AskGoes
  <2>2. CASE AskRenewal
    BY <2>2, RenewalGoesSo
  <2>3. CASE RenewNext
    BY <1>0, <2>3, RenewGoesSo DEF RenewGoes
  <2> QED
    BY <2>1, <2>2, <2>3 DEF Asks3
<1>4. ASSUME NEW i \in DOMAIN cal.series, NEW j \in DOMAIN cal.series, NEW n \in 2..Len(j), i[1] # "rest", Precedes(i, j, n)
      PROVE  Apart(i, j[n])'
  <2>1. stage' \in Splits /\ i = call'.id => call'.at < j[n]
    <3>1. (\A m \in {cal.series[i].until, j[n]} : m \in Int) /\ (i \in DOMAIN heldCal.series => heldCal.series[i].until \in Int)
      BY <1>1, <1>4, CleanInts
    <3> QED
      BY <1>1, <1>2, <1>4, <3>1
  <2> QED
    BY <1>0, <1>1, <1>3, <1>4, <2>1 DEF Apart
<1> QED
  BY <1>0, <1>4 DEF AllApart

LEMMA FineKept ==
    ASSUME SeriesInv, SlotsInv, ToldInv, CleanInv, [SeriesNext]_seriesVars, Fine'
    PROVE  (Labelled /\ AllApart)'
<1>1. Fine /\ ~untold /\ ~untold' /\ mishaps = 0
  BY FineBefore DEF CleanInv
<1>2. CleanStep
  BY <1>1, CalSlotsKept, FallsAlways DEF CleanInv, CleanStep, ToldStep, ToldInv, SlotsInv, Fine
<1> QED
  BY <1>2, LabelledKept, AllApartKept, AskedApart

\* A split that failed cancels its copy.
LEMMA UndoneGoes ==
    ASSUME SeriesInv, SlotsInv, [SeriesNext]_seriesVars, stage = "undoing", stage' # "undoing", reply' = "unsplit"
    PROVE  Target \in DOMAIN cal.series /\ ~Confirmed(cal'.series[Target])
<1>1. UndoCopy
  BY DEF SeriesNext, seriesVars, AskSeries, AskRenewal, RenewNext, ReadToSplit, CountInstances, CreateCopy, ReviveCopy,
     EndSeries, ReadAgainToEnd, ImportRest, CancelRest, VerifyEnded, PatchSeries, ReadAgainToPatch, CancelWhole, StopSeries,
     EditElsewhere, SyncSeries
<1>2. Answered(call.target, [cal.series[call.target] EXCEPT !.status = "cancelled"])
  BY <1>1 DEF UndoCopy, CallEnds
<1>3. cal' = Put(cal, call.target, [cal.series[call.target] EXCEPT !.status = "cancelled"])
  BY <1>2, AnsweredIs
<1>4. Rewrites(call.target, "cancelled")
  BY <1>3, SeriesThere, StatusRewritten
<1>5. call.target = Target
  BY DEF SlotsInv, CallSlots, Splits, Splitting, Copied
<1> QED
  BY <1>4, <1>5 DEF Rewrites, Confirmed

LEMMA UndoneKept ==
    ASSUME SeriesInv, SlotsInv, ToldInv, CleanInv, [SeriesNext]_seriesVars, Undone'
    PROVE  (Labelled /\ ApartButOne)'
<1>1. ~Asks3 /\ (Undone \/ (Fine /\ stage' = "undoing" /\ stage \notin Idle)) /\ Labelled
  BY UndoneBefore DEF CleanInv
<1>2. CallMoves /\ SameAsk /\ StageMoves /\ Falls /\ Target' = Target /\ Rest(call'.at) = Rest(call.at) /\ SlotsOf(cal) /\ SlotsOf(cal')
  BY <1>1, EachMoves, FallsAlways, CalSlotsKept DEF CallMoves, SameAsk, Target, SlotsInv
<1>3. stage \notin {"creating", "reviving"}
  BY <1>1, <1>2 DEF StageMoves, Undone, Idle
<1>4. ASSUME NEW id \in DOMAIN cal'.series, id \notin DOMAIN cal.series
      PROVE  stage = "importing" /\ id = Rest(call.at) /\ Rests(id) /\ id[1] = "rest" /\ id[2] \in Int
  <2>1. stage = "importing" /\ id = Rest(call.at)
    BY <1>2, <1>3, <1>4 DEF Falls
  <2>2. call.at \in Int
    BY <2>1, SlotsAssumption DEF SlotsInv, CallSlots, Splits, Splitting
  <2> QED
    BY <2>1, <2>2, RestIs DEF Rests
<1>5. Labelled'
  <2> SUFFICES ASSUME NEW id \in DOMAIN cal'.series
               PROVE  (id[1] = "rest" => Rests(id)) /\ \A n \in 2..Len(id) : id[n] \in Int /\ id[n] <= id[Len(id)]
    BY DEF Labelled
  <2>1. CASE id \in DOMAIN cal.series
    BY <1>1, <2>1 DEF Labelled
  <2>2. CASE id \notin DOMAIN cal.series
    BY <1>4, <2>2 DEF Rests
  <2> QED
    BY <2>1, <2>2
<1>6. ASSUME NEW i \in DOMAIN cal'.series, NEW j \in DOMAIN cal'.series, NEW n \in 2..Len(j), i[1] # "rest", Precedes(i, j, n)
      PROVE  cal'.series[i].until < j[n] \/ (i = call.id /\ j = Target)
  <2>0. Len(i) \in Nat /\ Len(j) \in Nat /\ IsTimed(cal'.series[i])
    BY <1>2 DEF SlotsOf, IsNamed
  <2>1. i[1] = j[1]
    <3>1. 1 \in 1..n - 1
      BY <2>0
    <3> QED
      BY <1>6, <3>1 DEF Precedes
  <2>2. i \in DOMAIN cal.series /\ j \in DOMAIN cal.series
    BY <1>4, <1>6, <2>1
  <2>3. IsTimed(cal.series[i]) /\ ~Rests(i) /\ j[n] \in Int
    BY <1>1, <1>2, <1>6, <2>2 DEF SlotsOf, Rests, Labelled
  <2>4. \/ cal'.series[i].until <= cal.series[i].until
        \/ stage = "ending" /\ i = call.id /\ cal'.series[i].until = call.at - 1
    BY <1>2, <2>2, <2>3 DEF Falls
  <2>5. CASE Undone
    <3>1. cal.series[i].until < j[n] \/ (i = call.id /\ j = Target)
      BY <1>6, <2>2, <2>5 DEF CleanInv, ApartButOne
    <3>2. stage # "ending"
      BY <2>5 DEF Undone
    <3> QED
      BY <2>0, <2>3, <2>4, <3>1, <3>2 DEF IsTimed
  <2>6. CASE Fine
    <3>1. Apart(i, j[n]) \/ (i = call.id /\ j = Target)
      BY <1>6, <2>2, <2>6 DEF CleanInv, AllApart, BeingSplit
    <3>2. stage = "ending" => stage \in Splits /\ call.at \in Int
      BY SlotsAssumption DEF SlotsInv, CallSlots, Splits, Splitting
    <3> QED
      BY <2>0, <2>3, <2>4, <3>1, <3>2 DEF IsTimed, Apart
  <2> QED
    BY <1>1, <2>5, <2>6
<1>7. ASSUME NEW id \in DOMAIN cal'.series, Rests(id), Confirmed(cal'.series[id]) PROVE id = Rest(call.at)
  <2>1. CASE id \notin DOMAIN cal.series
    BY <1>4, <2>1
  <2>2. CASE id \in DOMAIN cal.series
    <3>1. Confirmed(cal.series[id]) \/ id = Rest(call.at)
      BY <1>2, <1>3, <1>7, <2>2 DEF Falls
    <3>2. CASE Undone
      BY <1>7, <2>2, <3>1, <3>2 DEF CleanInv, ApartButOne
    <3>3. CASE Fine
      <4>1. Told
        BY <3>3 DEF Fine, CleanInv, WrongShows, ToldInv
      <4> QED
        BY <1>7, <2>2, <3>1, <4>1 DEF Told, IdsTold
    <3> QED
      BY <1>1, <3>2, <3>3
  <2> QED
    BY <2>1, <2>2
<1>8. stage' # "undoing" /\ Target \in DOMAIN cal'.series => ~Confirmed(cal'.series[Target])
  <2> SUFFICES ASSUME stage' # "undoing", Target \in DOMAIN cal'.series, Confirmed(cal'.series[Target]) PROVE FALSE
    OBVIOUS
  <2>1. Undone
    BY <1>1
  <2>2. CASE stage = "undoing"
    BY <2>2, UndoneGoes DEF Undone
  <2>3. CASE stage # "undoing"
    <3>1. stage # "importing"
      BY <2>1, <2>3 DEF Undone
    <3>2. Target \in DOMAIN cal.series
      BY <1>4, <3>1
    <3>3. Confirmed(cal.series[Target])
      BY <1>2, <1>3, <3>1, <3>2 DEF Falls
    <3> QED
      BY <2>1, <2>3, <3>2, <3>3 DEF CleanInv, ApartButOne
  <2> QED
    BY <2>2, <2>3
<1> QED
  BY <1>2, <1>5, <1>6, <1>7, <1>8 DEF ApartButOne, SameAsk

----------------------------------------------------------------------------
(* So none is there twice *)

\* At first there's nothing split off anything.
LEMMA CleanAtFirst ==
    ASSUME SeriesInit
    PROVE  CleanInv
<1>1. cal \in FirstSeries /\ call = NewCall /\ stage = "none" /\ reply = "none" /\ mishaps = 0 /\ untold = FALSE
  BY DEF SeriesInit
<1>2. WrongShows
  BY <1>1 DEF WrongShows, NewCall
<1>3. \A id \in DOMAIN cal.series : Len(id) = 1 /\ id[1] # "rest"
  BY <1>1, FirstSeriesAssumption
<1>4. ASSUME NEW id \in DOMAIN cal.series, NEW n \in 2..Len(id) PROVE FALSE
  <2>1. PICK L : L = Len(id)
    OBVIOUS
  <2>2. L = 1 /\ n \in 2..L
    BY <1>3, <2>1
  <2> QED
    BY <2>2
<1>5. Labelled
  BY <1>3, <1>4 DEF Labelled
<1>6. AllApart
  BY <1>4 DEF AllApart
<1>7. ~Undone
  BY <1>1 DEF Undone
<1> QED
  BY <1>2, <1>5, <1>6, <1>7 DEF CleanInv

\* While every call goes well, a series ends before what was split off it
\* begins, and no call is about to end it later or to copy it with a later end
\* (split, delete_from, renew: ended once its copy's there; the copy is of the
\* series as read, before that ended it).
THEOREM CleanInvariant == SeriesSpec => []CleanInv
<1>1. SeriesInit => CleanInv
  BY CleanAtFirst
<1>2. SeriesInv /\ SlotsInv /\ ToldInv /\ CleanInv /\ [SeriesNext]_seriesVars => CleanInv'
  <2> SUFFICES ASSUME SeriesInv, SlotsInv, ToldInv, CleanInv, [SeriesNext]_seriesVars PROVE CleanInv'
    OBVIOUS
  <2>1. WrongShows'
    BY WrongShowsKept DEF CleanInv
  <2>2. Fine' => (Labelled /\ AllApart)'
    BY FineKept
  <2>3. Undone' => (Labelled /\ ApartButOne)'
    BY UndoneKept
  <2> QED
    BY <2>1, <2>2, <2>3 DEF CleanInv
<1> QED
  BY <1>1, <1>2, SeriesInvariant, SlotsInvariant, ToldInvariant, PTL DEF SeriesSpec

\* A series that ended before another was split off has no event there.
LEMMA Follows ==
    ASSUME SlotsOf(cal), Labelled, NEW i \in DOMAIN cal.series, NEW j \in DOMAIN cal.series,
           NEW n \in 2..Len(j), cal.series[i].until < j[n], NEW t \in Listed(cal, i), t \in Listed(cal, j)
    PROVE  FALSE
<1>1. /\ IsTimed(cal.series[i]) /\ IsTimed(cal.series[j]) /\ IsNamed(j, cal.series[j])
      /\ t \in Expanded(cal.series[i]) /\ t \in Expanded(cal.series[j])
  BY DEF SlotsOf, Listed
<1>2. t <= cal.series[i].until
  BY <1>1, ExpandedIs
<1>3. cal.series[j].start <= t /\ t \in Int
  BY <1>1, ExpandedIs, SlotsAssumption
<1>4. PICK L : L = Len(j)
  OBVIOUS
<1>5. L \in Nat /\ n \in 2..L /\ cal.series[j].start = j[L]
  BY <1>1, <1>4 DEF IsNamed
<1>6. j[n] \in Int /\ j[n] <= j[L]
  BY <1>4 DEF Labelled
<1>7. cal.series[i].until \in Int /\ cal.series[j].start \in Int
  BY <1>1, SlotsAssumption DEF IsTimed
<1> QED
  BY <1>2, <1>3, <1>5, <1>6, <1>7

\* Of two that share an event, one's left of a series Google split, or one
\* precedes the other.
LEMMA KinAre ==
    ASSUME SlotsOf(cal), Labelled, NEW i \in DOMAIN cal.series, NEW j \in DOMAIN cal.series, i # j, Akin(i, j)
    PROVE  \/ i[1] = "rest" /\ Rests(i)
           \/ j[1] = "rest" /\ Rests(j)
           \/ i[1] # "rest" /\ j[1] # "rest" /\ ((\E n \in 2..Len(j) : Precedes(i, j, n)) \/ (\E n \in 2..Len(i) : Precedes(j, i, n)))
<1>1. i \in Seq(Labels) /\ j \in Seq(Labels) /\ Len(i) >= 1 /\ Len(j) >= 1
  BY DEF SlotsOf, IsNamed
<1>2. (\A n \in 2..Len(i) : i[n] \in Int) /\ \A n \in 2..Len(j) : j[n] \in Int
  BY DEF Labelled
<1>3. CASE i[1] = "rest" \/ j[1] = "rest"
  BY <1>3 DEF Labelled
<1>4. CASE i[1] # "rest" /\ j[1] # "rest"
  <2>1. i[1] = j[1]
    BY <1>4 DEF Akin
  <2> QED
    BY <1>1, <1>2, <1>4, <2>1, OnePrecedes
<1> QED
  BY <1>3, <1>4

LEMMA NoneDone ==
    ASSUME SlotsInv, ToldInv, CleanInv, stage = "none", reply \in {"done", "refused"}, call.clean
    PROVE  DoubledIn(cal) = {}
<1>1. mishaps = 0 /\ Fine
  BY DEF CleanInv, WrongShows, Fine
<1>2. Told /\ Labelled /\ AllApart /\ SlotsOf(cal)
  BY <1>1 DEF CleanInv, WrongShows, ToldInv, SlotsInv
<1> SUFFICES ASSUME NEW i \in DOMAIN cal.series, NEW j \in DOMAIN cal.series, i # j, Akin(i, j),
                    NEW t \in Listed(cal, i), t \in Listed(cal, j)
             PROVE  FALSE
  BY DEF DoubledIn
<1>3. Confirmed(cal.series[i]) /\ Confirmed(cal.series[j])
  BY DEF Listed
<1>4. ~Rests(i) /\ ~Rests(j)
  BY <1>2, <1>3 DEF Told, IdsTold
<1>5. \A p, q : ~BeingSplit(p, q)
  BY DEF BeingSplit, Copied
<1>6. /\ \A n \in 2..Len(j) : Precedes(i, j, n) /\ i[1] # "rest" => cal.series[i].until < j[n]
      /\ \A n \in 2..Len(i) : Precedes(j, i, n) /\ j[1] # "rest" => cal.series[j].until < i[n]
  BY <1>2, <1>5 DEF AllApart, Apart
<1> QED
  BY <1>2, <1>4, <1>6, KinAre, Follows

LEMMA NoneUnsplit ==
    ASSUME SlotsInv, CleanInv, stage = "none", reply = "unsplit", call.clean
    PROVE  DoubledIn(cal) \subseteq RestLeft
<1>1. Labelled /\ ApartButOne /\ SlotsOf(cal)
  BY DEF CleanInv, Undone, SlotsInv
<1> SUFFICES ASSUME NEW i \in DOMAIN cal.series, NEW j \in DOMAIN cal.series, i # j, Akin(i, j),
                    NEW t \in Listed(cal, i), t \in Listed(cal, j)
             PROVE  t \in RestLeft
  BY DEF DoubledIn
<1>2. Confirmed(cal.series[i]) /\ Confirmed(cal.series[j])
  BY DEF Listed
<1>3. Rests(i) \/ Rests(j) => t \in RestLeft
  BY <1>1, <1>2 DEF ApartButOne, RestLeft
<1>4. i # Target /\ j # Target
  BY <1>1, <1>2 DEF ApartButOne
<1>5. /\ \A n \in 2..Len(j) : Precedes(i, j, n) /\ i[1] # "rest" => cal.series[i].until < j[n]
      /\ \A n \in 2..Len(i) : Precedes(j, i, n) /\ j[1] # "rest" => cal.series[j].until < i[n]
  BY <1>1, <1>4 DEF ApartButOne
<1> QED
  BY <1>1, <1>3, <1>5, KinAre, Follows

\* No event is there twice once a call's done, nor once one says it didn't
\* split, but what it cut off a series Google split and couldn't cancel (split,
\* renew: the series is ended, or the copy cancelled).
THEOREM NoneIsTwice == SeriesSpec => []NoneTwice
<1>1. SlotsInv /\ ToldInv /\ CleanInv => NoneTwice
  <2> SUFFICES ASSUME SlotsInv, ToldInv, CleanInv, stage = "none", call.clean, reply \in {"done", "refused", "unsplit"}
               PROVE  DoubledIn(cal) \subseteq (IF reply = "unsplit" THEN RestLeft ELSE {})
    BY DEF NoneTwice
  <2>1. CASE reply = "unsplit"
    BY <2>1, NoneUnsplit
  <2>2. CASE reply # "unsplit"
    <3>1. DoubledIn(cal) = {}
      BY <2>2, NoneDone
    <3> QED
      BY <2>2, <3>1
  <2> QED
    BY <2>1, <2>2
<1> QED
  BY <1>1, SlotsInvariant, ToldInvariant, CleanInvariant, PTL

\* Each event wanted is there, at least once ever and once at the end, and a
\* series split has none where what was split off it has one.
THEOREM EachIsThereOnce == SeriesSpec => []EachThereOnce
<1>1. NoneLost /\ PartsApart /\ NoneTwice => EachThereOnce
  BY DEF EachThereOnce
<1> QED
  BY <1>1, NoneIsLost, PartsAreApart, NoneIsTwice, PTL
=============================================================================
