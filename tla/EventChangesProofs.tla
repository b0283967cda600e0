------------------------- MODULE EventChangesProofs -------------------------
(***************************************************************************)
(* What's proved of EventChanges, for any events, batches and edits made   *)
(* elsewhere, and however often a batch is sent, its answer lost, or the   *)
(* call stopped.                                                           *)
(***************************************************************************)
EXTENDS EventChangesProperties, WellFoundedInduction, TLAPS

----------------------------------------------------------------------------
(* The calendar, and what's kept and read of it *)

IsCalendar(c) ==
    /\ c = [events |-> c.events, series |-> c.series, last |-> c.last]
    /\ c.events = [id \in Events |-> c.events[id]]
    /\ \A id \in Events : IsEvent(c.events[id])
    /\ c.series \in Nat /\ c.last \in Nat

\* One the other has been since: what's been written has a later version.
LaterOrSame(e, f) == e = f \/ (f.own /\ e.version < f.version)
Behind(c, d) == c.series <= d.series /\ \A id \in Events : LaterOrSame(c.events[id], d.events[id])

Known == {calendar, keeps, asked.read}
CalendarsOK ==
    /\ \A c \in Known : IsCalendar(c)
    /\ Behind(asked.read, keeps) /\ Behind(keeps, calendar)
    /\ \A id \in Events : calendar.events[id].own => calendar.events[id].status # "absent"
\* A version is given once: an event's is never a series'.
VersionsOnce ==
    /\ 1 <= calendar.last
    /\ \A c \in Known : c.series <= calendar.last /\ \A id \in Events : c.events[id].version <= calendar.last
    /\ \A c, d \in Known : \A id \in Events : c.events[id].own => c.events[id].version # d.series

----------------------------------------------------------------------------
(* The batch, and what's left of it *)

\* A change is of an event the client read.
AskedOfRead ==
    /\ asked.batch \in Batches \cup {<<>>}
    /\ \A k \in DOMAIN asked.batch : asked.batch[k].do # "create" => Live(asked.read.events[asked.batch[k].id])

Writing == step \in {"writing", "again", "recording"}
\* What's still to be written is the batch's, each checked on the event as
\* it was read, and expecting that version of it -- or, written again, the
\* version of an event that's as it was.
LeftOfBatch ==
    /\ todo = [k \in DOMAIN todo |-> todo[k]] /\ DOMAIN todo \subseteq DOMAIN asked.batch
    /\ Writing \/ DOMAIN todo = {}
    /\ step \in {"again", "recording"} => DOMAIN todo # {}
    /\ \A k \in DOMAIN todo :
          LET change == asked.batch[k]
          IN  /\ todo[k].do = change.do /\ todo[k].id = change.id /\ todo[k].set = change.set /\ todo[k].counts = change.counts
              /\ todo[k].on = asked.read.events[change.id] /\ "expected" \in DOMAIN todo[k]
              /\ step = "writing" \/ k # NextPlace => todo[k].do = "create" \/ todo[k].expected = Expected(change.id)
LaterVersion(id) == ChangedSince(id) \/ Wrote(id) \/ (id \in Instances /\ \E other \in Instances : Wrote(other))
AgainOnTheSame == step = "again" =>
    /\ NextChange.do # "create" /\ NextChange.expected \in Nat /\ NextChange.expected <= calendar.last
    /\ Version(calendar, NextChange.id) = NextChange.expected => Same(calendar.events[NextChange.id], NextChange.on)
    /\ LaterVersion(NextChange.id)

----------------------------------------------------------------------------
(* What's been written of it *)

Asks(id) == {k \in DOMAIN asked.batch : asked.batch[k].id = id}
AnyOf(T) == CHOOSE x \in T : TRUE
\* An event as the batch is to leave it.
Final(id) == IF Asks(id) = {} THEN asked.read.events[id]
             ELSE Patched(asked.read.events[id], asked.batch[AnyOf(Asks(id))].set)
\* What has a version the batch's sendings were given is as it's to be left.
WrittenAsAsked ==
    /\ before = [wrote |-> before.wrote, unrecorded |-> before.unrecorded]
    /\ \A w \in before.wrote :
          /\ w[1] \in Events /\ Asks(w[1]) # {} /\ w[2] \in Nat /\ w[2] <= calendar.last
          /\ calendar.series = w[2] => w[1] \in Instances
          /\ \A id \in Events : calendar.events[id].version = w[2] => w[1] = id /\ Same(calendar.events[id], Final(id))

ToBeWritten == IF step = "recording" THEN DOMAIN todo \ {NextPlace} ELSE DOMAIN todo
DoneOrToDo == Writing \/ (step = "none" /\ answer = "made") =>
    \A k \in DOMAIN asked.batch \ ToBeWritten :
        LET change == asked.batch[k]
        IN  Others(change.id) \/ Done(change, calendar.events[change.id])
CancelsRecorded == \A k \in DOMAIN asked.batch :
    LET change == asked.batch[k]
    IN  change.do = "cancel" /\ change.counts /\ Wrote(change.id) =>
            change.id \in recorded \cup before.unrecorded \/ (step = "recording" /\ k = NextPlace)
StaleForAReason == step = "none" /\ answer = "stale" => \A id \in stale : id \in Events /\ LaterVersion(id)

----------------------------------------------------------------------------
(* That it fits *)

FinalCalendar == [events |-> [id \in Events |-> Final(id)]]
Fits == NoneOver(FinalCalendar) /\ HistoryKept(FinalCalendar)
\* Changed elsewhere, and not to be written again by the batch.
Foreign(id) ==
    /\ Others(id)
    /\ \A k \in Asks(id) : asked.batch[k].do # "create" =>
          k \notin DOMAIN todo /\ ~AtExpected(keeps, id) /\ ~AtExpected(calendar, id)
CheckedToFit ==
    before.wrote # {} \/ Writing \/ (step = "none" /\ answer = "made") => Fits \/ \E id \in Events : Foreign(id)

EventsInv ==
    /\ edits \in Nat
    /\ CalendarsOK /\ VersionsOnce /\ AskedOfRead /\ LeftOfBatch /\ AgainOnTheSame
    /\ WrittenAsAsked /\ DoneOrToDo /\ CancelsRecorded /\ StaleForAReason /\ CheckedToFit

----------------------------------------------------------------------------
(* Of events and calendars *)

Fields == {"start", "end", "val", "status"}

\* An event patched is one, each field as it's set or as it was.
LEMMA PatchedIs ==
    ASSUME NEW e, NEW set, IsEvent(e), Sets(set, Fields)
    PROVE  /\ IsEvent(Patched(e, set))
           /\ DOMAIN Patched(e, set) = DOMAIN e
           /\ \A field \in Fields :
                 Patched(e, set)[field] = IF field \in DOMAIN set THEN set[field] ELSE e[field]
           /\ Patched(e, set).own = e.own /\ Patched(e, set).version = e.version
<1> DEFINE f == Patched(e, set)
<1>1. DOMAIN e = {"start", "end", "val", "status", "own", "version"}
  BY DEF IsEvent
<1>2. \A field \in DOMAIN e : f[field] = IF field \in DOMAIN set THEN set[field] ELSE e[field]
  BY DEF Patched
<1>3. f.own = e.own /\ f.version = e.version
  BY <1>1, <1>2 DEF Sets, Fields
<1>4. f = [start |-> f.start, end |-> f.end, val |-> f.val, status |-> f.status, own |-> f.own, version |-> f.version]
  BY <1>1 DEF Patched
<1>5. f.start \in Int /\ f.end \in Int /\ f.status \in {"absent", "confirmed", "cancelled"}
  BY <1>1, <1>2 DEF IsEvent, Sets, Fields
<1>6. f.own \in BOOLEAN /\ f.version \in Nat
  BY <1>3 DEF IsEvent
<1> HIDE DEF f
<1>7. IsEvent(f)
  BY <1>4, <1>5, <1>6 DEF IsEvent
<1> QED
  BY <1>1, <1>2, <1>3, <1>7 DEF f, Patched, Fields

\* Events the same are so patched the same, and patched again.
LEMMA SamePatched ==
    ASSUME NEW e, NEW f, NEW set, IsEvent(e), IsEvent(f), Sets(set, Fields), Same(e, f)
    PROVE  /\ Same(Patched(e, set), Patched(f, set))
           /\ Same(Patched(Patched(e, set), set), Patched(f, set))
<1>1. IsEvent(Patched(e, set))
  BY PatchedIs
<1> QED
  BY <1>1, PatchedIs DEF Same, Fields

\* A calendar one of whose events is written.
LEMMA WrittenIs ==
    ASSUME NEW c, NEW id \in Events, NEW set, IsCalendar(c), Sets(set, Fields)
    PROVE  LET d == Written(c, id, set)
           IN  /\ IsCalendar(d)
               /\ \A other \in Events \ {id} : d.events[other] = c.events[other]
               /\ Same(d.events[id], Patched(c.events[id], set))
               /\ d.events[id].own /\ d.events[id].version = c.last + 1
               /\ d.series = (IF id \in Instances THEN c.last + 2 ELSE c.series)
               /\ d.last = c.last + 2
<1> DEFINE d == Written(c, id, set)
           e == Patched(c.events[id], set)
<1>1. IsEvent(e) /\ DOMAIN e = DOMAIN c.events[id]
  BY PatchedIs DEF IsCalendar
<1>2. c.last \in Nat /\ c.series \in Nat /\ DOMAIN c.events = Events
  BY DEF IsCalendar
<1>3. d.events = [c.events EXCEPT ![id] = [e EXCEPT !.own = TRUE, !.version = c.last + 1]]
  BY DEF Written
<1>4. d.series = (IF id \in Instances THEN c.last + 2 ELSE c.series) /\ d.last = c.last + 2
  BY DEF Written
<1>5. d = [events |-> d.events, series |-> d.series, last |-> d.last]
  BY DEF Written
<1>6. d.events[id] = [e EXCEPT !.own = TRUE, !.version = c.last + 1]
  BY <1>2, <1>3
<1> HIDE DEF e, d
<1>7. /\ IsEvent(d.events[id]) /\ Same(d.events[id], e)
      /\ d.events[id].own /\ d.events[id].version = c.last + 1
  <2> DEFINE f == d.events[id]
  <2>1. DOMAIN e = {"start", "end", "val", "status", "own", "version"}
    BY <1>1 DEF IsEvent
  <2>2. /\ f.start = e.start /\ f.end = e.end /\ f.val = e.val /\ f.status = e.status
        /\ f.own = TRUE /\ f.version = c.last + 1
    BY <1>6, <2>1
  <2>3. f = [start |-> f.start, end |-> f.end, val |-> f.val, status |-> f.status, own |-> f.own, version |-> f.version]
    BY <1>1, <1>6, <2>1
  <2> HIDE DEF f
  <2>4. IsEvent(f)
    <3>1. f.start \in Int /\ f.end \in Int /\ f.status \in {"absent", "confirmed", "cancelled"}
      BY <1>1, <2>2 DEF IsEvent
    <3>2. f.own \in BOOLEAN
      BY <2>2, Zenon
    <3>3. f.version \in Nat
      BY <1>2, <2>2
    <3> QED
      BY <2>3, <3>1, <3>2, <3>3 DEF IsEvent
  <2>5. Same(f, e)
    BY <2>2 DEF Same
  <2> QED
    BY <2>2, <2>4, <2>5 DEF f
<1>8. \A other \in Events \ {id} : d.events[other] = c.events[other]
  BY <1>2, <1>3
<1>9. d.events = [x \in Events |-> d.events[x]]
  BY <1>2, <1>3 DEF IsCalendar
<1>10. \A x \in Events : IsEvent(d.events[x])
  BY <1>7, <1>8 DEF IsCalendar
<1>11. d.series \in Nat /\ d.last \in Nat
  BY <1>2, <1>4
<1> QED
  BY <1>4, <1>5, <1>7, <1>8, <1>9, <1>10, <1>11 DEF IsCalendar, d, e

\* A set of naturals has a least.
LEMMA LeastPlace ==
    ASSUME NEW T, T \subseteq Nat, T # {}
    PROVE  \E k \in T : \A l \in T : k <= l
<1>1. IsWellFoundedOn(OpToRel(<, Nat), Nat)
  BY NatLessThanWellFounded
<1>2. PICK k \in T : \A l \in T : ~(<<l, k>> \in OpToRel(<, Nat))
  BY <1>1, WFMin
<1>3. \A l \in T : ~(l < k)
  BY <1>2 DEF OpToRel
<1> QED
  BY <1>3

----------------------------------------------------------------------------
(* Of the batch, and of versions *)

\* A change of the batch, and that it's the only one of its event.
LEMMA ChangeIs ==
    ASSUME AskedOfRead, NEW k \in DOMAIN asked.batch
    PROVE  LET change == asked.batch[k]
           IN  /\ k \in Nat /\ IsChange(change) /\ change.id \in Events /\ Sets(change.set, Fields)
               /\ \A l \in DOMAIN asked.batch : asked.batch[l].id = change.id => l = k
               /\ Asks(change.id) = {k}
               /\ Final(change.id) = Patched(asked.read.events[change.id], change.set)
<1> DEFINE change == asked.batch[k]
<1>1. asked.batch \in Batches
  BY DEF AskedOfRead
<1>2. k \in Nat /\ IsChange(change)
  BY <1>1, BatchesAssumption
<1>3. \A l \in DOMAIN asked.batch : asked.batch[l].id = change.id => l = k
  BY <1>1, BatchesAssumption
<1>4. change.id \in Events /\ Sets(change.set, Fields)
  BY <1>2 DEF IsChange, Sets, Fields
<1>5. Asks(change.id) = {k}
  BY <1>3 DEF Asks
<1>6. Final(change.id) = Patched(asked.read.events[change.id], change.set)
  BY <1>5 DEF Final, AnyOf
<1> QED
  BY <1>2, <1>3, <1>4, <1>5, <1>6

\* As it is to be left, an event is one.
LEMMA FinalIs ==
    ASSUME CalendarsOK, AskedOfRead, NEW id \in Events
    PROVE  IsEvent(Final(id))
<1>1. IsEvent(asked.read.events[id])
  BY DEF CalendarsOK, Known, IsCalendar
<1>2. CASE Asks(id) = {}
  BY <1>1, <1>2 DEF Final
<1>3. CASE Asks(id) # {}
  <2>1. PICK k \in DOMAIN asked.batch : asked.batch[k].id = id
    BY <1>3 DEF Asks
  <2> QED
    BY <1>1, <2>1, ChangeIs, PatchedIs
<1> QED
  BY <1>2, <1>3

\* What a calendar known has of an event has a version; the one read came first.
LEMMA VersionsAre ==
    ASSUME CalendarsOK, VersionsOnce, NEW c \in Known, NEW id \in Events
    PROVE  /\ c.events[id].version \in Nat /\ c.series \in Nat /\ c.events[id].own \in BOOLEAN
           /\ LaterOrSame(asked.read.events[id], c.events[id]) /\ asked.read.series <= c.series
           /\ LaterOrSame(c.events[id], calendar.events[id]) /\ c.series <= calendar.series
           /\ calendar.last \in Nat /\ c.events[id].version <= calendar.last /\ c.series <= calendar.last
<1>1. \A d \in Known : d.series \in Nat /\ d.last \in Nat /\ IsEvent(d.events[id])
  BY DEF CalendarsOK, IsCalendar
<1>2. \A d \in Known : d.events[id].version \in Nat /\ d.events[id].own \in BOOLEAN
  BY <1>1 DEF IsEvent
<1>3. /\ asked.read \in Known /\ keeps \in Known /\ calendar \in Known
  BY DEF Known
<1>4. LaterOrSame(asked.read.events[id], keeps.events[id]) /\ LaterOrSame(keeps.events[id], calendar.events[id])
  BY DEF CalendarsOK, Behind
<1>5. LaterOrSame(asked.read.events[id], calendar.events[id])
  BY <1>2, <1>3, <1>4 DEF LaterOrSame
<1>6. asked.read.series <= keeps.series /\ keeps.series <= calendar.series
  BY DEF CalendarsOK, Behind
<1>7. /\ LaterOrSame(asked.read.events[id], c.events[id]) /\ LaterOrSame(c.events[id], calendar.events[id])
      /\ asked.read.series <= c.series /\ c.series <= calendar.series
  BY <1>1, <1>3, <1>4, <1>5, <1>6 DEF Known, LaterOrSame
<1>8. calendar.last \in Nat /\ c.events[id].version <= calendar.last /\ c.series <= calendar.last
  BY <1>1, <1>3 DEF VersionsOnce
<1> QED
  BY <1>1, <1>2, <1>7, <1>8

\* An event with the version the client read is as it read it.
LEMMA AsReadAtVersion ==
    ASSUME CalendarsOK, VersionsOnce, NEW c \in Known, NEW id \in Events, Version(c, id) = Expected(id)
    PROVE  c.events[id] = asked.read.events[id]
<1>1. asked.read \in Known
  BY DEF Known
<1>2. CASE c.events[id] # asked.read.events[id]
  <2>1. c.events[id].own /\ asked.read.events[id].version < c.events[id].version
    BY <1>2, VersionsAre DEF LaterOrSame
  <2>2. Version(c, id) = c.events[id].version /\ c.events[id].version # asked.read.series
    BY <1>1, <2>1 DEF Version, VersionsOnce
  <2>3. asked.read.events[id].version \in Nat /\ c.events[id].version \in Nat
    BY <1>1, VersionsAre
  <2> QED
    BY <2>1, <2>2, <2>3 DEF Expected, Version
<1> QED
  BY <1>2

\* What isn't at the version the client read never is again.
LEMMA NeverAgain ==
    ASSUME CalendarsOK, VersionsOnce, NEW c \in Known, NEW d \in Known, NEW id \in Events,
           LaterOrSame(c.events[id], d.events[id]), c.series <= d.series, AtExpected(d, id)
    PROVE  AtExpected(c, id)
<1> DEFINE read == asked.read.events[id]
<1>1. d.events[id] = read
  BY AsReadAtVersion DEF AtExpected
<1>2. /\ c.events[id].version \in Nat /\ d.events[id].version \in Nat
      /\ c.series \in Nat /\ d.series \in Nat /\ asked.read.series <= c.series
      /\ LaterOrSame(read, c.events[id])
  BY VersionsAre
<1>3. c.events[id] = read
  BY <1>1, <1>2 DEF LaterOrSame
<1>4. asked.read.series \in Nat
  BY VersionsAre DEF Known
<1>5. Version(c, id) = Expected(id)
  BY <1>1, <1>2, <1>3, <1>4 DEF AtExpected, Version, Expected
<1> QED
  BY <1>1, <1>3, <1>5 DEF AtExpected

\* An event of the calendar is as it was read, or another's since, or as
\* the batch is to leave it.
LEMMA ReadOrWritten ==
    ASSUME CalendarsOK, VersionsOnce, WrittenAsAsked, NEW id \in Events
    PROVE  \/ calendar.events[id] = asked.read.events[id]
           \/ Others(id)
           \/ Wrote(id) /\ Asks(id) # {} /\ Same(calendar.events[id], Final(id))
<1> DEFINE e == calendar.events[id]
<1>1. CASE e.version = asked.read.events[id].version
  <2>1. asked.read.events[id].version \in Nat /\ LaterOrSame(asked.read.events[id], e)
    BY VersionsAre DEF Known
  <2> QED
    BY <1>1, <2>1 DEF LaterOrSame
<1>2. CASE e.version # asked.read.events[id].version /\ WroteAs(e.version)
  <2>1. PICK w \in before.wrote : w[2] = e.version
    BY <1>2 DEF WroteAs
  <2>2. w[1] = id /\ Same(e, Final(id)) /\ Asks(w[1]) # {}
    BY <2>1 DEF WrittenAsAsked
  <2> QED
    BY <2>2 DEF Wrote
<1>3. CASE e.version # asked.read.events[id].version /\ ~WroteAs(e.version)
  BY <1>3 DEF Others, Moved
<1> QED
  BY <1>1, <1>2, <1>3

\* An event no longer as the client read it has been written: by another,
\* or by the batch -- it, or its series.
LEMMA WhyStale ==
    ASSUME CalendarsOK, VersionsOnce, WrittenAsAsked, NEW id \in Events,
           Live(asked.read.events[id]), ~AtExpected(calendar, id)
    PROVE  LaterVersion(id)
<1>1. CASE calendar.events[id] = asked.read.events[id]
  <2>1. id \in Instances /\ calendar.series # asked.read.series
    BY <1>1 DEF AtExpected, Version, Expected
  <2>2. CASE WroteAs(calendar.series)
    <3>1. PICK w \in before.wrote : w[2] = calendar.series
      BY <2>2 DEF WroteAs
    <3>2. w[1] \in Instances
      BY <3>1 DEF WrittenAsAsked
    <3> QED
      BY <2>1, <3>2 DEF LaterVersion, Wrote
  <2>3. CASE ~WroteAs(calendar.series)
    BY <2>1, <2>3 DEF LaterVersion, ChangedSince, Moved
  <2> QED
    BY <2>2, <2>3
<1>2. CASE Others(id) \/ Wrote(id)
  BY <1>2 DEF LaterVersion, ChangedSince
<1> QED
  BY <1>1, <1>2, ReadOrWritten

\* As the batch is to leave it, an event is as the change of it would.
LEMMA FinalIsDone ==
    ASSUME CalendarsOK, AskedOfRead, NEW k \in DOMAIN asked.batch, NEW e, IsEvent(e),
           Same(e, Final(asked.batch[k].id))
    PROVE  Done(asked.batch[k], e)
<1> DEFINE change == asked.batch[k]
           read == asked.read.events[change.id]
<1>1. /\ IsChange(change) /\ change.id \in Events /\ Sets(change.set, Fields)
      /\ Final(change.id) = Patched(read, change.set)
  BY ChangeIs
<1>2. IsEvent(read)
  BY <1>1 DEF CalendarsOK, Known, IsCalendar
<1>3. /\ IsEvent(Patched(read, change.set)) /\ Same(e, Patched(read, change.set))
      /\ \A field \in Fields : Patched(read, change.set)[field] = IF field \in DOMAIN change.set THEN change.set[field] ELSE read[field]
  <2>1. /\ IsEvent(Patched(read, change.set))
        /\ \A field \in Fields : Patched(read, change.set)[field] = IF field \in DOMAIN change.set THEN change.set[field] ELSE read[field]
    <3>1. Sets(change.set, Fields)
      BY <1>1
    <3> QED
      BY <1>2, <3>1, PatchedIs
  <2>2. Same(e, Patched(read, change.set))
    BY <1>1
  <2> QED
    BY <2>1, <2>2
<1>4. CASE change.do = "cancel"
  <2>1. change.set = [status |-> "cancelled"]
    BY <1>1, <1>4 DEF IsChange
  <2>2. "status" \in DOMAIN change.set /\ change.set["status"] = "cancelled"
    BY <2>1
  <2>3. Patched(read, change.set)["status"] = "cancelled"
    BY <1>3, <2>2 DEF Fields
  <2>4. e.status = "cancelled"
    BY <1>3, <2>3 DEF Same
  <2> QED
    BY <1>4, <2>4 DEF Done
<1>5. CASE change.do # "cancel"
  <2>1. Live(e)
    <3>1. CASE change.do = "update"
      <4>1. "status" \notin DOMAIN change.set /\ Live(read)
        BY <1>1, <3>1 DEF IsChange, Sets, AskedOfRead
      <4> QED
        BY <1>3, <4>1 DEF Same, Live, Fields
    <3>2. CASE change.do = "create"
      <4>1. "status" \in DOMAIN change.set /\ change.set["status"] = "confirmed"
        BY <1>1, <3>2 DEF IsChange
      <4> QED
        BY <1>3, <4>1 DEF Same, Live, Fields
    <3> QED
      BY <1>1, <1>5, <3>1, <3>2 DEF IsChange
  <2>2. \A field \in Fields : Patched(e, change.set)[field] = IF field \in DOMAIN change.set THEN change.set[field] ELSE e[field]
    BY <1>1, PatchedIs
  <2>3. Same(Patched(e, change.set), e)
    BY <1>3, <2>2 DEF Same, Fields
  <2> QED
    BY <1>5, <2>1, <2>3 DEF Done
<1> QED
  BY <1>4, <1>5

----------------------------------------------------------------------------
(* What a step does to the calendar and what's kept *)

\* A function of nothing is the empty one.
LEMMA EmptyIs ==
    ASSUME NEW f, f = [k \in DOMAIN f |-> f[k]], DOMAIN f = {}
    PROVE  f = <<>>
OBVIOUS

\* The next change is the batch's, of an event the client read.
LEMMA NextIs ==
    ASSUME AskedOfRead, LeftOfBatch, DOMAIN todo # {}
    PROVE  LET change == asked.batch[NextPlace]
           IN  /\ NextPlace \in DOMAIN todo /\ NextPlace \in DOMAIN asked.batch
               /\ NextChange.do = change.do /\ NextChange.id = change.id
               /\ NextChange.set = change.set /\ NextChange.counts = change.counts
               /\ NextChange.on = asked.read.events[change.id] /\ "expected" \in DOMAIN NextChange
               /\ change.id \in Events /\ Sets(change.set, Fields)
<1>1. DOMAIN todo \subseteq DOMAIN asked.batch
  BY DEF LeftOfBatch
<1>2. DOMAIN todo \subseteq Nat
  BY <1>1, ChangeIs
<1>3. NextPlace \in DOMAIN todo
  BY <1>2, LeastPlace DEF NextPlace, Min
<1>4. NextPlace \in DOMAIN asked.batch
  BY <1>1, <1>3
<1>5. asked.batch[NextPlace].id \in Events /\ Sets(asked.batch[NextPlace].set, Fields)
  BY <1>4, ChangeIs
<1> QED
  BY <1>3, <1>4, <1>5 DEF LeftOfBatch, NextChange

\* The events, the calendar's and what's kept, are ones.
LEMMA EventsAre ==
    ASSUME CalendarsOK, NEW id \in Events
    PROVE  IsEvent(calendar.events[id]) /\ IsEvent(keeps.events[id]) /\ IsEvent(asked.read.events[id])
BY DEF CalendarsOK, Known, IsCalendar

\* An event that's to be made is as it was read.
LEMMA AbsentAsRead ==
    ASSUME CalendarsOK, VersionsOnce, NEW id \in Events, calendar.events[id].status = "absent"
    PROVE  /\ calendar.events[id] = asked.read.events[id] /\ keeps.events[id] = asked.read.events[id]
           /\ calendar.events[id].own = FALSE
<1>1. ~calendar.events[id].own /\ calendar.events[id].own \in BOOLEAN
  BY EventsAre DEF CalendarsOK, IsEvent
<1>2. LaterOrSame(keeps.events[id], calendar.events[id]) /\ LaterOrSame(asked.read.events[id], calendar.events[id])
  BY VersionsAre DEF Known
<1> QED
  BY <1>1, <1>2 DEF LaterOrSame

\* A write is made of the next change, the event as it was read -- or it
\* isn't, and the call reads the event again, to be written again or told of.
LEMMA WriteCases ==
    ASSUME EventsInv, Write \/ WriteAgain
    PROVE  LET id == NextChange.id
           IN  /\ DOMAIN todo # {} /\ step \in {"writing", "again"}
               /\ UNCHANGED <<asked, recorded, edits, sends>>
               /\ \/ /\ Makes(NextChange) /\ Same(calendar.events[id], asked.read.events[id])
                     /\ NextChange.do = "create" => calendar.events[id].status = "absent"
                  \/ /\ UNCHANGED <<calendar, before>> /\ (keeps' = keeps \/ keeps' = Rereads(id))
                     /\ \/ /\ step' = "again" /\ todo' = [todo EXCEPT ![NextPlace].expected = Version(calendar, id)]
                           /\ NextChange.do # "create" /\ Same(calendar.events[id], NextChange.on) /\ LaterVersion(id)
                           /\ UNCHANGED answer
                        \/ Ends("failed", {})
                        \/ Ends("stale", {id}) /\ LaterVersion(id)
<1> DEFINE id == NextChange.id
<1> USE DEF EventsInv
<1>1. DOMAIN todo # {} /\ step \in {"writing", "again"}
  <2>1. CASE Write
    <3>1. todo # <<>> /\ step = "writing"
      BY <2>1 DEF Write
    <3>2. todo = [k \in DOMAIN todo |-> todo[k]]
      BY DEF LeftOfBatch
    <3>3. DOMAIN todo = {} => todo = <<>>
      BY <3>2, EmptyIs
    <3> QED
      BY <3>1, <3>3
  <2>2. CASE WriteAgain
    BY <2>2 DEF WriteAgain, LeftOfBatch
  <2> QED
    BY <2>1, <2>2
<1>2. UNCHANGED <<asked, recorded, edits, sends>>
  BY DEF Write, WriteAgain
<1>3. /\ NextPlace \in DOMAIN todo /\ NextPlace \in DOMAIN asked.batch /\ id = asked.batch[NextPlace].id
      /\ id \in Events /\ NextChange.do = asked.batch[NextPlace].do /\ NextChange.on = asked.read.events[id]
  BY <1>1, NextIs
<1>4. NextChange.do # "create" => Live(asked.read.events[id])
  BY <1>3 DEF AskedOfRead
<1>5. CASE Write
  <2>1. step = "writing"
    BY <1>5 DEF Write
  <2>2. NextChange.do = "create" \/ NextChange.expected = Expected(id)
    BY <1>3, <2>1 DEF LeftOfBatch, NextChange
  <2>3. CASE NextChange.do = "create" /\ calendar.events[id].status = "absent"
    <3>1. Makes(NextChange)
      BY <1>5, <2>3 DEF Write
    <3>2. Same(calendar.events[id], asked.read.events[id])
      BY <1>3, <2>3, AbsentAsRead DEF Same
    <3> QED
      BY <1>1, <1>2, <2>3, <3>1, <3>2
  <2>4. CASE NextChange.do = "create" /\ calendar.events[id].status # "absent"
    <3>1. Ends("failed", {}) /\ keeps' = keeps /\ UNCHANGED <<calendar, before>>
      BY <1>5, <2>4 DEF Write
    <3> QED
      BY <1>1, <1>2, <3>1
  <2>5. CASE NextChange.do # "create" /\ Version(calendar, id) = NextChange.expected
    <3>1. Makes(NextChange)
      BY <1>5, <2>5 DEF Write
    <3>2. Same(calendar.events[id], asked.read.events[id])
      BY <1>3, <2>2, <2>5, AsReadAtVersion DEF Same, Known
    <3> QED
      BY <1>1, <1>2, <2>5, <3>1, <3>2
  <2>6. CASE NextChange.do # "create" /\ Version(calendar, id) # NextChange.expected
    <3>1. LaterVersion(id)
      BY <1>3, <1>4, <2>2, <2>6, WhyStale DEF AtExpected
    <3>2. keeps' = Rereads(id) /\ UNCHANGED <<calendar, before>>
      BY <1>5, <2>6 DEF Write
    <3>3. CASE Ours(NextChange)
      <4>1. /\ step' = "again" /\ todo' = [todo EXCEPT ![NextPlace].expected = Version(calendar, id)]
            /\ UNCHANGED answer
        BY <1>5, <2>6, <3>3 DEF Write
      <4>2. Same(calendar.events[id], NextChange.on)
        BY <3>3 DEF Ours
      <4> QED
        BY <1>1, <1>2, <2>6, <3>1, <3>2, <4>1, <4>2
    <3>4. CASE ~Ours(NextChange)
      <4>1. Ends("stale", {id})
        BY <1>5, <2>6, <3>4 DEF Write
      <4> QED
        BY <1>1, <1>2, <3>1, <3>2, <4>1
    <3> QED
      BY <3>3, <3>4
  <2> QED
    BY <2>3, <2>4, <2>5, <2>6
<1>6. CASE WriteAgain
  <2>1. step = "again"
    BY <1>6 DEF WriteAgain
  <2>2. /\ NextChange.do # "create" /\ LaterVersion(id)
        /\ Version(calendar, id) = NextChange.expected => Same(calendar.events[id], NextChange.on)
    BY <2>1 DEF AgainOnTheSame
  <2>3. CASE Version(calendar, id) = NextChange.expected
    <3>1. Makes(NextChange)
      BY <1>6, <2>3 DEF WriteAgain
    <3>2. Same(calendar.events[id], asked.read.events[id])
      BY <1>3, <2>2, <2>3
    <3> QED
      BY <1>1, <1>2, <2>2, <3>1, <3>2
  <2>4. CASE Version(calendar, id) # NextChange.expected
    <3>1. Ends("stale", {id}) /\ keeps' = Rereads(id) /\ UNCHANGED <<calendar, before>>
      BY <1>6, <2>4 DEF WriteAgain
    <3> QED
      BY <1>1, <1>2, <2>2, <3>1
  <2> QED
    BY <2>3, <2>4
<1> QED
  BY <1>5, <1>6

\* The calendar changes only as an event of it is written: by the batch or elsewhere.
LEMMA CalendarSteps ==
    ASSUME EventsInv, [EventsNext]_eventVars
    PROVE  \/ UNCHANGED calendar
           \/ \E id \in Events : \E set :
                 /\ calendar' = Written(calendar, id, set) /\ Sets(set, Fields)
                 /\ calendar.events[id].status = "absent" => "status" \in DOMAIN set
<1>1. CASE Write \/ WriteAgain
  <2>1. CASE Makes(NextChange)
    <3> DEFINE id == NextChange.id
    <3>1. /\ id \in Events /\ Sets(NextChange.set, Fields) /\ NextPlace \in DOMAIN asked.batch
          /\ NextChange.do = asked.batch[NextPlace].do /\ id = asked.batch[NextPlace].id
          /\ NextChange.set = asked.batch[NextPlace].set
      BY <1>1, WriteCases, NextIs DEF EventsInv
    <3>2. calendar' = Written(calendar, id, NextChange.set)
      BY <2>1 DEF Makes
    <3>3. CASE NextChange.do = "create"
      <4>1. "status" \in DOMAIN NextChange.set
        BY <3>1, <3>3, ChangeIs DEF IsChange, EventsInv
      <4> QED
        BY <3>1, <3>2, <4>1
    <3>4. CASE NextChange.do # "create"
      <4>1. Live(asked.read.events[id])
        BY <3>1, <3>4 DEF EventsInv, AskedOfRead
      <4>2. UNCHANGED calendar \/ Same(calendar.events[id], asked.read.events[id])
        BY <1>1, WriteCases
      <4>3. UNCHANGED calendar \/ calendar.events[id].status # "absent"
        BY <4>1, <4>2 DEF Live, Same
      <4> QED
        BY <3>1, <3>2, <4>3
    <3> QED
      BY <3>3, <3>4
  <2>2. CASE ~Makes(NextChange)
    BY <1>1, <2>2, WriteCases
  <2> QED
    BY <2>1, <2>2
<1>2. CASE Edit
  <2>1. PICK edit \in Edits : calendar.events[edit.id].status = edit.on /\ calendar' = Written(calendar, edit.id, edit.set)
    BY <1>2 DEF Edit
  <2>2. edit.id \in Events /\ Sets(edit.set, Fields) /\ (edit.on = "absent" => "status" \in DOMAIN edit.set)
    BY EditsAssumption DEF Fields
  <2> QED
    BY <2>1, <2>2
<1>3. CASE Ask \/ AskAgain \/ Check \/ Record \/ Finish \/ Stop \/ Sync \/ UNCHANGED eventVars
  BY <1>3 DEF Ask, AskAgain, Check, Record, Finish, Stop, Sync, eventVars
<1> QED
  BY <1>1, <1>2, <1>3 DEF EventsNext

\* What's kept with events read again: each as kept or as the calendar's.
LEMMA ReadAgainIs ==
    ASSUME CalendarsOK, NEW ids
    PROVE  LET c == ReadAgain(ids)
           IN  /\ IsCalendar(c) /\ c.series = keeps.series /\ c.last = keeps.last
               /\ \A id \in Events : c.events[id] =
                     IF id \in ids /\ (id \notin Instances \/ keeps.events[id].own) THEN calendar.events[id] ELSE keeps.events[id]
<1> DEFINE c == ReadAgain(ids)
           events == [id \in Events |->
               IF id \in ids /\ (id \notin Instances \/ keeps.events[id].own) THEN calendar.events[id] ELSE keeps.events[id]]
<1>1. keeps = [events |-> keeps.events, series |-> keeps.series, last |-> keeps.last]
  BY DEF CalendarsOK, Known, IsCalendar
<1>2. c = [events |-> events, series |-> keeps.series, last |-> keeps.last]
  BY <1>1 DEF ReadAgain
<1>3. keeps.series \in Nat /\ keeps.last \in Nat
  BY DEF CalendarsOK, Known, IsCalendar
<1>4. \A id \in Events : IsEvent(events[id])
  BY EventsAre
<1>5. events = [id \in Events |-> events[id]]
  OBVIOUS
<1> HIDE DEF events, c
<1>6. c.events = events /\ c.series = keeps.series /\ c.last = keeps.last
  BY <1>2
<1>7. c = [events |-> c.events, series |-> c.series, last |-> c.last]
  BY <1>2, <1>6
<1>8. IsCalendar(c)
  <2>1. c.events = [id \in Events |-> c.events[id]]
    BY <1>5, <1>6
  <2>2. \A id \in Events : IsEvent(c.events[id])
    BY <1>4, <1>6
  <2>3. c.series \in Nat /\ c.last \in Nat
    BY <1>3, <1>6
  <2> QED
    BY <1>7, <2>1, <2>2, <2>3 DEF IsCalendar
<1> QED
  BY <1>6, <1>8 DEF c, events

LEMMA RereadsIs ==
    ASSUME CalendarsOK, NEW id
    PROVE  LET c == Rereads(id)
           IN  /\ IsCalendar(c) /\ c.series \in {keeps.series, calendar.series}
               /\ \A x \in Events : c.events[x] \in {keeps.events[x], calendar.events[x]}
<1> DEFINE kept == ReadAgain({id})
           c == Rereads(id)
<1>1. /\ IsCalendar(kept) /\ kept.series = keeps.series
      /\ \A x \in Events : kept.events[x] \in {keeps.events[x], calendar.events[x]}
  BY ReadAgainIs
<1>2. c = [kept EXCEPT !.series = IF id \in Instances /\ ~keeps.events[id].own THEN calendar.series ELSE kept.series]
  BY DEF Rereads
<1> HIDE DEF kept, c
<1>3. c.events = kept.events /\ c.last = kept.last /\ c.series \in {keeps.series, calendar.series}
      /\ c = [events |-> c.events, series |-> c.series, last |-> c.last]
  BY <1>1, <1>2 DEF IsCalendar
<1>4. calendar.series \in Nat /\ keeps.series \in Nat
  BY DEF CalendarsOK, Known, IsCalendar
<1>5. IsCalendar(c)
  <2>1. c.events = [x \in Events |-> c.events[x]] /\ \A x \in Events : IsEvent(c.events[x])
    BY <1>1, <1>3 DEF IsCalendar
  <2>2. c.last \in Nat /\ c.series \in Nat
    BY <1>1, <1>3, <1>4 DEF IsCalendar
  <2> QED
    BY <1>3, <2>1, <2>2 DEF IsCalendar
<1> QED
  BY <1>1, <1>3, <1>5 DEF c

\* The calendar is IsCalendar still, and no earlier.
LEMMA CalendarMovesOn ==
    ASSUME EventsInv, [EventsNext]_eventVars
    PROVE  /\ IsCalendar(calendar') /\ calendar.last \in Nat /\ calendar.last <= calendar'.last
           /\ calendar'.series \in {calendar.series, calendar.last + 2}
           /\ calendar'.series # calendar.series => calendar'.series <= calendar'.last
           /\ \A id \in Events :
                 \/ calendar'.events[id] = calendar.events[id]
                 \/ /\ calendar'.events[id].own /\ calendar'.events[id].status # "absent"
                    /\ calendar'.events[id].version = calendar.last + 1 /\ calendar.last + 2 <= calendar'.last
<1>1. IsCalendar(calendar) /\ calendar.last \in Nat /\ \A id \in Events : IsEvent(calendar.events[id])
  BY DEF EventsInv, CalendarsOK, Known, IsCalendar
<1>2. CASE UNCHANGED calendar
  BY <1>1, <1>2
<1>3. CASE ~UNCHANGED calendar
  <2>a. PICK id \in Events : \E set :
            /\ calendar' = Written(calendar, id, set) /\ Sets(set, Fields)
            /\ calendar.events[id].status = "absent" => "status" \in DOMAIN set
    BY <1>3, CalendarSteps
  <2>1. PICK set :
            /\ calendar' = Written(calendar, id, set) /\ Sets(set, Fields)
            /\ calendar.events[id].status = "absent" => "status" \in DOMAIN set
    BY <2>a
  <2>2. /\ IsCalendar(calendar')
        /\ \A other \in Events \ {id} : calendar'.events[other] = calendar.events[other]
        /\ Same(calendar'.events[id], Patched(calendar.events[id], set))
        /\ calendar'.events[id].own /\ calendar'.events[id].version = calendar.last + 1
        /\ calendar'.series = (IF id \in Instances THEN calendar.last + 2 ELSE calendar.series)
        /\ calendar'.last = calendar.last + 2
    BY <1>1, <2>1, WrittenIs
  <2>3. Patched(calendar.events[id], set)["status"] = IF "status" \in DOMAIN set THEN set["status"] ELSE calendar.events[id]["status"]
    BY <1>1, <2>1, PatchedIs DEF Fields
  <2>4. calendar'.events[id].status # "absent"
    BY <2>1, <2>2, <2>3 DEF Same, Sets
  <2> QED
    BY <1>1, <2>2, <2>4
<1> QED
  BY <1>2, <1>3

\* What's kept changes only as events of it are read again or written, or
\* it's synced: to what the calendar has.
LEMMA KeepsSteps ==
    ASSUME EventsInv, [EventsNext]_eventVars
    PROVE  /\ IsCalendar(keeps') /\ keeps'.series \in {keeps.series, calendar'.series}
           /\ \A id \in Events : keeps'.events[id] \in {keeps.events[id], calendar'.events[id]}
<1>1. IsCalendar(keeps) /\ CalendarsOK /\ IsCalendar(calendar)
  BY DEF EventsInv, CalendarsOK, Known
<1>2. CASE UNCHANGED keeps
  BY <1>1, <1>2
<1>3. CASE keeps' = calendar /\ UNCHANGED calendar
  BY <1>1, <1>3
<1>4. CASE Makes(NextChange) /\ keeps' # keeps /\ (Write \/ WriteAgain)
  <2> DEFINE id == NextChange.id
             after == Written(calendar, id, NextChange.set)
  <2>1. id \in Events
    BY <1>4, WriteCases, NextIs DEF EventsInv
  <2>2. calendar' = after /\ IsCalendar(calendar')
    BY <1>4, CalendarMovesOn DEF Makes, EventsNext
  <2>3. keeps' = [keeps EXCEPT !.events[id] = after.events[id], !.last = after.last]
    BY <1>4 DEF Makes, Ends
  <2> HIDE DEF id, after
  <2>4. /\ keeps'.events = [keeps.events EXCEPT ![id] = calendar'.events[id]]
        /\ keeps'.series = keeps.series /\ keeps'.last = calendar'.last
        /\ keeps' = [events |-> keeps'.events, series |-> keeps'.series, last |-> keeps'.last]
    BY <1>1, <2>2, <2>3 DEF IsCalendar
  <2>5. DOMAIN keeps.events = Events /\ keeps.events = [x \in Events |-> keeps.events[x]]
    BY <1>1 DEF IsCalendar
  <2>6. \A x \in Events : keeps'.events[x] = IF x = id THEN calendar'.events[x] ELSE keeps.events[x]
    BY <2>1, <2>4, <2>5
  <2>7. keeps'.events = [x \in Events |-> keeps'.events[x]]
    BY <2>4, <2>5
  <2>8. \A x \in Events : IsEvent(keeps'.events[x])
    BY <1>1, <2>2, <2>6 DEF IsCalendar
  <2>9. keeps'.series \in Nat /\ keeps'.last \in Nat
    BY <1>1, <2>2, <2>4 DEF IsCalendar
  <2> QED
    BY <2>4, <2>6, <2>7, <2>8, <2>9 DEF IsCalendar
<1>5. CASE UNCHANGED calendar /\ \E id : keeps' = Rereads(id)
  BY <1>1, <1>5, RereadsIs
<1>6. CASE UNCHANGED calendar /\ \E ids : keeps' = ReadAgain(ids)
  <2>1. PICK ids : keeps' = ReadAgain(ids)
    BY <1>6
  <2> QED
    BY <1>1, <1>6, <2>1, ReadAgainIs
<1>7. CASE Write \/ WriteAgain
  BY <1>2, <1>4, <1>5, <1>7, WriteCases
<1>8. CASE Check
  BY <1>6, <1>8 DEF Check
<1>9. CASE Ask \/ AskAgain \/ Record \/ Finish \/ Stop \/ Edit \/ Sync \/ UNCHANGED eventVars
  BY <1>2, <1>3, <1>9 DEF Ask, AskAgain, Record, Finish, Stop, Edit, Sync, eventVars
<1> QED
  BY <1>7, <1>8, <1>9 DEF EventsNext

\* What the client read changes only as it asks for another batch.
LEMMA AskedSteps ==
    ASSUME [EventsNext]_eventVars, ~Ask
    PROVE  UNCHANGED asked
BY DEF EventsNext, AskAgain, Check, Write, WriteAgain, Record, Finish, Stop, Edit, Sync, eventVars

LEMMA AskIs ==
    ASSUME Ask
    PROVE  /\ asked'.read = keeps /\ UNCHANGED <<calendar, keeps, todo>> /\ step = "none" /\ step' = "checking"
           /\ asked'.batch \in Batches /\ before' = Nothing /\ answer' = "none"
           /\ \A k \in DOMAIN asked'.batch : asked'.batch[k].do # "create" => Live(keeps.events[asked'.batch[k].id])
BY DEF Ask

----------------------------------------------------------------------------
(* What each step keeps: the calendars *)

\* What's known of the calendar after a step was known before, or is what
\* the step wrote.
LEMMA KnownAfter ==
    ASSUME EventsInv, [EventsNext]_eventVars, NEW c \in {calendar', keeps', asked'.read}
    PROVE  /\ IsCalendar(c)
           /\ (\E b \in Known : c.series = b.series) \/ (c.series = calendar.last + 2 /\ c.series <= calendar'.last)
           /\ \A id \in Events :
                 \/ \E b \in Known : c.events[id] = b.events[id]
                 \/ /\ c.events[id].version = calendar.last + 1 /\ calendar.last + 2 <= calendar'.last
                    /\ c.events[id] = calendar'.events[id] /\ c.events[id].own
<1>1. \A b \in Known : IsCalendar(b)
  BY DEF EventsInv, CalendarsOK
<1>2. calendar \in Known /\ keeps \in Known /\ asked.read \in Known
  BY DEF Known
<1>3. CASE c = calendar'
  BY <1>2, <1>3, CalendarMovesOn
<1>4. CASE c = keeps'
  BY <1>2, <1>4, CalendarMovesOn, KeepsSteps
<1>5. CASE c = asked'.read
  BY <1>1, <1>2, <1>5, AskedSteps, AskIs
<1> QED
  BY <1>3, <1>4, <1>5

LEMMA CalendarsKept ==
    ASSUME EventsInv, [EventsNext]_eventVars
    PROVE  CalendarsOK'
<1>1. \A c \in Known' : IsCalendar(c)
  BY KnownAfter DEF Known
<1>2. \A c \in Known : c.series <= calendar'.series /\ \A id \in Events : LaterOrSame(c.events[id], calendar'.events[id])
  <2> SUFFICES ASSUME NEW c \in Known
               PROVE  c.series <= calendar'.series /\ \A id \in Events : LaterOrSame(c.events[id], calendar'.events[id])
    OBVIOUS
  <2>1. CalendarsOK /\ VersionsOnce /\ calendar \in Known
    BY DEF EventsInv, Known
  <2>2. c.series <= calendar'.series
    <3>1. c.series \in Nat /\ c.series <= calendar.series /\ c.series <= calendar.last /\ calendar.last \in Nat /\ calendar.series \in Nat
      BY <2>1 DEF CalendarsOK, VersionsOnce, Behind, IsCalendar, Known
    <3> QED
      BY <3>1, CalendarMovesOn
  <2>3. ASSUME NEW id \in Events
        PROVE  LaterOrSame(c.events[id], calendar'.events[id])
    <3>1. /\ LaterOrSame(c.events[id], calendar.events[id]) /\ c.events[id].version \in Nat
          /\ c.events[id].version <= calendar.last /\ calendar.last \in Nat
      BY <2>1, VersionsAre
    <3>2. \/ calendar'.events[id] = calendar.events[id]
          \/ calendar'.events[id].own /\ calendar'.events[id].version = calendar.last + 1
      BY CalendarMovesOn
    <3> QED
      BY <3>1, <3>2 DEF LaterOrSame
  <2> QED
    BY <2>2, <2>3
<1>3. Behind(keeps', calendar')
  <2>1. keeps \in Known /\ calendar'.series \in Nat
    BY CalendarMovesOn DEF Known, IsCalendar
  <2> QED
    BY <1>2, <2>1, KeepsSteps DEF Behind, LaterOrSame
<1>4. Behind(asked'.read, keeps')
  <2>1. CASE Ask
    <3>1. keeps.series \in Nat
      BY DEF EventsInv, CalendarsOK, IsCalendar, Known
    <3> QED
      BY <2>1, <3>1, AskIs DEF Behind, LaterOrSame
  <2>2. CASE ~Ask
    <3>1. asked.read \in Known /\ Behind(asked.read, keeps) /\ asked' = asked
      BY <2>2, AskedSteps DEF Known, EventsInv, CalendarsOK
    <3> QED
      BY <1>2, <3>1, KeepsSteps DEF Behind
  <2> QED
    BY <2>1, <2>2
<1>5. \A id \in Events : calendar'.events[id].own => calendar'.events[id].status # "absent"
  BY CalendarMovesOn DEF EventsInv, CalendarsOK
<1> QED
  BY <1>1, <1>3, <1>4, <1>5 DEF CalendarsOK

LEMMA VersionsKept ==
    ASSUME EventsInv, [EventsNext]_eventVars
    PROVE  VersionsOnce'
<1>1. /\ CalendarsOK /\ VersionsOnce
      /\ calendar.last \in Nat /\ calendar'.last \in Nat /\ calendar.last <= calendar'.last /\ 1 <= calendar.last
  BY CalendarMovesOn DEF EventsInv, IsCalendar, VersionsOnce
<1>2. \A b \in Known : b.series \in Nat /\ b.series <= calendar.last
  BY <1>1 DEF CalendarsOK, VersionsOnce, IsCalendar
<1>3. \A b \in Known : \A id \in Events : b.events[id].version \in Nat /\ b.events[id].version <= calendar.last
  BY <1>1, VersionsAre
<1>4. \A c \in Known' : c.series <= calendar'.last /\ \A id \in Events : c.events[id].version <= calendar'.last
  <2> SUFFICES ASSUME NEW c \in Known'
               PROVE  c.series <= calendar'.last /\ \A id \in Events : c.events[id].version <= calendar'.last
    OBVIOUS
  <2>1. c \in {calendar', keeps', asked'.read}
    BY DEF Known
  <2>2. c.series <= calendar'.last
    BY <1>1, <1>2, <2>1, KnownAfter
  <2>3. \A id \in Events : c.events[id].version <= calendar'.last
    BY <1>1, <1>3, <2>1, KnownAfter
  <2> QED
    BY <2>2, <2>3
<1>5. ASSUME NEW c \in Known', NEW d \in Known', NEW id \in Events, c.events[id].own
      PROVE  c.events[id].version # d.series
  <2>1. c \in {calendar', keeps', asked'.read} /\ d \in {calendar', keeps', asked'.read}
    BY DEF Known
  <2>2. \/ \E b \in Known : c.events[id] = b.events[id]
        \/ c.events[id].version = calendar.last + 1
    BY <2>1, KnownAfter
  <2>3. (\E b \in Known : d.series = b.series) \/ d.series = calendar.last + 2
    BY <2>1, KnownAfter
  <2>4. CASE \E b \in Known : c.events[id] = b.events[id]
    BY <1>1, <1>2, <1>3, <1>5, <2>3, <2>4 DEF VersionsOnce
  <2>5. CASE c.events[id].version = calendar.last + 1
    BY <1>1, <1>2, <2>3, <2>5
  <2> QED
    BY <2>2, <2>4, <2>5
<1> QED
  BY <1>1, <1>4, <1>5 DEF VersionsOnce

----------------------------------------------------------------------------
(* What each step keeps: the batch *)

LEMMA AskedKept ==
    ASSUME EventsInv, [EventsNext]_eventVars
    PROVE  AskedOfRead'
<1>1. CASE Ask
  BY <1>1, AskIs DEF AskedOfRead, Live
<1>2. CASE ~Ask
  BY <1>2, AskedSteps DEF EventsInv, AskedOfRead, Live
<1> QED
  BY <1>1, <1>2

LEMMA EndsIs ==
    ASSUME NEW kind, NEW ids, Ends(kind, ids)
    PROVE  /\ step' = "none" /\ answer' = kind /\ stale' = ids /\ todo' = <<>>
           /\ DOMAIN todo' = {} /\ todo' = [k \in DOMAIN todo' |-> todo'[k]]
<1>1. DOMAIN <<>> = {} /\ <<>> = [k \in {} |-> <<>>[k]]
  OBVIOUS
<1> QED
  BY <1>1 DEF Ends

\* A batch that passes its check: what's still to be made of it, planned on
\* the calendar as it's kept then.
LEMMA CheckIs ==
    ASSUME Check
    PROVE  /\ step = "checking" /\ UNCHANGED <<calendar, asked, recorded, failures, edits, sends, before>>
           /\ \/ /\ step' = "none" /\ todo' = <<>>
                 /\ answer' = "refused" \/ (answer' = "stale" /\
                       \A id \in stale' : \E k \in DOMAIN asked.batch : asked.batch[k].id = id /\ Fresh(asked.batch[k]) = "stale")
              \/ /\ step' = "writing" /\ UNCHANGED <<answer, stale, wrote>>
                 /\ todo' = [k \in DOMAIN todo' |-> todo'[k]]
                 /\ DOMAIN todo' = {k \in DOMAIN asked.batch : Fresh(asked.batch[k]) = "make"}
                 /\ \A k \in DOMAIN todo' : todo'[k] = Planned(keeps', asked.batch[k])
                 /\ \A k \in DOMAIN asked.batch : Fresh(asked.batch[k]) \notin {"stale", "used"}
                 /\ LET changes == {todo'[k] : k \in DOMAIN todo'}
                    IN  /\ \A c \in changes : ~IsHistory(c, c.on, c.after)
                        /\ ~Overlaps(Placed(keeps', changes), changes)
           /\ \E ids : /\ keeps' = ReadAgain(ids)
                       /\ \A id \in ids : ~AtExpected(keeps, id)
<1> DEFINE change(k) == asked.batch[k]
           found == [k \in DOMAIN asked.batch |-> Fresh(change(k))]
           lagging == {change(k).id : k \in {l \in DOMAIN found : change(l).do # "create" /\ ~AtExpected(keeps, change(l).id)}}
           kept == ReadAgain(lagging)
           making == [k \in {l \in DOMAIN found : found[l] = "make"} |-> Planned(kept, change(k))]
           changes == {making[k] : k \in DOMAIN making}
           isStale == \E k \in DOMAIN found : found[k] = "stale"
           isRefused == \/ \E k \in DOMAIN found : found[k] = "used"
                        \/ \E c \in changes : IsHistory(c, c.on, c.after)
                        \/ Overlaps(Placed(kept, changes), changes)
<1>1. /\ step = "checking" /\ keeps' = kept
      /\ UNCHANGED <<calendar, asked, recorded, failures, edits, sends, before>>
      /\ IF isStale THEN Ends("stale", {change(k).id : k \in {l \in DOMAIN found : found[l] = "stale"}})
         ELSE IF isRefused THEN Ends("refused", {})
         ELSE step' = "writing" /\ todo' = making /\ UNCHANGED <<answer, stale, wrote>>
  BY DEF Check
<1>2. \A id \in lagging : ~AtExpected(keeps, id)
  OBVIOUS
<1>3. DOMAIN found = DOMAIN asked.batch /\ \A k \in DOMAIN asked.batch : found[k] = Fresh(change(k))
  OBVIOUS
<1>4. CASE isStale
  <2>1. Ends("stale", {change(k).id : k \in {l \in DOMAIN found : found[l] = "stale"}})
    BY <1>1, <1>4
  <2>2. step' = "none" /\ todo' = <<>> /\ answer' = "stale" /\ stale' = {change(k).id : k \in {l \in DOMAIN found : found[l] = "stale"}}
    BY <2>1 DEF Ends
  <2>3. \A id \in stale' : \E k \in DOMAIN asked.batch : asked.batch[k].id = id /\ Fresh(asked.batch[k]) = "stale"
    BY <1>3, <2>2
  <2> HIDE DEF lagging
  <2> QED
    BY <1>1, <1>2, <2>2, <2>3
<1>5. CASE ~isStale /\ isRefused
  <2>1. Ends("refused", {})
    BY <1>1, <1>5
  <2>2. step' = "none" /\ todo' = <<>> /\ answer' = "refused"
    BY <2>1 DEF Ends
  <2> HIDE DEF lagging
  <2> QED
    BY <1>1, <1>2, <2>2
<1>6. CASE ~isStale /\ ~isRefused
  <2>1. step' = "writing" /\ todo' = making /\ UNCHANGED <<answer, stale, wrote>>
    BY <1>1, <1>6
  <2>2. \A k \in DOMAIN asked.batch : Fresh(asked.batch[k]) \notin {"stale", "used"}
    BY <1>3, <1>6
  <2>3. /\ \A c \in changes : ~IsHistory(c, c.on, c.after)
        /\ ~Overlaps(Placed(kept, changes), changes)
    BY <1>6
  <2>4. DOMAIN making = {k \in DOMAIN asked.batch : Fresh(asked.batch[k]) = "make"}
    BY <1>3
  <2>5. \A k \in DOMAIN making : making[k] = Planned(kept, asked.batch[k])
    OBVIOUS
  <2>6. making = [k \in DOMAIN making |-> making[k]]
    OBVIOUS
  <2>7. {todo'[k] : k \in DOMAIN todo'} = changes
    BY <2>1
  <2> HIDE DEF lagging, kept, making, changes, found
  <2>8. \E ids : keeps' = ReadAgain(ids) /\ \A id \in ids : ~AtExpected(keeps, id)
    BY <1>1, <1>2 DEF kept
  <2> QED
    BY <1>1, <2>1, <2>2, <2>3, <2>4, <2>5, <2>6, <2>7, <2>8
<1> QED
  BY <1>4, <1>5, <1>6

\* What's to be made is planned on the event as the client read it.
LEMMA PlannedOnRead ==
    ASSUME EventsInv, NEW ids, \A id \in ids : ~AtExpected(keeps, id),
           NEW k \in DOMAIN asked.batch, Fresh(asked.batch[k]) = "make"
    PROVE  LET change == asked.batch[k]
               planned == Planned(ReadAgain(ids), change)
           IN  /\ planned.do = change.do /\ planned.id = change.id
               /\ planned.set = change.set /\ planned.counts = change.counts
               /\ "expected" \in DOMAIN planned
               /\ planned.on = asked.read.events[change.id] /\ planned.after = Final(change.id)
               /\ change.do = "create" \/ planned.expected = Expected(change.id)
               /\ planned.moved = (change.do = "create" \/ planned.after.start # planned.on.start
                                                        \/ planned.after.end # planned.on.end)
               /\ change.do = "create" => asked.read.events[change.id].status = "absent"
<1> DEFINE change == asked.batch[k]
           kept == ReadAgain(ids)
           read == asked.read.events[change.id]
           planned == Planned(kept, change)
<1> USE DEF EventsInv
<1>1. change.id \in Events /\ Final(change.id) = Patched(read, change.set)
  BY ChangeIs
<1>2. calendar \in Known /\ keeps \in Known
  BY DEF Known
<1>3. CASE change.do = "create"
  <2>1. calendar.events[change.id].status = "absent"
    BY <1>3 DEF Fresh, Gets, Live
  <2>2. calendar.events[change.id] = read
    BY <1>1, <2>1, AbsentAsRead
  <2>3. planned = [do |-> change.do, id |-> change.id, set |-> change.set, counts |-> change.counts,
                   expected |-> 0, on |-> read, after |-> Patched(read, change.set),
                   moved |-> change.do = "create" \/ Patched(read, change.set).start # read.start \/ Patched(read, change.set).end # read.end]
    BY <1>3, <2>2 DEF Planned
  <2> HIDE DEF planned, change, read
  <2> QED
    BY <1>1, <1>3, <2>1, <2>2, <2>3 DEF change, read, planned
<1>4. CASE change.do # "create"
  <2>1. AtExpected(keeps, change.id) \/ AtExpected(calendar, change.id)
    BY <1>4 DEF Fresh
  <2>2. AtExpected(keeps, change.id)
    <3>1. LaterOrSame(keeps.events[change.id], calendar.events[change.id]) /\ keeps.series <= calendar.series
      BY <1>1, <1>2, VersionsAre
    <3> QED
      BY <1>1, <1>2, <2>1, <3>1, NeverAgain
  <2>3. keeps.events[change.id] = read /\ Live(read)
    BY <1>1, <1>2, <2>2, AsReadAtVersion DEF AtExpected
  <2>4. kept.events[change.id] = read
    BY <1>1, <2>2, <2>3, ReadAgainIs
  <2>5. Gets(kept, change.id) = read
    BY <2>3, <2>4 DEF Gets
  <2>6. planned = [do |-> change.do, id |-> change.id, set |-> change.set, counts |-> change.counts,
                   expected |-> Expected(change.id), on |-> read, after |-> Patched(read, change.set),
                   moved |-> change.do = "create" \/ Patched(read, change.set).start # read.start \/ Patched(read, change.set).end # read.end]
    BY <1>4, <2>5 DEF Planned
  <2> HIDE DEF planned, change, read
  <2> QED
    BY <1>1, <1>4, <2>6 DEF change, read, planned
<1> QED
  BY <1>3, <1>4

\* A change made: its event written, and the batch's writes.
LEMMA MakesIs ==
    ASSUME EventsInv, Write \/ WriteAgain, Makes(NextChange)
    PROVE  LET id == NextChange.id
               records == NextChange.do = "cancel" /\ NextChange.counts
           IN  /\ calendar' = Written(calendar, id, NextChange.set)
               /\ before' = [wrote |-> before'.wrote, unrecorded |-> before'.unrecorded]
               /\ before'.wrote = before.wrote \cup {<<id, calendar.last + 1>>, <<id, calendar.last + 2>>}
               /\ \/ step' = "recording" /\ records /\ UNCHANGED <<todo, answer>> /\ before'.unrecorded = before.unrecorded
                  \/ step' = "writing" /\ ~records /\ todo' = LaterChanges /\ UNCHANGED answer /\ before'.unrecorded = before.unrecorded
                  \/ Ends("failed", {}) /\ before'.unrecorded = before.unrecorded \cup {id}
<1> DEFINE id == NextChange.id
           after == Written(calendar, id, NextChange.set)
           records == NextChange.do = "cancel" /\ NextChange.counts
<1>1. calendar' = after
  BY DEF Makes
<1>2. id \in Events /\ Sets(NextChange.set, Fields) /\ IsCalendar(calendar)
  BY WriteCases, NextIs DEF EventsInv, CalendarsOK, Known
<1>3. after.last = calendar.last + 2 /\ calendar.last \in Nat
  BY <1>2 DEF Written, IsCalendar
<1>4. after.last - 1 = calendar.last + 1
  BY <1>3
<1>5. before = [wrote |-> before.wrote, unrecorded |-> before.unrecorded]
  BY DEF EventsInv, WrittenAsAsked
<1>6. \/ /\ before' = [before EXCEPT !.wrote = before.wrote \cup {<<id, after.last - 1>>, <<id, after.last>>}]
         /\ IF records THEN step' = "recording" /\ UNCHANGED <<todo, wrote>>
            ELSE step' = "writing" /\ todo' = LaterChanges /\ wrote' = (wrote \/ id \in Instances)
         /\ UNCHANGED answer
      \/ /\ before' = [wrote |-> before.wrote \cup {<<id, after.last - 1>>, <<id, after.last>>}, unrecorded |-> before.unrecorded \cup {id}]
         /\ Ends("failed", {})
  BY DEF Makes
<1> HIDE DEF after
<1>7. CASE before' = [before EXCEPT !.wrote = before.wrote \cup {<<id, after.last - 1>>, <<id, after.last>>}]
  <2>1. /\ before'.wrote = before.wrote \cup {<<id, after.last - 1>>, <<id, after.last>>}
        /\ before'.unrecorded = before.unrecorded
        /\ before' = [wrote |-> before'.wrote, unrecorded |-> before'.unrecorded]
    BY <1>5, <1>7
  <2>2. \/ /\ IF records THEN step' = "recording" /\ UNCHANGED <<todo, wrote>>
              ELSE step' = "writing" /\ todo' = LaterChanges /\ wrote' = (wrote \/ id \in Instances)
           /\ UNCHANGED answer
        \/ /\ before'.unrecorded = before.unrecorded \cup {id}
           /\ Ends("failed", {})
    BY <1>6
  <2> QED
    BY <1>1, <1>3, <1>4, <2>1, <2>2 DEF after
<1>8. CASE before' = [wrote |-> before.wrote \cup {<<id, after.last - 1>>, <<id, after.last>>}, unrecorded |-> before.unrecorded \cup {id}] /\ Ends("failed", {})
  <2>1. /\ before'.wrote = before.wrote \cup {<<id, after.last - 1>>, <<id, after.last>>}
        /\ before'.unrecorded = before.unrecorded \cup {id}
        /\ before' = [wrote |-> before'.wrote, unrecorded |-> before'.unrecorded]
    BY <1>8
  <2> QED
    BY <1>1, <1>3, <1>4, <1>8, <2>1 DEF after
<1> QED
  BY <1>6, <1>7, <1>8

\* What's left is so still, with what's been read and asked as it was.
LEMMA LeftIsLess ==
    ASSUME LeftOfBatch, UNCHANGED asked, todo' = LaterChanges, step' = "writing", NextPlace \in DOMAIN todo
    PROVE  LeftOfBatch' /\ DOMAIN todo' = DOMAIN todo \ {NextPlace}
<1>1. /\ DOMAIN todo' = DOMAIN todo \ {NextPlace} /\ todo' = [k \in DOMAIN todo' |-> todo'[k]]
      /\ \A k \in DOMAIN todo' : todo'[k] = todo[k]
  BY DEF LaterChanges
<1>2. \A k \in DOMAIN todo' :
          LET change == asked'.batch[k]
          IN  /\ todo'[k].do = change.do /\ todo'[k].id = change.id /\ todo'[k].set = change.set /\ todo'[k].counts = change.counts
              /\ todo'[k].on = asked'.read.events[change.id] /\ "expected" \in DOMAIN todo'[k]
              /\ todo'[k].do = "create" \/ todo'[k].expected = Expected(change.id)
  BY <1>1 DEF LeftOfBatch
<1>3. \A id : Expected(id)' = Expected(id)
  BY DEF Expected, Version
<1>4. DOMAIN todo' \subseteq DOMAIN asked'.batch
  BY <1>1 DEF LeftOfBatch
<1>5. Writing' /\ step' \notin {"again", "recording"}
  BY DEF Writing
<1> QED
  BY <1>1, <1>2, <1>3, <1>4, <1>5 DEF LeftOfBatch

LEMMA LeftKept ==
    ASSUME EventsInv, [EventsNext]_eventVars
    PROVE  LeftOfBatch'
<1>1. LeftOfBatch
  BY DEF EventsInv
<1>2. ASSUME DOMAIN todo' = {}, todo' = [k \in DOMAIN todo' |-> todo'[k]], step' \notin {"again", "recording"}
      PROVE  LeftOfBatch'
  BY <1>2 DEF LeftOfBatch
<1>3. ASSUME UNCHANGED <<asked, todo>>, step' = step \/ (step' = "recording" /\ DOMAIN todo # {})
      PROVE  LeftOfBatch'
  <2>1. \A id : Expected(id)' = Expected(id)
    BY <1>3 DEF Expected, Version
  <2>2. NextPlace' = NextPlace
    BY <1>3 DEF NextPlace
  <2>3. Writing => Writing'
    BY <1>3 DEF Writing
  <2> QED
    BY <1>1, <1>3, <2>1, <2>2, <2>3 DEF LeftOfBatch
<1>4. CASE Ask \/ AskAgain
  <2>1. step = "none" /\ step' = "checking" /\ todo' = todo
    BY <1>4 DEF Ask, AskAgain
  <2>2. DOMAIN todo = {} /\ todo = [k \in DOMAIN todo |-> todo[k]]
    BY <1>1, <2>1 DEF LeftOfBatch, Writing
  <2> QED
    BY <1>2, <2>1, <2>2
<1>5. CASE Check
  <2>1. CASE step' = "none" /\ todo' = <<>>
    <3>1. DOMAIN todo' = {} /\ todo' = [k \in DOMAIN todo' |-> todo'[k]]
      BY <2>1
    <3> QED
      BY <1>2, <2>1, <3>1
  <2>2. CASE step' # "none"
    <3>1. /\ step' = "writing" /\ asked' = asked
          /\ todo' = [k \in DOMAIN todo' |-> todo'[k]]
          /\ DOMAIN todo' = {k \in DOMAIN asked.batch : Fresh(asked.batch[k]) = "make"}
          /\ \A k \in DOMAIN todo' : todo'[k] = Planned(keeps', asked.batch[k])
      BY <1>5, <2>2, CheckIs
    <3>2. PICK ids : keeps' = ReadAgain(ids) /\ \A id \in ids : ~AtExpected(keeps, id)
      BY <1>5, CheckIs
    <3>3. \A k \in DOMAIN todo' :
             LET change == asked.batch[k]
             IN  /\ todo'[k].do = change.do /\ todo'[k].id = change.id /\ todo'[k].set = change.set /\ todo'[k].counts = change.counts
                 /\ todo'[k].on = asked.read.events[change.id] /\ "expected" \in DOMAIN todo'[k]
                 /\ todo'[k].do = "create" \/ todo'[k].expected = Expected(change.id)
      BY <3>1, <3>2, PlannedOnRead
    <3>4. \A id : Expected(id)' = Expected(id)
      BY <3>1 DEF Expected, Version
    <3>5. Writing' /\ step' \notin {"again", "recording"} /\ DOMAIN todo' \subseteq DOMAIN asked'.batch
      BY <3>1 DEF Writing
    <3> QED
      BY <3>1, <3>3, <3>4, <3>5 DEF LeftOfBatch
  <2> QED
    BY <1>5, <2>1, <2>2, CheckIs
<1>6. CASE Write \/ WriteAgain
  <2>1. DOMAIN todo # {} /\ NextPlace \in DOMAIN todo /\ asked' = asked
    BY <1>6, WriteCases, NextIs DEF EventsInv
  <2>2. CASE Makes(NextChange)
    <3>1. CASE step' = "recording" /\ UNCHANGED todo
      BY <1>3, <2>1, <3>1
    <3>2. CASE step' = "writing" /\ todo' = LaterChanges
      BY <1>1, <2>1, <3>2, LeftIsLess
    <3>3. CASE Ends("failed", {})
      BY <1>2, <3>3, EndsIs
    <3> QED
      BY <1>6, <2>2, <3>1, <3>2, <3>3, MakesIs
  <2>3. CASE step' = "again" /\ todo' = [todo EXCEPT ![NextPlace].expected = Version(calendar, NextChange.id)]
    <3>1. /\ DOMAIN todo' = DOMAIN todo /\ todo' = [k \in DOMAIN todo' |-> todo'[k]]
          /\ \A k \in DOMAIN todo \ {NextPlace} : todo'[k] = todo[k]
          /\ todo'[NextPlace] = [todo[NextPlace] EXCEPT !.expected = Version(calendar, NextChange.id)]
      BY <1>1, <2>1, <2>3 DEF LeftOfBatch
    <3>2. /\ todo'[NextPlace].do = todo[NextPlace].do /\ todo'[NextPlace].id = todo[NextPlace].id
          /\ todo'[NextPlace].set = todo[NextPlace].set /\ todo'[NextPlace].counts = todo[NextPlace].counts
          /\ todo'[NextPlace].on = todo[NextPlace].on /\ DOMAIN todo'[NextPlace] = DOMAIN todo[NextPlace]
      BY <3>1
    <3>3. NextPlace' = NextPlace
      BY <3>1 DEF NextPlace
    <3>4. \A id : Expected(id)' = Expected(id)
      BY <2>1 DEF Expected, Version
    <3>5. Writing'
      BY <2>3 DEF Writing
    <3>6. \A k \in DOMAIN todo :
             LET change == asked'.batch[k]
             IN  /\ todo'[k].do = change.do /\ todo'[k].id = change.id /\ todo'[k].set = change.set /\ todo'[k].counts = change.counts
                 /\ todo'[k].on = asked'.read.events[change.id] /\ "expected" \in DOMAIN todo'[k]
      <4>1. \A k \in DOMAIN todo :
               LET change == asked.batch[k]
               IN  /\ todo[k].do = change.do /\ todo[k].id = change.id /\ todo[k].set = change.set /\ todo[k].counts = change.counts
                   /\ todo[k].on = asked.read.events[change.id] /\ "expected" \in DOMAIN todo[k]
        BY <1>1 DEF LeftOfBatch
      <4>2. \A k \in DOMAIN todo :
               /\ todo'[k].do = todo[k].do /\ todo'[k].id = todo[k].id /\ todo'[k].set = todo[k].set
               /\ todo'[k].counts = todo[k].counts /\ todo'[k].on = todo[k].on /\ DOMAIN todo'[k] = DOMAIN todo[k]
        <5> SUFFICES ASSUME NEW k \in DOMAIN todo
                     PROVE  /\ todo'[k].do = todo[k].do /\ todo'[k].id = todo[k].id /\ todo'[k].set = todo[k].set
                            /\ todo'[k].counts = todo[k].counts /\ todo'[k].on = todo[k].on /\ DOMAIN todo'[k] = DOMAIN todo[k]
          OBVIOUS
        <5>1. CASE k = NextPlace
          BY <3>2, <5>1
        <5>2. CASE k # NextPlace
          <6>1. todo'[k] = todo[k]
            BY <3>1, <5>2
          <6> QED
            BY <6>1
        <5> QED
          BY <5>1, <5>2
      <4> HIDE <3>1, <3>2
      <4> QED
        BY <2>1, <4>1, <4>2
    <3>7. \A k \in DOMAIN todo \ {NextPlace} : todo'[k].do = "create" \/ todo'[k].expected = Expected(asked'.batch[k].id)
      BY <1>1, <2>1, <3>1 DEF LeftOfBatch
    <3>8. DOMAIN todo' \subseteq DOMAIN asked'.batch
      BY <1>1, <2>1, <3>1 DEF LeftOfBatch
    <3> QED
      BY <2>1, <2>3, <3>1, <3>3, <3>4, <3>5, <3>6, <3>7, <3>8 DEF LeftOfBatch
  <2>4. CASE \E kind, ids : Ends(kind, ids)
    BY <1>2, <2>4, EndsIs
  <2> QED
    BY <1>6, <2>2, <2>3, <2>4, WriteCases
<1>7. CASE Record
  <2>1. DOMAIN todo # {} /\ asked' = asked
    BY <1>1, <1>7 DEF Record, LeftOfBatch
  <2>2. NextPlace \in DOMAIN todo
    BY <2>1, NextIs DEF EventsInv
  <2>3. (step' = "writing" /\ todo' = LaterChanges) \/ Ends("failed", {})
    BY <1>7 DEF Record
  <2> QED
    BY <1>1, <1>2, <2>1, <2>2, <2>3, LeftIsLess, EndsIs
<1>8. CASE Finish \/ Stop
  <2>1. \E kind, ids : Ends(kind, ids)
    BY <1>8 DEF Finish, Stop
  <2> QED
    BY <1>2, <2>1, EndsIs
<1>9. CASE Edit \/ Sync \/ UNCHANGED eventVars
  BY <1>3, <1>9 DEF Edit, Sync, eventVars
<1> QED
  BY <1>4, <1>5, <1>6, <1>7, <1>8, <1>9 DEF EventsNext

----------------------------------------------------------------------------
(* What each step keeps: what's written of it *)

LEMMA FinalStays ==
    ASSUME UNCHANGED asked
    PROVE  \A id : Final(id)' = Final(id) /\ Asks(id)' = Asks(id)
<1>1. \A id : Asks(id)' = Asks(id)
  BY DEF Asks
<1> QED
  BY <1>1 DEF Final

\* What the batch wrote before stays so: what's written since has versions
\* of its own.
LEMMA OldWritesStay ==
    ASSUME EventsInv, [EventsNext]_eventVars, UNCHANGED asked, NEW w \in before.wrote
    PROVE  /\ w[1] \in Events /\ Asks(w[1])' # {} /\ w[2] \in Nat /\ w[2] <= calendar'.last
           /\ calendar'.series = w[2] => w[1] \in Instances
           /\ \A id \in Events : calendar'.events[id].version = w[2] => w[1] = id /\ Same(calendar'.events[id], Final(id)')
<1>1. /\ w[1] \in Events /\ Asks(w[1]) # {} /\ w[2] \in Nat /\ w[2] <= calendar.last
      /\ calendar.series = w[2] => w[1] \in Instances
      /\ \A id \in Events : calendar.events[id].version = w[2] => w[1] = id /\ Same(calendar.events[id], Final(id))
  BY DEF EventsInv, WrittenAsAsked
<1>2. calendar.last \in Nat /\ calendar'.last \in Nat /\ calendar.last <= calendar'.last
  BY CalendarMovesOn DEF IsCalendar
<1>3. calendar'.series = w[2] => w[1] \in Instances
  BY <1>1, <1>2, CalendarMovesOn
<1>4. ASSUME NEW id \in Events, calendar'.events[id].version = w[2]
      PROVE  w[1] = id /\ Same(calendar'.events[id], Final(id)')
  <2>1. calendar'.events[id] = calendar.events[id]
    BY <1>1, <1>2, <1>4, CalendarMovesOn
  <2> QED
    BY <1>1, <1>4, <2>1, FinalStays
<1> QED
  BY <1>1, <1>2, <1>3, <1>4, FinalStays

LEMMA WrittenKept ==
    ASSUME EventsInv, [EventsNext]_eventVars
    PROVE  WrittenAsAsked'
<1>1. CASE Ask
  <2>1. before' = [wrote |-> {}, unrecorded |-> {}]
    BY <1>1, AskIs DEF Nothing
  <2>2. before'.wrote = {} /\ before'.unrecorded = {}
    BY <2>1
  <2> QED
    BY <2>1, <2>2 DEF WrittenAsAsked
<1>2. ASSUME UNCHANGED asked, before'.wrote = before.wrote, before' = [wrote |-> before'.wrote, unrecorded |-> before'.unrecorded]
      PROVE  WrittenAsAsked'
  BY <1>2, OldWritesStay DEF WrittenAsAsked
<1>3. before = [wrote |-> before.wrote, unrecorded |-> before.unrecorded]
  BY DEF EventsInv, WrittenAsAsked
<1>4. CASE Write \/ WriteAgain
  <2>1. asked' = asked
    BY <1>4, WriteCases
  <2>2. CASE UNCHANGED <<calendar, before>>
    <3>1. before' = before
      BY <2>2
    <3> QED
      BY <1>2, <1>3, <2>1, <3>1
  <2>3. CASE Makes(NextChange) /\ Same(calendar.events[NextChange.id], asked.read.events[NextChange.id])
    <3> DEFINE id == NextChange.id
               last == calendar.last
    <3>1. /\ calendar' = Written(calendar, id, NextChange.set)
          /\ before' = [wrote |-> before'.wrote, unrecorded |-> before'.unrecorded]
          /\ before'.wrote = before.wrote \cup {<<id, last + 1>>, <<id, last + 2>>}
      BY <1>4, <2>3, MakesIs
    <3>2. /\ id \in Events /\ Sets(NextChange.set, Fields) /\ NextPlace \in DOMAIN asked.batch
          /\ id = asked.batch[NextPlace].id /\ NextChange.set = asked.batch[NextPlace].set
      BY <1>4, WriteCases, NextIs DEF EventsInv
    <3>3. IsCalendar(calendar) /\ last \in Nat /\ calendar.series \in Nat /\ calendar.series <= last
          /\ \A x \in Events : calendar.events[x].version \in Nat /\ calendar.events[x].version <= last
      BY VersionsAre DEF EventsInv, CalendarsOK, VersionsOnce, Known, IsCalendar
    <3>4. /\ \A x \in Events \ {id} : calendar'.events[x] = calendar.events[x]
          /\ Same(calendar'.events[id], Patched(calendar.events[id], NextChange.set))
          /\ calendar'.events[id].version = last + 1
          /\ calendar'.series = (IF id \in Instances THEN last + 2 ELSE calendar.series)
          /\ calendar'.last = last + 2
      BY <3>1, <3>2, <3>3, WrittenIs
    <3>5. Same(calendar'.events[id], Final(id))
      <4>1. Same(calendar.events[id], asked.read.events[id])
        BY <2>3
      <4>2. IsEvent(calendar.events[id]) /\ IsEvent(asked.read.events[id])
        BY <3>2, EventsAre DEF EventsInv
      <4>3. Same(Patched(calendar.events[id], NextChange.set), Patched(asked.read.events[id], NextChange.set))
        BY <3>2, <4>1, <4>2, SamePatched
      <4>4. Final(id) = Patched(asked.read.events[id], NextChange.set)
        BY <3>2, ChangeIs DEF EventsInv
      <4> QED
        BY <3>4, <4>3, <4>4 DEF Same
    <3>6. Asks(id) # {}
      BY <3>2 DEF Asks
    <3>7. ASSUME NEW w \in {<<id, last + 1>>, <<id, last + 2>>}
          PROVE  /\ w[1] \in Events /\ Asks(w[1])' # {} /\ w[2] \in Nat /\ w[2] <= calendar'.last
                 /\ calendar'.series = w[2] => w[1] \in Instances
                 /\ \A x \in Events : calendar'.events[x].version = w[2] => w[1] = x /\ Same(calendar'.events[x], Final(x)')
      <4>1. w[1] = id /\ (w[2] = last + 1 \/ w[2] = last + 2)
        BY <3>7
      <4>2. w[2] \in Nat /\ w[2] <= calendar'.last
        BY <3>3, <3>4, <4>1
      <4>3. calendar'.series = w[2] => w[1] \in Instances
        BY <3>3, <3>4, <4>1
      <4>4. ASSUME NEW x \in Events, calendar'.events[x].version = w[2]
            PROVE  w[1] = x /\ Same(calendar'.events[x], Final(x)')
        <5>1. x = id
          BY <3>3, <3>4, <4>1, <4>4
        <5> QED
          BY <2>1, <3>5, <4>1, <5>1, FinalStays
      <4> QED
        BY <2>1, <3>2, <3>6, <4>1, <4>2, <4>3, <4>4, FinalStays
    <3> QED
      BY <2>1, <3>1, <3>7, OldWritesStay DEF WrittenAsAsked
  <2> QED
    BY <1>4, <2>2, <2>3, WriteCases
<1>5. CASE Record \/ Stop
  <2>1. asked' = asked
    BY <1>5 DEF Record, Stop
  <2>2. before' = before \/ \E x : before' = [before EXCEPT !.unrecorded = x]
    BY <1>5 DEF Record, Stop
  <2>3. before'.wrote = before.wrote /\ before' = [wrote |-> before'.wrote, unrecorded |-> before'.unrecorded]
    BY <1>3, <2>2
  <2> QED
    BY <1>2, <2>1, <2>3
<1>6. CASE AskAgain \/ Check \/ Finish \/ Edit \/ Sync \/ UNCHANGED eventVars
  <2>1. UNCHANGED <<asked, before>>
    BY <1>6 DEF AskAgain, Check, Finish, Edit, Sync, eventVars
  <2> QED
    BY <1>2, <1>3, <2>1
<1> QED
  BY <1>1, <1>4, <1>5, <1>6 DEF EventsNext

\* An event changed, and not by the batch, is another's.
LEMMA ChangedByOthers ==
    ASSUME EventsInv, [EventsNext]_eventVars, UNCHANGED asked, before'.wrote = before.wrote, NEW id \in Events,
           Others(id) \/ calendar'.events[id] # calendar.events[id]
    PROVE  Others(id)'
<1>1. CASE calendar'.events[id] = calendar.events[id]
  BY <1>1 DEF Others, Moved, WroteAs
<1>2. CASE calendar'.events[id] # calendar.events[id]
  <2>1. calendar'.events[id].version = calendar.last + 1 /\ calendar.last \in Nat
    BY <1>2, CalendarMovesOn
  <2>2. asked.read.events[id].version \in Nat /\ asked.read.events[id].version <= calendar.last
    BY VersionsAre DEF EventsInv, Known
  <2>3. \A w \in before.wrote : w[2] <= calendar.last
    BY DEF EventsInv, WrittenAsAsked
  <2> QED
    BY <2>1, <2>2, <2>3 DEF Others, Moved, WroteAs
<1> QED
  BY <1>1, <1>2

LEMMA LaterStays ==
    ASSUME EventsInv, [EventsNext]_eventVars, UNCHANGED <<asked, before>>, NEW id \in Events, LaterVersion(id)
    PROVE  LaterVersion(id)'
<1>1. CASE Others(id)
  BY <1>1, ChangedByOthers DEF LaterVersion, ChangedSince
<1>2. CASE id \in Instances /\ Moved(calendar.series, asked.read.series)
  <2>1. calendar'.series \in {calendar.series, calendar.last + 2}
    BY CalendarMovesOn
  <2>2. asked.read.series \in Nat /\ asked.read.series <= calendar.last /\ calendar.last \in Nat
    BY VersionsAre DEF EventsInv, Known
  <2>3. \A w \in before.wrote : w[2] <= calendar.last
    BY DEF EventsInv, WrittenAsAsked
  <2>4. Moved(calendar.series, asked.read.series)'
    BY <1>2, <2>1, <2>2, <2>3 DEF Moved, WroteAs
  <2> QED
    BY <1>2, <2>4 DEF LaterVersion, ChangedSince
<1>3. CASE Wrote(id) \/ (id \in Instances /\ \E other \in Instances : Wrote(other))
  BY <1>3 DEF LaterVersion, Wrote
<1> QED
  BY <1>1, <1>2, <1>3 DEF LaterVersion, ChangedSince

LEMMA AgainKept ==
    ASSUME EventsInv, [EventsNext]_eventVars
    PROVE  AgainOnTheSame'
<1>1. CASE step' # "again"
  BY <1>1 DEF AgainOnTheSame
<1>2. CASE (Write \/ WriteAgain) /\ step' = "again"
  <2>0. PICK id \in Events : id = NextChange.id
    BY <1>2, WriteCases, NextIs DEF EventsInv
  <2>1. /\ UNCHANGED <<asked, calendar, before>> /\ DOMAIN todo # {}
        /\ todo' = [todo EXCEPT ![NextPlace].expected = Version(calendar, id)]
        /\ NextChange.do # "create" /\ Same(calendar.events[id], NextChange.on) /\ LaterVersion(id)
    BY <1>2, <2>0, WriteCases, MakesIs, EndsIs
  <2>2. NextPlace \in DOMAIN todo /\ id \in Events /\ NextChange = todo[NextPlace]
    BY <2>0, <2>1, NextIs DEF EventsInv, NextChange
  <2>3. NextPlace' = NextPlace
    <3>1. DOMAIN todo' = DOMAIN todo
      BY <2>1
    <3> QED
      BY <3>1 DEF NextPlace
  <2>4. todo = [k \in DOMAIN todo |-> todo[k]] /\ NextPlace \in DOMAIN asked.batch
    BY <2>1, NextIs DEF EventsInv, LeftOfBatch
  <2>5. NextChange' = [NextChange EXCEPT !.expected = Version(calendar, id)]
    BY <2>1, <2>2, <2>3, <2>4 DEF NextChange
  <2>6. "expected" \in DOMAIN NextChange
    BY <2>1, NextIs DEF EventsInv
  <2>7. /\ NextChange'.expected = Version(calendar, id)
        /\ NextChange'.id = id /\ NextChange'.do = NextChange.do /\ NextChange'.on = NextChange.on
    BY <2>0, <2>5, <2>6
  <2>8. Version(calendar, id) \in Nat /\ Version(calendar, id) <= calendar.last
    BY <2>2, VersionsAre DEF EventsInv, Known, Version
  <2>9. LaterVersion(id)'
    BY <2>1, <2>2, LaterStays
  <2>10. Same(calendar'.events[id], NextChange.on) /\ calendar'.last = calendar.last
    BY <2>1
  <2>11. LaterVersion(NextChange.id)'
    BY <2>7, <2>9
  <2> QED
    BY <2>1, <2>7, <2>8, <2>10, <2>11 DEF AgainOnTheSame
<1>3. CASE (Edit \/ Sync \/ UNCHANGED eventVars) /\ step' = "again"
  <2>0. PICK id \in Events : id = NextChange.id
    <3>1. DOMAIN todo # {}
      BY <1>3 DEF Edit, Sync, eventVars, EventsInv, LeftOfBatch
    <3> QED
      BY <3>1, NextIs DEF EventsInv
  <2>1. step = "again" /\ UNCHANGED <<asked, todo, before>> /\ DOMAIN todo # {}
    BY <1>3 DEF Edit, Sync, eventVars, EventsInv, LeftOfBatch
  <2>2. NextChange' = NextChange /\ id \in Events
    BY <2>0, <2>1 DEF NextChange, NextPlace
  <2>3. /\ NextChange.do # "create" /\ NextChange.expected \in Nat /\ NextChange.expected <= calendar.last
        /\ Version(calendar, id) = NextChange.expected => Same(calendar.events[id], NextChange.on)
        /\ LaterVersion(id)
    BY <2>0, <2>1 DEF EventsInv, AgainOnTheSame
  <2>4. LaterVersion(id)'
    BY <2>1, <2>2, <2>3, LaterStays
  <2>5. calendar.last \in Nat /\ calendar.last <= calendar'.last /\ calendar'.last \in Nat
    BY CalendarMovesOn DEF IsCalendar
  <2>6. ASSUME Version(calendar', id) = NextChange.expected
        PROVE  Same(calendar'.events[id], NextChange.on)
    <3>1. calendar'.events[id] = calendar.events[id] /\ Version(calendar', id) = Version(calendar, id)
      <4>1. CASE calendar'.events[id] # calendar.events[id]
        <5>1. Version(calendar', id) = calendar.last + 1
          BY <2>2, <4>1, CalendarMovesOn DEF Version
        <5> QED
          BY <2>3, <2>5, <2>6, <5>1
      <4>2. CASE calendar'.events[id] = calendar.events[id] /\ Version(calendar', id) # Version(calendar, id)
        <5>1. Version(calendar', id) = calendar'.series /\ calendar'.series # calendar.series
          BY <4>2 DEF Version
        <5>2. Version(calendar', id) = calendar.last + 2
          BY <5>1, CalendarMovesOn
        <5> QED
          BY <2>3, <2>5, <2>6, <5>2
      <4> QED
        BY <4>1, <4>2
    <3> QED
      BY <2>3, <2>6, <3>1
  <2>7. NextChange'.expected <= calendar'.last
    BY <2>2, <2>3, <2>5
  <2>8. LaterVersion(NextChange.id)'
    BY <2>0, <2>2, <2>4
  <2> QED
    BY <2>0, <2>2, <2>3, <2>6, <2>7, <2>8 DEF AgainOnTheSame
<1>4. CASE Ask \/ AskAgain \/ Check \/ Record \/ Finish \/ Stop
  <2>1. step' # "again"
    BY <1>4, CheckIs, EndsIs DEF Ask, AskAgain, Record, Finish, Stop
  <2> QED
    BY <1>1, <2>1
<1> QED
  BY <1>1, <1>2, <1>3, <1>4 DEF EventsNext

\* After a step too an event is as it was read, or another's since, or as
\* the batch is to leave it.
LEMMA ReadOrWrittenAfter ==
    ASSUME EventsInv, [EventsNext]_eventVars, NEW id \in Events
    PROVE  \/ calendar'.events[id] = asked'.read.events[id]
           \/ Others(id)'
           \/ Same(calendar'.events[id], Final(id)')
<1> DEFINE e == calendar'.events[id]
           read == asked'.read.events[id]
<1>1. CalendarsOK' /\ WrittenAsAsked'
  BY CalendarsKept, WrittenKept
<1>2. LaterOrSame(read, keeps'.events[id]) /\ LaterOrSame(keeps'.events[id], e)
  BY <1>1 DEF CalendarsOK, Behind
<1>3. IsEvent(e) /\ IsEvent(read) /\ IsEvent(keeps'.events[id])
  BY <1>1 DEF CalendarsOK, Known, IsCalendar
<1>4. e = read \/ read.version < e.version
  BY <1>2, <1>3 DEF LaterOrSame, IsEvent
<1>5. read.version \in Nat /\ e.version \in Nat
  BY <1>3 DEF IsEvent
<1>6. CASE e.version # read.version /\ ~\E w \in before'.wrote : w[2] = e.version
  BY <1>6 DEF Others, Moved, WroteAs
<1>7. CASE \E w \in before'.wrote : w[2] = e.version
  BY <1>1, <1>7 DEF WrittenAsAsked
<1> QED
  BY <1>4, <1>5, <1>6, <1>7

\* What's done stays so, unless another changes it.
LEMMA DoneStays ==
    ASSUME EventsInv, [EventsNext]_eventVars, UNCHANGED asked, NEW k \in DOMAIN asked.batch,
           Others(asked.batch[k].id) \/ Done(asked.batch[k], calendar.events[asked.batch[k].id])
    PROVE  Others(asked.batch[k].id)' \/ Done(asked.batch[k], calendar'.events[asked.batch[k].id])
<1>1. PICK id \in Events : id = asked.batch[k].id
  BY ChangeIs DEF EventsInv
<1>2. id = asked'.batch[k].id
  BY <1>1
<1>3. CASE calendar'.events[id] = asked'.read.events[id]
  <2>1. calendar'.events[id] = asked.read.events[id] /\ asked.read.events[id].version <= calendar.last
        /\ asked.read.events[id].version \in Nat
    BY <1>3, VersionsAre DEF EventsInv, Known
  <2>2. calendar'.events[id] = calendar.events[id]
    <3>1. calendar.last \in Nat
      BY CalendarMovesOn
    <3> QED
      BY <2>1, <3>1, CalendarMovesOn
  <2>3. ~Others(id)
    BY <2>1, <2>2 DEF Others, Moved
  <2> QED
    BY <1>1, <2>2, <2>3
<1>4. CASE Others(id)'
  BY <1>2, <1>4
<1>5. CASE Same(calendar'.events[id], Final(id)')
  <2>1. IsEvent(calendar'.events[id])
    BY CalendarMovesOn DEF IsCalendar
  <2>2. Final(id)' = Final(id)
    BY FinalStays
  <2>3. Done(asked.batch[k], calendar'.events[id])
    BY <1>1, <1>5, <2>1, <2>2, FinalIsDone DEF EventsInv
  <2> QED
    BY <1>1, <2>3
<1> QED
  BY <1>3, <1>4, <1>5, ReadOrWrittenAfter

\* And what's been made is done.
LEMMA MadeIsDone ==
    ASSUME EventsInv, Write \/ WriteAgain, Makes(NextChange)
    PROVE  LET change == asked.batch[NextPlace]
           IN  Done(change, calendar'.events[change.id])
<1>1. PICK id \in Events : id = NextChange.id
  BY WriteCases, NextIs DEF EventsInv
<1>2. /\ NextPlace \in DOMAIN asked.batch /\ id = asked.batch[NextPlace].id /\ Sets(NextChange.set, Fields)
      /\ UNCHANGED asked
  BY <1>1, WriteCases, NextIs DEF EventsInv
<1>3. /\ calendar' = Written(calendar, id, NextChange.set)
      /\ <<id, calendar.last + 1>> \in before'.wrote
  BY <1>1, MakesIs
<1>4. IsCalendar(calendar)
  BY DEF EventsInv, CalendarsOK, Known
<1>5. calendar'.events[id].version = calendar.last + 1 /\ IsCalendar(calendar')
  BY <1>2, <1>3, <1>4, WrittenIs
<1>6. Same(calendar'.events[id], Final(id)')
  <2>1. WrittenAsAsked'
    BY WrittenKept DEF EventsNext
  <2>2. <<id, calendar.last + 1>>[2] = calendar'.events[id].version
    BY <1>5
  <2> QED
    BY <1>3, <2>1, <2>2 DEF WrittenAsAsked
<1>7. Final(id)' = Final(id) /\ IsEvent(calendar'.events[id])
  BY <1>2, <1>5, FinalStays DEF IsCalendar
<1>8. Done(asked.batch[NextPlace], calendar'.events[id])
  BY <1>2, <1>6, <1>7, FinalIsDone DEF EventsInv
<1> QED
  BY <1>2, <1>8

LEMMA DoneKept ==
    ASSUME EventsInv, [EventsNext]_eventVars
    PROVE  DoneOrToDo'
<1>1. ASSUME step' = "checking" \/ (step' = "none" /\ answer' # "made")
      PROVE  DoneOrToDo'
  BY <1>1 DEF DoneOrToDo, Writing
<1>2. ASSUME UNCHANGED asked, Writing \/ (step = "none" /\ answer = "made"), ToBeWritten \subseteq ToBeWritten'
      PROVE  DoneOrToDo'
  BY <1>2, DoneStays DEF EventsInv, DoneOrToDo
<1>3. CASE Ask \/ AskAgain
  BY <1>1, <1>3 DEF Ask, AskAgain
<1>4. CASE Check
  <2>1. CASE step' = "none" /\ answer' # "made"
    BY <1>1, <2>1
  <2>2. CASE step' = "writing"
    <3>1. /\ UNCHANGED <<calendar, asked, before>>
          /\ DOMAIN todo' = {k \in DOMAIN asked.batch : Fresh(asked.batch[k]) = "make"}
          /\ \A k \in DOMAIN asked.batch : Fresh(asked.batch[k]) \notin {"stale", "used"}
      BY <1>4, <2>2, CheckIs
    <3>2. ToBeWritten' = DOMAIN todo'
      BY <2>2 DEF ToBeWritten
    <3>3. ASSUME NEW k \in DOMAIN asked.batch, k \notin DOMAIN todo'
          PROVE  Others(asked.batch[k].id) \/ Done(asked.batch[k], calendar.events[asked.batch[k].id])
      <4> DEFINE id == asked.batch[k].id
      <4>1. Fresh(asked.batch[k]) \notin {"make", "stale", "used"} /\ id \in Events
        BY <3>1, <3>3, ChangeIs DEF EventsInv
      <4>2. CASE asked.batch[k].do = "create"
        <5>1. Done(asked.batch[k], Gets(keeps, id))
          BY <4>1, <4>2 DEF Fresh
        <5>2. CASE ~Live(keeps.events[id])
          BY <5>1, <5>2 DEF Gets
        <5>3. CASE Live(keeps.events[id]) /\ calendar.events[id] = asked.read.events[id]
          <6>1. keeps.events[id] = calendar.events[id]
            BY <4>1, <5>3, VersionsAre DEF EventsInv, LaterOrSame, Known
          <6> QED
            BY <5>1, <5>3, <6>1 DEF Gets
        <5>4. CASE Same(calendar.events[id], Final(id))
          BY <4>1, <5>4, EventsAre, FinalIsDone DEF EventsInv
        <5> QED
          BY <4>1, <5>2, <5>3, <5>4, ReadOrWritten DEF EventsInv
      <4>3. CASE asked.batch[k].do # "create"
        BY <4>1, <4>3 DEF Fresh
      <4> QED
        BY <4>2, <4>3
    <3> QED
      BY <3>1, <3>2, <3>3, DoneStays DEF DoneOrToDo
  <2> QED
    BY <1>4, <2>1, <2>2, CheckIs
<1>5. CASE Write \/ WriteAgain
  <2>1. /\ DOMAIN todo # {} /\ step \in {"writing", "again"} /\ NextPlace \in DOMAIN todo /\ UNCHANGED asked
    BY <1>5, WriteCases, NextIs DEF EventsInv
  <2>2. Writing /\ ToBeWritten = DOMAIN todo
    BY <2>1 DEF Writing, ToBeWritten
  <2>3. CASE Makes(NextChange)
    <3>1. CASE (step' = "recording" /\ UNCHANGED todo) \/ (step' = "writing" /\ todo' = LaterChanges)
      <4>1. ToBeWritten' = DOMAIN todo \ {NextPlace}
        BY <3>1 DEF ToBeWritten, LaterChanges, NextPlace
      <4>2. ASSUME NEW k \in DOMAIN asked.batch, k \notin DOMAIN todo \ {NextPlace}
            PROVE  Others(asked.batch[k].id)' \/ Done(asked.batch[k], calendar'.events[asked.batch[k].id])
        <5>1. CASE k = NextPlace
          BY <1>5, <2>3, <5>1, MadeIsDone
        <5>2. CASE k # NextPlace
          BY <2>1, <2>2, <4>2, <5>2, DoneStays DEF EventsInv, DoneOrToDo
        <5> QED
          BY <5>1, <5>2
      <4> QED
        BY <2>1, <4>1, <4>2 DEF DoneOrToDo
    <3>2. CASE Ends("failed", {})
      BY <1>1, <3>2, EndsIs
    <3> QED
      BY <1>5, <2>3, <3>1, <3>2, MakesIs
  <2>4. CASE step' = "again" /\ todo' = [todo EXCEPT ![NextPlace].expected = Version(calendar, NextChange.id)]
    <3>1. ToBeWritten' = DOMAIN todo
      BY <2>4 DEF ToBeWritten
    <3> QED
      BY <1>2, <2>1, <2>2, <3>1
  <2>5. CASE \E ids : Ends("failed", ids) \/ Ends("stale", ids)
    <3>1. step' = "none" /\ answer' \in {"failed", "stale"}
      BY <2>5 DEF Ends
    <3> QED
      BY <1>1, <3>1
  <2> QED
    BY <1>5, <2>3, <2>4, <2>5, WriteCases
<1>6. CASE Record
  <2>1. CASE step' = "writing" /\ todo' = LaterChanges
    <3>1. step = "recording" /\ UNCHANGED asked
      BY <1>6 DEF Record
    <3>2. ToBeWritten' = ToBeWritten
      BY <2>1, <3>1 DEF ToBeWritten, LaterChanges
    <3> QED
      BY <1>2, <3>1, <3>2 DEF Writing
  <2>2. CASE Ends("failed", {})
    BY <1>1, <2>2, EndsIs
  <2> QED
    BY <1>6, <2>1, <2>2 DEF Record
<1>7. CASE Finish
  <2>1. step = "writing" /\ todo = <<>> /\ Ends("made", {}) /\ UNCHANGED asked
    BY <1>7 DEF Finish
  <2>2. ToBeWritten = {} /\ Writing
    BY <2>1 DEF ToBeWritten, Writing
  <2> QED
    BY <1>2, <2>1, <2>2
<1>8. CASE Stop
  BY <1>1, <1>8, EndsIs DEF Stop
<1>9. CASE Edit \/ Sync \/ UNCHANGED eventVars
  <2>1. UNCHANGED <<asked, todo, step, answer>>
    BY <1>9 DEF Edit, Sync, eventVars
  <2>2. ToBeWritten' = ToBeWritten
    BY <2>1 DEF ToBeWritten, NextPlace
  <2>3. CASE Writing \/ (step = "none" /\ answer = "made")
    BY <1>2, <2>1, <2>2, <2>3
  <2>4. CASE ~Writing /\ ~(step = "none" /\ answer = "made")
    BY <2>1, <2>4 DEF DoneOrToDo, Writing
  <2> QED
    BY <2>3, <2>4
<1> QED
  BY <1>3, <1>4, <1>5, <1>6, <1>7, <1>8, <1>9 DEF EventsNext

LEMMA CancelsKept ==
    ASSUME EventsInv, [EventsNext]_eventVars
    PROVE  CancelsRecorded'
<1>1. CASE Ask
  <2>1. before'.wrote = {}
    BY <1>1, AskIs DEF Nothing
  <2> QED
    BY <2>1 DEF CancelsRecorded, Wrote
<1>2. ASSUME UNCHANGED asked, before'.wrote = before.wrote, recorded \subseteq recorded', before.unrecorded \subseteq before'.unrecorded,
             \/ step # "recording"
             \/ step' = "recording" /\ UNCHANGED todo
             \/ NextChange.id \in recorded' \cup before'.unrecorded
      PROVE  CancelsRecorded'
  <2> SUFFICES ASSUME NEW k \in DOMAIN asked.batch,
                      asked.batch[k].do = "cancel", asked.batch[k].counts, Wrote(asked.batch[k].id)'
               PROVE  asked.batch[k].id \in recorded' \cup before'.unrecorded \/ (step' = "recording" /\ k = NextPlace')
    BY <1>2 DEF CancelsRecorded
  <2>1. Wrote(asked.batch[k].id)
    BY <1>2 DEF Wrote
  <2>2. asked.batch[k].id \in recorded \cup before.unrecorded \/ (step = "recording" /\ k = NextPlace)
    BY <2>1 DEF EventsInv, CancelsRecorded
  <2>3. CASE asked.batch[k].id \in recorded \cup before.unrecorded
    BY <1>2, <2>3
  <2>4. CASE step = "recording" /\ k = NextPlace
    <3>1. DOMAIN todo # {}
      BY <2>4 DEF EventsInv, LeftOfBatch
    <3>2. NextChange.id = asked.batch[k].id
      BY <2>4, <3>1, NextIs DEF EventsInv
    <3>3. UNCHANGED todo => NextPlace' = NextPlace
      BY DEF NextPlace
    <3> QED
      BY <1>2, <2>4, <3>2, <3>3
  <2> QED
    BY <2>2, <2>3, <2>4
<1>3. before = [wrote |-> before.wrote, unrecorded |-> before.unrecorded]
  BY DEF EventsInv, WrittenAsAsked
<1>4. CASE Write \/ WriteAgain
  <2>1. step # "recording" /\ UNCHANGED <<asked, recorded>> /\ DOMAIN todo # {}
    BY <1>4, WriteCases
  <2>2. CASE UNCHANGED before
    BY <1>2, <2>1, <2>2
  <2>3. CASE Makes(NextChange)
    <3>1. /\ before'.wrote = before.wrote \cup {<<NextChange.id, calendar.last + 1>>, <<NextChange.id, calendar.last + 2>>}
          /\ \/ step' = "recording" /\ UNCHANGED todo /\ before'.unrecorded = before.unrecorded
             \/ ~(NextChange.do = "cancel" /\ NextChange.counts) /\ before'.unrecorded = before.unrecorded
             \/ before'.unrecorded = before.unrecorded \cup {NextChange.id}
      BY <1>4, <2>3, MakesIs
    <3>2. /\ NextPlace \in DOMAIN asked.batch /\ NextChange.id = asked.batch[NextPlace].id
          /\ NextChange.do = asked.batch[NextPlace].do /\ NextChange.counts = asked.batch[NextPlace].counts
      BY <2>1, NextIs DEF EventsInv
    <3> SUFFICES ASSUME NEW k \in DOMAIN asked.batch,
                        asked.batch[k].do = "cancel", asked.batch[k].counts, Wrote(asked.batch[k].id)'
                 PROVE  asked.batch[k].id \in recorded' \cup before'.unrecorded \/ (step' = "recording" /\ k = NextPlace')
      BY <2>1 DEF CancelsRecorded
    <3>3. CASE k = NextPlace
      <4>1. NextChange.do = "cancel" /\ NextChange.counts
        BY <3>2, <3>3
      <4>2. UNCHANGED todo => NextPlace' = NextPlace
        BY DEF NextPlace
      <4> QED
        BY <3>1, <3>2, <3>3, <4>1, <4>2
    <3>4. CASE k # NextPlace
      <4>1. asked.batch[k].id # NextChange.id
        BY <3>2, <3>4, ChangeIs DEF EventsInv
      <4>2. Wrote(asked.batch[k].id)
        BY <2>1, <3>1, <4>1 DEF Wrote
      <4>3. asked.batch[k].id \in recorded \cup before.unrecorded
        BY <2>1, <4>2 DEF EventsInv, CancelsRecorded
      <4> QED
        BY <2>1, <3>1, <4>3
    <3> QED
      BY <3>3, <3>4
  <2> QED
    BY <1>4, <2>2, <2>3, WriteCases
<1>5. CASE Record
  <2>1. UNCHANGED asked
    BY <1>5 DEF Record
  <2>2. CASE recorded' = recorded \cup {NextChange.id} /\ UNCHANGED before
    BY <1>2, <2>1, <2>2
  <2>3. CASE recorded' = recorded /\ before' = [before EXCEPT !.unrecorded = before.unrecorded \cup {NextChange.id}]
    <3>1. before'.wrote = before.wrote /\ before'.unrecorded = before.unrecorded \cup {NextChange.id}
      BY <1>3, <2>3
    <3> QED
      BY <1>2, <2>1, <2>3, <3>1
  <2> QED
    BY <1>5, <2>2, <2>3 DEF Record
<1>6. CASE Stop
  <2>1. UNCHANGED <<asked, recorded>>
    BY <1>6 DEF Stop
  <2>2. CASE step # "recording"
    <3>1. before' = before
      BY <1>6, <2>2 DEF Stop
    <3> QED
      BY <1>2, <2>1, <2>2, <3>1
  <2>3. CASE step = "recording"
    <3>1. before' = [before EXCEPT !.unrecorded = before.unrecorded \cup {NextChange.id}]
      BY <1>6, <2>3 DEF Stop
    <3>2. before'.wrote = before.wrote /\ before'.unrecorded = before.unrecorded \cup {NextChange.id}
      BY <1>3, <3>1
    <3> QED
      BY <1>2, <2>1, <3>2
  <2> QED
    BY <2>2, <2>3
<1>7. CASE AskAgain \/ Check \/ Finish
  <2>1. step # "recording" /\ UNCHANGED <<asked, recorded, before>>
    BY <1>7 DEF AskAgain, Check, Finish
  <2> QED
    BY <1>2, <2>1
<1>8. CASE Edit \/ Sync \/ UNCHANGED eventVars
  <2>1. UNCHANGED <<asked, recorded, before, todo, step>>
    BY <1>8 DEF Edit, Sync, eventVars
  <2> QED
    BY <1>2, <2>1
<1> QED
  BY <1>1, <1>4, <1>5, <1>6, <1>7, <1>8 DEF EventsNext

LEMMA StaleKept ==
    ASSUME EventsInv, [EventsNext]_eventVars
    PROVE  StaleForAReason'
<1>1. ASSUME step' # "none" \/ answer' # "stale"
      PROVE  StaleForAReason'
  BY <1>1 DEF StaleForAReason
<1>2. ASSUME UNCHANGED <<asked, before>>, \A id \in stale' : id \in Events /\ LaterVersion(id)
      PROVE  StaleForAReason'
  <2>1. \A id \in Events : LaterVersion(id) => LaterVersion(id)'
    BY <1>2, LaterStays
  <2> QED
    BY <1>2, <2>1 DEF StaleForAReason
<1>3. CASE Check
  <2>1. CASE answer' = "stale" /\ step' = "none" /\ \A id \in stale' : \E k \in DOMAIN asked.batch : asked.batch[k].id = id /\ Fresh(asked.batch[k]) = "stale"
    <3>1. ASSUME NEW id \in stale'
          PROVE  id \in Events /\ LaterVersion(id)
      <4>1. PICK k \in DOMAIN asked.batch : asked.batch[k].id = id /\ Fresh(asked.batch[k]) = "stale"
        BY <2>1
      <4>2. asked.batch[k].do # "create" /\ ~AtExpected(calendar, id)
        BY <4>1 DEF Fresh
      <4>3. id \in Events /\ Live(asked.read.events[id])
        BY <4>1, <4>2, ChangeIs DEF EventsInv, AskedOfRead
      <4> QED
        BY <4>2, <4>3, WhyStale DEF EventsInv
    <3> QED
      BY <1>2, <1>3, <3>1, CheckIs
  <2>2. CASE step' # "none" \/ answer' # "stale"
    BY <1>1, <2>2
  <2> QED
    BY <1>3, <2>1, <2>2, CheckIs
<1>4. CASE Write \/ WriteAgain
  <2>1. CASE Makes(NextChange)
    <3>1. step' # "none" \/ answer' = "failed"
      BY <1>4, <2>1, MakesIs, EndsIs
    <3> QED
      BY <1>1, <3>1
  <2>2. CASE step' = "again"
    BY <1>1, <2>2
  <2>3. CASE Ends("failed", {})
    BY <1>1, <2>3, EndsIs
  <2>4. CASE Ends("stale", {NextChange.id}) /\ LaterVersion(NextChange.id) /\ UNCHANGED <<calendar, before>>
    <3>1. stale' = {NextChange.id} /\ NextChange.id \in Events /\ asked' = asked
      BY <1>4, <2>4, EndsIs, WriteCases, NextIs DEF EventsInv
    <3> QED
      BY <1>2, <2>4, <3>1
  <2> QED
    BY <1>4, <2>1, <2>2, <2>3, <2>4, WriteCases
<1>5. CASE Ask \/ AskAgain \/ Record \/ Finish \/ Stop
  <2>1. step' # "none" \/ answer' # "stale"
    BY <1>5, EndsIs DEF Ask, AskAgain, Record, Finish, Stop
  <2> QED
    BY <1>1, <2>1
<1>6. CASE Edit \/ Sync \/ UNCHANGED eventVars
  <2>1. UNCHANGED <<asked, before, step, answer, stale>>
    BY <1>6 DEF Edit, Sync, eventVars
  <2>2. CASE step = "none" /\ answer = "stale"
    BY <1>2, <2>1, <2>2 DEF EventsInv, StaleForAReason
  <2>3. CASE ~(step = "none" /\ answer = "stale")
    BY <1>1, <2>1, <2>3
  <2> QED
    BY <2>2, <2>3
<1> QED
  BY <1>3, <1>4, <1>5, <1>6 DEF EventsNext

----------------------------------------------------------------------------
(* What each step keeps: that it fits *)

LEMMA OnlyRunsOnIs ==
    ASSUME NEW e, NEW f, IsEvent(f)
    PROVE  OnlyRunsOn(e, f) <=>
              /\ e.end > Guard /\ f.end >= Guard
              /\ f.start = e.start /\ f.val = e.val /\ f.status = e.status
<1>1. DOMAIN f = {"start", "end", "val", "status", "own", "version"}
  BY DEF IsEvent
<1>2. /\ [f EXCEPT !.end = e.end].start = f.start /\ [f EXCEPT !.end = e.end].end = e.end
      /\ [f EXCEPT !.end = e.end].val = f.val /\ [f EXCEPT !.end = e.end].status = f.status
  BY <1>1
<1> QED
  BY <1>2 DEF OnlyRunsOn, Same

\* Where the events around are, as the changes would leave them.
LEMMA PlacedIs ==
    ASSUME NEW kept, NEW changes, NEW id \in Events
    PROVE  LET placed == Placed(kept, changes)
           IN  /\ (\A c \in changes : c.id # id) /\ Live(kept.events[id]) =>
                      id \in DOMAIN placed /\ placed[id] = kept.events[id]
               /\ \A c \in changes : c.id = id /\ c.do # "cancel" /\ (\A d \in changes : d.id = id => d = c) =>
                      id \in DOMAIN placed /\ placed[id] = c.after
<1> DEFINE changed(x) == {change \in changes : change.id = x}
           ids == {x \in Events : IF changed(x) = {} THEN Live(kept.events[x]) ELSE \A change \in changed(x) : change.do # "cancel"}
<1>1. Placed(kept, changes) = [x \in ids |-> IF changed(x) = {} THEN kept.events[x] ELSE (CHOOSE change \in changed(x) : TRUE).after]
  BY DEF Placed
<1>2. ASSUME \A c \in changes : c.id # id, Live(kept.events[id])
      PROVE  id \in ids /\ Placed(kept, changes)[id] = kept.events[id]
  <2>1. changed(id) = {}
    BY <1>2
  <2>2. id \in ids
    BY <1>2, <2>1
  <2> QED
    BY <1>1, <2>1, <2>2
<1>3. ASSUME NEW c \in changes, c.id = id, c.do # "cancel", \A d \in changes : d.id = id => d = c
      PROVE  id \in ids /\ Placed(kept, changes)[id] = c.after
  <2>1. changed(id) = {c}
    BY <1>3
  <2>2. id \in ids /\ changed(id) # {}
    BY <1>3, <2>1
  <2>3. (CHOOSE change \in changed(id) : TRUE) = c
    BY <2>1
  <2>4. Placed(kept, changes)[id] = (CHOOSE change \in changed(id) : TRUE).after
    BY <1>1, <2>2
  <2> QED
    BY <2>2, <2>3, <2>4
<1>4. DOMAIN Placed(kept, changes) = ids
  BY <1>1
<1> HIDE DEF ids, changed
<1> QED
  BY <1>2, <1>3, <1>4

\* After a step nothing is at the version the client read that wasn't.
LEMMA NeverAgainAfter ==
    ASSUME EventsInv, [EventsNext]_eventVars, NEW c \in {calendar', keeps'}, NEW id \in Events, AtExpected(c, id)
    PROVE  AtExpected(keeps, id) \/ AtExpected(calendar, id)
<1> USE DEF EventsInv
<1>1. calendar \in Known /\ keeps \in Known /\ asked.read \in Known
  BY DEF Known
<1>2. Expected(id) \in Nat /\ Expected(id) <= calendar.last /\ calendar.last \in Nat
  BY <1>1, VersionsAre DEF Expected, Version
<1>3. /\ c.series \in {keeps.series, calendar.series} \/ c.series = calendar.last + 2
      /\ c.events[id] \in {keeps.events[id], calendar.events[id]} \/ (c.events[id].own /\ c.events[id].version = calendar.last + 1)
  BY CalendarMovesOn, KeepsSteps
<1>4. CASE c.events[id].own /\ c.events[id].version = calendar.last + 1
  BY <1>2, <1>4 DEF AtExpected, Version
<1>5. CASE c.events[id] \in {keeps.events[id], calendar.events[id]}
  <2>1. PICK b \in {keeps, calendar} : c.events[id] = b.events[id]
    BY <1>5
  <2>2. CASE id \notin Instances \/ c.events[id].own
    <3>1. Version(b, id) = Version(c, id)
      BY <2>1, <2>2 DEF Version
    <3> QED
      BY <2>1, <3>1 DEF AtExpected
  <2>3. CASE id \in Instances /\ ~c.events[id].own
    <3>1. c.events[id] = asked.read.events[id] /\ keeps.events[id] = asked.read.events[id]
      BY <1>1, <2>1, <2>3, VersionsAre DEF LaterOrSame
    <3>2. Expected(id) = asked.read.series /\ Version(c, id) = c.series /\ Version(keeps, id) = keeps.series
      BY <2>3, <3>1 DEF Expected, Version
    <3>3. c.series \in {keeps.series, calendar.series}
      BY <1>2, <1>3, <3>2 DEF AtExpected
    <3>4. /\ asked.read.series \in Nat /\ keeps.series \in Nat /\ calendar.series \in Nat
          /\ asked.read.series <= keeps.series /\ keeps.series <= calendar.series
      BY <1>1, VersionsAre
    <3>5. keeps.series = Expected(id)
      BY <3>2, <3>3, <3>4 DEF AtExpected
    <3> QED
      BY <3>1, <3>2, <3>5 DEF AtExpected
  <2> QED
    BY <2>2, <2>3
<1> QED
  BY <1>3, <1>4, <1>5

\* What another has changed that the batch isn't to write stays so.
LEMMA ForeignStays ==
    ASSUME EventsInv, [EventsNext]_eventVars, ~Ask, NEW id \in Events, Foreign(id)
    PROVE  Foreign(id)'
<1>1. UNCHANGED asked /\ Asks(id)' = Asks(id)
  BY AskedSteps, FinalStays
<1>2. Others(id)'
  <2>1. CASE before'.wrote = before.wrote
    BY <1>1, <2>1, ChangedByOthers DEF Foreign
  <2>2. CASE (Write \/ WriteAgain) /\ Makes(NextChange) /\ (NextChange.do = "create" => calendar.events[NextChange.id].status = "absent")
    <3>1. /\ DOMAIN todo # {} /\ NextPlace \in DOMAIN todo /\ NextPlace \in DOMAIN asked.batch
          /\ NextChange.id = asked.batch[NextPlace].id /\ NextChange.do = asked.batch[NextPlace].do
          /\ NextChange.id \in Events /\ Sets(NextChange.set, Fields)
      BY <2>2, WriteCases, NextIs DEF EventsInv
    <3>2. NextChange.id # id
      <4>1. CASE NextChange.do = "create" /\ NextChange.id = id
        BY <2>2, <4>1, AbsentAsRead DEF EventsInv, Foreign, Others, Moved
      <4>2. CASE NextChange.do # "create" /\ NextChange.id = id
        BY <3>1, <4>2 DEF Foreign, Asks
      <4> QED
        BY <4>1, <4>2
    <3>3. /\ calendar' = Written(calendar, NextChange.id, NextChange.set)
          /\ before'.wrote = before.wrote \cup {<<NextChange.id, calendar.last + 1>>, <<NextChange.id, calendar.last + 2>>}
      BY <2>2, MakesIs
    <3>4. calendar'.events[id] = calendar.events[id]
      BY <3>1, <3>2, <3>3, WrittenIs DEF EventsInv, CalendarsOK, Known
    <3>5. calendar.events[id].version \in Nat /\ calendar.events[id].version <= calendar.last /\ calendar.last \in Nat
      BY VersionsAre DEF EventsInv, Known
    <3>6. \A w \in before'.wrote : w \in before.wrote \/ w[2] = calendar.last + 1 \/ w[2] = calendar.last + 2
      BY <3>3
    <3> QED
      BY <1>1, <3>4, <3>5, <3>6 DEF Foreign, Others, Moved, WroteAs
  <2>3. CASE Write \/ WriteAgain
    BY <2>1, <2>2, <2>3, WriteCases
  <2>4. CASE Record \/ Stop
    <3>1. before' = before \/ \E x : before' = [before EXCEPT !.unrecorded = x]
      BY <2>4 DEF Record, Stop
    <3>2. before = [wrote |-> before.wrote, unrecorded |-> before.unrecorded]
      BY DEF EventsInv, WrittenAsAsked
    <3> QED
      BY <2>1, <3>1, <3>2
  <2>5. CASE AskAgain \/ Check \/ Finish \/ Edit \/ Sync \/ UNCHANGED eventVars
    <3>1. before' = before
      BY <2>5 DEF AskAgain, Check, Finish, Edit, Sync, eventVars
    <3> QED
      BY <2>1, <3>1
  <2> QED
    BY <2>3, <2>4, <2>5 DEF EventsNext
<1>3. ASSUME NEW k \in Asks(id), asked.batch[k].do # "create"
      PROVE  k \notin DOMAIN todo' /\ ~AtExpected(keeps', id) /\ ~AtExpected(calendar', id)
  <2>1. k \notin DOMAIN todo /\ ~AtExpected(keeps, id) /\ ~AtExpected(calendar, id)
    BY <1>3 DEF Foreign
  <2>2. ~AtExpected(keeps', id) /\ ~AtExpected(calendar', id)
    BY <2>1, NeverAgainAfter
  <2>3. k \notin DOMAIN todo'
    <3>1. CASE Check
      <4>1. Fresh(asked.batch[k]) # "make"
        BY <1>3, <2>1 DEF Fresh, Asks
      <4>2. DOMAIN <<>> = {}
        OBVIOUS
      <4> QED
        BY <3>1, <4>1, <4>2, CheckIs
    <3>2. CASE Write \/ WriteAgain
      <4>1. DOMAIN todo' \subseteq DOMAIN todo
        <5>1. CASE todo' = LaterChanges
          BY <5>1 DEF LaterChanges
        <5>2. CASE todo' = [todo EXCEPT ![NextPlace].expected = Version(calendar, NextChange.id)]
          BY <5>2
        <5>3. CASE UNCHANGED todo \/ \E kind, ids : Ends(kind, ids)
          BY <5>3, EndsIs
        <5>4. Makes(NextChange) => todo' = LaterChanges \/ UNCHANGED todo \/ Ends("failed", {})
          BY <3>2, MakesIs
        <5> QED
          BY <3>2, <5>1, <5>2, <5>3, <5>4, WriteCases
      <4> QED
        BY <2>1, <4>1
    <3>3. CASE Record \/ Finish \/ Stop \/ AskAgain \/ Edit \/ Sync \/ UNCHANGED eventVars
      <4>1. CASE todo' = LaterChanges
        BY <2>1, <4>1 DEF LaterChanges
      <4>2. CASE UNCHANGED todo \/ \E kind, ids : Ends(kind, ids)
        BY <2>1, <4>2, EndsIs
      <4> QED
        BY <3>3, <4>1, <4>2 DEF Record, Finish, Stop, AskAgain, Edit, Sync, eventVars
    <3> QED
      BY <3>1, <3>2, <3>3 DEF EventsNext
  <2> QED
    BY <2>2, <2>3
<1>4. /\ AtExpected(keeps, id)' = AtExpected(keeps', id)
      /\ AtExpected(calendar, id)' = AtExpected(calendar', id)
  BY <1>1 DEF AtExpected, Expected, Version
<1> QED
  BY <1>1, <1>2, <1>3, <1>4 DEF Foreign

\* What a check that passes, nothing of the batch written yet, finds of an
\* event: it's planned as it's to be left, or it's left as it was read.
LEMMA PlannedOrAsRead ==
    ASSUME EventsInv, Check, step' = "writing", before.wrote = {}, NEW id \in Events, ~Foreign(id)'
    PROVE  \/ \E k \in DOMAIN todo' : asked.batch[k].id = id
           \/ keeps'.events[id] = asked.read.events[id] /\ Same(Final(id), asked.read.events[id])
<1> DEFINE read == asked.read.events[id]
<1> USE DEF EventsInv
<1>1. /\ UNCHANGED <<calendar, asked, before>>
      /\ DOMAIN todo' = {k \in DOMAIN asked.batch : Fresh(asked.batch[k]) = "make"}
      /\ \A k \in DOMAIN asked.batch : Fresh(asked.batch[k]) \notin {"stale", "used"}
  BY CheckIs
<1>2. SUFFICES ASSUME ~\E k \in DOMAIN todo' : asked.batch[k].id = id
               PROVE  keeps'.events[id] = read /\ Same(Final(id), read)
  OBVIOUS
<1>3. ASSUME NEW k \in DOMAIN asked.batch, asked.batch[k].id = id
      PROVE  Fresh(asked.batch[k]) \notin {"make", "stale", "used"}
  BY <1>1, <1>2, <1>3
<1>4. ~Others(id)
  <2>1. Others(id)' = Others(id) /\ Asks(id)' = Asks(id)
    BY <1>1, FinalStays DEF Others, Moved, WroteAs
  <2>2. ASSUME NEW k \in Asks(id), asked.batch[k].do # "create"
        PROVE  k \notin DOMAIN todo' /\ ~AtExpected(keeps, id)' /\ ~AtExpected(calendar, id)'
    <3>1. k \in DOMAIN asked.batch /\ asked.batch[k].id = id
      BY DEF Asks
    <3>2. ~AtExpected(keeps, id) /\ ~AtExpected(calendar, id)
      BY <1>3, <2>2, <3>1 DEF Fresh
    <3>3. ~AtExpected(keeps', id) /\ ~AtExpected(calendar', id)
      BY <3>2, NeverAgainAfter DEF EventsNext
    <3> QED
      BY <1>1, <1>2, <3>1, <3>3 DEF AtExpected, Expected, Version
  <2> QED
    BY <1>1, <2>1, <2>2 DEF Foreign
<1>5. calendar.events[id] = read
  BY <1>4, ReadOrWritten DEF Wrote
<1>6. keeps.events[id] = read
  BY <1>5, VersionsAre DEF LaterOrSame, Known
<1>7. keeps'.events[id] = read
  BY <1>1, <1>5, <1>6, KeepsSteps DEF EventsNext
<1>8. Same(Final(id), read)
  <2>1. CASE Asks(id) = {}
    BY <2>1 DEF Final, Same
  <2>2. CASE Asks(id) # {}
    <3>1. PICK k \in DOMAIN asked.batch : asked.batch[k].id = id
      BY <2>2 DEF Asks
    <3>2. Final(id) = Patched(read, asked.batch[k].set)
      BY <3>1, ChangeIs
    <3>3. Done(asked.batch[k], read)
      BY <1>3, <1>5, <1>6, <3>1 DEF Fresh, Gets
    <3>4. asked.batch[k].do # "create" => Live(read)
      BY <3>1 DEF AskedOfRead
    <3>5. Same(Patched(read, asked.batch[k].set), read)
      BY <3>3, <3>4 DEF Done, Live
    <3> QED
      BY <3>2, <3>5
  <2> QED
    BY <2>1, <2>2
<1> QED
  BY <1>7, <1>8

\* So, unless another has changed something, it fits.
LEMMA CheckFits ==
    ASSUME EventsInv, Check, step' = "writing", before.wrote = {}, \A id \in Events : ~Foreign(id)'
    PROVE  Fits
<1> DEFINE read(id) == asked.read.events[id]
           changes == {todo'[k] : k \in DOMAIN todo'}
           placed == Placed(keeps', changes)
           isMade(id) == \E k \in DOMAIN todo' : asked.batch[k].id = id
<1>1. /\ DOMAIN todo' = {k \in DOMAIN asked.batch : Fresh(asked.batch[k]) = "make"}
      /\ \A k \in DOMAIN todo' : todo'[k] = Planned(keeps', asked.batch[k])
      /\ \A c \in changes : ~IsHistory(c, c.on, c.after)
      /\ ~Overlaps(placed, changes)
  BY CheckIs
<1>2. PICK ids : keeps' = ReadAgain(ids) /\ \A id \in ids : ~AtExpected(keeps, id)
  BY CheckIs
<1>3. \A k \in DOMAIN todo' :
         LET change == asked.batch[k]
             c == todo'[k]
         IN  /\ k \in DOMAIN asked.batch /\ change.id \in Events /\ c \in changes
             /\ c.do = change.do /\ c.id = change.id /\ c.on = read(change.id) /\ c.after = Final(change.id)
             /\ c.moved = (change.do = "create" \/ c.after.start # c.on.start \/ c.after.end # c.on.end)
             /\ change.do = "create" => read(change.id).status = "absent"
  BY <1>1, <1>2, PlannedOnRead, ChangeIs DEF EventsInv
<1>4. \A id \in Events : isMade(id) \/ (keeps'.events[id] = read(id) /\ Same(Final(id), read(id)))
  BY PlannedOrAsRead
<1>5. \A id \in Events : IsEvent(Final(id)) /\ IsEvent(read(id))
  BY FinalIs, EventsAre DEF EventsInv
<1>6. \A k \in DOMAIN todo' : Live(Final(asked.batch[k].id)) => asked.batch[k].do # "cancel"
  <2> SUFFICES ASSUME NEW k \in DOMAIN todo', Live(Final(asked.batch[k].id))
               PROVE  asked.batch[k].do # "cancel"
    OBVIOUS
  <2>1. Done(asked.batch[k], Final(asked.batch[k].id))
    BY <1>3, <1>5, FinalIsDone DEF EventsInv, Same
  <2> QED
    BY <2>1 DEF Done, Live
<1>7. FinalCalendar.events = [id \in Events |-> Final(id)]
  BY DEF FinalCalendar
<1>8. ASSUME NEW id \in Events, Live(Final(id))
      PROVE  id \in DOMAIN placed /\ Same(placed[id], Final(id))
  <2>1. CASE isMade(id)
    <3>1. PICK k \in DOMAIN todo' : asked.batch[k].id = id
      BY <2>1
    <3>2. todo'[k] \in changes /\ todo'[k].id = id /\ todo'[k].do # "cancel" /\ todo'[k].after = Final(id)
      BY <1>3, <1>6, <1>8, <3>1
    <3>3. \A d \in changes : d.id = id => d = todo'[k]
      BY <1>3, <3>1, ChangeIs DEF EventsInv
    <3> HIDE DEF changes
    <3>4. id \in DOMAIN placed /\ placed[id] = Final(id)
      BY <3>2, <3>3, PlacedIs
    <3> QED
      BY <3>4 DEF Same
  <2>2. CASE ~isMade(id)
    <3>1. \A c \in changes : c.id # id
      BY <1>3, <2>2
    <3>2. keeps'.events[id] = read(id) /\ Same(Final(id), read(id))
      BY <1>4, <2>2
    <3>3. Live(keeps'.events[id])
      BY <1>8, <3>2 DEF Live, Same
    <3> HIDE DEF changes
    <3>4. id \in DOMAIN placed /\ placed[id] = keeps'.events[id]
      BY <3>1, <3>3, PlacedIs
    <3> QED
      BY <3>2, <3>4 DEF Same
  <2> QED
    BY <2>1, <2>2
<1>9. NoneOver(FinalCalendar)
  <2> SUFFICES ASSUME NEW k \in DOMAIN asked.batch,
                      Live(Final(asked.batch[k].id)),
                      <<Final(asked.batch[k].id).start, Final(asked.batch[k].id).end>>
                          # <<read(asked.batch[k].id).start, read(asked.batch[k].id).end>>,
                      NEW other \in Events \ {asked.batch[k].id}, Live(Final(other))
               PROVE  ~Overlap(Final(asked.batch[k].id), Final(other))
    <3>1. \A l \in DOMAIN asked.batch : asked.batch[l].id \in Events
      BY ChangeIs DEF EventsInv
    <3> QED
      BY <1>7, <3>1 DEF NoneOver
  <2>1. PICK id \in Events : id = asked.batch[k].id
    BY ChangeIs DEF EventsInv
  <2>2. Final(id).start # read(id).start \/ Final(id).end # read(id).end
    BY <2>1
  <2>3. PICK l \in DOMAIN todo' : asked.batch[l].id = id
    BY <1>4, <2>2 DEF Same
  <2>4. /\ todo'[l] \in changes /\ todo'[l].do # "cancel" /\ todo'[l].moved
        /\ todo'[l].after = Final(id) /\ todo'[l].id = id
    <3>1. /\ todo'[l] \in changes /\ todo'[l].do # "cancel" /\ todo'[l].do = asked.batch[l].do
          /\ todo'[l].after = Final(id) /\ todo'[l].id = id /\ todo'[l].on = read(id)
      BY <1>3, <1>6, <2>1, <2>3
    <3>2. asked.batch[l].do = "create" \/ todo'[l].after.start # todo'[l].on.start \/ todo'[l].after.end # todo'[l].on.end
      BY <2>2, <3>1
    <3>3. todo'[l].moved = (asked.batch[l].do = "create" \/ todo'[l].after.start # todo'[l].on.start \/ todo'[l].after.end # todo'[l].on.end)
      BY <1>3
    <3>4. todo'[l].moved
      BY <3>2, <3>3, Zenon
    <3> QED
      BY <3>1, <3>4
  <2>5. other \in DOMAIN placed \ {id} /\ Same(placed[other], Final(other))
    BY <1>8, <2>1
  <2> HIDE DEF changes, placed
  <2>6. ~Overlap(placed[other], Final(id))
    BY <1>1, <2>4, <2>5 DEF Overlaps
  <2>7. ~Overlap(Final(id), Final(other))
    BY <2>5, <2>6 DEF Overlap, Same
  <2> QED
    BY <2>1, <2>7
<1>10. HistoryKept(FinalCalendar)
  <2> SUFFICES ASSUME NEW id \in Events
               PROVE  /\ Live(read(id)) /\ read(id).start < Guard => Same(read(id), Final(id)) \/ OnlyRunsOn(read(id), Final(id))
                      /\ Live(Final(id)) /\ Final(id).start < Guard => Live(read(id)) /\ read(id).start < Guard
    BY <1>7 DEF HistoryKept
  <2>1. CASE isMade(id)
    <3>1. PICK k \in DOMAIN todo' : asked.batch[k].id = id
      BY <2>1
    <3>2. ~IsHistory(todo'[k], read(id), Final(id)) /\ todo'[k].do = asked.batch[k].do
      BY <1>1, <1>3, <3>1
    <3>3. IsChange(asked.batch[k]) /\ k \in DOMAIN asked.batch
      BY <1>3, ChangeIs DEF EventsInv
    <3>4. Guard \in Int /\ read(id).start \in Int /\ Final(id).start \in Int
      BY <1>5, EventsAssumption DEF IsEvent
    <3>5. CASE asked.batch[k].do = "update"
      <4>1. Live(read(id))
        BY <3>1, <3>3, <3>5 DEF EventsInv, AskedOfRead
      <4> QED
        BY <3>2, <3>4, <3>5, <4>1 DEF IsHistory
    <3>6. CASE asked.batch[k].do = "cancel"
      <4>1. ~Live(Final(id))
        BY <1>6, <3>1, <3>6
      <4> QED
        BY <3>2, <3>4, <3>6, <4>1 DEF IsHistory
    <3>7. CASE asked.batch[k].do = "create"
      <4>1. ~Live(read(id))
        BY <1>3, <3>1, <3>7 DEF Live
      <4> QED
        BY <3>2, <3>4, <3>7, <4>1 DEF IsHistory
    <3> QED
      BY <3>3, <3>5, <3>6, <3>7 DEF IsChange
  <2>2. CASE ~isMade(id)
    <3>1. Same(Final(id), read(id))
      BY <1>4, <2>2
    <3> QED
      BY <3>1 DEF Same, Live
  <2> QED
    BY <2>1, <2>2
<1> QED
  BY <1>9, <1>10 DEF Fits

LEMMA FitKept ==
    ASSUME EventsInv, [EventsNext]_eventVars
    PROVE  CheckedToFit'
<1>1. CASE Ask
  <2>1. before'.wrote = {} /\ step' = "checking"
    BY <1>1, AskIs DEF Nothing
  <2> QED
    BY <2>1 DEF CheckedToFit, Writing
<1>2. CASE ~Ask
  <2>1. UNCHANGED asked
    BY <1>2, AskedSteps
  <2>2. Fits => Fits'
    <3>1. FinalCalendar' = FinalCalendar
      BY <2>1, FinalStays DEF FinalCalendar
    <3> QED
      BY <2>1, <3>1 DEF Fits, NoneOver, HistoryKept
  <2>3. CASE before.wrote # {} \/ Writing \/ (step = "none" /\ answer = "made")
    <3>1. Fits \/ \E id \in Events : Foreign(id)
      BY <2>3 DEF EventsInv, CheckedToFit
    <3> QED
      BY <1>2, <2>2, <3>1, ForeignStays DEF CheckedToFit
  <2>4. CASE ~(before.wrote # {} \/ Writing \/ (step = "none" /\ answer = "made"))
    <3>1. CASE Check /\ step' = "writing"
      BY <2>2, <2>4, <3>1, CheckFits DEF CheckedToFit
    <3>2. CASE Check /\ step' # "writing"
      <4>1. step' = "none" /\ answer' # "made" /\ before' = before
        BY <3>2, CheckIs
      <4> QED
        BY <2>4, <4>1 DEF CheckedToFit, Writing
    <3>3. CASE Write \/ WriteAgain
      BY <2>4, <3>3, WriteCases DEF Writing
    <3>4. CASE Record \/ Finish
      BY <2>4, <3>4 DEF Record, Finish, Writing
    <3>5. CASE AskAgain \/ Edit \/ Sync \/ UNCHANGED eventVars
      <4>1. before' = before /\ (step' = "checking" \/ (step' = step /\ answer' = answer))
        BY <3>5 DEF AskAgain, Edit, Sync, eventVars
      <4> QED
        BY <2>4, <4>1 DEF CheckedToFit, Writing
    <3>6. CASE Stop
      <4>1. step # "recording"
        BY <2>4 DEF Writing
      <4>2. before' = before /\ step' = "none" /\ answer' = "failed"
        BY <3>6, <4>1 DEF Stop, Ends
      <4> QED
        BY <2>4, <4>2 DEF CheckedToFit, Writing
    <3> QED
      BY <1>2, <3>1, <3>2, <3>3, <3>4, <3>5, <3>6 DEF EventsNext
  <2> QED
    BY <2>3, <2>4
<1> QED
  BY <1>1, <1>2

----------------------------------------------------------------------------
(* What's proved *)

LEMMA EventsStart ==
    ASSUME EventsInit
    PROVE  EventsInv
<1>1. /\ calendar.events = FirstEvents /\ calendar.series = 1 /\ calendar.last = 1
      /\ calendar = [events |-> calendar.events, series |-> calendar.series, last |-> calendar.last]
      /\ keeps = calendar /\ asked.read = calendar /\ asked.batch = <<>>
      /\ step = "none" /\ todo = <<>> /\ answer = "none" /\ edits = 0
      /\ before = [wrote |-> {}, unrecorded |-> {}] /\ before.wrote = {} /\ before.unrecorded = {}
  BY DEF EventsInit, Nothing
<1>2. DOMAIN asked.batch = {} /\ DOMAIN todo = {} /\ todo = [k \in DOMAIN todo |-> todo[k]]
  BY <1>1
<1>3. \A id \in Events :
         LET e == calendar.events[id]
         IN  IsEvent(e) /\ e.version \in {0, 1} /\ (e.own => e.version = 0 /\ e.status # "absent")
  BY <1>1, FirstAssumption
<1>4. calendar.events = [id \in Events |-> calendar.events[id]]
  BY <1>1, FirstAssumption
<1>5. IsCalendar(calendar)
  BY <1>1, <1>3, <1>4 DEF IsCalendar
<1>6. Behind(calendar, calendar)
  BY <1>1 DEF Behind, LaterOrSame
<1>7. CalendarsOK
  BY <1>1, <1>3, <1>5, <1>6 DEF CalendarsOK, Known
<1>8. VersionsOnce
  <2>1. \A c \in Known : c.series = 1 /\ c.events = calendar.events
    BY <1>1 DEF Known
  <2>2. \A c, d \in Known : \A id \in Events : c.events[id].own => c.events[id].version # d.series
    BY <1>3, <2>1
  <2>3. \A c \in Known : c.series <= calendar.last /\ \A id \in Events : c.events[id].version <= calendar.last
    BY <1>1, <1>3, <2>1
  <2> QED
    BY <1>1, <2>2, <2>3 DEF VersionsOnce
<1>9. AskedOfRead /\ LeftOfBatch /\ AgainOnTheSame
  BY <1>1, <1>2 DEF AskedOfRead, LeftOfBatch, AgainOnTheSame, Writing
<1>10. WrittenAsAsked /\ DoneOrToDo /\ CancelsRecorded /\ StaleForAReason /\ CheckedToFit
  BY <1>1, <1>2 DEF WrittenAsAsked, DoneOrToDo, CancelsRecorded, StaleForAReason, CheckedToFit, Writing
<1> QED
  BY <1>1, <1>7, <1>8, <1>9, <1>10 DEF EventsInv

\* Whatever is asked, sent again, lost, stopped or edited elsewhere, each
\* event is as it was read, or another's since, or as the batch leaves it.
THEOREM EventsInvariant == EventsSpec => []EventsInv
<1>1. EventsInit => EventsInv
  BY EventsStart
<1>2. EventsInv /\ [EventsNext]_eventVars => EventsInv'
  <2> SUFFICES ASSUME EventsInv, [EventsNext]_eventVars
               PROVE  EventsInv'
    OBVIOUS
  <2>1. (edits \in Nat)'
    <3>1. edits \in Nat
      BY DEF EventsInv
    <3>2. CASE Write \/ WriteAgain
      BY <3>1, <3>2, WriteCases
    <3>3. CASE Edit
      BY <3>1, <3>3 DEF Edit
    <3>4. CASE Ask \/ AskAgain \/ Check \/ Record \/ Finish \/ Stop \/ Sync \/ UNCHANGED eventVars
      <4>1. edits' = edits
        BY <3>4 DEF Ask, AskAgain, Check, Record, Finish, Stop, Sync, eventVars
      <4> QED
        BY <3>1, <4>1
    <3> QED
      BY <3>2, <3>3, <3>4 DEF EventsNext
  <2> QED
    BY <2>1, CalendarsKept, VersionsKept, AskedKept, LeftKept, AgainKept, WrittenKept,
       DoneKept, CancelsKept, StaleKept, FitKept DEF EventsInv
<1> QED
  BY <1>1, <1>2, PTL DEF EventsSpec

\* An event is written only as the client read it: never over what's been
\* done to it elsewhere since (apply: "the instance otherwise just as it was
\* checked").
THEOREM WrittenOnlyAsRead == EventsSpec => OntoWhatWasRead
<1>1. ASSUME EventsInv, [EventsNext]_eventVars,
             NEW id \in WrittenOver(calendar, calendar'), step \in {"writing", "again"}, edits' = edits
      PROVE  Same(calendar.events[id], asked.read.events[id])
  <2>1. id \in Events /\ calendar'.events[id] # calendar.events[id]
    BY <1>1 DEF WrittenOver
  <2>2. CASE Write \/ WriteAgain
    <3>1. /\ Makes(NextChange)
          /\ Same(calendar.events[NextChange.id], asked.read.events[NextChange.id])
      <4>1. calendar' # calendar
        BY <2>1
      <4> QED
        BY <1>1, <2>2, <4>1, WriteCases
    <3>2. NextChange.id \in Events /\ Sets(NextChange.set, Fields) /\ IsCalendar(calendar)
      <4>1. DOMAIN todo # {} /\ AskedOfRead /\ LeftOfBatch
        BY <1>1, <2>2, WriteCases DEF EventsInv
      <4>2. IsCalendar(calendar)
        BY <1>1 DEF EventsInv, CalendarsOK, Known
      <4> QED
        BY <4>1, <4>2, NextIs
    <3>3. calendar' = Written(calendar, NextChange.id, NextChange.set)
      BY <3>1 DEF Makes
    <3>4. id = NextChange.id
      BY <2>1, <3>2, <3>3, WrittenIs
    <3> QED
      BY <3>1, <3>4
  <2>3. CASE ~(Write \/ WriteAgain)
    <3>1. ~Edit
      BY <1>1 DEF Edit, EventsInv
    <3>2. UNCHANGED calendar
      BY <1>1, <2>3, <3>1 DEF EventsNext, Ask, AskAgain, Check, Record, Finish, Stop, Sync, eventVars
    <3> QED
      BY <2>1, <3>2
  <2> QED
    BY <2>2, <2>3
<1>2. EventsInv /\ [EventsNext]_eventVars =>
         \A id \in WrittenOver(calendar, calendar') :
             step \in {"writing", "again"} /\ edits' = edits => Same(calendar.events[id], asked.read.events[id])
  BY <1>1
<1> QED
  BY <1>2, EventsInvariant, PTL DEF EventsSpec, OntoWhatWasRead

\* What the client's told is so: told it's made, each change is, and each
\* cancel that counts is recorded, unless a sending stopped in between; told
\* an event is stale, it was edited elsewhere or an earlier sending wrote it.
THEOREM AnswersAreSo == EventsSpec => []AnswersSo
<1>1. EventsInv => AnswersSo
  <2> SUFFICES ASSUME EventsInv, step = "none"
               PROVE  /\ answer = "made" => \A k \in DOMAIN asked.batch :
                            LET change == asked.batch[k]
                            IN  /\ ChangedSince(change.id) \/ Done(change, calendar.events[change.id])
                                /\ change.do = "cancel" /\ change.counts /\ Wrote(change.id) =>
                                      change.id \in recorded \/ change.id \in before.unrecorded
                      /\ answer = "stale" => \A id \in stale : LaterVersion(id)
    BY DEF AnswersSo, LaterVersion
  <2>1. ToBeWritten = {}
    BY DEF EventsInv, LeftOfBatch, Writing, ToBeWritten
  <2>2. answer = "made" => \A k \in DOMAIN asked.batch :
            Others(asked.batch[k].id) \/ Done(asked.batch[k], calendar.events[asked.batch[k].id])
    BY <2>1 DEF EventsInv, DoneOrToDo
  <2>3. \A k \in DOMAIN asked.batch :
            LET change == asked.batch[k]
            IN  change.do = "cancel" /\ change.counts /\ Wrote(change.id) => change.id \in recorded \cup before.unrecorded
    BY DEF EventsInv, CancelsRecorded
  <2>4. answer = "stale" => \A id \in stale : LaterVersion(id)
    BY DEF EventsInv, StaleForAReason
  <2> QED
    BY <2>2, <2>3, <2>4 DEF ChangedSince
<1> QED
  BY <1>1, EventsInvariant, PTL

\* Calendars whose events are the same fit alike.
LEMMA FitsAlike ==
    ASSUME CalendarsOK, AskedOfRead, Fits, \A id \in Events : Same(calendar.events[id], Final(id))
    PROVE  NoneOver(calendar) /\ HistoryKept(calendar)
<1>1. FinalCalendar.events = [id \in Events |-> Final(id)]
  BY DEF FinalCalendar
<1>2. \A k \in DOMAIN asked.batch : asked.batch[k].id \in Events
  BY ChangeIs
<1>3. NoneOver(calendar)
  <2> SUFFICES ASSUME NEW k \in DOMAIN asked.batch, NEW id \in Events, id = asked.batch[k].id,
                      Live(calendar.events[id]),
                      <<calendar.events[id].start, calendar.events[id].end>> # <<asked.read.events[id].start, asked.read.events[id].end>>,
                      NEW other \in Events \ {id}, Live(calendar.events[other])
               PROVE  ~Overlap(calendar.events[id], calendar.events[other])
    BY <1>2 DEF NoneOver
  <2>1. Live(Final(id)) /\ Live(Final(other)) /\ Final(id).start = calendar.events[id].start /\ Final(id).end = calendar.events[id].end
    BY DEF Live, Same
  <2>2. <<Final(id).start, Final(id).end>> # <<asked.read.events[id].start, asked.read.events[id].end>>
    BY <2>1
  <2>3. ~Overlap(Final(id), Final(other))
    <3>1. id \in {asked.batch[l].id : l \in DOMAIN asked.batch}
      OBVIOUS
    <3>2. FinalCalendar.events[id] = Final(id) /\ FinalCalendar.events[other] = Final(other)
      BY <1>1
    <3>3. NoneOver(FinalCalendar)
      BY DEF Fits
    <3> QED
      BY <2>1, <2>2, <3>1, <3>2, <3>3 DEF NoneOver
  <2> QED
    BY <2>3 DEF Overlap, Same
<1>4. HistoryKept(calendar)
  <2> SUFFICES ASSUME NEW id \in Events
               PROVE  LET e == asked.read.events[id]
                          f == calendar.events[id]
                      IN  /\ Live(e) /\ e.start < Guard => Same(e, f) \/ OnlyRunsOn(e, f)
                          /\ Live(f) /\ f.start < Guard => Live(e) /\ e.start < Guard
    BY DEF HistoryKept
  <2> DEFINE e == asked.read.events[id]
             f == Final(id)
  <2>1. /\ Live(e) /\ e.start < Guard => Same(e, f) \/ OnlyRunsOn(e, f)
        /\ Live(f) /\ f.start < Guard => Live(e) /\ e.start < Guard
    BY <1>1 DEF Fits, HistoryKept
  <2>2. IsEvent(f) /\ IsEvent(calendar.events[id]) /\ Same(calendar.events[id], f)
    BY FinalIs, EventsAre
  <2>3. OnlyRunsOn(e, f) => OnlyRunsOn(e, calendar.events[id])
    BY <2>2, OnlyRunsOnIs DEF Same
  <2>4. Same(e, f) => Same(e, calendar.events[id])
    BY <2>2 DEF Same
  <2> QED
    BY <2>1, <2>2, <2>3, <2>4 DEF Same, Live
<1> QED
  BY <1>3, <1>4

\* A batch told made, nobody else having changed what it was checked
\* against, leaves nothing it moves over another event and history as it
\* was -- all of it together, however many sendings it took.
THEOREM BatchesAreFit == EventsSpec => []BatchesFit
<1>1. EventsInv => BatchesFit
  <2> SUFFICES ASSUME EventsInv, answer = "made", step = "none", NobodyElse
               PROVE  NoneOver(calendar) /\ HistoryKept(calendar)
    BY DEF BatchesFit
  <2>1. Fits
    BY DEF EventsInv, CheckedToFit, Foreign, NobodyElse
  <2>2. \A k \in DOMAIN asked.batch : Done(asked.batch[k], calendar.events[asked.batch[k].id])
    <3>1. ToBeWritten = {}
      BY DEF EventsInv, LeftOfBatch, Writing, ToBeWritten
    <3>2. \A k \in DOMAIN asked.batch : asked.batch[k].id \in Events
      BY ChangeIs DEF EventsInv
    <3> QED
      BY <3>1, <3>2 DEF EventsInv, DoneOrToDo, NobodyElse
  <2>3. ASSUME NEW id \in Events
        PROVE  Same(calendar.events[id], Final(id))
    <3> DEFINE read == asked.read.events[id]
    <3>1. CASE calendar.events[id] = read /\ Asks(id) = {}
      BY <3>1 DEF Final, Same
    <3>2. CASE calendar.events[id] = read /\ Asks(id) # {}
      <4>1. PICK k \in DOMAIN asked.batch : asked.batch[k].id = id
        BY <3>2 DEF Asks
      <4>2. Final(id) = Patched(read, asked.batch[k].set)
        BY <4>1, ChangeIs DEF EventsInv
      <4>3. Done(asked.batch[k], read) /\ (asked.batch[k].do # "create" => Live(read))
        BY <2>2, <3>2, <4>1 DEF EventsInv, AskedOfRead
      <4>4. Same(Patched(read, asked.batch[k].set), read)
        BY <4>3 DEF Done, Live
      <4> QED
        BY <3>2, <4>2, <4>4 DEF Same
    <3> QED
      BY <3>1, <3>2, ReadOrWritten DEF EventsInv, NobodyElse
  <2> QED
    BY <2>1, <2>3, FitsAlike DEF EventsInv
<1> QED
  BY <1>1, EventsInvariant, PTL
=============================================================================
