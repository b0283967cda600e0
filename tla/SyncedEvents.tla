---------------------------- MODULE SyncedEvents ----------------------------
(***************************************************************************)
(* The calendar kept in memory (google/synced.rs, calendar.rs): what's     *)
(* kept of each event (store.events) is brought up to date by incremental  *)
(* syncs, one at a time, while a tool writes.  Calendar's feed lags what's *)
(* written, so a write marks its event (and series) as the server's own    *)
(* for a while, and its answer is kept: neither is the user to be warned   *)
(* of the server's own changes, nor a lagging sync to take one back.       *)
(*                                                                         *)
(* An event's versions are numbered as Calendar makes them: a version's    *)
(* number stands for its etag, and its `at` for its `updated`.             *)
(***************************************************************************)
EXTENDS Integers, Sequences, FiniteSetsExt

CONSTANTS
    Events,       \* ids of events, series and instances edited on their own
    SeriesOf,     \* the series each instance is of; NONE for one of none
    All,          \* what a write to any event (a label) is to: id None
    NONE,         \* no series, no token
    Courses,      \* what's checked, one of them at a time: the events there are before
                  \* the server starts (existing), those written or changed (among), and
                  \* bounds: writing calls (writes), changes made in Calendar itself
                  \* (outside), syncs begun, full listings, time zones set (forgets) and
                  \* tools that mark the calendar stale
    ForgetsAnytime \* whether a time zone is set while a sync is under way, too

Outside == "outside"
Keys == Events \cup {All}
MARK_SYNCS == 2

ASSUME KeysAssumption ==
    /\ IsFiniteSet(Events)
    /\ All \notin Events /\ NONE \notin Events /\ Outside \notin Keys
    /\ NONE \notin [Events -> Nat]
ASSUME SeriesAssumption ==
    /\ SeriesOf \in [Events -> Events \cup {NONE}]
    /\ \A e \in Events : SeriesOf[e] # NONE => SeriesOf[SeriesOf[e]] = NONE
Course == [existing : SUBSET Events, among : SUBSET Events, writes : Nat, outside : Nat,
           syncs : Nat, listings : Nat, forgets : Nat, stale : Nat]
ASSUME CoursesAssumption == Courses \subseteq Course
ASSUME ForgetsAssumption == ForgetsAnytime \in BOOLEAN

VARIABLES
    made,   \* Calendar: each event's versions, oldest first
    clock,  \* Calendar: when it last changed
    feed,   \* Calendar: the version of each event its change feed has got to
    shown,  \* Calendar: the version of each event its full listings have got to
    store,  \* the Store kept of the calendar
    sync,   \* the sync under way
    call,   \* the writing call under way
    left,   \* the course, and what of it may still happen
    past    \* history: when the last sync taken in asked (read), the writes under
            \* way all through the one that last cleared stale (spanned), and
            \* what was ever written, and whether the calendar was ever forgotten

vars == <<made, clock, feed, shown, store, sync, call, left, past>>

Version == [at : Nat, live : BOOLEAN, by : Keys \cup {Outside}]
Ages == {"never", "fresh", "old", "expired"}
Mark == [writing : Nat, age : Ages, endedAt : Nat, syncsAfter : 0 .. MARK_SYNCS, etag : Nat]
Unmarked == [writing |-> 0, age |-> "never", endedAt |-> 0, syncsAfter |-> 0, etag |-> 0]
Answer == [version : Nat, deleted : BOOLEAN]
NoAnswer == [version |-> 0, deleted |-> FALSE]
Numbers == [Events -> Nat]
Nothing == [e \in Events |-> 0]

Store == [events : Numbers, token : Numbers \cup {NONE}, stale : BOOLEAN,
          generation : Nat, written : [Keys -> Mark], answers : [Events -> Answer],
          ended : SUBSET Events, outside : SUBSET (Events \X Nat), listed : Nat, syncs : Nat]

\* A Store nothing has been kept in yet.
Empty == [events |-> Nothing, token |-> NONE, stale |-> FALSE, generation |-> 0,
          written |-> [k \in Keys |-> Unmarked], answers |-> [e \in Events |-> NoAnswer],
          ended |-> {}, outside |-> {}, listed |-> 0, syncs |-> 0]

\* (asked and during are history: the clock as it asked, the writes it began during.)
NoSync == [at |-> "idle", token |-> NONE, generation |-> 0, number |-> 0, full |-> FALSE,
           items |-> Nothing, next |-> Nothing, asked |-> 0, during |-> {}]

\* Each event a writing call writes to: not yet answered, refused (a 412),
\* failed, made as the version numbered, or its answer noted.
Stages == {"sent", "refused", "failed", "made", "noted"}
NoCall == [kind |-> "none", stage |-> <<>>, base |-> Nothing, version |-> Nothing]

Init ==
    /\ left \in Courses
    /\ made = [e \in Events |->
                 IF e \in left.existing THEN <<[at |-> 1, live |-> TRUE, by |-> Outside]>> ELSE <<>>]
    /\ clock = 1  \* when those existing were made
    /\ feed = [e \in Events |-> Len(made[e])]
    /\ shown = feed
    /\ store = Empty
    /\ sync = NoSync
    /\ call = NoCall
    /\ past = [read |-> 0, spanned |-> {}, written |-> {}, forgot |-> FALSE]

Spend(what) == left[what] > 0 /\ left' = [left EXCEPT ![what] = @ - 1]
Calendar == <<made, clock, feed, shown>>

----------------------------------------------------------------------------
(* The Store's operations.                                                 *)

IsSeries(e) == \E i \in Events : SeriesOf[i] = e
Instances(e) == {i \in Events : SeriesOf[i] = e}

\* The ids a write to k marks, and a change to k is looked for under: k and its series.
KeysOf(k) == IF k = All THEN {All} ELSE {k, SeriesOf[k]} \ {NONE}

\* mutant: only how long ago the write ended counts
HoldsForAWhile(mark) == mark.writing > 0 \/ mark.age = "fresh"
Holds(mark) ==
    \/ mark.writing > 0
    \/ mark.age = "fresh"
    \/ mark.age = "old" /\ mark.syncsAfter < MARK_SYNCS

IsOurs(s, e) == \E k \in {All} \cup KeysOf(e) : Holds(s.written[k])

WritesOf(keys, j) == Cardinality({k \in keys : j \in KeysOf(k)})
Begun(mark, writes) == [mark EXCEPT !.writing = @ + writes]

\* Writing begun for each of keys.
WritingUncounted(s, keys) ==  \* mutant: a write beginning doesn't move the generation on
    [s EXCEPT !.stale = TRUE,
              !.written = [j \in Keys |-> Begun(@[j], WritesOf(keys, j))]]
Writing(s, keys) ==
    [s EXCEPT !.stale = TRUE, !.generation = @ + Cardinality(keys),
              !.written = [j \in Keys |-> Begun(@[j], WritesOf(keys, j))]]

Ended(mark, syncs, etag) ==
    [mark EXCEPT !.writing = IF @ > 0 THEN @ - 1 ELSE 0, !.etag = etag,
                 !.age = "fresh", !.endedAt = syncs, !.syncsAfter = 0]

Wrote(s, k, etag) ==
    [s EXCEPT !.generation = @ + 1,
              !.written = [j \in Keys |->
                  IF j \notin KeysOf(k) \/ @[j] = Unmarked THEN @[j]
                  ELSE Ended(@[j], s.syncs, IF j = k THEN etag ELSE @[j].etag)]]

Live(e, i) == made[e][i].live

\* mutant: what comes is kept, newer or not
KeepWhatCame(s, e, i) == [s EXCEPT !.events[e] = i]
Keep(s, e, i) == IF s.events[e] > i THEN s ELSE KeepWhatCame(s, e, i)

\* The answer to a write of kind, made as version i: kept, to know it by when
\* it comes, and (for an edit) as the event.
Answered(s, kind, e, i) ==
    CASE kind = "delete" -> [s EXCEPT !.answers[e] = [version |-> 0, deleted |-> TRUE]]
      [] kind = "label"  -> s
      [] OTHER -> Keep([s EXCEPT !.answers[e] = [version |-> i, deleted |-> FALSE],
                                 !.ended = IF kind = "end" THEN @ \cup Instances(e) ELSE @], e, i)

AnswerIs(s, e, i) ==
    \/ s.answers[e].version = i
    \/ s.answers[e].deleted /\ ~Live(e, i)
AnswerPassedBy(s, e, i) ==
    IF s.answers[e].deleted THEN Live(e, i) ELSE s.answers[e].version < i

IsAnswer(s, e, i) ==
    \/ AnswerIs(s, e, i)
    \/ ~Live(e, i) /\ e \in s.ended
    \/ ~Live(e, i) /\ SeriesOf[e] # NONE /\ s.answers[SeriesOf[e]].deleted

Newest(items) == Max({0} \cup {made[e][items[e]].at : e \in {e \in Events : items[e] > 0}})

ChangedSinceListed(s, e, i) == made[e][i].at > s.listed

\* A cancelled event that comes cancelled again: Calendar re-stamps those.
Restamped(s, e, i) == ~Live(e, i) /\ s.events[e] > 0 /\ ~Live(e, s.events[e])

\* Version i of e has come back: its answer is done with, and its mark if the
\* version is what its last write was answered with.
Brought(s, e, i) ==
    LET back == ~IsSeries(e) /\ s.written[e].writing = 0 /\ s.written[e].etag = i
    IN  [s EXCEPT !.answers[e] = IF AnswerIs(s, e, i) \/ AnswerPassedBy(s, e, i) THEN NoAnswer ELSE @,
                  !.written[e] = IF back THEN Unmarked ELSE @]

\* mutant: one of the server's own isn't kept
TakeInOthers(s, e, i, full) ==
    IF IsOurs(s, e) THEN Brought(s, e, i) ELSE Keep(Brought(s, e, i), e, i)
TakeInItem(s, e, i, full) ==
    LET warn == /\ ~full
                /\ ~Restamped(s, e, i)
                /\ ChangedSinceListed(s, e, i)
                /\ ~IsOurs(s, e)
                /\ ~IsAnswer(s, e, i)
        noted == IF warn THEN [s EXCEPT !.outside = @ \cup {<<e, i>>}] ELSE s
    IN  Keep(Brought(noted, e, i), e, i)

\* What came taken in.  All that one event's takes in of another's is whether its
\* series had come back before it, as those of `after` had.
TakeInAll(s, items, full, after) ==
    LET came == {e \in Events : items[e] > 0}
        Before(e) == IF e \in after THEN Brought(s, SeriesOf[e], items[SeriesOf[e]]) ELSE s
        taken == [e \in came |-> TakeInItem(Before(e), e, items[e], full)]
    IN  [s EXCEPT !.events = [e \in Events |-> IF e \in came THEN taken[e].events[e] ELSE @[e]],
                  !.answers = [e \in Events |-> IF e \in came THEN taken[e].answers[e] ELSE @[e]],
                  !.written = [k \in Keys |-> IF k \in came THEN taken[k].written[k] ELSE @[k]],
                  !.outside = @ \cup UNION {taken[e].outside : e \in came}]

\* After a full listing: what it didn't list is dropped, but what the server wrote lately.
KeepListed(s, items) ==  \* mutant: what the server wrote is dropped too
    [s EXCEPT !.events = [e \in Events |-> IF items[e] > 0 THEN @[e] ELSE 0]]
KeepOnly(s, items) ==
    [s EXCEPT !.events = [e \in Events |-> IF items[e] > 0 \/ IsOurs(s, e) THEN @[e] ELSE 0]]

\* A mark after a sync begun since its last write ended.
SyncedMark(mark, number) ==
    IF mark.writing = 0 /\ mark.age # "never" /\ number > mark.endedAt /\ mark.syncsAfter < MARK_SYNCS
    THEN [mark EXCEPT !.syncsAfter = @ + 1] ELSE mark
Synced(s, number) == [s EXCEPT !.written = [k \in Keys |-> SyncedMark(@[k], number)]]

\* (Answers and ends lapse a day later, which no behaviour here is long enough for.)
Lapse(s) == [s EXCEPT !.written = [k \in Keys |-> IF Holds(@[k]) THEN @[k] ELSE Unmarked]]

----------------------------------------------------------------------------
(* Calendar, which anyone may change, and its feed, which lags it.         *)

Latest(e) == Len(made[e])
LiveNow(e) == Latest(e) > 0 /\ Live(e, Latest(e))

\* Each event of DOMAIN live gets a version, live or cancelled.
Change(live, by) ==
    /\ clock' = clock + 1
    /\ made' = [e \in Events |->
                  IF e \in DOMAIN live
                  THEN Append(made[e], [at |-> clock + 1, live |-> live[e], by |-> by])
                  ELSE made[e]]

\* The user creates, edits, cancels or brings back an event, or Calendar
\* re-stamps one cancelled.
OutsideChanges(e, live) ==
    /\ Spend("outside")
    /\ Latest(e) = 0 => live
    /\ Change([x \in {e} |-> live], Outside)
    /\ UNCHANGED <<feed, shown, store, sync, call, past>>

FeedMoves(e) ==
    /\ feed[e] < Latest(e)
    /\ feed' = [feed EXCEPT ![e] = @ + 1]
    /\ UNCHANGED <<made, clock, shown, store, sync, call, left, past>>

----------------------------------------------------------------------------
(* A writing call: one at a time, under the write lock; a batch is of      *)
(* edits only.                                                             *)

Stage(stage) == \A k \in DOMAIN call.stage : call.stage[k] \in stage
To(k, stage) == [call EXCEPT !.stage[k] = stage]

Begin(kind, keys) ==
    /\ call = NoCall
    /\ Spend("writes")
    /\ store' = Writing(store, keys)
    /\ call' = [kind |-> kind, stage |-> [k \in keys |-> "sent"],
                base |-> store.events, version |-> Nothing]
    /\ past' = [past EXCEPT !.written = @ \cup UNION {KeysOf(k) : k \in keys}]
    /\ UNCHANGED <<Calendar, sync>>

BeginCall ==
    \/ \E keys \in (SUBSET left.among) \ {{}} : Begin("edit", keys)
    \/ \E e \in left.among : Begin("delete", {e})
    \/ \E e \in {e \in left.among : IsSeries(e)} : Begin("end", {e})
    \/ Begin("label", {All})

\* What a write to k changes: it and, of a series, its instances.
Changes(k) ==
    LET there == {e \in Events : Latest(e) > 0}
        instances == {e \in there : SeriesOf[e] = k /\ LiveNow(e)}
    IN  CASE call.kind = "label"  -> {[e \in es |-> LiveNow(e)] : es \in (SUBSET there) \ {{}}}
          [] call.kind = "delete" -> {[e \in {k} \cup instances |-> FALSE]}
          [] call.kind = "end"    -> {[e \in {k} \cup instances |-> e = k]}
          [] OTHER -> {[e \in {k} \cup es |-> TRUE] : es \in SUBSET instances}

CalendarMakes(k) ==
    /\ call.stage[k] = "sent"
    /\ k \in Events => LiveNow(k) \/ (call.kind = "edit" /\ Latest(k) = 0)
    /\ \E live \in Changes(k) : Change(live, k)
    /\ call' = IF k = All THEN To(k, "made")
               ELSE [To(k, "made") EXCEPT !.version[k] = Latest(k) + 1]
    /\ UNCHANGED <<feed, shown, store, sync, left, past>>

\* A 412: the version the write was made from isn't Calendar's.
CalendarRefuses(k) ==
    /\ call.stage[k] = "sent"
    /\ call.kind \in {"edit", "end"}
    /\ call.base[k] \in 1 .. Latest(k) - 1
    /\ call' = To(k, "refused")
    /\ UNCHANGED <<Calendar, store, sync, left, past>>

WriteFails(k) ==
    /\ call.stage[k] = "sent"
    /\ call' = To(k, "failed")
    /\ UNCHANGED <<Calendar, store, sync, left, past>>

\* The connection fails: what Calendar made it may still have made.
LoseAnswers ==
    /\ call # NoCall
    /\ Stage({"sent", "made", "refused", "failed"}) /\ ~Stage({"failed"})
    /\ call' = [call EXCEPT !.stage = [k \in DOMAIN @ |-> "failed"]]
    /\ UNCHANGED <<Calendar, store, sync, left, past>>

NoteAnswer(k) ==
    /\ call.stage[k] = "made"
    /\ ~\E j \in DOMAIN call.stage : call.stage[j] = "sent"
    /\ store' = IF k = All THEN store ELSE Answered(store, call.kind, k, call.version[k])
    /\ call' = To(k, "noted")
    /\ UNCHANGED <<Calendar, sync, left, past>>

\* The event is read from Calendar itself and kept, or for an instance kept
\* only as its series, its series is.
RefreshStale(k) ==
    /\ call.stage[k] = "refused"
    /\ ~\E j \in DOMAIN call.stage : call.stage[j] = "sent"
    /\ LET e == IF SeriesOf[k] = NONE \/ store.events[k] > 0 THEN k ELSE SeriesOf[k]
       IN  store' = IF Latest(e) > 0 THEN Keep(store, e, Latest(e)) ELSE store
    /\ call' = To(k, "failed")
    /\ UNCHANGED <<Calendar, sync, left, past>>

\* Writing is dropped.
End(k) ==
    /\ Stage({"noted", "failed"})
    /\ LET etag == IF k # All /\ call.stage[k] = "noted" /\ call.kind # "delete"
                   THEN call.version[k] ELSE 0
       IN  store' = Wrote(store, k, etag)
    /\ LET rest == DOMAIN call.stage \ {k}
       IN  call' = IF rest = {} THEN NoCall
                   ELSE [call EXCEPT !.stage = [j \in rest |-> @[j]]]
    /\ UNCHANGED <<Calendar, sync, left, past>>

\* A tool that writes has what it reads first synced (calendar_stale).
MarkStale ==
    /\ call = NoCall
    /\ Spend("stale")
    /\ store' = [store EXCEPT !.stale = TRUE]
    /\ UNCHANGED <<Calendar, sync, call, past>>

\* set_time_zone, a writing call of its own.
Forget ==
    /\ call = NoCall
    /\ ForgetsAnytime \/ sync = NoSync
    /\ Spend("forgets")
    /\ store' = [Empty EXCEPT !.generation = store.generation + 1]
    /\ past' = [past EXCEPT !.forgot = TRUE]
    /\ UNCHANGED <<Calendar, sync, call>>

----------------------------------------------------------------------------
(* A sync: one at a time, at any time.                                     *)

SyncBegins ==
    /\ sync = NoSync
    /\ Spend("syncs")
    /\ store' = [store EXCEPT !.syncs = @ + 1]
    /\ sync' = [NoSync EXCEPT !.at = "begun", !.token = store.token,
                              !.generation = store.generation, !.number = store.syncs + 1,
                              !.during = DOMAIN call.stage]
    /\ UNCHANGED <<Calendar, call, past>>

SyncAsks ==
    /\ sync.at = "begun" /\ sync.token # NONE
    /\ sync' = [sync EXCEPT !.at = "answered", !.next = feed, !.asked = clock,
                   !.items = [e \in Events |-> IF feed[e] > sync.token[e] THEN feed[e] ELSE 0]]
    /\ UNCHANGED <<Calendar, store, call, left, past>>

\* The first time, or when the token is too old (a 410): everything, as new as
\* the feed or newer (though no older than listed before); the token is where the feed is.
SyncLists(items) ==
    /\ sync.at = "begun"
    /\ \A e \in Events : items[e] \in Max({feed[e], shown[e]}) .. Latest(e)
    /\ shown' = items
    /\ Spend("listings")
    /\ sync' = [sync EXCEPT !.at = "answered", !.full = TRUE, !.items = items,
                            !.next = feed, !.asked = clock]
    /\ UNCHANGED <<made, clock, feed, store, call, past>>

SyncFails ==
    /\ sync.at = "begun"
    /\ sync' = NoSync
    /\ UNCHANGED <<Calendar, store, call, left, past>>

\* What came, in the order it came, taken in; the token moved on; stale
\* cleared unless a write began or ended meanwhile.
TakesIn ==
    /\ sync.at = "answered"
    /\ \E after \in SUBSET {e \in Events : /\ sync.items[e] > 0 /\ SeriesOf[e] # NONE
                                          /\ sync.items[SeriesOf[e]] > 0} :
         LET s == IF sync.full THEN [store EXCEPT !.listed = Newest(sync.items)] ELSE store
             taken == TakeInAll(s, sync.items, sync.full, after)
             kept == IF sync.full THEN KeepOnly(taken, sync.items) ELSE taken
             fresh == [kept EXCEPT !.token = sync.next,
                         !.stale = @ /\ store.generation # sync.generation]
         IN  store' = Lapse(Synced(fresh, sync.number))
    /\ past' = [past EXCEPT !.read = sync.asked,
                   !.spanned = IF store.generation = sync.generation
                               THEN sync.during \cap DOMAIN call.stage ELSE @]
    /\ sync' = NoSync
    /\ UNCHANGED <<Calendar, call, left>>

----------------------------------------------------------------------------
(* Time passing since a mark's last write ended: MARK_LAPSES, then         *)
(* MARK_HOLDS_AT_MOST.                                                     *)

\* The server's versions that k's mark is for: those of writes that marked k.
MarkedFor(k) == {v \in UNION {{e} \X (1 .. Latest(e)) : e \in Events} :
                   made[v[1]][v[2]].by \in Keys /\ k \in KeysOf(made[v[1]][v[2]].by)}

\* The times Calendar is assumed to keep: within MARK_LAPSES its feed has what
\* was written, in every sync answered by then -- and the second sync since.
PromptFeed(k) ==
    \A v \in MarkedFor(k) :
        /\ v[2] <= feed[v[1]]
        /\ sync.at = "answered" => v[2] <= sync.next[v[1]]
        /\ store.written[k].syncsAfter = MARK_SYNCS =>
              store.token # NONE /\ v[2] <= store.token[v[1]]

\* ... and the calendar is synced within MARK_HOLDS_AT_MOST.
SyncedByThen(k) ==
    \A v \in MarkedFor(k) : store.token # NONE /\ v[2] <= store.token[v[1]]

Becomes(k, age) ==
    /\ store' = [store EXCEPT !.written[k].age = age]
    /\ UNCHANGED <<Calendar, sync, call, left, past>>

MarkAges(k) ==
    /\ store.written[k].writing = 0
    /\ \/ store.written[k].age = "fresh" /\ PromptFeed(k) /\ Becomes(k, "old")
       \/ store.written[k].age = "old" /\ SyncedByThen(k) /\ Becomes(k, "expired")

----------------------------------------------------------------------------

CalendarStep ==
    \/ \E e \in left.among, live \in BOOLEAN : OutsideChanges(e, live)
    \/ \E e \in Events : FeedMoves(e)

CallStep ==
    \/ BeginCall \/ LoseAnswers \/ MarkStale \/ Forget
    \/ \E k \in DOMAIN call.stage :
         \/ CalendarMakes(k) \/ CalendarRefuses(k) \/ WriteFails(k)
         \/ NoteAnswer(k) \/ RefreshStale(k) \/ End(k)

SyncStep ==
    \/ SyncBegins \/ SyncAsks \/ SyncFails \/ TakesIn
    \/ \E items \in [Events -> 0 .. clock] : SyncLists(items)

Next == CalendarStep \/ CallStep \/ SyncStep \/ \E k \in Keys : MarkAges(k)

Spec == Init /\ [][Next]_vars
=============================================================================
