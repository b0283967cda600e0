---------------------------- MODULE EventChanges ----------------------------
(***************************************************************************)
(* Events changed several at once (stores/event_changes.rs, called by      *)
(* tools/events.rs): a batch is checked whole, against the calendar as the *)
(* server keeps it, then written an event at a time, while the calendar is *)
(* edited elsewhere. A batch whose answer is lost is sent again.           *)
(***************************************************************************)
EXTENDS Integers, FiniteSetsExt

CONSTANTS
    Events,        \* the ids of events, those to come included
    Instances,     \* those that are a series' instances
    Guard,         \* the last compaction: what started before is history
    FirstEvents,   \* the calendar's events to begin with: [start, end, val, status]
    Batches,       \* what clients ask: sequences of [do, id, set, counts]
    Edits,         \* what's done elsewhere: [id, set]
    MaxEdits,      \* bound: edits elsewhere
    MaxSends,      \* bound: times a batch is sent, or sent again
    MaxFailures    \* bound: answers lost, calls stopped, records refused

\* An event: when it is, what else it says, whether it's there, and of an
\* instance whether it's been edited on its own.
IsEvent(e) ==
    /\ e = [start |-> e.start, end |-> e.end, val |-> e.val, status |-> e.status, own |-> e.own, version |-> e.version]
    /\ e.start \in Int /\ e.end \in Int /\ e.own \in BOOLEAN /\ e.version \in Nat
    /\ e.status \in {"absent", "confirmed", "cancelled"}
Sets(set, fields) ==
    /\ DOMAIN set \subseteq fields
    /\ \A field \in {"start", "end"} \cap DOMAIN set : set[field] \in Int
    /\ "status" \in DOMAIN set => set["status"] \in {"confirmed", "cancelled"}
\* A change of an event, by its id: one made has the id its client chose, and no
\* change has the user's leave to change history (allow_compacted).
IsChange(c) ==
    /\ c.id \in Events /\ c.counts \in BOOLEAN
    /\ \/ c.do = "update" /\ Sets(c.set, {"start", "end", "val"})
       \/ c.do = "cancel" /\ c.set = [status |-> "cancelled"]
       \/ /\ c.do = "create" /\ c.id \notin Instances
          /\ Sets(c.set, {"start", "end", "val", "status"}) /\ {"start", "end", "val", "status"} \subseteq DOMAIN c.set
          /\ c.set["status"] = "confirmed"

ASSUME EventsAssumption == Instances \subseteq Events /\ Guard \in Int
\* To begin with a series has version 1, and no event edited on its own has it.
ASSUME FirstAssumption ==
    /\ DOMAIN FirstEvents = Events /\ FirstEvents = [id \in Events |-> FirstEvents[id]]
    /\ \A id \in Events :
          LET e == FirstEvents[id]
          IN  IsEvent(e) /\ e.version \in {0, 1} /\ (e.own => e.version = 0 /\ e.status # "absent")
\* A batch has one change of an event.
ASSUME BatchesAssumption == \A batch \in Batches :
    /\ DOMAIN batch \subseteq Nat
    /\ \A k \in DOMAIN batch : IsChange(batch[k])
    /\ \A k, l \in DOMAIN batch : batch[k].id = batch[l].id => k = l
ASSUME EditsAssumption == \A edit \in Edits :
    /\ edit.id \in Events /\ Sets(edit.set, {"start", "end", "val", "status"})
    /\ edit.on = "absent" => "status" \in DOMAIN edit.set

VARIABLES
    calendar, \* Google's: its events, its series' version, the last version given
    keeps,    \* the same, as the server keeps it
    asked,    \* the client's batch, and the calendar as it read it to make it
    step,     \* where the call is: "none", "checking", "writing", "again", "recording"
    todo,     \* the changes still to be written, by their place in the batch, each with the event it was checked on
    wrote,    \* whether the call has written to the series
    answer,   \* the last call's: "none", "made", "refused", "stale", "failed"
    stale,    \* the events it was refused for
    recorded, \* cancels recorded against follow-through
    failures, edits, sends, \* for the bounds
    before    \* history: what this batch's sendings wrote, and cancels they left unrecorded

eventVars == <<calendar, keeps, asked, step, todo, wrote, answer, stale, recorded, failures, edits, sends, before>>

Nothing == [wrote |-> {}, unrecorded |-> {}]
\* An instance not edited on its own has its series' version.
Version(c, id) == IF id \in Instances /\ ~c.events[id].own THEN c.series ELSE c.events[id].version
Live(e) == e.status = "confirmed"
\* Events are equal whatever their etags.
Same(e, f) == \A field \in {"start", "end", "val", "status"} : e[field] = f[field]
Patched(e, set) == [field \in DOMAIN e |-> IF field \in DOMAIN set THEN set[field] ELSE e[field]]

\* The calendar with one of its events written, as Google does: it's given
\* a version, and an instance's series another.
Written(c, id, set) ==
    [events |-> [c.events EXCEPT ![id] = [Patched(@, set) EXCEPT !.own = TRUE, !.version = c.last + 1]],
     series |-> IF id \in Instances THEN c.last + 2 ELSE c.series,
     last |-> c.last + 2]
\* What's kept with an event read again: an instance kept as its series
\* isn't, lest it be taken for one edited on its own.
ReadAgain(ids) ==
    [keeps EXCEPT !.events = [id \in Events |->
        IF id \in ids /\ (id \notin Instances \/ keeps.events[id].own) THEN calendar.events[id] ELSE @[id]]]

\* An event as kept, or one that isn't (or is cancelled) as Google has it.
Gets(kept, id) == IF Live(kept.events[id]) THEN kept.events[id] ELSE calendar.events[id]
-----------------------------------------------------------------------------

Expected(id) == Version(asked.read, id)
AtExpected(c, id) == Live(c.events[id]) /\ Version(c, id) = Expected(id)
\* Whether the event's already as the change would leave it.
\* mutant: a change made before isn't known again
DoneNever(change, e) == FALSE
Done(change, e) ==
    IF change.do = "cancel" THEN e.status = "cancelled" ELSE Live(e) /\ Same(Patched(e, change.set), e)
Fresh(change) ==
    IF change.do = "create" THEN
        LET made == Gets(keeps, change.id)
        IN  IF made.status = "absent" THEN "make" ELSE IF Done(change, made) THEN "done" ELSE "used"
    ELSE IF AtExpected(keeps, change.id) \/ AtExpected(calendar, change.id) THEN "make"
    ELSE IF Done(change, calendar.events[change.id]) THEN "done" ELSE "stale"

OnlyRunsOn(e, after) == e.end > Guard /\ Same([after EXCEPT !.end = e.end], e) /\ after.end >= Guard
IsHistory(change, e, after) ==
    CASE change.do = "update" -> (e.start < Guard /\ ~OnlyRunsOn(e, after)) \/ (e.start >= Guard /\ after.start < Guard)
      [] change.do = "cancel" -> e.start < Guard
      [] change.do = "create" -> after.start < Guard

\* Each change with its event, and how it would leave it.
Planned(kept, change) ==
    LET e == IF change.do = "create" THEN calendar.events[change.id] ELSE Gets(kept, change.id)
        after == Patched(e, change.set)
    IN  [do |-> change.do, id |-> change.id, set |-> change.set, counts |-> change.counts,
         expected |-> IF change.do = "create" THEN 0 ELSE Expected(change.id), on |-> e, after |-> after,
         moved |-> change.do = "create" \/ after.start # e.start \/ after.end # e.end]

\* The events around, as the batch would leave them.
\* mutant: those in the batch where they are now
PlacedBefore(kept, changes) == [id \in {x \in Events : Live(kept.events[x])} |-> kept.events[id]]
Placed(kept, changes) ==
    LET changed(id) == {change \in changes : change.id = id}
        ids == {id \in Events : IF changed(id) = {} THEN Live(kept.events[id]) ELSE \A change \in changed(id) : change.do # "cancel"}
    IN  [id \in ids |-> IF changed(id) = {} THEN kept.events[id] ELSE (CHOOSE change \in changed(id) : TRUE).after]
Overlap(e, f) == e.start < e.end /\ f.start < f.end /\ e.start < f.end /\ f.start < e.end
Overlaps(placed, changes) ==
    \E change \in {c \in changes : c.do # "cancel" /\ c.moved} :
        \/ change.after.end <= change.after.start
        \/ \E id \in DOMAIN placed \ {change.id} : Overlap(placed[id], change.after)

\* The client reads the calendar, as the server keeps it, and asks for a
\* batch; or, not told that it was made, sends it again.
Ask ==
    /\ step = "none" /\ sends < MaxSends
    /\ \E batch \in Batches :
          /\ \A k \in DOMAIN batch : batch[k].do # "create" => Live(keeps.events[batch[k].id])
          /\ asked' = [batch |-> batch, read |-> keeps]
    /\ before' = Nothing /\ step' = "checking" /\ sends' = sends + 1
    /\ answer' = "none" /\ stale' = {}
    /\ UNCHANGED <<calendar, keeps, todo, wrote, recorded, failures, edits>>
AskAgain ==
    /\ step = "none" /\ sends < MaxSends /\ answer = "failed"
    /\ step' = "checking" /\ sends' = sends + 1
    /\ answer' = "none"
    /\ UNCHANGED <<calendar, keeps, asked, todo, wrote, stale, recorded, failures, edits, before>>

Ends(kind, ids) ==
    answer' = kind /\ stale' = ids /\ step' = "none" /\ todo' = <<>> /\ wrote' = FALSE

\* The batch is checked whole: refused for what's changed since it was
\* read, or for what it breaks; what was made already isn't again.
Check ==
    LET change(k) == asked.batch[k]
        found == [k \in DOMAIN asked.batch |-> Fresh(change(k))]
        lagging == {change(k).id : k \in {l \in DOMAIN found : change(l).do # "create" /\ ~AtExpected(keeps, change(l).id)}}
        kept == ReadAgain(lagging)
        making == [k \in {l \in DOMAIN found : found[l] = "make"} |-> Planned(kept, change(k))]
        changes == {making[k] : k \in DOMAIN making}
    IN  /\ step = "checking"
        /\ keeps' = kept
        /\ IF \E k \in DOMAIN found : found[k] = "stale"
           THEN Ends("stale", {change(k).id : k \in {l \in DOMAIN found : found[l] = "stale"}})
           ELSE IF \/ \E k \in DOMAIN found : found[k] = "used"
                   \/ \E c \in changes : IsHistory(c, c.on, c.after)
                   \/ Overlaps(Placed(kept, changes), changes)
           THEN Ends("refused", {})
           ELSE /\ step' = "writing" /\ todo' = making
                /\ UNCHANGED <<answer, stale, wrote>>
        /\ UNCHANGED <<calendar, asked, recorded, failures, edits, sends, before>>

\* They're written in the batch's order.
NextPlace == Min(DOMAIN todo)
NextChange == todo[NextPlace]
LaterChanges == [k \in DOMAIN todo \ {NextPlace} |-> todo[k]]

\* Google makes the next change; its answer may be lost.
Makes(change) ==
    LET after == Written(calendar, change.id, change.set)
    IN  /\ calendar' = after
        /\ \/ /\ keeps' = [keeps EXCEPT !.events[change.id] = after.events[change.id], !.last = after.last]
              /\ before' = [before EXCEPT !.wrote = @ \cup {<<change.id, after.last - 1>>, <<change.id, after.last>>}]
              /\ IF change.do = "cancel" /\ change.counts
                 THEN step' = "recording" /\ UNCHANGED <<todo, wrote>>
                 ELSE step' = "writing" /\ todo' = LaterChanges /\ wrote' = (wrote \/ change.id \in Instances)
              /\ UNCHANGED <<answer, stale, failures>>
           \/ /\ failures < MaxFailures /\ failures' = failures + 1
              /\ before' = [wrote |-> before.wrote \cup {<<change.id, after.last - 1>>, <<change.id, after.last>>}, unrecorded |-> before.unrecorded \cup {change.id}]
              /\ Ends("failed", {})
              /\ UNCHANGED keeps

\* Refused as made to an older version, it's read again, with its series.
Rereads(id) ==
    LET kept == ReadAgain({id})
    IN  [kept EXCEPT !.series = IF id \in Instances /\ ~keeps.events[id].own THEN calendar.series ELSE @]

\* mutant: whatever it is now
OursAnyway(change) == change.id \in Instances /\ wrote
\* An instance not as it was checked only for what the batch wrote to its series.
Ours(change) == change.id \in Instances /\ wrote /\ Same(calendar.events[change.id], change.on)

Write ==
    LET change == NextChange
        created == change.do = "create"
    IN  /\ step = "writing" /\ todo # <<>>
        /\ IF (IF created THEN calendar.events[change.id].status = "absent" ELSE Version(calendar, change.id) = change.expected)
           THEN Makes(change)
           ELSE /\ IF created THEN Ends("failed", {})
                   ELSE IF Ours(change)
                   THEN /\ step' = "again" /\ todo' = [todo EXCEPT ![NextPlace].expected = Version(calendar, change.id)]
                        /\ UNCHANGED <<answer, stale, wrote>>
                   ELSE Ends("stale", {change.id})
                /\ keeps' = (IF created THEN keeps ELSE Rereads(change.id))
                /\ UNCHANGED <<calendar, failures, before>>
        /\ UNCHANGED <<asked, recorded, edits, sends>>
\* Written again, once, onto the version it has now.
WriteAgain ==
    LET change == NextChange
    IN  /\ step = "again"
        /\ IF Version(calendar, change.id) = change.expected THEN Makes(change)
           ELSE Ends("stale", {change.id}) /\ keeps' = Rereads(change.id) /\ UNCHANGED <<calendar, failures, before>>
        /\ UNCHANGED <<asked, recorded, edits, sends>>

\* A cancel that counts is recorded once it's made; the Sheets write may fail.
Record ==
    LET change == NextChange
    IN  /\ step = "recording"
        /\ \/ /\ recorded' = recorded \cup {change.id}
              /\ step' = "writing" /\ todo' = LaterChanges /\ wrote' = (wrote \/ change.id \in Instances)
              /\ UNCHANGED <<answer, stale, failures, before>>
           \/ /\ failures < MaxFailures /\ failures' = failures + 1
              /\ before' = [before EXCEPT !.unrecorded = @ \cup {change.id}]
              /\ Ends("failed", {})
              /\ UNCHANGED recorded
        /\ UNCHANGED <<calendar, keeps, asked, edits, sends>>

Finish ==
    /\ step = "writing" /\ todo = <<>>
    /\ Ends("made", {})
    /\ UNCHANGED <<calendar, keeps, asked, recorded, failures, edits, sends, before>>

\* The server stops, or loses its connection, between two steps.
Stop ==
    /\ step # "none" /\ failures < MaxFailures /\ failures' = failures + 1
    /\ before' = (IF step = "recording" THEN [before EXCEPT !.unrecorded = @ \cup {NextChange.id}] ELSE before)
    /\ Ends("failed", {})
    /\ UNCHANGED <<calendar, keeps, asked, recorded, edits, sends>>

\* The calendar is edited elsewhere, and synced.
Edit ==
    /\ edits < MaxEdits /\ edits' = edits + 1
    /\ \E edit \in Edits :
          /\ calendar.events[edit.id].status = edit.on
          /\ calendar' = Written(calendar, edit.id, edit.set)
    /\ UNCHANGED <<keeps, asked, step, todo, wrote, answer, stale, recorded, failures, sends, before>>
Sync ==
    /\ keeps # calendar /\ keeps' = calendar
    /\ UNCHANGED <<calendar, asked, step, todo, wrote, answer, stale, recorded, failures, edits, sends, before>>

EventsInit ==
    /\ calendar = [events |-> FirstEvents, series |-> 1, last |-> 1] /\ keeps = calendar
    /\ asked = [batch |-> <<>>, read |-> calendar]
    /\ step = "none" /\ todo = <<>> /\ wrote = FALSE /\ answer = "none" /\ stale = {} /\ recorded = {}
    /\ failures = 0 /\ edits = 0 /\ sends = 0 /\ before = Nothing
EventsNext == Ask \/ AskAgain \/ Check \/ Write \/ WriteAgain \/ Record \/ Finish \/ Stop \/ Edit \/ Sync
EventsSpec == EventsInit /\ [][EventsNext]_eventVars
=============================================================================
