# A verification of the time-tracking calendar server

The repository is an MCP server, in Rust, with which Claude keeps a Google
Calendar (what the user did, and plans to) and a spreadsheet of what goes with
it: goals, people, habits, notes. Its own logic -- and its risk -- is in writing
to two Google services that share no transaction, from several threads, over a
network that loses answers, while the user edits the same calendar elsewhere.

## The system

| Component | State it keeps | Operations | What makes it hard |
|---|---|---|---|
| **Compaction** (`compaction/compactor.rs`) | none of its own: the journal's | `dry_run` (propose, revise), `amend`, `confirm`, `finish`, `abandon`, `edit_note`, `delete_note` | several writes to Calendar and to Sheets for one call, any of which can be the last |
| **Compaction Journal** (`stores/journal.rs`) | a tab: each revision's row (its status), its decisions, its steps (their marks), the user's edits and feedback | `start_batch`, `set_status`, `write_statuses`, `garbage_collect` | a write each, in an order that must survive a stop |
| **Notes** (`stores/notes.rs`) | a tab: the user's notes, and the compaction that took each in | `append`, `edit`, `delete`, `mark_compacted` | stamped a run of rows at a time, deleted meanwhile |
| **Planning** (`compaction/plan.rs`, `proposals.rs`, `additions.rs`) | none | `plan_compaction`, `merge` | pure; decisions, defaults, overlaps |
| **Calendar kept in memory** (`google/synced.rs`, `calendar.rs`) | every event, a sync token, what was written lately | `sync`, `send_writes`, `list_events`, `get_event` | syncs, writes and a feed that lags them, at once |
| **Versioned rows** (`sheet/rows.rs`) | each tab's rows, versioned | read, write, create, update, delete | lost answers sent again, versions seen by clients |
| **Sheets client** (`google/sheets.rs`) | each tab kept, with a generation | read, write, `refresh` | a background refresh that puts back what was changed by hand |
| **Write locks** (`write_lock.rs`) | two mutexes; what each thread holds | `hold`, `try_hold`, drop, `require` | reentrance, two locks, background threads |
| **Event changes, recurrences** (`stores/event_changes.rs`, `recurrences.rs`) | Calendar's | batches of changes, series split, ended, renewed | part of a batch made; a stale version retried |
| **Goals, actions, people, places, traits, habits** (`stores/*.rs`) | a tab each | create, update, delete | trees and graphs that stay acyclic, rules across items |
| **Health metrics** (`health.rs`) | what happened lately, in memory and in a tab | record, flush | a writer thread of its own |
| **Sign-in, MCP, HTTP** (`setup.rs`, `google/consent.rs`, `mcp/*.rs`) | sessions, tokens | sign in, call a tool | flows at once, expiry |

Tools run on worker threads. One that may write holds `WRITE_LOCK` for its whole
call (`tools/mod.rs`), so writing calls never interleave with one another; what
they interleave with is the user in Google Calendar, the background threads
(calendar sync, sheets refresh, series renewal, Health writer), and the server
being stopped between two writes. A call keeps nothing in memory that the next
needs: it resumes from the journal.

What is correct, for each:

- *compaction*: nothing is written that the user didn't confirm; what was is
  written once and all of it, however often it stops; a change made elsewhere
  isn't lost; at most one is being applied; a note is never lost to a
  compaction that didn't take it in;
- *kept calendar*: what's read is never older than a write this server made;
  its own changes aren't taken for the user's;
- *rows*: a change sent again is made once; one made from an old version is refused;
- *locks*: a write is made only under a lock, no two tools' at once, no deadlock.

## Modules

### Compaction

`CompactionApply` -- the core. `call` is the one writing call under way, its
`pc` where it has got to; every write to Google is an action. The tool calls are
its `ClientStep`s (`Propose`, `Revise`, `Confirm`, `Recheck`, `NeedsClaude`,
`Finish`, `Abandon`, `WriteNote`, `DeleteNote`); what they go on to do are
`ServerStep`s, one per write, in the code's order:

    write_revision          Propose/Revise/Recheck, Supersede, AnswerFeedback
    commit                  Begin, CreateAdditions
      apply_steps           Prepare, CalendarTakes / CalendarRefuses, BatchAnswered
      (a failure)           MarkDone
      the records           RecordCancellations, RecordLogs, MakeGoalChanges
      the end               MarkApplied, StampNotes, MarkStamped
    rebuild                 RecordMade, Fail, Rebuild

`journal` is the tab's revisions, each with its status, its decisions, the steps
they come to (`planned`), each step's event as it was (`before`) and which are
marked `done`. `cal` is Calendar, each event with its fields (`val`: as planned
from, as wanted, or as someone else made them), status and etag; `call.read` is
the server's own copy of it as the call has it. `made` is history: the writes
Calendar took.

`CompactionPromise` is what a user is promised of a proposal, with no server in
it; `CompactionApplyProperties` states the properties, and that CompactionApply
keeps that promise (a refinement: `Promise!Spec` under the mapping of each
revision's status to its phase). `CompactionApplyProofs` has
the proofs.

`ProposalReview` -- a proposal between Claude and the user: `dry_run`, `amend`,
`add_note`, `withdraw_note`, `confirm` with its recheck, `rebuild`,
`needs_claude`, `abandon`, over the journal's rows. It rests on two modules of
operators: `CompactionJournal`, what each row of the tab is, how rows are read
back, which proposal is open and which rows garbage collection takes; and
`ProposalMerge`, what Claude's decisions and the user's edits come to together
(`merge`). Every write to the tab is an action, its rows known by the numbers they
had when they were read, and the call can stop before any of them. What
`CompactionApply` models of a commit is one step here. `ProposalReviewProofs` has the
proofs.

`CompactionPlanning` -- what `plan_compaction` comes to (operators): the events of
a span as Claude's decisions and the notes say they happened, an event's name
the set of those it was merged of, its description the notes whose text is in
it. `CompactionRounds` has compactions one after another: each plans the span
since the last one stamped (`walk`, `cut`, `revisit`), and what it stamps is
history to the next, while notes are written, of times that are history too,
the calendar changes elsewhere, and a revision is found to have an event gone
and is planned again. `cut` reads further until no decision puts an event past
what it read; `Cut` is the nearest end from which none does. `MCCompactionRounds`
has what Claude may ask, and `CompactionRoundsProofs` the proofs.

### The calendar

`SyncedEvents` -- the calendar kept in memory. `made` is Calendar, each event's
versions in order (a version's number stands for its etag, `at` for `updated`);
`feed` is how far its change feed has got with each, `shown` its full listings.
`store` is the `Store`, field by field, its operations operators on it (`Writing`,
`Wrote`, `Answered`, `TakeInItem`, `KeepOnly`, `Synced`, `Lapse`, ...). Three actors
interleave: a writing call (`Begin`, `CalendarMakes` / `CalendarRefuses` /
`WriteFails` / `LoseAnswers`, `NoteAnswer` / `RefreshStale`, `End`), a sync
(`SyncBegins`, `SyncAsks` / `SyncLists` / `SyncFails`, `TakeIn`), and Calendar with
its user (`OutsideChanges`, `FeedMoves`); `MarkAges` is time passing. `past` is
history. `course` is which of the small calendars (`Courses`) a behaviour is of.
`SyncedEventsProofs` has its proofs; `MCCalendar` checks it and
`CompactionRounds` in one run.

`EventChanges` -- events changed several at once. A client reads the calendar as
the server keeps it and sends a batch; it's checked whole (placed, overlaps,
history, versions), written an event at a time (`Write`, `WriteAgain` for an
instance whose series it moved on itself), its cancels recorded (`Record`), and
sent again when its answer was lost, while events are edited elsewhere (`Edit`)
and the kept copy catches up (`Sync`). What's left of the batch (`todo`) is by
place in it. `EventChangesProofs` has its proofs.

`Recurrences` -- a series split, ended, deleted whole, amended and renewed: the
copy of the rest made or revived, the series ended before it, the rest Google
itself splits off cancelled, the copy undone if ending fails; each a write that
may be refused, lost or stopped after, while the series is edited elsewhere.
What a series comes to (`Listed`) is expanded as `google/expand.rs` does.
`RecurrencesProofs` has its proofs.

### The spreadsheet

`KeptTab` -- one tab and what the server keeps of it: reads that fill it, the
background refresh that puts back what was changed by hand, the generation that
tells whether either is late. A write is a function from row numbers to rows: the
code's runs of neighbouring rows are made in one request, so together.
`VersionedRows` -- a tab of versioned items written by tool calls: its clients
read, send one change from the version they read, and send it again for want of
an answer. `VersionedRowsProofs` has its proofs.

`WriteLock` -- both reentrant locks: mutexes (`owner`), the thread-local `HELD`
(`held`, `depth`), and the guards each thread has in scope. `BuiltStore` composes
it with the double-checked building of a store; `WriteLockProofs` has the proofs
of both.

`GoalRules` -- what the goals of a tab come to: deadlines measured from something,
what waits to be activated, holds, and the rules the whole set is held to
(operators). `HabitGoals` -- the goals a habit makes as its periods come. `Goals` --
the store: changes made by a client, the clock, and reads that show what no
change has written yet.

`*Properties` modules state the properties; `MC*` modules give the constants
values. `MCStores` composes the stores' modules: a behaviour is of one of them
(`course`), so one run checks them all.

## What the runs check

| Run | Bounds | Shows |
|---|---|---|
| `compaction_apply` | a cancel, an update and a create, one note, batches of two; one stop, one change elsewhere, one event gone; under fairness | types; marks only of writes made; stamped means complete; what a failed one made settled (`FailureSettled`: creates made once, cancels recorded); changes elsewhere kept; the promise; finishing ends |
| `compaction_revise` | a cancel and an update, two notes, two revisions and one more for an event gone, one stop | one compaction at a time; notes stay stampable |
| `review` | one event, one note; 3, 4 or 6 calls by course, one stop, one event changed elsewhere; garbage collection from 6 rows down to 2 | the plan is Claude's decisions and the edits still active; nothing applied over feedback, none passed over or answered too soon; finished proposals stay finished; collection keeps what's read |
| `stores`: locks | three threads, guards nested four deep | writes apart; no deadlock; a store is built once |
| `stores`: goals | three goals of the user's, three changes, five ticks of half a day; some measured, some waiting, some due after one that's activated, some a habit's | the rules hold of the tab after every change, but for what a read moved along, and no change adds to those (`RulesKept`); holds let one through; histories only grow; what waits starts when it was expected to |
| `stores`: event changes | four events (one past, two instances of a series, one to be made), eleven batches, one edit elsewhere, two sendings, one failure | a batch fits or isn't made; answers are so; nothing is written over what wasn't read |
| `stores`: recurrences | five calendars of at most four slots, two calls; calls, edits and failures three in all | each event is there, once; what was edited elsewhere is kept |
| `calendar`: kept | one event with a write, a change elsewhere and the calendar forgotten once; a series and an instance, with one write to either, both or any and two syncs, or three without a listing, or of the series alone; one marked stale before a write | reads aren't older than writes; what's kept never goes back; nothing the feed sent is missed; changes elsewhere are warned of and the server's own aren't |
| `calendar`: rounds | three agendas, of two and three events, one of them of one event over another; thirteen things Claude may ask; two notes, written when they please; two compactions stamped, one change elsewhere | what's settled stays; nothing is planned over what wasn't so; no note is lost; what's planned again comes to what was confirmed; the timeline shown is what's written |
| `rows` | two clients, one id, two values, two mishaps (cells changed by hand, failures, lost answers, restarts) | what's kept is the tab's; each item is as last changed; a change is made once, and over nothing its client hadn't read (`MadeAsRead`) |
| `rows_settle` | one client, under fairness | what was changed by hand is put back, or kept as it is; every call is answered |

Where the code and what it says differ, five runs end in a counterexample:

- `synced_spanned`: a sync that runs wholly within a write clears `stale`, and
  the write's end doesn't set it again: a read after it isn't synced.
- `synced_forgotten`: setting the time zone while the background thread syncs
  leaves a store with a token and without the events it forgot.
- `rows_sent_again`: an id deleted and made again starts at version 1 again, so
  a change of the first one, from version 1, is made to the second.
- `review_created_again`: a create the user's edits ask for, made and marked, is
  planned again when another step turns out to be gone: `rebuild` drops Claude's
  creates that were made (they have an alias), but `merge` puts the user's back.
- `goals_undated`: a goal is listed active with no due time, though the docs say
  an active one has one.

And one passing run shows that a doc is out of date. docs/compaction-proposals.md
(lines 368-371, and the tool's own description, tools/compaction.rs:1822-1823)
says `finish_proposal` makes the writes left "over whatever the calendar says
now", so that a change made meanwhile to an event one of them changes "is
overwritten". The code refuses such a write: `apply_steps` compares the event's
fields with those planned from and stops (compactor.rs:3194-3196), and writes onto
the version it read (a 412, 3237); the answer says the change "wasn't
overwritten" and to abandon the proposal, and the comment at 3175-3179 that this is
meant. `compaction_apply` checks the code's side: `OutsideChangesKept`, over every
confirm and finish (no behaviour has the step the docs tell of), and
`FinishingEnds`, which for the same reason has to excuse a compaction that has
still to update an event changed elsewhere (`Blocked`): by the docs finishing
would end it, by the code only abandoning does.

Bounds. Compaction: steps fail, are refused or stop one at a time, so what
matters is which step, of which kind, in which batch, and what state the next
call finds: three steps over two batches. `MaxRevisions` (plus one for each event
gone, which lets a rebuild be written) bounds the journal; `MaxStops`, `MaxEdits`
and `MaxPurges` how often calls stop, the user edits and events go. Review: a
proposal is written, read, amended and confirmed in four calls and finished and
collected in six; `MaxRows` 5 and `TrimToRows` 2 make collection meet every kind of
row at the tab's end. The calendar kept: a mark lasts through two syncs, so
three reach the one after it lapsed. Rows: two clients, since a third only
repeats what the second did between a read and a write, over one id (items share
nothing but the tab); clients and values are symmetric. Goals: `Day` is two
ticks, so a delay to the next day and one of hours differ, a habit's `Period` one
day; three goals make a chain (measured from a goal that waits) and a fork, made in
one change where they take one more (`followed`); checked too with four changes,
but for what waits and what a habit makes. Event changes: checked too with three sendings and two failures (2.6 million states).
Recurrences: `Cap` 3 below the four slots so that a count reaches past what's
expanded; `Tries` 2 stands for STALE_TRIES, 3; checked too with four calls of one series,
and with three of all five. With the budgets spent and every
call answered there's nothing left to do, which is why deadlock is checked only
as the locks' invariant (`NoDeadlock`).

Rounds: `DayLength` and `MaxSpan` 4 are the whole of the time there is (`MaxClock`
4), so that a second compaction's span meets the first's; `MaxLines` 2 makes a
description run out of room; checked too with notes of the very first midnight.

Assumed of Calendar, in `MarkAges`, and needed only by `OwnNotWarned` (a part of
`WarnedOfOutside`): its feed
has a write within the time a mark is held (`PromptFeed`), and the calendar is
synced within the longest a mark is (`SyncedByThen`). Beyond those times
synced.rs itself promises nothing of an instance a series' edit changed. Full
listings don't go back, one to the next; and a write whose answer is lost is
made before its connection fails, or never. `ForgetsAnytime` is off but in the
run that shows what it does.

Fairness. `compaction_apply`: a call that has begun goes on (a thread runs), and a
compaction left applying is finished again -- the app offers it and Claude's
routine does it. Nobody is assumed to confirm, to abandon or to leave the
calendar alone; stops are bounded, as a server that always stops finishes
nothing. `rows_settle`: weak fairness of the call's, each load's and the
refresh's own steps (threads run, requests end, made or not), and of asking for
the refresh, which a timer does. Of the clients, only that a change one has asked
for is sent, and sent again for want of an answer (`CallBegins` of a client that's
`asking`: `Answered` promises nothing to one that gives up); not that any reads, or
asks for anything, nor anything of what's done by hand. The locks have no liveness: a std mutex promises no order.

## What is proved

For every value of the constants that their assumptions allow (batch sizes,
events, threads, clients, budgets and bounds of any size). Each inductive
invariant was checked by TLC on a run's bounds before it was proved.

### Compaction applying

- `TypeCorrect`: `Spec => []TypeOK`.
- `MarksAreMade`: a step marked done was made. The invariant also has to say
  that an answer a call holds was given (`AnswersMade`).
- `OneIsApplied` and `StampedIsComplete`, from `ApplyingInvariant`: a
  conjunction (`ApplyingInv`, in CompactionApplyProperties) of what a call
  relies on at each place it can be. Neither property is inductive alone: that a
  stamped revision is complete needs that one applied has all its marks and its
  cancels recorded (`RowsComplete`), which needs that a call past its writes had
  none left (`NoneSkipped`) and recorded the cancels on the way
  (`CancelsFirst`), which needs that what it sends are its own revision's steps
  (`OnlyPlanned`); and all of it needs that no other revision is open meanwhile
  (`OneApplied`, `CallHasOpen`). One lemma per group of actions shows that each
  part is kept.
- `NotesCanBeStamped`: a revision a call is about to begin still has the notes it
  was planned on (`ConfirmedStampable`), as nothing deletes a note between the
  check and `applying`.
- `OutsideChangesAreKept`: what a call has read of an event is Calendar's version
  now, or one with an older etag (`ReadsVersions`), and what it's about to update
  was read as the revision was planned on (`SendsAsRead`): so a change in between
  is refused by the etag, and an earlier one found by the comparison.
- `PromiseKept`: CompactionApply implements CompactionPromise, step by step: each
  action is one of the promise's under the mapping of statuses to phases, or a
  stutter. It needs that the journal stays within the promise's revisions
  (`Bounded`) and that what a call is about to begin or supersede is still
  proposed (`StillProposed`).
- `FailuresAreSettled`, from `SettlingInv`: as long as no call has stopped, what
  Calendar made is marked, or is about to be by the call that had the answer
  (`MarkedOrAnswered`), so a creation made by one revision is settled in its
  proposal's later ones (`SettledLater`), as one that failed is planned again by
  the same call (`FailedRebuilt`). That needs that what's made was planned
  (`MadeAsPlanned`, `OwnCreates`), and that the cancels are recorded before the
  revision fails (`RecordedFirst`). What a stop does is what
  `stops = 0` excuses: a creation made and never marked, or a cancel made and never
  recorded.

### Compactions one after another

- `RoundsInvariant`: `RoundsSpec => []RoundsInv`, of any calendars, decisions, notes
  and bounds. What was recorded of history is so of the calendar still, but for
  what was edited elsewhere (`SettledHolds`), and what a proposal makes isn't there
  yet, however often it fails and is planned again (`RoundHolds`): so a create
  can't be taken for an event there is.
- The lemmas it rests on are about one plan. `PlanIs`: what's planned is each event
  asked of that isn't cancelled, and each made, where the decisions put it, or else
  where it was. `PlanKeepsHistory`, `PlanIsClear` (what a decision places is over
  nothing planned), `PlanIsShown` (each event's status is what's done to it).
  `CutIs` and `AskedIs`: no decision puts an event past the end of the span, and
  what of the calendar isn't in it starts before the span or after that end.
- `ShownIsSo`: `RoundsSpec => []ShownIsWritten`, a part of that invariant.
- `HistoryIsKept`: `RoundsSpec => HistoryStays`. A revision is confirmed only if,
  planned again, it writes the same (`ConfirmedIs`), so what's written is planned of
  the calendar as it is (`IsOffer`): any part of it, and so also what's made of one
  that fails, leaves history as recorded (`WritesKeepHistory`).
- `NothingIsCovered`: `RoundsSpec => NothingCovered`. An event the plan leaves over
  one it was offered was so before (`PlanIsClear`). Over one it wasn't
  (`PutOverIs`): one before the span it would run back over, which is refused unless
  it stays where it was; and one after can be reached only by an event, or one merged
  into it, whose own end is there, as neither notes nor decisions put one so far.
- `NotesAreTakenIn`: `RoundsSpec => NotesTakenIn`. What's confirmed has all the notes
  there are up to when it stamps (`AllTaken`): a revision is of no more than a span
  from a day none of its notes is before (`SpanOf`), so a note written meanwhile of
  an earlier time still leaves it all of its notes, and else is seen and planned
  again. Each note's text goes with an event it was meant for or one that's on
  then, and with none only if none the plan has is (`WhereItGoes`: the first in
  order of finitely many is one of them, `FirstIs`), and stays but for what a
  description leaves out (`NotesPlanned`). Of the calendar's events on at a note's
  time the plan was offered each, or of a note of history one (`AskedNotes`); and
  the latter is still on then, history being kept, unless a decision may change it.
- Assumed: a compaction takes in a day or more and is offered events that start
  after it (`RoundsAssumption`: MAX_DAYS and CANDIDATE_MINUTES are more than none),
  events' ids aren't what stands for none; notes' times count from zero
  (`NotesAssumption`); the calendars to begin with are finite and their events take some time (`AgendasAssumption`: the server
  makes and moves none that don't, `overlap_problems` and `resolve`; one of no
  length set in Calendar itself isn't covered); decisions are finitely many
  (`AsksAssumption`).

### Locks

- `LocksKeepWritesApart`, `LocksDoNotDeadlock`, from `LockInv`: a lock's depth is the number of
  guards a thread has of it in scope (`Counted`), the outermost of them has the
  mutex (`OutermostGuards`, `Owns`), and a thread waits only for a lock it
  doesn't hold, after those before it in order (`WaitsOutside`).
- `StoreIsBuiltOnce`, from `BuildInv`, over any number of threads that find the
  slot empty; `BuildingIsLocking`: every behaviour of BuiltStore is one of
  WriteLock (a refinement), so the two theorems above hold of it too.

### The calendar kept

- `BaseHolds`: types; Calendar's versions are made in order, and a sync's answer
  is of the feed.
- `NothingIsMissed`, with `TokenOfFeed`: what's kept is at least what the feed had
  sent where the token was given.
- `KeptNeverGoesBack`, from `GoesOn`: an answer no sync has brought yet is held as
  long as its write is under way or the feed or a sync may lag it (`AnswersHeld`),
  as the marks count the writes under way (`WritingCounts`), and it's the answer
  to a write of that event's own (`MadeByCall`, `AnswersAreOwn`, `EtagIsAnswer`,
  `NotedIsAnswer`). So neither a lagging listing nor a late answer replaces
  anything newer.
- `ReadsAreAfterWrites`, from `ReadsInv`: while the generation is as a sync found it,
  the writes under way are the ones that were when it began
  (`DuringIsUnderWay`), and nobody else's have been made since it asked
  (`MadeSinceAsked`). Those that run through the whole of it are what the property
  excuses (`SpannedCovers`), as `synced_spanned` shows it must.
- `WarnsOfOutside`, from `WarnInv`: by the time a mark lapses, by time or by syncs,
  the feed, the token or the last listing is past every version its writes made
  (`MarksDone`, `EtagIsLast`), so no version of the server's comes unmarked; and
  what was never written to has no mark (`Unwritten`, `CallIsWritten`), so a sync
  that brings it past the first listing warns of it (`KeptAsBrought`,
  `OutsideIsWarned`).

`NothingIsMissed`, `ReadsAreAfterWrites` and `WarnsOfOutside` assume `~ForgetsAnytime`: that the
calendar isn't forgotten under a sync. `synced_forgotten` shows they need it.

### Versioned rows

- `RowsBaseHolds`: types, and that a call and a refresh are never writing at once.
- `KeptIsAsSheets`, from `KeptInv`: what's kept is the tab but for rows changed by
  hand (`KeptAsTab`), as is what a load of the current generation has got
  (`LoadsAsTab`, `LoadsBefore`), and the refresh puts back only rows still kept
  (`RefreshAsKept`, `PutsBackKept`).
- `LastMadeIsThere` and `ChangesAreAsRead`, from `RowsInv`. Rows are compared by what
  they *tell*: an id, its version, and who made it. Whatever has been read --
  kept, loading, or in a call -- tells of each id what the tab does or an older
  version (`AllRead`, `AllAlike`), so a change decided on what was read, and let
  through by the version, is from the version the tab has; making it
  (`SentGoesOn`) puts exactly that change in the tab (`SendsChange`) and leaves
  the history one in which each change was made once (`Once`), as its client had
  asked (`AllMadeAs`), and the last of each item is what the tab tells
  (`LastsTold`). All of it but the tab's being deleted (`emptied`), and an id
  made again after its deletion, which `rows_sent_again` shows. Where the code
  takes the first row or the last of a set, the proofs take a least number by
  well-foundedness (`LeastOf`), which needs no induction over the rows.

### Proposals under review

- `ReviewHolds`: `Spec => []ReviewInv`; `NothingAppliedOverFeedback` and
  `FeedbackIsAnswered`, from it. A proposal's revisions are numbered apart
  (`RevisionsApart`) and the one being applied is the newest (`AppliedIsNewest`):
  so `amend`, `add_note` and `needs_claude`, which look at the newest's status
  only, add no feedback under one being applied. A `confirm` that collects
  garbage first applies what it checked before: its proposal's revisions aren't
  among what's deleted, and no other call writes meanwhile (`ConfirmReady`). An
  apply that fails marks its revision `failed` before anything else
  (`FailFirst`), so the feedback a rebuild leaves is never under one still
  `applying`.
- What `dry_run` marks answered comes before the newest revision, Claude's own
  (`Answering`), and what it hasn't marked yet it still has to (`AllAnswered`);
  a stop there is what `FeedbackAnswered` excuses. Marks and deletions go by
  rows' numbers, so the proof follows each row to the place it has after a run
  is deleted (`DeletedRows`: the rows still to delete, all before the run, keep
  theirs), and that a row given a status is otherwise the same (`Restates`).
  The merge is nowhere used: whatever Claude and the user say, this holds.
- `FinishedHolds`: `Spec => []FinishedInv`; `FinishedStaysSo`: `Spec =>
  NoneReopened`. A proposal's revisions are numbered in the tab's order, each plan
  right after its revision, and one that's stamped is the newest (`Ordered`); what
  a call has still to mark or delete fits them (`CallFits`). Each step adds a
  revision to a proposal that's open or just begun, adds feedback, gives a row a
  status, which opens nothing that was finished, or deletes a run of rows
  (`TabMoves`). What collection deletes with a revision is its plan and all its
  proposal had before it, `proposed` and `applying` revisions excepted
  (`DoomedIsWhole`: finished blocks go oldest first). So where proposals are one
  after another the run that has a finished proposal's newest revision has its
  older ones too: nothing is left of it to be open.

### Event changes

- `EventsInvariant`: `EventsSpec => []EventsInv`, of any events, batches that
  change each event at most once, and edits elsewhere. Every calendar known (what
  the client read, what the server keeps, Calendar's) is the one before it, later
  (`CalendarsOK`), and a version is given once, to an event or to a series
  (`VersionsOnce`): so a version that's still the one read means an event that is,
  and one a sending was given means an event as the batch leaves it
  (`WrittenAsAsked`). What's left to write was checked on events as they were read
  (`LeftOfBatch`), even when an instance is written again because its series moved
  its version on (`AgainOnTheSame`).
- `WrittenOnlyAsRead`: `EventsSpec => OntoWhatWasRead`, from it.
- `AnswersAreSo`: `EventsSpec => []AnswersSo`. While a call writes, whatever of the
  batch isn't left to write is done, or was changed elsewhere (`DoneOrToDo`); each
  cancel that counts and was made is recorded, or its record was cut off
  (`CancelsRecorded`); and what's told stale has a later version for a reason
  (`StaleForAReason`).
- `BatchesAreFit`: `EventsSpec => []BatchesFit`. `fits` is checked once, on a
  calendar as it is kept, with what's left of the batch put in; the property is of
  Calendar at the end, after any number of sendings. Both are the calendar the
  client read with the whole batch put in (`FinalCalendar`), but for events
  changed elsewhere, which the property excuses: and one of those stays so, as
  nothing the batch goes on to write is onto it (`Foreign`, `CheckedToFit`).

### Recurrences

- `SeriesInvariant`: `SeriesSpec => []SeriesInv`, of any series, calls, edits
  elsewhere and mishaps. What's kept of a series is it, or it as it was at an
  earlier version (`CalendarsOK`: each write gives it a later one), and so is what
  the call under way has read of the one it splits, whichever of its writes it's
  at; the series it's about, its copy and what Google itself split off are there
  (`CallOK`); what's to be copied was read since the last edit elsewhere, or the
  call can tell it wasn't (`CopiesAsRead`).
- `ElsewhereIsKept`: `SeriesSpec => EditsKept`, from it. A series ended or revived
  is written whole from what was read, yet onto the version read: if that's still
  its version it's still so (`LaterOrSame`), and else it's refused. Each write has a
  lemma of what it leaves of every series' fields and days.
- `SlotsInvariant`: `SeriesSpec => []SlotsInv`, of what series there can be: every
  one is timed, a copy's id says which series it's of and from when, one split off
  comes with the series it was split off, and an event edited on its own is of a
  series that's there.
- `PartsAreApart`: `SeriesSpec => []PartsApart`, from it. From when a series is ended
  until the call says so it ends before the copy starts, and the copy starts where
  it was asked to.
- `ToldInvariant`: `SeriesSpec => []ToldInv`, of a server told of every series it
  ended or cancelled. What it keeps of a series' end and status is then the
  series', but for edits elsewhere; every event wanted is one of a series no call
  under way will undo; and whatever a series has at or after the start of a copy of
  it, the copy has, or one split off the copy: copies are made before the series
  is ended, with what is left of its count, and undone only if it wasn't.
- `NoneIsLost`: `SeriesSpec => []NoneLost`, from it. Each step hands the events it takes
  from one series to another that has them: an end to the copy made before it, a
  copy undone to the series not ended, a cancel to nobody, as a client no longer
  wants those. That a count leaves as many as are counted, of which Google expands
  the first `Cap`, rests on lemmas of cardinalities (`ExpandedIs` and those after it).
- `CleanInvariant`: `SeriesSpec => []CleanInv`, of calls none of which before went
  wrong (what went wrong shows, `WrongShows`). A copy's id holds the times it and
  what it's a copy of were split off, so of two series that come from one it can be
  said which was there before the other (`Precedes`, `OnePrecedes`); that one ends
  before the other was split off, but while it's being split there (`AllApart`). It
  isn't inductive until it also says this of the end kept of it, of the time a call
  under way is to end it at, and of the end such a call would copy (`Apart`), and of
  a call that undoes its copy, that this is the only exception (`ApartButOne`). So a
  call never finds its copy there already (`NoCopyYet`): it's asked at an event of
  the series, and the series ended before whatever was split off it.
- `NoneIsTwice` and `EachIsThereOnce`: `SeriesSpec => []EachThereOnce`, from all of
  these: a series has events from its start to its end, so of two that come from one
  none is in both; what's left of a series Google split has none unless cancelling
  it failed. Twice is of a series and what was split off it, or off that (`Akin`): two
  series may well share a time.
- Assumed: that the calendars to begin with are of series, none of them split yet
  (`FirstSeriesAssumption`), and that clients ask the four things there are to ask and
  an update sets no field that says when events are (`AsksAssumption`: starts and
  ends moved are left out below).

### What is only model-checked

- Liveness: `FinishingEnds`, `Converges` and `Answered` (fairness is beyond TLAPS
  here).
- What recursive operators and folds compute: the merge of a proposal
  (`PlanIsLedger`), goals' deadlines, holds and rules. Nothing is proved of
  operators declared RECURSIVE, and induction over data isn't to be had.
- Of the review, that collection keeps what's read (`CollectionKeeps`: the edits
  read are a sequence filtered, which the provers can't expand).
- Of compactions one after another, that what's planned again comes to what was
  confirmed (`ReplaysWhole`): it compares two plans, of different spans and
  decisions, event by event, which wasn't tried.

## What the models show besides

States the properties have to excuse, each reached by the model and each as the
code has it:

- review: a stop between writing a revision and superseding the one before it
  leaves that "proposed"; abandon the newer one, let collection take it, and the
  older reopens, and a confirm that collects goes on with the proposal it was
  given, though the one reopened comes before it. That one can then fail, be
  rebuilt and be abandoned after the next has begun, and with its rows on both
  sides of the next's, collection can take its newest and leave it open once more:
  so `NoneReopened` is of tabs with none left so (`NoneLeftProposed`) and with
  proposals one after another (`OneAfterAnother`). A ledger with no compaction row
  is never freed. An amend sent
  again isn't known for itself when its edit has a description, creates an
  addition, extends `through` or was made from an older revision. A stop between
  `failed` and the rebuild loses aliases and what was settled; one between writing
  a revision and marking the edits it replaces brings a replaced edit back.
- rounds: a note written late, of when two settled events were both on, goes with
  the first; if a decision that may change history cancels that one, the note's
  text goes with neither, as only the first is offered (`Rewritten` in
  `NotesTakenIn`).
- calendar kept: after `set_time_zone` forgets the calendar, the server's own
  write just made is warned of.
- goals: moving the *parent* of a waiting goal under the goal it waits for isn't
  refused; a held goal a read showed active may be inactive in a later read,
  though nothing was written; a habit's goal deleted while its sub-goal moves
  elsewhere is made again with ids the sub-goal still has; a done goal of a habit
  can be reopened while the current one is open; a read sweeps before it measures,
  so what waits for a time before a due that follows from a goal just activated is
  activated only once a change has written that due. And the rules aren't asked of
  a deadline that follows from a goal a read activates (`current` drops what
  `resolve_deadlines` gives it, goals.rs:934): a goal due after that one may come to
  be due after its parent, and the next change of any goal writes it so, though the
  docs say the server keeps the rules for the whole set after each change
  (docs/goals.md:40). `RulesKept` excuses just those goals, and says no change
  makes another late.
- event changes: a cancel that counts, made and then not recorded, is "already
  done" when sent again and never is recorded; a batch sent again while the feed
  lags is refused as stale because of its own first sending.
- recurrences: when the write that ends a series is made and its answer lost, or
  what follows it fails, the copy is undone though the series was ended, and the
  events from there on are gone while the answer says "so it wasn't split". A
  split undone and tried later revives the old copy as it was, and its events are
  doubled with those of what was split off meanwhile: three calls and an edit
  elsewhere, so `NoneTwice` is of calls none of which before said "so it wasn't
  split" (`AllWell`). What's left of a
  COUNT is too large by each skipped date and each event moved past the split. A
  stop between making the copy and ending the series leaves events twice until
  the call is sent again. A shorter UNTIL set elsewhere is replaced by a later
  one. A failed update after a split leaves it split.

## What is left out, and why

- *Applying*: a batch of several days (nothing writes one any more:
  `write_revision` is always given one walk); the user's edits, goal changes and
  facts in a proposal, but for the writes that apply them; Calendar's feed lagging
  its writes (`Sync` takes the calendar as it is, and so does a rebuild: an event that's gone
  is known to be at once, where the code goes by the listing it keeps, `known_ids`,
  compactor.rs:2088, and may carry over a decision that then fails again); instances
  of a series, which share a batch with none of their series; labels sent again.
- *Rounds*: likewise, an event found to be gone is absent from the listing at once.
- *Review*: additions, goal changes, recaps, and extending `through`; warnings.
- *Calendar kept*: that only the last 400 days are (`too_old`, `start_at`), the
  pages a listing comes in, answers and ends lapsing after a day, the parts a
  split series shares its base id with, the second mark `create_event` makes for an
  id Calendar chose, and versions with no `updated` (kept as they come).
- *Rows*: writes of several tabs at once, rows deleted by collection; and that a
  write of several runs of rows, refused for their range (a 400), is sent again a
  run at a time (`send`, sheets.rs:606-610), each run of which may fail: here it's one
  request, made or not. With one id clients choose, their changes are of one run.
- *Event changes*: errors other than 412, `unversioned`, `dry_run`, shares,
  repeats and time zones, creates without an id of their own, and changes of history
  the user has allowed (`allow_compacted`). Edits elsewhere are of single events:
  a series edited whole there isn't among them (`Recurrences` has those).
- *Recurrences*: starts and ends moved, time zones, rules' parsing, RDATE.
- *Goals*: versions (VersionedRows has them), titles, people, colours, expected
  minutes, daylight saving, rows of an older layout, history going back.

Formatting, wording and encoding are in no module. `tools/probe.rs`, `bin/probe.rs`,
`testing/` and `cli/` are tools for developing the server, not parts of it. The
components not modelled at all are in the plan.

## Plan

Done: `CompactionApply` with its promise and proofs; the locks and theirs; the
calendar kept and versioned rows, with their proofs; planning, and compactions
one after another, with theirs; review, merge and journal, and what's proved of them; goals; event changes and recurrences,
with their proofs.

To be proved: that what's planned again comes to what was confirmed (`ReplaysWhole`).

To be modelled, in this order: judgments (which events are due one, once each);
sign-in and the sessions (one flow at a time, a token refreshed under use); the
Health recorder and its writer; the trees of actions, people and places that
must stay acyclic; traits and facts; what a proposal adds besides events
(additions, goal and fact changes); travel times.
