------------------------------- MODULE Goals -------------------------------
(***************************************************************************)
(* The goals store (stores/goals.rs, tools/goals.rs): the Outcome Goals    *)
(* tab, changed a whole change at a time, read with the habit's goal made  *)
(* and what waited activated -- which a read only shows, and the next      *)
(* change writes.                                                          *)
(***************************************************************************)
EXTENDS HabitGoals

CONSTANTS
    MaxGoals,   \* bound: goals the user ever makes
    MaxChanges, \* bound: changes written
    MaxTime,    \* bound: the last tick
    MaxHistory  \* bound: the status changes a goal can take

VARIABLES
    goals,    \* the tab's rows
    now,      \* the clock
    active,   \* whether the habit is active
    made,     \* how many goals the user has made, so which ids are taken
    changes   \* how many changes were written

goalsVars == <<goals, now, active, made, changes>>

UserId(n) == <<"", n, "">>

\* `Goals::all` and `Goals::current`.
All(gs, on, t) == IF on THEN Renew(gs, t) ELSE gs
StatusesDiffer(before, after) ==
    {after[i].id : i \in {j \in DOMAIN after : j \notin DOMAIN before \/ after[j].status # before[j].status}}
\* What's ready by then activated, with the deadlines that follow.
Followed(gs, swept, ids) == IF ids = {} THEN gs ELSE StampDeadlines(ResolveDeadlines(swept), ids)
Activated(gs, swept) == Followed(gs, swept, StatusesDiffer(gs, swept))
Swept(gs, t) == Activated(gs, Sweep(gs, t))
Current(gs, on, t) == Swept(All(gs, on, t), t)
Shown == Current(goals, active, now)

\* Those whose rows differ, and those there's no row for any more.
Touched(before, after) ==
    {after[i].id : i \in {j \in DOMAIN after : Find(before, after[j].id) = 0 \/ before[Find(before, after[j].id)] # after[j]}}

\* The goals `gone` are deleted: what waited for one doesn't, and a
\* deadline measured from one keeps the date it had.
Removed(gs, gone) ==
    Each(SelectSeq(gs, LAMBDA g : g.id \notin gone),
         LAMBDA g : [g EXCEPT !.when.after = {t \in @ : t.kind # "goal_closed" \/ t.goal \notin gone},
                              !.rule = IF @.kind = "after_goal" /\ @.goal \in gone THEN NoRule ELSE @])

\* One update: `sets` has the fields it gives, those it clears among them.
\* A deadline of its own unties it; a status without a history is recorded,
\* now; activated or closed by hand, it waits for nothing.
Edited(g, sets, t) ==
    LET given(f) == f \in DOMAIN sets
        put(f) == IF given(f) THEN sets[f] ELSE g[f]
        status == put("status")
        starts == status = "active" /\ g.status # "active"
        closes == g.status = "inactive" /\ status \in Closed /\ ~given("when")
    IN  [g EXCEPT
            !.parent = put("parent"), !.deadline = put("deadline"), !.status = status,
            !.rule = IF given("deadline") /\ ~given("rule") THEN NoRule ELSE put("rule"),
            !.when = IF starts \/ closes THEN NoWhen ELSE put("when"),
            !.history = IF given("history") \/ status = g.status THEN put("history") ELSE Append(@, Entry(status, t, NoTime))]

\* Those whose change of status the server records itself.
Recorded(gs, edits) ==
    {id \in DOMAIN edits : /\ {"status", "history"} \cap DOMAIN edits[id] = {"status"}
                           /\ edits[id].status # gs[Find(gs, id)].status}
\* The deadlines follow, then what that or the change lets start.
Stamped(resolved, ready, ids, readied) ==
    StampDeadlines(IF readied = {} THEN resolved ELSE ResolveDeadlines(ready), ids \cup readied)
Readied(resolved, ready, ids) == Stamped(resolved, ready, ids, StatusesDiffer(resolved, ready))
Settled(resolved, ids) == Readied(resolved, Sweep(resolved, now), ids)
\* The whole of a change to `kept`: the goals there were, as read, but those deleted.
Changed(kept, edits, creates, ids) ==
    Settled(ResolveDeadlines(Each(kept, LAMBDA g : IF g.id \in DOMAIN edits THEN Edited(g, edits[g.id], now) ELSE g) \o creates),
            ids \cup Recorded(kept, edits) \cup Ids(creates))

\* update_goals: all at once, refused whole for what it's part of.
Change(shown, call) ==
    LET read == StatusesDiffer(All(goals, active, now), shown)
    IN  /\ changes < MaxChanges /\ made + Len(call.creates) <= MaxGoals
        /\ call.gone \cap DOMAIN call.edits = {}
        /\ call.gone \cup DOMAIN call.edits \subseteq Ids(shown)
        /\ goals' = Changed(Removed(shown, call.gone), call.edits, call.creates, read)
        /\ ~GoalProblems(goals', call.gone \cup DOMAIN call.edits \cup read \cup Ids(call.creates) \cup Touched(shown, goals'))
        /\ \A i \in DOMAIN goals' : Len(goals'[i].history) <= MaxHistory
        /\ changes' = changes + 1
        /\ made' = made + Len(call.creates)
        /\ UNCHANGED <<now, active>>

\* What create_goal takes: a status and a history, now, unless given.
Given(n, fields) ==
    LET put(f, default) == IF f \in DOMAIN fields THEN fields[f] ELSE default
        status == put("status", "active")
    IN  [NewGoal(UserId(n), status, now, NoTime) EXCEPT
            !.parent = put("parent", NoId), !.priority = put("priority", NoPriority), !.deadline = put("deadline", NoTime),
            !.rule = put("rule", NoRule), !.when = put("when", NoWhen)]

\* A missed goal tried again, as an update records it: its history ends
\* missed, then as it was before, with its new deadline.
Retry(g, deadline) ==
    [status |-> PriorStatus(g), deadline |-> deadline, history |-> Append(g.history, Entry(PriorStatus(g), now, deadline))]

Tick ==
    /\ now < MaxTime /\ now' = now + 1
    /\ UNCHANGED <<goals, active, made, changes>>

\* The habit is archived, or made active again.
ArchiveHabit ==
    /\ changes < MaxChanges
    /\ active' = ~active /\ changes' = changes + 1
    /\ UNCHANGED <<goals, now, made>>

GoalsInit ==
    /\ goals = <<>> /\ now = 0 /\ made = 0 /\ changes = 0
    /\ active \in BOOLEAN
=============================================================================
