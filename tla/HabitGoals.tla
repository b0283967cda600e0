----------------------------- MODULE HabitGoals -----------------------------
(***************************************************************************)
(* A habit's recurring goal (stores/habit_goals.rs): the goals made from   *)
(* its template as each period comes, and tried again when one's missed.   *)
(***************************************************************************)
EXTENDS GoalRules

CONSTANTS
    Habit,     \* the habit's id
    Period,    \* how many ticks its periods take, whole days
    SubGoals   \* the template's sub-goals, in order: [key, by, after]
ASSUME PeriodAssumption == Period > 0 /\ Period % Day = 0

GoalId(start) == <<Habit, start, "">>
SubGoalId(parent, key) == <<parent[1], parent[2], key>>
\* The start of the period after the one a deadline is in.
NextPeriod(deadline) == (((deadline - 1) \div Period) + 1) * Period
PeriodOf(t) == (t \div Period) * Period

NewGoal(id, status, at, deadline) ==
    [id |-> id, habit |-> id[1], parent |-> NoId, priority |-> NoPriority, status |-> status,
     history |-> <<Entry(status, at, deadline)>>, deadline |-> deadline, rule |-> NoRule, when |-> NoWhen]

\* A sub-goal made under `parent` at `at`: it waits for its siblings by
\* their ids, and is inactive, if it waits or it'd start past its deadline.
\* mutant: one that would start past its deadline is made active
SubGoalAnyhow(parent, sub, at) ==
    LET deadline == Shifted(parent.deadline, sub.by, -1)
        after == {[t EXCEPT !.goal = IF t.kind = "goal_closed" THEN SubGoalId(parent.id, @[3]) ELSE NoId] : t \in sub.after}
        status == IF sub.waits THEN "inactive" ELSE "active"
    IN  [NewGoal(SubGoalId(parent.id, sub.key), status, at, deadline) EXCEPT
            !.parent = parent.id,
            !.rule = [kind |-> "before_parent", goal |-> NoId, by |-> sub.by],
            !.when = IF sub.waits THEN [NoWhen EXCEPT !.waits = TRUE, !.after = after] ELSE NoWhen]
SubGoal(parent, sub, at) ==
    LET deadline == Shifted(parent.deadline, sub.by, -1)
        after == {[t EXCEPT !.goal = IF t.kind = "goal_closed" THEN SubGoalId(parent.id, @[3]) ELSE NoId] : t \in sub.after}
        status == IF sub.waits \/ deadline <= at THEN "inactive" ELSE "active"
    IN  [NewGoal(SubGoalId(parent.id, sub.key), status, at, deadline) EXCEPT
            !.parent = parent.id,
            !.rule = [kind |-> "before_parent", goal |-> NoId, by |-> sub.by],
            !.when = IF sub.waits THEN [NoWhen EXCEPT !.waits = TRUE, !.after = after] ELSE NoWhen]

Made(start, from) ==
    LET goal == NewGoal(GoalId(start), "active", from, start + Period)
    IN  <<goal>> \o Each(SubGoals, LAMBDA sub : SubGoal(goal, sub, from))

\* The goals of the habit that aren't under another, and the one of them
\* with the latest deadline.
Theirs(gs) == {i \in DOMAIN gs : gs[i].habit = Habit /\ gs[i].parent = NoId}
LastOf(gs) == CHOOSE i \in Theirs(gs) : \A j \in Theirs(gs) :
    gs[i].deadline > gs[j].deadline \/ (gs[i].deadline = gs[j].deadline /\ i >= j)

PriorStatus(g) ==
    LET open == {k \in DOMAIN g.history : g.history[k].status \notin Closed}
    IN  IF open = {} THEN "active" ELSE g.history[CHOOSE k \in open : \A l \in open : k >= l].status
Reopened(g, status, at, deadline) ==
    [g EXCEPT !.status = status, !.deadline = deadline, !.history = Append(@, Entry(status, at, deadline))]

\* The one missed is due at the end of the period after, its missed
\* sub-goals reopened with it as the template makes them.
Retried(gs, i) ==
    LET at == Last(gs[i].history).at
        goal == Reopened(gs[i], PriorStatus(gs[i]), at, NextPeriod(gs[i].deadline) + Period)
        of(g) == {k \in DOMAIN SubGoals : SubGoalId(goal.id, SubGoals[k].key) = g.id}
        again(g) ==
            LET new == SubGoal(goal, SubGoals[CHOOSE k \in of(g) : TRUE], at)
            IN  [Reopened(g, new.status, at, new.deadline) EXCEPT !.rule = new.rule, !.when = new.when]
    IN  Each([gs EXCEPT ![i] = goal], LAMBDA g : IF g.status = "missed" /\ of(g) # {} THEN again(g) ELSE g)

\* The habit's goals as they are at `now`: nothing while one is open, the
\* last one tried again if it was missed, and otherwise the period under
\* way's made, once it's after the one the last covered.
Renew(gs, now) ==
    LET theirs == Theirs(gs)
        i == LastOf(gs)
        start == PeriodOf(now)
        closed == IF theirs = {} \/ gs[i].history = <<>> THEN start ELSE Last(gs[i].history).at
        from == Smaller(Larger(closed, start), now)
    IN  IF \E j \in theirs : gs[j].status \notin Closed THEN gs
        ELSE IF theirs # {} /\ gs[i].deadline = NoTime THEN gs
        ELSE IF theirs # {} /\ gs[i].status = "missed" THEN (IF gs[i].history = <<>> THEN gs ELSE Retried(gs, i))
        ELSE IF theirs # {} /\ StartOfDay(NextPeriod(gs[i].deadline)) > StartOfDay(now) THEN gs
        ELSE IF Find(gs, GoalId(start)) # 0 THEN gs
        ELSE gs \o Made(start, from)
=============================================================================
