----------------------------- MODULE GoalRules -----------------------------
(***************************************************************************)
(* What the goals of the Outcome Goals tab come to (stores/goals.rs): the  *)
(* deadlines measured from something, what waits to be activated, and the  *)
(* rules the whole set of them is held to.                                 *)
(*                                                                         *)
(* Times are ticks of the calendar's local time, Day of them to a day. A   *)
(* deadline is when it falls due: a date's is the midnight after it.       *)
(***************************************************************************)
EXTENDS Integers, Sequences, FiniteSets

CONSTANT Day
ASSUME DayAssumption == Day \in Nat \ {0}

NoTime == -99
NoPriority == -1
NoId == <<"", -1, "">>  \* an id is <<habit, period's start, key>>, habit "" for the user's own
Closed == {"done", "missed", "obsolete"}
GoalStatus == {"inactive", "active"} \cup Closed
NoRule == [kind |-> "none", goal |-> NoId, by |-> [days |-> TRUE, n |-> 0]]
NoWhen == [waits |-> FALSE, after |-> {}, delay |-> [next_day |-> FALSE, n |-> 0], holds |-> {}]

Larger(a, b) == IF a > b THEN a ELSE b
Smaller(a, b) == IF a > b THEN b ELSE a
Last(s) == s[Len(s)]
\* The rows with each changed by Op, in order.
Each(gs, Op(_)) == SubSeq([i \in DOMAIN gs |-> Op(gs[i])], 1, Len(gs))

\* The first row with this id, 0 if there's none (by_id).
Find(gs, id) ==
    LET rows == {i \in DOMAIN gs : gs[i].id = id}
    IN  IF rows = {} THEN 0 ELSE CHOOSE i \in rows : \A j \in rows : i <= j
ParentAt(gs, g) == IF g.parent = NoId THEN 0 ELSE Find(gs, g.parent)

\* Everything reached from the ids in `from`, by what `next` takes each to.
RECURSIVE Reached(_, _)
Reached(from, next) ==
    LET more == from \cup UNION {next[id] : id \in from \cap DOMAIN next}
    IN  IF more = from THEN from ELSE Reached(more, next)
Ids(gs) == {gs[i].id : i \in DOMAIN gs}

\* The ids of its parents, up to a missing one or a cycle.
RECURSIVE Upward(_, _, _)
Upward(gs, p, seen) ==
    IF p = 0 \/ gs[p].id \in seen THEN {} ELSE {gs[p].id} \cup Upward(gs, ParentAt(gs, gs[p]), seen \cup {gs[p].id})
AncestorIds(gs, g) == Upward(gs, ParentAt(gs, g), {g.id})

\* The nearest given of its own and its parents'.
RECURSIVE Nearest(_, _, _, _)
Nearest(gs, g, p, seen) ==
    IF g.priority # NoPriority THEN g.priority
    ELSE IF p = 0 \/ gs[p].id \in seen THEN 3
    ELSE Nearest(gs, gs[p], ParentAt(gs, gs[p]), seen \cup {gs[p].id})
PriorityOf(gs, g) == Nearest(gs, g, ParentAt(gs, g), {g.id})
----------------------------------------------------------------------------

Shifted(base, by, sign) == base + sign * by.n * (IF by.days THEN Day ELSE 1)
StartOfDay(t) == (t \div Day) * Day
AfterStart(start, by) == IF by.days THEN StartOfDay(start) + (by.n + 1) * Day ELSE start + by.n
LastStarted(g) ==
    LET starts == {k \in DOMAIN g.history : g.history[k].status = "active"}
    IN  IF starts = {} THEN NoTime ELSE g.history[CHOOSE k \in starts : \A l \in starts : k >= l].at

\* The deadline that follows from what an open goal's is measured from.
FromOther(gs, i, by, sign) == IF gs[i].deadline = NoTime THEN NoTime ELSE Shifted(gs[i].deadline, by, sign)
Follows(gs, g) ==
    LET p == ParentAt(gs, g)
        o == Find(gs, g.rule.goal)
    IN  CASE g.rule.kind = "before_parent" /\ p # 0 -> FromOther(gs, p, g.rule.by, -1)
          [] g.rule.kind = "after_goal" /\ o # 0 -> FromOther(gs, o, g.rule.by, 1)
          [] g.rule.kind = "after_start" ->
                IF g.status = "active" /\ LastStarted(g) # NoTime THEN AfterStart(LastStarted(g), g.rule.by) ELSE NoTime
          [] OTHER -> g.deadline

Resolved(gs, g) ==
    IF g.status \in Closed THEN g
    ELSE IF g.rule.kind = "before_parent" /\ g.parent = NoId THEN [g EXCEPT !.rule = NoRule]
    ELSE [g EXCEPT !.deadline = Follows(gs, g)]

RECURSIVE ResolvePass(_, _)
ResolvePass(gs, i) ==
    IF i > Len(gs) THEN gs ELSE ResolvePass([gs EXCEPT ![i] = Resolved(gs, gs[i])], i + 1)
RECURSIVE ResolveRounds(_, _)
ResolveRounds(gs, n) ==
    LET next == ResolvePass(gs, 1)
    IN  IF n = 0 \/ next = gs THEN gs ELSE ResolveRounds(next, n - 1)
\* A pass for each goal at most, until one changes nothing.
ResolveDeadlines(gs) == ResolveRounds(gs, Len(gs))
----------------------------------------------------------------------------

\* When each of a goal's triggers came, NoTime if it hasn't.
Came(gs, g, trigger) ==
    LET o == Find(gs, trigger.goal)
        p == ParentAt(gs, g)
    IN  CASE trigger.kind = "goal_closed" ->
                IF o # 0 /\ gs[o].status \in Closed /\ gs[o].history # <<>> THEN Last(gs[o].history).at ELSE NoTime
          [] trigger.kind = "at" -> trigger.at
          [] trigger.kind = "before_parent" ->
                IF p # 0 /\ gs[p].deadline # NoTime THEN Shifted(gs[p].deadline, trigger.by, -1) ELSE NoTime

Delayed(t, delay) == IF delay.next_day THEN StartOfDay(t) + Day ELSE t + delay.n
Latest(times) == CHOOSE t \in times : \A u \in times : t >= u
\* Once they've all come -- at once, if there are none -- and its delay.
\* mutant: a day's delay is a day later
OnceComeLater(came, since, delay) ==
    IF NoTime \in came THEN NoTime
    ELSE Delayed(IF came = {} THEN since ELSE Latest(came) + (IF delay.next_day THEN 1 ELSE 0), delay)
OnceCome(came, since, delay) ==
    IF NoTime \in came THEN NoTime ELSE Delayed(IF came = {} THEN since ELSE Latest(came), delay)
ReadyAt(gs, g, since) == OnceCome({Came(gs, g, trigger) : trigger \in g.when.after}, since, g.when.delay)

\* Counted by a hold: active, of the priority it names, and no kin.
Kin(gs, g, other) == other.id \in {g.id} \cup AncestorIds(gs, g) \/ g.id \in AncestorIds(gs, other)
Fits(p, hold, own) ==
    LET level == IF hold.own THEN own ELSE hold.level
    IN  hold.of = "any" \/ (hold.of = "at_or_above" /\ p <= level) \/ (hold.of = "exactly" /\ p = level)
Counted(gs, g, hold) ==
    {i \in DOMAIN gs : gs[i].status = "active" /\ ~Kin(gs, g, gs[i]) /\ Fits(PriorityOf(gs, gs[i]), hold, PriorityOf(gs, g))}
HeldBack(gs, g) == \E hold \in g.when.holds : Cardinality(Counted(gs, g, hold)) >= hold.n

\* The last time by `now` that a goal stopped being active.
LastFreed(gs, now) ==
    LET freed(h) == {h[k].at : k \in {l \in 2 .. Len(h) : h[l - 1].status = "active" /\ h[l].status # "active" /\ h[l].at <= now}}
        all == UNION {freed(gs[i].history) : i \in DOMAIN gs}
    IN  IF all = {} THEN NoTime ELSE Latest(all)

CanStart(g, t) == IF g.deadline # NoTime THEN g.deadline > t ELSE g.rule.kind # "none"
Entry(status, at, deadline) == [status |-> status, at |-> at, deadline |-> deadline]
Activate(g, t) == [g EXCEPT !.when = NoWhen, !.status = "active", !.history = Append(@, Entry("active", t, NoTime))]

\* What's wrong with what a goal of this status waits for.
WaitsFor(g) == {trigger.goal : trigger \in {w \in g.when.after : w.kind = "goal_closed"}}
WaitGraph(gs) == [id \in Ids(gs) |-> IF Find(gs, id) = 0 THEN {} ELSE WaitsFor(gs[Find(gs, id)])]
WaitsOnItself(gs, g) == g.id \in Reached(WaitsFor(g), WaitGraph(gs))
WaitsForParent(gs, g) == AncestorIds(gs, g) \cap WaitsFor(g) # {}
TriggerProblems(gs, g) ==
    g.when.waits /\
        \/ g.status # "inactive"
        \/ g.id \in WaitsFor(g) \/ ~(WaitsFor(g) \subseteq Ids(gs))
        \/ WaitsForParent(gs, g)
        \/ g.parent = NoId /\ \E trigger \in g.when.after : trigger.kind = "before_parent"
        \/ WaitsOnItself(gs, g)

\* When one waiting is activated, at `now`: NoTime, if it isn't yet.
\* Dated when it became ready, or a held one was let go, if later.
Dated(ready, freed, last, now) == Smaller(Larger(Larger(ready, freed), last), now)
LastOfHistory(g) == IF g.history = <<>> THEN NoTime ELSE Last(g.history).at
StartsIf(gs, g, now, ready, at) ==
    IF ready # NoTime /\ ready <= now /\ ~TriggerProblems(gs, g) /\ ~HeldBack(gs, g) /\ CanStart(g, at) THEN at ELSE NoTime
StartsOnce(gs, g, now, ready) ==
    StartsIf(gs, g, now, ready, Dated(ready, IF g.when.holds = {} THEN NoTime ELSE LastFreed(gs, now), LastOfHistory(g), now))
Starts(gs, g, now) ==
    IF g.status = "inactive" /\ g.when.waits
    THEN StartsOnce(gs, g, now, ReadyAt(gs, g, IF g.history = <<>> THEN now ELSE LastOfHistory(g)))
    ELSE NoTime

\* The highest priority first, then the soonest due, then as listed.
GoesBy(gs, i, j, p, q) ==
    \/ p < q
    \/ p = q /\ gs[i].deadline < gs[j].deadline
    \/ p = q /\ gs[i].deadline = gs[j].deadline /\ i <= j
Goes(gs, i, j) == GoesBy(gs, i, j, PriorityOf(gs, gs[i]), PriorityOf(gs, gs[j]))

\* mutant: all that are ready, without counting those just activated
SweepOneOfAll(gs, now, at) == SubSeq([i \in DOMAIN gs |-> IF at[i] = NoTime THEN gs[i] ELSE Activate(gs[i], at[i])], 1, Len(gs))
\* Each round activates one, counted in the holds of the next.
RECURSIVE Sweep(_, _), SweepOne(_, _, _)
Sweep(gs, now) == SweepOne(gs, now, Each(gs, LAMBDA g : Starts(gs, g, now)))
SweepOne(gs, now, at) ==
    LET ready == {i \in DOMAIN gs : at[i] # NoTime}
        first == CHOOSE i \in ready : \A j \in ready : Goes(gs, i, j)
    IN  IF ready = {} THEN gs ELSE Sweep([gs EXCEPT ![first] = Activate(@, at[first])], now)

\* What the server records itself carries the deadline after the change.
StampDeadlines(gs, ids) ==
    Each(gs, LAMBDA g : IF g.id \in ids /\ g.history # <<>>
                        THEN [g EXCEPT !.history[Len(g.history)].deadline = g.deadline] ELSE g)
----------------------------------------------------------------------------

\* When one waiting is expected to be activated: what it waits for at its
\* due, closed within that day, then its delay; NoTime if that can't be told.
RECURSIVE ExpectedStart(_, _, _, _), ExpectedDeadline(_, _, _, _)
ExpectedStart(gs, g, now, depth) ==
    LET o(trigger) == Find(gs, trigger.goal)
        open(trigger) == trigger.kind = "goal_closed" /\ o(trigger) # 0 /\ gs[o(trigger)].status \notin Closed
        due(i) == ExpectedDeadline(gs, gs[i], now, depth + 1)
        comes(trigger) ==
            IF open(trigger) THEN due(o(trigger))
            ELSE IF trigger.kind = "before_parent"
                 THEN IF ParentAt(gs, g) = 0 \/ due(ParentAt(gs, g)) = NoTime THEN NoTime
                      ELSE Shifted(due(ParentAt(gs, g)), trigger.by, -1)
                 ELSE Came(gs, g, trigger)
        all == {comes(trigger) : trigger \in g.when.after}
        days == {IF open(trigger) THEN comes(trigger) - 1 ELSE comes(trigger) : trigger \in g.when.after}
        last == IF all = {} THEN now ELSE Latest(IF g.when.delay.next_day THEN days ELSE all)
        at == Delayed(last, g.when.delay)
    IN  IF g.status # "inactive" \/ depth > Len(gs) \/ ~g.when.waits \/ NoTime \in all THEN NoTime
        ELSE IF at > now THEN at ELSE NoTime

ExpectedDeadline(gs, g, now, depth) ==
    LET other(i, sign) ==
            LET due == IF i = 0 THEN NoTime ELSE ExpectedDeadline(gs, gs[i], now, depth + 1)
            IN  IF due = NoTime THEN NoTime ELSE Shifted(due, g.rule.by, sign)
        start == ExpectedStart(gs, g, now, depth + 1)
    IN  IF g.deadline # NoTime THEN g.deadline
        ELSE IF depth > Len(gs) \/ g.rule.kind = "none" THEN NoTime
        ELSE CASE g.rule.kind = "after_start" -> IF start = NoTime THEN NoTime ELSE AfterStart(start, g.rule.by)
               [] g.rule.kind = "before_parent" -> other(ParentAt(gs, g), -1)
               [] g.rule.kind = "after_goal" -> other(Find(gs, g.rule.goal), 1)
----------------------------------------------------------------------------

MeasuredFrom(gs, g) ==
    CASE g.rule.kind = "before_parent" -> {g.parent} \ {NoId}
      [] g.rule.kind = "after_goal" -> {g.rule.goal}
      [] OTHER -> {}
MeasuredGraph(gs) == [id \in Ids(gs) |-> MeasuredFrom(gs, gs[Find(gs, id)])]
ParentGraph(gs) == [id \in Ids(gs) |-> {gs[Find(gs, id)].parent} \ {NoId}]
MeasuredFromItself(gs, g) == g.id \in Reached(MeasuredFrom(gs, g), MeasuredGraph(gs))
Cycles(gs, g) == g.parent # NoId /\ g.id \in Reached({g.parent}, ParentGraph(gs))

StartedAt(g) ==
    LET starts == {k \in DOMAIN g.history : g.history[k].status = "active"}
    IN  IF starts = {} THEN NoTime ELSE g.history[CHOOSE k \in starts : \A l \in starts : k <= l].at
HistoryProblems(g) ==
    \/ g.history = <<>> \/ Last(g.history).status # g.status
    \/ \E k \in 2 .. Len(g.history) :
          g.history[k].at < g.history[k - 1].at \/ g.history[k].status = g.history[k - 1].status
RuleProblems(gs, g) ==
    \/ g.rule.kind = "after_goal" /\ (g.rule.goal = g.id \/ g.rule.goal \notin Ids(gs))
    \/ MeasuredFromItself(gs, g)

\* What's wrong with one goal by itself, and with it and its parent.
OwnProblem(gs, g) ==
    \/ \E i, j \in DOMAIN gs : i # j /\ gs[i].id = g.id /\ gs[j].id = g.id
    \/ g.id[1] # g.habit
    \/ RuleProblems(gs, g) \/ TriggerProblems(gs, g) \/ HistoryProblems(g)
    \/ g.deadline = NoTime /\ (g.status = "active" \/ (g.status = "inactive" /\ g.rule.kind = "none"))
    \/ g.deadline # NoTime /\ StartedAt(g) # NoTime /\ StartedAt(g) >= g.deadline
    \/ g.parent = g.id \/ Cycles(gs, g)
ParentProblem(gs, g) ==
    LET p == ParentAt(gs, g)
    IN  /\ g.parent # NoId
        /\ \/ p = 0
           \/ /\ ~Cycles(gs, g) /\ g.status \notin Closed
              /\ \/ gs[p].status \in Closed
                 \/ g.deadline # NoTime /\ gs[p].deadline # NoTime /\ g.deadline > gs[p].deadline

\* mutant: a parent's own change isn't asked about its sub-goals
OwnConcern(gs, ids) == \E i \in DOMAIN gs : gs[i].id \in ids /\ (OwnProblem(gs, gs[i]) \/ ParentProblem(gs, gs[i]))
\* Whether a change these goals are part of is refused.
GoalProblems(gs, ids) == \E i \in DOMAIN gs :
    \/ gs[i].id \in ids /\ OwnProblem(gs, gs[i])
    \/ {gs[i].id, gs[i].parent} \cap ids # {} /\ ParentProblem(gs, gs[i])
=============================================================================
