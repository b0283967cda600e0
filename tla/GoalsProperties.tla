-------------------------- MODULE GoalsProperties --------------------------
(***************************************************************************)
(* What the goals store promises (docs/goals.md, the tools' docs).         *)
(***************************************************************************)
EXTENDS Goals

ShownNext == Current(goals', active', now')
Open(g) == g.status \notin Closed

\* Open goals due after the one they're under.
Late(gs) == {gs[i].id : i \in {j \in DOMAIN gs :
    LET p == ParentAt(gs, gs[j])
    IN  Open(gs[j]) /\ p # 0 /\ NoTime \notin {gs[j].deadline, gs[p].deadline} /\ gs[j].deadline > gs[p].deadline}}

\* The rules the docs give for the whole set, of goals `gs`: every id is
\* one goal's; none is under itself, waits for itself or is measured from
\* itself; no open goal is under a closed one, or due after the one it's
\* under, unless a read moved either's deadline along with another's (current
\* drops the ids resolve_deadlines gives it, so the change that writes it
\* isn't asked about it); an open one has a deadline, or one to come.
MovedAlong(g) == g.rule.kind \in {"after_goal", "before_parent"}
HoldsTogether(gs) == \A i \in DOMAIN gs :
    LET g == gs[i]
        p == ParentAt(gs, g)
    IN  /\ Find(gs, g.id) = i
        /\ ~Cycles(gs, g) /\ ~WaitsOnItself(gs, g) /\ ~MeasuredFromItself(gs, g)
        /\ WaitsFor(g) \cup MeasuredFrom(gs, g) \subseteq Ids(gs)
        /\ Open(g) => (g.deadline = NoTime => g.status = "inactive" /\ g.rule.kind # "none")
        /\ g.parent # NoId => p # 0
        /\ p # 0 /\ Open(g) => Open(gs[p])
        /\ g.id \in Late(gs) => g.rule.kind = "after_goal" \/ (g.rule.kind # "before_parent" /\ MovedAlong(gs[p]))

\* A change is refused only for the problems its own goals are part of
\* (tools/goals.rs: "the rules hold for the result"; change filters
\* goal_problems by who's involved), and that's enough: after every one of
\* them the rules hold of the whole tab, also of the goals that followed a
\* parent's deadline, lost one they were measured from, or were activated;
\* and no change makes a goal late that wasn't as it was read.
RulesKept ==
    /\ []HoldsTogether(goals)
    /\ [][goals' = goals \/ \E shown \in {Shown} : Late(goals') \subseteq Late(shown)]_goalsVars

\* What's read of a goal's history stays so: the activations a read only
\* shows are dated when they came and not when they're seen, so each later
\* read, and the change that writes them, gives the same (current: "A read
\* doesn't write them; the next change of goals does, as they are here").
\* Not of one that a hold may hold back, which another can come before.
Unheld(id) == LET kept == All(goals, active, now) IN kept[Find(kept, id)].when.holds = {}
Story(gs, id) == LET h == gs[Find(gs, id)].history IN [k \in DOMAIN h |-> <<h[k].status, h[k].at>>]
Begins(s, t) == Len(s) <= Len(t) /\ \A k \in DOMAIN s : s[k] = t[k]
HistoriesOnlyGrow == [][
    active' = active => \A before \in {Shown}, after \in {ShownNext} :
        \A id \in Ids(before) :
            id \in Ids(after) /\ (id \in Ids(goals) => id \in Ids(goals')) /\ Unheld(id)
            => Begins(Story(before, id), Story(after, id))]_goalsVars

\* One waiting is activated when it was expected to be: the time a read
\* gave (expected_start_at) is when it is (ready_at and sweep), what the
\* delay comes to included, whether it's asked for at that time or later.
Told(g) == g.status = "inactive" /\ g.when.waits /\ g.when.holds = {} /\ \A t \in g.when.after : t.kind # "before_parent"
ClosesFirst(gs, g) == \A id \in WaitsFor(g) : gs[Find(gs, id)].status \in Closed
ExpectedWhenStarted == [][
    now' = now + 1 =>
        \A before \in {Shown}, after \in {ShownNext} :
            \A i \in DOMAIN before :
                LET g == before[i]
                    expected == ExpectedStart(before, g, now, 0)
                IN  Told(g) /\ ~TriggerProblems(before, g) =>
                    /\ after[i].status = "active" => Last(after[i].history).at = expected
                    /\ expected = now + 1 /\ CanStart(g, expected) /\ ClosesFirst(before, g) => after[i].status = "active"]_goalsVars

\* What a read tells of the goals comes true: what it shows was, and what it
\* expects is.
ReadsHold == HistoriesOnlyGrow /\ ExpectedWhenStarted

\* Goals that hold each other back aren't activated together: of any that
\* one read activates, the last of them to be wasn't held back by those
\* active before and the others (sweep: "counting those activated before
\* it"), so a hold of one active goal lets one through each time one ends.
HoldsHonored ==
    \A kept \in {All(goals, active, now)}, shown \in {Shown} :
        \A some \in SUBSET {i \in DOMAIN kept : kept[i].status = "inactive" /\ shown[i].status = "active"} :
            some # {} => \E i \in some : \A hold \in kept[i].when.holds :
                Cardinality(Counted(shown, kept[i], hold) \cap (some \cup {j \in DOMAIN kept : kept[j].status = "active"})) < hold.n

\* The goals made for a habit -- nothing checks them when a read makes
\* them -- are ones the rules let stay: however late the period is seen,
\* and however often the goal's missed, no sub-goal starts past when it's
\* due, or is open under one that isn't; and the habit has one goal open,
\* at most.
Started(gs) == \A i \in DOMAIN gs :
    gs[i].deadline # NoTime /\ StartedAt(gs[i]) # NoTime => StartedAt(gs[i]) < gs[i].deadline
HabitGoalsKept ==
    \A shown \in {Shown} :
        /\ HoldsTogether(shown) /\ Started(shown)
        /\ \A i, j \in Theirs(shown) : Open(shown[i]) /\ Open(shown[j]) => i = j
HabitGoalsAsMade == active => HabitGoalsKept

\* Of what get_goals lists: "Every open goal needs a deadline, and an active
\* one a due" (tools/goals.rs:206). One that's activated before what it's
\* measured from has a due is listed active without one.
ActiveHasDue == \A shown \in {Shown} : \A i \in DOMAIN shown : shown[i].status = "active" => shown[i].deadline # NoTime
=============================================================================
