------------------------------ MODULE MCGoals ------------------------------
(* The calls of the goals store, those of one course at a time. *)
EXTENDS GoalsProperties

CONSTANT Courses
VARIABLE course
mcVars == <<goalsVars, course>>

Sub(key, n, waits, after) == [key |-> key, by |-> [days |-> FALSE, n |-> n], waits |-> waits, after |-> after]
MCSubGoals ==
    << Sub("a", 1, FALSE, {}),
       Sub("b", 0, TRUE, {[kind |-> "goal_closed", goal |-> <<"", -1, "a">>, at |-> NoTime, by |-> NoRule.by]}) >>

ByTicks(n) == [days |-> FALSE, n |-> n]
AfterClosed(id) == [kind |-> "goal_closed", goal |-> id, at |-> NoTime, by |-> NoRule.by]
At(t) == [kind |-> "at", goal |-> NoId, at |-> t, by |-> NoRule.by]
BeforeParent(n) == [kind |-> "before_parent", goal |-> NoId, at |-> NoTime, by |-> ByTicks(n)]
Waits(after, delay, holds) == [waits |-> TRUE, after |-> after, delay |-> delay, holds |-> holds]
NoDelay == [next_day |-> FALSE, n |-> 0]
NextDay == [next_day |-> TRUE, n |-> 0]
AnyActive == [of |-> "any", own |-> FALSE, level |-> 0, n |-> 1]
OwnOrAbove == [of |-> "at_or_above", own |-> TRUE, level |-> 0, n |-> 1]
Rule(kind, id, n) == [kind |-> kind, goal |-> id, by |-> ByTicks(n)]
Users(gs) == {id \in Ids(gs) : id[1] = ""}
Of(gs, id) == gs[Find(gs, id)]

WaitingGoals(users) ==
    {[deadline |-> 2], [deadline |-> 6, priority |-> 2]}
    \cup {[status |-> "inactive", deadline |-> 6, when |-> Waits({AfterClosed(id)}, delay, {})] : id \in users, delay \in {NoDelay, NextDay}}
    \cup {[status |-> "inactive", rule |-> Rule("after_start", NoId, 2), when |-> Waits({At(2)}, NextDay, {})],
          [status |-> "inactive", deadline |-> 6, priority |-> 2, when |-> Waits({At(1)}, NoDelay, {OwnOrAbove})],
          [status |-> "inactive", deadline |-> 6, priority |-> 1, when |-> Waits({}, NoDelay, {AnyActive})]}
MeasuredGoals(users) ==
    {[deadline |-> d] : d \in {3, 6}}
    \cup {[parent |-> id, rule |-> Rule("before_parent", NoId, 1)] : id \in users}
    \cup {[rule |-> Rule("after_goal", id, 1)] : id \in users}
    \cup {[parent |-> id, status |-> "inactive", deadline |-> 6, when |-> Waits({BeforeParent(1)}, NoDelay, {})] : id \in users}
    \cup {[parent |-> id, status |-> "inactive", rule |-> Rule("before_parent", NoId, 1), when |-> Waits({At(1)}, NoDelay, {})] : id \in users}
    \cup {[status |-> "inactive", rule |-> Rule("after_start", NoId, 2), when |-> Waits({At(2)}, NoDelay, {})]}

\* The calls of update_goals.
NoEdits == [x \in {} |-> <<>>]
Update(ids, fields) == [gone |-> {}, edits |-> [x \in ids |-> fields], creates |-> <<>>]
Delete(ids) == [gone |-> ids, edits |-> NoEdits, creates |-> <<>>]
Create(offered) == {[gone |-> {}, edits |-> NoEdits, creates |-> <<Given(made + 1, fields)>>] : fields \in offered}
Close(gs, ids, status) == {Update({id}, [status |-> status]) : id \in {x \in ids : Of(gs, x).status # status}}

WaitingCalls(gs, users) ==
    Create(WaitingGoals(users))
    \cup UNION {Close(gs, users, status) : status \in {"done", "missed", "active"}}
    \cup {Delete({id}) : id \in users}
    \cup {Update({id}, Retry(Of(gs, id), now + 3)) : id \in {x \in users : Of(gs, x).status = "missed"}}
MeasuredCalls(gs, users) ==
    Create(MeasuredGoals(users))
    \cup UNION {Close(gs, users, status) : status \in {"done", "active"}}
    \cup {Delete({id}) : id \in users}
    \cup {Update({id}, [deadline |-> d]) : id \in users, d \in {3, 6}}
    \cup {Update({id}, [parent |-> p]) : id \in users, p \in users \cup {NoId}}
    \cup {Update({id}, [rule |-> Rule("after_goal", o, 0)]) : id \in users, o \in users}
\* One due after another, activated and due late, under one due before that.
FollowedGoals ==
    << [deadline |-> 3],
       [status |-> "inactive", rule |-> Rule("after_start", NoId, 2), when |-> Waits({At(2)}, NoDelay, {})],
       [status |-> "inactive", parent |-> UserId(1), rule |-> Rule("after_goal", UserId(2), 1)] >>
FollowedCalls(gs, users) ==
    {[gone |-> {}, edits |-> NoEdits, creates |-> [n \in 1..3 |-> Given(made + n, FollowedGoals[n])]]}
    \cup UNION {Close(gs, users, status) : status \in {"done", "active"}}
    \cup {Delete({id}) : id \in users}
    \cup {Update({id}, [deadline |-> d]) : id \in users, d \in {4, 6}}
\* A habit's goal closed with the sub-goals still open under it, or deleted
\* with them all; or one of those closed.
Under(gs, id) == {gs[i].id : i \in {j \in DOMAIN gs : gs[j].parent = id}}
OpenOnes(gs, ids) == {id \in ids : Open(Of(gs, id))}
HabitCalls(gs, ours) ==
    {Update({id} \cup OpenOnes(gs, Under(gs, id)), [status |-> status]) : id \in OpenOnes(gs, ours), status \in {"done", "missed", "obsolete"}}
    \cup {Delete({id} \cup Under(gs, id)) : id \in ours}
    \cup {Update({id}, [status |-> "missed"]) : id \in OpenOnes(gs, Ids(gs) \ ours)}
    \cup {Update({id}, [status |-> "done"]) : id \in {x \in OpenOnes(gs, Ids(gs) \ ours) : x[3] = "a"}}

Calls(gs) ==
    CASE course = "waiting" -> WaitingCalls(gs, Users(gs))
      [] course = "measured" -> MeasuredCalls(gs, Users(gs))
      [] course = "followed" -> FollowedCalls(gs, Users(gs))
      [] course = "habit" -> HabitCalls(gs, {gs[i].id : i \in Theirs(gs)})

GoalCourses == {"waiting", "measured", "followed", "habit"}
CourseInit == GoalsInit /\ course \in Courses /\ active = (course = "habit")
ChangeGoals == \E shown \in {Shown} : \E call \in Calls(shown) : Change(shown, call)
Archive == course = "habit" /\ ArchiveHabit
CourseNext == (ChangeGoals \/ Archive \/ Tick) /\ UNCHANGED course
CourseSpec == CourseInit /\ [][CourseNext]_mcVars
=============================================================================
