------------------------------ MODULE MCStores ------------------------------
(***************************************************************************)
(* The stores: how one's built, and what the changes of each keep, one of  *)
(* them at a time.                                                         *)
(***************************************************************************)
EXTENDS BuiltStore, MCGoals, MCEventChanges, MCRecurrences

CONSTANTS t1, t2, t3

ThreeThreads == {t1, t2, t3}
buildVars == <<lockVars, storeVars>>
mcStoreVars == <<buildVars, mcVars, eventVars, seriesVars>>

Init ==
    /\ StoreInit /\ CourseInit /\ EventsInit /\ SeriesInit
    /\ course # "series" => cal = MCSeriesGoingOn
Next ==
    \/ course = "build" /\ StoreNext /\ UNCHANGED <<mcVars, eventVars, seriesVars>>
    \/ course \in GoalCourses /\ CourseNext /\ UNCHANGED <<buildVars, eventVars, seriesVars>>
    \/ course = "events" /\ EventsNext /\ UNCHANGED <<buildVars, mcVars, seriesVars>>
    \/ course = "series" /\ SeriesNext /\ UNCHANGED <<buildVars, mcVars, eventVars>>
Spec == Init /\ [][Next]_mcStoreVars
=============================================================================
