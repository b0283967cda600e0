----------------------------- MODULE MCCalendar -----------------------------
(***************************************************************************)
(* The calendar: what's kept of it as it's synced and written; or what     *)
(* compactions plan of it, one after another.                              *)
(***************************************************************************)
EXTENDS MCSyncedEvents, MCCompactionRounds

CONSTANT Checked
VARIABLE checked

mcCalendarVars == <<checked, vars, roundVars>>

CalendarInit ==
    /\ checked \in Checked /\ Init /\ RoundsInit
    /\ IF checked = "rounds" THEN left = Stale ELSE agenda = MCAgenda
CalendarNext ==
    \/ checked = "synced" /\ Next /\ UNCHANGED <<checked, roundVars>>
    \/ checked = "rounds" /\ RoundsNext /\ UNCHANGED <<checked, vars>>
CalendarSpec == CalendarInit /\ [][CalendarNext]_mcCalendarVars
=============================================================================
