--------------------------- MODULE MCSyncedEvents ---------------------------
EXTENDS SyncedEventsProperties, TLC

CONSTANTS series, instance, single

OfSeries == (instance :> series) @@ (series :> NONE) @@ (single :> NONE)

\* One event, made here or elsewhere, written and changed, and the calendar forgotten.
OneEvent == [existing |-> {}, among |-> {single}, writes |-> 1, outside |-> 1, syncs |-> 3, listings |-> 1, forgets |-> 1, stale |-> 0]
\* A series and an instance of it edited on its own: one write to either, both, or
\* any event, and two syncs; or three, none of them a full listing, or of the series alone.
ASeries == [existing |-> {series, instance}, among |-> {series, instance},
            writes |-> 1, outside |-> 0, syncs |-> 2, listings |-> 1, forgets |-> 0, stale |-> 0]
Unlisted == [ASeries EXCEPT !.syncs = 3, !.listings = 0]
SeriesAlone == [ASeries EXCEPT !.among = {series}, !.syncs = 3]
\* A tool that writes has the calendar synced first.
Stale == [OneEvent EXCEPT !.existing = {single}, !.outside = 1, !.syncs = 2, !.forgets = 0, !.stale = 1]
Each == {OneEvent, ASeries, Unlisted, SeriesAlone, Stale}
\* A write goes on all through a sync.
WriteOnly == {[OneEvent EXCEPT !.existing = {single}, !.outside = 0, !.syncs = 2, !.forgets = 0]}
\* The calendar is forgotten.
ForgetOnly == {[OneEvent EXCEPT !.existing = {single}, !.writes = 0, !.outside = 0]}
=============================================================================
