----------------------- MODULE SyncedEventsProperties -----------------------
(* What SyncedEvents is to keep of the calendar, and warn of.              *)
EXTENDS SyncedEvents

ReadsUnsynced == store.token # NONE /\ ~store.stale

\* What the server made: each version, with who made it.
ServerMade == {v \in UNION {{e} \X (1 .. Latest(e)) : e \in Events} :
                 made[v[1]][v[2]].by \in Keys}

\* What's read without a sync was asked for after every write was made, but
\* for one under way all through the sync that cleared stale: it's cleared only
\* if the generation hasn't moved meanwhile (CalendarClient::sync).
ReadsAfterWrites ==
    ReadsUnsynced =>
        \A v \in ServerMade :
            made[v[1]][v[2]].by \notin past.spanned => made[v[1]][v[2]].at <= past.read

\* synced.rs:8-11: a sync clears stale only if no write began or ended while it
\* ran, "so what it read can't be older than a write" that is over.
ReadsNotOlder ==
    ReadsUnsynced =>
        \A v \in ServerMade :
            made[v[1]][v[2]].by \notin DOMAIN call.stage => made[v[1]][v[2]].at <= past.read

\* Nothing the feed sent before where the next sync starts is missing from
\* what's kept, nor older there (Calendar sends it only once).
NothingMissed ==
    store.token # NONE => \A e \in Events : store.events[e] >= store.token[e]

\* What's kept never goes back: no event becomes an older version of itself,
\* or older than the answer to a write no sync has brought yet -- by a lagging
\* sync, a slow answer, or a lagging full listing it isn't in (Store::keep,
\* keep_only).
NeverGoesBack == [][
    \A e \in Events :
        /\ store.events[e] > 0 /\ store'.events[e] > 0 => store'.events[e] >= store.events[e]
        /\ store'.events[e] >= store'.answers[e].version]_vars

\* The user isn't warned of what the server did itself, its changes to a
\* series' instances included, while feed and syncs keep their times, and
\* the marks it goes by aren't forgotten with the calendar (forget).
OwnNotWarned == ~past.forgot => store.outside \cap ServerMade = {}

\* A change made elsewhere to an event the server never wrote is warned of once
\* a sync has gone past it -- but one older than the last listing's newest.
OutsideIsWarned ==
    store.token # NONE =>
        \A e \in Events :
            LET i == store.token[e]
            IN  /\ i > 0
                /\ made[e][i].by = Outside /\ made[e][i].at > store.listed
                /\ Live(e, i) \/ \A j \in 1 .. i - 1 : Live(e, j)
                /\ past.written \cap ({All} \cup KeysOf(e)) = {}
                => <<e, i>> \in store.outside

\* The user is warned of what's changed elsewhere, and of nothing else.
WarnedOfOutside == OwnNotWarned /\ OutsideIsWarned
=============================================================================
