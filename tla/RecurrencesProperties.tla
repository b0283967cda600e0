------------------------ MODULE RecurrencesProperties ------------------------
(***************************************************************************)
(* What editing, splitting, deleting and renewing a series promises        *)
(* (tools/recurrences.rs, docs of its tools).                              *)
(***************************************************************************)
EXTENDS Recurrences

\* No event wanted is lost: but for those a client deleted, or that were
\* cancelled elsewhere, each slot that had one has one, at every step of a
\* call and wherever it's refused or stops -- the copy is made before the
\* series is ended, undone only if it wasn't, and has every event left of a
\* count -- unless a series was ended, or a copy cancelled, and the server not
\* told of it.
NoneLost == ~untold => wanted \subseteq AllListed(cal)
\* A series split has no event where what's split off it has one.
PartsApart ==
    stage = "none" /\ reply = "done" /\ call.do \in {"split", "update"} /\ call.target # call.id =>
        Listed(cal, call.id) \cap Listed(cal, call.target) = {}
\* And none is there twice once a call's done, nor once one says it didn't
\* split (but what it cut off a series Google split and couldn't cancel).  Not
\* so once a call stopped part way or couldn't cancel its copy, which may leave
\* some; nor once one said it didn't split, for the same split tried later
\* brings its copy back as it was, whatever was split off since.
\* (Two series may share a time: it's of one and what was split off it, or of
\* what's left of one Google split, which has an id of its own.)
Akin(i, j) == i[1] = j[1] \/ "rest" \in {i[1], j[1]}
DoubledIn(c) ==
    {t \in AllListed(c) : \E i \in DOMAIN c.series, j \in DOMAIN c.series :
        i # j /\ Akin(i, j) /\ t \in Listed(c, i) \cap Listed(c, j)}
RestLeft == IF Rest(call.at) \in DOMAIN cal.series THEN Listed(cal, Rest(call.at)) ELSE {}
NoneTwice ==
    stage = "none" /\ reply \in {"done", "refused", "unsplit"} /\ call.clean =>
        DoubledIn(cal) \subseteq (IF reply = "unsplit" THEN RestLeft ELSE {})

\* Each event wanted is there, at least once ever and once at the end.
EachThereOnce == NoneLost /\ PartsApart /\ NoneTwice

\* What's edited elsewhere is kept: no write of a call puts back a series'
\* fields or its rules' days as they were, a copy is of the series as it is
\* (unless it was edited since it was read for that; what's cut off a series
\* Google split is cancelled), and only an update's fields change, of the
\* series or its part from an event on.
EditsKept == [][
    elsewhere' = elsewhere => \A id \in DOMAIN cal'.series \ {Rest(call.at)} :
        LET s == cal'.series[id]
            before == IF id \in DOMAIN cal.series THEN cal.series[id] ELSE cal.series[call.id]
            asked(field) == stage = "patching" /\ id = call.target /\ field \in DOMAIN call.set /\ s[field] = call.set[field]
        IN  \A field \in {"days", "val"} :
                \/ s[field] = before[field] \/ asked(field)
                \/ id \notin DOMAIN cal.series /\ call.seen # elsewhere]_seriesVars
=============================================================================
