----------------------------- MODULE Recurrences -----------------------------
(***************************************************************************)
(* Recurring series edited, split, deleted and renewed                     *)
(* (stores/recurrences.rs, called by tools/recurrences.rs): each a few     *)
(* writes to Google Calendar, made from a series as the server keeps it or *)
(* as it's asked anew, while the series is edited elsewhere, a write is    *)
(* refused, its answer is lost, or the server stops between two.           *)
(***************************************************************************)
EXTENDS Integers, Sequences, FiniteSets, FiniteSetsExt

CONSTANTS
    LastSlot,     \* a series may have an event in each slot of time up to it
    Cap,          \* how many of a series' events Google expands
    Ahead,        \* how far ahead renewing looks
    FirstSeries,  \* the calendars to begin with
    Asks,         \* what clients ask: [do, set, now]
    Tries,        \* times a write refused as made to an older version is made
    MaxCalls,     \* bound: calls
    MaxHappens    \* bound: calls, edits elsewhere, writes refused, answers lost and stops

ASSUME SlotsAssumption == LastSlot \in Nat \ {0} /\ Cap \in Nat \ {0} /\ Tries \in Nat \ {0}

\* A series has its start, count (0 of none), end, days skipped, rule's days,
\* other fields, status and version.
IsSeries(s) ==
    /\ s = [start |-> s.start, count |-> s.count, until |-> s.until, skips |-> s.skips, days |-> s.days, val |-> s.val,
            status |-> s.status, version |-> s.version]
    /\ s.version \in Nat
IsTimed(s) == s.start \in 1..LastSlot /\ s.count \in Nat /\ s.until \in Int
\* The calendars to begin with are of such series, none of them split yet, and
\* an update, of the four things clients ask, sets none of the fields that say
\* when events are.
ASSUME FirstSeriesAssumption == \A c \in FirstSeries :
    /\ c = [series |-> c.series, edited |-> c.edited] /\ c.series = [id \in DOMAIN c.series |-> c.series[id]]
    /\ \A id \in DOMAIN c.series : IsSeries(c.series[id]) /\ IsTimed(c.series[id])
    /\ \A id \in DOMAIN c.series : id \in Seq(STRING) /\ Len(id) = 1 /\ id[1] # "rest"
    /\ \A e \in c.edited : e = [of |-> e.of, at |-> e.at, to |-> e.to] /\ e.of \in DOMAIN c.series
ASSUME AsksAssumption == \A ask \in Asks :
    ask.do \in {"split", "update", "delete", "renew"} /\ DOMAIN ask.set \subseteq {"days", "val"}

VARIABLES
    cal,       \* Google's series, and their events edited on their own: [of, at, to]
    heldCal,      \* the same, as the server keeps it
    call,      \* the call under way, or the last
    stage,     \* what it does next, or "none"
    reply,     \* how the last ended
    mishaps, elsewhere, calls, \* for the bounds
    wanted,    \* history: the slots with an event that nobody asked to be without
    untold     \* history: whether a series was ended or cancelled and the server not told

seriesVars == <<cal, heldCal, call, stage, reply, mishaps, elsewhere, calls, wanted, untold>>

\* The end of a series that goes on.
Forever == LastSlot + 1
\* A series' copy from a time on has an id of its own, the same each time;
\* one Google split is "<base>_R<time>", as is what's left of it.
CopyOf(id, at) == Append(id, at)
Rest(at) == <<"rest", at>>
ByGoogle(id) == id = <<"google">> \/ (id[1] = "rest" /\ Len(id) = 2)
Confirmed(s) == s.status = "confirmed"
-----------------------------------------------------------------------------

\* The events a series' rules give: its count counts those it skips.
Ruled(s) == {t \in s.start..LastSlot : t <= s.until /\ (s.count = 0 \/ t < s.start + s.count)} \ s.skips
\* Google has the first Cap of them.
Expanded(s) == {t \in Ruled(s) : Cardinality({u \in Ruled(s) : u < t}) < Cap}
Listed(c, id) ==
    IF Confirmed(c.series[id]) THEN {t \in Expanded(c.series[id]) : [of |-> id, at |-> t, to |-> 0] \notin c.edited} ELSE {}
AllListed(c) == UNION {Listed(c, id) : id \in DOMAIN c.series}
\* Where an event is, moved or not.
PutAt(c, id, t) == IF \E e \in c.edited : e.of = id /\ e.at = t /\ e.to # 0
                    THEN (CHOOSE e \in c.edited : e.of = id /\ e.at = t /\ e.to # 0).to ELSE t

EndsBefore(s, at) == Confirmed(s) /\ s.until < at
CountsWithinCap(s) == s.count \in 1..Cap
\* How many of its events are before a time, both as it put them and as they are.
CountedBefore(c, id, at) == Cardinality({t \in Expanded(c.series[id]) : t < at /\ PutAt(c, id, t) < at})

\* Series with one more, or with another in its place.
With(f, id, s) == [i \in DOMAIN f \cup {id} |-> IF i = id THEN s ELSE f[i]]
\* Google writes a series, giving it a version.
Put(c, id, s) ==
    [c EXCEPT !.series = With(@, id, [s EXCEPT !.version = IF id \in DOMAIN c.series THEN c.series[id].version + 1 ELSE 1])]
Amended(s, set) == [field \in DOMAIN s |-> IF field \in DOMAIN set THEN set[field] ELSE s[field]]
\* What's kept with a series as Google has it.
KeptOf(c, id) == [heldCal EXCEPT !.series = With(@, id, c.series[id])]
\* A series as kept, or one that isn't (or is cancelled) as Google has it.
GetSeries(id) == IF id \in DOMAIN heldCal.series /\ Confirmed(heldCal.series[id]) THEN heldCal.series[id] ELSE cal.series[id]
-----------------------------------------------------------------------------

\* The call under way: what's asked, of which series, from which event; the
\* series as last read, its copy, and how many events are left for it; whether
\* every call before it went well.
Unread == [start |-> 1, count |-> 0, until |-> Forever, skips |-> {}, days |-> "first", val |-> "first",
           status |-> "confirmed", version |-> 0]
NewCall == [do |-> "none", set |-> <<>>, now |-> 0, id |-> <<>>, at |-> 0, read |-> Unread, target |-> <<>>, made |-> Unread,
            count |-> 0, tries |-> 1, queue |-> {}, seen |-> 0, clean |-> TRUE]

\* Nothing asked before went wrong, and no series wasn't split.
AllWell == call.clean /\ mishaps = 0 /\ reply # "unsplit"
\* A call ends, or renewing goes on with the next series.
CallEnds(kind) == reply' = kind /\ stage' = IF call.queue # {} THEN "renewing" ELSE "none"
GoesTo(step) == stage' = step /\ UNCHANGED reply
\* A write is made and answered, the server keeping it as written; refused;
\* or made, and its answer lost.
Answered(id, s) == \E c \in {Put(cal, id, s)} : cal' = c /\ heldCal' = KeptOf(c, id) /\ UNCHANGED mishaps
MayHappen == calls + mishaps + elsewhere < MaxHappens
Mishap == MayHappen /\ mishaps' = mishaps + 1
Refused == Mishap /\ UNCHANGED <<cal, heldCal>>
Lost(id, s) == Mishap /\ cal' = Put(cal, id, s) /\ UNCHANGED heldCal
\* Refused as made to an older version: the series is read again.
Outdated(id) == heldCal' = KeptOf(cal, id) /\ UNCHANGED <<cal, mishaps>>

\* A client asks for what it sees listed: a series, whole or from one of its events on.
AskSeries ==
    /\ stage = "none" /\ calls < MaxCalls /\ MayHappen /\ calls' = calls + 1
    /\ \E ask \in {a \in Asks : a.do # "renew"}, id \in {i \in DOMAIN heldCal.series : Confirmed(heldCal.series[i])} :
       \E at \in Listed(heldCal, id) \cup (IF ask.do = "split" THEN {} ELSE {0}) :
          LET part == at > heldCal.series[id].start
          IN  /\ call' = [NewCall EXCEPT !.do = ask.do, !.set = ask.set, !.id = id, !.at = at, !.read = heldCal.series[id],
                                         !.target = id, !.seen = elsewhere, !.clean = AllWell]
              /\ stage' = CASE ask.do = "delete" /\ ~part -> "cancelling"
                            [] ask.do = "delete" /\ part -> IF ByGoogle(id) THEN "importing" ELSE "ending"
                            [] ask.do = "update" /\ at = 0 -> "patching"
                            [] OTHER -> "reading"
              /\ wanted' = IF ask.do = "delete" THEN wanted \ {t \in Listed(cal, id) \cup Listed(heldCal, id) : t >= at \/ ~part} ELSE wanted
    /\ reply' = "none"
    /\ UNCHANGED <<cal, heldCal, mishaps, elsewhere, untold>>
\* Series whose events run out soon, and that don't end by their own rules, are renewed.
AskRenewal ==
    LET from(now) == {id \in DOMAIN cal.series : \E t \in Listed(cal, id) : t >= now}
        endsSoon(id, horizon) == EndsBefore(cal.series[id], horizon) \/ CountsWithinCap(cal.series[id])
    IN  /\ stage = "none" /\ calls < MaxCalls /\ MayHappen /\ calls' = calls + 1
        /\ \E ask \in {a \in Asks : a.do = "renew"} :
           \E queue \in {{id \in from(ask.now) \ from(ask.now + Ahead) : ~endsSoon(id, ask.now + Ahead)}} :
              /\ call' = [NewCall EXCEPT !.do = "renew", !.now = ask.now, !.queue = queue, !.clean = AllWell]
              /\ stage' = (IF queue = {} THEN "none" ELSE "renewing") /\ reply' = "done"
        /\ UNCHANGED <<cal, heldCal, mishaps, elsewhere, wanted, untold>>
\* The next series is split at its last event.
RenewNext ==
    /\ stage = "renewing"
    /\ \E id \in call.queue :
          LET on == {t \in Listed(cal, id) : t >= call.now}
          IN  /\ call' = [call EXCEPT !.queue = @ \ {id}, !.id = id, !.at = IF on = {} THEN 0 ELSE Max(on),
                                      !.target = id, !.count = 0, !.tries = 1, !.seen = elsewhere,
                                      !.clean = AllWell]
              /\ stage' = IF on # {} THEN "reading" ELSE IF call.queue = {id} THEN "none" ELSE "renewing"
    /\ UNCHANGED <<cal, heldCal, reply, mishaps, elsewhere, calls, wanted, untold>>
-----------------------------------------------------------------------------

\* What's asked is done, but for an update's write to the series from then on.
SplitDone(target, read) ==
    /\ call' = [call EXCEPT !.target = target, !.read = read, !.tries = 1]
    /\ IF call.do = "update" THEN GoesTo("patching") ELSE CallEnds("done")

\* A series to be split is asked of Google: it's copied as it is.
\* mutant: it's copied as kept
FreshAsKept(id) == GetSeries(id)
FreshSeries(id) == cal.series[id]
ReadToSplit ==
    /\ stage = "reading"
    /\ heldCal' = KeptOf(cal, call.id)
    /\ LET fresh == FreshSeries(call.id)
       IN  IF call.at <= fresh.start THEN SplitDone(call.id, fresh)
           ELSE    /\ call' = [call EXCEPT !.read = fresh, !.seen = elsewhere]
                   /\ IF fresh.count = 0 THEN GoesTo("creating")
                      ELSE IF ByGoogle(call.id) THEN CallEnds("refused") ELSE GoesTo("counting")
    /\ UNCHANGED <<cal, mishaps, elsewhere, calls, wanted, untold>>
\* The copy has what's left of the count.
CountInstances ==
    /\ stage = "counting"
    /\ LET left == call.read.count - CountedBefore(cal, call.id, call.at)
       IN  IF left <= 0 THEN CallEnds("refused") /\ UNCHANGED call
           ELSE GoesTo("creating") /\ call' = [call EXCEPT !.count = left]
    /\ UNCHANGED <<cal, heldCal, mishaps, elsewhere, calls, wanted, untold>>

ToEnd(id) == IF ByGoogle(id) THEN "importing" ELSE "ending"
\* The copy is made first; one made before is used, brought back if it was cancelled.
CreateCopy ==
    LET id == CopyOf(call.id, call.at)
        copy == [call.read EXCEPT !.start = call.at, !.count = call.count, !.status = "confirmed"]
        is(made) == call' = [call EXCEPT !.target = id, !.made = made]
    IN  /\ stage = "creating"
        /\ IF id \notin DOMAIN cal.series
           THEN \/ Answered(id, copy) /\ is(cal'.series[id]) /\ GoesTo(ToEnd(call.id))
                \/ (Refused \/ Lost(id, copy)) /\ CallEnds("failed") /\ UNCHANGED call
           ELSE /\ is(GetSeries(id)) /\ GoesTo(IF Confirmed(GetSeries(id)) THEN ToEnd(call.id) ELSE "reviving")
                /\ UNCHANGED <<cal, heldCal, mishaps>>
        /\ UNCHANGED <<elsewhere, calls, wanted, untold>>
ReviveCopy ==
    LET revived == [cal.series[call.target] EXCEPT !.status = "confirmed"]
    IN  /\ stage = "reviving"
        /\ \/ Answered(call.target, revived) /\ GoesTo(ToEnd(call.id)) /\ call' = [call EXCEPT !.made = cal'.series[call.target]]
           \/ (Refused \/ Lost(call.target, revived)) /\ CallEnds("failed") /\ UNCHANGED call
        /\ UNCHANGED <<elsewhere, calls, wanted, untold>>

EndDone == IF call.do = "delete" THEN CallEnds("done") /\ UNCHANGED call ELSE SplitDone(call.target, call.made)
\* A series that can't be ended has its copy cancelled again.
\* mutant: the copy's left
FailsSplit == IF call.do = "delete" THEN CallEnds("failed") ELSE CallEnds("unsplit")
EndFails == IF call.do = "delete" THEN CallEnds("failed") ELSE GoesTo("undoing")
AtRead(id, read) == cal.series[id].version = read.version

\* A series is ended before a time, its rules as read, onto the version read.
EndSeries ==
    LET ended == [cal.series[call.id] EXCEPT !.days = call.read.days, !.skips = call.read.skips, !.count = 0, !.until = call.at - 1]
    IN  /\ stage = "ending"
        /\ IF AtRead(call.id, call.read)
           THEN \/ Answered(call.id, ended) /\ EndDone /\ UNCHANGED untold
                \/ Refused /\ EndFails /\ UNCHANGED <<call, untold>>
                \/ Lost(call.id, ended) /\ EndFails /\ untold' = TRUE /\ UNCHANGED call
           ELSE /\ Outdated(call.id)
                /\ IF call.tries < Tries
                   THEN GoesTo("rereading") /\ call' = [call EXCEPT !.tries = @ + 1]
                   ELSE EndFails /\ UNCHANGED call
                /\ UNCHANGED untold
        /\ UNCHANGED <<elsewhere, calls, wanted>>
ReadAgainToEnd ==
    /\ stage = "rereading" /\ GoesTo("ending")
    /\ call' = [call EXCEPT !.read = GetSeries(call.id)]
    /\ UNCHANGED <<cal, heldCal, mishaps, elsewhere, calls, wanted, untold>>
-----------------------------------------------------------------------------

\* Google splits a series it split before as the rest of it is imported,
\* moving what was edited on its own with it.
Imported(c) ==
    LET ended == Put(c, call.id, [c.series[call.id] EXCEPT !.until = Min({@, call.at - 1})])
    IN  [ended EXCEPT !.edited = {[e EXCEPT !.of = IF e.of = call.id /\ e.at >= call.at THEN Rest(call.at) ELSE @] : e \in @}]
WithRest(c) == Put(c, Rest(call.at), [call.read EXCEPT !.start = call.at, !.status = "confirmed"])
ImportRest ==
    /\ stage = "importing" /\ UNCHANGED call
    /\ \/ /\ \E c \in {WithRest(cal), WithRest(Imported(cal))} : cal' = c /\ heldCal' = KeptOf(c, Rest(call.at))
          /\ GoesTo("dropping") /\ UNCHANGED <<mishaps, untold>>
       \/ Refused /\ EndFails /\ UNCHANGED untold
       \/ Mishap /\ cal' = WithRest(Imported(cal)) /\ EndFails /\ untold' = TRUE /\ UNCHANGED heldCal
    /\ UNCHANGED <<elsewhere, calls, wanted>>
CancelRest ==
    LET cancelled == [cal.series[Rest(call.at)] EXCEPT !.status = "cancelled"]
    IN  /\ stage = "dropping" /\ UNCHANGED call
        /\ \/ Answered(Rest(call.at), cancelled) /\ GoesTo("verifying") /\ UNCHANGED untold
           \/ (Refused \/ Lost(Rest(call.at), cancelled)) /\ EndFails /\ untold' = TRUE
        /\ UNCHANGED <<elsewhere, calls, wanted>>
\* Whether that ended it is asked of Google.
VerifyEnded ==
    /\ stage = "verifying" /\ UNCHANGED <<cal, elsewhere, calls, wanted>>
    /\ \/ /\ heldCal' = KeptOf(cal, call.id) /\ UNCHANGED <<mishaps, untold>>
          /\ IF EndsBefore(cal.series[call.id], call.at) THEN EndDone ELSE EndFails /\ UNCHANGED call
       \/ Mishap /\ EndFails /\ untold' = TRUE /\ UNCHANGED <<heldCal, call>>

UndoCopy ==
    LET cancelled == [cal.series[call.target] EXCEPT !.status = "cancelled"]
    IN  /\ stage = "undoing"
        /\ \/ Answered(call.target, cancelled) /\ CallEnds("unsplit") /\ UNCHANGED untold
           \/ Refused /\ CallEnds("copied") /\ UNCHANGED untold
           \/ Lost(call.target, cancelled) /\ CallEnds("copied") /\ untold' = TRUE
        /\ UNCHANGED <<call, elsewhere, calls, wanted>>
-----------------------------------------------------------------------------

\* An update, made to the series as read, or its part from an event on.
PatchSeries ==
    LET patched == Amended(cal.series[call.target], call.set)
    IN  /\ stage = "patching"
        /\ IF ByGoogle(call.target) /\ "days" \in DOMAIN call.set
           THEN CallEnds("refused") /\ UNCHANGED <<cal, heldCal, mishaps, call>>
           ELSE IF AtRead(call.target, call.read)
           THEN /\ UNCHANGED call
                /\ \/ Answered(call.target, patched) /\ CallEnds("done")
                   \/ (Refused \/ Lost(call.target, patched)) /\ CallEnds("failed")
           ELSE /\ Outdated(call.target)
                /\ IF call.tries < Tries
                   THEN GoesTo("repatching") /\ call' = [call EXCEPT !.tries = @ + 1]
                   ELSE CallEnds("failed") /\ UNCHANGED call
        /\ UNCHANGED <<elsewhere, calls, wanted, untold>>
ReadAgainToPatch ==
    /\ stage = "repatching" /\ GoesTo("patching")
    /\ call' = [call EXCEPT !.read = GetSeries(call.target)]
    /\ UNCHANGED <<cal, heldCal, mishaps, elsewhere, calls, wanted, untold>>
\* A series is deleted whole, whatever its version.
CancelWhole ==
    LET cancelled == [cal.series[call.id] EXCEPT !.status = "cancelled"]
    IN  /\ stage = "cancelling"
        /\ \/ Answered(call.id, cancelled) /\ CallEnds("done")
           \/ (Refused \/ Lost(call.id, cancelled)) /\ CallEnds("failed")
        /\ UNCHANGED <<call, elsewhere, calls, wanted, untold>>

\* The server stops, or can't read what it's to write, between two steps.
StopSeries ==
    /\ stage # "none" /\ Mishap
    /\ stage' = "none" /\ reply' = "stopped"
    /\ untold' = (untold \/ stage \in {"dropping", "verifying"})
    /\ UNCHANGED <<cal, heldCal, call, elsewhere, calls, wanted>>

\* A series is edited elsewhere, or one of its events is cancelled or moved.
EditElsewhere ==
    /\ MayHappen /\ elsewhere' = elsewhere + 1
    /\ \E id \in {i \in DOMAIN cal.series : Confirmed(cal.series[i])} :
          LET s == cal.series[id]
              instance(edit) == [Put(cal, id, s) EXCEPT !.edited = @ \cup {edit}]
          IN  \/ \E set \in {[val |-> "theirs"], [days |-> "theirs"]} : cal' = Put(cal, id, Amended(s, set)) /\ UNCHANGED wanted
              \/ cal' = Put(cal, id, [s EXCEPT !.status = "cancelled"]) /\ wanted' = {}
              \/ /\ s.until > s.start /\ s.count # 1
                 /\ cal' = Put(cal, id, IF s.count = 0 THEN [s EXCEPT !.until = s.start] ELSE [s EXCEPT !.count = 1])
                 /\ wanted' = wanted \ {t \in Listed(cal, id) : t > s.start}
              \/ \E t \in Listed(cal, id) : cal' = instance([of |-> id, at |-> t, to |-> 0]) /\ wanted' = wanted \ {t}
              \/ \E t \in Listed(cal, id) \ {1} :
                    /\ ~\E e \in cal.edited : e.of = id /\ e.at = t
                    /\ cal' = instance([of |-> id, at |-> t, to |-> 1]) /\ UNCHANGED wanted
    /\ UNCHANGED <<heldCal, call, stage, reply, mishaps, calls, untold>>
SyncSeries ==
    /\ heldCal # cal /\ heldCal' = cal
    /\ UNCHANGED <<cal, call, stage, reply, mishaps, elsewhere, calls, wanted, untold>>

SeriesInit ==
    /\ cal \in FirstSeries /\ heldCal = cal
    /\ call = NewCall /\ stage = "none" /\ reply = "none"
    /\ mishaps = 0 /\ elsewhere = 0 /\ calls = 0
    /\ wanted = AllListed(cal) /\ untold = FALSE
SeriesNext ==
    \/ AskSeries \/ AskRenewal \/ RenewNext
    \/ ReadToSplit \/ CountInstances \/ CreateCopy \/ ReviveCopy \/ EndSeries \/ ReadAgainToEnd
    \/ ImportRest \/ CancelRest \/ VerifyEnded \/ UndoCopy
    \/ PatchSeries \/ ReadAgainToPatch \/ CancelWhole \/ StopSeries
    \/ EditElsewhere \/ SyncSeries
\* As it is apart from the rest of the server.
SeriesSpec == SeriesInit /\ [][SeriesNext]_seriesVars
=============================================================================
