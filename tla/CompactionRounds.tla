-------------------------- MODULE CompactionRounds --------------------------
(***************************************************************************)
(* Compactions one after another (compaction/compactor.rs: walk, day, cut, *)
(* revisit, confirm, rebuild): each plans the span since the last one that *)
(* was stamped, which what it stamps becomes history, while notes are      *)
(* written -- also of times already history -- and the calendar is edited  *)
(* elsewhere.  How its changes are written and resumed is CompactionApply's *)
(* matter; here they're all made, or some and one can't be.                *)
(***************************************************************************)
EXTENDS CompactionPlanning

CONSTANTS
    FirstAgendas,  \* the calendars to begin with
    Asks,          \* what Claude may ask: [decisions, ignored, targets]
    NoteTimes,     \* when notes may be of
    NoteSays,      \* whether they say something
    MaxClock,      \* bound: the last time
    MaxNotes,      \* bound: notes
    MaxRounds,     \* bound: compactions stamped
    MaxElsewhere,  \* bound: changes made elsewhere
    DayLength,     \* how long a day is
    MaxSpan,       \* the most a compaction takes in (MAX_DAYS)
    Lookback,      \* how long before it an event may have ended to be offered
    Ahead          \* how long after it one may start to be

ASSUME RoundsAssumption ==
    DayLength \in Nat \ {0} /\ MaxSpan \in Nat \ {0} /\ DayLength <= MaxSpan /\ Lookback \in Nat /\ Ahead \in Nat \ {0}
ASSUME NotesAssumption == NoteTimes \subseteq Nat
\* Each calendar has finitely many events, each of which takes some time.
IsAgenda(a) ==
    /\ a = [k \in DOMAIN a |-> a[k]] /\ DOMAIN a \subseteq Nat \ {Unset} /\ IsFiniteSet(DOMAIN a)
    /\ \A k \in DOMAIN a : IsEvent(a[k]) /\ a[k].start < a[k].end
ASSUME AgendasAssumption == \A a \in FirstAgendas : IsAgenda(a)
\* What Claude asks is finitely many decisions, with times and ids.
IsAsk(ask) ==
    /\ ask = [decisions |-> ask.decisions, ignored |-> ask.ignored, targets |-> ask.targets]
    /\ IsFiniteSet(ask.decisions)
    /\ \A d \in ask.decisions : d.id \in Nat \ {Unset} /\ {d.start, d.end} \subseteq Int
ASSUME AsksAssumption == \A ask \in Asks : IsAsk(ask)

VARIABLES
    agenda,     \* the calendar's events
    jotted,     \* the notes: [at, says, stamped]
    hour,       \* now
    last,       \* until when the last compaction stamped
    round,      \* the proposal there is, if any
    settled,    \* what the compactions stamped recorded: [start, until] of each event: history
    elsewhere,  \* how many changes were made elsewhere
    rounds      \* how many compactions were stamped

roundVars == <<agenda, jotted, hour, last, round, settled, elsewhere, rounds>>

MaxOf(a, b) == IF a > b THEN a ELSE b
MinOf(a, b) == IF a < b THEN a ELSE b

(***************************************************************************)
(* The span (walk, day, cut, revisit)                                      *)
(***************************************************************************)
Listed(from, until) == {k \in DOMAIN agenda : agenda[k].end > from /\ agenda[k].start < until}
Unstamped(now) == {n \in DOMAIN jotted : ~jotted[n].stamped /\ jotted[n].at <= now}
IsHistorical(n) == last # NoTime /\ jotted[n].at < last
SpanNotes(now) == {n \in Unstamped(now) : ~IsHistorical(n)}
Historical(now) == {n \in Unstamped(now) : IsHistorical(n)}
DayStart(now) ==
    IF last # NoTime THEN last
    ELSE IF SpanNotes(now) = {} THEN now
    ELSE (Min({jotted[n].at : n \in SpanNotes(now)}) \div DayLength) * DayLength
\* From the last compaction stamped there must be time to plan; before any is,
\* a note to plan, even of this very midnight.
NothingToPlan(now) == IF last # NoTime THEN last >= now ELSE SpanNotes(now) = {}

Earliest(S) == CHOOSE k \in S : \A j \in S : agenda[k].start < agenda[j].start \/ (agenda[k].start = agenda[j].start /\ k <= j)
\* The span up to `until`, and its events: as far ahead as `taken`, or more.
Span(now, taken) ==
    LET start == DayStart(now)
        until == MinOf(now, start + MaxSpan)
        ends == MaxOf(until + Ahead, taken)
        near == Listed(start - Lookback, ends)
        earlier == {k \in near : agenda[k].end <= start}
        latest == {k \in earlier : \A j \in earlier : agenda[j].end <= agenda[k].end}
    IN  [start |-> start, until |-> until, ends |-> ends,
         ids |-> (near \ earlier) \cup (IF latest = {} THEN {} ELSE {Earliest(latest)})]
Reach(decisions, span) ==
    Max({NoTime} \cup UNION {{d.start, d.end} : d \in
        {x \in decisions : x.do = "create" \/ (x.do = "keep" /\ x.id \in span.ids)}})
\* mutant: however far the decisions put an event
CutShort(now, decisions) == Span(now, NoTime)
\* As far as the decisions put an event, and what that takes in may be put:
\* until nothing is put further, so as near as can be.
Reaches(decisions) == {NoTime} \cup UNION {{d.start, d.end} : d \in decisions}
FarEnough(decisions, span) == Reach(decisions, span) <= span.ends
Cut(now, decisions) ==
    Span(now, Min({taken \in Reaches(decisions) : FarEnough(decisions, Span(now, taken))}))
\* The settled event a historical note falls within is offered again.
RevisitedBy(t) ==
    LET within == {k \in DOMAIN agenda : agenda[k].start <= t /\ t < agenda[k].end}
        upTo == {k \in DOMAIN agenda : agenda[k].start < t /\ t <= agenda[k].end}
        hit == IF within # {} THEN within ELSE upTo
    IN  IF hit = {} THEN {} ELSE {Earliest(hit)}
\* mutant: the event it falls within stays as it was settled
RevisitsNone(now, span) == {}
Revisits(now, span) == (UNION {RevisitedBy(jotted[n].at) : n \in Historical(now)}) \ span.ids

AskedOf(ask, now, span, revisits) ==
    LET taken == {n \in SpanNotes(now) : jotted[n].at <= span.until} \cup Historical(now)
    IN  [notes |-> [n \in taken |-> [at |-> jotted[n].at, says |-> jotted[n].says]],
         events |-> [k \in span.ids \cup revisits |-> agenda[k]],
         decisions |-> ask.decisions, ignored |-> ask.ignored, targets |-> ask.targets,
         now |-> span.until, history |-> last, revisits |-> revisits, start |-> span.start]
Asked(ask, now) == Sole(UNION {{AskedOf(ask, now, span, revisits) : revisits \in {Revisits(now, span)}} :
                               span \in {Cut(now, ask.decisions)}})

\* Nothing placed runs back over what's from before the span (check_before_window).
RunsBack(q, events) == \E k \in DOMAIN events \ q.revisits :
    /\ k \notin DOMAIN q.events \/ [events[k] EXCEPT !.prioritized = q.events[k].prioritized] # q.events[k]
    /\ \E j \in DOMAIN agenda \ DOMAIN q.events : agenda[j].start < q.start /\ Overlaps(events[k], agenda[j])

NoRound == [at |-> "none"]
Offer(ask, q, plan) ==
    IF ~plan.ok THEN NoRound
    ELSE IF RunsBack(q, plan.events) THEN NoRound
    ELSE [at |-> "proposed", ask |-> ask, q |-> q, events |-> plan.events, uses |-> plan.uses, shown |-> plan.shown, from |-> agenda]
\* A revision: what it was asked, what's planned of it, and the calendar it's of.
RoundFor(ask, now) ==
    IF NothingToPlan(now) THEN NoRound
    ELSE Sole(UNION {{Offer(ask, q, plan) : plan \in {Planned(q)}} : q \in {Asked(ask, now)}})

\* The events a revision writes: those cancelled, updated and made.
Changed(r) ==
    {k \in DOMAIN r.q.events : k \notin DOMAIN r.events} \cup {k \in DOMAIN r.q.events \cap DOMAIN r.events : r.events[k] # r.q.events[k]}
        \cup (DOMAIN r.events \ DOMAIN r.q.events)
\* The calendar with some of them written.
With(r, written) == [k \in (DOMAIN agenda \ written) \cup (written \cap DOMAIN r.events) |->
                        IF k \in written THEN r.events[k] ELSE agenda[k]]

(***************************************************************************)
(* The calls                                                               *)
(***************************************************************************)
ProposeRound(ask) ==
    /\ rounds < MaxRounds /\ round.at = "none"
    /\ \A d \in ask.decisions : d.do = "create" => d.id \notin DOMAIN agenda
    /\ \E r \in {RoundFor(ask, hour)} : r.at = "proposed" /\ round' = r
    /\ UNCHANGED <<agenda, jotted, hour, last, settled, elsewhere, rounds>>

AbandonRound == \* also to ask for something else
    /\ round.at = "proposed"
    /\ round' = NoRound
    /\ UNCHANGED <<agenda, jotted, hour, last, settled, elsewhere, rounds>>

SameWrites(r, s) ==
    /\ DOMAIN r.q.notes = DOMAIN s.q.notes
    /\ [k \in Changed(r) |-> TRUE] = [k \in Changed(s) |-> TRUE]
    /\ \A k \in Changed(r) :
        /\ k \in DOMAIN r.events <=> k \in DOMAIN s.events
        /\ k \in DOMAIN r.events => r.events[k] = s.events[k]
        /\ k \in DOMAIN r.q.events => r.q.events[k] = s.q.events[k]
\* Confirmed as it still is: all of it's written, and its notes stamped.
StampAll ==
    /\ agenda' = With(round, Changed(round))
    /\ jotted' = [n \in DOMAIN jotted |-> [jotted[n] EXCEPT !.stamped = @ \/ n \in DOMAIN round.q.notes]]
    /\ last' = round.q.now
    /\ settled' = [k \in {j \in DOMAIN agenda' : agenda'[j].start < round.q.now} |->
                      [start |-> agenda'[k].start, until |-> MinOf(agenda'[k].end, round.q.now)]]
    /\ round' = NoRound
    /\ rounds' = rounds + 1
    /\ UNCHANGED <<hour, elsewhere>>
\* Those Claude may change though they're history.
Freed(decisions) == UNION {{d.id, d.into} : d \in {x \in decisions : x.allowHistory}}
\* One of the events it writes is deleted elsewhere meanwhile, and known to be
\* (the code's known_ids are of the listing kept, which may lag): what was made
\* stays, and what's left is planned again from the decisions that are.
CarriedOver(r, written, gone) ==
    {d \in r.ask.decisions :
        \/ d.do = "create" /\ d.id \notin written
        \/ d.do # "create" /\ d.id # gone /\ ~(d.do \in {"cancel", "merge"} /\ d.id \in written)}
Rebuilt(r, written, gone) ==
    [r.ask EXCEPT !.decisions = CarriedOver(r, written, gone)]
ApplyFails(gone, written) ==
    /\ elsewhere < MaxElsewhere
    /\ gone \in Changed(round) \cap DOMAIN agenda
    /\ agenda' = [k \in DOMAIN With(round, written) \ {gone} |-> With(round, written)[k]]
    /\ round' = [at |-> "failed", ask |-> Rebuilt(round, written, gone), through |-> round.q.now,
                 whole |-> With(round, Changed(round)), gone |-> gone, from |-> round.ask]
    /\ settled' = [k \in DOMAIN settled \ ({gone} \cup Freed(round.ask.decisions)) |-> settled[k]]
    /\ elsewhere' = elsewhere + 1
    /\ UNCHANGED <<jotted, hour, last, rounds>>
ConfirmRound ==
    /\ round.at = "proposed"
    /\ \E r \in {RoundFor(round.ask, round.q.now)} :
        IF r.at = "none" \/ ~SameWrites(r, round)
        THEN /\ round' = r  \* planned again, to be confirmed; or handed to Claude
             /\ UNCHANGED <<agenda, jotted, hour, last, settled, elsewhere, rounds>>
        ELSE \/ StampAll
             \/ \E gone \in Changed(round) : \E written \in SUBSET (Changed(round) \ {gone}) : ApplyFails(gone, written)
\* mutant: what's happened since is planned with what's left
RebuildRoundUpToNow ==
    /\ round.at = "failed"
    /\ round' = RoundFor(round.ask, hour)
    /\ UNCHANGED <<agenda, jotted, hour, last, settled, elsewhere, rounds>>
RebuildRound ==
    /\ round.at = "failed"
    /\ round' = RoundFor(round.ask, round.through)
    /\ UNCHANGED <<agenda, jotted, hour, last, settled, elsewhere, rounds>>

(***************************************************************************)
(* What goes on meanwhile                                                  *)
(***************************************************************************)
Jot(t, says) ==
    /\ round.at # "failed" /\ t <= hour /\ Cardinality(DOMAIN jotted) < MaxNotes
    /\ \E new \in {Cardinality(DOMAIN jotted) + 1} :
         jotted' = [n \in DOMAIN jotted \cup {new} |-> IF n = new THEN [at |-> t, says |-> says, stamped |-> FALSE] ELSE jotted[n]]
    /\ UNCHANGED <<agenda, hour, last, round, settled, elsewhere, rounds>>
TimePasses ==
    /\ round.at # "failed" /\ hour < MaxClock
    /\ hour' = hour + 1
    /\ UNCHANGED <<agenda, jotted, last, round, settled, elsewhere, rounds>>
MovedElsewhere(k, start, end) ==
    /\ round.at # "failed" /\ elsewhere < MaxElsewhere
    /\ agenda' = [agenda EXCEPT ![k].start = start, ![k].end = end]
    /\ settled' = [j \in DOMAIN settled \ {k} |-> settled[j]]
    /\ elsewhere' = elsewhere + 1
    /\ UNCHANGED <<jotted, hour, last, round, rounds>>

RoundsInit ==
    /\ agenda \in FirstAgendas
    /\ jotted = <<>> /\ hour = 0 /\ last = NoTime /\ round = NoRound
    /\ settled = <<>> /\ elsewhere = 0 /\ rounds = 0
RoundsNext ==
    \/ \E ask \in Asks : ProposeRound(ask)
    \/ AbandonRound
    \/ ConfirmRound
    \/ RebuildRound
    \/ \E t \in NoteTimes, says \in NoteSays : Jot(t, says)
    \/ TimePasses
    \/ \E k \in DOMAIN agenda : \E move \in {-1, 1} : MovedElsewhere(k, agenda[k].start + move, agenda[k].end + move)
RoundsSpec == RoundsInit /\ [][RoundsNext]_roundVars
=============================================================================
