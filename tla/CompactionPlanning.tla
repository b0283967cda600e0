------------------------- MODULE CompactionPlanning -------------------------
(***************************************************************************)
(* What a compaction comes to (compaction/plan.rs: plan_compaction): the   *)
(* span's events, as Claude's decisions and the notes say they happened.   *)
(*                                                                         *)
(* What's asked is a record: the span's notes (of each, when it is and     *)
(* whether it says something), its events, the decisions, the notes to     *)
(* ignore, those told which event to go with (targets), now, how far       *)
(* earlier compactions settled what happened (history), and the events     *)
(* settled by them that historical notes revisit.                          *)
(*                                                                         *)
(* An event's name is the set of those it was merged of; `said` stands for *)
(* the fields only a decision sets (actions, goals, location), `lines` for *)
(* its description: the notes whose text is in it.                         *)
(***************************************************************************)
EXTENDS Integers, FiniteSets, FiniteSetsExt

CONSTANT MaxLines  \* how many lines of notes a description has room for (MAX_DESCRIPTION_BYTES)
ASSUME LinesAssumption == MaxLines \in Nat

NoTime == -1
Unset == 0       \* no event, or no note: those there are count from 1
Annotation == -1   \* a line of Claude's own
Renamed == -1      \* a name of Claude's own
NoDescription == [given |-> FALSE, lines |-> {}, dropsAll |-> FALSE, drops |-> {}]
Decision(do, id) ==
    [do |-> do, id |-> id, into |-> Unset, start |-> NoTime, end |-> NoTime, startNote |-> Unset,
     endNote |-> Unset, name |-> FALSE, said |-> FALSE, facts |-> FALSE, description |-> NoDescription,
     annotates |-> FALSE, allowHistory |-> FALSE]
\* An event as a plan is made of it.
IsEvent(e) ==
    /\ e = [start |-> e.start, end |-> e.end, name |-> e.name, said |-> e.said, facts |-> e.facts, lines |-> e.lines,
            prioritized |-> e.prioritized]
    /\ e.start \in Int /\ e.end \in Int

Overlaps(a, b) == a.start < b.end /\ b.start < a.end

(***************************************************************************)
(* The decisions (resolve)                                                 *)
(***************************************************************************)
Doing(q, do) == {d \in q.decisions : d.do = do}
MergedInto(q, id) == {d.id : d \in {m \in Doing(q, "merge") : m.into = id}}
Cancelled(q) == {d.id : d \in Doing(q, "cancel") \cup Doing(q, "merge")}
Kept(q) == {d.id : d \in Doing(q, "keep")} \cup {d.into : d \in Doing(q, "merge")}
Made(q) == {d.id : d \in Doing(q, "create")}
DecisionAmong(decisions, k) ==
    IF \E d \in decisions : d.id = k THEN CHOOSE d \in decisions : d.id = k ELSE Decision("keep", k)
DecisionOf(q, k) == DecisionAmong(q.decisions, k)

Moves(d) == d.start # NoTime \/ d.end # NoTime \/ d.startNote # Unset \/ d.endNote # Unset
Says(d) == d.name \/ d.said \/ d.facts \/ d.description.given \/ d.annotates
Malformed(q) == \E d \in q.decisions :
    \/ \E note \in {d.startNote, d.endNote} : note # Unset /\ note \notin DOMAIN q.notes
    \/ d.do = "create" /\ (d.into # Unset \/ ~d.name)
    \/ /\ d.do # "create"
       /\ \/ d.id \notin DOMAIN q.events
          \/ \E other \in q.decisions \ {d} : other.do # "create" /\ other.id = d.id
          \/ d.do # "keep" /\ (Moves(d) \/ Says(d))
          \/ d.do # "merge" /\ d.into # Unset
    \/ /\ d.do = "merge"
       /\ \/ d.into \notin DOMAIN q.events \/ d.into = d.id
          \/ {d.id, d.into} \cap q.revisits # {}
          \/ \E target \in q.decisions : target.id = d.into /\ target.do # "keep"

Edge(q, said, note, otherwise) ==
    IF said # NoTime THEN said ELSE IF note # Unset THEN q.notes[note].at ELSE otherwise
StartOf(q, k) == \* of a kept event, or one made
    LET d == DecisionOf(q, k)
        own == Edge(q, d.start, d.startNote, IF k \in Made(q) THEN NoTime ELSE q.events[k].start)
    IN  Min({own} \cup {q.events[m].start : m \in MergedInto(q, k)})
EndOf(q, k) ==
    LET d == DecisionOf(q, k)
        own == Edge(q, d.end, d.endNote, IF k \in Made(q) THEN NoTime ELSE q.events[k].end)
    IN  Max({own} \cup {q.events[m].end : m \in MergedInto(q, k)})
Retimed(q, k) == StartOf(q, k) # q.events[k].start \/ EndOf(q, k) # q.events[k].end

\* mutant: only what was over by then is history
IsSettledOver(q, k) == q.history # NoTime /\ q.events[k].end <= q.history /\ ~DecisionOf(q, k).allowHistory
\* What an earlier compaction recorded: it started then, and went on until.
IsSettled(q, k) == q.history # NoTime /\ q.events[k].start < q.history /\ ~DecisionOf(q, k).allowHistory
SettledUntil(q, k) == Min({q.events[k].end, q.history})
Unsettles(q, k) ==
    \/ k \in q.revisits /\ Retimed(q, k)
    \/ /\ IsSettled(q, k)
       /\ StartOf(q, k) # q.events[k].start \/ EndOf(q, k) < SettledUntil(q, k)
Compacted(q) ==
    \/ \E k \in Cancelled(q) : k \in q.revisits \/ IsSettled(q, k)
    \/ \E k \in Kept(q) : Unsettles(q, k)
Timeless(q) ==
    \/ \E k \in Made(q) : NoTime \in {StartOf(q, k), EndOf(q, k)}
    \/ \E k \in Made(q) \cup Kept(q) : EndOf(q, k) <= StartOf(q, k)

\* Kept where it was and not over yet: only what's said of it is taken.
Touched(q) == {k \in Kept(q) : ~Retimed(q, k) /\ q.events[k].end > q.now /\ MergedInto(q, k) = {}}
Decided(q) == (Kept(q) \ Touched(q)) \cup Made(q)
ByDefault(q) == {k \in DOMAIN q.events \ (Cancelled(q) \cup Kept(q)) : q.events[k].end <= q.now}
Facts(q) == Decided(q) \cup ByDefault(q)
There(q) == (DOMAIN q.events \ Cancelled(q)) \cup Made(q)

Worded(d, event) ==  \* set_fields, the summary and what was done
    [event EXCEPT !.name = IF d.name THEN {Renamed} ELSE @,
                  !.said = IF d.said THEN "said" ELSE @,
                  !.lines = IF d.description.given THEN d.description.lines ELSE @]
\* What hasn't happened yet has no facts to record.
FactsOf(q, k, start) ==
    IF start >= q.now
    THEN IF k \notin Made(q) /\ q.events[k].start >= q.now THEN q.events[k].facts ELSE "none"
    ELSE IF DecisionOf(q, k).facts THEN "said"
    ELSE IF k \in Made(q) THEN "none" ELSE q.events[k].facts
New(k) == [start |-> NoTime, end |-> NoTime, name |-> {k}, said |-> "none", facts |-> "none", lines |-> {}, prioritized |-> FALSE]
\* Each event as it's left, before any note is added to it.
Placing(r) == [k \in r.there |->
    IF k \in r.decided
    THEN LET base == IF k \in r.made THEN New(k) ELSE r.events[k]
             named == [base EXCEPT !.name = @ \cup UNION {r.events[m].name : m \in MergedInto(r, k)}]
         IN  [Worded(DecisionOf(r, k), named) EXCEPT
                 !.start = StartOf(r, k), !.end = EndOf(r, k), !.facts = FactsOf(r, k, StartOf(r, k))]
    ELSE IF k \in r.touched
    THEN [Worded(DecisionOf(r, k), r.events[k]) EXCEPT
             !.facts = IF DecisionOf(r, k).facts /\ r.events[k].start < r.now THEN "said" ELSE @]
    ELSE r.events[k]]

(***************************************************************************)
(* The notes (annotate)                                                    *)
(***************************************************************************)
Describes(r, k) == k \in r.kept \cup r.made /\ DecisionOf(r, k).description.given
\* The event a note marking an edge goes with: the one it ends, or else the
\* one it starts. Facts are looked at in order, then the rest in theirs.
Order(r, placed, k) ==
    LET fact == k \in r.facts IN
    <<IF fact THEN 0 ELSE 1, placed[k].start, IF fact THEN placed[k].end ELSE 0, IF k \in r.decided THEN 0 ELSE 1, k>>
Precedes(a, b) == \E i \in DOMAIN a : a[i] < b[i] /\ \A h \in 1 .. i - 1 : a[h] = b[h]
First(r, placed, S) ==
    IF S = {} THEN Unset
    ELSE CHOOSE k \in S : \A j \in S \ {k} : Precedes(Order(r, placed, k), Order(r, placed, j))
EdgeOf(r, placed, n) ==
    LET ended == {k \in r.decided : DecisionOf(r, k).endNote = n}
    IN  First(r, placed, IF ended # {} THEN ended ELSE {k \in r.decided : DecisionOf(r, k).startNote = n})
Falls(r, placed, t) ==
    LET within == {k \in DOMAIN placed : placed[k].start <= t /\ t < placed[k].end}
    IN  First(r, placed,
              IF within # {} THEN within ELSE {k \in DOMAIN placed : placed[k].start < t /\ t <= placed[k].end})

Told(r, placed, n) ==
    IF n \in DOMAIN r.targets /\ r.targets[n] # Unset THEN r.targets[n] ELSE EdgeOf(r, placed, n)
Textual(r) == {n \in DOMAIN r.notes \ r.ignored : r.notes[n].says}
Misplaced(r, told) == \E n \in DOMAIN told : told[n] \notin r.there \cup r.cancelled \cup {Unset}
\* The event each note whose text is kept goes with.
GoesWith(r, placed, told) ==
    [n \in DOMAIN told |-> IF told[n] \in r.there THEN told[n] ELSE Falls(r, placed, r.notes[n].at)]
\* A description that's given has the notes it has; the others are added to
\* it only if it says which were left out, and they weren't.
KeptOut(r, k, n) ==
    LET given == DecisionOf(r, k).description IN
    /\ Describes(r, k) /\ n \notin given.lines
    /\ given.dropsAll \/ n \in given.drops
LinesFor(r, with, k) ==
    {n \in DOMAIN with : with[n] = k /\ ~KeptOut(r, k, n)}
        \cup {Annotation : d \in {x \in r.decisions : x.annotates /\ x.id = k /\ ~x.description.given}}
\* What each note came to.
UseOf(r, with, n) ==
    LET k == IF n \in DOMAIN with THEN with[n] ELSE Unset IN
    IF k # Unset /\ ~KeptOut(r, k, n) THEN "annotates"
    ELSE IF \E e \in r.decided : n \in {DecisionOf(r, e).startNote, DecisionOf(r, e).endNote} THEN "edge"
    ELSE IF n \in r.ignored \/ k # Unset THEN "ignored" ELSE "unused"

(***************************************************************************)
(* The plan                                                                *)
(***************************************************************************)
\* What has started gets the priority its actions give it (keep_priorities).
Prioritized(r, event) == [event EXCEPT !.prioritized = @ \/ event.start < r.now]
Noted(r, placed, with) == [k \in DOMAIN placed |->
    Prioritized(r, [placed[k] EXCEPT !.lines = @ \cup LinesFor(r, with, k)])]
TooLong(r, placed, noted) == \E k \in DOMAIN placed :
    /\ Cardinality(noted[k].lines) > MaxLines
    /\ Describes(r, k) \/ noted[k].lines # placed[k].lines
\* Nothing's moved to make room.
Collides(r, placed) == \E k \in r.decided : \E j \in DOMAIN placed \ {k} : Overlaps(placed[k], placed[j])

\* What the user reviews (timeline_of): of each event what becomes of it.
\* What's still to come and stays as it is isn't shown.
\* mutant: nothing that's still to come, where it stays, is shown
LeftUnshownToCome(r, noted, k) ==
    k \in DOMAIN r.events /\ k \notin r.cancelled \cup r.decided /\ r.events[k].start >= r.now
LeftUnshown(r, noted, k) ==
    /\ k \in DOMAIN r.events /\ k \notin r.cancelled \cup r.decided
    /\ r.events[k].start >= r.now /\ noted[k] = r.events[k]
StatusOf(r, noted, k) ==
    IF k \in r.cancelled
    THEN IF \E d \in Doing(r, "merge") : d.id = k /\ d.into \in r.decided THEN "merged" ELSE "cancelled"
    ELSE IF k \in r.made THEN "new"
    ELSE IF k \in r.decided /\ [r.events[k] EXCEPT !.start = noted[k].start, !.end = noted[k].end] # r.events[k] THEN "adjusted"
    ELSE IF k \in r.facts /\ noted[k].end <= r.now THEN "on_schedule" ELSE "planned"
TimelineOf(r, noted) ==
    [k \in {j \in DOMAIN r.events \cup r.made : ~LeftUnshown(r, noted, j)} |-> StatusOf(r, noted, k)]

Refusal == [ok |-> FALSE]
Sole(S) == CHOOSE x \in S : TRUE
Annotated(r, placed, with, noted) ==
    IF TooLong(r, placed, noted) \/ Collides(r, placed) THEN Refusal
    ELSE [ok |-> TRUE, events |-> noted, shown |-> TimelineOf(r, noted), uses |-> [n \in DOMAIN r.notes |-> UseOf(r, with, n)]]
PlacedNotes(r, placed, told) ==
    IF Misplaced(r, told) THEN Refusal
    ELSE Sole(UNION {{Annotated(r, placed, with, noted) : noted \in {Noted(r, placed, with)}} : with \in {GoesWith(r, placed, told)}})
Placed(r) ==
    Sole(UNION {{PlacedNotes(r, placed, told) : told \in {[n \in Textual(r) |-> Told(r, placed, n)]}} : placed \in {Placing(r)}})
Resolved(q) ==
    [notes |-> q.notes, events |-> q.events, decisions |-> q.decisions, ignored |-> q.ignored, targets |-> q.targets,
     now |-> q.now, kept |-> Kept(q), made |-> Made(q), cancelled |-> Cancelled(q), decided |-> Decided(q),
     touched |-> Touched(q), facts |-> Facts(q), there |-> There(q)]
Planned(q) ==
    IF \/ \E n \in DOMAIN q.notes : q.notes[n].at > q.now
       \/ ~(q.ignored \subseteq DOMAIN q.notes) \/ ~(DOMAIN q.targets \subseteq DOMAIN q.notes)
       \/ q.ignored \cap DOMAIN q.targets # {}
       \/ Malformed(q)
    THEN Refusal
    ELSE IF Compacted(q) \/ Timeless(q) THEN Refusal
    ELSE Sole({Placed(r) : r \in {Resolved(q)}})
=============================================================================
