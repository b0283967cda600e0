--------------------------- MODULE ProposalMerge ---------------------------
(***************************************************************************)
(* What a revision is planned with (compaction/proposals.rs: merge):       *)
(* Claude's decisions about events and notes, with every active edit of    *)
(* the user's laid on top, in the order they were made.                    *)
(*                                                                         *)
(* A name is <<proposal, kind, number>>: an event of the calendar's, a     *)
(* note, or a key that stands for an event some decision creates, which    *)
(* is its proposal's.  Once made, a key's event has an id of its own, its  *)
(* alias.                                                                  *)
(***************************************************************************)
EXTENDS Integers, Sequences, SequencesExt

EventName(n) == <<0, "event", n>>
NoteName(n) == <<0, "note", n>>
NoName == <<0, "none", 0>>
ClaudeKey(p, n) == <<p, "claude", n>>
EditId(p, seq) == <<p, "user", seq>>
MadeFrom(key) == <<key[1], IF key[2] = "claude" THEN "made for claude" ELSE "made for user", key[3]>>

IsKey(p, name) == name[1] = p /\ name[2] \in {"claude", "user"}

\* f with x mapped to v, and without x.
Put(f, x, v) == [y \in DOMAIN f \cup {x} |-> IF y = x THEN v ELSE f[y]]
Without(f, x) == [y \in DOMAIN f \ {x} |-> f[y]]

\* A decision: what to do, who decided it, and the edit that last changed it.
Decision(act, by, last) == [act |-> act, by |-> by, last |-> last]

\* What merging is given besides: the ids the calendar has, the window's
\* notes, the aliases, what's settled, and what Claude said of the notes.
Options(known, notes, aliases, settled, ignore, targets) ==
    [known |-> known, notes |-> notes, aliases |-> aliases, settled |-> settled,
     ignore |-> ignore, targets |-> targets]

Alias(o, name) == IF name \in DOMAIN o.aliases THEN o.aliases[name] ELSE name

\* Where a merge begins: as Claude decided.
Claudes(claude, o) ==
    [decided |-> claude, unknown |-> {}, ignore |-> o.ignore,
     targets |-> [n \in DOMAIN o.targets |-> Alias(o, o.targets[n])]]

Creating(m, name) == name \in DOMAIN m.decided /\ m.decided[name].act = "create"
\* A name that's no event: of something no longer created, or not in the calendar.
UnknownTarget(p, o, m, name) == ~Creating(m, name) /\ (IsKey(p, name) \/ name \notin o.known)

Unknown(m, edit) == [m EXCEPT !.unknown = @ \cup {edit.seq}]
Decided(m, name, decision) == [m EXCEPT !.decided = Put(@, name, decision)]
Undecided(m, name) == [m EXCEPT !.decided = Without(@, name)]

\* An edit of an event.  Keeping one laid over a create leaves it a create;
\* cancelling a create takes it out.
OfEvent(p, o, m, edit) ==
    LET name == Alias(o, edit.name)
    IN  IF name \in o.settled THEN m
        ELSE IF UnknownTarget(p, o, m, name) THEN Unknown(m, edit)
        ELSE IF edit.act = "as planned" \/ (edit.act = "cancel" /\ Creating(m, name)) THEN Undecided(m, name)
        ELSE IF edit.act = "keep" /\ Creating(m, name) THEN Decided(m, name, Decision("create", "user", edit.seq))
        ELSE Decided(m, name, Decision(edit.act, "user", edit.seq))

\* An edit of a note: left out, added to an event or to the one it falls
\* within, or again as Claude had it.
OfNote(p, o, m, edit) ==
    LET note == edit.name
        to   == Alias(o, edit.to)
    IN  IF note \notin o.notes THEN Unknown(m, edit)
        ELSE IF edit.act = "as planned"
        THEN [m EXCEPT !.ignore = (@ \ {note}) \cup (o.ignore \cap {note}),
                       !.targets = IF note \in DOMAIN o.targets THEN Put(@, note, Alias(o, o.targets[note]))
                                   ELSE Without(@, note)]
        ELSE IF edit.act = "ignore"
        THEN [m EXCEPT !.ignore = @ \cup {note}, !.targets = Without(@, note)]
        ELSE IF edit.to # NoName /\ UnknownTarget(p, o, m, to)
        THEN Unknown([m EXCEPT !.ignore = @ \ {note}], edit)
        ELSE [m EXCEPT !.ignore = @ \ {note}, !.targets = Put(@, note, to)]

IsOfNote(edit) == edit.name[2] = "note"

MergeEvents(p, o, m, edits) ==
    FoldLeft(LAMBDA sum, edit :
                 IF edit.act = "create" THEN Decided(sum, EditId(p, edit.seq), Decision("create", "user", edit.seq))
                 ELSE OfEvent(p, o, sum, edit),
             m, SelectSeq(edits, LAMBDA edit : ~IsOfNote(edit)))
\* The notes' edits after the events', which they may name.
Merge(p, claude, edits, o) ==
    LET events == MergeEvents(p, o, Claudes(claude, o), edits)
        notes  == FoldLeft(LAMBDA sum, edit : OfNote(p, o, sum, edit),
                           events, SelectSeq(edits, IsOfNote))
    IN  [notes EXCEPT !.targets =
            [n \in {x \in DOMAIN @ : IsKey(p, @[x]) => Creating(notes, @[x])} |-> @[n]]]
=============================================================================
