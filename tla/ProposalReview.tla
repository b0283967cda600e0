--------------------------- MODULE ProposalReview ---------------------------
(***************************************************************************)
(* A proposal between Claude and the user (compaction/compactor.rs:        *)
(* dry_run, amend, add_note, withdraw_note, confirm, rebuild,              *)
(* needs_claude, abandon), kept in the journal's rows.  What applying a    *)
(* confirmed revision writes to the calendar is CompactionApply's; here it *)
(* ends, or meets an event that's gone.                                    *)
(*                                                                         *)
(* A tool that writes holds WRITE_LOCK for its whole call, so there is at  *)
(* most one call under way.  Each write to the tab is an action of its     *)
(* own: a call can stop before any of them, its rows known by the numbers  *)
(* they had when they were read.                                           *)
(*                                                                         *)
(* Events and notes are those of the window: once a window's stamped, it's *)
(* history, and the events and notes are another window's.                 *)
(***************************************************************************)
EXTENDS ProposalMerge, CompactionJournal

CONSTANTS
    Events,      \* the events of a window, numbered
    NoteCount,   \* how many notes the user may write in one
    ClaudeSays,  \* what Claude may send: [keeps, cancels, creates, again, ignores, targets]
    UserSays,    \* what the user may amend: [act, on, n, to, described]
    MaxCalls,    \* bound: calls
    MaxStops,    \* bound: calls that stop partway
    MaxChanges   \* bound: changes of the calendar outside

VARIABLES
    cal,      \* each event: a number that changes with it, or Gone
    written,  \* how many of the window's notes are written
    made,     \* the keys whose events have been created
    journal,  \* the tab's rows
    call,     \* the call under way
    proposals, stops, calls, changes

vars == <<cal, written, made, journal, call, proposals, stops, calls, changes>>
world == <<cal, written, made>>
budgets == <<stops, calls, changes>>

Gone == -1
Known == {EventName(e) : e \in {x \in Events : cal[x] # Gone}} \cup {MadeFrom(k) : k \in made}
NotesUpTo(n) == {NoteName(i) : i \in 1..n}

\* kind: what's called; marks: the statuses still to write, each <<row,
\* status>>; doomed: the rows still to delete; p: the proposal; row: the
\* revision it's about; ids: of a failed apply, what it made and settled.
Idle == [pc |-> "idle", kind |-> "none", p |-> 0, row |-> 0, doomed |-> {}, marks |-> <<>>,
         ids |-> [aliases |-> <<>>, settled |-> {}]]

Init ==
    /\ cal = [e \in Events |-> 0] /\ written = 0 /\ made = {}
    /\ journal = <<>> /\ call = Idle /\ proposals = 0
    /\ stops = 0 /\ calls = 0 /\ changes = 0

----------------------------------------------------------------------------
(* Reading the journal *)

Current(p) == Newest(journal, p)
Planned(i) == journal[CHOOSE j \in PlannedOf(journal, i) : TRUE]
NoneApplying == \A i \in CompactionRows(journal) : journal[i].status \notin ApplyingStatuses

\* Nothing but the notes, and what applying made, is asked of the calendar.
OptionsOf(meta, notes) ==
    Options(Known, NotesUpTo(notes), meta.aliases, meta.settled, meta.ignore, meta.targets)

\* A create whose event is there already would overlap it.
Plannable(decided) ==
    \A name \in DOMAIN decided :
        IF decided[name].act = "create" THEN name \notin made ELSE name \in Known

\* Planned again, it comes to the same notes and the same changes.
Same(i) ==
    /\ written = journal[i].notes
    /\ \A e \in Events : EventName(e) \in DOMAIN Planned(i).decided => cal[e] = Planned(i).seen[e]

----------------------------------------------------------------------------
(* Writing a revision *)

\* Statuses to write for the edits that no longer apply.
MarksOf(rows, status) ==
    LET upTo(i) == {j \in rows : j <= i}
    IN  [n \in 1..Cardinality(rows) |-> <<CHOOSE i \in rows : Cardinality(upTo(i)) = n, status>>]
UnknownRows(p, merged) ==
    {i \in RowsOf(journal, p, "edit") : journal[i].edit.seq \in merged.unknown}

\* The revision a new one replaces, unless it failed.
Superseding(i) == IF i # 0 /\ journal[i].status = "proposed" THEN <<<<i, "superseded">>>> ELSE <<>>

Writes(p, r, notes, meta, claude, decided, edits, marks) ==
    /\ journal' = StartBatch(journal, p, r, notes, meta, claude, decided, cal, edits)
    /\ call' = IF marks = <<>> THEN Idle ELSE [Idle EXCEPT !.pc = "mark", !.p = p, !.marks = marks]

\* One status: a revision's, an edit's, or a feedback item's with its answer.
MarkUnanswered(row, status, r) == [row EXCEPT !.status = status]
Marked(row, status, r) ==
    IF row.kind = "feedback" /\ status = "answered" THEN [row EXCEPT !.status = status, !.answeredIn = r]
    ELSE [row EXCEPT !.status = status]

Mark ==
    /\ call.pc \in {"mark", "fail"} /\ call.marks # <<>>
    /\ LET i == Head(call.marks)[1]
           r == journal[Current(call.p)].rev
       IN  journal' = [journal EXCEPT ![i] = Marked(@, Head(call.marks)[2], r)]
    /\ call' = IF Len(call.marks) = 1 /\ call.pc = "mark" THEN Idle ELSE [call EXCEPT !.marks = Tail(@)]
    /\ UNCHANGED <<world, proposals, budgets>>

----------------------------------------------------------------------------
(* Every call that writes a revision collects garbage first *)

MayCall == call = Idle /\ calls < MaxCalls

\* A confirm is refused before it collects.
Confirmable(p) ==
    /\ p # 0 /\ journal[Current(p)].status = "proposed"
    /\ OpenFeedback(journal, p) = {} /\ NoneApplying

Collect(kind) ==
    LET p == OpenProposal(journal)
    IN  /\ MayCall /\ Doomed(journal) # {}
        /\ kind = "confirm" => Confirmable(p)
        /\ call' = [Idle EXCEPT !.pc = "collect", !.kind = kind, !.p = p, !.doomed = Doomed(journal)]
        /\ UNCHANGED <<world, journal, proposals, budgets>>

RunFirst(doomed) == FirstRun(doomed)
RunToDelete(doomed) == LastRun(doomed)

DeleteRun ==
    /\ call.pc = "collect" /\ call.doomed # {}
    /\ LET run == RunToDelete(call.doomed)
       IN  /\ journal' = Deleted(journal, run)
           /\ call' = [call EXCEPT !.doomed = @ \ run]
    /\ UNCHANGED <<world, proposals, budgets>>

\* The rest of a call, on the rows there then are: a confirm goes on with the
\* proposal it was given, even if collecting has reopened one before it.
Collected(kind) ==
    /\ \/ call.pc = "collect" /\ call.doomed = {} /\ call.kind = kind
       \/ MayCall /\ Doomed(journal) = {} /\ (kind = "confirm" => Confirmable(OpenProposal(journal)))
    /\ calls' = calls + 1

Confirming == IF call.pc = "collect" THEN call.p ELSE OpenProposal(journal)

\* The call is refused -- its revision is stale, its edits name nothing
\* there is, or it can't be planned -- or it was made when it was sent before.
NothingToDo ==
    /\ call.pc = "collect" /\ call.kind # "confirm" /\ Collected(call.kind)
    /\ call' = Idle
    /\ UNCHANGED <<world, journal, proposals, stops, changes>>

----------------------------------------------------------------------------
(* Claude proposes, and revises: dry_run *)

NewMeta == [base |-> 0, seq |-> 0, by |-> "claude", reason |-> "proposed", keys |-> 0,
            aliases |-> <<>>, settled |-> {}, ignore |-> {}, targets |-> <<>>]

\* What Claude says, as decisions: a create is given the next key, or keeps
\* one Claude was given before.
Keyed(p, says, keys) ==
    LET creates == {ClaudeKey(p, keys + 1) : x \in 1..says.creates}
                   \cup {ClaudeKey(p, k) : k \in IF says.again THEN 1..keys ELSE {}}
    IN  [name \in {EventName(e) : e \in says.keeps \cup says.cancels} \cup creates |->
            Decision(IF name \in creates THEN "create"
                     ELSE IF name[3] \in says.keeps THEN "keep" ELSE "cancel", "claude", 0)]

\* Every item still open that was there when the base was made is answered.
Answers(p, base, replies) ==
    /\ replies \subseteq OpenFeedback(journal, p)
    /\ {i \in OpenFeedback(journal, p) : journal[i].since < journal[base].rev} \subseteq replies

\* Answering feedback about something replaces the edits of it made before.
Replaced(p, base, replies) ==
    {i \in RowsOf(journal, p, "edit") :
        /\ journal[i].status = "active" /\ journal[i].edit.seq <= journal[base].meta.seq
        /\ journal[i].edit.name \in {journal[j].about : j \in replies} \ {NoName}}

Propose(says) ==
    LET p     == proposals + 1
        meta  == [NewMeta EXCEPT !.keys = says.creates, !.ignore = says.ignores, !.targets = says.targets]
        claude == Keyed(p, says, 0)
        merged == Merge(p, claude, <<>>, OptionsOf(meta, written))
    IN  /\ OpenProposal(journal) = 0 /\ NoneApplying
        /\ ~says.again /\ Plannable(merged.decided)
        /\ claude # <<>> \/ written > 0
        /\ proposals' = p
        /\ Writes(p, 1, written, meta, claude, merged.decided, <<>>, <<>>)
        /\ UNCHANGED <<world, stops, changes>>

\* What's written once the revision is: the one it replaces superseded, the
\* feedback it answers, and the edits replaced or no longer of anything.
\* mutant: the edits an answer replaces are left active
MarksKeepingReplaced(p, current, replies, replaced, merged) ==
    Superseding(current) \o MarksOf(replies, "answered") \o MarksOf(UnknownRows(p, merged) \ replaced, "inapplicable")
MarksAfter(p, current, replies, replaced, merged) ==
    Superseding(current) \o MarksOf(replies, "answered") \o MarksOf(replaced, "replaced")
        \o MarksOf(UnknownRows(p, merged) \ replaced, "inapplicable")

\* Claude revises: for the feedback it answers, or else to extend or restate
\* what it proposed.
Revise(base, replies, says) ==
    LET p        == OpenProposal(journal)
        current  == Current(p)
        was      == journal[current].meta
        replaced == Replaced(p, base, replies)
        edits    == SelectSeq(ActiveEdits(journal, p),
                              LAMBDA edit : \A i \in replaced : journal[i].edit.seq # edit.seq)
        meta     == [was EXCEPT !.base = journal[base].rev, !.seq = LastSeq(journal, p), !.by = "claude",
                                !.reason = IF replies = {} THEN "extended" ELSE "revised", !.keys = @ + says.creates,
                                !.ignore = says.ignores, !.targets = says.targets]
        claude   == Keyed(p, says, was.keys)
        merged   == Merge(p, claude, edits, OptionsOf(meta, written))
    IN  /\ p # 0 /\ NoneApplying
        /\ Answers(p, base, replies)
        /\ Plannable(merged.decided)
        /\ Writes(p, journal[current].rev + 1, written, meta, claude, merged.decided, <<>>,
                  MarksAfter(p, current, replies, replaced, merged))
        /\ UNCHANGED <<world, proposals, stops, changes>>

----------------------------------------------------------------------------
(* The user amends, and adds feedback *)

\* An edit as it's made: a description says which notes it leaves out once
\* it's planned, in the edit that's kept.
NewEdit(p, says, seq, base) ==
    [seq |-> seq, act |-> says.act,
     name |-> IF says.act = "create" THEN NoName
              ELSE <<IF says.on \in {"event", "note"} THEN 0 ELSE p, says.on, says.n>>,
     to |-> IF says.to = 0 THEN NoName ELSE EventName(says.to),
     described |-> says.described, base |-> base, status |-> "active"]
What(edit, dropped) == <<edit.act, edit.name, edit.to, edit.described, dropped>>

\* The revision after the one it was made from is this amend's own, made
\* when it was sent before: the edits kept from then are the same.
SentAgain(p, base, edit) ==
    LET current == journal[Current(p)]
        from    == SelectSeq(Edits(journal, p), LAMBDA e : e.base = journal[base].rev)
    IN  /\ current.rev = journal[base].rev + 1 /\ current.meta.by = "user"
        /\ Len(from) = 1 /\ What(from[1], from[1].described) = What(edit, FALSE)

AmendableAnyTime(p) == p # 0  \* mutant: one being applied too
Amendable(p) == p # 0 /\ journal[Current(p)].status \notin ApplyingStatuses

Amend(base, says) ==
    LET p       == OpenProposal(journal)
        current == Current(p)
        was     == journal[current].meta
        edit    == NewEdit(p, says, LastSeq(journal, p) + 1, journal[base].rev)
        meta    == [was EXCEPT !.base = journal[base].rev, !.seq = edit.seq, !.by = "user", !.reason = "user edit"]
        merged  == Merge(p, Planned(current).claude, Append(ActiveEdits(journal, p), edit),
                         OptionsOf(was, journal[current].notes))
    IN  /\ Amendable(p)
        /\ ~SentAgain(p, base, edit)
        /\ edit.seq \notin merged.unknown /\ Plannable(merged.decided)
        /\ Writes(p, journal[current].rev + 1, journal[current].notes, meta, Planned(current).claude,
                  merged.decided, <<edit>>,
                  MarksAfter(p, current, {}, {}, merged))
        /\ UNCHANGED <<world, proposals, stops, changes>>

\* The same note, still open, is this one sent again.
AddNote(about) ==
    LET p == OpenProposal(journal)
    IN  /\ MayCall /\ Amendable(p)
        /\ \A i \in OpenFeedback(journal, p) : journal[i].about # about \/ journal[i].by # "user"
        /\ journal' = Append(journal, FeedbackRow(p, NextFeedbackSeq(journal, p), about, "user",
                                                  journal[Current(p)].rev))
        /\ calls' = calls + 1
        /\ UNCHANGED <<world, call, proposals, stops, changes>>

Withdraw(i) ==
    /\ MayCall
    /\ i \in OpenFeedback(journal, OpenProposal(journal))
    /\ journal' = [journal EXCEPT ![i].status = "withdrawn"]
    /\ calls' = calls + 1
    /\ UNCHANGED <<world, call, proposals, stops, changes>>

\* abandon_compaction takes a proposal's id, for its current revision, or a
\* revision's.
Abandon(i) ==
    /\ MayCall
    /\ i \in CompactionRows(journal) /\ journal[i].status \notin {"stamped", "abandoned"}
    /\ journal' = [journal EXCEPT ![i].status = "abandoned"]
    /\ calls' = calls + 1
    /\ UNCHANGED <<world, call, proposals, stops, changes>>

----------------------------------------------------------------------------
(* The user confirms *)

ConfirmApplies ==
    LET p == Confirming
        i == Current(p)
    IN  /\ Collected("confirm") /\ Plannable(Planned(i).decided) /\ Same(i)
        /\ journal' = [journal EXCEPT ![i].status = "applying"]
        /\ call' = [Idle EXCEPT !.pc = "apply", !.p = p, !.row = i]
        /\ UNCHANGED <<world, proposals, stops, changes>>

ConfirmRechecks ==
    LET p    == Confirming
        i    == Current(p)
        meta == [journal[i].meta EXCEPT !.base = journal[i].rev, !.by = "server", !.reason = "recheck"]
    IN  /\ Collected("confirm") /\ Plannable(Planned(i).decided) /\ ~Same(i)
        /\ Writes(p, journal[i].rev + 1, written, meta, Planned(i).claude, Planned(i).decided, <<>>,
                  Superseding(i))
        /\ UNCHANGED <<world, proposals, stops, changes>>

\* needs_claude: what went wrong, as feedback from the server.
AsksClaude(p) ==
    /\ journal' = Append(journal, FeedbackRow(p, NextFeedbackSeq(journal, p), NoName, "server",
                                              journal[Current(p)].rev))
    /\ call' = Idle

ConfirmNeedsClaude ==
    /\ Collected("confirm") /\ ~Plannable(Planned(Current(Confirming)).decided)
    /\ AsksClaude(Confirming)
    /\ UNCHANGED <<world, proposals, stops, changes>>

----------------------------------------------------------------------------
(* Applying ends, or stops at an event that's gone and is rebuilt *)

Finish(p) ==
    /\ MayCall
    /\ journal[Current(p)].status \in ApplyingStatuses
    /\ call' = [Idle EXCEPT !.pc = "apply", !.p = p, !.row = Current(p)]
    /\ calls' = calls + 1
    /\ UNCHANGED <<world, journal, proposals, stops, changes>>

ApplyEnds ==
    /\ call.pc = "apply"
    /\ journal' = [journal EXCEPT ![call.row].status = "stamped"]
    /\ call' = Idle
    /\ cal' = [e \in Events |-> 0] /\ written' = 0 /\ made' = {}
    /\ UNCHANGED <<proposals, budgets>>

\* Some of its creates and cancels were made and marked before the event
\* that's gone was met; they're settled.
ApplyFails ==
    LET decided == Planned(call.row).decided
        was     == journal[call.row].meta
        Of(act) == {name \in DOMAIN decided : decided[name].act = act}
    IN  /\ call.pc = "apply"
        /\ ~(Of("keep") \cup Of("cancel") \subseteq Known)
        /\ \E done \in [creates : SUBSET Of("create"), cancels : SUBSET (Of("cancel") \cap Known)] :
               /\ made' = made \cup done.creates
               /\ call' = [call EXCEPT
                      !.pc = "fail", !.marks = <<<<call.row, "failed">>>>,
                      !.ids = [aliases |-> [k \in DOMAIN was.aliases \cup done.creates |->
                                               IF k \in done.creates THEN MadeFrom(k) ELSE was.aliases[k]],
                               settled |-> was.settled \cup done.cancels]]
        /\ UNCHANGED <<cal, written, journal, proposals, budgets>>

\* What Claude decided that isn't done, nor about an event that's gone.
Carried(claude, ids) ==
    [name \in {n \in DOMAIN claude : IF claude[n].act = "create" THEN n \notin DOMAIN ids.aliases
                                     ELSE n \notin ids.settled /\ n \in Known} |-> claude[name]]

\* What the rebuilt revision is, and the plan it comes to.
RebuiltMeta(i, ids) ==
    [journal[i].meta EXCEPT !.base = journal[i].rev, !.by = "server", !.reason = "apply failed",
                            !.aliases = ids.aliases, !.settled = ids.settled]
Left(i, ids) ==
    Merge(journal[i].of, Carried(Planned(i).claude, ids), ActiveEdits(journal, journal[i].of),
          OptionsOf(RebuiltMeta(i, ids), written))

Rebuild ==
    LET i      == call.row
        p      == call.p
        merged == Left(i, call.ids)
    IN  /\ call.pc = "fail" /\ call.marks = <<>>
        /\ IF UnknownRows(p, merged) # {}
           THEN /\ call' = [call EXCEPT !.marks = MarksOf(UnknownRows(p, merged), "inapplicable")]
                /\ UNCHANGED journal
           ELSE IF Plannable(merged.decided)
           THEN Writes(p, journal[i].rev + 1, written, RebuiltMeta(i, call.ids),
                       Carried(Planned(i).claude, call.ids), merged.decided, <<>>, <<>>)
           ELSE AsksClaude(p)
        /\ UNCHANGED <<world, proposals, budgets>>

----------------------------------------------------------------------------
(* Around the calls *)

\* The call stops: the server does, or a request of its is refused.
CallStops ==
    /\ call # Idle /\ stops < MaxStops
    /\ call' = Idle /\ stops' = stops + 1
    /\ UNCHANGED <<world, journal, proposals, calls, changes>>

ChangeOutside(e) ==
    /\ changes < MaxChanges /\ cal[e] # Gone
    /\ cal' = [cal EXCEPT ![e] = @ + 1]
    /\ changes' = changes + 1
    /\ UNCHANGED <<written, made, journal, call, proposals, stops, calls>>

Vanish(e) ==
    /\ changes < MaxChanges /\ cal[e] # Gone
    /\ cal' = [cal EXCEPT ![e] = Gone]
    /\ changes' = changes + 1
    /\ UNCHANGED <<written, made, journal, call, proposals, stops, calls>>

WriteNote ==
    /\ written < NoteCount /\ call = Idle
    /\ written' = written + 1
    /\ UNCHANGED <<cal, made, journal, call, proposals, budgets>>

Abouts == {EventName(e) : e \in Events}

Next ==
    \/ \E kind \in {"dry run", "amend", "confirm"} : Collect(kind)
    \/ DeleteRun \/ NothingToDo \/ Mark
    \/ /\ Collected("dry run")
       /\ \E says \in ClaudeSays :
              \/ Propose(says)
              \/ \E base \in RowsOf(journal, OpenProposal(journal), "compaction"),
                    replies \in SUBSET OpenFeedback(journal, OpenProposal(journal)) : Revise(base, replies, says)
    \/ /\ Collected("amend")
       /\ \E base \in RowsOf(journal, OpenProposal(journal), "compaction"), says \in UserSays : Amend(base, says)
    \/ \E about \in Abouts : AddNote(about)
    \/ \E i \in DOMAIN journal : Withdraw(i) \/ Abandon(i)
    \/ ConfirmApplies \/ ConfirmRechecks \/ ConfirmNeedsClaude
    \/ \E p \in Proposals(journal) : Finish(p)
    \/ ApplyEnds \/ ApplyFails \/ Rebuild
    \/ CallStops
    \/ \E e \in Events : ChangeOutside(e) \/ Vanish(e)
    \/ WriteNote

Spec == Init /\ [][Next]_vars
=============================================================================
