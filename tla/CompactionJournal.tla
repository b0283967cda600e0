------------------------- MODULE CompactionJournal -------------------------
(***************************************************************************)
(* The Compaction Journal tab (stores/journal.rs): what each of its rows   *)
(* is, how rows are read back -- a proposal's revisions, its edits and     *)
(* feedback, which proposal is open -- and which rows garbage collection   *)
(* takes.  A tab is a sequence of rows; a row's number is its place.       *)
(*                                                                         *)
(* A revision is its "compaction" row, which says what it is, and its      *)
(* "planned" row, which stands for all the rows of its decisions and its   *)
(* steps.  They're one day: a proposal's span is planned as one.           *)
(***************************************************************************)
EXTENDS Integers, Sequences, SequencesExt, FiniteSets, FiniteSetsExt

CONSTANTS
    WholeSuperseded,  \* how many superseded revisions keep all their rows (WHOLE_SUPERSEDED)
    MaxRows,          \* more rows than this, and finished blocks go (MAX_ROWS)
    TrimToRows        \* until there are no more than this (TRIM_TO_ROWS)

ASSUME GarbageAssumption ==
    /\ WholeSuperseded \in Nat
    /\ MaxRows \in Nat /\ TrimToRows \in Nat /\ TrimToRows <= MaxRows

RevisionStatuses == {"proposed", "superseded", "applying", "stamped", "failed", "abandoned"}
ApplyingStatuses == {"applying"}
FinishedStatuses == {"stamped", "superseded", "abandoned"}

\* meta: the revision it was made from, who made it and why, the last edit
\* it was planned with, the keys given so far, aliases and what's settled.
CompactionRow(p, r, notes, meta) ==
    [kind |-> "compaction", of |-> p, rev |-> r, status |-> "proposed", notes |-> notes, meta |-> meta]
\* What Claude decided, what that and the edits came to, and the calendar then.
PlannedRow(p, r, claude, decided, seen) ==
    [kind |-> "planned", of |-> p, rev |-> r, claude |-> claude, decided |-> decided, seen |-> seen]
EditRow(p, edit) == [kind |-> "edit", of |-> p, status |-> edit.status, edit |-> edit]
\* `since`: the newest revision when it was written.
FeedbackRow(p, seq, about, by, since) ==
    [kind |-> "feedback", of |-> p, seq |-> seq, about |-> about, by |-> by, since |-> since,
     status |-> "open", answeredIn |-> 0]

\* One write: the edits, then the revision they're laid over.
StartBatch(rows, p, r, notes, meta, claude, decided, seen, edits) ==
    rows \o [i \in 1..Len(edits) |-> EditRow(p, edits[i])]
         \o <<CompactionRow(p, r, notes, meta), PlannedRow(p, r, claude, decided, seen)>>

----------------------------------------------------------------------------
(* Reading *)

RowsOf(rows, p, kind) == {i \in DOMAIN rows : rows[i].of = p /\ rows[i].kind = kind}
CompactionRows(rows) == {i \in DOMAIN rows : rows[i].kind = "compaction"}
PlannedOf(rows, i) == {j \in RowsOf(rows, rows[i].of, "planned") : rows[j].rev = rows[i].rev}

\* A proposal's current revision: its newest.
Newest(rows, p) ==
    LET own == RowsOf(rows, p, "compaction")
    IN  CHOOSE i \in own : \A j \in own : rows[j].rev <= rows[i].rev

Proposals(rows) == {rows[i].of : i \in CompactionRows(rows)}
OpenProposals(rows) == {p \in Proposals(rows) : rows[Newest(rows, p)].status \notin FinishedStatuses}
\* open_proposal: of those open, the first in the tab; 0 if there's none.
OpenProposal(rows) ==
    LET open     == OpenProposals(rows)
        first(p) == Min(RowsOf(rows, p, "compaction"))
    IN  IF open = {} THEN 0 ELSE CHOOSE p \in open : \A q \in open : first(p) <= first(q)

\* An edit's number is greater than any before it, so they're in order.
Edits(rows, p) ==
    LET own == SelectSeq(rows, LAMBDA row : row.of = p /\ row.kind = "edit")
    IN  [i \in DOMAIN own |-> [own[i].edit EXCEPT !.status = own[i].status]]
ActiveEdits(rows, p) == SelectSeq(Edits(rows, p), LAMBDA edit : edit.status = "active")
LastSeq(rows, p) == LET edits == Edits(rows, p) IN IF edits = <<>> THEN 0 ELSE Last(edits).seq

Feedback(rows, p) == RowsOf(rows, p, "feedback")
OpenFeedback(rows, p) == {i \in Feedback(rows, p) : rows[i].status = "open"}
NextFeedbackSeq(rows, p) == 1 + Max({0} \cup {rows[i].seq : i \in Feedback(rows, p)})

\* The last batch stamped, as the tab has it.
LastStamped(rows) ==
    LET stamped == {i \in CompactionRows(rows) : rows[i].status = "stamped"}
    IN  IF stamped = {} THEN 0 ELSE Max(stamped)

----------------------------------------------------------------------------
(* Garbage collection *)

\* Of the open proposal's superseded revisions, all but the newest few.
Trimmed(rows) ==
    LET open       == OpenProposal(rows)
        superseded == {i \in RowsOf(rows, open, "compaction") : rows[i].status = "superseded"}
    IN  {i \in superseded : Cardinality({j \in superseded : rows[j].rev > rows[i].rev}) >= WholeSuperseded}

\* A block is deleted whole: a revision, or a proposal's edits and feedback.
Block(rows, i) == IF rows[i].kind \in {"edit", "feedback"} THEN <<rows[i].of, 0>> ELSE <<rows[i].of, rows[i].rev>>
FirstOf(rows, block) == Min({i \in DOMAIN rows : Block(rows, i) = block})

\* mutant: an open proposal's revisions are as finished as any
FinishedIfOpen(rows, open, block) ==
    IF block[2] = 0 THEN block[1] \in Proposals(rows) /\ block[1] # open
    ELSE \E i \in RowsOf(rows, block[1], "compaction") :
             /\ rows[i].rev = block[2] /\ i # LastStamped(rows)
             /\ rows[i].status \in FinishedStatuses \cup {"failed"}
\* mutant: a failed revision isn't finished with its proposal
FinishedNotFailed(rows, open, block) ==
    /\ block[1] \in Proposals(rows) /\ block[1] # open
    /\ block[2] # 0 => \E i \in RowsOf(rows, block[1], "compaction") :
                           /\ rows[i].rev = block[2] /\ i # LastStamped(rows)
                           /\ rows[i].status \in FinishedStatuses
\* Whether a block may go: never the last batch stamped, nor anything of the
\* open proposal.  Edits and feedback are known to be a finished proposal's
\* by the revisions it still has.
Finished(rows, open, block) ==
    /\ block[1] \in Proposals(rows) /\ block[1] # open
    /\ block[2] # 0 => \E i \in RowsOf(rows, block[1], "compaction") :
                           /\ rows[i].rev = block[2] /\ i # LastStamped(rows)
                           /\ rows[i].status \in FinishedStatuses \cup {"failed"}

\* The rows to delete: those trimmed, and with too many rows still, the
\* finished blocks, oldest first, until enough are gone.
Doomed(rows) ==
    LET trimmed  == UNION {PlannedOf(rows, i) : i \in Trimmed(rows)}
        open     == OpenProposal(rows)
        finished == {i \in DOMAIN rows \ trimmed : Finished(rows, open, Block(rows, i))}
        kept     == Len(rows) - Cardinality(trimmed)
        first    == [i \in finished |-> FirstOf(rows, Block(rows, i))]
        before(i) == {j \in finished : first[j] < first[i]}
    IN  IF kept <= MaxRows THEN trimmed
        ELSE trimmed \cup {i \in finished : Cardinality(before(i)) < kept - TrimToRows}

\* One request deletes a run of rows; the last run goes first.
LastRun(doomed) == {i \in doomed : i..Max(doomed) \subseteq doomed}
FirstRun(doomed) == {i \in doomed : Min(doomed)..i \subseteq doomed}
Deleted(rows, run) == [i \in 1..(Len(rows) - Cardinality(run)) |->
                          rows[IF i < Min(run) THEN i ELSE i + Cardinality(run)]]
=============================================================================
