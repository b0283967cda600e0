---------------------- MODULE ProposalReviewProperties ----------------------
(***************************************************************************)
(* What a proposal under review promises the user and Claude.              *)
(***************************************************************************)
EXTENDS ProposalReview

\* Between calls none of which stopped partway, the revision the user would
\* confirm is planned with just what Claude decided of it and the edits
\* still active: none that was replaced or doesn't apply is in it, and none
\* made is lost, whichever revision they were each made from (dry_run and
\* amend mark what they replace after the revision's written).  One planned
\* again by confirm keeps the decisions of the one it was planned from.
PlanIsLedger ==
    LET p == OpenProposal(journal)
        i == Current(p)
        o == [OptionsOf(journal[i].meta, journal[i].notes) EXCEPT
                 !.known = {EventName(e) : e \in {x \in Events : Planned(i).seen[x] # Gone}}
                           \cup {MadeFrom(k) : k \in made}]
    IN  (call = Idle /\ stops = 0 /\ p # 0 /\ journal[i].status = "proposed" /\ journal[i].meta.reason # "recheck") =>
            LET merged == Merge(p, Planned(i).claude, ActiveEdits(journal, p), o)
            IN  merged.decided = Planned(i).decided /\ merged.unknown = {}

\* Nothing is applied over feedback that's still open: not what was there
\* when it was confirmed, nor any added since (confirm, add_note).
NotAppliedOverFeedback ==
    \A i \in CompactionRows(journal) :
        journal[i].status = "applying" => OpenFeedback(journal, journal[i].of) = {}

\* Feedback is marked answered only once a revision Claude made after it is in
\* the journal, and as answered in that one, wherever the call stops (dry_run
\* writes the revision first).
AnswerIsThere ==
    Len(journal') = Len(journal) =>
        \A i \in DOMAIN journal :
            (journal[i].kind = "feedback" /\ journal[i].status = "open" /\ journal'[i].status = "answered") =>
                \E j \in RowsOf(journal, journal[i].of, "compaction") :
                    /\ j > i /\ journal[j].meta.reason = "revised"
                    /\ journal'[i].answeredIn = journal[j].rev

\* Claude's revisions of one there was, answering feedback or none.
RevisedReasons == {"revised", "extended"}

\* No feedback is passed over: what was there before the revision Claude
\* started from is answered in the one Claude made of it, unless the call
\* stopped before it was marked so.
NonePassedOver ==
    (call = Idle /\ stops = 0) =>
        \A i \in DOMAIN journal, j \in CompactionRows(journal) :
            (journal[i].kind = "feedback" /\ journal[i].status = "open"
                /\ journal[j].of = journal[i].of /\ journal[j].meta.reason \in RevisedReasons) =>
                    journal[i].since >= journal[j].meta.base

\* The user's feedback is answered: by a revision that's there, and by the
\* first Claude makes of one written after it.
FeedbackAnswered == [][AnswerIsThere /\ NonePassedOver']_vars

\* No call stopped between writing a revision and superseding the one it
\* replaces, which then stays "proposed" behind it.
NoneLeftProposed(rows) ==
    \A i \in CompactionRows(rows) : rows[i].status = "proposed" => i = Newest(rows, rows[i].of)

\* Proposals are one after another: none went on once the next had begun, as
\* one reopened by what a stop left "proposed" does.
OneAfterAnother(rows) == \A i, j \in DOMAIN rows : i < j => rows[i].of <= rows[j].of

\* A proposal that's finished isn't open again: not by abandoning another of
\* its revisions, and not because garbage collection took its newest, one run
\* of rows and one call at a time.
NoneReopened ==
    [][(NoneLeftProposed(journal) /\ OneAfterAnother(journal)) =>
           \A p \in OpenProposals(journal') : p \in OpenProposals(journal) \/ p = proposals']_vars

\* An event that's been created isn't created again by what's rebuilt:
\* docs/compaction-proposals.md, "The new revision replays the decisions",
\* says a create whose write is done is dropped.
CreatedIsDropped ==
    (call.pc = "fail" /\ call.marks = <<>>) =>
        LET decided == Left(call.row, call.ids).decided
        IN  \A name \in DOMAIN decided : decided[name].act = "create" => name \notin made

\* Whatever garbage collection deletes, run by run, it keeps what anyone
\* reads of the open proposal -- its current revision, and every edit and
\* feedback item -- and the last compaction stamped, where history ends.
CollectionKeeps ==
    [][DeleteRun =>
           LET p == call.p
               read(rows) == [current |-> rows[Newest(rows, p)],
                              planned |-> {rows[j] : j \in PlannedOf(rows, Newest(rows, p))},
                              edits |-> Edits(rows, p),
                              feedback |-> {rows[j] : j \in Feedback(rows, p)}]
           IN  /\ p # 0 => RowsOf(journal', p, "compaction") # {} /\ read(journal') = read(journal)
               /\ LastStamped(journal) # 0 => /\ LastStamped(journal') # 0
                                              /\ journal'[LastStamped(journal')] = journal[LastStamped(journal)]]_vars
=============================================================================
