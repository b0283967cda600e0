-------------------------- MODULE MCProposalReview --------------------------
EXTENDS ProposalReviewProperties
CONSTANT TalkCalls  \* bound: calls where everything may be said
VARIABLE course
\* Keep the event and create one; or only what was created before.
MCClaudeSays ==
    {[keeps |-> {1}, cancels |-> {}, creates |-> 1, again |-> FALSE, ignores |-> {}, targets |-> <<>>],
     [keeps |-> {}, cancels |-> {1}, creates |-> 0, again |-> TRUE, ignores |-> {}, targets |-> <<>>]}
\* Take out what Claude creates; the event as planned; another created.
MCUserSays ==
    {[act |-> "cancel", on |-> "claude", n |-> 1, to |-> 0, described |-> FALSE],
     [act |-> "as planned", on |-> "event", n |-> 1, to |-> 0, described |-> FALSE],
     [act |-> "create", on |-> "event", n |-> 0, to |-> 0, described |-> TRUE]}

\* Few calls of every kind, with all that may happen around them; or one
\* more where the proposal's only talked about, so that feedback meets edits
\* made before and after it; or more with little said -- one edit, no
\* feedback, nothing changed outside -- so that garbage is collected.
Courses == {"all", "talk", "collect"}
Keeps ==
    CASE course = "all" -> calls' <= TalkCalls
      [] course = "talk" ->
             /\ world' = world /\ stops' = 0 /\ calls' <= TalkCalls + 1
             /\ \A i \in CompactionRows(journal') : journal'[i].status \in {"proposed", "superseded"}
      [] course = "collect" ->
             /\ world' = world \/ call.pc = "apply"
             /\ \A i \in DOMAIN journal' :
                    /\ journal'[i].kind # "feedback"
                    /\ journal'[i].kind = "edit" => journal'[i].edit.act = "create"
                    /\ journal'[i].kind = "compaction" => journal'[i].meta.reason \notin RevisedReasons
                    /\ journal'[i].kind = "planned" => ~(\E name \in DOMAIN journal'[i].claude : journal'[i].claude[name].act = "cancel")
MCInit == Init /\ course \in Courses
MCNext == Next /\ Keeps /\ UNCHANGED course
MCSpec == MCInit /\ [][MCNext]_<<vars, course>>
=============================================================================
