--------------------------- MODULE VersionedRows ---------------------------
(***************************************************************************)
(* A tab of versioned items (sheet/rows.rs, sheet/mod.rs), written by tool *)
(* calls: each client reads the items, asks for one change of one of them  *)
(* from the version it read, and may send it again for want of an answer.  *)
(* A call holds WRITE_LOCK from its beginning to its answer (tools/mod.rs  *)
(* run); the refresh goes on beside it, and the server may stop between    *)
(* any two steps.                                                          *)
(*                                                                         *)
(* The items are those of any versioned kind; what's particular to one, as *)
(* its checks, is in the stores' own modules. A header missing one of the  *)
(* kind's columns is Header with its `val` set.                            *)
(***************************************************************************)
EXTENDS KeptTab

VARIABLES
    client,     \* of each client: how far it's come, what it read, its change
    call,       \* the tool call under way
    made,       \* the changes made to the tab, in order: history
    again       \* the ids made again after being deleted: history

vars == <<tab, kept, load, refresh, lock, spent, byHand, client, call, made, again>>
callVars == <<client, call, made, again>>

NoCall == [at |-> "none", who |-> NONE, rows |-> <<>>, write |-> <<>>, result |-> NONE]
NoChange == [kind |-> "none", id |-> NONE, version |-> 0, val |-> NONE]

Init ==
    /\ TabInit
    /\ client = [c \in Clients |-> [at |-> "new", view |-> <<>>, change |-> NoChange]]
    /\ call = NoCall
    /\ made = <<>>
    /\ again = {}

-----------------------------------------------------------------------------
(* Rows.                                                                   *)

(* The rows at `places`, in their order.                                   *)
Among(rows, places) ==
    [n \in 1 .. Cardinality(places) |->
        rows[CHOOSE i \in places : Cardinality({j \in places : j <= i}) = n]]

Items(rows) == Among(rows, {i \in DOMAIN rows : rows[i] # Blank /\ rows[i].id # "header"})
Readable(rows) ==
    /\ rows # <<>> /\ rows[1] = Header
    /\ \A i \in DOMAIN rows : rows[i].val # Unreadable

(* The item `id` of `items`: the last, of several rows with the id.        *)
PositionsOf(items, id) == {i \in DOMAIN items : items[i].id = id}
Has(items, id) == PositionsOf(items, id) # {}
ItemOf(items, id) == items[Max(PositionsOf(items, id))]

(* The version of a row written over `was` with version `given`: as it was *)
(* if it changes nothing, else one up.                                     *)
Unchanged(was, val) == was.val = val
\* mutant: the version stays
SameVersion(was, val) == was.version
NextVersion(was, val) == IF Unchanged(was, val) THEN was.version ELSE was.version + 1
SentAgain(was, given, val) == Unchanged(was, val) /\ was.version = given + 1
Stale(was, given, val) == given # was.version /\ ~SentAgain(was, given, val)

(* What a change comes to among `items`, read of the tab: its result, and  *)
(* the items to write, if any.                                             *)
Outcome(items, result) == [result |-> result, items |-> items]

Created(items, c, ch) ==
    IF ~Has(items, ch.id) THEN Outcome(Append(items, Row(ch.id, 1, ch.val, c)), "made")
    ELSE Outcome(items, IF ItemOf(items, ch.id).val = ch.val THEN "again" ELSE "refused")

Updated(items, c, ch) ==
    IF ~Has(items, ch.id) \/ Stale(ItemOf(items, ch.id), ch.version, ch.val)
    THEN Outcome(items, "conflict")
    ELSE LET was == ItemOf(items, ch.id)
             new == Row(ch.id, NextVersion(was, ch.val), ch.val, IF Unchanged(was, ch.val) THEN was.by ELSE c)
         IN  IF new = was THEN Outcome(items, "again")
             ELSE Outcome([items EXCEPT ![Max(PositionsOf(items, ch.id))] = new], "made")

Deleted(items, ch) ==
    IF ~Has(items, ch.id) THEN Outcome(items, "again")
    ELSE IF ItemOf(items, ch.id).version # ch.version THEN Outcome(items, "conflict")
    ELSE Outcome(Among(items, DOMAIN items \ PositionsOf(items, ch.id)), "made")

OutcomeOf(items, c, ch) ==
    CASE ch.kind = "create" -> Created(items, c, ch)
      [] ch.kind = "update" -> Updated(items, c, ch)
      [] OTHER -> Deleted(items, ch)

(* The rows to write: the items, and blanks over rows left of a longer     *)
(* list.                                                                   *)
Filled(items, n) == IF Len(items) >= n THEN items ELSE items \o [i \in 1 .. n - Len(items) |-> Blank]

-----------------------------------------------------------------------------
(* Clients.                                                                *)

(* What a client may change of the items it read.                          *)
ChangesFrom(view) ==
    [kind : {"create"}, id : Ids, version : {0}, val : Vals] \cup
    UNION {[kind : {"update"}, id : {view[i].id}, version : {view[i].version}, val : Vals] \cup
           [kind : {"delete"}, id : {view[i].id}, version : {view[i].version}, val : {NONE}] : i \in DOMAIN view}

(* A reading tool gives it what's kept, or what it read for want of it; it *)
(* asks for a change from that, now or later.                              *)
ClientReads(c) ==
    /\ client[c].at = "new" /\ kept.known
    /\ \E rows \in (IF kept.rows # NONE THEN {kept.rows} ELSE {})
                     \cup (IF load["reader"].at = "done" THEN {load["reader"].rows} ELSE {}) :
          /\ Readable(rows)
          /\ \E ch \in ChangesFrom(Items(rows)) :
                client' = [client EXCEPT ![c] = [at |-> "asking", view |-> Items(rows), change |-> ch]]
    /\ load' = [load EXCEPT !["reader"] = IF @.at = "done" THEN NoLoad ELSE @]
    /\ UNCHANGED <<tab, kept, refresh, lock, spent, byHand, call, made, again>>

ReaderGivesUp ==
    /\ \/ load["reader"].at = "failed"
       \/ load["reader"].at = "done" /\ ~Readable(load["reader"].rows)
    /\ load' = [load EXCEPT !["reader"] = NoLoad]
    /\ UNCHANGED <<tab, kept, refresh, lock, spent, byHand, callVars>>

-----------------------------------------------------------------------------
(* The call.                                                               *)

(* A call that writes -- or one that only reads, of a tab not found yet:   *)
(* that's done under the lock too (app.rs built).                          *)
CallBegins(c) ==
    /\ client[c].at = "asking" \/ (client[c].at = "new" /\ ~kept.known)
    /\ lock = NONE /\ call.at = "none"
    /\ lock' = "call"
    /\ call' = [NoCall EXCEPT !.at = IF kept.known THEN "reading" ELSE "finding", !.who = c]
    /\ UNCHANGED <<tab, kept, load, refresh, spent, byHand, client, made, again>>

Built == IF client[call.who].at = "asking" THEN [call EXCEPT !.at = "reading"]
         ELSE [call EXCEPT !.at = "answering", !.result = "built"]

(* The tab's found by its tag, or else made, filled, and only then tagged. *)
CallFinds ==
    /\ call.at = "finding"
    /\ IF tab.there /\ tab.tagged
       THEN kept' = [kept EXCEPT !.known = TRUE] /\ call' = Built
       ELSE call' = [call EXCEPT !.at = "adding"] /\ UNCHANGED kept
    /\ UNCHANGED <<tab, load, refresh, lock, spent, byHand, client, made, again>>

CallAdds ==
    /\ call.at = "adding"
    /\ ~tab.there
    /\ tab' = [NoTab EXCEPT !.there = TRUE]
    /\ kept' = [kept EXCEPT !.rows = <<>>, !.generation = @ + 1]
    /\ call' = [call EXCEPT !.at = "heading", !.write = <<Header>>]
    /\ UNCHANGED <<load, refresh, lock, spent, byHand, client, made, again>>

CallTags ==
    /\ call.at = "tagging"
    /\ tab.there
    /\ tab' = [tab EXCEPT !.tagged = TRUE]
    /\ kept' = [kept EXCEPT !.known = TRUE]
    /\ call' = Built
    /\ UNCHANGED <<load, refresh, lock, spent, byHand, client, made, again>>

CallReads ==
    /\ call.at = "reading"
    /\ \/ /\ kept.rows # NONE /\ load["call"].at = "none"
          /\ call' = [call EXCEPT !.at = "deciding", !.rows = kept.rows]
          /\ UNCHANGED load
       \/ /\ load["call"].at = "done"
          /\ call' = [call EXCEPT !.at = "deciding", !.rows = load["call"].rows]
          /\ load' = [load EXCEPT !["call"] = NoLoad]
    /\ UNCHANGED <<tab, kept, refresh, lock, spent, byHand, client, made, again>>

CallDecides ==
    /\ call.at = "deciding"
    /\ LET outcome == OutcomeOf(Items(call.rows), call.who, client[call.who].change)
           write == Changing(2, Filled(outcome.items, Len(call.rows) - 1))
       IN  IF ~Readable(call.rows)
           THEN call' = [call EXCEPT !.at = "answering", !.result = "refused"] /\ UNCHANGED kept
           ELSE IF outcome.result # "made" \/ DOMAIN write = {}
           THEN call' = [call EXCEPT !.at = "answering", !.result = outcome.result] /\ UNCHANGED kept
           ELSE /\ call' = [call EXCEPT !.at = "sending", !.result = "made", !.rows = <<>>, !.write = write]
                /\ WritingTo
    /\ UNCHANGED <<tab, load, refresh, lock, spent, byHand, client, made, again>>

(* What's made is noted: by whom, of which item, and who had written what  *)
(* it replaced.                                                            *)
Notes ==
    IF call.at = "sending"
    THEN LET ch == client[call.who].change
             items == Items(tab.rows)
             by(of) == IF Has(of, ch.id) THEN ItemOf(of, ch.id).by ELSE NONE
         IN  /\ made' = Append(made, [who |-> call.who, kind |-> ch.kind, id |-> ch.id,
                                      was |-> by(items), saw |-> by(client[call.who].view)])
             /\ again' = IF ch.kind = "create" /\ \E k \in DOMAIN made : made[k].id = ch.id
                         THEN again \cup {ch.id} ELSE again
    ELSE UNCHANGED <<made, again>>

CallSends ==
    /\ call.at \in {"heading", "sending"}
    /\ Takes(call.write)
    /\ Notes
    /\ call' = [call EXCEPT !.at = "keeping"]
    /\ UNCHANGED <<kept, load, refresh, lock, spent, client>>

CallKeeps ==
    /\ call.at = "keeping"
    /\ Keeps(call.write)
    /\ call' = [call EXCEPT !.at = IF kept.known THEN "answering" ELSE "tagging"]
    /\ UNCHANGED <<tab, load, refresh, lock, spent, byHand, client, made, again>>

(* A request fails, made or not. What a write may have changed is          *)
(* forgotten; of a tab added all the same, nothing is known.               *)
CallFails ==
    /\ \/ /\ call.at \in {"finding", "adding", "tagging", "heading", "sending"} /\ Fails
          /\ \/ UNCHANGED <<tab, byHand, made, again>>
             \/ /\ call.at \in {"heading", "sending"}
                /\ Takes(call.write) /\ Notes
             \/ /\ call.at = "tagging" /\ tab.there
                /\ tab' = [tab EXCEPT !.tagged = TRUE] /\ UNCHANGED <<byHand, made, again>>
             \/ /\ call.at = "adding" /\ ~tab.there
                /\ tab' = [NoTab EXCEPT !.there = TRUE] /\ UNCHANGED <<byHand, made, again>>
       \/ /\ \/ call.at = "adding" /\ tab.there
             \/ call.at \in {"tagging", "heading", "sending"} /\ ~tab.there
             \/ call.at = "reading" /\ load["call"].at = "failed"
          /\ UNCHANGED <<tab, byHand, spent, made, again>>
    /\ kept' = IF call.at \in {"heading", "sending"} \/ (call.at = "adding" /\ tab' # tab) THEN Forgotten ELSE kept
    /\ load' = [load EXCEPT !["call"] = NoLoad]
    /\ call' = [call EXCEPT !.at = "answering", !.result = "failed"]
    /\ UNCHANGED <<refresh, lock, client>>

(* The answer comes, or is lost and the change sent again; so it may be    *)
(* after an error.                                                         *)
CallAnswers ==
    /\ call.at = "answering"
    /\ \/ call.result = "built" /\ UNCHANGED <<client, spent>>
       \/ call.result # "built" /\ client' = [client EXCEPT ![call.who].at = "done"] /\ UNCHANGED spent
       \/ call.result # "built" /\ Fails /\ UNCHANGED client
    /\ call' = NoCall
    /\ lock' = NONE
    /\ UNCHANGED <<tab, kept, load, refresh, byHand, made, again>>

CallGoesOn ==
    \/ CallFinds \/ CallAdds \/ CallTags \/ CallReads \/ CallDecides
    \/ CallSends \/ CallKeeps \/ CallFails \/ CallAnswers
CallStep == CallGoesOn \/ \E c \in Clients : CallBegins(c)

(* The server stops, and starts again with nothing kept.                   *)
Restarts ==
    /\ Mishap("restarts")
    /\ kept' = NothingKept
    /\ load' = [a \in DOMAIN load |-> NoLoad]
    /\ refresh' = NoRefresh
    /\ call' = NoCall
    /\ lock' = NONE
    /\ UNCHANGED <<tab, byHand, client, made, again>>

LoadStep(a) ==
    \/ a = "reader" /\ kept.known /\ LoadAsks(a) /\ (\E c \in Clients : client[c].at = "new")
    \/ a = "call" /\ call.at = "reading" /\ LoadAsks(a)
    \/ LoadAnswered(a) \/ LoadFails(a) \/ LoadKeeps(a)
Loads == \E a \in DOMAIN load : LoadStep(a)

Next ==
    \/ (Loads \/ RefreshStep \/ EditsByHand \/ DeletesTab) /\ UNCHANGED callVars
    \/ \E c \in Clients : ClientReads(c)
    \/ ReaderGivesUp \/ CallStep \/ Restarts

(* The refresher's thread and a call under way go on; a failed read is     *)
(* given up. Of a client, only that a change it asked for is sent, and     *)
(* sent again for want of an answer: who reads, and what is asked or       *)
(* fails, isn't up to the server.                                          *)
Fairness ==
    /\ WF_vars(RefreshStep /\ UNCHANGED callVars)
    /\ WF_vars(LoadStep("reader") /\ UNCHANGED callVars)
    /\ WF_vars(LoadStep("call") /\ UNCHANGED callVars)
    /\ WF_vars(ReaderGivesUp)
    /\ WF_vars(CallGoesOn)
    /\ \A c \in Clients : WF_vars(client[c].at = "asking" /\ CallBegins(c))

Spec == Init /\ [][Next]_vars /\ Fairness
=============================================================================
