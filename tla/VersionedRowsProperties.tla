---------------------- MODULE VersionedRowsProperties ----------------------
(***************************************************************************)
(* What the versioned rows of a tab, and the copy kept of it, promise.     *)
(***************************************************************************)
EXTENDS VersionedRows

Writing == call.at \in {"heading", "sending", "keeping"}
Restoring == refresh.at \in {"adding", "tagging", "putting"}

emptied == spent.deletes > 0

(* While no write's under way, each row kept of a tab is the tab's, unless *)
(* it was changed by hand since: what a read, a write that failed or a     *)
(* refresh leaves kept is never older than the tab (kept.rs:3-7,           *)
(* sheets.rs:426-442, 456-464, 531-547).                                   *)
KeptIsSheets ==
    kept.rows # NONE /\ tab.there /\ ~Writing =>
        \A i \in 1 .. Max({Len(kept.rows), Len(tab.rows)}) :
            RowAt(kept.rows, i) = RowAt(tab.rows, i) \/ i \in byHand

(* Of each item, the tab has what the last change made to it left: neither *)
(* a refresh nor another call's write puts older rows back (sheets.rs:      *)
(* 680-686), and no id is on two rows -- unless the tab was deleted.       *)
LastMade(id) == {k \in DOMAIN made : made[k].id = id /\ \A l \in DOMAIN made : made[l].id = id => l <= k}
TabHasLastMade ==
    tab.there /\ ~emptied /\ ~Writing /\ ~Restoring =>
        \A id \in Ids : \A k \in LastMade(id) :
            IF made[k].kind = "delete" THEN ~Has(tab.rows, id)
            ELSE Cardinality(PositionsOf(tab.rows, id)) = 1 /\ ItemOf(tab.rows, id).by = made[k].who

(* A change is made only to the item as its client read it: never over one *)
(* made by someone else since (rows.rs:10-15, 774-836). An id made again   *)
(* after it was deleted starts at version 1 again, so this is of the rest, *)
(* and of a tab nobody deletes.                                            *)
Overwrites(k) ==
    made[k].kind # "create" /\ ~emptied /\ made[k].was \notin {NONE, made[k].saw, made[k].who}
NothingOverwritten == \A k \in DOMAIN made : made[k].id \notin again => ~Overwrites(k)

(* What rows.rs:10-15 says of every row: one changed by someone else since *)
(* it was read isn't written. A delete or an update from version 1, sent   *)
(* (again) after the item was deleted and another made with its id, finds  *)
(* that at version 1 too, and is made to it.                               *)
NothingOverwrittenEver == \A k \in DOMAIN made : ~Overwrites(k)

(* However often it's sent, a change is made once (rows.rs:345-359) -- as  *)
(* long as nobody makes the id again.                                      *)
MadeOnce ==
    \A k, l \in DOMAIN made :
        k # l /\ made[k].id \notin again /\ ~emptied => made[k].who # made[l].who

(* A change is made once, and to the item as its client read it.           *)
MadeAsRead == NothingOverwritten /\ MadeOnce

(* The copy kept and the tab come together again and again, whatever's     *)
(* done by hand or fails (kept.rs:3-7, sheets.rs:680-686).                 *)
Together == kept.rows = NONE \/ (tab.there /\ tab.rows = kept.rows)
Converges == []<>Together

(* A change asked for, and sent again for want of an answer, is answered   *)
(* in the end, made or refused, whatever else holds the lock, fails or     *)
(* stops meanwhile (tools/mod.rs run).                                     *)
Answered == \A c \in Clients : client[c].at = "asking" ~> client[c].at = "done"
=============================================================================
