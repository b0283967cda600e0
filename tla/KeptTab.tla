------------------------------ MODULE KeptTab ------------------------------
(***************************************************************************)
(* One tab of the metadata spreadsheet and what the server keeps of it     *)
(* (google/kept.rs, google/sheets.rs): reads that fill what's kept, the    *)
(* background refresh that puts back what was changed by hand, and the     *)
(* requests to Sheets, any of which may fail, made or not.                 *)
(*                                                                         *)
(* Sheets' own side is as the repository's fake of it has it               *)
(* (testing/fake_google.rs).                                               *)
(***************************************************************************)
EXTENDS Naturals, Sequences, FiniteSets, FiniteSetsExt

CONSTANTS
    Clients,        \* each makes one change, and sends it again until it's answered
    Ids,            \* the ids clients choose
    Vals,           \* what a row's fields may be set to
    HandVals,       \* what they may be set to by hand
    MaxMishaps,     \* cells and tabs changed by hand, failures, lost answers and restarts, in all
    NONE
ASSUME NoneAssumption == NONE \notin {"call", "refresh"}
\* "header" and NONE tell the header and blank rows from an item's.
ASSUME IdsAssumption == Ids \cap {"header", NONE} = {}

VARIABLES
    tab,        \* the tab, as Sheets has it
    kept,       \* what the server keeps of it
    load,       \* the reads of the tab under way: a writing call's own, a reader's
    refresh,    \* the refresh under way
    lock,       \* who holds WRITE_LOCK
    spent,      \* how many mishaps of each kind there have been
    byHand      \* the rows changed by hand since the server last wrote them

(* A tab's rows, its header first. `by` is the change a row was last       *)
(* written by: history, no cell.                                           *)
Row(id, version, val, by) == [id |-> id, version |-> version, val |-> val, by |-> by]
Blank == Row(NONE, 0, NONE, NONE)
Header == Row("header", 0, NONE, NONE)
Unreadable == "unreadable"

RowAt(rows, i) == IF i \in DOMAIN rows THEN rows[i] ELSE Blank

(* Trailing blank rows are left out of what's read back.                   *)
Trim(rows) ==
    LET last == {i \in DOMAIN rows : rows[i] # Blank}
    IN  IF last = {} THEN <<>> ELSE SubSeq(rows, 1, Max(last))

(* Rows to write, each by its number (the code's runs of them are made in  *)
(* one request, as they are here; after one refused for their range, a run *)
(* at a time, which is left out).                                          *)
SetRows(rows, write) ==
    Trim([i \in 1 .. Max({Len(rows)} \cup DOMAIN write) |->
            IF i \in DOMAIN write THEN write[i] ELSE RowAt(rows, i)])

(* The rows of what was found that aren't as kept, to be put back.         *)
Differing(found, wanted) ==
    {i \in 1 .. Max({Len(found), Len(wanted)}) : RowAt(found, i) # RowAt(wanted, i)}
PutBack(found, wanted) == [i \in Differing(found, wanted) |-> RowAt(wanted, i)]

(* Those of `rows` that change what's kept from row `first` on -- or all,  *)
(* of a tab not kept.                                                      *)
Changing(first, rows) ==
    [i \in {j \in first .. first + Len(rows) - 1 :
               kept.rows = NONE \/ RowAt(kept.rows, j) # rows[j - first + 1]} |-> rows[i - first + 1]]

NoTab == [there |-> FALSE, tagged |-> FALSE, rows |-> <<>>]
NothingKept == [rows |-> NONE, generation |-> 0, known |-> FALSE]
NoLoad == [at |-> "none", generation |-> 0, rows |-> <<>>]
NoRefresh ==
    [at |-> "none", generation |-> 0, rows |-> <<>>, known |-> FALSE, found |-> <<>>, gone |-> FALSE, write |-> <<>>]

tabVars == <<tab, kept, load, refresh, lock, spent, byHand>>

(* The header, and rows some of which were saved before versions were.     *)
TabInit ==
    /\ tab \in {NoTab} \cup
               {[there |-> TRUE, tagged |-> TRUE,
                 rows |-> <<Header, Row(id, v, val, NONE)>>] : id \in Ids, v \in {0, 1}, val \in Vals}
    /\ kept = NothingKept
    /\ load = [a \in {"call", "reader"} |-> NoLoad]
    /\ refresh = NoRefresh
    /\ lock = NONE
    /\ spent = [edits |-> 0, deletes |-> 0, fails |-> 0, restarts |-> 0]
    /\ byHand = {}

Mishap(kind) ==
    /\ spent.edits + spent.deletes + spent.fails + spent.restarts < MaxMishaps
    /\ spent' = [spent EXCEPT ![kind] = @ + 1]
Fails == Mishap("fails")

-----------------------------------------------------------------------------
(* Sheets.                                                                 *)

(* A write of rows: in one request, or, one reaching past the tab's last   *)
(* row, in one that grows it.                                              *)
Takes(write) ==
    /\ tab.there
    /\ tab' = [tab EXCEPT !.rows = SetRows(@, write)]
    /\ byHand' = byHand \ DOMAIN write

(* Someone edits a cell, or deletes the tab and its tag with it -- not     *)
(* one still being made: the next made is the same tab to this model.      *)
EditsByHand ==
    /\ tab.there
    /\ \E i \in DOMAIN tab.rows, v \in HandVals :
          /\ tab.rows[i] # Blank
          /\ tab' = [tab EXCEPT !.rows[i].val = v]
          /\ byHand' = byHand \cup {i}
    /\ Mishap("edits")
    /\ UNCHANGED <<kept, load, refresh, lock>>

DeletesTab ==
    /\ tab.there /\ tab.tagged
    /\ tab' = NoTab
    /\ byHand' = {}
    /\ Mishap("deletes")
    /\ UNCHANGED <<kept, load, refresh, lock>>

-----------------------------------------------------------------------------
(* Reads: what isn't kept is read, and kept unless a write to it began     *)
(* meanwhile.                                                              *)

LoadAsks(a) ==
    /\ load[a].at = "none"
    /\ kept.rows = NONE
    /\ load' = [load EXCEPT ![a] = [at |-> "asked", generation |-> kept.generation, rows |-> <<>>]]
    /\ UNCHANGED <<tab, kept, refresh, lock, spent, byHand>>

LoadAnswered(a) ==
    /\ load[a].at = "asked"
    /\ tab.there
    /\ load' = [load EXCEPT ![a].at = "answered", ![a].rows = tab.rows]
    /\ UNCHANGED <<tab, kept, refresh, lock, spent, byHand>>

LoadFails(a) ==
    /\ load[a].at = "asked"
    /\ \/ ~tab.there /\ UNCHANGED spent
       \/ Fails
    /\ load' = [load EXCEPT ![a].at = "failed"]
    /\ UNCHANGED <<tab, kept, refresh, lock, byHand>>

\* mutant: keeps what it read though a write began meanwhile
LoadKeepsAnyway(a) ==
    /\ load[a].at = "answered"
    /\ kept' = [kept EXCEPT !.rows = IF @ = NONE THEN load[a].rows ELSE @]
    /\ load' = [load EXCEPT ![a].at = "done"]
    /\ UNCHANGED <<tab, refresh, lock, spent, byHand>>
LoadKeeps(a) ==
    /\ load[a].at = "answered"
    /\ kept' = [kept EXCEPT !.rows =
                  IF kept.generation = load[a].generation /\ @ = NONE THEN load[a].rows ELSE @]
    /\ load' = [load EXCEPT ![a].at = "done"]
    /\ UNCHANGED <<tab, refresh, lock, spent, byHand>>

-----------------------------------------------------------------------------
(* Writes, as what's kept goes along with them.                            *)

WritingTo == kept' = [kept EXCEPT !.generation = @ + 1]

Keeps(write) ==
    kept' = [kept EXCEPT !.generation = @ + 1,
                         !.rows = IF @ = NONE THEN NONE ELSE SetRows(@, write)]

Forgotten == [kept EXCEPT !.rows = NONE, !.generation = @ + 1]

-----------------------------------------------------------------------------
(* The refresh.                                                            *)

\* mutant: only asks whether it's still kept
StillKept == kept.rows # NONE
Unwritten == kept.generation = refresh.generation /\ kept.rows # NONE

RefreshBegins ==
    /\ refresh.at = "none"
    /\ kept.rows # NONE
    /\ refresh' = [NoRefresh EXCEPT !.at = "asked", !.generation = kept.generation, !.rows = kept.rows,
                                    !.known = kept.known]
    /\ UNCHANGED <<tab, kept, load, lock, spent, byHand>>

RefreshReads ==
    /\ refresh.at = "asked"
    /\ refresh' = [refresh EXCEPT !.at = "compare", !.found = tab.rows, !.gone = ~tab.there]
    /\ UNCHANGED <<tab, kept, load, lock, spent, byHand>>

\* mutant: sees to changed cells only
RefreshComparesCells ==
    /\ refresh.at = "compare"
    /\ IF ~refresh.gone /\ refresh.found # refresh.rows /\ Unwritten /\ lock = NONE
       THEN refresh' = [refresh EXCEPT !.at = "locked"] /\ lock' = "refresh"
       ELSE refresh' = NoRefresh /\ UNCHANGED lock
    /\ UNCHANGED <<tab, kept, load, spent, byHand>>

(* What differs is put back only if nothing wrote the tab meanwhile, and   *)
(* only if no tool is writing.                                             *)
RefreshCompares ==
    /\ refresh.at = "compare"
    /\ LET changed == ~refresh.gone /\ refresh.found # refresh.rows /\ Unwritten
       IN  IF (changed \/ refresh.gone) /\ lock = NONE
           THEN /\ refresh' = [refresh EXCEPT !.at = "locked"]
                /\ lock' = "refresh"
           ELSE /\ refresh' = NoRefresh
                /\ UNCHANGED lock
    /\ UNCHANGED <<tab, kept, load, spent, byHand>>

RefreshEnds == refresh' = NoRefresh /\ lock' = NONE

(* What the tab is, to make it again, is as known when the refresh began.   *)
RefreshDecides ==
    /\ refresh.at = "locked"
    /\ \/ /\ ~refresh.gone /\ Unwritten
          /\ refresh' = [refresh EXCEPT !.at = "putting",
                                            !.write = PutBack(refresh.found, refresh.rows)]
          /\ UNCHANGED <<kept, lock>>
       \/ ~refresh.gone /\ ~Unwritten /\ RefreshEnds /\ UNCHANGED kept
       \/ /\ refresh.gone /\ refresh.known /\ Unwritten
          /\ refresh' = [refresh EXCEPT !.at = "adding"]
          /\ UNCHANGED <<kept, lock>>
       \/ /\ refresh.gone /\ ~(refresh.known /\ Unwritten)
          /\ kept' = Forgotten
          /\ RefreshEnds
    /\ UNCHANGED <<tab, load, spent, byHand>>

(* The tab, deleted by hand, is made again: added, tagged, and filled.     *)
RefreshAdds ==
    /\ refresh.at = "adding"
    /\ ~tab.there
    /\ tab' = [NoTab EXCEPT !.there = TRUE]
    /\ byHand' = DOMAIN kept.rows
    /\ refresh' = [refresh EXCEPT !.at = "tagging"]
    /\ UNCHANGED <<kept, load, lock, spent>>

RefreshTags ==
    /\ refresh.at = "tagging"
    /\ tab.there
    /\ tab' = [tab EXCEPT !.tagged = TRUE]
    /\ \/ /\ refresh.rows = <<>>
          /\ RefreshEnds
       \/ /\ refresh.rows # <<>>
          /\ refresh' = [refresh EXCEPT !.at = "putting", !.write = refresh.rows]
          /\ UNCHANGED lock
    /\ UNCHANGED <<kept, load, spent, byHand>>

RefreshPuts ==
    /\ refresh.at = "putting"
    /\ Takes(refresh.write)
    /\ RefreshEnds
    /\ UNCHANGED <<kept, load, spent>>

\* mutant: the lock isn't given back when it fails
RefreshFailsHolding ==
    /\ refresh.at \in {"asked", "adding", "tagging", "putting"}
    /\ Fails
    /\ refresh' = NoRefresh
    /\ UNCHANGED <<tab, kept, load, byHand, lock>>

(* A request of the refresh's fails, and the refresh with it: what it did  *)
(* stays done, and what's kept as it was.                                  *)
RefreshFails ==
    /\ refresh.at \in {"asked", "adding", "tagging", "putting"}
    /\ \/ refresh.at # "asked" /\ refresh.at # "adding" /\ ~tab.there /\ UNCHANGED spent
       \/ Fails
    /\ refresh' = NoRefresh
    /\ lock' = IF refresh.at = "asked" THEN lock ELSE NONE
    /\ UNCHANGED <<tab, kept, load, byHand>>

RefreshStep ==
    \/ RefreshBegins \/ RefreshReads \/ RefreshCompares \/ RefreshDecides
    \/ RefreshAdds \/ RefreshTags \/ RefreshPuts \/ RefreshFails
=============================================================================
