--------------------------- MODULE MCEventChanges ---------------------------
(***************************************************************************)
(* One event that went on past the last compaction, two instances of a     *)
(* series after it, and one to be made.                                    *)
(***************************************************************************)
EXTENDS EventChangesProperties

Event(start, end, status) ==
    [start |-> start, end |-> end, val |-> "first", status |-> status, own |-> FALSE, version |-> 1]
MCFirstEvents == [id \in Events |->
    CASE id = "past" -> Event(0, 3, "confirmed")
      [] id = "one" -> Event(4, 5, "confirmed")
      [] id = "two" -> Event(6, 7, "confirmed")
      [] id = "new" -> Event(0, 0, "absent")]

To(id, set) == [do |-> "update", id |-> id, set |-> set, counts |-> FALSE]
Off(id, counts) == [do |-> "cancel", id |-> id, set |-> [status |-> "cancelled"], counts |-> counts]
New(start, end) == [do |-> "create", id |-> "new", counts |-> FALSE,
                    set |-> [start |-> start, end |-> end, val |-> "asked", status |-> "confirmed"]]
MCBatches ==
    { <<To("one", [val |-> "asked"]), To("two", [val |-> "asked"])>>,
      <<To("past", [end |-> 4]), To("one", [val |-> "asked"]), Off("two", TRUE)>>,
      <<To("past", [end |-> 5])>>, <<To("past", [val |-> "asked"])>>, <<Off("past", FALSE)>>,
      <<To("one", [start |-> 6, end |-> 7]), To("two", [start |-> 4, end |-> 5])>>,
      <<To("two", [start |-> 1, end |-> 2])>>,
      <<Off("one", TRUE), New(4, 5)>>, <<New(4, 6)>>, <<To("one", [start |-> 8, end |-> 9]), New(4, 6)>>,
      <<To("one", [start |-> 8, end |-> 9]), New(8, 9)>> }
MCEdits ==
    { [id |-> id, on |-> "confirmed", set |-> [val |-> "theirs"]] : id \in {"past", "one", "two"} }
    \cup { [id |-> "two", on |-> "confirmed", set |-> [start |-> 8, end |-> 9]],
           [id |-> "one", on |-> "confirmed", set |-> [status |-> "cancelled"]],
           [id |-> "new", on |-> "absent", set |-> [start |-> 4, end |-> 5, status |-> "confirmed"]] }
=============================================================================
