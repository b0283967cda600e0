--------------------------- MODULE MCRecurrences ---------------------------
(***************************************************************************)
(* A series that goes on, one that ends after a count, with an event       *)
(* skipped and one moved, or one Google split; and what's asked of it.     *)
(***************************************************************************)
EXTENDS RecurrencesProperties, TLC

ASeriesOf(id, count, skips, moved) ==
    [series |-> (id :> [Unread EXCEPT !.count = count, !.skips = skips, !.version = 1]),
     edited |-> {[of |-> id, at |-> m[1], to |-> m[2]] : m \in moved}]
MCSeriesGoingOn == ASeriesOf(<<"plain">>, 0, {}, {})
MCFirstSeries ==
    { MCSeriesGoingOn,
      ASeriesOf(<<"plain">>, 3, {2}, {}), ASeriesOf(<<"plain">>, 3, {}, {<<3, 1>>}),
      ASeriesOf(<<"google">>, 0, {}, {}), ASeriesOf(<<"google">>, 3, {}, {}) }
MCAsks ==
    { [do |-> "split", set |-> <<>>, now |-> 0], [do |-> "delete", set |-> <<>>, now |-> 0],
      [do |-> "update", set |-> [val |-> "asked"], now |-> 0], [do |-> "update", set |-> [days |-> "asked"], now |-> 0],
      [do |-> "renew", set |-> <<>>, now |-> 3] }
=============================================================================
