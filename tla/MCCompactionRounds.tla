------------------------- MODULE MCCompactionRounds -------------------------
EXTENDS CompactionRoundsProperties, TLC

AnEvent(start, end, name) ==
    [start |-> start, end |-> end, name |-> {name}, said |-> "none", facts |-> "none", lines |-> {}, prioritized |-> FALSE]
MCAgenda == <<AnEvent(0, 2, 1), AnEvent(2, 3, 2), AnEvent(4, 6, 3)>>
MCAgendas == {MCAgenda, <<AnEvent(0, 3, 1), AnEvent(2, 4, 2)>>, <<AnEvent(0, 3, 1), AnEvent(1, 2, 2)>>}

Ask(decisions) == [decisions |-> decisions, ignored |-> {}, targets |-> <<>>]
KeepEvent(k) == Decision("keep", k)
Merge(j, k) == [Decision("merge", j) EXCEPT !.into = k]
Described(lines, drops) == [given |-> TRUE, lines |-> lines, dropsAll |-> FALSE, drops |-> drops]
MCAsks ==
    {Ask({}),
     Ask({[KeepEvent(1) EXCEPT !.endNote = 1]}),
     Ask({[KeepEvent(1) EXCEPT !.end = 3], [KeepEvent(2) EXCEPT !.start = 3, !.end = 4, !.facts = TRUE]}),
     Ask({[KeepEvent(3) EXCEPT !.start = 3, !.end = 5, !.facts = TRUE]}),
     Ask({Decision("cancel", 2)}),
     Ask({[Decision("cancel", 1) EXCEPT !.allowHistory = TRUE]}),
     Ask({Merge(2, 1)}),
     Ask({Merge(3, 2), [KeepEvent(2) EXCEPT !.name = TRUE]}),
     Ask({[KeepEvent(1) EXCEPT !.allowHistory = TRUE, !.end = 1]}),
     Ask({[KeepEvent(2) EXCEPT !.description = Described({1}, {2}), !.startNote = 1]}),
     Ask({[Decision("create", 7) EXCEPT !.startNote = 1, !.end = 4, !.name = TRUE], Decision("cancel", 1)}),
     [Ask({[KeepEvent(1) EXCEPT !.said = TRUE]}) EXCEPT !.targets = (1 :> 3)],
     [Ask({[KeepEvent(2) EXCEPT !.end = 4, !.endNote = 2]}) EXCEPT !.ignored = {1}]}
=============================================================================
