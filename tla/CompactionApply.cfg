\* One update, one create and one cancel, all of one revision, and a note: a
\* call stops once, the user changes an event once, and one goes for good, at
\* any step -- so what's left of it may be planned again.
SPECIFICATION FairSpec
CONSTANTS
    Decisions <- OneOfEach
    NoteCount = 1
    BatchSize = 2
    MaxRevisions = 1
    MaxStops = 1
    MaxEdits = 1
    MaxPurges = 1
INVARIANTS TypeOK MarkedOnlyIfMade CompleteWhenStamped FailureSettled
PROPERTIES OutsideChangesKept KeepsPromise FinishingEnds
\* Every budget spent and every proposal finished, nothing is left to do.
CHECK_DEADLOCK FALSE
