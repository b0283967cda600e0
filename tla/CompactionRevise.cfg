\* Two revisions, of one proposal or of two, and two notes: a revision is
\* revised, rechecked, left applying, or fails as an event of its goes.
SPECIFICATION Spec
CONSTANTS
    Decisions <- CancelThenUpdate
    NoteCount = 2
    BatchSize = 1
    MaxRevisions = 2
    MaxStops = 1
    MaxEdits = 0
    MaxPurges = 1
INVARIANTS OneApplied NotesStayStampable
\* Every budget spent and every proposal finished, nothing is left to do.
CHECK_DEADLOCK FALSE
