\* One event, or a series and one of its instances, written once and synced two or
\* three times. Or three events, one of them perhaps over another, two notes written
\* when they please, and two compactions stamped, of thirteen things Claude may ask.
SPECIFICATION CalendarSpec
CONSTANTS
    Checked = {"synced", "rounds"}
    series = series
    instance = instance
    single = single
    All = All
    NONE = NONE
    Events = {series, instance, single}
    SeriesOf <- OfSeries
    Courses <- Each
    ForgetsAnytime = FALSE
    MaxLines = 2
    FirstAgendas <- MCAgendas
    Asks <- MCAsks
    NoteTimes = {1, 3}
    NoteSays = {TRUE}
    MaxClock = 4
    MaxNotes = 2
    MaxRounds = 2
    MaxElsewhere = 1
    DayLength = 4
    MaxSpan = 4
    Lookback = 1
    Ahead = 1
INVARIANTS ReadsAfterWrites NothingMissed WarnedOfOutside ShownIsWritten
PROPERTIES NeverGoesBack HistoryStays NothingCovered NotesTakenIn ReplaysWhole
\* Every budget spent, nothing is left to do.
CHECK_DEADLOCK FALSE
