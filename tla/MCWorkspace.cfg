\* The log holds two entries and four are logged, so it overflows while the
\* window is hidden.  Two applications: the active one and another.
SPECIFICATION WorkspaceSpec
CONSTANTS
    Applications = {watchlist, chat}
    Levels = {"Info", "Fatal"}
    MaxLogEntries = 2
    MaxDisplayedEntries = 2
    MaxLogged = 4
INVARIANTS
    LastEntriesShown
    RenderedOnce
