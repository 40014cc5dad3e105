SPECIFICATION FairSpec
CONSTANTS
    None = None
    Executors = {1, 2, 3, 4, 5, 6}
    Config <- MCConfig
    AllowWrite = TRUE
    AllowPrivileged = FALSE
    Calls = {c1, c2}
    Requests <- MCRequests
    ExitCodes <- MCExitCodes
INVARIANTS TypeOK WorkStartsOnce NoneLeftRunning AnswersAreTrue BestFirst OnlyWhatIsAllowed
PROPERTIES ImplementsTable EverySubmitEnds
CHECK_DEADLOCK FALSE
