SPECIFICATION FairSpec
CONSTANTS
    Accounts = {server}
    Server = server
    Answers <- Two
    InitialAnswer = 1
    MaxRoundId = 2
    Times <- OneToTwo
    GasPrices = {1}
    Requests = {r1, r2}
    Workload <- Mixed
    AskedRounds = {}
    MaxInt64 = 3
    ScriptAnswers <- Two
    Faults <- PostgresDown
CHECK_DEADLOCK FALSE
PROPERTIES
    CacheCatchesUpWithTable
