SPECIFICATION FairSpec
CONSTANTS
    Accounts = {server, other}
    Server = server
    Answers <- ZeroAndOne
    InitialAnswer = 1
    MaxRoundId = 4
    Times <- OneToFour
    GasPrices = {1}
    Requests = {r1}
    Workload <- Mixed
    AskedRounds = {}
    MaxInt64 = 1
    ScriptAnswers <- One
    Faults <- AnyFault
CHECK_DEADLOCK FALSE
INVARIANTS
    TypeOK
    ReceiptsMatchRounds
    EveryCopyIsAChainRound
PROPERTIES
    HandlersAdvance
    EveryRequestAnswered
