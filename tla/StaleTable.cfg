SPECIFICATION FairSpec
CONSTANTS
    Accounts = {server}
    Server = server
    Answers <- Two
    InitialAnswer = 1
    MaxRoundId = 3
    Times <- OneToThree
    GasPrices = {1}
    Requests = {r1}
    Workload <- Latest
    AskedRounds = {}
    MaxInt64 = 3
    ScriptAnswers <- Two
    Faults <- NoFault
CHECK_DEADLOCK FALSE
PROPERTIES
    ServesChainLatest
