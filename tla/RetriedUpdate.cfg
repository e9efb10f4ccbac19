SPECIFICATION Spec
CONSTANTS
    Accounts = {server}
    Server = server
    Answers <- Two
    InitialAnswer = 1
    MaxRoundId = 3
    Times <- OneToThree
    GasPrices = {1}
    Requests = {r1}
    Workload <- Updates
    AskedRounds = {}
    MaxInt64 = 3
    ScriptAnswers <- NoAnswers
    Faults <- ReplyLost
CHECK_DEADLOCK FALSE
INVARIANTS
    UpdateOnce
