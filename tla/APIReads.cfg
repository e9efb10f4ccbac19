SPECIFICATION Spec
CONSTANTS
    Accounts = {server}
    Server = server
    Answers <- Two
    InitialAnswer = 1
    MaxRoundId = 3
    Times <- OneToThree
    GasPrices = {1}
    Requests = {r1, r2}
    Workload <- Reads
    AskedRounds = {2, 3}
    MaxInt64 = 2
    ScriptAnswers <- Two
    Faults <- ServiceFaults
SYMMETRY SlotSymmetry
CHECK_DEADLOCK FALSE
INVARIANTS
    EveryCopyIsAChainRound
    NeverBehindArrival
PROPERTIES
    ImplementsService
