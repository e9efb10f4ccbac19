SPECIFICATION Spec
CONSTANTS
    Accounts = {server}
    Server = server
    Answers <- Two
    InitialAnswer = 1
    MaxRoundId = 3
    Times <- OneToThree
    GasPrices = {1, 2}
    Requests = {r1, r2}
    Workload <- Updates
    AskedRounds = {}
    MaxInt64 = 3
    ScriptAnswers <- NoAnswers
    Faults <- ReplyLost
SYMMETRY SlotSymmetry
CHECK_DEADLOCK FALSE
INVARIANTS
    OnePendingTx
    AcknowledgedTxAccounted
    NeverBehindArrival
    SendsBounded
PROPERTIES
    RowHashesWereSent
