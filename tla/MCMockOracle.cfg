SPECIFICATION OracleSpec
CONSTANTS
    Accounts = {deployer, stranger}
    Answers <- MCAnswers
    InitialAnswer = 2
    MaxRoundId = 4
    Times <- MCTimes
INVARIANTS
    OracleTypeOK
    RoundsContiguous
    RoundsInTimeOrder
    EventsReplayRounds
PROPERTIES
    PublishedRoundsImmutable
    ImplementsPriceFeed
