------------------------------ MODULE MockOracle ------------------------------
(***************************************************************************)
(* The contract src/src/MockOracle.sol: a mapping of rounds, the id of the *)
(* latest one, and the owner who alone may publish.  A transaction runs in *)
(* a block; `timestamp' is block.timestamp of the last block.  A call that *)
(* reverts changes nothing, so only its guard appears here.                *)
(***************************************************************************)
EXTENDS Integers, Sequences

CONSTANTS
    Accounts,       \* addresses that may send a transaction
    Answers,        \* int256 values passed to updateAnswer
    InitialAnswer,  \* the constructor's 200000000000
    MaxRoundId,     \* type(uint80).max; latestRoundId++ is checked arithmetic
    Times           \* block timestamps

ASSUME OracleAssumption ==
    /\ Answers \subseteq Int
    /\ InitialAnswer \in Int /\ InitialAnswer > 0
    /\ MaxRoundId \in Nat /\ MaxRoundId >= 1
    /\ Times \subseteq Nat \ {0}

VARIABLES owner, latestRoundId, rounds, events, timestamp

oracleVars == <<owner, latestRoundId, rounds, events, timestamp>>

RoundIds == 0..MaxRoundId

\* A mapping entry never written reads as zeros.
Unwritten == [answer |-> 0, startedAt |-> 0, updatedAt |-> 0, answeredInRound |-> 0]

NewRound(id, newAnswer, t) ==
    [answer |-> newAnswer, startedAt |-> t, updatedAt |-> t, answeredInRound |-> id]

\* What getRoundData tests before it answers; otherwise "Round not found".
RoundFound(roundId) == rounds[roundId].answeredInRound # 0

\* The five values getRoundData returns.
GetRoundData(roundId) ==
    [roundId         |-> roundId,
     answer          |-> rounds[roundId].answer,
     startedAt       |-> rounds[roundId].startedAt,
     updatedAt       |-> rounds[roundId].updatedAt,
     answeredInRound |-> rounds[roundId].answeredInRound]

LatestRoundData == GetRoundData(latestRoundId)

\* Slips: an unchecked increment, and a zero answer let through.
UpdateAllowedUnchecked(sender, newAnswer) == sender = owner /\ newAnswer > 0
UpdateAllowedZero(sender, newAnswer) ==
    /\ sender = owner
    /\ newAnswer >= 0
    /\ latestRoundId < MaxRoundId

\* onlyOwner, "Answer must be positive", and the checked increment.
UpdateAllowed(sender, newAnswer) ==
    /\ sender = owner
    /\ newAnswer > 0
    /\ latestRoundId < MaxRoundId

\* Slips: the id is not incremented, or incremented twice.
NextRoundIdSame == latestRoundId
NextRoundIdTwice == latestRoundId + 2

NextRoundId == latestRoundId + 1

\* A slip: the event is emitted with the id from before the increment.
AnswerUpdatedEarly(newAnswer, roundId, t) ==
    [current |-> newAnswer, roundId |-> roundId - 1, updatedAt |-> t]

AnswerUpdated(newAnswer, roundId, t) ==
    [current |-> newAnswer, roundId |-> roundId, updatedAt |-> t]

OracleInit ==
    /\ owner \in Accounts
    /\ latestRoundId = 1
    /\ timestamp \in Times
    /\ rounds = [id \in RoundIds |->
                    IF id = 1 THEN NewRound(1, InitialAnswer, timestamp) ELSE Unwritten]
    /\ events = <<>>

\* A transaction calling updateAnswer, mined in a block with timestamp t.
UpdateAnswer(sender, newAnswer, t) ==
    /\ t >= timestamp
    /\ UpdateAllowed(sender, newAnswer)
    /\ latestRoundId' = NextRoundId
    /\ rounds' = [rounds EXCEPT ![NextRoundId] = NewRound(NextRoundId, newAnswer, t)]
    /\ events' = Append(events, AnswerUpdated(newAnswer, NextRoundId, t))
    /\ timestamp' = t
    /\ UNCHANGED owner

\* A block in which no call to the oracle succeeds: time passes.
NextBlock(t) ==
    /\ t >= timestamp
    /\ timestamp' = t
    /\ UNCHANGED <<owner, latestRoundId, rounds, events>>

OracleNext ==
    \E t \in Times :
        \/ \E sender \in Accounts, newAnswer \in Answers : UpdateAnswer(sender, newAnswer, t)
        \/ NextBlock(t)

OracleSpec == OracleInit /\ [][OracleNext]_oracleVars
-----------------------------------------------------------------------------
RoundData == [answer : Int, startedAt : Nat, updatedAt : Nat, answeredInRound : RoundIds]
Event == [current : Int, roundId : RoundIds, updatedAt : Nat]

OracleTypeOK ==
    /\ owner \in Accounts
    /\ latestRoundId \in 1..MaxRoundId
    /\ rounds \in [RoundIds -> RoundData]
    /\ events \in Seq(Event)
    /\ timestamp \in Times

(* getRoundData answers for exactly the ids 1..latestRoundId: there is no  *)
(* gap a reader walking back from the latest round could fall into, and    *)
(* latestRoundData never reverts with "Round not found".                   *)
RoundsContiguous ==
    \A id \in RoundIds : RoundFound(id) <=> id \in 1..latestRoundId

(* Every published round carries a positive answer, its own id, and times  *)
(* that never run backwards from one round to the next or past the block.  *)
RoundsInTimeOrder ==
    \A id \in 1..latestRoundId :
        /\ rounds[id].answer > 0
        /\ rounds[id].answeredInRound = id
        /\ rounds[id].startedAt = rounds[id].updatedAt
        /\ rounds[id].updatedAt <= timestamp
        /\ \A later \in id..latestRoundId : rounds[id].updatedAt <= rounds[later].updatedAt

(* The AnswerUpdated log replays the mapping: event n announced round n+1, *)
(* with the answer and time getRoundData still returns for it.             *)
EventsReplayRounds ==
    /\ Len(events) = latestRoundId - 1
    /\ \A n \in 1..Len(events) :
          events[n] = [current   |-> rounds[n+1].answer,
                       roundId   |-> n+1,
                       updatedAt |-> rounds[n+1].updatedAt]

(* A round that was readable once is readable for ever, unchanged.  The Go *)
(* client relies on it: it caches and stores rounds and never rereads them.*)
PublishedRoundsImmutable ==
    [][\A id \in RoundIds : RoundFound(id) => rounds'[id] = rounds[id]]_oracleVars

\* What a reader sees of the contract, as the abstract feed.
FeedView ==
    [id \in 1..latestRoundId |-> [answer |-> rounds[id].answer, at |-> rounds[id].updatedAt]]

Feed == INSTANCE PriceFeed WITH feed <- FeedView

(* The contract is an append-only price feed.                              *)
ImplementsPriceFeed == Feed!FeedSpec
=============================================================================
