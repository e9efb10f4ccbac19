-------------------------- MODULE MockOracleProofs --------------------------
(***************************************************************************)
(* Theorems about the contract, for every set of accounts, answers and     *)
(* block times and every width of the round id.                            *)
(***************************************************************************)
EXTENDS MockOracle, SequenceTheorems, TLAPS

ContractInv ==
    /\ OracleTypeOK
    /\ RoundsContiguous
    /\ RoundsInTimeOrder
    /\ EventsReplayRounds

(* The deployed contract, round 1 only, satisfies every invariant.         *)
LEMMA DeployEstablishes == OracleInit => ContractInv
<1> SUFFICES ASSUME OracleInit PROVE ContractInv
  OBVIOUS
<1> USE OracleAssumption
<1>1. OracleTypeOK
  BY DEF OracleInit, OracleTypeOK, RoundIds, RoundData, NewRound, Unwritten, Event
<1>2. RoundsContiguous /\ RoundsInTimeOrder
  BY DEF OracleInit, RoundsContiguous, RoundsInTimeOrder, RoundFound, RoundIds, NewRound,
         Unwritten
<1>3. EventsReplayRounds
  BY DEF OracleInit, EventsReplayRounds
<1> QED
  BY <1>1, <1>2, <1>3 DEF ContractInv

(* updateAnswer writes one new round, past the latest, and one event.      *)
LEMMA UpdatePreserves ==
  ASSUME ContractInv,
         NEW sender \in Accounts, NEW newAnswer \in Answers, NEW t \in Times,
         UpdateAnswer(sender, newAnswer, t)
  PROVE  ContractInv'
<1> USE OracleAssumption
<1>1. /\ latestRoundId \in Nat /\ latestRoundId >= 1
      /\ latestRoundId + 1 \in RoundIds
      /\ latestRoundId' = latestRoundId + 1
      /\ newAnswer \in Int /\ newAnswer > 0
      /\ t \in Nat /\ timestamp \in Nat /\ t >= timestamp /\ timestamp' = t
      /\ owner' = owner
  BY DEF ContractInv, OracleTypeOK, UpdateAnswer, UpdateAllowed, NextRoundId, RoundIds
<1>2. rounds' = [rounds EXCEPT ![latestRoundId + 1] =
                    [answer |-> newAnswer, startedAt |-> t, updatedAt |-> t,
                     answeredInRound |-> latestRoundId + 1]]
  BY DEF UpdateAnswer, NextRoundId, NewRound
<1>3. events' = Append(events, [current |-> newAnswer, roundId |-> latestRoundId + 1,
                                updatedAt |-> t])
  BY DEF UpdateAnswer, NextRoundId, AnswerUpdated
<1>4. /\ rounds \in [RoundIds -> RoundData]
      /\ events \in Seq(Event)
      /\ Len(events) \in Nat /\ Len(events) = latestRoundId - 1
  BY DEF ContractInv, OracleTypeOK, EventsReplayRounds
<1>5. OracleTypeOK'
  <2>1. rounds' \in [RoundIds -> RoundData]
    BY <1>1, <1>2, <1>4 DEF RoundData
  <2>2. events' \in Seq(Event)
    BY <1>1, <1>3, <1>4 DEF Event
  <2>3. latestRoundId' \in 1..MaxRoundId /\ owner' \in Accounts /\ timestamp' \in Times
    BY <1>1 DEF ContractInv, OracleTypeOK, RoundIds
  <2> QED
    BY <2>1, <2>2, <2>3 DEF OracleTypeOK
<1>6. RoundsContiguous'
  BY <1>1, <1>2, <1>4 DEF ContractInv, RoundsContiguous, RoundFound, RoundIds
<1>7. RoundsInTimeOrder'
  <2> SUFFICES ASSUME NEW id \in 1..latestRoundId'
               PROVE  /\ rounds'[id].answer > 0
                      /\ rounds'[id].answeredInRound = id
                      /\ rounds'[id].startedAt = rounds'[id].updatedAt
                      /\ rounds'[id].updatedAt <= timestamp'
                      /\ \A later \in id..latestRoundId' :
                            rounds'[id].updatedAt <= rounds'[later].updatedAt
    BY DEF RoundsInTimeOrder
  <2>1. CASE id = latestRoundId + 1
    BY <1>1, <1>2, <1>4, <2>1
  <2>2. CASE id \in 1..latestRoundId
    <3>1. id \in RoundIds /\ rounds'[id] = rounds[id]
      BY <1>1, <1>2, <1>4, <2>2 DEF RoundIds
    <3>2. /\ rounds[id].answer > 0 /\ rounds[id].answeredInRound = id
          /\ rounds[id].startedAt = rounds[id].updatedAt
          /\ rounds[id].updatedAt <= timestamp
          /\ \A later \in id..latestRoundId : rounds[id].updatedAt <= rounds[later].updatedAt
      BY <2>2 DEF ContractInv, RoundsInTimeOrder
    <3>3. rounds[id].updatedAt \in Nat
      BY <1>4, <3>1 DEF RoundData
    <3>4. ASSUME NEW later \in id..latestRoundId'
          PROVE  rounds'[id].updatedAt <= rounds'[later].updatedAt
      <4>1. CASE later = latestRoundId + 1
        BY <1>1, <1>2, <1>4, <3>1, <3>2, <3>3, <4>1
      <4>2. CASE later \in id..latestRoundId
        BY <1>1, <1>2, <1>4, <2>2, <3>1, <3>2, <4>2 DEF RoundIds
      <4> QED
        BY <1>1, <2>2, <3>4, <4>1, <4>2
    <3> QED
      BY <1>1, <3>1, <3>2, <3>3, <3>4
  <2> QED
    BY <1>1, <2>1, <2>2
<1>8. EventsReplayRounds'
  <2>1. Len(events') = latestRoundId' - 1
    BY <1>1, <1>3, <1>4
  <2>2. ASSUME NEW n \in 1..Len(events')
        PROVE  events'[n] = [current |-> rounds'[n+1].answer, roundId |-> n+1,
                             updatedAt |-> rounds'[n+1].updatedAt]
    <3>1. CASE n = latestRoundId
      BY <1>1, <1>2, <1>3, <1>4, <3>1
    <3>2. CASE n \in 1..Len(events)
      <4>1. events'[n] = events[n]
        BY <1>3, <1>4, <3>2
      <4>2. rounds'[n+1] = rounds[n+1]
        BY <1>1, <1>2, <1>4, <3>2 DEF RoundIds
      <4>3. events[n] = [current |-> rounds[n+1].answer, roundId |-> n+1,
                         updatedAt |-> rounds[n+1].updatedAt]
        BY <3>2 DEF ContractInv, EventsReplayRounds, AnswerUpdated
      <4> QED
        BY <4>1, <4>2, <4>3
    <3> QED
      BY <1>1, <1>4, <2>1, <3>1, <3>2
  <2> QED
    BY <2>1, <2>2 DEF EventsReplayRounds, AnswerUpdated
<1> QED
  BY <1>5, <1>6, <1>7, <1>8 DEF ContractInv

(* Time passing disturbs no round.                                         *)
LEMMA BlockPreserves ==
  ASSUME ContractInv, NEW t \in Times, NextBlock(t)
  PROVE  ContractInv'
<1> USE OracleAssumption
<1>1. /\ owner' = owner /\ latestRoundId' = latestRoundId /\ rounds' = rounds
      /\ events' = events /\ timestamp' = t /\ t \in Times
      /\ t \in Nat /\ timestamp \in Nat /\ timestamp <= t
  BY DEF NextBlock, ContractInv, OracleTypeOK
<1>2. OracleTypeOK' /\ RoundsContiguous' /\ EventsReplayRounds'
  BY <1>1 DEF ContractInv, OracleTypeOK, RoundsContiguous, RoundFound, EventsReplayRounds
<1>3. ASSUME NEW id \in 1..latestRoundId
      PROVE  rounds[id].updatedAt \in Nat
  <2>1. id \in RoundIds /\ rounds \in [RoundIds -> RoundData]
    BY DEF ContractInv, OracleTypeOK, RoundIds
  <2>2. rounds[id] \in RoundData
    BY <2>1
  <2> QED
    BY <2>2 DEF RoundData
<1>4. RoundsInTimeOrder'
  BY <1>1, <1>3 DEF ContractInv, OracleTypeOK, RoundsInTimeOrder
<1> QED
  BY <1>2, <1>4 DEF ContractInv

(* All invariants of the contract hold in every reachable state.           *)
THEOREM ContractSafe == OracleSpec => []ContractInv
<1>1. ContractInv /\ [OracleNext]_oracleVars => ContractInv'
  <2> SUFFICES ASSUME ContractInv, [OracleNext]_oracleVars PROVE ContractInv'
    OBVIOUS
  <2>1. CASE UNCHANGED oracleVars
    BY <2>1 DEF oracleVars, ContractInv, OracleTypeOK, RoundsContiguous, RoundFound,
                RoundsInTimeOrder, EventsReplayRounds
  <2>2. CASE OracleNext
    BY <2>2, UpdatePreserves, BlockPreserves DEF OracleNext
  <2> QED
    BY <2>1, <2>2
<1> QED
  BY <1>1, DeployEstablishes, PTL DEF OracleSpec

(* The contract's state keeps its type: in particular the round id never   *)
(* leaves 1..MaxRoundId, whatever callers send.                            *)
THEOREM ContractTyped == OracleSpec => []OracleTypeOK
<1>1. ContractInv => OracleTypeOK
  BY DEF ContractInv
<1> QED
  BY <1>1, ContractSafe, PTL

(* Exactly the rounds 1..latestRoundId are readable.                       *)
THEOREM NoGapInRounds == OracleSpec => []RoundsContiguous
<1>1. ContractInv => RoundsContiguous
  BY DEF ContractInv
<1> QED
  BY <1>1, ContractSafe, PTL

(* Rounds are positive, carry their own id and run forward in time.        *)
THEOREM RoundsOrdered == OracleSpec => []RoundsInTimeOrder
<1>1. ContractInv => RoundsInTimeOrder
  BY DEF ContractInv
<1> QED
  BY <1>1, ContractSafe, PTL

(* The event log and the mapping tell the same history.                    *)
THEOREM EventsComplete == OracleSpec => []EventsReplayRounds
<1>1. ContractInv => EventsReplayRounds
  BY DEF ContractInv
<1> QED
  BY <1>1, ContractSafe, PTL

(* A readable round never changes again.                                   *)
THEOREM ImmutableRounds == OracleSpec => PublishedRoundsImmutable
<1>1. ASSUME ContractInv, [OracleNext]_oracleVars,
             NEW id \in RoundIds, RoundFound(id)
      PROVE  rounds'[id] = rounds[id]
  <2> USE OracleAssumption
  <2>1. /\ latestRoundId \in Nat /\ id \in 1..latestRoundId
        /\ rounds \in [RoundIds -> RoundData]
    BY <1>1 DEF ContractInv, OracleTypeOK, RoundsContiguous
  <2>2. ASSUME NEW sender \in Accounts, NEW newAnswer \in Answers, NEW t \in Times,
               UpdateAnswer(sender, newAnswer, t)
        PROVE  rounds'[id] = rounds[id]
    BY <1>1, <2>1, <2>2 DEF UpdateAnswer, NextRoundId
  <2>3. CASE rounds' = rounds
    BY <2>3
  <2> QED
    BY <1>1, <2>2, <2>3 DEF OracleNext, NextBlock, oracleVars
<1>2. ContractInv /\ [OracleNext]_oracleVars =>
        [\A id \in RoundIds : RoundFound(id) => rounds'[id] = rounds[id]]_oracleVars
  BY <1>1
<1> QED
  BY <1>2, ContractSafe, PTL DEF OracleSpec, PublishedRoundsImmutable

(* The view of the contract as a feed is a sequence with an entry per round*)
ViewFaithful ==
    /\ Len(FeedView) = latestRoundId
    /\ \A i \in 1..latestRoundId :
          /\ FeedView[i] = [answer |-> rounds[i].answer, at |-> rounds[i].updatedAt]
          /\ FeedView[i] \in Feed!Entry

LEMMA ViewIsSequence == ContractInv => ViewFaithful
<1> SUFFICES ASSUME ContractInv PROVE ViewFaithful
  OBVIOUS
<1> USE OracleAssumption
<1>1. latestRoundId \in Nat /\ 1..latestRoundId \subseteq RoundIds
  BY DEF ContractInv, OracleTypeOK, RoundIds
<1>2. ASSUME NEW i \in 1..latestRoundId
      PROVE  /\ FeedView[i] = [answer |-> rounds[i].answer, at |-> rounds[i].updatedAt]
             /\ FeedView[i] \in Feed!Entry
  <2>1. rounds[i] \in RoundData /\ rounds[i].answer > 0
    BY <1>1 DEF ContractInv, OracleTypeOK, RoundsInTimeOrder
  <2> QED
    BY <2>1 DEF FeedView, Feed!Entry, RoundData
<1>3. FeedView \in [1..latestRoundId -> Feed!Entry]
  BY <1>2 DEF FeedView
<1>4. FeedView \in Seq(Feed!Entry) /\ DOMAIN FeedView = 1..latestRoundId
  BY <1>1, <1>3
<1>5. Len(FeedView) = latestRoundId
  BY <1>1, <1>4
<1> QED
  BY <1>2, <1>5 DEF ViewFaithful

(* Whatever happens to the contract, a reader sees an entry published or   *)
(* nothing at all.                                                         *)
LEMMA FeedStep ==
  ASSUME ContractInv, ContractInv', ViewFaithful, ViewFaithful', [OracleNext]_oracleVars
  PROVE  [Feed!Publish]_FeedView
<1> USE OracleAssumption
<1>1. CASE rounds' = rounds /\ latestRoundId' = latestRoundId
  BY <1>1 DEF FeedView
<1>2. ASSUME NEW sender \in Accounts, NEW newAnswer \in Answers, NEW t \in Times,
             UpdateAnswer(sender, newAnswer, t)
      PROVE  Feed!Publish
  <2>1. /\ latestRoundId \in Nat /\ latestRoundId >= 1
        /\ latestRoundId' = latestRoundId + 1
        /\ 1..latestRoundId' \subseteq RoundIds
        /\ rounds \in [RoundIds -> RoundData]
    BY <1>2 DEF ContractInv, OracleTypeOK, UpdateAnswer, UpdateAllowed, NextRoundId, RoundIds
  <2>2. \A i \in 1..latestRoundId : rounds'[i] = rounds[i]
    BY <1>2, <2>1 DEF UpdateAnswer, NextRoundId
  <2>3. rounds[latestRoundId].updatedAt <= rounds'[latestRoundId'].updatedAt
    <3>1. /\ rounds'[latestRoundId].updatedAt <= rounds'[latestRoundId'].updatedAt
      BY <2>1 DEF ContractInv, RoundsInTimeOrder
    <3> QED
      BY <2>1, <2>2, <3>1
  <2> QED
    BY <2>1, <2>2, <2>3 DEF ViewFaithful, Feed!Publish
<1> QED
  BY <1>1, <1>2 DEF OracleNext, NextBlock, oracleVars

(* The contract implements the append-only feed: each update publishes one *)
(* entry, and no other step is seen by a reader.                           *)
THEOREM ContractImplementsFeed == OracleSpec => ImplementsPriceFeed
<1> USE OracleAssumption
<1>1. OracleInit => Feed!FeedInit
  <2> SUFFICES ASSUME OracleInit PROVE Feed!FeedInit
    OBVIOUS
  <2>1. latestRoundId = 1 /\ ContractInv
    BY DeployEstablishes DEF OracleInit
  <2> QED
    BY <2>1, ViewIsSequence DEF ViewFaithful, Feed!FeedInit
<1>2. ContractInv => ViewFaithful
  BY ViewIsSequence
<1>3. ViewFaithful /\ ViewFaithful' /\ ContractInv /\ ContractInv' /\ [OracleNext]_oracleVars
         => [Feed!Publish]_FeedView
  BY FeedStep
<1> QED
  BY <1>1, <1>2, <1>3, ContractSafe, PTL DEF OracleSpec, ImplementsPriceFeed, Feed!FeedSpec
=============================================================================
