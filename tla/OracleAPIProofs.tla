--------------------------- MODULE OracleAPIProofs ---------------------------
(***************************************************************************)
(* Theorems about the API over the contract, for any number of concurrent  *)
(* requests, any workload and any of the faults.                           *)
(***************************************************************************)
EXTENDS OracleAPI, MockOracleProofs

UpdateSteps == {"isOwner", "prepare", "send", "readBack", "cacheDel"}
ReadSteps == {"cacheGet", "dbGet", "fillCache", "rpcRead", "cacheSet"}

(* What TypeOK cannot say of a handler: the operation it is in the middle  *)
(* of, an argument of that operation's kind, and, while it is about to send*)
(* a transaction, a nonce that is not ahead of the account's.              *)
Sound(q) ==
    /\ q.pc \in UpdateSteps => q.op = "update"
    /\ q.pc \in ReadSteps => q.op \in {"latest", "round"}
    /\ q.pc \notin {"idle", "done"} => q.op \in Ops /\ q.arg \in Args(q.op)
    /\ q.pc = "send" => q.tx \in Tx /\ q.tx.nonce <= nonce

(* id is that of the newest row, or 0 when the table is empty.             *)
IsNewest(id) ==
    /\ id = 0 \/ rows[id] # NoData
    /\ \A other \in RoundIds : rows[other] # NoData => other <= id

HandlersSound == \A r \in Requests : Sound(req[r])
NewestExists == \E id \in RoundIds : IsNewest(id)

APIInv ==
    /\ TypeOK
    /\ HandlersSound
    /\ NewestExists
    /\ OnePendingTx

(* The id that GetLatest looks for is a round id, and nothing is newer.    *)
LEMMA NewestRow ==
  ASSUME NewestExists
  PROVE  LatestRowId \in RoundIds /\ IsNewest(LatestRowId)
<1> DEFINE S == {0} \cup {id \in RoundIds : rows[id] # NoData}
<1>1. PICK id \in RoundIds : IsNewest(id)
  BY DEF NewestExists
<1>2. id \in S /\ \A y \in S : id >= y
  BY <1>1, OracleAssumption DEF IsNewest, RoundIds
<1>3. LatestRowId \in S /\ \A y \in S : LatestRowId >= y
  <2>1. LatestRowId = CHOOSE x \in S : \A y \in S : x >= y
    BY Zenon DEF LatestRowId, Max
  <2> QED
    BY <1>2, <2>1, Zenon
<1> QED
  BY <1>3, OracleAssumption DEF IsNewest, RoundIds

(* Whatever the contract answers has the shape of a reply.                 *)
LEMMA ChainReply ==
  ASSUME OracleTypeOK, NEW id \in RoundIds
  PROVE  GetRoundData(id) \in Reply
BY OracleAssumption DEF OracleTypeOK, GetRoundData, Reply, RoundData, RoundIds

(* Cutting an id off leaves a smaller one, and one that fits as it was.    *)
LEMMA Uint64Cuts ==
  ASSUME NEW id \in Nat
  PROVE  Uint64(id) \in 0..id /\ (id <= MaxUint64 => Uint64(id) = id)
BY APIAssumption DEF Uint64, MaxUint64

LEMMA CutIsRoundId ==
  ASSUME NEW id \in RoundIds
  PROVE  Uint64(id) \in RoundIds
BY Uint64Cuts, OracleAssumption DEF RoundIds

LEMMA LatestReply ==
  ASSUME OracleTypeOK
  PROVE  LatestResult \in Reply
<1>1. LatestRoundData \in Reply
  BY ChainReply, OracleAssumption DEF OracleTypeOK, LatestRoundData, RoundIds
<1> QED
  BY <1>1, CutIsRoundId DEF LatestResult, Reply

(* While the ids fit, the latest round reaches the handlers as it is.      *)
LEMMA LatestUncut ==
  ASSUME ContractInv, IdsFit
  PROVE  LatestResult = LatestRoundData
<1>1. latestRoundId \in Nat /\ latestRoundId \in 1..latestRoundId
  BY OracleAssumption DEF ContractInv, OracleTypeOK
<1>2. rounds[latestRoundId].answeredInRound = latestRoundId
  BY <1>1 DEF ContractInv, RoundsInTimeOrder
<1>3. Uint64(latestRoundId) = latestRoundId
  BY <1>1, Uint64Cuts DEF IdsFit
<1> DEFINE d == LatestRoundData
<1>4. d.roundId = latestRoundId /\ d.answeredInRound = latestRoundId
  BY <1>2 DEF LatestRoundData, GetRoundData
<1>5. [d EXCEPT !.roundId = latestRoundId] = d
  BY DEF LatestRoundData, GetRoundData
<1>6. [d EXCEPT !.answeredInRound = latestRoundId] = d
  BY <1>2 DEF LatestRoundData, GetRoundData
<1> HIDE DEF d
<1> QED
  BY <1>3, <1>4, <1>5, <1>6 DEF LatestResult, d

LEMMA NoDataReply == NoData \in Reply
BY OracleAssumption DEF NoData, Reply, RoundIds

Attempts == 0..MaxAttempts-1
Statuses == {0, 200, 400, 401, 500}

(* A handler with one field replaced by a value of its type is a handler.  *)
LEMMA Setters ==
  ASSUME NEW q \in Handler
  PROVE  /\ \A v \in Steps : [q EXCEPT !.pc = v] \in Handler
         /\ \A v \in BOOLEAN : [q EXCEPT !.live = v] \in Handler
         /\ \A v \in Attempts : [q EXCEPT !.attempt = v] \in Handler
         /\ \A v \in Reply : [q EXCEPT !.data = v] \in Handler
         /\ \A v \in Tx \cup {NoTx} : [q EXCEPT !.tx = v] \in Handler
         /\ \A v \in SUBSET Tx : [q EXCEPT !.sent = v] \in Handler
         /\ \A v \in Statuses : [q EXCEPT !.status = v] \in Handler
<1>1. \A v \in Steps : [q EXCEPT !.pc = v] \in Handler
  BY DEF Handler
<1>2. \A v \in BOOLEAN : [q EXCEPT !.live = v] \in Handler
  BY DEF Handler
<1>3. \A v \in Attempts : [q EXCEPT !.attempt = v] \in Handler
  BY DEF Handler, Attempts
<1>4. \A v \in Reply : [q EXCEPT !.data = v] \in Handler
  BY DEF Handler
<1>5. \A v \in Tx \cup {NoTx} : [q EXCEPT !.tx = v] \in Handler
  BY DEF Handler
<1>6. \A v \in SUBSET Tx : [q EXCEPT !.sent = v] \in Handler
  BY DEF Handler
<1>7. \A v \in Statuses : [q EXCEPT !.status = v] \in Handler
  BY DEF Handler, Statuses
<1> QED
  BY <1>1, <1>2, <1>3, <1>4, <1>5, <1>6, <1>7

(* A handler that has replied is well formed.                              *)
LEMMA RepliedSound ==
  ASSUME NEW q \in Handler, NEW status \in {200, 400, 401, 500}
  PROVE  Replied(q, status) \in Handler /\ Sound(Replied(q, status))
<1>1. Replied(q, status) \in Handler
  <2>0. /\ "done" \in Steps /\ status \in Statuses
        /\ FALSE \in BOOLEAN /\ 0 \in Attempts
    BY DEF Steps, Statuses, Attempts, MaxAttempts
  <2> DEFINE q1 == [q EXCEPT !.pc = "done"]
             q2 == [q1 EXCEPT !.status = status]
             q3 == [q2 EXCEPT !.live = FALSE]
             q4 == [q3 EXCEPT !.attempt = 0]
  <2>1. q1 \in Handler
    BY <2>0, Setters, Zenon
  <2>2. q2 \in Handler
    <3> HIDE DEF q1
    <3> QED
      BY <2>0, <2>1, Setters, Zenon
  <2>3. q3 \in Handler
    <3> HIDE DEF q2
    <3> QED
      BY <2>0, <2>2, Setters, Zenon
  <2>4. q4 \in Handler
    <3> HIDE DEF q3
    <3> QED
      BY <2>0, <2>3, Setters, Zenon
  <2> QED
    BY <2>4 DEF Replied
<1>2. Replied(q, status).pc = "done"
  BY DEF Replied, Handler
<1> QED
  BY <1>1, <1>2 DEF Sound, UpdateSteps, ReadSteps

(* retry.Retry leaves a well-formed handler well formed, whether it goes   *)
(* back to the first call or gives up.                                     *)
LEMMA RetriedSound ==
  ASSUME NEW q \in Handler, Sound(q), NEW first \in UpdateSteps \cup ReadSteps,
         first # "send",
         q.pc \in UpdateSteps <=> first \in UpdateSteps,
         q.pc \in ReadSteps <=> first \in ReadSteps
  PROVE  Retried(q, first) \in Handler /\ Sound(Retried(q, first))
<1>1. CASE q.live /\ q.attempt + 1 < MaxAttempts
  <2>1. Retried(q, first) = [q EXCEPT !.pc = first, !.attempt = @ + 1]
    BY <1>1 DEF Retried
  <2>2. first \in Steps /\ q.attempt + 1 \in Attempts
    BY <1>1 DEF Handler, Steps, UpdateSteps, ReadSteps, MaxAttempts, Attempts
  <2>3. Retried(q, first) \in Handler
    <3> DEFINE q1 == [q EXCEPT !.pc = first]
    <3>1. q1 \in Handler /\ q1.attempt = q.attempt
      BY <2>2, Setters DEF Handler
    <3> HIDE DEF q1
    <3>2. [q1 EXCEPT !.attempt = @ + 1] \in Handler
      BY <2>2, <3>1, Setters, Zenon
    <3> QED
      BY <2>1, <3>2 DEF q1
  <2>4. LET x == Retried(q, first)
        IN  x.pc = first /\ x.op = q.op /\ x.arg = q.arg
    BY <2>1 DEF Handler
  <2> QED
    BY <2>3, <2>4 DEF Sound, UpdateSteps, ReadSteps
<1>2. CASE ~(q.live /\ q.attempt + 1 < MaxAttempts)
  <2>1. Retried(q, first) = Replied(q, 500)
    BY <1>2 DEF Retried
  <2> QED
    BY <2>1, RepliedSound
<1> QED
  BY <1>1, <1>2

(* So is one that moves on to the next call of its operation.              *)
LEMMA MovedSound ==
  ASSUME NEW q \in Handler, Sound(q), NEW next \in UpdateSteps \cup ReadSteps \cup {"dbSave"},
         next # "send", q.pc \notin {"idle", "done"},
         next \in UpdateSteps => q.pc \in UpdateSteps,
         next \in ReadSteps => q.pc \in ReadSteps
  PROVE  [q EXCEPT !.pc = next] \in Handler /\ Sound([q EXCEPT !.pc = next])
<1>1. next \in Steps
  BY DEF Steps, UpdateSteps, ReadSteps
<1>2. [q EXCEPT !.pc = next] \in Handler
  BY <1>1, Setters
<1>3. LET x == [q EXCEPT !.pc = next]
      IN  x.pc = next /\ x.op = q.op /\ x.arg = q.arg
  BY DEF Handler
<1> QED
  BY <1>2, <1>3 DEF Sound, UpdateSteps, ReadSteps

(* Data in hand does not matter to soundness.                              *)
LEMMA DataSound ==
  ASSUME NEW q \in Handler, Sound(q), NEW d \in Reply
  PROVE  [q EXCEPT !.data = d] \in Handler /\ Sound([q EXCEPT !.data = d])
<1>1. [q EXCEPT !.data = d] \in Handler
  BY Setters
<1>2. LET x == [q EXCEPT !.data = d]
      IN  x.pc = q.pc /\ x.op = q.op /\ x.arg = q.arg /\ x.tx = q.tx
  BY DEF Handler
<1> QED
  BY <1>1, <1>2 DEF Sound, UpdateSteps, ReadSteps

(* One handler takes a sound step and the account's nonce stays.           *)
LEMMA StepSound ==
  ASSUME req \in [Requests -> Handler], HandlersSound, nonce' = nonce,
         NEW r \in Requests, NEW q \in Handler, Sound(q), Step(r, q)
  PROVE  req' \in [Requests -> Handler] /\ HandlersSound'
<1>1. req' \in [Requests -> Handler] /\ \A s \in Requests : req'[s] \in {req[s], q}
  BY DEF Step
<1> QED
  BY <1>1 DEF HandlersSound, Sound

(* Such a step keeps the invariant when it touches nothing but the handler.*)
LEMMA HandlerOnly ==
  ASSUME APIInv, UNCHANGED <<oracleVars, nodeVars, storeVars>>,
         NEW r \in Requests, NEW q \in Handler, Sound(q), Step(r, q)
  PROVE  APIInv'
<1>1. /\ UNCHANGED <<owner, latestRoundId, rounds, events, timestamp>>
      /\ UNCHANGED <<nonce, pool, receipts>> /\ UNCHANGED <<cache, rows, rowTx>>
  BY DEF oracleVars, nodeVars, storeVars
<1>2. req' \in [Requests -> Handler] /\ HandlersSound'
  BY <1>1, StepSound DEF APIInv, TypeOK
<1>3. NewestExists' /\ OnePendingTx'
  BY <1>1 DEF APIInv, NewestExists, IsNewest, OnePendingTx
<1>4. TypeOK'
  BY <1>1, <1>2 DEF APIInv, TypeOK, NodeTypeOK, OracleTypeOK
<1> QED
  BY <1>2, <1>3, <1>4 DEF APIInv

(* Every handler is a handler, and its key is a key.                       *)
LEMMA HandlerAt ==
  ASSUME APIInv, NEW r \in Requests
  PROVE  /\ req[r] \in Handler /\ Sound(req[r])
         /\ req[r].pc \in ReadSteps => Key(req[r]) \in Keys
<1>1. req[r] \in Handler /\ Sound(req[r])
  BY DEF APIInv, TypeOK, HandlersSound
<1>2. ASSUME req[r].pc \in ReadSteps
      PROVE  Key(req[r]) \in Keys
  <2>1. req[r].op \in {"latest", "round"} /\ req[r].arg \in Args(req[r].op)
    BY <1>1, <1>2 DEF Sound, ReadSteps
  <2>2. req[r].op = "round" => req[r].arg \in RoundIds
    BY <2>1, APIAssumption DEF Args
  <2> QED
    BY <2>1, <2>2 DEF Key, Keys, LatestKey, RoundKey
<1> QED
  BY <1>1, <1>2
-----------------------------------------------------------------------------
(* The calls of the read path.                                             *)
LEMMA CacheGetKeeps ==
  ASSUME APIInv, NEW r \in Requests, CacheGet(r)
  PROVE  APIInv'
<1> DEFINE q == req[r]
           found == cache[Key(q)]
<1>1. q \in Handler /\ Sound(q) /\ q.pc = "cacheGet" /\ Key(q) \in Keys
  BY HandlerAt DEF CacheGet, At, ReadSteps
<1>2. found \in Reply
  BY <1>1 DEF APIInv, TypeOK
<1>3. CASE Step(r, Replied([q EXCEPT !.data = found], 200))
  <2>1. [q EXCEPT !.data = found] \in Handler
    BY <1>1, <1>2, Setters
  <2>2. /\ Replied([q EXCEPT !.data = found], 200) \in Handler
        /\ Sound(Replied([q EXCEPT !.data = found], 200))
    BY <2>1, RepliedSound
  <2> QED
    BY <1>3, <2>2, HandlerOnly DEF CacheGet
<1>4. CASE Step(r, [q EXCEPT !.pc = "dbGet"])
  <2>1. [q EXCEPT !.pc = "dbGet"] \in Handler /\ Sound([q EXCEPT !.pc = "dbGet"])
    BY <1>1, MovedSound DEF UpdateSteps, ReadSteps
  <2> QED
    BY <1>4, <2>1, HandlerOnly DEF CacheGet
<1> QED
  BY <1>3, <1>4 DEF CacheGet

(* A handler that takes data of the right shape to its next call.          *)
LEMMA LoadedSound ==
  ASSUME NEW q \in Handler, Sound(q), NEW d \in Reply,
         NEW next \in UpdateSteps \cup ReadSteps,
         next # "send", q.pc \notin {"idle", "done"},
         next \in UpdateSteps => q.pc \in UpdateSteps,
         next \in ReadSteps => q.pc \in ReadSteps
  PROVE  LET x == [q EXCEPT !.pc = next, !.data = d]
         IN  x \in Handler /\ Sound(x)
<1> DEFINE y == [q EXCEPT !.pc = next]
<1>1. y \in Handler /\ Sound(y)
  BY MovedSound
<1> HIDE DEF y
<1>2. [y EXCEPT !.data = d] \in Handler /\ Sound([y EXCEPT !.data = d])
  BY <1>1, DataSound
<1>3. [y EXCEPT !.data = d] = [q EXCEPT !.pc = next, !.data = d]
  BY Zenon DEF y
<1> QED
  BY <1>2, <1>3

LEMMA DbGetKeeps ==
  ASSUME APIInv, NEW r \in Requests, DbGet(r)
  PROVE  APIInv'
<1> DEFINE q == req[r]
           row == DbLookup(q)
<1>1. q \in Handler /\ Sound(q) /\ q.pc = "dbGet"
  BY HandlerAt DEF DbGet, At
<1>2. row \in Reply
  <2>1. LatestRowId \in RoundIds
    BY NewestRow DEF APIInv
  <2>2. q.op # "latest" => q.arg \in RoundIds
    BY <1>1, APIAssumption DEF Sound, ReadSteps, Args
  <2> QED
    BY <2>1, <2>2 DEF DbLookup, LatestRow, APIInv, TypeOK
<1> HIDE DEF row
<1>3. CASE Step(r, [q EXCEPT !.pc = "fillCache", !.data = row])
  <2>1. LET x == [q EXCEPT !.pc = "fillCache", !.data = row]
        IN  x \in Handler /\ Sound(x)
    BY <1>1, <1>2, LoadedSound DEF UpdateSteps, ReadSteps
  <2> QED
    BY <1>3, <2>1, HandlerOnly DEF DbGet
<1>4. CASE Step(r, [q EXCEPT !.pc = "rpcRead"])
  <2>1. [q EXCEPT !.pc = "rpcRead"] \in Handler /\ Sound([q EXCEPT !.pc = "rpcRead"])
    BY <1>1, MovedSound DEF UpdateSteps, ReadSteps
  <2> QED
    BY <1>4, <2>1, HandlerOnly DEF DbGet
<1> QED
  BY <1>3, <1>4 DEF DbGet, row

LEMMA AskedFit ==
  ASSUME NEW id \in AskedRounds
  PROVE  id \in RoundIds /\ id \in Nat /\ id <= MaxUint64
<1>1. id \in RoundIds /\ id \in 0..MaxUint64 /\ MaxUint64 \in Nat
  BY APIAssumption DEF MaxUint64
<1> QED
  BY <1>1

(* An id that the contract finds is small enough to have been passed as it *)
(* is, so what is found is the round asked for.                            *)
LEMMA FoundIsAsked ==
  ASSUME ContractInv, NEW q, q.op = "round", q.arg \in AskedRounds, RpcFinds(q)
  PROVE  RoundFound(q.arg) /\ RpcResult(q) = GetRoundData(q.arg)
<1>1. ChainId(q.arg) \in RoundIds /\ RoundFound(ChainId(q.arg))
  BY DEF RpcFinds
<1>2. q.arg \in RoundIds /\ q.arg \in Nat /\ q.arg <= MaxUint64
  BY AskedFit
<1>3. ChainId(q.arg) = q.arg
  BY <1>1, <1>2, APIAssumption, OracleAssumption DEF ChainId, RoundIds, MaxUint64
<1>4. rounds[q.arg].answeredInRound = q.arg
  BY <1>1, <1>2, <1>3 DEF ContractInv, RoundsContiguous, RoundsInTimeOrder
<1>5. Uint64(q.arg) = q.arg
  BY <1>2, Uint64Cuts
<1> DEFINE d == GetRoundData(q.arg)
<1>6. d.answeredInRound = q.arg /\ [d EXCEPT !.roundId = q.arg] = d
  BY <1>4 DEF GetRoundData
<1>7. [d EXCEPT !.answeredInRound = q.arg] = d
  BY <1>4 DEF GetRoundData
<1> HIDE DEF d
<1>8. RpcResult(q) = d
  BY <1>3, <1>5, <1>6, <1>7 DEF RpcResult, d
<1> QED
  BY <1>1, <1>3, <1>8 DEF d

(* Cut off or not, what the reader answers has the shape of a reply.       *)
LEMMA FoundReply ==
  ASSUME OracleTypeOK, NEW q, q.op = "round", q.arg \in RoundIds, RpcFinds(q)
  PROVE  RpcResult(q) \in Reply
<1>1. GetRoundData(ChainId(q.arg)) \in Reply
  BY ChainReply DEF RpcFinds
<1> QED
  BY <1>1, CutIsRoundId DEF RpcResult, Reply

LEMMA RpcReadKeeps ==
  ASSUME APIInv, NEW r \in Requests, RpcRead(r)
  PROVE  APIInv'
<1> DEFINE q == req[r]
           result == RpcResult(q)
<1>1. q \in Handler /\ Sound(q) /\ q.pc = "rpcRead"
  BY HandlerAt DEF RpcRead, At
<1>2. RpcFinds(q) => result \in Reply
  <2>1. q.op = "round" => q.arg \in RoundIds
    BY <1>1, APIAssumption DEF Sound, ReadSteps, Args
  <2>2. OracleTypeOK
    BY DEF APIInv, TypeOK, NodeTypeOK
  <2>3. CASE q.op = "round"
    BY <2>1, <2>2, <2>3, FoundReply
  <2>4. CASE q.op # "round"
    BY <2>2, <2>4, LatestReply DEF RpcResult
  <2> QED
    BY <2>3, <2>4
<1> HIDE DEF result
<1>3. CASE RpcFinds(q) /\ Step(r, [q EXCEPT !.pc = "cacheSet", !.data = result])
  <2>1. LET x == [q EXCEPT !.pc = "cacheSet", !.data = result]
        IN  x \in Handler /\ Sound(x)
    BY <1>1, <1>2, <1>3, LoadedSound DEF UpdateSteps, ReadSteps
  <2> QED
    BY <1>3, <2>1, HandlerOnly DEF RpcRead
<1>4. CASE Step(r, Retried(q, "rpcRead"))
  <2>1. Retried(q, "rpcRead") \in Handler /\ Sound(Retried(q, "rpcRead"))
    BY <1>1, RetriedSound DEF UpdateSteps, ReadSteps
  <2> QED
    BY <1>4, <2>1, HandlerOnly DEF RpcRead
<1> QED
  BY <1>3, <1>4 DEF RpcRead, result

LEMMA CacheSetKeeps ==
  ASSUME APIInv, NEW r \in Requests, CacheSet(r)
  PROVE  APIInv'
<1> DEFINE q == req[r]
<1>1. /\ q \in Handler /\ Sound(q) /\ q.pc \in {"fillCache", "cacheSet"}
      /\ Key(q) \in Keys
  BY HandlerAt DEF CacheSet, ReadSteps
<1>2. cache' \in [Keys -> Reply]
  <2>1. q.data \in Reply
    BY <1>1 DEF Handler
  <2> QED
    BY <1>1, <2>1 DEF CacheSet, APIInv, TypeOK
<1>3. PICK x \in Handler : Sound(x) /\ Step(r, x)
  <2>1. Replied(q, 200) \in Handler /\ Sound(Replied(q, 200))
    BY <1>1, RepliedSound
  <2>2. [q EXCEPT !.pc = "dbSave"] \in Handler /\ Sound([q EXCEPT !.pc = "dbSave"])
    BY <1>1, MovedSound DEF UpdateSteps, ReadSteps
  <2> QED
    BY <2>1, <2>2 DEF CacheSet
<1>4. /\ UNCHANGED <<owner, latestRoundId, rounds, events, timestamp>>
      /\ UNCHANGED <<nonce, pool, receipts, rows, rowTx>>
  BY DEF CacheSet, oracleVars, nodeVars
<1>5. req' \in [Requests -> Handler] /\ HandlersSound'
  BY <1>3, <1>4, StepSound DEF APIInv, TypeOK
<1>6. NewestExists' /\ OnePendingTx'
  BY <1>4 DEF APIInv, NewestExists, IsNewest, OnePendingTx
<1>7. TypeOK'
  BY <1>2, <1>4, <1>5 DEF APIInv, TypeOK, NodeTypeOK, OracleTypeOK
<1> QED
  BY <1>5, <1>6, <1>7 DEF APIInv

(* Saving a row may make it the newest; it never leaves the table without  *)
(* a newest one.                                                           *)
LEMMA DbSaveKeeps ==
  ASSUME APIInv, NEW r \in Requests, DbSave(r)
  PROVE  APIInv'
<1> DEFINE q == req[r]
           row(id) == [q.data EXCEPT !.roundId = id]
<1>1. q \in Handler /\ Sound(q)
  BY HandlerAt
<1>2. /\ q.data \in Reply /\ q.tx \in Tx \cup {NoTx}
      /\ RowIds(q.data.roundId) \subseteq RoundIds
      /\ \A id \in RoundIds : row(id) \in Reply /\ row(id).roundId = id
  BY <1>1 DEF Handler, Reply, RowIds
<1> HIDE DEF row
<1>3. rows' \in [RoundIds -> Reply] /\ rowTx' \in [RoundIds -> Tx \cup {NoTx}]
  BY <1>2 DEF DbSave, APIInv, TypeOK, row
<1>4. /\ UNCHANGED <<owner, latestRoundId, rounds, events, timestamp>>
      /\ UNCHANGED <<nonce, pool, receipts, cache>>
      /\ Step(r, Replied(q, 200))
  BY DEF DbSave, oracleVars, nodeVars
<1>5. req' \in [Requests -> Handler] /\ HandlersSound'
  BY <1>1, <1>4, RepliedSound, StepSound DEF APIInv, TypeOK
<1>6. NewestExists'
  <2>1. PICK old \in RoundIds : IsNewest(old)
    BY DEF APIInv, NewestExists
  <2>2. CASE UNCHANGED rows
    BY <2>1, <2>2 DEF NewestExists, IsNewest
  <2>3. ASSUME NEW id \in RoundIds, rows' = [rows EXCEPT ![id] = row(id)]
        PROVE  NewestExists'
    <3>1. PICK top \in {old, id} : top >= old /\ top >= id
      BY <1>2, <2>1, OracleAssumption DEF RoundIds
    <3>2. rows \in [RoundIds -> Reply]
      BY DEF APIInv, TypeOK
    <3>3. \A other \in RoundIds : rows'[other] # NoData => other <= top
      BY <1>2, <2>1, <2>3, <3>1, <3>2, OracleAssumption DEF IsNewest, RoundIds
    <3>4. top = 0 \/ rows'[top] # NoData
      <4>1. id # 0 => row(id) # NoData
        BY <1>2 DEF NoData
      <4> QED
        BY <1>2, <2>1, <2>3, <3>1, <3>2, <4>1 DEF IsNewest
    <3> QED
      BY <3>1, <3>3, <3>4, <1>2 DEF NewestExists, IsNewest
  <2> QED
    BY <1>2, <2>2, <2>3 DEF DbSave, row
<1>7. OnePendingTx'
  BY <1>4 DEF APIInv, OnePendingTx
<1>8. TypeOK'
  BY <1>3, <1>4, <1>5 DEF APIInv, TypeOK, NodeTypeOK, OracleTypeOK
<1> QED
  BY <1>5, <1>6, <1>7, <1>8 DEF APIInv
-----------------------------------------------------------------------------
(* The calls of an update.                                                 *)
LEMMA CheckOwnerKeeps ==
  ASSUME APIInv, NEW r \in Requests, CheckOwner(r)
  PROVE  APIInv'
<1> DEFINE q == req[r]
<1>1. q \in Handler /\ Sound(q) /\ q.pc = "isOwner"
  BY HandlerAt DEF CheckOwner, At
<1>2. PICK x \in Handler : Sound(x) /\ Step(r, x)
  <2>1. [q EXCEPT !.pc = "prepare"] \in Handler /\ Sound([q EXCEPT !.pc = "prepare"])
    BY <1>1, MovedSound DEF UpdateSteps, ReadSteps
  <2>2. \A status \in {401, 500} :
           Replied(q, status) \in Handler /\ Sound(Replied(q, status))
    BY <1>1, RepliedSound
  <2> QED
    BY <2>1, <2>2 DEF CheckOwner
<1> QED
  BY <1>2, HandlerOnly DEF CheckOwner

(* The nonce signed is the account's at that moment.                       *)
LEMMA PrepareKeeps ==
  ASSUME APIInv, NEW r \in Requests, Prepare(r)
  PROVE  APIInv'
<1> DEFINE q == req[r]
<1>1. q \in Handler /\ Sound(q) /\ q.pc = "prepare"
  BY HandlerAt DEF Prepare, At
<1>2. CASE Step(r, Retried(q, "prepare"))
  <2>1. Retried(q, "prepare") \in Handler /\ Sound(Retried(q, "prepare"))
    BY <1>1, RetriedSound DEF UpdateSteps, ReadSteps
  <2> QED
    BY <1>2, <2>1, HandlerOnly DEF Prepare
<1>3. ASSUME NEW price \in GasPrices,
             Step(r, [q EXCEPT !.pc = "send",
                        !.tx = [nonce |-> NonceToUse, answer |-> q.arg,
                                gasPrice |-> price]])
      PROVE  APIInv'
  <2> DEFINE tx == [nonce |-> NonceToUse, answer |-> q.arg, gasPrice |-> price]
             y == [q EXCEPT !.pc = "send"]
             x == [y EXCEPT !.tx = tx]
  <2>1. q.op = "update" /\ q.arg \in Answers
    BY <1>1 DEF Sound, UpdateSteps, Args
  <2>2. tx \in Tx /\ tx.nonce <= nonce
    BY <2>1 DEF Tx, NonceToUse, APIInv, TypeOK, NodeTypeOK
  <2>3. y \in Handler /\ y.pc = "send" /\ y.op = q.op /\ y.arg = q.arg
    <3>1. "send" \in Steps
      BY DEF Steps
    <3>2. y \in Handler
      BY <1>1, <3>1, Setters
    <3> QED
      BY <1>1, <3>2 DEF Handler
  <2> HIDE DEF tx, y
  <2>4. x \in Handler
    BY <2>2, <2>3, Setters
  <2>5. x.pc = "send" /\ x.op = q.op /\ x.arg = q.arg /\ x.tx = tx
    BY <2>3 DEF Handler
  <2>6. Sound(x)
    BY <2>1, <2>2, <2>5 DEF Sound, UpdateSteps, ReadSteps, Ops, Args
  <2>7. x = [q EXCEPT !.pc = "send", !.tx = tx]
    BY Zenon DEF y
  <2>8. Step(r, x)
    BY <1>3, <2>7 DEF tx
  <2> QED
    BY <2>4, <2>6, <2>8, HandlerOnly DEF Prepare
<1> QED
  BY <1>2, <1>3 DEF Prepare

(* A transaction enters the pool only under the account's nonce, in place  *)
(* of the one that was there.                                              *)
LEMMA SendKeeps ==
  ASSUME APIInv, NEW r \in Requests, Send(r)
  PROVE  APIInv'
<1> DEFINE q == req[r]
<1>1. /\ q \in Handler /\ Sound(q) /\ q.pc = "send" /\ q.op = "update"
      /\ q.arg \in Answers /\ q.tx \in Tx /\ q.tx.nonce <= nonce
  BY HandlerAt DEF Send, At, Sound, UpdateSteps, Args
<1>2. /\ UNCHANGED <<owner, latestRoundId, rounds, events, timestamp>>
      /\ UNCHANGED <<nonce, receipts, cache, rows, rowTx>>
  BY DEF Send, oracleVars, storeVars
<1>3. pool' = pool \/ (Acceptable(q.tx) /\ pool' = PoolWith(q.tx))
  BY DEF Send
<1>4. /\ nonce \in Nat /\ pool \subseteq Tx
      /\ \A p, p2 \in pool : p = p2 /\ p.nonce = nonce
  BY DEF APIInv, TypeOK, NodeTypeOK, OnePendingTx
<1>5. pool' \subseteq Tx /\ OnePendingTx'
  <2>1. CASE pool' = pool
    BY <1>2, <1>4, <2>1 DEF OnePendingTx
  <2>2. CASE Acceptable(q.tx) /\ pool' = PoolWith(q.tx)
    <3>1. q.tx.nonce = nonce
      BY <1>1, <1>4, <2>2 DEF Acceptable, Tx
    <3>2. pool' = {q.tx}
      BY <1>4, <2>2, <3>1 DEF PoolWith
    <3> QED
      BY <1>1, <1>2, <3>1, <3>2 DEF OnePendingTx
  <2> QED
    BY <1>3, <2>1, <2>2
<1>6. \A y \in {q, Accepted(q)} :
         /\ y \in Handler /\ Sound(y) /\ y.pc = "send"
         /\ AfterSend(y) \in Handler /\ Sound(AfterSend(y))
         /\ AfterFailedSend(y) \in Handler /\ Sound(AfterFailedSend(y))
  <2>1. Accepted(q) \in Handler /\ Sound(Accepted(q)) /\ Accepted(q).pc = "send"
    <3>1. q.sent \cup {q.tx} \in SUBSET Tx
      BY <1>1 DEF Handler
    <3>2. Accepted(q) \in Handler
      BY <1>1, <3>1, Setters DEF Accepted
    <3>3. LET x == Accepted(q)
          IN  x.pc = q.pc /\ x.op = q.op /\ x.arg = q.arg /\ x.tx = q.tx
      BY <1>1 DEF Accepted, Handler
    <3> QED
      BY <1>1, <3>2, <3>3 DEF Sound, UpdateSteps, ReadSteps
  <2>2. TAKE y \in {q, Accepted(q)}
  <2>3. y \in Handler /\ Sound(y) /\ y.pc = "send"
    BY <1>1, <2>1
  <2> HIDE DEF q
  <2>4. AfterSend(y) \in Handler /\ Sound(AfterSend(y))
    <3> DEFINE z == [y EXCEPT !.pc = "readBack"]
    <3>1. z \in Handler /\ Sound(z)
      BY <2>3, MovedSound DEF UpdateSteps, ReadSteps
    <3>2. z.pc = "readBack"
      BY <2>3 DEF Handler
    <3> HIDE DEF z
    <3>3. 0 \in Attempts
      BY DEF Attempts, MaxAttempts
    <3>4. [z EXCEPT !.attempt = 0] \in Handler
      BY <3>1, <3>3, Setters
    <3>5. LET x == [z EXCEPT !.attempt = 0]
          IN  x.pc = z.pc /\ x.op = z.op /\ x.arg = z.arg
      BY <3>1 DEF Handler
    <3>6. Sound([z EXCEPT !.attempt = 0])
      BY <3>1, <3>2, <3>5 DEF Sound, UpdateSteps, ReadSteps
    <3>7. [z EXCEPT !.attempt = 0] = AfterSend(y)
      BY Zenon DEF z, AfterSend
    <3> QED
      BY <3>4, <3>6, <3>7
  <2>5. AfterFailedSend(y) \in Handler /\ Sound(AfterFailedSend(y))
    BY <2>3, RetriedSound DEF AfterFailedSend, UpdateSteps, ReadSteps
  <2> QED
    BY <2>3, <2>4, <2>5
<1>7. PICK x \in Handler : Sound(x) /\ Step(r, x)
  BY <1>6 DEF Send
<1>8. req' \in [Requests -> Handler] /\ HandlersSound'
  BY <1>2, <1>7, StepSound DEF APIInv, TypeOK
<1>9. NewestExists' /\ TypeOK'
  BY <1>2, <1>5, <1>8 DEF APIInv, NewestExists, IsNewest, TypeOK, NodeTypeOK, OracleTypeOK
<1> QED
  BY <1>5, <1>8, <1>9 DEF APIInv

LEMMA ReadBackKeeps ==
  ASSUME APIInv, NEW r \in Requests, ReadBack(r)
  PROVE  APIInv'
<1> DEFINE q == req[r]
<1>1. q \in Handler /\ Sound(q) /\ q.pc = "readBack"
  BY HandlerAt DEF ReadBack, At
<1>2. ReadBackResult \in Reply
  BY LatestReply DEF ReadBackResult, APIInv, TypeOK, NodeTypeOK
<1>3. LET x == [q EXCEPT !.pc = "cacheDel", !.data = ReadBackResult]
      IN  x \in Handler /\ Sound(x)
  BY <1>1, <1>2, LoadedSound DEF UpdateSteps, ReadSteps
<1>4. Retried(q, "readBack") \in Handler /\ Sound(Retried(q, "readBack"))
  BY <1>1, RetriedSound DEF UpdateSteps, ReadSteps
<1> QED
  BY <1>3, <1>4, HandlerOnly DEF ReadBack

LEMMA CacheDelKeeps ==
  ASSUME APIInv, NEW r \in Requests, CacheDel(r)
  PROVE  APIInv'
<1> DEFINE q == req[r]
<1>1. q \in Handler /\ Sound(q) /\ q.pc = "cacheDel"
  BY HandlerAt DEF CacheDel, At
<1>2. cache' \in [Keys -> Reply]
  BY NoDataReply DEF CacheDel, APIInv, TypeOK
<1>3. [q EXCEPT !.pc = "dbSave"] \in Handler /\ Sound([q EXCEPT !.pc = "dbSave"])
  BY <1>1, MovedSound DEF UpdateSteps, ReadSteps
<1>4. /\ UNCHANGED <<owner, latestRoundId, rounds, events, timestamp>>
      /\ UNCHANGED <<nonce, pool, receipts, rows, rowTx>>
      /\ Step(r, [q EXCEPT !.pc = "dbSave"])
  BY DEF CacheDel, oracleVars, nodeVars
<1>5. req' \in [Requests -> Handler] /\ HandlersSound'
  BY <1>3, <1>4, StepSound DEF APIInv, TypeOK
<1>6. NewestExists' /\ OnePendingTx'
  BY <1>4 DEF APIInv, NewestExists, IsNewest, OnePendingTx
<1>7. TypeOK'
  BY <1>2, <1>4, <1>5 DEF APIInv, TypeOK, NodeTypeOK, OracleTypeOK
<1> QED
  BY <1>5, <1>6, <1>7 DEF APIInv
-----------------------------------------------------------------------------
(* Clients, the clock of the cache, and crashes.                           *)
LEMMA IdleSound == Idle \in Handler /\ Sound(Idle)
<1>1. Idle.pc = "idle" /\ 0 \in Attempts /\ 0 \in RoundIds
  BY OracleAssumption DEF Idle, Attempts, MaxAttempts, RoundIds
<1>2. Idle \in Handler
  BY <1>1, NoDataReply DEF Idle, Handler, Steps, Attempts
<1> QED
  BY <1>1, <1>2 DEF Sound, UpdateSteps, ReadSteps

LEMMA ArriveKeeps ==
  ASSUME APIInv, NEW r \in Requests, Arrive(r)
  PROVE  APIInv'
<1>1. PICK op \in Workload[r] : \E arg \in Args(op) : Step(r, Arrived(op, arg))
  BY DEF Arrive
<1>2. PICK arg \in Args(op) : Step(r, Arrived(op, arg))
  BY <1>1
<1>3. op \in Ops
  BY APIAssumption
<1>4. arg \in Answers \cup RoundIds
  BY <1>3, APIAssumption, OracleAssumption DEF Ops, Args, RoundIds
<1> DEFINE x == Arrived(op, arg)
<1>5. Since(op) \in RoundIds
  BY <1>3, NewestRow, OracleAssumption
     DEF Ops, Since, APIInv, TypeOK, NodeTypeOK, OracleTypeOK, RoundIds
<1>6. x \in Handler
  <2>1. 0 \in 0..MaxAttempts-1 /\ FirstCall(op) \in Steps
    BY DEF MaxAttempts, FirstCall, Steps
  <2> QED
    BY <1>3, <1>4, <1>5, <2>1, NoDataReply DEF Arrived, Handler
<1>7. Sound(x)
  BY <1>2, <1>3 DEF Arrived, Sound, UpdateSteps, ReadSteps, FirstCall, Ops
<1> QED
  BY <1>2, <1>6, <1>7, HandlerOnly DEF Arrive

LEMMA RefuseBadRequestKeeps ==
  ASSUME APIInv, NEW r \in Requests, RefuseBadRequest(r)
  PROVE  APIInv'
<1>1. PICK op \in Workload[r] \ {"latest"} :
         Step(r, Replied([Idle EXCEPT !.op = op], 400))
  BY DEF RefuseBadRequest
<1> DEFINE x == [Idle EXCEPT !.op = op]
<1>2. op \in Ops
  BY APIAssumption
<1>3. x \in Handler
  BY <1>2, IdleSound DEF Handler
<1>4. Replied(x, 400) \in Handler /\ Sound(Replied(x, 400))
  BY <1>3, RepliedSound
<1> QED
  BY <1>1, <1>4, HandlerOnly DEF RefuseBadRequest

LEMMA DisconnectKeeps ==
  ASSUME APIInv, NEW r \in Requests, Disconnect(r)
  PROVE  APIInv'
<1> DEFINE x == [req[r] EXCEPT !.live = FALSE]
<1>1. req[r] \in Handler /\ Sound(req[r])
  BY HandlerAt
<1>2. x \in Handler
  BY <1>1, Setters
<1>3. x.pc = req[r].pc /\ x.op = req[r].op /\ x.arg = req[r].arg /\ x.tx = req[r].tx
  BY <1>1 DEF Handler
<1>4. Sound(x)
  BY <1>1, <1>3 DEF Sound
<1>5. Step(r, x)
  BY DEF Disconnect, Step
<1> QED
  BY <1>2, <1>4, <1>5, HandlerOnly DEF Disconnect

LEMMA CrashKeeps ==
  ASSUME APIInv, Crash
  PROVE  APIInv'
<1>1. /\ UNCHANGED <<owner, latestRoundId, rounds, events, timestamp>>
      /\ UNCHANGED <<nonce, pool, receipts, cache, rows, rowTx>>
  BY DEF Crash, oracleVars, nodeVars, storeVars
<1>2. req' \in [Requests -> Handler] /\ \A r \in Requests : req'[r] = Idle
  BY IdleSound DEF Crash
<1>3. HandlersSound'
  BY <1>1, <1>2, IdleSound DEF HandlersSound, Sound
<1>4. NewestExists' /\ OnePendingTx' /\ TypeOK'
  BY <1>1, <1>2
     DEF APIInv, NewestExists, IsNewest, OnePendingTx, TypeOK, NodeTypeOK, OracleTypeOK
<1> QED
  BY <1>3, <1>4 DEF APIInv

LEMMA ExpireKeeps ==
  ASSUME APIInv, NEW k \in Keys, Expire(k)
  PROVE  APIInv'
<1>1. /\ UNCHANGED <<owner, latestRoundId, rounds, events, timestamp>>
      /\ UNCHANGED <<nonce, pool, receipts, rows, rowTx, req>>
  BY DEF Expire, oracleVars, nodeVars
<1>2. cache' \in [Keys -> Reply]
  BY NoDataReply DEF Expire, APIInv, TypeOK
<1>3. HandlersSound'
  BY <1>1 DEF APIInv, HandlersSound, Sound
<1> QED
  BY <1>1, <1>2, <1>3
     DEF APIInv, NewestExists, IsNewest, OnePendingTx, TypeOK, NodeTypeOK, OracleTypeOK
-----------------------------------------------------------------------------
(* The contract is reached only through its own transactions: a block of   *)
(* the node is a block of the contract, whoever sent what.                 *)
LEMMA MineIsContractStep ==
  ASSUME OracleTypeOK, pool \subseteq Tx, NEW tx \in pool, MineTx(tx)
  PROVE  OracleNext
<1>1. timestamp + 1 \in Times /\ tx.answer \in Answers /\ Server \in Accounts
  BY NodeAssumption DEF MineTx, Tx
<1> QED
  BY <1>1 DEF MineTx, OracleNext

LEMMA ScriptIsContractStep ==
  ASSUME OracleTypeOK, NEW a \in ScriptAnswers, ScriptUpdate(a)
  PROVE  OracleNext
<1>1. timestamp + 1 \in Times /\ a \in Answers /\ owner \in Accounts
  BY APIAssumption DEF ScriptUpdate, OracleTypeOK
<1> QED
  BY <1>1 DEF ScriptUpdate, OracleNext

(* Blocks keep the contract's invariant, whatever they contain.            *)
LEMMA BlocksKeepContract ==
  ASSUME ContractInv, [OracleNext]_oracleVars
  PROVE  ContractInv'
<1>1. CASE OracleNext
  BY <1>1, UpdatePreserves, BlockPreserves DEF OracleNext
<1>2. CASE UNCHANGED oracleVars
  BY <1>2 DEF oracleVars, ContractInv, OracleTypeOK, RoundsContiguous, RoundFound,
              RoundsInTimeOrder, EventsReplayRounds
<1> QED
  BY <1>1, <1>2

(* A mined transaction empties the pool, whose only nonce it uses.         *)
LEMMA MineKeeps ==
  ASSUME APIInv, ContractInv, Mine
  PROVE  APIInv'
<1>1. PICK tx \in pool : MineTx(tx) /\ UNCHANGED <<storeVars, req>>
  BY DEF Mine
<1>2. /\ nonce \in Nat /\ pool \subseteq Tx /\ OracleTypeOK
      /\ \A p, p2 \in pool : p = p2 /\ p.nonce = nonce
      /\ receipts \subseteq [tx : Tx, round : RoundIds]
  BY DEF APIInv, TypeOK, NodeTypeOK, OnePendingTx
<1>3. OracleTypeOK'
  BY <1>1, <1>2, MineIsContractStep, BlocksKeepContract DEF ContractInv
<1>4. nonce' = nonce + 1 /\ pool' = {}
  BY <1>1, <1>2 DEF MineTx, Tx
<1>5. receipts' \subseteq [tx : Tx, round : RoundIds]
  <2>1. tx \in Tx /\ 0 \in RoundIds /\ latestRoundId' \in RoundIds
    BY <1>2, <1>3, OracleAssumption DEF OracleTypeOK, RoundIds
  <2> QED
    BY <1>1, <1>2, <2>1 DEF MineTx
<1>6. UNCHANGED <<cache, rows, rowTx, req>>
  BY <1>1 DEF storeVars
<1>7. HandlersSound'
  BY <1>2, <1>4, <1>6 DEF APIInv, HandlersSound, Sound, Tx
<1>8. NewestExists' /\ OnePendingTx'
  BY <1>4, <1>6 DEF APIInv, NewestExists, IsNewest, OnePendingTx
<1>9. TypeOK'
  BY <1>2, <1>3, <1>4, <1>5, <1>6 DEF APIInv, TypeOK, NodeTypeOK
<1> QED
  BY <1>7, <1>8, <1>9 DEF APIInv

(* The script's transaction uses the server's nonce or leaves it alone.    *)
LEMMA RunScriptKeeps ==
  ASSUME APIInv, ContractInv, RunScript
  PROVE  APIInv'
<1>1. PICK a \in ScriptAnswers : ScriptUpdate(a) /\ UNCHANGED <<storeVars, req>>
  BY DEF RunScript
<1>2. /\ nonce \in Nat /\ pool \subseteq Tx /\ OracleTypeOK
      /\ \A p, p2 \in pool : p = p2 /\ p.nonce = nonce
      /\ receipts \subseteq [tx : Tx, round : RoundIds]
  BY DEF APIInv, TypeOK, NodeTypeOK, OnePendingTx
<1>3. OracleTypeOK'
  BY <1>1, <1>2, ScriptIsContractStep, BlocksKeepContract DEF ContractInv
<1>4. /\ nonce' \in {nonce, nonce + 1} /\ receipts' = receipts
      /\ nonce' = nonce => pool' \subseteq pool
      /\ nonce' = nonce + 1 => pool' = {}
  BY <1>1, <1>2 DEF ScriptUpdate, Tx
<1>5. UNCHANGED <<cache, rows, rowTx, req>>
  BY <1>1 DEF storeVars
<1>6. nonce' \in Nat /\ nonce' >= nonce /\ pool' \subseteq pool
  BY <1>2, <1>4
<1>7. HandlersSound'
  BY <1>2, <1>5, <1>6 DEF APIInv, HandlersSound, Sound, Tx
<1>8. NewestExists' /\ OnePendingTx'
  BY <1>2, <1>4, <1>5 DEF APIInv, NewestExists, IsNewest, OnePendingTx
<1>9. TypeOK'
  BY <1>2, <1>3, <1>4, <1>5, <1>6 DEF APIInv, TypeOK, NodeTypeOK
<1> QED
  BY <1>7, <1>8, <1>9 DEF APIInv
-----------------------------------------------------------------------------
LEMMA StartEstablishes == Init => APIInv /\ ContractInv
<1> SUFFICES ASSUME Init PROVE APIInv /\ ContractInv
  OBVIOUS
<1>1. ContractInv
  BY DeployEstablishes DEF Init
<1>2. 0 \in RoundIds /\ NoTx \in Tx \cup {NoTx}
  BY OracleAssumption DEF RoundIds
<1>3. TypeOK
  BY <1>1, <1>2, NoDataReply, IdleSound
     DEF Init, NodeInit, TypeOK, NodeTypeOK, ContractInv
<1>4. HandlersSound
  BY IdleSound DEF Init, HandlersSound
<1>5. NewestExists /\ OnePendingTx
  BY <1>2 DEF Init, NodeInit, NewestExists, IsNewest, OnePendingTx
<1> QED
  BY <1>1, <1>3, <1>4, <1>5 DEF APIInv

(* Whatever the API does is, to the contract, a block or nothing at all.   *)
LEMMA StepIsContractStep ==
  ASSUME APIInv, [Next]_vars
  PROVE  [OracleNext]_oracleVars
<1>1. OracleTypeOK /\ pool \subseteq Tx
  BY DEF APIInv, TypeOK, NodeTypeOK
<1>2. CASE Mine
  BY <1>1, <1>2, MineIsContractStep DEF Mine
<1>3. CASE RunScript
  BY <1>1, <1>3, ScriptIsContractStep DEF RunScript
<1>4. CASE UNCHANGED vars
  BY <1>4 DEF vars
<1>5. CASE Crash \/ \E k \in Keys : Expire(k)
  BY <1>5 DEF Crash, Expire
<1>6. ASSUME NEW r \in Requests,
             Arrive(r) \/ RefuseBadRequest(r) \/ Handle(r) \/ Disconnect(r)
      PROVE  UNCHANGED oracleVars
  BY <1>6 DEF Arrive, RefuseBadRequest, Disconnect, Handle, CacheGet, DbGet, RpcRead,
              CacheSet, DbSave, CheckOwner, Prepare, Send, ReadBack, CacheDel
<1> QED
  BY <1>2, <1>3, <1>4, <1>5, <1>6 DEF Next

LEMMA StepKeeps ==
  ASSUME APIInv, ContractInv, [Next]_vars
  PROVE  APIInv' /\ ContractInv'
<1>1. ContractInv'
  BY StepIsContractStep, BlocksKeepContract
<1>2. ASSUME NEW r \in Requests, Handle(r)
      PROVE  APIInv'
  BY <1>2, CacheGetKeeps, DbGetKeeps, RpcReadKeeps, CacheSetKeeps, DbSaveKeeps,
     CheckOwnerKeeps, PrepareKeeps, SendKeeps, ReadBackKeeps, CacheDelKeeps DEF Handle
<1>3. ASSUME NEW r \in Requests, Arrive(r) \/ RefuseBadRequest(r) \/ Disconnect(r)
      PROVE  APIInv'
  BY <1>3, ArriveKeeps, RefuseBadRequestKeeps, DisconnectKeeps
<1>4. CASE UNCHANGED vars
  <2>1. /\ UNCHANGED <<owner, latestRoundId, rounds, events, timestamp>>
        /\ UNCHANGED <<nonce, pool, receipts, cache, rows, rowTx, req>>
    BY <1>4 DEF vars, oracleVars, nodeVars, storeVars
  <2>2. APIInv'
    BY <2>1 DEF APIInv, TypeOK, NodeTypeOK, OracleTypeOK, HandlersSound, Sound,
                NewestExists, IsNewest, OnePendingTx
  <2> QED
    BY <1>1, <2>2
<1> QED
  BY <1>1, <1>2, <1>3, <1>4, ExpireKeeps, CrashKeeps, MineKeeps, RunScriptKeeps DEF Next

LEMMA Invariance == Spec => [](APIInv /\ ContractInv)
<1>1. Init => APIInv /\ ContractInv
  BY StartEstablishes
<1>2. APIInv /\ ContractInv /\ [Next]_vars => (APIInv /\ ContractInv)'
  BY StepKeeps
<1> QED
  BY <1>1, <1>2, PTL DEF Spec

(* Every variable of the API keeps its type, whatever fails.               *)
THEOREM APITyped == Spec => []TypeOK
<1>1. APIInv => TypeOK
  BY DEF APIInv
<1> QED
  BY <1>1, Invariance, PTL

(* The server never has two transactions pending, nor one with a gap below *)
(* its nonce, however many updates are in progress: updater.go:62.         *)
THEOREM OneTransactionInFlight == Spec => []OnePendingTx
<1>1. APIInv => OnePendingTx
  BY DEF APIInv
<1> QED
  BY <1>1, Invariance, PTL

(* Seen from the contract, the server, the script and the node together    *)
(* are one more behaviour of MockOracle.sol, so what is proved of the      *)
(* contract holds under them.                                              *)
THEOREM APIRefinesContract == Spec => OracleSpec
<1>1. Init => OracleInit
  BY DEF Init
<1>2. APIInv /\ [Next]_vars => [OracleNext]_oracleVars
  BY StepIsContractStep
<1> QED
  BY <1>1, <1>2, Invariance, PTL DEF Spec, OracleSpec
-----------------------------------------------------------------------------
(***************************************************************************)
(* Every copy of a round, in Redis, Postgres or a handler, is faithful.    *)
(***************************************************************************)
Loaded == {"fillCache", "cacheSet", "cacheDel", "dbSave"}

(* What makes that inductive: a handler about to store data has some, and  *)
(* for a request of a round it is the round that was asked for.            *)
Faithful(q) ==
    /\ q.data # NoData => IsChainRound(q.data)
    /\ q.pc \in Loaded => q.data # NoData
    /\ q.pc \in Loaded /\ q.op = "round" => q.data.roundId = q.arg

CachedFaithful(k, d) ==
    d # NoData => IsChainRound(d) /\ (k # LatestKey => k = RoundKey(d.roundId))

StoredFaithful(id, d) == d # NoData => IsChainRound(d) /\ d.roundId = id

CopyInv ==
    /\ \A k \in Keys : CachedFaithful(k, cache[k])
    /\ \A id \in RoundIds : StoredFaithful(id, rows[id])
    /\ \A r \in Requests : Faithful(req[r])

(* Rounds are only added, and none is rewritten.                           *)
LEMMA RoundsLast ==
  ASSUME ContractInv, [OracleNext]_oracleVars
  PROVE  /\ latestRoundId' \in 1..MaxRoundId /\ latestRoundId' >= latestRoundId
         /\ \A id \in 1..latestRoundId : rounds'[id] = rounds[id]
<1>1. latestRoundId \in 1..MaxRoundId /\ 1..latestRoundId \subseteq RoundIds
  BY OracleAssumption DEF ContractInv, OracleTypeOK, RoundIds
<1>2. latestRoundId' \in 1..MaxRoundId
  BY BlocksKeepContract DEF ContractInv, OracleTypeOK
<1>3. CASE UNCHANGED oracleVars
  BY <1>1, <1>3 DEF oracleVars
<1>4. ASSUME NEW t \in Times, NEW sender \in Accounts, NEW newAnswer \in Answers,
             UpdateAnswer(sender, newAnswer, t)
      PROVE  /\ latestRoundId' = latestRoundId + 1
             /\ \A id \in 1..latestRoundId : rounds'[id] = rounds[id]
  BY <1>1, <1>4 DEF UpdateAnswer, NextRoundId, ContractInv, OracleTypeOK
<1>5. ASSUME NEW t \in Times, NextBlock(t)
      PROVE  UNCHANGED <<latestRoundId, rounds>>
  BY <1>5 DEF NextBlock
<1> QED
  BY <1>1, <1>2, <1>3, <1>4, <1>5 DEF OracleNext

(* A copy that was faithful stays so: rounds are never rewritten.          *)
LEMMA ChainRoundLasts ==
  ASSUME ContractInv, [OracleNext]_oracleVars, NEW d, IsChainRound(d)
  PROVE  IsChainRound(d)'
<1> DEFINE id == d.roundId
<1>1. latestRoundId \in Nat /\ id \in 1..latestRoundId
  BY OracleAssumption DEF ContractInv, OracleTypeOK, IsChainRound
<1>2. latestRoundId' \in Nat /\ latestRoundId' >= latestRoundId
      /\ rounds'[id] = rounds[id]
  BY <1>1, RoundsLast, OracleAssumption
<1> QED
  BY <1>1, <1>2 DEF IsChainRound, GetRoundData

(* So only what a step writes has to be faithful.                          *)
LEMMA OldCopiesLast ==
  ASSUME APIInv, ContractInv, IdsFit, CopyInv, [Next]_vars,
         \A k \in Keys : cache'[k] = cache[k] \/ CachedFaithful(k, cache'[k]),
         \A id \in RoundIds : rows'[id] = rows[id] \/ StoredFaithful(id, rows'[id]),
         \A r \in Requests : req'[r] = req[r] \/ Faithful(req'[r])
  PROVE  CopyInv'
<1>1. \A d : IsChainRound(d) => IsChainRound(d)'
  BY StepIsContractStep, ChainRoundLasts
<1>2. ASSUME NEW k \in Keys PROVE CachedFaithful(k, cache[k])'
  <2>1. CachedFaithful(k, cache'[k])
    BY DEF CopyInv
  <2> QED
    BY <1>1, <2>1 DEF CachedFaithful
<1>3. ASSUME NEW id \in RoundIds PROVE StoredFaithful(id, rows[id])'
  <2>1. StoredFaithful(id, rows'[id])
    BY DEF CopyInv
  <2> QED
    BY <1>1, <2>1 DEF StoredFaithful
<1>4. ASSUME NEW r \in Requests PROVE Faithful(req[r])'
  <2>1. Faithful(req'[r])
    BY DEF CopyInv
  <2> QED
    BY <1>1, <2>1 DEF Faithful
<1> QED
  BY <1>2, <1>3, <1>4 DEF CopyInv

(* A handler that keeps its data, and does not turn to storing it, stays   *)
(* faithful; replying and retrying are such steps.                         *)
LEMMA DataKept ==
  ASSUME NEW q \in Handler, Faithful(q), NEW x, x.data = q.data, x.pc \notin Loaded
  PROVE  Faithful(x)
BY DEF Faithful, Loaded

LEMMA RepliedFaithful ==
  ASSUME NEW q \in Handler, Faithful(q), NEW status
  PROVE  Faithful(Replied(q, status))
<1>1. Replied(q, status).data = q.data /\ Replied(q, status).pc = "done"
  BY DEF Replied, Handler
<1> QED
  BY <1>1, DataKept DEF Loaded

LEMMA RetriedFaithful ==
  ASSUME NEW q \in Handler, Faithful(q), NEW first, first \notin Loaded
  PROVE  Faithful(Retried(q, first))
<1>1. CASE q.live /\ q.attempt + 1 < MaxAttempts
  <2>1. Retried(q, first).data = q.data /\ Retried(q, first).pc = first
    BY <1>1 DEF Retried, Handler
  <2> QED
    BY <2>1, DataKept
<1>2. CASE ~(q.live /\ q.attempt + 1 < MaxAttempts)
  BY <1>2, RepliedFaithful DEF Retried
<1> QED
  BY <1>1, <1>2

(* The latest round, and any round the contract finds, is a chain round.   *)
LEMMA FoundIsChainRound ==
  ASSUME ContractInv
  PROVE  /\ IsChainRound(LatestRoundData) /\ LatestRoundData # NoData
         /\ \A id \in RoundIds : RoundFound(id) =>
               /\ IsChainRound(GetRoundData(id)) /\ GetRoundData(id) # NoData
               /\ GetRoundData(id).roundId = id
<1>1. latestRoundId \in 1..MaxRoundId
  BY DEF ContractInv, OracleTypeOK
<1>2. \A id \in 1..latestRoundId :
         /\ IsChainRound(GetRoundData(id)) /\ GetRoundData(id) # NoData
         /\ GetRoundData(id).roundId = id
  BY <1>1, OracleAssumption DEF IsChainRound, GetRoundData, NoData
<1> QED
  BY <1>1, <1>2, OracleAssumption DEF ContractInv, RoundsContiguous, LatestRoundData

(* One handler moves and the stores stay.                                  *)
LEMMA HandlerCopies ==
  ASSUME APIInv, ContractInv, IdsFit, CopyInv, [Next]_vars, UNCHANGED storeVars,
         NEW r \in Requests, NEW x, Faithful(x), Step(r, x)
  PROVE  CopyInv'
<1>1. UNCHANGED <<cache, rows>>
  BY DEF storeVars
<1>2. \A s \in Requests : req'[s] = req[s] \/ Faithful(req'[s])
  BY DEF Step, APIInv, TypeOK
<1> QED
  BY <1>1, <1>2, OldCopiesLast

(* The read path: the data is taken from a faithful copy or from the chain.*)
LEMMA ReadsFaithful ==
  ASSUME APIInv, ContractInv, IdsFit, CopyInv, NEW r \in Requests,
         CacheGet(r) \/ DbGet(r) \/ RpcRead(r)
  PROVE  CopyInv'
<1> DEFINE q == req[r]
<1>1. q \in Handler /\ Sound(q) /\ Faithful(q)
  BY HandlerAt DEF CopyInv
<1>2. [Next]_vars /\ UNCHANGED storeVars
  BY DEF Next, Handle, CacheGet, DbGet, RpcRead
<1>3. CASE CacheGet(r)
  <2> DEFINE found == cache[Key(q)]
             y == [q EXCEPT !.data = found]
  <2>1. q.pc = "cacheGet" /\ Key(q) \in Keys
    BY <1>3, HandlerAt DEF CacheGet, At, ReadSteps
  <2>2. ASSUME found # NoData, Step(r, Replied(y, 200))
        PROVE  CopyInv'
    <3>1. IsChainRound(found) /\ found \in Reply
      BY <2>1, <2>2 DEF CopyInv, CachedFaithful, APIInv, TypeOK
    <3>2. y \in Handler
      BY <1>1, <3>1, Setters
    <3>3. y.data = found /\ y.pc = "cacheGet"
      BY <1>1, <2>1 DEF Handler
    <3>4. Faithful(y)
      BY <3>1, <3>3 DEF Faithful, Loaded
    <3>5. Faithful(Replied(y, 200))
      BY <3>2, <3>4, RepliedFaithful
    <3> QED
      BY <1>2, <2>2, <3>5, HandlerCopies
  <2>3. ASSUME Step(r, [q EXCEPT !.pc = "dbGet"])
        PROVE  CopyInv'
    <3>1. LET x == [q EXCEPT !.pc = "dbGet"] IN x.data = q.data /\ x.pc = "dbGet"
      BY <1>1 DEF Handler
    <3>2. Faithful([q EXCEPT !.pc = "dbGet"])
      BY <1>1, <3>1, DataKept DEF Loaded
    <3> QED
      BY <1>2, <2>3, <3>2, HandlerCopies
  <2> QED
    BY <1>3, <2>2, <2>3 DEF CacheGet
<1>4. CASE DbGet(r)
  <2> DEFINE row == DbLookup(q)
  <2>1. q.pc = "dbGet" /\ q.op \in {"latest", "round"} /\ q.arg \in Args(q.op)
    BY <1>1, <1>4 DEF DbGet, At, Sound, ReadSteps
  <2>2. row # NoData => IsChainRound(row) /\ (q.op = "round" => row.roundId = q.arg)
    <3>1. LatestRowId \in RoundIds
      BY NewestRow DEF APIInv
    <3>2. q.op = "round" => q.arg \in RoundIds
      BY <2>1, APIAssumption DEF Args
    <3> QED
      BY <2>1, <3>1, <3>2 DEF DbLookup, LatestRow, CopyInv, StoredFaithful
  <2> HIDE DEF row
  <2>3. ASSUME row # NoData, Step(r, [q EXCEPT !.pc = "fillCache", !.data = row])
        PROVE  CopyInv'
    <3> DEFINE x == [q EXCEPT !.pc = "fillCache", !.data = row]
    <3>1. x.data = row /\ x.op = q.op /\ x.arg = q.arg
      BY <1>1 DEF Handler
    <3>2. Faithful(x)
      BY <2>2, <2>3, <3>1 DEF Faithful
    <3> QED
      BY <1>2, <2>3, <3>2, HandlerCopies
  <2>4. ASSUME Step(r, [q EXCEPT !.pc = "rpcRead"])
        PROVE  CopyInv'
    <3>1. LET x == [q EXCEPT !.pc = "rpcRead"] IN x.data = q.data /\ x.pc = "rpcRead"
      BY <1>1 DEF Handler
    <3>2. Faithful([q EXCEPT !.pc = "rpcRead"])
      BY <1>1, <3>1, DataKept DEF Loaded
    <3> QED
      BY <1>2, <2>4, <3>2, HandlerCopies
  <2> QED
    BY <1>4, <2>3, <2>4 DEF DbGet, row
<1>5. CASE RpcRead(r)
  <2> DEFINE result == RpcResult(q)
  <2>1. q.pc = "rpcRead" /\ q.op \in {"latest", "round"} /\ q.arg \in Args(q.op)
    BY <1>1, <1>5 DEF RpcRead, At, Sound, ReadSteps
  <2>2. RpcFinds(q) => /\ IsChainRound(result) /\ result # NoData
                       /\ q.op = "round" => result.roundId = q.arg
    <3>1. q.op = "round" => q.arg \in AskedRounds /\ q.arg \in RoundIds
      BY <2>1, APIAssumption DEF Args
    <3>2. CASE q.op = "round"
      BY <3>1, <3>2, FoundIsAsked, FoundIsChainRound
    <3>3. CASE q.op # "round"
      BY <3>3, FoundIsChainRound, LatestUncut DEF RpcResult
    <3> QED
      BY <3>2, <3>3
  <2> HIDE DEF result
  <2>3. ASSUME RpcFinds(q), Step(r, [q EXCEPT !.pc = "cacheSet", !.data = result])
        PROVE  CopyInv'
    <3> DEFINE x == [q EXCEPT !.pc = "cacheSet", !.data = result]
    <3>1. x.data = result /\ x.op = q.op /\ x.arg = q.arg
      BY <1>1 DEF Handler
    <3>2. Faithful(x)
      BY <2>2, <2>3, <3>1 DEF Faithful
    <3> QED
      BY <1>2, <2>3, <3>2, HandlerCopies
  <2>4. ASSUME Step(r, Retried(q, "rpcRead"))
        PROVE  CopyInv'
    <3>1. Faithful(Retried(q, "rpcRead"))
      BY <1>1, RetriedFaithful DEF Loaded
    <3> QED
      BY <1>2, <2>4, <3>1, HandlerCopies
  <2> QED
    BY <1>5, <2>3, <2>4 DEF RpcRead, result
<1> QED
  BY <1>3, <1>4, <1>5

(* What is written to Redis or Postgres is the faithful data in hand.      *)
LEMMA WritesFaithful ==
  ASSUME APIInv, ContractInv, IdsFit, CopyInv, NEW r \in Requests,
         CacheSet(r) \/ DbSave(r) \/ CacheDel(r)
  PROVE  CopyInv'
<1> DEFINE q == req[r]
<1>1. q \in Handler /\ Sound(q) /\ Faithful(q) /\ req \in [Requests -> Handler]
  BY HandlerAt DEF CopyInv, APIInv, TypeOK
<1>2. [Next]_vars
  BY DEF Next, Handle
<1>3. Faithful(Replied(q, 200))
  BY <1>1, RepliedFaithful
<1>4. ASSUME q.pc \in Loaded
      PROVE  Faithful([q EXCEPT !.pc = "dbSave"])
  <2>1. LET x == [q EXCEPT !.pc = "dbSave"]
        IN  x.data = q.data /\ x.pc = "dbSave" /\ x.op = q.op /\ x.arg = q.arg
    BY <1>1 DEF Handler
  <2> QED
    BY <1>1, <1>4, <2>1 DEF Faithful, Loaded
<1>5. CASE CacheSet(r)
  <2>1. /\ q.pc \in {"fillCache", "cacheSet"} /\ q.data # NoData /\ Key(q) \in Keys
        /\ q.op \in {"latest", "round"}
    BY <1>1, <1>5, HandlerAt DEF CacheSet, Faithful, Sound, Loaded, ReadSteps
  <2>2. CachedFaithful(Key(q), q.data)
    BY <1>1, <2>1 DEF CachedFaithful, Faithful, Key, Loaded
  <2>3. \A k \in Keys : cache'[k] = cache[k] \/ CachedFaithful(k, cache'[k])
    BY <1>5, <2>1, <2>2 DEF CacheSet, APIInv, TypeOK
  <2>4. \A s \in Requests : req'[s] = req[s] \/ Faithful(req'[s])
    BY <1>1, <1>3, <1>4, <1>5, <2>1 DEF CacheSet, Step, Loaded
  <2>5. UNCHANGED rows
    BY <1>5 DEF CacheSet
  <2> QED
    BY <1>2, <2>3, <2>4, <2>5, OldCopiesLast
<1>6. CASE DbSave(r)
  <2>0. q.data \in Reply /\ q.data # NoData /\ IsChainRound(q.data)
    BY <1>1, <1>6 DEF DbSave, At, Faithful, Loaded, Handler
  <2>1. StoredFaithful(q.data.roundId, q.data)
    BY <2>0 DEF StoredFaithful
  <2>2. /\ RowIds(q.data.roundId) = {q.data.roundId}
        /\ [q.data EXCEPT !.roundId = q.data.roundId] = q.data
    BY <2>0 DEF IsChainRound, RowIds, Reply
  <2>5. \A id \in RoundIds : rows'[id] = rows[id] \/ StoredFaithful(id, rows'[id])
    BY <1>6, <2>1, <2>2 DEF DbSave, APIInv, TypeOK
  <2>3. \A s \in Requests : req'[s] = req[s] \/ Faithful(req'[s])
    BY <1>1, <1>3, <1>6 DEF DbSave, Step
  <2>4. UNCHANGED cache
    BY <1>6 DEF DbSave
  <2> QED
    BY <1>2, <2>3, <2>4, <2>5, OldCopiesLast
<1>7. CASE CacheDel(r)
  <2>1. \A k \in Keys : cache'[k] = cache[k] \/ CachedFaithful(k, cache'[k])
    BY <1>7 DEF CacheDel, APIInv, TypeOK, CachedFaithful
  <2>2. \A s \in Requests : req'[s] = req[s] \/ Faithful(req'[s])
    BY <1>1, <1>4, <1>7 DEF CacheDel, At, Step, Loaded
  <2>3. UNCHANGED rows
    BY <1>7 DEF CacheDel
  <2> QED
    BY <1>2, <2>1, <2>2, <2>3, OldCopiesLast
<1> QED
  BY <1>5, <1>6, <1>7

(* An update reads back the chain's latest round, which is faithful; until *)
(* then it moves no data.                                                  *)
LEMMA UpdatesFaithful ==
  ASSUME APIInv, ContractInv, IdsFit, CopyInv, NEW r \in Requests,
         CheckOwner(r) \/ Prepare(r) \/ Send(r) \/ ReadBack(r)
  PROVE  CopyInv'
<1> DEFINE q == req[r]
<1>1. q \in Handler /\ Faithful(q)
  BY HandlerAt DEF CopyInv
<1>2. [Next]_vars /\ UNCHANGED storeVars
  BY DEF Next, Handle, CheckOwner, Prepare, Send, ReadBack
<1>3. /\ \A status : Faithful(Replied(q, status))
      /\ \A first \in {"prepare", "readBack"} : Faithful(Retried(q, first))
  BY <1>1, RepliedFaithful, RetriedFaithful DEF Loaded
<1>4. CASE CheckOwner(r)
  <2>1. LET x == [q EXCEPT !.pc = "prepare"] IN x.data = q.data /\ x.pc = "prepare"
    BY <1>1 DEF Handler
  <2>2. Faithful([q EXCEPT !.pc = "prepare"])
    BY <1>1, <2>1, DataKept DEF Loaded
  <2>3. PICK x : Faithful(x) /\ Step(r, x)
    BY <1>3, <1>4, <2>2 DEF CheckOwner
  <2> QED
    BY <1>2, <2>3, HandlerCopies
<1>5. CASE Prepare(r)
  <2>1. ASSUME NEW tx PROVE Faithful([q EXCEPT !.pc = "send", !.tx = tx])
    <3>1. LET x == [q EXCEPT !.pc = "send", !.tx = tx] IN x.data = q.data /\ x.pc = "send"
      BY <1>1 DEF Handler
    <3> QED
      BY <1>1, <3>1, DataKept DEF Loaded
  <2>2. PICK x : Faithful(x) /\ Step(r, x)
    BY <1>3, <1>5, <2>1 DEF Prepare
  <2> QED
    BY <1>2, <2>2, HandlerCopies
<1>6. CASE Send(r)
  <2>1. q.pc = "send" /\ q.tx \in Tx
    BY <1>6, HandlerAt DEF Send, At, Sound
  <2>2. Accepted(q) \in Handler /\ Accepted(q).data = q.data /\ Accepted(q).pc = "send"
    <3>1. q.sent \cup {q.tx} \in SUBSET Tx
      BY <1>1, <2>1 DEF Handler
    <3>2. Accepted(q) \in Handler
      BY <1>1, <3>1, Setters DEF Accepted
    <3> QED
      BY <1>1, <2>1, <3>2 DEF Accepted, Handler
  <2>3. \A y \in {q, Accepted(q)} : y \in Handler /\ Faithful(y)
    BY <1>1, <2>2, DataKept DEF Loaded
  <2>4. ASSUME NEW y \in {q, Accepted(q)}
        PROVE  Faithful(AfterSend(y)) /\ Faithful(AfterFailedSend(y))
    <3>1. AfterSend(y).data = y.data /\ AfterSend(y).pc = "readBack"
      BY <2>3 DEF AfterSend, Handler
    <3>2. Faithful(AfterSend(y))
      BY <2>3, <3>1, DataKept DEF Loaded
    <3>3. Faithful(AfterFailedSend(y))
      BY <2>3, RetriedFaithful DEF AfterFailedSend, Loaded
    <3> QED
      BY <3>2, <3>3
  <2>5. PICK x : Faithful(x) /\ Step(r, x)
    BY <1>6, <2>4 DEF Send
  <2> QED
    BY <1>2, <2>5, HandlerCopies
<1>7. CASE ReadBack(r)
  <2>1. q.op = "update"
    BY <1>7, HandlerAt DEF ReadBack, At, Sound, UpdateSteps
  <2> DEFINE x == [q EXCEPT !.pc = "cacheDel", !.data = ReadBackResult]
  <2>2. x.data = ReadBackResult /\ x.pc = "cacheDel" /\ x.op = q.op
    BY <1>1 DEF Handler
  <2>3. Faithful(x)
    BY <2>1, <2>2, FoundIsChainRound, LatestUncut DEF ReadBackResult, Faithful
  <2>4. PICK y : Faithful(y) /\ Step(r, y)
    BY <1>3, <1>7, <2>3 DEF ReadBack
  <2> QED
    BY <1>2, <2>4, HandlerCopies
<1> QED
  BY <1>4, <1>5, <1>6, <1>7

LEMMA CopiesStayFaithful ==
  ASSUME APIInv, ContractInv, IdsFit, CopyInv, [Next]_vars
  PROVE  CopyInv'
<1>1. req \in [Requests -> Handler]
  BY DEF APIInv, TypeOK
<1>2. Faithful(Idle)
  BY DEF Faithful, Idle, Loaded
<1>3. ASSUME NEW r \in Requests, Handle(r)
      PROVE  CopyInv'
  BY <1>3, ReadsFaithful, WritesFaithful, UpdatesFaithful DEF Handle
<1>4. ASSUME NEW r \in Requests, Arrive(r)
      PROVE  CopyInv'
  <2>1. PICK op, arg : Step(r, Arrived(op, arg))
    BY <1>4 DEF Arrive
  <2>2. Arrived(op, arg).data = NoData /\ Arrived(op, arg).pc \notin Loaded
    BY DEF Arrived, FirstCall, Loaded
  <2>3. Faithful(Arrived(op, arg))
    BY <2>2 DEF Faithful, Loaded
  <2> QED
    BY <1>4, <2>1, <2>3, HandlerCopies DEF Arrive
<1>5. ASSUME NEW r \in Requests, RefuseBadRequest(r)
      PROVE  CopyInv'
  <2>1. PICK op \in Workload[r] : Step(r, Replied([Idle EXCEPT !.op = op], 400))
    BY <1>5 DEF RefuseBadRequest
  <2> DEFINE y == [Idle EXCEPT !.op = op]
  <2>2. y \in Handler
    BY IdleSound, APIAssumption DEF Handler
  <2>3. y.data = NoData /\ y.pc = "idle"
    BY IdleSound DEF Idle
  <2>4. Faithful(y)
    BY <2>3 DEF Faithful, Loaded
  <2>5. Faithful(Replied(y, 400))
    BY <2>2, <2>4, RepliedFaithful
  <2> QED
    BY <1>5, <2>1, <2>5, HandlerCopies DEF RefuseBadRequest
<1>6. ASSUME NEW r \in Requests, Disconnect(r)
      PROVE  CopyInv'
  <2> DEFINE x == [req[r] EXCEPT !.live = FALSE]
  <2>1. x.data = req[r].data /\ x.pc = req[r].pc /\ x.op = req[r].op /\ x.arg = req[r].arg
    BY <1>1 DEF Handler
  <2>2. Faithful(x)
    BY <2>1 DEF CopyInv, Faithful
  <2>3. Step(r, x) /\ UNCHANGED storeVars
    BY <1>6 DEF Disconnect, Step
  <2> QED
    BY <2>2, <2>3, HandlerCopies
<1>7. CASE Crash
  <2>1. UNCHANGED <<cache, rows>> /\ \A r \in Requests : req'[r] = Idle
    BY <1>7 DEF Crash, storeVars
  <2> QED
    BY <1>2, <2>1, OldCopiesLast
<1>8. ASSUME NEW k \in Keys, Expire(k)
      PROVE  CopyInv'
  <2>1. \A j \in Keys : cache'[j] = cache[j] \/ CachedFaithful(j, cache'[j])
    BY <1>8 DEF Expire, APIInv, TypeOK, CachedFaithful
  <2>2. UNCHANGED <<rows, req>>
    BY <1>8 DEF Expire
  <2> QED
    BY <2>1, <2>2, OldCopiesLast
<1>9. CASE Mine \/ RunScript \/ UNCHANGED vars
  <2>1. UNCHANGED <<cache, rows, req>>
    BY <1>9 DEF Mine, RunScript, vars, storeVars
  <2> QED
    BY <2>1, OldCopiesLast
<1> QED
  BY <1>3, <1>4, <1>5, <1>6, <1>7, <1>8, <1>9 DEF Next

(* Rounds are only added: ids that fit after a step fitted before it.      *)
LEMMA IdsFitted ==
  ASSUME APIInv, ContractInv, [Next]_vars, IdsFit'
  PROVE  IdsFit
<1>1. /\ latestRoundId \in Nat /\ latestRoundId' \in Nat
      /\ latestRoundId' >= latestRoundId
  BY StepIsContractStep, RoundsLast, OracleAssumption DEF ContractInv, OracleTypeOK
<1>2. MaxUint64 \in Nat
  BY APIAssumption DEF MaxUint64
<1> QED
  BY <1>1, <1>2 DEF IdsFit

LEMMA CopyInvariance == Spec => [](IdsFit => CopyInv)
<1>1. Init => CopyInv
  BY IdleSound
     DEF Init, CopyInv, CachedFaithful, StoredFaithful, Faithful, Idle, Loaded
<1>2. APIInv /\ ContractInv /\ (IdsFit => CopyInv) /\ [Next]_vars
         => (IdsFit' => CopyInv')
  BY CopiesStayFaithful, IdsFitted
<1> QED
  BY <1>1, <1>2, Invariance, PTL DEF Spec

(* Whatever Redis, Postgres or a handler holds is a round of the contract, *)
(* value for value, under the id it is filed under, for as long as the     *)
(* contract's ids fit the uint64 they are kept in.                         *)
THEOREM CopiesFaithful == Spec => []EveryCopyIsAChainRound
<1>1. (IdsFit => CopyInv) => EveryCopyIsAChainRound
  BY DEF CopyInv, CachedFaithful, StoredFaithful, Faithful, EveryCopyIsAChainRound
<1> QED
  BY <1>1, CopyInvariance, PTL

(* Save is the only step that writes a row, and only where there is none.  *)
LEMMA RowsLast ==
  ASSUME APIInv, [Next]_vars, NEW id \in RoundIds, rows[id] # NoData
  PROVE  rows'[id] = rows[id] /\ rowTx'[id] = rowTx[id]
<1>1. ASSUME NEW r \in Requests, DbSave(r)
      PROVE  rows'[id] = rows[id] /\ rowTx'[id] = rowTx[id]
  BY <1>1 DEF DbSave, RowIds, Insertable, APIInv, TypeOK
<1>2. (\E r \in Requests : DbSave(r)) \/ UNCHANGED <<rows, rowTx>>
  BY DEF Next, Handle, Arrive, RefuseBadRequest, Disconnect, CacheGet, DbGet, RpcRead,
         CacheSet, CheckOwner, Prepare, Send, ReadBack, CacheDel, Expire, Crash, Mine,
         RunScript, storeVars, vars
<1> QED
  BY <1>1, <1>2
=============================================================================
