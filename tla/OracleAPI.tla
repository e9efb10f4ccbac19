------------------------------- MODULE OracleAPI -------------------------------
(***************************************************************************)
(* The HTTP handlers of go-client/api/handlers.go, run concurrently by     *)
(* net/http over one Redis cache, one Postgres table and one Ethereum node.*)
(* A handler is a sequence of calls to those services; each call is one    *)
(* action, and between two calls of one handler anything else may happen.  *)
(***************************************************************************)
EXTENDS OracleNode, FiniteSetsExt

CONSTANTS
    Requests,       \* slots in which a request may be in progress
    Workload,       \* the operations a slot serves
    AskedRounds,    \* ids asked of /round/{id}
    MaxInt64,       \* the largest id that the handler can pass to the contract
                    \* or the table's bigint column can hold
    ScriptAnswers,  \* what the owner publishes with script/Update.s.sol
    Faults          \* what may go wrong, out of FaultKinds

Ops == {"latest", "round", "update"}

\* The largest uint64, the type of the ids outside the contract.
MaxUint64 == 2 * MaxInt64 + 1

FaultKinds == {"redis", "postgres", "rpc", "reply", "client", "crash"}

ASSUME APIAssumption ==
    /\ Workload \in [Requests -> SUBSET Ops]
    /\ MaxInt64 \in Nat
    /\ AskedRounds \subseteq RoundIds \cap 0..MaxUint64
    /\ ScriptAnswers \subseteq Answers
    /\ Faults \subseteq FaultKinds

VARIABLES
    cache,          \* Redis: key -> round data
    rows,           \* oracle_rounds: primary key round_id -> round data
    rowTx,          \* its TxHash column
    req             \* what each handler is doing

storeVars == <<cache, rows, rowTx>>
vars == <<oracleVars, nodeVars, storeVars, req>>

MaxAttempts == 3

LatestKey == <<"latest", 0>>
RoundKey(id) == <<"round", id>>
Keys == {LatestKey} \cup {RoundKey(id) : id \in RoundIds}

\* A nil row, a cache miss, and the absence of a transaction.
NoData == [roundId |-> 0, answer |-> 0, startedAt |-> 0, updatedAt |-> 0,
           answeredInRound |-> 0]
NoTx == [nonce |-> 0, answer |-> 0, gasPrice |-> 0]

\* Order("round_id DESC").First
LatestRowId == Max({0} \cup {id \in RoundIds : rows[id] # NoData})
LatestRow == rows[LatestRowId]
-----------------------------------------------------------------------------
(***************************************************************************)
(* A handler: its next call, the operation and its argument, whether the   *)
(* client still waits (r.Context()), the attempt retry.Retry is making, the*)
(* round data in hand, the transaction last signed, those the node accepted*)
(* from it, and the HTTP status once it has replied.  `since' only records *)
(* how far the data had come on arrival.                                   *)
(***************************************************************************)
Idle == [pc |-> "idle", op |-> "none", arg |-> 0, live |-> FALSE, attempt |-> 0,
         data |-> NoData, tx |-> NoTx, sent |-> {}, status |-> 0, since |-> 0]

FirstCall(op) == IF op = "update" THEN "isOwner" ELSE "cacheGet"

Args(op) ==
    CASE op = "latest" -> {0}
      [] op = "round"  -> AskedRounds
      [] op = "update" -> Answers

\* How far the data to be read has come when the request arrives.
Since(op) ==
    CASE op = "latest" -> LatestRowId
      [] op = "update" -> latestRoundId
      [] op = "round"  -> 0

Arrived(op, arg) ==
    [pc |-> FirstCall(op), op |-> op, arg |-> arg, live |-> TRUE, attempt |-> 0,
     data |-> NoData, tx |-> NoTx, sent |-> {}, status |-> 0, since |-> Since(op)]

\* net/http cancels the request's context when the handler returns.
Replied(q, status) ==
    [q EXCEPT !.pc = "done", !.status = status, !.live = FALSE, !.attempt = 0]

\* A slip: rounds are cached under the key of the latest price.
KeyShared(q) == LatestKey

Key(q) == IF q.op = "latest" THEN LatestKey ELSE RoundKey(q.arg)

\* Every call but eth_sendRawTransaction carries the context of the request.
MayFail(q, service) == ~q.live \/ service \in Faults

\* Slips: one attempt too many, and attempts that are not counted.
RetriedOnceMore(q, first) ==
    IF q.live /\ q.attempt + 1 <= MaxAttempts
    THEN [q EXCEPT !.pc = first, !.attempt = @ + 1]
    ELSE Replied(q, 500)
RetriedUncounted(q, first) ==
    IF q.live THEN [q EXCEPT !.pc = first] ELSE Replied(q, 500)

(* retry.Retry after a failed attempt: back to the first call of the       *)
(* retried function, unless that was the last attempt or the context ended.*)
Retried(q, first) ==
    IF q.live /\ q.attempt + 1 < MaxAttempts
    THEN [q EXCEPT !.pc = first, !.attempt = @ + 1]
    ELSE Replied(q, 500)

At(r, pc) == req[r].pc = pc
Step(r, q) == req' = [req EXCEPT ![r] = q]
-----------------------------------------------------------------------------
Arrive(r) ==
    /\ req[r].pc \in {"idle", "done"}
    /\ \E op \in Workload[r] : \E arg \in Args(op) : Step(r, Arrived(op, arg))
    /\ UNCHANGED <<oracleVars, nodeVars, storeVars>>

\* An id or answer that does not parse is refused before any call.
RefuseBadRequest(r) ==
    /\ req[r].pc \in {"idle", "done"}
    /\ \E op \in Workload[r] \ {"latest"} : Step(r, Replied([Idle EXCEPT !.op = op], 400))
    /\ UNCHANGED <<oracleVars, nodeVars, storeVars>>

CacheGet(r) ==
    /\ At(r, "cacheGet")
    /\ LET q == req[r]
           found == cache[Key(q)]
       IN  \/ q.live /\ found # NoData /\ Step(r, Replied([q EXCEPT !.data = found], 200))
           \/ q.live /\ found = NoData /\ Step(r, [q EXCEPT !.pc = "dbGet"])
           \/ MayFail(q, "redis") /\ Step(r, [q EXCEPT !.pc = "dbGet"])
    /\ UNCHANGED <<oracleVars, nodeVars, storeVars>>

\* A slip: Order("round_id") without DESC.
DbLookupOldest(q) ==
    IF q.op = "latest" /\ LatestRowId # 0
    THEN rows[Min({id \in RoundIds : rows[id] # NoData})]
    ELSE rows[q.arg]

\* GetLatest or GetByRoundID; gorm.ErrRecordNotFound is a nil row.
DbLookup(q) == IF q.op = "latest" THEN LatestRow ELSE rows[q.arg]

DbGet(r) ==
    /\ At(r, "dbGet")
    /\ LET q == req[r]
           row == DbLookup(q)
       IN  \/ q.live /\ row # NoData /\ Step(r, [q EXCEPT !.pc = "fillCache", !.data = row])
           \/ q.live /\ row = NoData /\ Step(r, [q EXCEPT !.pc = "rpcRead"])
           \/ MayFail(q, "postgres") /\ Step(r, [q EXCEPT !.pc = "rpcRead"])
    /\ UNCHANGED <<oracleVars, nodeVars, storeVars>>

\* A slip: ParseInt with its range error ignored, which gives the largest int64.
ChainIdClamped(id) == IF id <= MaxInt64 THEN id ELSE MaxInt64

\* big.NewInt(int64(roundId)): from 2^63 on the id asked of the contract is negative.
ChainId(id) == IF id <= MaxInt64 THEN id ELSE id - (MaxUint64 + 1)

\* A slip: the ids are kept as int64, the sign dropped.
Uint64AsInt64(id) == id % (MaxInt64 + 1)

\* (*big.Int).Uint64(): of a uint80 only the low 64 bits are left.
Uint64(id) == id % (MaxUint64 + 1)

(* The reader's call for this request, when the binding can encode the id  *)
(* (a negative one is no uint80) and the contract does not revert.         *)
RpcFinds(q) ==
    q.op = "round" => ChainId(q.arg) \in RoundIds /\ RoundFound(ChainId(q.arg))

\* The latest round as the handlers keep it.
LatestResult ==
    [LatestRoundData EXCEPT !.roundId = Uint64(@), !.answeredInRound = Uint64(@)]

\* The reply to /round/{id} carries the id that was asked.
RpcResult(q) ==
    IF q.op = "round"
    THEN [GetRoundData(ChainId(q.arg)) EXCEPT !.roundId = q.arg,
                                              !.answeredInRound = Uint64(@)]
    ELSE LatestResult

RpcRead(r) ==
    /\ At(r, "rpcRead")
    /\ LET q == req[r]
       IN  \/ /\ q.live /\ RpcFinds(q)
              /\ Step(r, [q EXCEPT !.pc = "cacheSet", !.data = RpcResult(q)])
           \/ (MayFail(q, "rpc") \/ ~RpcFinds(q)) /\ Step(r, Retried(q, "rpcRead"))
    /\ UNCHANGED <<oracleVars, nodeVars, storeVars>>

(* The error of cache.Set is dropped.  After a database hit the handler    *)
(* replies; after an RPC read it goes on to save.                          *)
CacheSet(r) ==
    /\ req[r].pc \in {"fillCache", "cacheSet"}
    /\ LET q == req[r]
       IN  /\ \/ q.live /\ cache' = [cache EXCEPT ![Key(q)] = q.data]
              \/ MayFail(q, "redis") /\ UNCHANGED cache
           /\ IF q.pc = "fillCache"
              THEN Step(r, Replied(q, 200))
              ELSE Step(r, [q EXCEPT !.pc = "dbSave"])
    /\ UNCHANGED <<oracleVars, nodeVars, rows, rowTx>>

(* A zero primary key, which only truncation can make, is taken by gorm for*)
(* an unset one, and the column's sequence, whose state is not modelled,   *)
(* gives the row another.                                                  *)
RowIds(id) == IF id = 0 THEN RoundIds \ {0} ELSE {id}

(* Create inserts: a primary key conflict, or an id too large for a bigint,*)
(* is an error, and the table stays.                                       *)
Insertable(id) == id <= MaxInt64 /\ rows[id] = NoData

DbSave(r) ==
    /\ At(r, "dbSave")
    /\ LET q == req[r]
       IN  /\ \E id \in RowIds(q.data.roundId) :
                 \/ /\ q.live /\ Insertable(id)
                    /\ rows' = [rows EXCEPT ![id] = [q.data EXCEPT !.roundId = id]]
                    /\ rowTx' = [rowTx EXCEPT ![id] = q.tx]
                 \/ (MayFail(q, "postgres") \/ ~Insertable(id)) /\ UNCHANGED <<rows, rowTx>>
           /\ Step(r, Replied(q, 200))
    /\ UNCHANGED <<oracleVars, nodeVars, cache>>

\* A slip: the owner is not compared.
IsOwnerSkipped == TRUE

IsOwner == owner = Server

CheckOwner(r) ==
    /\ At(r, "isOwner")
    /\ LET q == req[r]
       IN  \/ q.live /\ IsOwner /\ Step(r, [q EXCEPT !.pc = "prepare"])
           \/ q.live /\ ~IsOwner /\ Step(r, Replied(q, 401))
           \/ MayFail(q, "rpc") /\ Step(r, Replied(q, 500))
    /\ UNCHANGED <<oracleVars, nodeVars, storeVars>>

\* A slip: PendingNonceAt, which counts the pending transactions as well.
NonceToUsePending == IF pool = {} THEN nonce ELSE nonce + 1

\* NonceAt(fromAddress, nil): the count of mined, not pending, transactions.
NonceToUse == nonce

Prepare(r) ==
    /\ At(r, "prepare")
    /\ LET q == req[r]
       IN  \/ /\ q.live
              /\ \E price \in GasPrices :
                    Step(r, [q EXCEPT !.pc = "send",
                                !.tx = [nonce |-> NonceToUse, answer |-> q.arg,
                                        gasPrice |-> price]])
           \/ MayFail(q, "rpc") /\ Step(r, Retried(q, "prepare"))
    /\ UNCHANGED <<oracleVars, nodeVars, storeVars>>

Accepted(q) == [q EXCEPT !.sent = @ \cup {q.tx}]
AfterSend(q) == [q EXCEPT !.pc = "readBack", !.attempt = 0]

\* A slip: the error of UpdateAnswer is not returned.
AfterFailedSendIgnored(q) == AfterSend(q)

AfterFailedSend(q) == Retried(q, "prepare")

(* auth.Context is not set, so the send goes out even for a client that has*)
(* left.  The node's answer may be lost after it took the transaction.     *)
Send(r) ==
    /\ At(r, "send")
    /\ LET q == req[r]
       IN  \/ /\ Acceptable(q.tx)
              /\ pool' = PoolWith(q.tx)
              /\ \/ Step(r, AfterSend(Accepted(q)))
                 \/ "reply" \in Faults /\ Step(r, AfterFailedSend(Accepted(q)))
           \/ /\ ~Acceptable(q.tx) /\ Step(r, AfterFailedSend(q))
              /\ UNCHANGED pool
           \/ /\ "rpc" \in Faults /\ Step(r, AfterFailedSend(q))
              /\ UNCHANGED pool
    /\ UNCHANGED <<oracleVars, nonce, receipts, storeVars>>

\* A slip: the table is read in place of the chain.
ReadBackResultStored == IF LatestRow # NoData THEN LatestRow ELSE LatestResult

\* The round data read right after the send.
ReadBackResult == LatestResult

ReadBack(r) ==
    /\ At(r, "readBack")
    /\ LET q == req[r]
       IN  \/ q.live /\ Step(r, [q EXCEPT !.pc = "cacheDel", !.data = ReadBackResult])
           \/ MayFail(q, "rpc") /\ Step(r, Retried(q, "readBack"))
    /\ UNCHANGED <<oracleVars, nodeVars, storeVars>>

CacheDel(r) ==
    /\ At(r, "cacheDel")
    /\ LET q == req[r]
       IN  /\ \/ q.live /\ cache' = [cache EXCEPT ![LatestKey] = NoData]
              \/ MayFail(q, "redis") /\ UNCHANGED cache
           /\ Step(r, [q EXCEPT !.pc = "dbSave"])
    /\ UNCHANGED <<oracleVars, nodeVars, rows, rowTx>>
-----------------------------------------------------------------------------
\* A slip: the latest price is cached without a TTL.
ExpireRoundsOnly(k) ==
    /\ k # LatestKey /\ cache[k] # NoData
    /\ cache' = [cache EXCEPT ![k] = NoData]
    /\ UNCHANGED <<oracleVars, nodeVars, rows, rowTx, req>>

\* The 10-second TTL runs out, or Redis evicts the entry.
Expire(k) ==
    /\ cache[k] # NoData
    /\ cache' = [cache EXCEPT ![k] = NoData]
    /\ UNCHANGED <<oracleVars, nodeVars, rows, rowTx, req>>

Disconnect(r) ==
    /\ "client" \in Faults /\ req[r].live
    /\ req' = [req EXCEPT ![r].live = FALSE]
    /\ UNCHANGED <<oracleVars, nodeVars, storeVars>>

\* The process dies and is started again; Redis, Postgres and the node stay.
Crash ==
    /\ "crash" \in Faults
    /\ \E r \in Requests : req[r].live
    /\ req' = [r \in Requests |-> Idle]
    /\ UNCHANGED <<oracleVars, nodeVars, storeVars>>

Mine == \E tx \in pool : MineTx(tx) /\ UNCHANGED <<storeVars, req>>

RunScript == \E a \in ScriptAnswers : ScriptUpdate(a) /\ UNCHANGED <<storeVars, req>>

Handle(r) ==
    \/ CacheGet(r) \/ DbGet(r) \/ RpcRead(r) \/ CacheSet(r) \/ DbSave(r)
    \/ CheckOwner(r) \/ Prepare(r) \/ Send(r) \/ ReadBack(r) \/ CacheDel(r)

Init ==
    /\ OracleInit
    /\ NodeInit
    /\ cache = [k \in Keys |-> NoData]
    /\ rows = [id \in RoundIds |-> NoData]
    /\ rowTx = [id \in RoundIds |-> NoTx]
    /\ req = [r \in Requests |-> Idle]

Next ==
    \/ \E r \in Requests : Arrive(r) \/ RefuseBadRequest(r) \/ Handle(r) \/ Disconnect(r)
    \/ \E k \in Keys : Expire(k)
    \/ Crash
    \/ Mine
    \/ RunScript

Spec == Init /\ [][Next]_vars

(* net/http runs every handler to its end and every call returns; entries  *)
(* expire; the node mines what it has accepted.  Nobody has to send        *)
(* requests or run the script.                                             *)
Fairness ==
    /\ \A r \in Requests : WF_vars(Handle(r))
    /\ \A k \in Keys : WF_vars(Expire(k))
    /\ WF_vars(Mine)

FairSpec == Spec /\ Fairness
-----------------------------------------------------------------------------
Reply == [roundId : RoundIds, answer : Int, startedAt : Nat, updatedAt : Nat,
          answeredInRound : RoundIds]
Steps == {"idle", "done", "cacheGet", "dbGet", "fillCache", "rpcRead", "cacheSet", "dbSave",
          "isOwner", "prepare", "send", "readBack", "cacheDel"}
Handler == [pc : Steps, op : Ops \cup {"none"}, arg : Answers \cup RoundIds,
            live : BOOLEAN, attempt : 0..MaxAttempts-1, data : Reply,
            tx : Tx \cup {NoTx}, sent : SUBSET Tx, status : {0, 200, 400, 401, 500},
            since : RoundIds]

TypeOK ==
    /\ NodeTypeOK
    /\ cache \in [Keys -> Reply]
    /\ rows \in [RoundIds -> Reply]
    /\ rowTx \in [RoundIds -> Tx \cup {NoTx}]
    /\ req \in [Requests -> Handler]

\* d is a round of the contract, with the values the contract holds for it now.
IsChainRound(d) == d.roundId \in 1..latestRoundId /\ d = GetRoundData(d.roundId)

\* The ids in use fit the uint64 that Redis, Postgres and the replies hold.
IdsFit == latestRoundId <= MaxUint64

(* Whatever Redis, Postgres or a handler holds is a round the contract has *)
(* published, value for value, and a row or a "round:<id>" entry is the    *)
(* round it is filed under.  Nothing is ever reread from the chain, so one *)
(* bad copy would be served for good.  It holds until round 2^64, whose id *)
(* is cut off (handlers.go:108) and whose data passes for another round's. *)
EveryCopyIsAChainRound ==
  IdsFit =>
    /\ \A k \in Keys : cache[k] # NoData =>
          IsChainRound(cache[k]) /\ (k # LatestKey => k = RoundKey(cache[k].roundId))
    /\ \A id \in RoundIds : rows[id] # NoData =>
          IsChainRound(rows[id]) /\ rows[id].roundId = id
    /\ \A r \in Requests : req[r].data # NoData => IsChainRound(req[r].data)

(* Past the cache, a request for the latest price is answered with a round *)
(* no older than the table's newest row when it arrived, and an update     *)
(* reports a round no older than the chain's latest when it arrived; until *)
(* round 2^64, whose id is cut off.                                        *)
NeverBehindArrival ==
    IdsFit => \A r \in Requests :
        req[r].pc \in {"fillCache", "cacheSet", "cacheDel", "dbSave"} =>
            req[r].data.roundId >= req[r].since

(* A transaction the server sent reverts only for an answer the contract   *)
(* refuses, or at the last round id: the owner was checked and cannot      *)
(* change.  One that succeeded put its positive answer in a round, and no  *)
(* two succeeded in the same round.                                        *)
ReceiptsMatchRounds ==
    \A x \in receipts :
        /\ x.round = 0 => x.tx.answer <= 0 \/ latestRoundId = MaxRoundId
        /\ x.round # 0 => x.tx.answer > 0 /\ rounds[x.round].answer = x.tx.answer
        /\ \A y \in receipts : x.round = y.round /\ x.round # 0 => x = y

\* The nonce of tx has been used, or tx is pending or outbid by a dearer one.
Accounted(tx) ==
    \/ tx.nonce < nonce
    \/ \E p \in pool : p.nonce = tx.nonce /\ p.gasPrice >= tx.gasPrice

(* Every transaction the node took from a handler has had its nonce used   *)
(* or is still pending, itself or outbid by a dearer one with its nonce;   *)
(* an update that replied 200 did send the transaction it names.           *)
AcknowledgedTxAccounted ==
    \A r \in Requests :
        /\ \A tx \in req[r].sent : Accounted(tx)
        /\ req[r].op = "update" /\ req[r].status = 200 => req[r].tx \in req[r].sent

(* "Update price with retry": a retry may publish again what was published, *)
(* since the node's answer can be lost, but a request has no more accepted *)
(* transactions than attempts, each with the answer that was asked for.    *)
SendsBounded ==
    \A r \in Requests :
        /\ Cardinality(req[r].sent) <= MaxAttempts
        /\ \A tx \in req[r].sent : tx.answer = req[r].arg

(* The calls a handler still makes when all that can fail does, and late.  *)
(* "prepare" is two calls, NonceAt and SuggestGasPrice.                    *)
CallsLeft(q) ==
    LET retries == MaxAttempts - 1 - q.attempt
    IN  CASE q.pc = "isOwner" -> 3 + 4 * MaxAttempts
          [] q.pc = "prepare" -> 5 + MaxAttempts + 3 * retries
          [] q.pc = "send" -> 3 + MaxAttempts + 3 * retries
          [] q.pc = "cacheGet" -> 4 + MaxAttempts
          [] q.pc = "dbGet" -> 3 + MaxAttempts
          [] q.pc \in {"rpcRead", "readBack"} -> 3 + retries
          [] q.pc \in {"cacheSet", "cacheDel"} -> 2
          [] q.pc \in {"fillCache", "dbSave"} -> 1
          [] OTHER -> 0

(* No call is in vain: whichever way one ends, the calls left are fewer,   *)
(* in the first loop of retry.Retry, in the second, and from one to the    *)
(* other.  So seven calls answer a read and fifteen an update.             *)
HandlersAdvance ==
    [][\A r \in Requests :
          /\ req[r].pc \notin {"idle", "done"}
          /\ req'[r] \notin {req[r], [req[r] EXCEPT !.live = FALSE]}
          => CallsLeft(req'[r]) < CallsLeft(req[r])]_vars

(* The TxHash column may name a transaction of another round than its row's*)
(* and may stay empty when a reader saved the round first; but a hash that *)
(* is written there is that of a transaction which the node took from the  *)
(* request in progress, and it is in no other row.                         *)
RowHashesWereSent ==
    [][\A id \in RoundIds : rowTx'[id] # rowTx[id] /\ rowTx'[id] # NoTx =>
          /\ \E r \in Requests : req[r].pc = "dbSave" /\ rowTx'[id] \in req[r].sent
          /\ \A other \in RoundIds : rowTx[other] # rowTx'[id]]_vars

\* A handler as its client sees it.
ClientView(q) ==
    CASE q.pc = "idle" -> [state |-> "away"]
      [] q.pc = "done" /\ q.status # 200 -> [state |-> "refused"]
      [] q.pc = "done" /\ q.status = 200 ->
            [state |-> "answered", op |-> q.op, arg |-> q.arg, id |-> q.data.roundId,
             entry |-> [answer |-> q.data.answer, at |-> q.data.updatedAt]]
      [] OTHER -> [state |-> "waiting", op |-> q.op, arg |-> q.arg]

Service ==
    INSTANCE OracleService WITH
        feed <- FeedView,
        client <- [r \in Requests |-> ClientView(req[r])],
        Clients <- Requests, Operations <- Ops,
        Arguments <- Answers \cup AskedRounds \cup {0},
        LargestId <- MaxUint64

(* To its clients the API is the service of OracleService: every reply is  *)
(* a published entry of the feed, and a round reply is the round asked, as *)
(* long as the ids of the feed fit a uint64.                               *)
ImplementsService == Service!ServiceSpec

(* Every request is answered, whatever fails and for however long.         *)
EveryRequestAnswered ==
    \A r \in Requests : req[r].pc # "idle" ~> req[r].pc \in {"done", "idle"}

(* A fill that was in flight while a newer round was saved can leave the   *)
(* older one in the cache; the TTL sees to it that the cached latest price *)
(* catches up with the newest round any handler has stored.                *)
CacheCatchesUpWithTable ==
    \A id \in RoundIds :
        rows[id] # NoData ~>
            [](cache[LatestKey] # NoData => cache[LatestKey].roundId >= id)
-----------------------------------------------------------------------------
(***************************************************************************)
(* Claims of the documentation and the comments that the code does not keep*)
(***************************************************************************)

(* "Get updated data with retry": the reply to an update that published    *)
(* alone carries the round its transaction made.                           *)
UpdateReturnsItsRound ==
    \A r \in Requests : req[r].op = "update" /\ req[r].status = 200 =>
        \E x \in receipts : x.tx = req[r].tx /\ x.round = req[r].data.roundId

(* "Update price with retry": a retried update is one update, so no two    *)
(* transactions of one request are mined.                                  *)
UpdateOnce ==
    \A r \in Requests : \A x, y \in receipts :
        x.tx \in req[r].sent /\ y.tx \in req[r].sent => x = y

(* "POST /updatePrice - Update price": an update that replied 200 with the  *)
(* hash of its transaction is mined or still waiting to be.                *)
AcknowledgedUpdateSurvives ==
    \A r \in Requests :
        req[r].op = "update" /\ req[r].status = 200 =>
            req[r].tx \in pool \cup {x.tx : x \in receipts}

\* What GET /latestPrice answers when every service responds.
WouldServe ==
    IF cache[LatestKey] # NoData THEN cache[LatestKey]
    ELSE IF LatestRow # NoData THEN LatestRow
    ELSE LatestRoundData

(* "Get latest price (cached)", with a ten-second TTL: a round the chain   *)
(* has published is in the end what the API serves, or a later one is.     *)
ServesChainLatest ==
    \A id \in RoundIds : id <= latestRoundId ~> WouldServe.roundId >= id
=============================================================================
