---------------------------- MODULE ServiceProofs ----------------------------
(***************************************************************************)
(* Theorems about what clients of the API are told: data no older than     *)
(* what was there when they asked, and nothing but the service that        *)
(* OracleService promises; for any number of requests and any faults.      *)
(***************************************************************************)
EXTENDS OracleAPIProofs

(* The table has a row n, or a newer one.                                  *)
HasRow(n) == n = 0 \/ \E id \in RoundIds : rows[id] # NoData /\ id >= n

(* What was there when a request arrived is there until its end.           *)
Reached(q) ==
    q.pc \notin {"idle", "done"} =>
        /\ q.op = "latest" => HasRow(q.since)
        /\ q.op = "update" => q.since <= latestRoundId
        /\ q.op = "round" => q.since = 0

Current(q) == q.pc \in Loaded => q.data.roundId >= q.since

FreshInv == \A r \in Requests : Reached(req[r]) /\ Current(req[r])

LEMMA ReachedLasts ==
  ASSUME APIInv, ContractInv, [Next]_vars, NEW q \in Handler, Reached(q)
  PROVE  Reached(q)'
<1>1. latestRoundId' >= latestRoundId /\ latestRoundId' \in Nat /\ latestRoundId \in Nat
  BY StepIsContractStep, RoundsLast, OracleAssumption DEF ContractInv, OracleTypeOK
<1>2. \A id \in RoundIds : rows[id] # NoData => rows'[id] = rows[id]
  BY RowsLast
<1>3. HasRow(q.since) => HasRow(q.since)'
  BY <1>2 DEF HasRow
<1>4. q.since \in Nat
  BY OracleAssumption DEF Handler, RoundIds
<1> QED
  BY <1>1, <1>3, <1>4 DEF Reached

(* x is a later state of the handler q, with nothing stale to store.       *)
Onward(q, x) ==
    /\ x.op = q.op /\ x.since = q.since
    /\ x.pc \in Loaded => x.data.roundId >= x.since

LEMMA RepliedOnward ==
  ASSUME NEW q \in Handler, NEW status
  PROVE  Onward(q, Replied(q, status))
BY DEF Replied, Handler, Onward, Loaded

LEMMA RetriedOnward ==
  ASSUME NEW q \in Handler, NEW first, first \notin Loaded
  PROVE  Onward(q, Retried(q, first))
<1>1. CASE q.live /\ q.attempt + 1 < MaxAttempts
  BY <1>1 DEF Retried, Handler, Onward
<1>2. CASE ~(q.live /\ q.attempt + 1 < MaxAttempts)
  BY <1>2, RepliedOnward DEF Retried
<1> QED
  BY <1>1, <1>2

(* The data that the read path loads is as new as the request's arrival.   *)
LEMMA ReadsOnward ==
  ASSUME APIInv, ContractInv, IdsFit, CopyInv, FreshInv, NEW r \in Requests,
         CacheGet(r) \/ DbGet(r) \/ RpcRead(r) \/ CacheSet(r)
  PROVE  \E x : Step(r, x) /\ Onward(req[r], x)
<1> DEFINE q == req[r]
<1>1. q \in Handler /\ Sound(q) /\ Reached(q) /\ Current(q) /\ q.since \in Nat
  BY HandlerAt, OracleAssumption DEF FreshInv, Handler, RoundIds
<1>2. latestRoundId \in 1..MaxRoundId
  BY DEF ContractInv, OracleTypeOK
<1>3. CASE CacheGet(r)
  <2>1. \A d : LET x == Replied([q EXCEPT !.data = d], 200) IN Onward(q, x)
    BY <1>1 DEF Replied, Handler, Onward, Loaded
  <2>2. Onward(q, [q EXCEPT !.pc = "dbGet"])
    BY <1>1 DEF Handler, Onward, Loaded
  <2> QED
    BY <1>3, <2>1, <2>2 DEF CacheGet
<1>4. CASE DbGet(r)
  <2> DEFINE row == DbLookup(q)
  <2>1. q.pc = "dbGet" /\ q.op \in {"latest", "round"}
    BY <1>1, <1>4 DEF DbGet, At, Sound, ReadSteps
  <2>2. row # NoData => row.roundId >= q.since
    <3>1. CASE q.op = "latest"
      <4>1. LatestRowId \in RoundIds /\ IsNewest(LatestRowId)
        BY NewestRow DEF APIInv
      <4>2. LatestRowId >= q.since
        BY <1>1, <2>1, <3>1, <4>1, OracleAssumption DEF Reached, HasRow, IsNewest, RoundIds
      <4>3. row = rows[LatestRowId]
        BY <3>1 DEF DbLookup, LatestRow
      <4>4. row # NoData => row.roundId = LatestRowId
        BY <4>1, <4>3 DEF CopyInv, StoredFaithful
      <4> QED
        BY <4>2, <4>4
    <3>2. CASE q.op = "round"
      <4>1. q.since = 0 /\ q.arg \in RoundIds /\ row = rows[q.arg]
        BY <1>1, <2>1, <3>2, APIAssumption DEF Reached, DbLookup, Sound, ReadSteps, Args
      <4>2. rows[q.arg] \in Reply
        BY <4>1 DEF APIInv, TypeOK
      <4>3. row.roundId \in Nat
        BY <4>1, <4>2, OracleAssumption DEF Reply, RoundIds
      <4> QED
        BY <4>1, <4>3
    <3> QED
      BY <2>1, <3>1, <3>2
  <2> HIDE DEF row
  <2>3. row # NoData => Onward(q, [q EXCEPT !.pc = "fillCache", !.data = row])
    BY <1>1, <2>2 DEF Handler, Onward
  <2>4. Onward(q, [q EXCEPT !.pc = "rpcRead"])
    BY <1>1 DEF Handler, Onward, Loaded
  <2> QED
    BY <1>4, <2>3, <2>4 DEF DbGet, row
<1>5. CASE RpcRead(r)
  <2> DEFINE result == RpcResult(q)
  <2>1. q.pc = "rpcRead" /\ q.op \in {"latest", "round"}
    BY <1>1, <1>5 DEF RpcRead, At, Sound, ReadSteps
  <2>2. RpcFinds(q) => result.roundId >= q.since
    <3>1. CASE q.op = "latest"
      <4>1. result.roundId = latestRoundId
        BY <3>1, LatestUncut DEF RpcResult, LatestRoundData, GetRoundData
      <4>2. \A id \in RoundIds : rows[id] # NoData => id <= latestRoundId
        BY <1>2, OracleAssumption DEF CopyInv, StoredFaithful, IsChainRound
      <4> QED
        BY <1>1, <1>2, <2>1, <3>1, <4>1, <4>2, OracleAssumption DEF Reached, HasRow, RoundIds
    <3>2. CASE q.op = "round"
      <4>1. q.since = 0 /\ q.arg \in AskedRounds /\ q.arg \in RoundIds
        BY <1>1, <2>1, <3>2, APIAssumption DEF Reached, Sound, ReadSteps, Args
      <4> QED
        BY <3>2, <4>1, FoundIsAsked, OracleAssumption DEF GetRoundData, RoundIds
    <3> QED
      BY <2>1, <3>1, <3>2
  <2> HIDE DEF result
  <2>3. RpcFinds(q) => Onward(q, [q EXCEPT !.pc = "cacheSet", !.data = result])
    BY <1>1, <2>2 DEF Handler, Onward
  <2>4. Onward(q, Retried(q, "rpcRead"))
    BY <1>1, RetriedOnward DEF Loaded
  <2> QED
    BY <1>5, <2>3, <2>4 DEF RpcRead, result
<1>6. CASE CacheSet(r)
  <2>1. q.pc \in Loaded
    BY <1>6 DEF CacheSet, Loaded
  <2>2. Onward(q, [q EXCEPT !.pc = "dbSave"])
    BY <1>1, <2>1 DEF Handler, Onward, Current
  <2> QED
    BY <1>1, <1>6, <2>2, RepliedOnward DEF CacheSet
<1> QED
  BY <1>3, <1>4, <1>5, <1>6

LEMMA UpdatesOnward ==
  ASSUME APIInv, ContractInv, IdsFit, FreshInv, NEW r \in Requests,
         CheckOwner(r) \/ Prepare(r) \/ Send(r) \/ ReadBack(r) \/ CacheDel(r) \/ DbSave(r)
  PROVE  \E x : Step(r, x) /\ Onward(req[r], x)
<1> DEFINE q == req[r]
<1>1. q \in Handler /\ Sound(q) /\ Reached(q) /\ Current(q) /\ q.since \in Nat
  BY HandlerAt, OracleAssumption DEF FreshInv, Handler, RoundIds
<1>2. CASE CheckOwner(r)
  <2>1. Onward(q, [q EXCEPT !.pc = "prepare"])
    BY <1>1 DEF Handler, Onward, Loaded
  <2>2. Onward(q, Replied(q, 401)) /\ Onward(q, Replied(q, 500))
    BY <1>1, RepliedOnward
  <2>3. \/ Step(r, [q EXCEPT !.pc = "prepare"])
        \/ Step(r, Replied(q, 401)) \/ Step(r, Replied(q, 500))
    BY <1>2 DEF CheckOwner
  <2> QED
    BY <2>1, <2>2, <2>3
<1>3. CASE Prepare(r)
  <2>1. \A tx : Onward(q, [q EXCEPT !.pc = "send", !.tx = tx])
    BY <1>1 DEF Handler, Onward, Loaded
  <2>2. Onward(q, Retried(q, "prepare"))
    BY <1>1, RetriedOnward DEF Loaded
  <2> QED
    BY <1>3, <2>1, <2>2 DEF Prepare
<1>4. CASE Send(r)
  <2> DEFINE a == Accepted(q)
  <2>1. a \in Handler /\ a.op = q.op /\ a.since = q.since
    <3>1. q.tx \in Tx /\ q.sent \cup {q.tx} \in SUBSET Tx
      BY <1>1, <1>4 DEF Send, At, Sound, Handler
    <3>2. a \in Handler
      BY <1>1, <3>1, Setters DEF Accepted
    <3> QED
      BY <1>1, <3>2 DEF Accepted, Handler
  <2>2. Onward(q, AfterFailedSend(q))
    BY <1>1, RetriedOnward DEF AfterFailedSend, Loaded
  <2> HIDE DEF a
  <2>3. Onward(q, AfterFailedSend(a))
    <3>1. Onward(a, AfterFailedSend(a))
      BY <2>1, RetriedOnward DEF AfterFailedSend, Loaded
    <3> QED
      BY <2>1, <3>1 DEF Onward
  <2>4. Onward(q, AfterSend(a))
    BY <2>1 DEF AfterSend, Handler, Onward, Loaded
  <2> QED
    BY <1>4, <2>2, <2>3, <2>4 DEF Send, a
<1>5. CASE ReadBack(r)
  <2> DEFINE result == ReadBackResult
  <2>1. q.pc = "readBack" /\ q.op = "update"
    BY <1>1, <1>5 DEF ReadBack, At, Sound, UpdateSteps
  <2>2. result.roundId >= q.since
    BY <1>1, <2>1, LatestUncut DEF Reached, ReadBackResult, LatestRoundData, GetRoundData
  <2> HIDE DEF result
  <2>3. Onward(q, [q EXCEPT !.pc = "cacheDel", !.data = result])
    BY <1>1, <2>2 DEF Handler, Onward
  <2>4. Onward(q, Retried(q, "readBack"))
    BY <1>1, RetriedOnward DEF Loaded
  <2> QED
    BY <1>5, <2>3, <2>4 DEF ReadBack, result
<1>6. CASE CacheDel(r)
  <2>1. q.pc \in Loaded
    BY <1>6 DEF CacheDel, At, Loaded
  <2>2. Onward(q, [q EXCEPT !.pc = "dbSave"])
    BY <1>1, <2>1 DEF Handler, Onward, Current
  <2> QED
    BY <1>6, <2>2 DEF CacheDel
<1>7. CASE DbSave(r)
  BY <1>1, <1>7, RepliedOnward DEF DbSave
<1> QED
  BY <1>2, <1>3, <1>4, <1>5, <1>6, <1>7
-----------------------------------------------------------------------------
LEMMA FreshStays ==
  ASSUME APIInv, ContractInv, IdsFit, CopyInv, FreshInv, [Next]_vars
  PROVE  FreshInv'
<1>1. \A r \in Requests : req[r] \in Handler /\ Reached(req[r]) /\ Current(req[r])
  BY HandlerAt DEF FreshInv
<1>2. APIInv'
  BY StepKeeps
<1>3. ASSUME \A r \in Requests : req'[r] = req[r] \/ (Current(req'[r]) /\ Reached(req'[r]))
      PROVE  FreshInv'
  <2>1. \A r \in Requests : req'[r] \in Handler
    BY <1>2 DEF APIInv, TypeOK
  <2>2. \A r \in Requests : Reached(req'[r]) => Reached(req[r])'
    <3> TAKE r \in Requests
    <3>1. PICK x \in Handler : x = req'[r]
      BY <2>1
    <3>2. Reached(x) => Reached(x)'
      BY ReachedLasts
    <3> QED
      BY <3>1, <3>2 DEF Reached, HasRow
  <2>3. \A r \in Requests : Current(req'[r]) /\ Reached(req'[r])
    BY <1>1, <1>3
  <2> QED
    BY <2>2, <2>3 DEF FreshInv, Current
<1>4. ASSUME NEW r \in Requests, NEW x, Step(r, x), Current(x), Reached(x)
      PROVE  FreshInv'
  BY <1>3, <1>4 DEF Step, APIInv, TypeOK
<1>5. ASSUME NEW r \in Requests, Handle(r)
      PROVE  FreshInv'
  <2>1. req[r].pc \notin {"idle", "done"}
    BY <1>5 DEF Handle, CacheGet, DbGet, RpcRead, CacheSet, DbSave, CheckOwner, Prepare, Send,
                ReadBack, CacheDel, At
  <2>2. PICK x : Step(r, x) /\ Onward(req[r], x)
    BY <1>5, ReadsOnward, UpdatesOnward DEF Handle
  <2>3. Current(x) /\ Reached(x)
    BY <1>1, <2>1, <2>2 DEF Onward, Current, Reached
  <2> QED
    BY <1>4, <2>2, <2>3
<1>6. ASSUME NEW r \in Requests, Arrive(r)
      PROVE  FreshInv'
  <2>1. PICK op \in Workload[r] : \E arg \in Args(op) : Step(r, Arrived(op, arg))
    BY <1>6 DEF Arrive
  <2>2. PICK arg \in Args(op) : Step(r, Arrived(op, arg))
    BY <2>1
  <2> DEFINE x == Arrived(op, arg)
  <2>3. x.op = op /\ x.since = Since(op) /\ x.pc \notin Loaded
    BY DEF Arrived, FirstCall, Loaded
  <2>4. HasRow(LatestRowId)
    BY NewestRow, OracleAssumption DEF APIInv, HasRow, IsNewest, RoundIds
  <2>5. latestRoundId <= latestRoundId
    BY DEF ContractInv, OracleTypeOK
  <2>6. Current(x) /\ Reached(x)
    BY <2>3, <2>4, <2>5 DEF Current, Reached, Since
  <2> QED
    BY <1>4, <2>2, <2>6
<1>7. ASSUME NEW r \in Requests, RefuseBadRequest(r)
      PROVE  FreshInv'
  <2>1. PICK op : Step(r, Replied([Idle EXCEPT !.op = op], 400))
    BY <1>7 DEF RefuseBadRequest
  <2> DEFINE x == Replied([Idle EXCEPT !.op = op], 400)
  <2>2. x.pc = "done"
    BY DEF Replied, Idle
  <2>3. Current(x) /\ Reached(x)
    BY <2>2 DEF Current, Reached, Loaded
  <2> QED
    BY <1>4, <2>1, <2>3
<1>8. ASSUME NEW r \in Requests, Disconnect(r)
      PROVE  FreshInv'
  <2> DEFINE x == [req[r] EXCEPT !.live = FALSE]
  <2>1. LET q == req[r]
        IN  x.pc = q.pc /\ x.op = q.op /\ x.since = q.since /\ x.data = q.data
    BY <1>1 DEF Handler
  <2>2. Current(x) /\ Reached(x)
    BY <1>1, <2>1 DEF Current, Reached
  <2> QED
    BY <1>4, <1>8, <2>2 DEF Disconnect, Step
<1>9. CASE Crash
  <2>1. Current(Idle) /\ Reached(Idle)
    BY DEF Idle, Current, Reached, Loaded
  <2> QED
    BY <1>3, <1>9, <2>1 DEF Crash
<1>10. CASE Mine \/ RunScript \/ (\E k \in Keys : Expire(k)) \/ UNCHANGED vars
  <2>1. req' = req
    BY <1>10 DEF Mine, RunScript, Expire, vars
  <2> QED
    BY <1>3, <2>1
<1> QED
  BY <1>5, <1>6, <1>7, <1>8, <1>9, <1>10 DEF Next

(* Past the cache, no reply to a read is behind the table that the request *)
(* found, and no reply to an update behind the chain, until an id no longer*)
(* fits a uint64: handlers.go:79-112, 162-196, 273-288.                    *)
THEOREM RepliesNotBehind == Spec => []NeverBehindArrival
<1>1. Init => FreshInv
  BY DEF Init, FreshInv, Reached, Current, Idle, Loaded
<1>2. /\ APIInv /\ ContractInv /\ (IdsFit => CopyInv) /\ (IdsFit => FreshInv)
      /\ [Next]_vars
      => (IdsFit' => FreshInv')
  BY FreshStays, IdsFitted
<1>3. (IdsFit => FreshInv) => NeverBehindArrival
  BY DEF FreshInv, Current, Loaded, NeverBehindArrival
<1> QED
  BY <1>1, <1>2, <1>3, Invariance, CopyInvariance, PTL DEF Spec
-----------------------------------------------------------------------------
(***************************************************************************)
(* The API implements OracleService.                                       *)
(***************************************************************************)

(* To its client the handler x is the handler q still at work, or it has   *)
(* refused, or it has answered, while ids fit with a published round, the  *)
(* one asked for.                                                          *)
Serves(q, x) ==
    \/ x.pc \notin {"idle", "done"} /\ x.op = q.op /\ x.arg = q.arg
    \/ x.pc = "done" /\ x.status # 200
    \/ /\ x.pc = "done" /\ x.status = 200 /\ x.op = q.op /\ x.arg = q.arg
       /\ IdsFit => /\ IsChainRound(x.data)
                    /\ x.op = "round" => x.data.roundId = x.arg

LEMMA RetriedServes ==
  ASSUME NEW q \in Handler, NEW first \in Steps \ {"idle", "done"}
  PROVE  Serves(q, Retried(q, first))
<1>1. CASE q.live /\ q.attempt + 1 < MaxAttempts
  BY <1>1 DEF Retried, Handler, Serves
<1>2. CASE ~(q.live /\ q.attempt + 1 < MaxAttempts)
  BY <1>2 DEF Retried, Replied, Handler, Serves
<1> QED
  BY <1>1, <1>2

LEMMA MovedServes ==
  ASSUME NEW q \in Handler, NEW next \in Steps \ {"idle", "done"}
  PROVE  /\ Serves(q, [q EXCEPT !.pc = next])
         /\ \A d : Serves(q, [q EXCEPT !.pc = next, !.data = d])
BY DEF Handler, Serves

LEMMA RefusedServes ==
  ASSUME NEW q \in Handler, NEW status, status # 200
  PROVE  Serves(q, Replied(q, status))
BY DEF Replied, Handler, Serves

(* Data in hand that is about to be stored may be the reply.               *)
LEMMA RepliedServes ==
  ASSUME NEW q \in Handler, IdsFit => Faithful(q), q.pc \in Loaded
  PROVE  Serves(q, Replied(q, 200))
<1>1. LET x == Replied(q, 200)
      IN  /\ x.pc = "done" /\ x.status = 200 /\ x.op = q.op /\ x.arg = q.arg
          /\ x.data = q.data
  BY DEF Replied, Handler
<1> QED
  BY <1>1 DEF Serves, Faithful

LEMMA ReadsServe ==
  ASSUME APIInv, IdsFit => CopyInv, NEW r \in Requests,
         CacheGet(r) \/ DbGet(r) \/ RpcRead(r) \/ CacheSet(r) \/ DbSave(r)
  PROVE  \E x : Step(r, x) /\ Serves(req[r], x)
<1> DEFINE q == req[r]
<1>1. q \in Handler /\ Sound(q) /\ (IdsFit => Faithful(q))
  BY HandlerAt DEF CopyInv
<1>2. CASE CacheGet(r)
  <2> DEFINE found == cache[Key(q)]
             x == Replied([q EXCEPT !.data = found], 200)
  <2>1. q.pc = "cacheGet" /\ q.op \in {"latest", "round"} /\ Key(q) \in Keys
    BY <1>1, <1>2, HandlerAt DEF CacheGet, At, Sound, ReadSteps
  <2>2. /\ x.pc = "done" /\ x.status = 200 /\ x.op = q.op /\ x.arg = q.arg
        /\ x.data = found
    BY <1>1 DEF Replied, Handler
  <2>3. IdsFit /\ found # NoData =>
           IsChainRound(found) /\ (Key(q) # LatestKey => Key(q) = RoundKey(found.roundId))
    BY <2>1 DEF CopyInv, CachedFaithful
  <2>4. IdsFit /\ found # NoData /\ q.op = "round" => found.roundId = q.arg
    BY <2>3 DEF Key, LatestKey, RoundKey
  <2> HIDE DEF x, found
  <2>5. found # NoData => Serves(q, x)
    BY <2>2, <2>3, <2>4 DEF Serves
  <2>6. Serves(q, [q EXCEPT !.pc = "dbGet"])
    BY <1>1, MovedServes DEF Steps
  <2> QED
    BY <1>2, <2>5, <2>6 DEF CacheGet, x, found
<1>3. CASE DbGet(r)
  <2>1. /\ \A d : Serves(q, [q EXCEPT !.pc = "fillCache", !.data = d])
        /\ Serves(q, [q EXCEPT !.pc = "rpcRead"])
    BY <1>1, MovedServes DEF Steps
  <2> QED
    BY <1>3, <2>1 DEF DbGet
<1>4. CASE RpcRead(r)
  <2>1. /\ \A d : Serves(q, [q EXCEPT !.pc = "cacheSet", !.data = d])
        /\ Serves(q, Retried(q, "rpcRead"))
    BY <1>1, MovedServes, RetriedServes DEF Steps
  <2> QED
    BY <1>4, <2>1 DEF RpcRead
<1>5. CASE CacheSet(r)
  <2>1. Serves(q, Replied(q, 200))
    BY <1>1, <1>5, RepliedServes DEF CacheSet, Loaded
  <2>2. Serves(q, [q EXCEPT !.pc = "dbSave"])
    BY <1>1, MovedServes DEF Steps
  <2> QED
    BY <1>5, <2>1, <2>2 DEF CacheSet
<1>6. CASE DbSave(r)
  <2>1. Serves(q, Replied(q, 200))
    BY <1>1, <1>6, RepliedServes DEF DbSave, At, Loaded
  <2> QED
    BY <1>6, <2>1 DEF DbSave
<1> QED
  BY <1>2, <1>3, <1>4, <1>5, <1>6

LEMMA UpdatesServe ==
  ASSUME APIInv, NEW r \in Requests,
         CheckOwner(r) \/ Prepare(r) \/ Send(r) \/ ReadBack(r) \/ CacheDel(r)
  PROVE  \E x : Step(r, x) /\ Serves(req[r], x)
<1> DEFINE q == req[r]
<1>1. q \in Handler /\ Sound(q)
  BY HandlerAt
<1>2. CASE CheckOwner(r)
  <2>1. Serves(q, [q EXCEPT !.pc = "prepare"])
    BY <1>1, MovedServes DEF Steps
  <2>2. Serves(q, Replied(q, 401)) /\ Serves(q, Replied(q, 500))
    BY <1>1, RefusedServes
  <2>3. \/ Step(r, [q EXCEPT !.pc = "prepare"])
        \/ Step(r, Replied(q, 401)) \/ Step(r, Replied(q, 500))
    BY <1>2 DEF CheckOwner
  <2> QED
    BY <2>1, <2>2, <2>3
<1>3. CASE Prepare(r)
  <2>1. \A tx : Serves(q, [q EXCEPT !.pc = "send", !.tx = tx])
    BY <1>1 DEF Handler, Serves
  <2>2. Serves(q, Retried(q, "prepare"))
    BY <1>1, RetriedServes DEF Steps
  <2> QED
    BY <1>3, <2>1, <2>2 DEF Prepare
<1>4. CASE Send(r)
  <2> DEFINE a == Accepted(q)
  <2>1. a \in Handler /\ a.op = q.op /\ a.arg = q.arg
    <3>1. q.tx \in Tx /\ q.sent \cup {q.tx} \in SUBSET Tx
      BY <1>1, <1>4 DEF Send, At, Sound, Handler
    <3>2. a \in Handler
      BY <1>1, <3>1, Setters DEF Accepted
    <3> QED
      BY <1>1, <3>2 DEF Accepted, Handler
  <2>2. Serves(q, AfterFailedSend(q))
    BY <1>1, RetriedServes DEF AfterFailedSend, Steps
  <2> HIDE DEF a
  <2>3. Serves(q, AfterFailedSend(a))
    <3>1. Serves(a, AfterFailedSend(a))
      BY <2>1, RetriedServes DEF AfterFailedSend, Steps
    <3> QED
      BY <2>1, <3>1 DEF Serves
  <2>4. Serves(q, AfterSend(a))
    BY <2>1 DEF AfterSend, Handler, Serves
  <2> QED
    BY <1>4, <2>2, <2>3, <2>4 DEF Send, a
<1>5. CASE ReadBack(r)
  <2>1. /\ \A d : Serves(q, [q EXCEPT !.pc = "cacheDel", !.data = d])
        /\ Serves(q, Retried(q, "readBack"))
    BY <1>1, MovedServes, RetriedServes DEF Steps
  <2> QED
    BY <1>5, <2>1 DEF ReadBack
<1>6. CASE CacheDel(r)
  <2>1. Serves(q, [q EXCEPT !.pc = "dbSave"])
    BY <1>1, MovedServes DEF Steps
  <2> QED
    BY <1>6, <2>1 DEF CacheDel
<1> QED
  BY <1>2, <1>3, <1>4, <1>5, <1>6
-----------------------------------------------------------------------------
(* What the clients of the API see.                                        *)
Clients == [r \in Requests |-> ClientView(req[r])]

(* One handler moves, and the feed stays.                                  *)
LEMMA OneClientMoves ==
  ASSUME APIInv, NEW r \in Requests, NEW x, Step(r, x), UNCHANGED oracleVars
  PROVE  /\ FeedView' = FeedView
         /\ Clients' = [Clients EXCEPT ![r] = ClientView(x)]
<1>1. req' = [req EXCEPT ![r] = x] /\ req \in [Requests -> Handler]
  BY DEF Step, APIInv, TypeOK
<1>2. FeedView' = FeedView
  BY DEF oracleVars, FeedView
<1>3. \A s \in Requests : ClientView(req'[s]) = IF s = r THEN ClientView(x) ELSE ClientView(req[s])
  BY <1>1
<1>4. Clients' = [s \in Requests |-> ClientView(req'[s])]
  BY DEF Clients
<1> QED
  BY <1>2, <1>3, <1>4 DEF Clients

LEMMA HandlingIsServiceStep ==
  ASSUME APIInv, ContractInv, ViewFaithful, NEW r \in Requests,
         req[r].pc \notin {"idle", "done"},
         NEW x, Step(r, x), Serves(req[r], x), UNCHANGED oracleVars
  PROVE  [Service!ServiceNext]_<<FeedView, Clients>>
<1> DEFINE q == req[r]
<1>1. FeedView' = FeedView /\ Clients' = [Clients EXCEPT ![r] = ClientView(x)]
  BY OneClientMoves
<1>2. Clients[r] = [state |-> "waiting", op |-> q.op, arg |-> q.arg]
  BY DEF Clients, ClientView
<1>3. CASE x.pc \notin {"idle", "done"} /\ x.op = q.op /\ x.arg = q.arg
  <2>1. ClientView(x) = Clients[r]
    BY <1>2, <1>3 DEF ClientView
  <2>2. Clients' = Clients
    BY <1>1, <2>1 DEF Clients
  <2> QED
    BY <1>1, <2>2
<1>4. CASE x.pc = "done" /\ x.status # 200
  <2>1. ClientView(x) = [state |-> "refused"]
    BY <1>4 DEF ClientView
  <2>2. Service!Refuse(r)
    BY <1>1, <2>1 DEF Service!Refuse, Service!Refused, Clients
  <2> QED
    BY <2>2 DEF Service!ServiceNext
<1>5. ASSUME x.pc = "done", x.status = 200, x.op = q.op, x.arg = q.arg,
             IsChainRound(x.data), x.op = "round" => x.data.roundId = x.arg
      PROVE  [Service!ServiceNext]_<<FeedView, Clients>>
  <2> DEFINE id == x.data.roundId
  <2>1. /\ id \in 1..Len(FeedView)
        /\ FeedView[id] = [answer |-> x.data.answer, at |-> x.data.updatedAt]
    BY <1>5 DEF ViewFaithful, IsChainRound, GetRoundData
  <2>2. ClientView(x) = [state |-> "answered", op |-> q.op, arg |-> q.arg, id |-> id,
                         entry |-> FeedView[id]]
    BY <1>5, <2>1 DEF ClientView
  <2> HIDE DEF id
  <2>3. /\ Clients[r].state = "waiting" /\ Clients[r].op = q.op /\ Clients[r].arg = q.arg
        /\ Clients[r].op = "round" => id = Clients[r].arg
    BY <1>2, <1>5 DEF id
  <2>4. Clients' = [Clients EXCEPT
                       ![r] = Service!Answered(@.op, @.arg, id, FeedView[id])]
    BY <1>1, <2>2, <2>3 DEF Service!Answered
  <2>5. Service!AnswerWithEntry(r)
    BY <1>1, <2>1, <2>3, <2>4, Zenon DEF Service!AnswerWithEntry, Clients
  <2> QED
    BY <2>5 DEF Service!ServiceNext
<1>6. ASSUME x.pc = "done", x.status = 200, x.op = q.op, x.arg = q.arg, ~IdsFit
      PROVE  [Service!ServiceNext]_<<FeedView, Clients>>
  <2>1. ClientView(x) = [state |-> "answered", op |-> q.op, arg |-> q.arg,
                         id |-> x.data.roundId,
                         entry |-> [answer |-> x.data.answer, at |-> x.data.updatedAt]]
    BY <1>6 DEF ClientView
  <2>2. /\ Clients[r].state = "waiting" /\ Clients[r].op = q.op /\ Clients[r].arg = q.arg
        /\ Clients'[r] = ClientView(x)
    BY <1>1, <1>2 DEF Clients
  <2>3. Len(FeedView) > MaxUint64
    BY <1>6, APIAssumption DEF ViewFaithful, IdsFit, MaxUint64, ContractInv, OracleTypeOK
  <2>4. /\ Clients'[r].state = "answered"
        /\ Clients'[r].op = Clients[r].op /\ Clients'[r].arg = Clients[r].arg
    BY <2>1, <2>2
  <2>5. Clients' = [Clients EXCEPT ![r] = Clients'[r]]
    BY <1>1, <2>2
  <2>6. Service!AnswerUnfit(r)
    BY <1>1, <2>2, <2>3, <2>4, <2>5, Zenon DEF Service!AnswerUnfit, Clients
  <2> QED
    BY <2>6 DEF Service!ServiceNext
<1> QED
  BY <1>3, <1>4, <1>5, <1>6 DEF Serves

(* What happens to no request is published or not seen at all.             *)
LEMMA ElsewhereIsServiceStep ==
  ASSUME APIInv, ContractInv, ContractInv', ViewFaithful, ViewFaithful', [Next]_vars,
         UNCHANGED req
  PROVE  [Service!ServiceNext]_<<FeedView, Clients>>
<1>1. Clients' = Clients
  BY DEF Clients
<1>2. [Feed!Publish]_FeedView
  BY StepIsContractStep, FeedStep
<1>3. CASE Feed!Publish
  <2>1. Service!Publish
    BY <1>3 DEF Feed!Publish, Feed!Entry, Service!Publish, Service!Entry
  <2> QED
    BY <1>1, <2>1 DEF Service!ServiceNext, Clients
<1> QED
  BY <1>1, <1>2, <1>3

LEMMA ArrivalIsServiceStep ==
  ASSUME APIInv, ContractInv, NEW r \in Requests,
         Arrive(r) \/ RefuseBadRequest(r) \/ Disconnect(r)
  PROVE  [Service!ServiceNext]_<<FeedView, Clients>>
<1> DEFINE q == req[r]
<1>1. q \in Handler /\ UNCHANGED oracleVars
  BY HandlerAt DEF Arrive, RefuseBadRequest, Disconnect
<1>2. CASE Arrive(r)
  <2>1. PICK op \in Workload[r] : \E arg \in Args(op) : Step(r, Arrived(op, arg))
    BY <1>2 DEF Arrive
  <2>2. PICK arg \in Args(op) : Step(r, Arrived(op, arg))
    BY <2>1
  <2>3. op \in Ops /\ arg \in Answers \cup AskedRounds \cup {0}
    BY APIAssumption DEF Ops, Args
  <2>4. ClientView(Arrived(op, arg)) = [state |-> "waiting", op |-> op, arg |-> arg]
    BY DEF Arrived, FirstCall, ClientView
  <2>5. FeedView' = FeedView
        /\ Clients' = [Clients EXCEPT ![r] = Service!Waits(op, arg)]
    BY <1>1, <2>2, <2>4, OneClientMoves DEF Service!Waits
  <2>6. Clients[r].state # "waiting"
    <3>1. Clients[r] = ClientView(q) /\ q.pc \in {"idle", "done"}
      BY <1>2 DEF Clients, Arrive
    <3> QED
      BY <3>1 DEF ClientView
  <2>7. Service!Ask(r)
    BY <2>3, <2>5, <2>6, Zenon DEF Service!Ask, Clients
  <2> QED
    BY <2>7 DEF Service!ServiceNext
<1>3. CASE RefuseBadRequest(r)
  <2>1. PICK op : Step(r, Replied([Idle EXCEPT !.op = op], 400))
    BY <1>3 DEF RefuseBadRequest
  <2> DEFINE x == Replied([Idle EXCEPT !.op = op], 400)
  <2>2. x.pc = "done" /\ x.status = 400
    BY DEF Replied, Idle
  <2> HIDE DEF x
  <2>3. ClientView(x) = [state |-> "refused"]
    BY <2>2 DEF ClientView
  <2>4. FeedView' = FeedView /\ Clients' = [Clients EXCEPT ![r] = ClientView(x)]
    BY <1>1, <2>1, OneClientMoves DEF x
  <2>5. Service!Refuse(r)
    BY <2>3, <2>4 DEF Service!Refuse, Service!Refused, Clients
  <2> QED
    BY <2>5 DEF Service!ServiceNext
<1>4. CASE Disconnect(r)
  <2> DEFINE x == [q EXCEPT !.live = FALSE]
  <2>1. /\ x.pc = q.pc /\ x.op = q.op /\ x.arg = q.arg /\ x.status = q.status
        /\ x.data = q.data
    BY <1>1 DEF Handler
  <2>2. Step(r, x)
    BY <1>4 DEF Disconnect, Step
  <2> HIDE DEF x
  <2>3. ClientView(x) = ClientView(q)
    BY <2>1 DEF ClientView
  <2>4. FeedView' = FeedView /\ Clients' = [Clients EXCEPT ![r] = ClientView(x)]
    BY <1>1, <2>2, OneClientMoves
  <2>5. Clients' = Clients
    BY <2>3, <2>4 DEF Clients
  <2> QED
    BY <2>4, <2>5
<1> QED
  BY <1>2, <1>3, <1>4

LEMMA StepIsServiceStep ==
  ASSUME APIInv, ContractInv, ContractInv', IdsFit => CopyInv, ViewFaithful, ViewFaithful', [Next]_vars
  PROVE  [Service!ServiceNext]_<<FeedView, Clients>>
<1>1. ASSUME NEW r \in Requests, Handle(r)
      PROVE  [Service!ServiceNext]_<<FeedView, Clients>>
  <2>1. PICK x : Step(r, x) /\ Serves(req[r], x)
    BY <1>1, ReadsServe, UpdatesServe DEF Handle
  <2>2. req[r].pc \notin {"idle", "done"} /\ UNCHANGED oracleVars
    BY <1>1 DEF Handle, CacheGet, DbGet, RpcRead, CacheSet, DbSave, CheckOwner, Prepare, Send,
                ReadBack, CacheDel, At
  <2> QED
    BY <2>1, <2>2, HandlingIsServiceStep
<1>2. CASE Crash
  <2>1. \A r \in Requests : req'[r] = Idle
    BY <1>2 DEF Crash
  <2>2. ClientView(Idle) = [state |-> "away"]
    BY DEF ClientView, Idle
  <2>3. FeedView' = FeedView /\ Clients' = [r \in Requests |-> Service!Away]
    BY <1>2, <2>1, <2>2 DEF Crash, oracleVars, FeedView, Clients, Service!Away
  <2>4. Service!Restart
    BY <2>3 DEF Service!Restart, Clients
  <2> QED
    BY <2>4 DEF Service!ServiceNext
<1>3. CASE Mine \/ RunScript \/ (\E k \in Keys : Expire(k)) \/ UNCHANGED vars
  <2>1. UNCHANGED req
    BY <1>3 DEF Mine, RunScript, Expire, vars
  <2> QED
    BY <2>1, ElsewhereIsServiceStep
<1> QED
  BY <1>1, <1>2, <1>3, ArrivalIsServiceStep DEF Next

(* Cache, table, node, retries and crashes included, the handlers of       *)
(* handlers.go are to their clients the service of OracleService: each is  *)
(* refused or given a published round, and the one it asked for, while the *)
(* ids fit a uint64.                                                       *)
THEOREM APIImplementsService == Spec => ImplementsService
<1>1. Init => Service!ServiceInit
  <2> SUFFICES ASSUME Init PROVE Service!ServiceInit
    OBVIOUS
  <2>1. latestRoundId = 1 /\ ViewFaithful
    BY StartEstablishes, ViewIsSequence DEF Init, OracleInit
  <2>2. Service!FeedInit
    BY <2>1 DEF ViewFaithful, Service!FeedInit, Service!Entry, Feed!Entry
  <2>3. ClientView(Idle) = [state |-> "away"]
    BY DEF ClientView, Idle
  <2>4. Clients = [r \in Requests |-> Service!Away]
    BY <2>3 DEF Init, Clients, Service!Away
  <2> QED
    BY <2>2, <2>4 DEF Service!ServiceInit, Clients
<1>2. ContractInv => ViewFaithful
  BY ViewIsSequence
<1>3. ASSUME APIInv, ContractInv, ContractInv', IdsFit => CopyInv,
             ViewFaithful, ViewFaithful', [Next]_vars
      PROVE  [Service!ServiceNext]_<<FeedView, Clients>>
  BY <1>3, StepIsServiceStep
<1>4. [Service!ServiceNext]_<<FeedView, Clients>> <=> [Service!ServiceNext]_Service!serviceVars
  BY DEF Service!serviceVars, Clients
<1> QED
  BY <1>1, <1>2, <1>3, <1>4, Invariance, CopyInvariance, PTL
     DEF Spec, ImplementsService, Service!ServiceSpec
=============================================================================
