------------------------------ MODULE RetryProofs ------------------------------
(***************************************************************************)
(* Theorems about what retry.Retry repeats: that every handler comes to an *)
(* end of its calls, and how often an update can have been sent; for any   *)
(* number of concurrent requests and any of the faults.                    *)
(***************************************************************************)
EXTENDS OracleAPIProofs, FiniteSetTheorems

(* The sends a handler may still make.                                     *)
SendsLeft(q) ==
    IF q.pc \in {"isOwner", "prepare", "send"} THEN MaxAttempts - q.attempt ELSE 0

(* A handler that has made a call: fewer calls are left, it may send no    *)
(* more than it might have, and after a send fewer; it still wants what it *)
(* wanted, and what it is about to send says so.                           *)
Advanced(q, x) ==
    /\ CallsLeft(x) < CallsLeft(q)
    /\ SendsLeft(x) <= SendsLeft(q)
    /\ q.pc = "send" => SendsLeft(x) < SendsLeft(q)
    /\ x.arg = q.arg
    /\ x.pc = "send" => x.tx.answer = x.arg

(* What each handler has had accepted, with what it may still send, is no  *)
(* more than its attempts; each carries the answer asked for.              *)
SendSound(q) ==
    /\ IsFiniteSet(q.sent)
    /\ Cardinality(q.sent) + SendsLeft(q) <= MaxAttempts
    /\ \A tx \in q.sent : tx.answer = q.arg
    /\ q.pc = "send" => q.tx.answer = q.arg

SendInv == \A r \in Requests : SendSound(req[r])

(* The calls left at each step.                                            *)
LEMMA CallsLeftAt ==
  ASSUME NEW q \in Handler
  PROVE  /\ q.attempt \in 0..2
         /\ q.pc = "isOwner" => CallsLeft(q) = 15
         /\ q.pc = "prepare" => CallsLeft(q) = 14 - 3 * q.attempt
         /\ q.pc = "send" => CallsLeft(q) = 12 - 3 * q.attempt
         /\ q.pc = "cacheGet" => CallsLeft(q) = 7
         /\ q.pc = "dbGet" => CallsLeft(q) = 6
         /\ q.pc \in {"rpcRead", "readBack"} => CallsLeft(q) = 5 - q.attempt
         /\ q.pc \in {"cacheSet", "cacheDel"} => CallsLeft(q) = 2
         /\ q.pc \in {"fillCache", "dbSave"} => CallsLeft(q) = 1
         /\ q.pc \in {"idle", "done"} => CallsLeft(q) = 0
<1>1. q.attempt \in 0..2
  BY DEF Handler, MaxAttempts
<1> DEFINE retries == MaxAttempts - 1 - q.attempt
<1>2. /\ 5 + MaxAttempts + 3 * retries = 14 - 3 * q.attempt
      /\ 3 + MaxAttempts + 3 * retries = 12 - 3 * q.attempt
      /\ 3 + retries = 5 - q.attempt
      /\ 3 + 4 * MaxAttempts = 15 /\ 4 + MaxAttempts = 7 /\ 3 + MaxAttempts = 6
  BY <1>1 DEF MaxAttempts
<1>3. CallsLeft(q) =
        CASE q.pc = "isOwner" -> 15
          [] q.pc = "prepare" -> 14 - 3 * q.attempt
          [] q.pc = "send" -> 12 - 3 * q.attempt
          [] q.pc = "cacheGet" -> 7
          [] q.pc = "dbGet" -> 6
          [] q.pc \in {"rpcRead", "readBack"} -> 5 - q.attempt
          [] q.pc \in {"cacheSet", "cacheDel"} -> 2
          [] q.pc \in {"fillCache", "dbSave"} -> 1
          [] OTHER -> 0
  BY <1>2, Zenon DEF CallsLeft
<1> QED
  <2>1. CASE q.pc = "isOwner"
    BY <1>1, <1>3, <2>1
  <2>2. CASE q.pc = "prepare"
    BY <1>1, <1>3, <2>2
  <2>3. CASE q.pc = "send"
    BY <1>1, <1>3, <2>3
  <2>4. CASE q.pc = "cacheGet"
    BY <1>1, <1>3, <2>4
  <2>5. CASE q.pc = "dbGet"
    BY <1>1, <1>3, <2>5
  <2>6. CASE q.pc \in {"rpcRead", "readBack"}
    BY <1>1, <1>3, <2>6
  <2>7. CASE q.pc \in {"cacheSet", "cacheDel"}
    BY <1>1, <1>3, <2>7
  <2>8. CASE q.pc \in {"fillCache", "dbSave"}
    BY <1>1, <1>3, <2>8
  <2>9. CASE q.pc \in {"idle", "done"}
    BY <1>1, <1>3, <2>9
  <2> QED
    BY <1>1, <2>1, <2>2, <2>3, <2>4, <2>5, <2>6, <2>7, <2>8, <2>9

LEMMA SendsLeftAt ==
  ASSUME NEW q \in Handler
  PROVE  /\ q.pc \in {"isOwner", "prepare", "send"} => SendsLeft(q) = 3 - q.attempt
         /\ q.pc \notin {"isOwner", "prepare", "send"} => SendsLeft(q) = 0
         /\ SendsLeft(q) \in 0..3
         /\ q.pc = "send" => SendsLeft(q) > 0
<1>1. q.attempt \in 0..2
  BY DEF Handler, MaxAttempts
<1> QED
  BY <1>1 DEF SendsLeft, MaxAttempts
-----------------------------------------------------------------------------
(* The ways a handler gets on: to its reply, to the next call, back to the *)
(* start of the loop, or out of it.                                        *)
LEMMA RepliedAdvances ==
  ASSUME NEW q \in Handler, q.pc \notin {"idle", "done"}, NEW status \in {200, 400, 401, 500}
  PROVE  Advanced(q, Replied(q, status)) /\ Replied(q, status).sent = q.sent
<1> DEFINE x == Replied(q, status)
<1>1. x \in Handler
  BY RepliedSound
<1>2. x.pc = "done" /\ x.arg = q.arg /\ x.sent = q.sent
  BY DEF Replied, Handler
<1>3. CallsLeft(q) > 0 /\ CallsLeft(x) = 0
  <2>1. q.pc \in Steps \ {"idle", "done"}
    BY DEF Handler
  <2> HIDE DEF x
  <2>2. CallsLeft(x) = 0
    BY <1>1, <1>2, CallsLeftAt
  <2> QED
    BY <2>1, <2>2, CallsLeftAt DEF Steps
<1>4. SendsLeft(x) = 0 /\ SendsLeft(q) >= 0 /\ (q.pc = "send" => SendsLeft(q) > 0)
  <2> HIDE DEF x
  <2> QED
    BY <1>1, <1>2, SendsLeftAt
<1> QED
  BY <1>2, <1>3, <1>4 DEF Advanced

Onward == {<<"cacheGet", "dbGet">>, <<"dbGet", "fillCache">>, <<"dbGet", "rpcRead">>,
           <<"rpcRead", "cacheSet">>, <<"cacheSet", "dbSave">>, <<"isOwner", "prepare">>,
           <<"prepare", "send">>, <<"readBack", "cacheDel">>, <<"cacheDel", "dbSave">>}

LEMMA MovedAdvances ==
  ASSUME NEW q \in Handler, NEW x \in Handler, <<q.pc, x.pc>> \in Onward,
         x.attempt = q.attempt, x.arg = q.arg, x.pc = "send" => x.tx.answer = x.arg
  PROVE  Advanced(q, x)
<1>1. CallsLeft(x) < CallsLeft(q)
  BY CallsLeftAt DEF Onward
<1>2. SendsLeft(x) <= SendsLeft(q) /\ q.pc # "send"
  BY SendsLeftAt, CallsLeftAt DEF Onward
<1> QED
  BY <1>1, <1>2 DEF Advanced

Again == {<<"rpcRead", "rpcRead">>, <<"prepare", "prepare">>, <<"send", "prepare">>,
          <<"readBack", "readBack">>}

LEMMA RetriedAdvances ==
  ASSUME NEW q \in Handler, Sound(q), NEW first, <<q.pc, first>> \in Again
  PROVE  /\ Retried(q, first) \in Handler
         /\ Advanced(q, Retried(q, first)) /\ Retried(q, first).sent = q.sent
<1> DEFINE x == Retried(q, first)
<1>1. x \in Handler
  BY RetriedSound DEF Again, UpdateSteps, ReadSteps
<1>2. CASE q.live /\ q.attempt + 1 < MaxAttempts
  <2>1. x.pc = first /\ x.attempt = q.attempt + 1 /\ x.arg = q.arg /\ x.sent = q.sent
    BY <1>2 DEF Retried, Handler
  <2> HIDE DEF x
  <2>2. CallsLeft(x) < CallsLeft(q)
    BY <1>1, <2>1, CallsLeftAt DEF Again
  <2>3. SendsLeft(x) <= SendsLeft(q) /\ (q.pc = "send" => SendsLeft(x) < SendsLeft(q))
    BY <1>1, <2>1, SendsLeftAt, CallsLeftAt DEF Again
  <2>4. x.pc # "send"
    BY <2>1 DEF Again
  <2> QED
    BY <1>1, <2>1, <2>2, <2>3, <2>4 DEF Advanced, x
<1>3. CASE ~(q.live /\ q.attempt + 1 < MaxAttempts)
  <2>1. x = Replied(q, 500)
    BY <1>3 DEF Retried
  <2>2. q.pc \notin {"idle", "done"}
    BY DEF Again
  <2> QED
    BY <1>1, <2>1, <2>2, RepliedAdvances
<1> QED
  BY <1>2, <1>3
-----------------------------------------------------------------------------
(* What a call makes of its handler.                                       *)
Onto(r, x) ==
    /\ x \in Handler /\ Step(r, x) /\ Advanced(req[r], x)
    /\ \/ x.sent = req[r].sent
       \/ req[r].pc = "send" /\ x.sent = req[r].sent \cup {req[r].tx}

LEMMA OntoReply ==
  ASSUME NEW r \in Requests, req[r] \in Handler, req[r].pc \notin {"idle", "done"},
         NEW status \in {200, 400, 401, 500}, Step(r, Replied(req[r], status))
  PROVE  \E x : Onto(r, x)
<1>1. Replied(req[r], status) \in Handler
  BY RepliedSound
<1> QED
  BY <1>1, RepliedAdvances DEF Onto

LEMMA OntoNext ==
  ASSUME NEW r \in Requests, req[r] \in Handler, NEW pc \in Steps \ {"send"},
         <<req[r].pc, pc>> \in Onward, Step(r, [req[r] EXCEPT !.pc = pc])
  PROVE  \E x : Onto(r, x)
<1> DEFINE q == req[r]
           x == [q EXCEPT !.pc = pc]
<1>1. /\ x \in Handler /\ x.pc = pc /\ x.attempt = q.attempt /\ x.arg = q.arg
      /\ x.sent = q.sent
  BY DEF Handler
<1>2. Advanced(q, x)
  <2> HIDE DEF x
  <2> QED
    BY <1>1, MovedAdvances
<1> QED
  BY <1>1, <1>2 DEF Onto

LEMMA OntoNextWithData ==
  ASSUME NEW r \in Requests, req[r] \in Handler, NEW pc \in Steps \ {"send"}, NEW d \in Reply,
         <<req[r].pc, pc>> \in Onward, Step(r, [req[r] EXCEPT !.pc = pc, !.data = d])
  PROVE  \E x : Onto(r, x)
<1> DEFINE q == req[r]
           x == [q EXCEPT !.pc = pc, !.data = d]
<1>1. /\ x \in Handler /\ x.pc = pc /\ x.attempt = q.attempt /\ x.arg = q.arg
      /\ x.sent = q.sent
  <2> DEFINE y == [q EXCEPT !.pc = pc]
  <2>1. /\ y \in Handler /\ y.pc = pc /\ y.attempt = q.attempt /\ y.arg = q.arg
        /\ y.sent = q.sent
    BY DEF Handler
  <2> HIDE DEF y
  <2>2. LET z == [y EXCEPT !.data = d]
        IN  /\ z \in Handler /\ z.pc = y.pc /\ z.attempt = y.attempt /\ z.arg = y.arg
            /\ z.sent = y.sent
    BY <2>1 DEF Handler
  <2> QED
    BY <2>1, <2>2 DEF y
<1>2. Advanced(q, x)
  <2> HIDE DEF x
  <2> QED
    BY <1>1, MovedAdvances
<1> QED
  BY <1>1, <1>2 DEF Onto

LEMMA OntoRetry ==
  ASSUME NEW r \in Requests, req[r] \in Handler, Sound(req[r]), NEW first,
         <<req[r].pc, first>> \in Again, Step(r, Retried(req[r], first))
  PROVE  \E x : Onto(r, x)
BY RetriedAdvances DEF Onto

LEMMA ReadAdvances ==
  ASSUME APIInv, NEW r \in Requests, CacheGet(r) \/ DbGet(r) \/ RpcRead(r) \/ CacheSet(r)
  PROVE  \E x : Onto(r, x)
<1> DEFINE q == req[r]
<1>1. q \in Handler /\ Sound(q)
  BY HandlerAt
<1>2. CASE CacheGet(r)
  <2> DEFINE found == cache[Key(q)]
             y == [q EXCEPT !.data = found]
  <2>1. q.pc = "cacheGet" /\ Key(q) \in Keys
    BY <1>2, HandlerAt DEF CacheGet, At, ReadSteps
  <2>2. found \in Reply
    BY <2>1 DEF APIInv, TypeOK
  <2>3. CASE Step(r, Replied(y, 200))
    <3>1. /\ y \in Handler /\ y.pc = q.pc /\ y.arg = q.arg /\ y.sent = q.sent
          /\ y.attempt = q.attempt
      BY <1>1, <2>2 DEF Handler
    <3>2. CallsLeft(y) = CallsLeft(q) /\ SendsLeft(y) = SendsLeft(q)
      BY <1>1, <2>1, <3>1, CallsLeftAt, SendsLeftAt
    <3> HIDE DEF y
    <3>3. Advanced(y, Replied(y, 200)) /\ Replied(y, 200).sent = y.sent
      BY <2>1, <3>1, RepliedAdvances
    <3>4. Replied(y, 200) \in Handler
      BY <3>1, RepliedSound
    <3> QED
      BY <2>1, <2>3, <3>1, <3>2, <3>3, <3>4 DEF Advanced, Onto
  <2>4. CASE Step(r, [q EXCEPT !.pc = "dbGet"])
    BY <1>1, <2>1, <2>4, OntoNext DEF Onward, Steps
  <2> QED
    BY <1>2, <2>3, <2>4 DEF CacheGet
<1>3. CASE DbGet(r)
  <2>1. q.pc = "dbGet" /\ DbLookup(q) \in Reply
    <3>1. q.pc = "dbGet"
      BY <1>3 DEF DbGet, At
    <3>2. LatestRowId \in RoundIds
      BY NewestRow DEF APIInv
    <3>3. q.op # "latest" => q.arg \in RoundIds
      BY <1>1, <3>1, APIAssumption DEF Sound, ReadSteps, Args
    <3> QED
      BY <3>1, <3>2, <3>3 DEF DbLookup, LatestRow, APIInv, TypeOK
  <2>2. CASE Step(r, [q EXCEPT !.pc = "fillCache", !.data = DbLookup(q)])
    BY <1>1, <2>1, <2>2, OntoNextWithData DEF Onward, Steps
  <2>3. CASE Step(r, [q EXCEPT !.pc = "rpcRead"])
    BY <1>1, <2>1, <2>3, OntoNext DEF Onward, Steps
  <2> QED
    BY <1>3, <2>2, <2>3 DEF DbGet
<1>4. CASE RpcRead(r)
  <2>1. q.pc = "rpcRead"
    BY <1>4 DEF RpcRead, At
  <2>2. RpcFinds(q) => RpcResult(q) \in Reply
    <3>1. q.op = "round" => q.arg \in RoundIds
      BY <1>1, <2>1, APIAssumption DEF Sound, ReadSteps, Args
    <3>2. OracleTypeOK
      BY DEF APIInv, TypeOK, NodeTypeOK
    <3>3. CASE q.op = "round"
      BY <3>1, <3>2, <3>3, FoundReply
    <3>4. CASE q.op # "round"
      BY <3>2, <3>4, LatestReply DEF RpcResult
    <3> QED
      BY <3>3, <3>4
  <2>3. CASE RpcFinds(q) /\ Step(r, [q EXCEPT !.pc = "cacheSet", !.data = RpcResult(q)])
    BY <1>1, <2>1, <2>2, <2>3, OntoNextWithData DEF Onward, Steps
  <2>4. CASE Step(r, Retried(q, "rpcRead"))
    BY <1>1, <2>1, <2>4, OntoRetry DEF Again
  <2> QED
    BY <1>4, <2>3, <2>4 DEF RpcRead
<1>5. CASE CacheSet(r)
  <2>1. CASE q.pc = "fillCache"
    <3>1. Step(r, Replied(q, 200))
      BY <1>5, <2>1 DEF CacheSet
    <3> QED
      BY <1>1, <2>1, <3>1, OntoReply
  <2>2. CASE q.pc = "cacheSet"
    <3>1. Step(r, [q EXCEPT !.pc = "dbSave"])
      BY <1>5, <2>2 DEF CacheSet
    <3> QED
      BY <1>1, <2>2, <3>1, OntoNext DEF Onward, Steps
  <2> QED
    BY <1>5, <2>1, <2>2 DEF CacheSet
<1> QED
  BY <1>2, <1>3, <1>4, <1>5

LEMMA UpdateAdvances ==
  ASSUME APIInv, NEW r \in Requests,
         CheckOwner(r) \/ Prepare(r) \/ ReadBack(r) \/ CacheDel(r) \/ DbSave(r)
  PROVE  \E x : Onto(r, x)
<1> DEFINE q == req[r]
<1>1. q \in Handler /\ Sound(q)
  BY HandlerAt
<1>2. CASE CheckOwner(r)
  <2>1. q.pc = "isOwner"
    BY <1>2 DEF CheckOwner, At
  <2>2. CASE Step(r, [q EXCEPT !.pc = "prepare"])
    BY <1>1, <2>1, <2>2, OntoNext DEF Onward, Steps
  <2>3. CASE Step(r, Replied(q, 401)) \/ Step(r, Replied(q, 500))
    BY <1>1, <2>1, <2>3, OntoReply
  <2> QED
    BY <1>2, <2>2, <2>3 DEF CheckOwner
<1>3. CASE Prepare(r)
  <2>1. q.pc = "prepare"
    BY <1>3 DEF Prepare, At
  <2>2. CASE Step(r, Retried(q, "prepare"))
    BY <1>1, <2>1, <2>2, OntoRetry DEF Again
  <2>3. ASSUME NEW price \in GasPrices,
               Step(r, [q EXCEPT !.pc = "send",
                          !.tx = [nonce |-> NonceToUse, answer |-> q.arg, gasPrice |-> price]])
        PROVE  \E x : Onto(r, x)
    <3> DEFINE tx == [nonce |-> NonceToUse, answer |-> q.arg, gasPrice |-> price]
               x == [q EXCEPT !.pc = "send", !.tx = tx]
    <3>1. q.arg \in Answers
      BY <1>1, <2>1 DEF Sound, UpdateSteps, Args
    <3>2. tx \in Tx /\ tx.answer = q.arg
      BY <3>1 DEF Tx, NonceToUse, APIInv, TypeOK, NodeTypeOK
    <3> HIDE DEF tx
    <3>3. /\ x \in Handler /\ x.pc = "send" /\ x.attempt = q.attempt /\ x.arg = q.arg
          /\ x.tx = tx /\ x.sent = q.sent
      <4> DEFINE y == [q EXCEPT !.pc = "send"]
      <4>1. /\ y \in Handler /\ y.pc = "send" /\ y.attempt = q.attempt /\ y.arg = q.arg
            /\ y.sent = q.sent
        BY <1>1 DEF Handler, Steps
      <4> HIDE DEF y
      <4>2. LET z == [y EXCEPT !.tx = tx]
            IN  /\ z \in Handler /\ z.pc = y.pc /\ z.attempt = y.attempt /\ z.arg = y.arg
                /\ z.tx = tx /\ z.sent = y.sent
        BY <3>2, <4>1 DEF Handler
      <4> QED
        BY <4>1, <4>2 DEF y
    <3>4. Step(r, x)
      BY <2>3 DEF tx
    <3> HIDE DEF x
    <3>5. Advanced(q, x)
      BY <1>1, <2>1, <3>2, <3>3, MovedAdvances DEF Onward
    <3> QED
      BY <3>3, <3>4, <3>5 DEF Onto
  <2> QED
    BY <1>3, <2>2, <2>3 DEF Prepare
<1>4. CASE ReadBack(r)
  <2>1. q.pc = "readBack" /\ ReadBackResult \in Reply
    BY <1>4, LatestReply DEF ReadBack, At, ReadBackResult, APIInv, TypeOK, NodeTypeOK
  <2>2. CASE Step(r, [q EXCEPT !.pc = "cacheDel", !.data = ReadBackResult])
    BY <1>1, <2>1, <2>2, OntoNextWithData DEF Onward, Steps
  <2>3. CASE Step(r, Retried(q, "readBack"))
    BY <1>1, <2>1, <2>3, OntoRetry DEF Again
  <2> QED
    BY <1>4, <2>2, <2>3 DEF ReadBack
<1>5. CASE CacheDel(r)
  <2>1. q.pc = "cacheDel" /\ Step(r, [q EXCEPT !.pc = "dbSave"])
    BY <1>5 DEF CacheDel, At
  <2> QED
    BY <1>1, <2>1, OntoNext DEF Onward, Steps
<1>6. CASE DbSave(r)
  <2>1. q.pc = "dbSave" /\ Step(r, Replied(q, 200))
    BY <1>6 DEF DbSave, At
  <2> QED
    BY <1>1, <2>1, OntoReply
<1> QED
  BY <1>2, <1>3, <1>4, <1>5, <1>6

(* A send ends the loop or one of its attempts, also when the node took    *)
(* the transaction and its answer was lost.                                *)
LEMMA SendAdvances ==
  ASSUME APIInv, NEW r \in Requests, Send(r)
  PROVE  \E x : Onto(r, x)
<1> DEFINE q == req[r]
           a == Accepted(q)
<1>1. q \in Handler /\ Sound(q) /\ q.pc = "send" /\ q.tx \in Tx
  BY HandlerAt DEF Send, At, Sound
<1>2. /\ a \in Handler /\ a.sent = q.sent \cup {q.tx} /\ a.op = q.op
      /\ a.pc = "send" /\ a.tx = q.tx /\ a.arg = q.arg /\ a.attempt = q.attempt
  BY <1>1 DEF Accepted, Handler
<1>3. Sound(a)
  BY <1>1, <1>2 DEF Sound, UpdateSteps, ReadSteps
<1>4. CallsLeft(a) = CallsLeft(q) /\ SendsLeft(a) = SendsLeft(q)
  BY <1>1, <1>2, CallsLeftAt, SendsLeftAt
<1>5. CASE Step(r, AfterSend(a))
  <2> DEFINE x == AfterSend(a)
  <2>1. /\ x \in Handler /\ x.pc = "readBack" /\ x.attempt = 0 /\ x.arg = a.arg
        /\ x.sent = a.sent
    <3> HIDE DEF a
    <3> QED
      <4> DEFINE y == [a EXCEPT !.pc = "readBack"]
      <4>1. y \in Handler /\ y.pc = "readBack" /\ y.arg = a.arg /\ y.sent = a.sent
        BY <1>2 DEF Handler, Steps
      <4> HIDE DEF y
      <4>2. LET z == [y EXCEPT !.attempt = 0]
            IN  /\ z \in Handler /\ z.pc = y.pc /\ z.attempt = 0 /\ z.arg = y.arg
                /\ z.sent = y.sent
        BY <4>1 DEF Handler, MaxAttempts
      <4> QED
        BY <4>1, <4>2 DEF y, AfterSend
  <2> HIDE DEF x, a
  <2>2. CallsLeft(x) < CallsLeft(a) /\ SendsLeft(x) < SendsLeft(a)
    BY <1>2, <2>1, CallsLeftAt, SendsLeftAt
  <2>3. Advanced(q, x)
    BY <1>2, <1>4, <2>1, <2>2, SendsLeftAt DEF Advanced
  <2> QED
    BY <1>1, <1>2, <1>5, <2>1, <2>3 DEF Onto, x
<1>6. CASE Step(r, AfterFailedSend(a))
  <2> DEFINE x == AfterFailedSend(a)
  <2> HIDE DEF a
  <2>1. x \in Handler /\ Advanced(a, x) /\ x.sent = a.sent
    BY <1>2, <1>3, RetriedAdvances DEF AfterFailedSend, Again
  <2> HIDE DEF x
  <2>2. Advanced(q, x)
    BY <1>2, <1>4, <2>1 DEF Advanced
  <2> QED
    BY <1>1, <1>2, <1>6, <2>1, <2>2 DEF Onto, x
<1>7. CASE Step(r, AfterFailedSend(q))
  BY <1>1, <1>7, OntoRetry DEF AfterFailedSend, Again
<1> QED
  BY <1>5, <1>6, <1>7 DEF Send

LEMMA HandleAdvances ==
  ASSUME APIInv, NEW r \in Requests, Handle(r)
  PROVE  \E x : Onto(r, x)
BY ReadAdvances, UpdateAdvances, SendAdvances DEF Handle
-----------------------------------------------------------------------------
(* Every call leaves fewer to make, through the loop of retry.go:19 that   *)
(* handlers.go runs at 102, 185, 262 and 275.                              *)
THEOREM CallsRunOut == Spec => HandlersAdvance
<1> DEFINE Good(r) ==
      /\ req[r].pc \notin {"idle", "done"}
      /\ req'[r] \notin {req[r], [req[r] EXCEPT !.live = FALSE]}
      => CallsLeft(req'[r]) < CallsLeft(req[r])
<1>1. ASSUME APIInv, [Next]_vars, NEW r \in Requests PROVE Good(r)
  <2> SUFFICES ASSUME req[r].pc \notin {"idle", "done"},
                      req'[r] \notin {req[r], [req[r] EXCEPT !.live = FALSE]}
               PROVE  CallsLeft(req'[r]) < CallsLeft(req[r])
    OBVIOUS
  <2>1. req \in [Requests -> Handler]
    BY <1>1 DEF APIInv, TypeOK
  <2>2. \A s \in Requests : \A x : Step(s, x) => req'[s] = x /\ (s # r => req'[r] = req[r])
    BY <2>1 DEF Step
  <2>3. ASSUME NEW s \in Requests, Handle(s)
        PROVE  CallsLeft(req'[r]) < CallsLeft(req[r])
    <3>1. PICK x : Onto(s, x)
      BY <1>1, <2>3, HandleAdvances
    <3>2. req'[s] = x /\ s = r /\ CallsLeft(x) < CallsLeft(req[s])
      BY <2>2, <3>1 DEF Onto, Advanced
    <3> QED
      BY <3>2
  <2>4. ~\E s \in Requests : Arrive(s) \/ RefuseBadRequest(s) \/ Disconnect(s)
    <3>1. ASSUME NEW s \in Requests, Arrive(s) \/ RefuseBadRequest(s) PROVE FALSE
      BY <2>2, <3>1 DEF Arrive, RefuseBadRequest
    <3>2. ASSUME NEW s \in Requests, Disconnect(s) PROVE FALSE
      BY <2>1, <3>2 DEF Disconnect
    <3> QED
      BY <3>1, <3>2
  <2>5. CASE Crash
    <3>1. req'[r] = Idle
      BY <2>5 DEF Crash
    <3>2. CallsLeft(Idle) = 0
      BY DEF CallsLeft, Idle
    <3>3. CallsLeft(req[r]) > 0
      <4>1. req[r] \in Handler /\ req[r].pc \in Steps \ {"idle", "done"}
        BY <2>1 DEF Handler
      <4> QED
        BY <4>1, CallsLeftAt DEF Steps
    <3> QED
      BY <3>1, <3>2, <3>3
  <2> QED
    BY <1>1, <2>3, <2>4, <2>5 DEF Next, vars, Expire, Mine, RunScript
<1>2. APIInv /\ [Next]_vars => \A r \in Requests : Good(r)
  BY <1>1
<1>3. APIInv /\ [Next]_vars =>
        [\A r \in Requests :
            /\ req[r].pc \notin {"idle", "done"}
            /\ req'[r] \notin {req[r], [req[r] EXCEPT !.live = FALSE]}
            => CallsLeft(req'[r]) < CallsLeft(req[r])]_vars
  BY <1>2
<1> QED
  BY <1>3, Invariance, PTL DEF Spec, HandlersAdvance

(* A call keeps the account of what was sent: only a send adds to it, and  *)
(* the loop then has one attempt less.                                     *)
LEMMA OntoSendSound ==
  ASSUME NEW r \in Requests, req[r] \in Handler, SendSound(req[r]), NEW x, Onto(r, x)
  PROVE  SendSound(x)
<1> DEFINE q == req[r]
<1>1. /\ x \in Handler /\ Advanced(q, x)
      /\ SendsLeft(q) \in 0..3 /\ SendsLeft(x) \in 0..3 /\ Cardinality(q.sent) \in Nat
  BY SendsLeftAt, FS_CardinalityType DEF Onto, SendSound
<1>2. CASE x.sent = q.sent
  BY <1>1, <1>2 DEF Advanced, SendSound, MaxAttempts
<1>3. CASE q.pc = "send" /\ x.sent = q.sent \cup {q.tx}
  <2>1. IsFiniteSet(x.sent) /\ Cardinality(x.sent) \in Nat
        /\ Cardinality(x.sent) <= Cardinality(q.sent) + 1
    <3>1. IsFiniteSet(q.sent)
      BY DEF SendSound
    <3>2. /\ IsFiniteSet(q.sent \cup {q.tx})
          /\ Cardinality(q.sent \cup {q.tx}) \in {Cardinality(q.sent), Cardinality(q.sent) + 1}
      BY <3>1, FS_AddElement
    <3> QED
      BY <1>1, <1>3, <3>2
  <2>2. SendsLeft(x) < SendsLeft(q)
    BY <1>1, <1>3 DEF Advanced
  <2>3. \A tx \in x.sent : tx.answer = x.arg
    BY <1>1, <1>3 DEF SendSound, Advanced
  <2> QED
    BY <1>1, <2>1, <2>2, <2>3 DEF SendSound, Advanced, MaxAttempts
<1> QED
  BY <1>2, <1>3 DEF Onto

\* A handler with nothing sent, at the start of its attempts.
LEMMA FreshSendSound ==
  ASSUME NEW q \in Handler, q.sent = {}, q.pc # "send"
  PROVE  SendSound(q)
BY SendsLeftAt, FS_EmptySet DEF SendSound, MaxAttempts

(* However often an update is retried, the node has at most three          *)
(* transactions of it, each with the answer that was asked for:            *)
(* handlers.go:262.                                                        *)
THEOREM RetriedSendsBounded == Spec => []SendsBounded
<1>1. Init => SendInv
  <2>1. Idle.sent = {} /\ Idle.pc # "send"
    BY DEF Idle
  <2> QED
    BY <2>1, IdleSound, FreshSendSound DEF Init, SendInv
<1>2. APIInv /\ APIInv' /\ SendInv /\ [Next]_vars => SendInv'
  <2> SUFFICES ASSUME APIInv, APIInv', SendInv, [Next]_vars, NEW r \in Requests
               PROVE  SendSound(req'[r])
    BY DEF SendInv, SendSound
  <2>1. /\ req \in [Requests -> Handler] /\ req'[r] \in Handler
        /\ SendSound(req[r])
    BY DEF APIInv, TypeOK, SendInv
  <2>2. \A s \in Requests : \A x : Step(s, x) => req'[s] = x /\ (s # r => req'[r] = req[r])
    BY <2>1 DEF Step
  <2>3. ASSUME NEW s \in Requests, Handle(s)
        PROVE  SendSound(req'[r])
    <3>1. PICK x : Onto(s, x)
      BY <2>3, HandleAdvances
    <3>2. req'[s] = x /\ (s # r => req'[r] = req[r])
      BY <2>2, <3>1 DEF Onto
    <3> QED
      BY <2>1, <3>1, <3>2, OntoSendSound
  <2>4. ASSUME NEW s \in Requests, Arrive(s) \/ RefuseBadRequest(s)
        PROVE  SendSound(req'[r])
    <3>1. req'[r] = req[r] \/ (req'[r].sent = {} /\ req'[r].pc # "send")
      <4>1. CASE Arrive(s)
        <5>1. PICK op, arg : Step(s, Arrived(op, arg))
          BY <4>1 DEF Arrive
        <5> QED
          BY <2>2, <5>1 DEF Arrived, FirstCall
      <4>2. CASE RefuseBadRequest(s)
        <5>1. PICK op : Step(s, Replied([Idle EXCEPT !.op = op], 400))
          BY <4>2 DEF RefuseBadRequest
        <5> QED
          <6>1. LET x == Replied([Idle EXCEPT !.op = op], 400) IN x.sent = {} /\ x.pc = "done"
            BY DEF Replied, Idle
          <6> QED
            BY <2>2, <5>1, <6>1
      <4> QED
        BY <2>4, <4>1, <4>2
    <3> QED
      BY <2>1, <3>1, FreshSendSound
  <2>5. ASSUME NEW s \in Requests, Disconnect(s)
        PROVE  SendSound(req'[r])
    <3>1. req'[r] = req[r] \/ req'[r] = [req[r] EXCEPT !.live = FALSE]
      BY <2>1, <2>5 DEF Disconnect
    <3>2. LET x == [req[r] EXCEPT !.live = FALSE]
          IN  /\ x.pc = req[r].pc /\ x.attempt = req[r].attempt /\ x.sent = req[r].sent
              /\ x.tx = req[r].tx /\ x.arg = req[r].arg
      BY <2>1 DEF Handler
    <3> QED
      BY <2>1, <3>1, <3>2 DEF SendSound, SendsLeft
  <2>6. CASE Crash
    <3>1. req'[r] = Idle
      BY <2>6 DEF Crash
    <3> QED
      BY <2>1, <3>1, FreshSendSound DEF Idle
  <2>7. CASE UNCHANGED req
    BY <2>1, <2>7
  <2> QED
    BY <2>3, <2>4, <2>5, <2>6, <2>7 DEF Next, vars, Expire, Mine, RunScript
<1>3. APIInv /\ SendInv => SendsBounded
  <2> SUFFICES ASSUME APIInv, SendInv, NEW r \in Requests
               PROVE  /\ Cardinality(req[r].sent) <= MaxAttempts
                      /\ \A tx \in req[r].sent : tx.answer = req[r].arg
    BY DEF SendsBounded
  <2>1. SendSound(req[r]) /\ SendsLeft(req[r]) \in 0..3 /\ Cardinality(req[r].sent) \in Nat
    BY HandlerAt, SendsLeftAt, FS_CardinalityType DEF SendInv, SendSound
  <2> QED
    BY <2>1 DEF SendSound, MaxAttempts
<1> QED
  BY <1>1, <1>2, <1>3, Invariance, PTL DEF Spec
================================================================================
