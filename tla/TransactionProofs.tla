-------------------------- MODULE TransactionProofs --------------------------
(***************************************************************************)
(* Theorems about the transactions of the API: what becomes of those that  *)
(* the node took, where their hashes are filed, and which ones revert; for *)
(* any number of concurrent updates and any of the faults.                 *)
(***************************************************************************)
EXTENDS OracleAPIProofs

(* What a handler knows of its transaction: past the send it is one the    *)
(* node took, a reader has none, and one that has not replied has no status*)
(* yet.  Past its first call an update is by the owner.                    *)
TxSound(q) ==
    /\ q.pc \in {"readBack", "cacheDel"} => q.tx \in q.sent
    /\ q.op = "update" /\ (q.pc = "dbSave" \/ q.status = 200) => q.tx \in q.sent
    /\ q.op # "update" => q.tx = NoTx
    /\ q.status # 0 => q.pc = "done"
    /\ q.pc \in {"prepare", "send"} => owner = Server

(* No transaction is that of two requests.                                 *)
SentOnce(tx, r) == \A s \in Requests : tx \in req[s].sent => s = r

(* A hash is filed when its request is over, and once.                     *)
FiledOnce(tx, id) ==
    /\ \A other \in RoundIds : rowTx[other] = tx => other = id
    /\ \A r \in Requests : tx \in req[r].sent => req[r].pc = "done"

TxInv ==
    /\ \A r \in Requests : TxSound(req[r])
    /\ \A r \in Requests : \A tx \in req[r].sent : Accounted(tx) /\ SentOnce(tx, r)
    /\ \A id \in RoundIds : rowTx[id] # NoTx => Accounted(rowTx[id]) /\ FiledOnce(rowTx[id], id)

(* No transaction is the absence of one.                                   *)
LEMMA NoTxIsNone == NoTx \notin Tx
BY NodeAssumption DEF NoTx, Tx

(* The fields of a handler that has replied, or has been through Retry.    *)
LEMMA RepliedFields ==
  ASSUME NEW q \in Handler, NEW status
  PROVE  LET x == Replied(q, status)
         IN  /\ x.pc = "done" /\ x.status = status
             /\ x.op = q.op /\ x.tx = q.tx /\ x.sent = q.sent
BY DEF Replied, Handler

LEMMA RepliedTx ==
  ASSUME NEW q \in Handler, TxSound(q), NEW status,
         q.op = "update" /\ status = 200 => q.tx \in q.sent
  PROVE  TxSound(Replied(q, status)) /\ Replied(q, status).sent = q.sent
BY RepliedFields DEF TxSound

LEMMA RetriedTx ==
  ASSUME NEW q \in Handler, TxSound(q), q.pc # "done", NEW first \in {"rpcRead", "prepare", "readBack"},
         first = "prepare" => owner = Server,
         first = "readBack" => q.tx \in q.sent
  PROVE  TxSound(Retried(q, first)) /\ Retried(q, first).sent = q.sent
<1>1. CASE q.live /\ q.attempt + 1 < MaxAttempts
  <2>1. LET x == Retried(q, first)
        IN  /\ x.pc = first /\ x.status = q.status
            /\ x.op = q.op /\ x.tx = q.tx /\ x.sent = q.sent
    BY <1>1 DEF Retried, Handler
  <2> QED
    BY <2>1 DEF TxSound
<1>2. CASE ~(q.live /\ q.attempt + 1 < MaxAttempts)
  BY <1>2, RepliedTx DEF Retried
<1> QED
  BY <1>1, <1>2

(* A handler that moves on with other data, or with a transaction it is    *)
(* about to send.                                                          *)
LEMMA MovedTx ==
  ASSUME NEW q \in Handler, TxSound(q), q.pc # "done", NEW next \in Steps \ {"idle", "done"},
         next \in {"prepare", "send"} => owner = Server,
         next \in {"readBack", "cacheDel", "dbSave"} /\ q.op = "update" => q.tx \in q.sent,
         next \in {"readBack", "cacheDel"} => q.op = "update"
  PROVE  /\ TxSound([q EXCEPT !.pc = next]) /\ [q EXCEPT !.pc = next].sent = q.sent
         /\ \A d : LET x == [q EXCEPT !.pc = next, !.data = d]
                   IN  TxSound(x) /\ x.sent = q.sent
<1>1. LET x == [q EXCEPT !.pc = next]
      IN  /\ x.pc = next /\ x.status = q.status
          /\ x.op = q.op /\ x.tx = q.tx /\ x.sent = q.sent
  BY DEF Handler
<1>2. ASSUME NEW d
      PROVE  LET x == [q EXCEPT !.pc = next, !.data = d]
             IN  /\ x.pc = next /\ x.status = q.status
                 /\ x.op = q.op /\ x.tx = q.tx /\ x.sent = q.sent
  BY DEF Handler
<1> QED
  BY <1>1, <1>2 DEF TxSound
-----------------------------------------------------------------------------
(* The calls that neither send nor save: the read path and the update's    *)
(* others.                                                                 *)
LEMMA ReadsPass ==
  ASSUME APIInv, NEW r \in Requests, TxSound(req[r]),
         CacheGet(r) \/ DbGet(r) \/ RpcRead(r) \/ CacheSet(r)
  PROVE  \E x : Step(r, x) /\ TxSound(x) /\ x.sent = req[r].sent
<1> DEFINE q == req[r]
<1>1. q \in Handler /\ Sound(q)
  BY HandlerAt
<1>2. CASE CacheGet(r)
  <2> DEFINE found == cache[Key(q)]
             y == [q EXCEPT !.data = found]
  <2>1. q.pc = "cacheGet" /\ q.op # "update" /\ Key(q) \in Keys
    BY <1>1, <1>2, HandlerAt DEF CacheGet, At, Sound, ReadSteps
  <2>2. y \in Handler
    BY <1>1, <2>1, Setters DEF APIInv, TypeOK
  <2>3. y.pc = q.pc /\ y.status = q.status /\ y.op = q.op /\ y.tx = q.tx /\ y.sent = q.sent
    BY <1>1 DEF Handler
  <2>4. TxSound(y)
    BY <2>1, <2>3 DEF TxSound
  <2>5. TxSound(Replied(y, 200)) /\ Replied(y, 200).sent = q.sent
    <3> HIDE DEF y
    <3> QED
      BY <2>1, <2>2, <2>3, <2>4, RepliedTx
  <2>6. LET x == [q EXCEPT !.pc = "dbGet"] IN TxSound(x) /\ x.sent = q.sent
    BY <1>1, <2>1, MovedTx DEF Steps
  <2> QED
    BY <1>2, <2>5, <2>6 DEF CacheGet
<1>3. CASE DbGet(r)
  <2>1. q.pc = "dbGet"
    BY <1>3 DEF DbGet, At
  <2>2. \A d : LET x == [q EXCEPT !.pc = "fillCache", !.data = d]
               IN  TxSound(x) /\ x.sent = q.sent
    BY <1>1, <2>1, MovedTx DEF Steps
  <2>3. LET x == [q EXCEPT !.pc = "rpcRead"] IN TxSound(x) /\ x.sent = q.sent
    BY <1>1, <2>1, MovedTx DEF Steps
  <2> QED
    BY <1>3, <2>2, <2>3 DEF DbGet
<1>4. CASE RpcRead(r)
  <2>1. q.pc = "rpcRead"
    BY <1>4 DEF RpcRead, At
  <2>2. \A d : LET x == [q EXCEPT !.pc = "cacheSet", !.data = d]
               IN  TxSound(x) /\ x.sent = q.sent
    BY <1>1, <2>1, MovedTx DEF Steps
  <2>3. TxSound(Retried(q, "rpcRead")) /\ Retried(q, "rpcRead").sent = q.sent
    BY <1>1, <2>1, RetriedTx
  <2> QED
    BY <1>4, <2>2, <2>3 DEF RpcRead
<1>5. CASE CacheSet(r)
  <2>1. q.pc \in {"fillCache", "cacheSet"} /\ q.op # "update"
    BY <1>1, <1>5 DEF CacheSet, Sound, ReadSteps
  <2>2. TxSound(Replied(q, 200)) /\ Replied(q, 200).sent = q.sent
    BY <1>1, <2>1, RepliedTx
  <2>3. LET x == [q EXCEPT !.pc = "dbSave"] IN TxSound(x) /\ x.sent = q.sent
    BY <1>1, <2>1, MovedTx DEF Steps
  <2> QED
    BY <1>5, <2>2, <2>3 DEF CacheSet
<1> QED
  BY <1>2, <1>3, <1>4, <1>5

LEMMA UpdatesPass ==
  ASSUME APIInv, NEW r \in Requests, TxSound(req[r]),
         CheckOwner(r) \/ Prepare(r) \/ ReadBack(r) \/ CacheDel(r)
  PROVE  \E x : Step(r, x) /\ TxSound(x) /\ x.sent = req[r].sent
<1> DEFINE q == req[r]
<1>1. q \in Handler /\ Sound(q)
  BY HandlerAt
<1>2. CASE CheckOwner(r)
  <2>1. q.pc = "isOwner"
    BY <1>2 DEF CheckOwner, At
  <2>2. CASE IsOwner /\ Step(r, [q EXCEPT !.pc = "prepare"])
    <3>1. LET x == [q EXCEPT !.pc = "prepare"] IN TxSound(x) /\ x.sent = q.sent
      BY <1>1, <2>1, <2>2, MovedTx DEF Steps, IsOwner
    <3> QED
      BY <2>2, <3>1
  <2>3. ASSUME NEW status \in {401, 500}, Step(r, Replied(q, status))
        PROVE  \E x : Step(r, x) /\ TxSound(x) /\ x.sent = q.sent
    <3>1. TxSound(Replied(q, status)) /\ Replied(q, status).sent = q.sent
      BY <1>1, <2>3, RepliedTx
    <3> QED
      BY <2>3, <3>1
  <2> QED
    BY <1>2, <2>2, <2>3 DEF CheckOwner
<1>3. CASE Prepare(r)
  <2>1. q.pc = "prepare" /\ q.op = "update" /\ owner = Server /\ q.status = 0
    BY <1>1, <1>3 DEF Prepare, At, Sound, UpdateSteps, TxSound
  <2>2. ASSUME NEW tx
        PROVE  LET x == [q EXCEPT !.pc = "send", !.tx = tx]
               IN  TxSound(x) /\ x.sent = q.sent
    <3>1. LET x == [q EXCEPT !.pc = "send", !.tx = tx]
          IN  x.pc = "send" /\ x.status = 0 /\ x.op = "update" /\ x.sent = q.sent
      BY <1>1, <2>1 DEF Handler
    <3> QED
      BY <2>1, <3>1 DEF TxSound
  <2>3. TxSound(Retried(q, "prepare")) /\ Retried(q, "prepare").sent = q.sent
    BY <1>1, <2>1, RetriedTx
  <2> QED
    BY <1>3, <2>2, <2>3 DEF Prepare
<1>4. CASE ReadBack(r)
  <2>1. q.pc = "readBack" /\ q.op = "update" /\ q.tx \in q.sent
    BY <1>1, <1>4 DEF ReadBack, At, Sound, UpdateSteps, TxSound
  <2>2. \A d : LET x == [q EXCEPT !.pc = "cacheDel", !.data = d]
               IN  TxSound(x) /\ x.sent = q.sent
    BY <1>1, <2>1, MovedTx DEF Steps
  <2>3. TxSound(Retried(q, "readBack")) /\ Retried(q, "readBack").sent = q.sent
    BY <1>1, <2>1, RetriedTx
  <2> QED
    BY <1>4, <2>2, <2>3 DEF ReadBack
<1>5. CASE CacheDel(r)
  <2>1. q.pc = "cacheDel" /\ q.tx \in q.sent
    BY <1>5 DEF CacheDel, At, TxSound
  <2>2. LET x == [q EXCEPT !.pc = "dbSave"] IN TxSound(x) /\ x.sent = q.sent
    BY <1>1, <2>1, MovedTx DEF Steps
  <2> QED
    BY <1>5, <2>2 DEF CacheDel
<1> QED
  BY <1>2, <1>3, <1>4, <1>5
-----------------------------------------------------------------------------
(* The node neither forgets nor drops a transaction it took: its nonce is  *)
(* used, or it waits, or a dearer one took its place.                      *)
LEMMA AccountedLasts ==
  ASSUME APIInv, [Next]_vars, NEW tx, tx.nonce \in Nat, tx.gasPrice \in Nat, Accounted(tx)
  PROVE  Accounted(tx)'
<1>1. /\ nonce \in Nat /\ pool \subseteq Tx /\ GasPrices \subseteq Nat
      /\ \A p \in pool : p.nonce = nonce
  BY NodeAssumption DEF APIInv, TypeOK, NodeTypeOK, OnePendingTx
<1>2. CASE UNCHANGED nodeVars
  BY <1>2 DEF nodeVars, Accounted
<1>3. ASSUME NEW r \in Requests, Send(r)
      PROVE  Accounted(tx)'
  <2> DEFINE q == req[r]
  <2>1. nonce' = nonce /\ (pool' = pool \/ (Acceptable(q.tx) /\ pool' = PoolWith(q.tx)))
    BY <1>3 DEF Send
  <2>2. q.tx \in Tx
    BY <1>3, HandlerAt DEF Send, At, Sound
  <2>3. CASE pool' = pool
    BY <2>1, <2>3 DEF Accounted
  <2>4. CASE Acceptable(q.tx) /\ pool' = PoolWith(q.tx)
    <3>1. q.tx \in pool' /\ q.tx.nonce \in Nat /\ q.tx.gasPrice \in Nat /\ q.tx.nonce >= nonce
      BY <1>1, <2>2, <2>4 DEF Acceptable, PoolWith, Tx
    <3>2. CASE tx.nonce < nonce
      BY <2>1, <3>2 DEF Accounted
    <3>3. ASSUME NEW p \in pool, p.nonce = tx.nonce, p.gasPrice >= tx.gasPrice
          PROVE  Accounted(tx)'
      <4>1. CASE p \in pool'
        BY <3>3, <4>1 DEF Accounted
      <4>2. CASE p \notin pool'
        <5>1. p.nonce = q.tx.nonce /\ p.gasPrice < q.tx.gasPrice
          BY <2>4, <4>2 DEF Acceptable, PoolWith
        <5>2. p.gasPrice \in Nat
          BY <1>1 DEF Tx
        <5> QED
          BY <3>1, <3>3, <5>1, <5>2 DEF Accounted
      <4> QED
        BY <4>1, <4>2
    <3> QED
      BY <3>2, <3>3 DEF Accounted
  <2> QED
    BY <2>1, <2>3, <2>4
<1>4. ASSUME NEW mined \in pool, MineTx(mined)
      PROVE  Accounted(tx)'
  BY <1>1, <1>4 DEF MineTx, Accounted
<1>5. ASSUME NEW a, ScriptUpdate(a)
      PROVE  Accounted(tx)'
  BY <1>1, <1>5 DEF ScriptUpdate, Accounted
<1>6. UNCHANGED nodeVars \/ (\E r \in Requests : Send(r)) \/ Mine \/ RunScript
  BY DEF Next, Handle, Arrive, RefuseBadRequest, Disconnect, CacheGet, DbGet, RpcRead,
         CacheSet, DbSave, CheckOwner, Prepare, ReadBack, CacheDel, Expire, Crash, vars
<1> QED
  BY <1>2, <1>3, <1>4, <1>5, <1>6 DEF Mine, RunScript

(* The server's account stays the owner or stays another.                  *)
LEMMA OwnerStays ==
  ASSUME APIInv, [Next]_vars
  PROVE  owner' = owner
BY StepIsContractStep DEF OracleNext, UpdateAnswer, NextBlock, oracleVars

LEMMA SoundStays ==
  ASSUME APIInv, [Next]_vars, NEW q
  PROVE  TxSound(q) <=> TxSound(q)'
BY OwnerStays DEF TxSound

(* What every handler has sent is a transaction, and so is a filed hash.   *)
LEMMA TxTyped ==
  ASSUME APIInv
  PROVE  /\ \A r \in Requests : \A tx \in req[r].sent :
               tx \in Tx /\ tx.nonce \in Nat /\ tx.gasPrice \in Nat
         /\ \A id \in RoundIds : rowTx[id] # NoTx =>
               rowTx[id] \in Tx /\ rowTx[id].nonce \in Nat /\ rowTx[id].gasPrice \in Nat
<1>1. \A tx \in Tx : tx.nonce \in Nat /\ tx.gasPrice \in Nat
  BY NodeAssumption DEF Tx
<1>2. \A r \in Requests : req[r].sent \subseteq Tx
  BY HandlerAt DEF Handler
<1>3. \A id \in RoundIds : rowTx[id] \in Tx \cup {NoTx}
  BY DEF APIInv, TypeOK
<1> QED
  BY <1>1, <1>2, <1>3

(* A step that sends nothing and files nothing only has to leave sound     *)
(* handlers that were under way, or begin afresh.                          *)
LEMMA QuietStep ==
  ASSUME APIInv, TxInv, [Next]_vars, rowTx' = rowTx,
         \A r \in Requests :
            /\ TxSound(req'[r])
            /\ req'[r].sent = {} \/ req'[r].sent = req[r].sent
            /\ req'[r].sent = req[r].sent /\ req[r].pc = "done" =>
                  req'[r].pc = "done" \/ req[r].sent = {}
  PROVE  TxInv'
<1>1. \A r \in Requests : TxSound(req[r])'
  BY SoundStays
<1>2. ASSUME NEW r \in Requests, NEW tx \in req'[r].sent
      PROVE  Accounted(tx)' /\ SentOnce(tx, r)'
  <2>1. tx \in req[r].sent
    BY <1>2
  <2>2. Accounted(tx)'
    BY <2>1, TxTyped, AccountedLasts DEF TxInv
  <2> QED
    BY <2>1, <2>2 DEF TxInv, SentOnce
<1>3. ASSUME NEW id \in RoundIds, rowTx'[id] # NoTx
      PROVE  Accounted(rowTx[id])' /\ FiledOnce(rowTx[id], id)'
  <2>1. Accounted(rowTx[id]) /\ FiledOnce(rowTx[id], id)
    BY <1>3 DEF TxInv
  <2>2. Accounted(rowTx[id])'
    <3>1. PICK tx : tx = rowTx[id]
      OBVIOUS
    <3>2. tx.nonce \in Nat /\ tx.gasPrice \in Nat /\ Accounted(tx)
      BY <1>3, <2>1, <3>1, TxTyped
    <3>3. Accounted(tx)' /\ tx = rowTx'[id]
      BY <3>1, <3>2, AccountedLasts
    <3> QED
      BY <3>3 DEF Accounted
  <2> QED
    BY <2>1, <2>2 DEF FiledOnce
<1> QED
  BY <1>1, <1>2, <1>3 DEF TxInv

LEMMA PassStep ==
  ASSUME APIInv, TxInv, [Next]_vars, rowTx' = rowTx, NEW r \in Requests, NEW x, Step(r, x),
         TxSound(x), x.sent = req[r].sent, req[r].pc # "done" \/ x.pc = "done"
  PROVE  TxInv'
<1>1. req'[r] = x /\ \A s \in Requests : s # r => req'[s] = req[s]
  BY DEF Step, APIInv, TypeOK
<1>2. \A s \in Requests : TxSound(req[s])
  BY DEF TxInv
<1>3. \A s \in Requests :
         /\ TxSound(req'[s]) /\ req'[s].sent = req[s].sent
         /\ req[s].pc = "done" => req'[s].pc = "done"
  BY <1>1, <1>2
<1> QED
  BY <1>3, QuietStep
-----------------------------------------------------------------------------
(* What the node accepts it has not been sent before: a transaction that   *)
(* it took is pending, outbid or mined, and each is a refusal.             *)
LEMMA AcceptedIsNew ==
  ASSUME APIInv, NEW tx \in Tx, Acceptable(tx)
  PROVE  ~Accounted(tx)
<1>1. nonce \in Nat /\ pool \subseteq Tx /\ \A p \in Tx : p.nonce \in Nat /\ p.gasPrice \in Nat
  BY NodeAssumption DEF APIInv, TypeOK, NodeTypeOK, Tx
<1> QED
  BY <1>1 DEF Acceptable, Accounted

LEMMA AcceptedKeepsTx ==
  ASSUME APIInv, TxInv, [Next]_vars, rowTx' = rowTx, nonce' = nonce, NEW r \in Requests,
         req[r].pc = "send", req[r].tx \in Tx, Acceptable(req[r].tx),
         pool' = PoolWith(req[r].tx),
         NEW x, Step(r, x), TxSound(x), x.sent = req[r].sent \cup {req[r].tx}
  PROVE  TxInv'
<1>1. PICK tx \in Tx : tx = req[r].tx
  OBVIOUS
<1>2. ~Accounted(tx) /\ tx.gasPrice \in Nat
  BY <1>1, AcceptedIsNew, NodeAssumption DEF Tx
<1>3. Accounted(tx)'
  BY <1>1, <1>2 DEF Accounted, PoolWith
<1>4. /\ req'[r] = x /\ \A s \in Requests : s # r => req'[s] = req[s]
      /\ x.sent = req[r].sent \cup {tx}
  BY <1>1 DEF Step, APIInv, TypeOK
<1>5. \A s \in Requests : tx \notin req[s].sent
  BY <1>2 DEF TxInv
<1>6. \A s \in Requests : TxSound(req[s])'
  <2>1. \A s \in Requests : TxSound(req'[s])
    BY <1>4 DEF TxInv
  <2> QED
    BY <2>1, SoundStays
<1>7. ASSUME NEW s \in Requests, NEW y \in req'[s].sent
      PROVE  Accounted(y)' /\ SentOnce(y, s)'
  <2>1. CASE y = tx
    BY <1>3, <1>4, <1>5, <1>7, <2>1 DEF SentOnce
  <2>2. CASE y # tx
    <3>1. y \in req[s].sent
      BY <1>4, <1>7, <2>2
    <3>2. Accounted(y)'
      BY <3>1, TxTyped, AccountedLasts DEF TxInv
    <3> QED
      BY <1>4, <2>2, <3>1, <3>2 DEF TxInv, SentOnce
  <2> QED
    BY <2>1, <2>2
<1>8. ASSUME NEW id \in RoundIds, rowTx'[id] # NoTx
      PROVE  Accounted(rowTx[id])' /\ FiledOnce(rowTx[id], id)'
  <2>1. PICK y : y = rowTx[id]
    OBVIOUS
  <2>2. Accounted(y) /\ FiledOnce(y, id) /\ y.nonce \in Nat /\ y.gasPrice \in Nat
    BY <1>8, <2>1, TxTyped DEF TxInv
  <2>3. y # tx
    BY <1>2, <2>2
  <2>4. FiledOnce(y, id)'
    BY <1>4, <2>2, <2>3 DEF FiledOnce
  <2>5. Accounted(y)'
    BY <2>2, AccountedLasts
  <2> QED
    BY <2>1, <2>4, <2>5 DEF Accounted, FiledOnce
<1> QED
  BY <1>6, <1>7, <1>8 DEF TxInv

LEMMA SendKeepsTx ==
  ASSUME APIInv, TxInv, NEW r \in Requests, Send(r)
  PROVE  TxInv'
<1> DEFINE q == req[r]
           a == Accepted(q)
<1>1. /\ q \in Handler /\ Sound(q) /\ TxSound(q) /\ q.pc = "send" /\ q.op = "update"
      /\ q.tx \in Tx /\ q.status = 0 /\ owner = Server
  BY HandlerAt DEF Send, At, Sound, UpdateSteps, TxInv, TxSound
<1>2. [Next]_vars /\ rowTx' = rowTx /\ nonce' = nonce
  BY DEF Next, Handle, Send, storeVars
<1>3. a \in Handler
  <2>1. q.sent \cup {q.tx} \in SUBSET Tx
    BY <1>1 DEF Handler
  <2> QED
    BY <1>1, <2>1, Setters DEF Accepted
<1>4. /\ a.pc = "send" /\ a.op = "update" /\ a.tx = q.tx /\ a.status = 0
      /\ a.sent = q.sent \cup {q.tx}
  BY <1>1 DEF Accepted, Handler
<1>5. TxSound(a)
  BY <1>1, <1>4 DEF TxSound
<1>6. TxSound(AfterFailedSend(q)) /\ AfterFailedSend(q).sent = q.sent
  BY <1>1, RetriedTx DEF AfterFailedSend
<1>7. TxSound(AfterFailedSend(a)) /\ AfterFailedSend(a).sent = q.sent \cup {q.tx}
  <2> HIDE DEF a
  <2> QED
    BY <1>1, <1>3, <1>4, <1>5, RetriedTx DEF AfterFailedSend
<1>8. TxSound(AfterSend(a)) /\ AfterSend(a).sent = q.sent \cup {q.tx}
  <2>1. LET x == AfterSend(a)
        IN  /\ x.pc = "readBack" /\ x.op = "update" /\ x.tx = q.tx /\ x.status = 0
            /\ x.sent = q.sent \cup {q.tx}
    <3> HIDE DEF a
    <3> QED
      BY <1>3, <1>4 DEF AfterSend, Handler
  <2> QED
    BY <2>1 DEF TxSound
<1>9. CASE /\ Acceptable(q.tx) /\ pool' = PoolWith(q.tx)
           /\ Step(r, AfterSend(a)) \/ Step(r, AfterFailedSend(a))
  <2> HIDE DEF a
  <2> QED
    BY <1>1, <1>2, <1>7, <1>8, <1>9, AcceptedKeepsTx
<1>10. CASE Step(r, AfterFailedSend(q))
  BY <1>1, <1>2, <1>6, <1>10, PassStep
<1> QED
  BY <1>9, <1>10 DEF Send

(* A row takes the hash of its request's transaction when the request is   *)
(* over; a reader's row takes none.                                        *)
LEMMA SaveKeepsTx ==
  ASSUME APIInv, TxInv, NEW r \in Requests, DbSave(r)
  PROVE  TxInv'
<1> DEFINE q == req[r]
           x == Replied(q, 200)
<1>1. /\ q \in Handler /\ Sound(q) /\ TxSound(q) /\ q.pc = "dbSave"
      /\ RowIds(q.data.roundId) \subseteq RoundIds
      /\ q.tx \in Tx \cup {NoTx}
  BY HandlerAt DEF DbSave, At, TxInv, Handler, Reply, RowIds
<1>2. /\ IF q.op = "update" THEN q.tx \in q.sent /\ q.tx # NoTx ELSE q.tx = NoTx
  <2>1. q.sent \subseteq Tx
    BY <1>1 DEF Handler
  <2> QED
    BY <1>1, <2>1, NoTxIsNone DEF TxSound
<1>3. TxSound(x) /\ x.sent = q.sent /\ x.pc = "done"
  BY <1>1, <1>2, RepliedTx, RepliedFields
<1>4. [Next]_vars /\ Step(r, x)
  BY DEF Next, Handle, DbSave
<1> HIDE DEF x
<1>5. CASE rowTx' = rowTx
  BY <1>1, <1>3, <1>4, <1>5, PassStep
<1>6. ASSUME NEW id \in RoundIds, rowTx' = [rowTx EXCEPT ![id] = q.tx]
      PROVE  TxInv'
  <2>1. /\ req'[r] = x /\ \A s \in Requests : s # r => req'[s] = req[s]
        /\ rowTx'[id] = q.tx
        /\ \A other \in RoundIds : other # id => rowTx'[other] = rowTx[other]
    BY <1>1, <1>4, <1>6 DEF Step, APIInv, TypeOK
  <2>2. \A s \in Requests : req'[s].sent = req[s].sent /\ (req[s].pc = "done" => req'[s].pc = "done")
    BY <1>1, <1>3, <2>1
  <2>3. \A s \in Requests : TxSound(req[s])'
    <3>1. \A s \in Requests : TxSound(req'[s])
      BY <1>3, <2>1 DEF TxInv
    <3> QED
      BY <1>4, <3>1, SoundStays
  <2>4. ASSUME NEW s \in Requests, NEW y \in req'[s].sent
        PROVE  Accounted(y)' /\ SentOnce(y, s)'
    <3>1. y \in req[s].sent
      BY <2>2, <2>4
    <3>2. Accounted(y)'
      BY <1>4, <3>1, TxTyped, AccountedLasts DEF TxInv
    <3> QED
      BY <2>2, <3>1, <3>2 DEF TxInv, SentOnce
  <2>5. \A other \in RoundIds : q.tx # NoTx => rowTx[other] # q.tx
    <3> SUFFICES ASSUME NEW other \in RoundIds, q.tx # NoTx, rowTx[other] = q.tx PROVE FALSE
      OBVIOUS
    <3>1. FiledOnce(rowTx[other], other) /\ q.tx \in q.sent
      BY <1>2 DEF TxInv
    <3> QED
      BY <1>1, <3>1 DEF FiledOnce
  <2>6. ASSUME NEW i \in RoundIds, rowTx'[i] # NoTx
        PROVE  Accounted(rowTx[i])' /\ FiledOnce(rowTx[i], i)'
    <3>1. PICK y : y = rowTx'[i]
      OBVIOUS
    <3>2. CASE i = id
      <4>1. y = q.tx /\ q.op = "update" /\ q.tx \in q.sent
        BY <1>2, <2>1, <2>6, <3>1, <3>2
      <4>2. Accounted(y)' /\ SentOnce(y, r)
        BY <1>4, <4>1, TxTyped, AccountedLasts DEF TxInv
      <4>3. FiledOnce(y, i)'
        BY <1>3, <2>1, <2>2, <2>5, <2>6, <3>1, <3>2, <4>1, <4>2 DEF FiledOnce, SentOnce
      <4> QED
        BY <3>1, <4>2, <4>3 DEF Accounted, FiledOnce
    <3>3. CASE i # id
      <4>1. y = rowTx[i]
        BY <2>1, <3>1, <3>3
      <4>2. Accounted(y) /\ FiledOnce(y, i) /\ y.nonce \in Nat /\ y.gasPrice \in Nat
        BY <2>6, <3>1, <4>1, TxTyped DEF TxInv
      <4>3. Accounted(y)'
        BY <1>4, <4>2, AccountedLasts
      <4>4. q.tx # y
        BY <2>5, <2>6, <3>1, <4>1
      <4>5. FiledOnce(y, i)'
        BY <2>1, <2>2, <4>2, <4>4 DEF FiledOnce
      <4> QED
        BY <3>1, <4>3, <4>5 DEF Accounted, FiledOnce
    <3> QED
      BY <3>2, <3>3
  <2> QED
    BY <2>3, <2>4, <2>6 DEF TxInv
<1> QED
  BY <1>1, <1>5, <1>6 DEF DbSave
-----------------------------------------------------------------------------
LEMMA TransactionsStaySound ==
  ASSUME APIInv, TxInv, [Next]_vars
  PROVE  TxInv'
<1>1. \A r \in Requests : req[r] \in Handler /\ Sound(req[r]) /\ TxSound(req[r])
  BY HandlerAt DEF TxInv
<1>2. ASSUME NEW r \in Requests,
             \/ CacheGet(r) \/ DbGet(r) \/ RpcRead(r) \/ CacheSet(r)
             \/ CheckOwner(r) \/ Prepare(r) \/ ReadBack(r) \/ CacheDel(r)
      PROVE  TxInv'
  <2>1. PICK x : Step(r, x) /\ TxSound(x) /\ x.sent = req[r].sent
    BY <1>1, <1>2, ReadsPass, UpdatesPass
  <2>2. rowTx' = rowTx /\ req[r].pc # "done"
    BY <1>2 DEF CacheGet, DbGet, RpcRead, CacheSet, CheckOwner, Prepare, ReadBack, CacheDel,
                At, storeVars
  <2> QED
    BY <2>1, <2>2, PassStep
<1>3. ASSUME NEW r \in Requests, NEW x, Step(r, x), TxSound(x), x.sent = {}, rowTx' = rowTx
      PROVE  TxInv'
  <2>1. req'[r] = x /\ \A s \in Requests : s # r => req'[s] = req[s]
    BY <1>3 DEF Step, APIInv, TypeOK
  <2>2. \A s \in Requests :
           /\ TxSound(req'[s])
           /\ req'[s].sent = {} \/ req'[s].sent = req[s].sent
           /\ req'[s].sent = req[s].sent /\ req[s].pc = "done" =>
                 req'[s].pc = "done" \/ req[s].sent = {}
    BY <1>1, <1>3, <2>1
  <2> QED
    BY <1>3, <2>2, QuietStep
<1>4. ASSUME NEW r \in Requests, Arrive(r)
      PROVE  TxInv'
  <2>1. PICK op \in Workload[r] : \E arg \in Args(op) : Step(r, Arrived(op, arg))
    BY <1>4 DEF Arrive
  <2>2. PICK arg \in Args(op) : Step(r, Arrived(op, arg))
    BY <2>1
  <2>3. TxSound(Arrived(op, arg)) /\ Arrived(op, arg).sent = {}
    BY DEF Arrived, FirstCall, TxSound
  <2>4. rowTx' = rowTx
    BY <1>4 DEF Arrive, storeVars
  <2> QED
    BY <1>3, <2>2, <2>3, <2>4
<1>5. ASSUME NEW r \in Requests, RefuseBadRequest(r)
      PROVE  TxInv'
  <2>1. PICK op \in Workload[r] : Step(r, Replied([Idle EXCEPT !.op = op], 400))
    BY <1>5 DEF RefuseBadRequest
  <2> DEFINE x == Replied([Idle EXCEPT !.op = op], 400)
  <2>2. x.pc = "done" /\ x.status = 400 /\ x.tx = NoTx /\ x.sent = {}
    BY DEF Replied, Idle
  <2>3. TxSound(x)
    BY <2>2 DEF TxSound
  <2>4. rowTx' = rowTx
    BY <1>5 DEF RefuseBadRequest, storeVars
  <2> QED
    BY <1>3, <2>1, <2>2, <2>3, <2>4
<1>6. ASSUME NEW r \in Requests, Disconnect(r)
      PROVE  TxInv'
  <2> DEFINE x == [req[r] EXCEPT !.live = FALSE]
  <2>1. LET q == req[r]
        IN  x.pc = q.pc /\ x.op = q.op /\ x.tx = q.tx /\ x.sent = q.sent /\ x.status = q.status
    BY <1>1 DEF Handler
  <2>2. TxSound(x)
    BY <1>1, <2>1 DEF TxSound
  <2>3. Step(r, x) /\ rowTx' = rowTx
    BY <1>6 DEF Disconnect, Step, storeVars
  <2> QED
    BY <2>1, <2>2, <2>3, PassStep
<1>7. CASE Crash
  <2>1. TxSound(Idle) /\ Idle.sent = {}
    BY DEF TxSound, Idle
  <2>2. rowTx' = rowTx /\ \A r \in Requests : req'[r] = Idle
    BY <1>7 DEF Crash, storeVars
  <2> QED
    BY <2>1, <2>2, QuietStep
<1>8. CASE Mine \/ RunScript \/ (\E k \in Keys : Expire(k)) \/ UNCHANGED vars
  <2>1. rowTx' = rowTx /\ req' = req
    BY <1>8 DEF Mine, RunScript, Expire, vars, storeVars
  <2> QED
    BY <1>1, <2>1, QuietStep
<1> QED
  BY <1>2, <1>4, <1>5, <1>6, <1>7, <1>8, SendKeepsTx, SaveKeepsTx DEF Next, Handle

LEMMA TxInvariance == Spec => []TxInv
<1>1. Init => TxInv
  <2> SUFFICES ASSUME Init PROVE TxInv
    OBVIOUS
  <2>1. TxSound(Idle) /\ Idle.sent = {}
    BY DEF TxSound, Idle
  <2> QED
    BY <2>1 DEF Init, TxInv
<1>2. APIInv /\ TxInv /\ [Next]_vars => TxInv'
  BY TransactionsStaySound
<1> QED
  BY <1>1, <1>2, Invariance, PTL DEF Spec

(* Whatever fails, a transaction that the node took from a handler is      *)
(* mined, pending or outbid, and an update that replied 200 did send the   *)
(* transaction it names: updater.go:85 and handlers.go:264.                *)
THEOREM NoTransactionLost == Spec => []AcknowledgedTxAccounted
<1>1. TxInv => AcknowledgedTxAccounted
  BY DEF TxInv, TxSound, AcknowledgedTxAccounted
<1> QED
  BY <1>1, TxInvariance, PTL

(* A hash is written to the table by its own request, whose transaction    *)
(* with that hash the node took, and is in no other row: handlers.go:295,  *)
(* for any number of updates that save the same round.                     *)
THEOREM HashesFiledOnce == Spec => RowHashesWereSent
<1>1. ASSUME APIInv, TxInv, [Next]_vars, NEW id \in RoundIds,
             rowTx'[id] # rowTx[id], rowTx'[id] # NoTx
      PROVE  /\ \E r \in Requests : req[r].pc = "dbSave" /\ rowTx'[id] \in req[r].sent
             /\ \A other \in RoundIds : rowTx[other] # rowTx'[id]
  <2>1. PICK r \in Requests : DbSave(r)
    BY <1>1 DEF Next, Handle, Arrive, RefuseBadRequest, Disconnect, CacheGet, DbGet, RpcRead,
                CacheSet, CheckOwner, Prepare, Send, ReadBack, CacheDel, Expire, Crash,
                Mine, RunScript, storeVars, vars
  <2> DEFINE q == req[r]
  <2>2. /\ q.pc = "dbSave" /\ TxSound(q) /\ q.op \in Ops /\ rowTx'[id] = q.tx
    BY <1>1, <2>1, HandlerAt DEF DbSave, At, TxInv, Sound, APIInv, TypeOK
  <2>3. q.tx \in q.sent
    BY <1>1, <2>2 DEF TxSound
  <2>4. ASSUME NEW other \in RoundIds, rowTx[other] = q.tx
        PROVE  FALSE
    <3>1. FiledOnce(q.tx, other)
      BY <1>1, <2>2, <2>4 DEF TxInv
    <3> QED
      BY <2>2, <2>3, <3>1 DEF FiledOnce
  <2> QED
    BY <2>2, <2>3, <2>4
<1>2. APIInv /\ TxInv /\ [Next]_vars =>
         [\A id \in RoundIds : rowTx'[id] # rowTx[id] /\ rowTx'[id] # NoTx =>
             /\ \E r \in Requests : req[r].pc = "dbSave" /\ rowTx'[id] \in req[r].sent
             /\ \A other \in RoundIds : rowTx[other] # rowTx'[id]]_vars
  BY <1>1
<1> QED
  BY <1>2, Invariance, TxInvariance, PTL DEF Spec, RowHashesWereSent
-----------------------------------------------------------------------------
(***************************************************************************)
(* Receipts.  What is pending is the owner's, so a transaction reverts for *)
(* no other reason than its answer or the last round id.                   *)
(***************************************************************************)
PoolOfOwner == pool # {} => owner = Server

(* A receipt of a round that is there, or of a refusal.                    *)
ReceiptSound(x) ==
    /\ x.round = 0 => x.tx.answer <= 0 \/ latestRoundId = MaxRoundId
    /\ x.round # 0 => /\ x.round \in 1..latestRoundId
                      /\ x.tx.answer > 0 /\ rounds[x.round].answer = x.tx.answer

ReceiptInv ==
    /\ PoolOfOwner
    /\ \A x \in receipts : ReceiptSound(x)
    /\ \A x, y \in receipts : x.round = y.round /\ x.round # 0 => x = y

LEMMA ReceiptLasts ==
  ASSUME APIInv, ContractInv, [Next]_vars, NEW x, ReceiptSound(x)
  PROVE  ReceiptSound(x)'
<1>1. /\ latestRoundId' \in 1..MaxRoundId /\ latestRoundId' >= latestRoundId
      /\ \A id \in 1..latestRoundId : rounds'[id] = rounds[id]
  BY StepIsContractStep, RoundsLast
<1>2. latestRoundId \in 1..MaxRoundId
  BY DEF ContractInv, OracleTypeOK
<1> QED
  BY <1>1, <1>2, OracleAssumption DEF ReceiptSound

(* A mined transaction of the owner gets a round of its own, or reverts    *)
(* for its answer or for want of another round id.                         *)
LEMMA MineKeepsReceipts ==
  ASSUME APIInv, ContractInv, ReceiptInv, NEW tx \in pool, MineTx(tx), [Next]_vars
  PROVE  ReceiptInv'
<1>1. /\ owner = Server /\ pool \subseteq Tx /\ latestRoundId \in 1..MaxRoundId
      /\ rounds \in [RoundIds -> RoundData] /\ tx.answer \in Int
      /\ receipts \subseteq [tx : Tx, round : RoundIds]
      /\ nonce \in Nat /\ \A p \in pool : p.nonce = nonce
  BY OracleAssumption DEF ReceiptInv, PoolOfOwner, APIInv, TypeOK, NodeTypeOK, OracleTypeOK,
                          OnePendingTx, Tx
<1>2. pool' = {}
  BY <1>1 DEF MineTx
<1>3. \A x \in receipts : x.round \in 0..latestRoundId
  BY <1>1 DEF ReceiptInv, ReceiptSound
<1>4. CASE /\ UpdateAnswer(Server, tx.answer, timestamp + 1)
           /\ receipts' = receipts \cup {[tx |-> tx, round |-> latestRoundId']}
  <2> DEFINE new == [tx |-> tx, round |-> latestRoundId']
  <2>0. new.tx = tx /\ new.round = latestRoundId' /\ receipts' = receipts \cup {new}
    BY <1>4
  <2>1. latestRoundId' = latestRoundId + 1 /\ latestRoundId' \in RoundIds /\ tx.answer > 0
        /\ latestRoundId' \in 1..latestRoundId'
    BY <1>1, <1>4, OracleAssumption DEF UpdateAnswer, NextRoundId, UpdateAllowed, RoundIds
  <2>2. rounds'[latestRoundId'].answer = tx.answer
    BY <1>1, <1>4, <2>1 DEF UpdateAnswer, NextRoundId, NewRound
  <2> HIDE DEF new
  <2>3. /\ new.round # 0 /\ new.round \in 1..latestRoundId' /\ new.tx.answer > 0
        /\ rounds'[new.round].answer = new.tx.answer
    BY <1>1, <2>0, <2>1, <2>2
  <2>4. \A x \in receipts : x.round # new.round
    BY <1>1, <1>3, <2>0, <2>1
  <2>5. \A x \in receipts : ReceiptSound(x)'
    BY ReceiptLasts DEF ReceiptInv
  <2> QED
    BY <1>2, <2>0, <2>3, <2>4, <2>5 DEF ReceiptInv, PoolOfOwner, ReceiptSound
<1>5. CASE /\ ~UpdateAllowed(Server, tx.answer) /\ NextBlock(timestamp + 1)
           /\ receipts' = receipts \cup {[tx |-> tx, round |-> 0]}
  <2>1. tx.answer <= 0 \/ latestRoundId = MaxRoundId
    BY <1>1, <1>5, OracleAssumption DEF UpdateAllowed
  <2>2. latestRoundId' = latestRoundId
    BY <1>5 DEF NextBlock
  <2>3. \A x \in receipts : ReceiptSound(x)'
    BY ReceiptLasts DEF ReceiptInv
  <2> QED
    BY <1>2, <1>5, <2>1, <2>2, <2>3 DEF ReceiptInv, PoolOfOwner, ReceiptSound
<1> QED
  BY <1>4, <1>5 DEF MineTx

LEMMA ReceiptsStaySound ==
  ASSUME APIInv, ContractInv, TxInv, ReceiptInv, [Next]_vars
  PROVE  ReceiptInv'
<1>1. CASE receipts' = receipts /\ PoolOfOwner'
  <2>1. \A x \in receipts : ReceiptSound(x)'
    BY ReceiptLasts DEF ReceiptInv
  <2> QED
    BY <1>1, <2>1 DEF ReceiptInv
<1>2. CASE UNCHANGED nodeVars
  BY <1>1, <1>2, OwnerStays DEF nodeVars, ReceiptInv, PoolOfOwner
<1>3. ASSUME NEW r \in Requests, Send(r)
      PROVE  receipts' = receipts /\ PoolOfOwner'
  <2>1. owner = Server
    BY <1>3 DEF Send, At, TxInv, TxSound
  <2> QED
    BY <1>3, <2>1, OwnerStays DEF Send, PoolOfOwner
<1>4. ASSUME NEW a, ScriptUpdate(a)
      PROVE  receipts' = receipts /\ PoolOfOwner'
  BY <1>4, OwnerStays DEF ScriptUpdate, ReceiptInv, PoolOfOwner
<1>5. UNCHANGED nodeVars \/ (\E r \in Requests : Send(r)) \/ Mine \/ RunScript
  BY DEF Next, Handle, Arrive, RefuseBadRequest, Disconnect, CacheGet, DbGet, RpcRead,
         CacheSet, DbSave, CheckOwner, Prepare, ReadBack, CacheDel, Expire, Crash, vars
<1> QED
  BY <1>1, <1>2, <1>3, <1>4, <1>5, MineKeepsReceipts DEF Mine, RunScript

(* The check of the owner at handlers.go:249 suffices for good: of what    *)
(* the server sends, nothing reverts but a refused answer or a round past  *)
(* the last id, and what succeeds has a round to itself.                   *)
THEOREM ReceiptsFaithful == Spec => []ReceiptsMatchRounds
<1>1. Init => ReceiptInv
  BY DEF Init, NodeInit, ReceiptInv, PoolOfOwner
<1>2. APIInv /\ ContractInv /\ TxInv /\ ReceiptInv /\ [Next]_vars => ReceiptInv'
  BY ReceiptsStaySound
<1>3. ReceiptInv => ReceiptsMatchRounds
  BY DEF ReceiptInv, ReceiptSound, ReceiptsMatchRounds
<1> QED
  BY <1>1, <1>2, <1>3, Invariance, TxInvariance, PTL DEF Spec
=============================================================================
