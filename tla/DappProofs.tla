------------------------------ MODULE DappProofs ------------------------------
(***************************************************************************)
(* Theorems about the dapp, for any number of tabs, tokens and             *)
(* transactions.                                                           *)
(***************************************************************************)
EXTENDS Dapp, TLAPS

Page == [open : BOOLEAN, connected : BOOLEAN, token : Tokens, balance : Tokens \cup {Null},
         loads : SUBSET Tokens, inTurn : BOOLEAN, history : SUBSET Nat, unsaved : BOOLEAN]
Statuses == {"asked", "pending", "refused", "ok", "reverted"}
Transaction == [tab : Tabs, token : Tokens, status : Statuses, waiting : BOOLEAN]

Typed ==
    /\ page \in [Tabs -> Page]
    /\ txs \in Seq(Transaction)
    /\ stored = Null \/ stored \in SUBSET Nat
    /\ kept \in BOOLEAN

\* A transaction that was mined and did not revert stays so.
Happened(i) == i \in DOMAIN txs /\ txs[i].status = "ok"
Recorded == (IF stored = Null THEN {} ELSE stored) \cup UNION {page[t].history : t \in Tabs}

(* As long as tabs are used in turn, the one that is open knows all that   *)
(* is stored.                                                              *)
InTurn ==
    kept => /\ \A t, u \in Opened : t = u
            /\ \A t \in Opened : stored # Null => stored \subseteq page[t].history

DappInv ==
    /\ Typed
    /\ \A i \in Recorded : Happened(i)
    /\ InTurn

LEMMA LoadingTyped ==
  ASSUME NEW p \in Page, NEW k \in Tokens
  PROVE  /\ Loading(p, k) \in Page
         /\ Loading(p, k).history = p.history /\ Loading(p, k).open = p.open
BY DEF Loading, Page

LEMMA ClosedTyped == Closed \in Page
BY DappAssumption DEF Closed, Page

(* One page changes: its history may only grow, unless it is closed or     *)
(* opened, and nothing is stored.                                          *)
LEMMA PageStep ==
  ASSUME DappInv, NEW t \in Tabs, NEW p \in Page, Update(t, p), UNCHANGED <<stored, kept>>,
         p.open = page[t].open, page[t].history \subseteq p.history,
         txs' \in Seq(Transaction),
         \A i : Happened(i) => Happened(i)',
         \A i \in p.history : Happened(i)'
  PROVE  DappInv'
<1>1. page' = [page EXCEPT ![t] = p] /\ page \in [Tabs -> Page]
  BY DEF Update, DappInv, Typed
<1>2. Typed'
  BY <1>1 DEF DappInv, Typed
<1>3. \A i \in Recorded' : Happened(i)'
  <2> SUFFICES ASSUME NEW i \in Recorded' PROVE Happened(i)'
    OBVIOUS
  <2>1. i \in Recorded \/ i \in p.history
    BY <1>1 DEF Recorded
  <2> QED
    BY <2>1 DEF DappInv
<1>4. InTurn'
  <2>1. Opened' = Opened
    BY <1>1 DEF Opened
  <2>2. \A u \in Tabs : page[u].history \subseteq page'[u].history
    BY <1>1
  <2> QED
    BY <2>1, <2>2 DEF DappInv, InTurn, Opened
<1> QED
  BY <1>2, <1>3, <1>4 DEF DappInv

(* Only the transactions change, and what succeeded stays so.              *)
LEMMA TxStep ==
  ASSUME DappInv, UNCHANGED <<page, stored, kept>>,
         txs' \in Seq(Transaction),
         \A i : Happened(i) => Happened(i)'
  PROVE  DappInv'
<1>1. Typed' /\ InTurn'
  BY DEF DappInv, Typed, InTurn, Opened
<1>2. \A i \in Recorded' : Happened(i)'
  BY DEF DappInv, Recorded
<1> QED
  BY <1>1, <1>2 DEF DappInv

(* One transaction changes, not one that succeeded.                        *)
LEMMA SetTxStep ==
  ASSUME DappInv, NEW i \in DOMAIN txs, NEW tx \in Transaction, SetTx(i, tx),
         txs[i].status = "ok" => tx.status = "ok"
  PROVE  /\ txs' \in Seq(Transaction) /\ DOMAIN txs' = DOMAIN txs
         /\ \A j : Happened(j) => Happened(j)'
<1>1. txs' = [txs EXCEPT ![i] = tx] /\ txs \in Seq(Transaction)
  BY DEF SetTx, DappInv, Typed
<1>2. /\ txs' \in Seq(Transaction) /\ DOMAIN txs' = DOMAIN txs
      /\ \A j \in DOMAIN txs : txs'[j] = IF j = i THEN tx ELSE txs[j]
  BY <1>1
<1> QED
  BY <1>2 DEF DappInv, Happened
-----------------------------------------------------------------------------
LEMMA OpenKeeps ==
  ASSUME DappInv, NEW t \in Tabs, Open(t)
  PROVE  DappInv'
<1> DEFINE p == [Closed EXCEPT !.open = TRUE, !.history = Saved, !.unsaved = TRUE]
<1>1. p \in Page /\ p.open = TRUE /\ p.history = Saved
  BY ClosedTyped DEF Page, Saved, DappInv, Typed
<1>2. page' = [page EXCEPT ![t] = p] /\ page \in [Tabs -> Page]
  BY DEF Open, Update, DappInv, Typed
<1> HIDE DEF p
<1>3. UNCHANGED <<txs, stored>> /\ kept' = (kept /\ Opened = {}) /\ kept \in BOOLEAN
  BY DEF Open, DappInv, Typed
<1>4. Typed'
  BY <1>1, <1>2, <1>3 DEF DappInv, Typed
<1>5. \A i \in Recorded' : Happened(i)'
  <2>1. \A i \in Recorded' : i \in Recorded
    BY <1>1, <1>2, <1>3 DEF Recorded, Saved
  <2> QED
    BY <1>3, <2>1 DEF DappInv, Happened
<1>6. InTurn'
  <2> SUFFICES ASSUME kept' PROVE InTurn'
    BY DEF InTurn
  <2>1. Opened' = {t}
    BY <1>1, <1>2, <1>3 DEF Opened
  <2> QED
    BY <1>1, <1>2, <1>3, <2>1 DEF InTurn, Saved
<1> QED
  BY <1>4, <1>5, <1>6 DEF DappInv

LEMMA CloseKeeps ==
  ASSUME DappInv, NEW t \in Tabs, Close(t)
  PROVE  DappInv'
<1>1. page' = [page EXCEPT ![t] = Closed] /\ page \in [Tabs -> Page]
  BY DEF Close, Update, DappInv, Typed
<1>2. stored' = stored /\ kept' = (kept /\ ~page[t].unsaved) /\ kept \in BOOLEAN
  BY DEF Close, DappInv, Typed
<1>3. txs \in Seq(Transaction)
  BY DEF DappInv, Typed
<1>4. /\ txs' \in Seq(Transaction) /\ DOMAIN txs' = DOMAIN txs
      /\ \A i \in DOMAIN txs :
            txs'[i].status = txs[i].status /\ txs'[i].token = txs[i].token
  <2> DEFINE left(i) == IF txs[i].tab = t THEN [txs[i] EXCEPT !.waiting = FALSE] ELSE txs[i]
  <2>1. txs' = [i \in DOMAIN txs |-> left(i)]
    BY DEF Close
  <2>2. \A i \in DOMAIN txs :
           /\ left(i) \in Transaction
           /\ left(i).status = txs[i].status /\ left(i).token = txs[i].token
    <3> TAKE i \in DOMAIN txs
    <3>1. txs[i] \in Transaction
      BY <1>3
    <3> QED
      BY <3>1 DEF Transaction
  <2> HIDE DEF left
  <2>3. DOMAIN txs = 1..Len(txs) /\ Len(txs) \in Nat
    BY <1>3
  <2>4. txs' \in [1..Len(txs) -> Transaction]
    BY <2>1, <2>2, <2>3
  <2> QED
    BY <2>1, <2>2, <2>3, <2>4
<1>5. Closed.history = {} /\ Closed.open = FALSE /\ Closed \in Page
  BY ClosedTyped DEF Closed
<1>6. Typed'
  BY <1>1, <1>2, <1>4, <1>5 DEF DappInv, Typed
<1>7. \A i \in Recorded' : Happened(i)'
  <2>1. \A i \in Recorded' : i \in Recorded
    BY <1>1, <1>2, <1>5 DEF Recorded
  <2> QED
    BY <1>4, <2>1 DEF DappInv, Happened
<1>8. InTurn'
  <2>1. Opened' = Opened \ {t} /\ \A u \in Opened' : page'[u] = page[u]
    BY <1>1, <1>5 DEF Opened
  <2> QED
    BY <1>2, <2>1 DEF DappInv, InTurn
<1> QED
  BY <1>6, <1>7, <1>8 DEF DappInv

LEMMA SaveKeeps ==
  ASSUME DappInv, NEW t \in Tabs, Save(t)
  PROVE  DappInv'
<1> DEFINE p == [page[t] EXCEPT !.unsaved = FALSE]
<1>1. page \in [Tabs -> Page] /\ page[t] \in Page
  BY DEF DappInv, Typed
<1>2. p \in Page /\ p.history = page[t].history /\ p.open = page[t].open
  BY <1>1 DEF Page
<1>3. page' = [page EXCEPT ![t] = p] /\ stored' = page[t].history /\ UNCHANGED <<txs, kept>>
  BY DEF Save, Update
<1> HIDE DEF p
<1>4. Typed'
  BY <1>1, <1>2, <1>3 DEF DappInv, Typed, Page
<1>5. \A i \in Recorded' : Happened(i)'
  <2>1. \A i \in Recorded' : i \in Recorded
    BY <1>1, <1>2, <1>3 DEF Recorded
  <2> QED
    BY <1>3, <2>1 DEF DappInv, Happened
<1>6. InTurn'
  <2>1. Opened' = Opened /\ t \in Opened /\ page'[t].history = stored'
    BY <1>1, <1>2, <1>3 DEF Opened, Save
  <2> QED
    BY <1>3, <2>1 DEF DappInv, InTurn
<1> QED
  BY <1>4, <1>5, <1>6 DEF DappInv

(* What the user selects and what the loads bring leaves the history alone.*)
LEMMA PageOnlyStep ==
  ASSUME DappInv, NEW t \in Tabs, NEW p \in Page, Update(t, p), UNCHANGED <<txs, stored, kept>>,
         p.open = page[t].open, p.history = page[t].history
  PROVE  DappInv'
<1>1. txs' \in Seq(Transaction)
  BY DEF DappInv, Typed
<1>2. \A i : Happened(i) => Happened(i)'
  BY DEF Happened
<1>3. \A i \in p.history : Happened(i)
  BY DEF DappInv, Recorded
<1> QED
  BY <1>1, <1>2, <1>3, PageStep

LEMMA Viewing ==
  ASSUME DappInv, NEW t \in Tabs,
         Connect(t) \/ \E k \in Tokens : SelectToken(t, k) \/ Loaded(t, k)
  PROVE  \E p \in Page : /\ Update(t, p) /\ UNCHANGED <<txs, stored, kept>>
                        /\ p.open = page[t].open /\ p.history = page[t].history
<1> DEFINE Goal == \E p \in Page : /\ Update(t, p) /\ UNCHANGED <<txs, stored, kept>>
                                  /\ p.open = page[t].open /\ p.history = page[t].history
<1>1. page[t] \in Page
  BY DEF DappInv, Typed
<1>2. CASE Connect(t)
  <2> DEFINE y == [page[t] EXCEPT !.connected = TRUE]
  <2>1. y \in Page /\ y.open = page[t].open /\ y.history = page[t].history
        /\ page[t].token \in Tokens
    BY <1>1 DEF Page
  <2> HIDE DEF y
  <2>2. LET p == Loading(y, page[t].token)
        IN  p \in Page /\ p.open = page[t].open /\ p.history = page[t].history
    BY <2>1, LoadingTyped
  <2> QED
    BY <1>2, <2>2 DEF Connect, y
<1>3. ASSUME NEW k \in Tokens, SelectToken(t, k)
      PROVE  Goal
  <2> DEFINE y == [page[t] EXCEPT !.token = k]
  <2>1. y \in Page /\ y.open = page[t].open /\ y.history = page[t].history /\ y.token = k
    BY <1>1 DEF Page
  <2> HIDE DEF y
  <2>2. LET p == Selected(y)
        IN  p \in Page /\ p.open = page[t].open /\ p.history = page[t].history
    BY <2>1, LoadingTyped DEF Selected
  <2> QED
    BY <1>3, <2>2 DEF SelectToken, y
<1>4. ASSUME NEW k \in Tokens, Loaded(t, k)
      PROVE  Goal
  <2> DEFINE won == [page[t] EXCEPT !.loads = @ \ {k}, !.balance = k]
             lost == [page[t] EXCEPT !.loads = @ \ {k}, !.inTurn = FALSE]
  <2>1. won \in Page /\ won.open = page[t].open /\ won.history = page[t].history
    BY <1>1 DEF Page
  <2>2. lost \in Page /\ lost.open = page[t].open /\ lost.history = page[t].history
    BY <1>1 DEF Page
  <2>3. (Update(t, won) \/ Update(t, lost)) /\ UNCHANGED <<txs, stored, kept>>
    BY <1>4 DEF Loaded
  <2> HIDE DEF won, lost
  <2> QED
    BY <2>1, <2>2, <2>3
<1> QED
  BY <1>2, <1>3, <1>4

LEMMA ViewingKeeps ==
  ASSUME DappInv, NEW t \in Tabs,
         Connect(t) \/ \E k \in Tokens : SelectToken(t, k) \/ Loaded(t, k)
  PROVE  DappInv'
BY Viewing, PageOnlyStep
-----------------------------------------------------------------------------
LEMMA ClickKeeps ==
  ASSUME DappInv, NEW t \in Tabs, Click(t)
  PROVE  DappInv'
<1> DEFINE new == [tab |-> t, token |-> page[t].token, status |-> "asked", waiting |-> TRUE]
<1>1. page[t] \in Page /\ txs \in Seq(Transaction)
  BY DEF DappInv, Typed
<1>2. new \in Transaction /\ new.status = "asked"
  BY <1>1 DEF Page, Transaction, Statuses
<1>3. txs' = Append(txs, new) /\ UNCHANGED <<page, stored, kept>>
  BY DEF Click
<1> HIDE DEF new
<1>4. /\ txs' \in Seq(Transaction) /\ DOMAIN txs' = 1..Len(txs)+1
      /\ \A i \in DOMAIN txs : i \in DOMAIN txs' /\ txs'[i] = txs[i]
      /\ \A i \in DOMAIN txs' : i \in DOMAIN txs \/ txs'[i] = new
  BY <1>1, <1>2, <1>3
<1>5. \A i : Happened(i) => Happened(i)'
  BY <1>4 DEF Happened
<1> QED
  BY <1>3, <1>4, <1>5, TxStep

LEMMA TransactionKeeps ==
  ASSUME DappInv, NEW i \in DOMAIN txs, Submit(i) \/ Mined(i)
  PROVE  DappInv'
<1>1. txs[i] \in Transaction
  BY DEF DappInv, Typed
<1>2. PICK tx \in Transaction : /\ SetTx(i, tx)
                                /\ txs[i].status # "ok" /\ UNCHANGED <<page, stored, kept>>
  <2>1. CASE Submit(i)
    <3> DEFINE sent == [txs[i] EXCEPT !.status = "pending"]
               refused == [txs[i] EXCEPT !.status = "refused", !.waiting = FALSE]
    <3>1. sent \in Transaction
      BY <1>1 DEF Transaction, Statuses
    <3>2. refused \in Transaction
      BY <1>1 DEF Transaction, Statuses
    <3>3. /\ SetTx(i, sent) \/ SetTx(i, refused)
          /\ txs[i].status # "ok" /\ UNCHANGED <<page, stored, kept>>
      BY <2>1 DEF Submit
    <3> HIDE DEF sent, refused
    <3> QED
      BY <3>1, <3>2, <3>3
  <2>2. CASE Mined(i)
    <3>1. PICK status \in {"ok", "reverted"} : SetTx(i, [txs[i] EXCEPT !.status = status])
      BY <2>2 DEF Mined
    <3> DEFINE tx == [txs[i] EXCEPT !.status = status]
    <3>2. tx \in Transaction
      BY <1>1, <2>2 DEF Mined, Transaction, Statuses
    <3>3. txs[i].status # "ok" /\ UNCHANGED <<page, stored, kept>>
      BY <2>2 DEF Mined
    <3> HIDE DEF tx
    <3> QED
      BY <3>1, <3>2, <3>3 DEF tx
  <2> QED
    BY <2>1, <2>2
<1>3. /\ txs' \in Seq(Transaction)
      /\ \A j : Happened(j) => Happened(j)'
  BY <1>2, SetTxStep
<1> QED
  BY <1>2, <1>3, TxStep

(* The receipt of a success is the one thing that enters a history.        *)
LEMMA ReceiptKeeps ==
  ASSUME DappInv, NEW i \in DOMAIN txs, Receipt(i)
  PROVE  DappInv'
<1> DEFINE t == txs[i].tab
           done == [txs[i] EXCEPT !.waiting = FALSE]
           y == [page[t] EXCEPT !.history = Prepended(i), !.unsaved = TRUE]
           p == Loading(y, txs[i].token)
<1>1. txs[i] \in Transaction /\ t \in Tabs /\ i \in Nat
  <2>1. txs \in Seq(Transaction)
    BY DEF DappInv, Typed
  <2>2. txs[i] \in Transaction /\ i \in Nat
    BY <2>1
  <2> QED
    BY <2>2 DEF DappInv, Transaction
<1>2. page[t] \in Page
  BY <1>1 DEF DappInv, Typed
<1>3. done \in Transaction /\ done.status = txs[i].status
  BY <1>1 DEF Transaction
<1>4. SetTx(i, done) /\ UNCHANGED <<stored, kept>>
  BY DEF Receipt
<1> HIDE DEF done
<1>5. /\ txs' \in Seq(Transaction) /\ DOMAIN txs' = DOMAIN txs
      /\ \A j : Happened(j) => Happened(j)'
  BY <1>3, <1>4, SetTxStep
<1>6. CASE Succeeded(i) /\ Update(t, p)
  <2>1. /\ y \in Page /\ y.open = page[t].open
        /\ y.history = page[t].history \cup {i}
    BY <1>1, <1>2 DEF Page, Prepended
  <2> HIDE DEF y
  <2>2. p \in Page /\ p.open = page[t].open /\ p.history = page[t].history \cup {i}
    BY <1>1, <2>1, LoadingTyped DEF Transaction
  <2> HIDE DEF p
  <2>3. \A j \in p.history : Happened(j)
    BY <1>1, <1>6, <2>2 DEF DappInv, Recorded, Happened, Succeeded
  <2>4. \A j \in p.history : Happened(j)'
    BY <1>5, <2>3
  <2> QED
    BY <1>1, <1>4, <1>5, <1>6, <2>2, <2>4, PageStep
<1>7. CASE UNCHANGED page
  BY <1>4, <1>5, <1>7, TxStep
<1> QED
  BY <1>6, <1>7 DEF Receipt

LEMMA DappInvariance == Spec => []DappInv
<1>1. Init => DappInv
  <2> SUFFICES ASSUME Init PROVE DappInv
    OBVIOUS
  <2>1. Closed.open = FALSE /\ Closed.history = {}
    BY DEF Closed
  <2> QED
    BY <2>1, ClosedTyped DEF Init, DappInv, Typed, Recorded, InTurn, Opened
<1>2. DappInv /\ [Next]_vars => DappInv'
  <2> SUFFICES ASSUME DappInv, [Next]_vars PROVE DappInv'
    OBVIOUS
  <2>1. CASE UNCHANGED vars
    BY <2>1 DEF vars, DappInv, Typed, Recorded, Happened, InTurn, Opened
  <2>2. Offered \in [Tabs -> SUBSET Tokens]
    BY DappAssumption
  <2>3. CASE \E t \in Tabs :
                \/ Connect(t) \/ (\E k \in Tokens : Loaded(t, k))
                \/ (\E k \in Offered[t] : SelectToken(t, k))
    BY <2>2, <2>3, ViewingKeeps
  <2> QED
    BY <2>1, <2>3, OpenKeeps, CloseKeeps, SaveKeeps, ClickKeeps, TransactionKeeps, ReceiptKeeps
       DEF Next, Effect
<1> QED
  BY <1>1, <1>2, PTL DEF Spec
-----------------------------------------------------------------------------
(* No history, shown or stored, has a transaction that did not succeed.    *)
THEOREM HistoryTruthful == Spec => []RecordsSucceeded
<1>1. DappInv => RecordsSucceeded
  BY DEF DappInv, Recorded, Happened, RecordsSucceeded
<1> QED
  BY <1>1, DappInvariance, PTL

\* No more transactions than clicks.
FewTxs == Len(txs) <= MaxClicks

LEMMA TxsBounded == Spec => []FewTxs
<1>1. Init => FewTxs
  BY DappAssumption DEF Init, FewTxs
<1>2. DappInv /\ FewTxs /\ [Next]_vars => FewTxs'
  <2> SUFFICES ASSUME DappInv, FewTxs, [Next]_vars PROVE FewTxs'
    OBVIOUS
  <2>1. txs \in Seq(Transaction)
    BY DEF DappInv, Typed
  <2>2. ASSUME NEW t \in Tabs, Click(t)
        PROVE  FewTxs'
    <3>1. Len(txs') = Len(txs) + 1 /\ Len(txs) < MaxClicks
      BY <2>1, <2>2 DEF Click
    <3> QED
      BY <2>1, <3>1, DappAssumption DEF FewTxs
  <2>3. ASSUME NEW t \in Tabs, Close(t)
        PROVE  FewTxs'
    <3>1. Len(txs') = Len(txs)
      BY <2>1, <2>3 DEF Close
    <3> QED
      BY <3>1 DEF FewTxs
  <2>4. ASSUME NEW i \in DOMAIN txs, NEW tx, SetTx(i, tx)
        PROVE  FewTxs'
    <3>1. Len(txs') = Len(txs)
      BY <2>1, <2>4 DEF SetTx
    <3> QED
      BY <3>1 DEF FewTxs
  <2>5. ASSUME NEW i \in DOMAIN txs, Submit(i) \/ Mined(i) \/ Receipt(i)
        PROVE  FewTxs'
    BY <2>4, <2>5 DEF Submit, Mined, Receipt
  <2>6. CASE UNCHANGED txs
    BY <2>6 DEF FewTxs
  <2> QED
    BY <2>2, <2>3, <2>5, <2>6 DEF Next, vars, Effect, Open, Connect, Save, Loaded, SelectToken
<1> QED
  BY <1>1, <1>2, DappInvariance, PTL DEF Spec

(* Types, and that no history, shown or stored, is missing or has an entry *)
(* that is no transaction: the first save comes before anything is read    *)
(* back, and what is not there yet reads as an empty history.              *)
THEOREM DappTyped == Spec => []TypeOK
<1>1. DappInv /\ FewTxs => TypeOK
  <2> SUFFICES ASSUME DappInv, FewTxs PROVE TypeOK
    OBVIOUS
  <2>1. page \in [Tabs -> Page] /\ txs \in Seq(Transaction)
    BY DEF DappInv, Typed
  <2>2. DOMAIN txs \subseteq 1..MaxClicks
    BY <2>1, DappAssumption DEF FewTxs
  <2>3. \A t \in Tabs : page[t].history \subseteq DOMAIN txs
    BY DEF DappInv, Recorded, Happened
  <2>4. \A t \in Tabs : page[t].history # Null
    BY <2>2, <2>3, DappAssumption
  <2>5. \A t \in Tabs : page[t].token \in Tokens /\ page[t].loads \subseteq Tokens
    BY <2>1 DEF Page
  <2>6. stored # Null => stored \subseteq DOMAIN txs
    BY DEF DappInv, Recorded, Happened
  <2>7. \A i \in DOMAIN txs : txs[i].status \in Statuses
    <3>1. \A i \in DOMAIN txs : txs[i] \in Transaction
      BY <2>1
    <3> QED
      BY <3>1 DEF Transaction
  <2> QED
    BY <2>3, <2>4, <2>5, <2>6, <2>7 DEF TypeOK, Statuses
<1> QED
  BY <1>1, DappInvariance, TxsBounded, PTL

(* A reload loses no record, as long as tabs are used in turn: only the    *)
(* effect of App.tsx:101 stores, and then the page knows what is stored.   *)
THEOREM ReloadsRemember == Spec => ReloadKeepsRecords
<1> DEFINE Remembered == kept' /\ stored # Null => stored \subseteq stored'
<1>1. DappInv /\ [Next]_vars => [Remembered]_vars
  <2> SUFFICES ASSUME DappInv, Next, kept', stored # Null PROVE stored \subseteq stored'
    OBVIOUS
  <2>1. CASE UNCHANGED stored
    BY <2>1
  <2>2. ASSUME NEW t \in Tabs, Save(t)
        PROVE  stored \subseteq stored'
    <3>1. kept /\ t \in Opened /\ stored' = page[t].history
      BY <2>2 DEF Save, Opened
    <3> QED
      BY <3>1 DEF DappInv, InTurn
  <2> QED
    BY <2>1, <2>2 DEF Next, Effect, Open, Close, Connect, Click, Loaded, SelectToken,
                      Submit, Mined, Receipt
<1> QED
  BY <1>1, DappInvariance, PTL DEF Spec, ReloadKeepsRecords
-----------------------------------------------------------------------------
(* While loads come one by one, the one in flight is that of the token     *)
(* selected, and so was the last one that has ended.                       *)
LoadSound(p) ==
    p.connected /\ p.inTurn => \/ p.loads = {} /\ p.balance = p.token
                              \/ p.loads = {p.token}

BalanceInv == \A t \in Tabs : LoadSound(page[t])

LEMMA LoadingSound ==
  ASSUME NEW p \in Page, NEW k \in Tokens
  PROVE  LoadSound(Loading(p, k))
BY DEF LoadSound, Loading, Page

LEMMA LoadSoundStep ==
  ASSUME DappInv, BalanceInv, NEW t \in Tabs, NEW p, Update(t, p), LoadSound(p)
  PROVE  BalanceInv'
<1>1. page' = [page EXCEPT ![t] = p] /\ page \in [Tabs -> Page]
  BY DEF Update, DappInv, Typed
<1> QED
  BY <1>1 DEF BalanceInv

LEMMA ReceiptLoads ==
  ASSUME DappInv, BalanceInv, NEW i \in DOMAIN txs, Receipt(i)
  PROVE  BalanceInv'
<1> DEFINE t == txs[i].tab
           y == [page[t] EXCEPT !.history = Prepended(i), !.unsaved = TRUE]
           p == Loading(y, txs[i].token)
<1>1. txs \in Seq(Transaction) /\ page \in [Tabs -> Page]
  BY DEF DappInv, Typed
<1>2. txs[i] \in Transaction /\ i \in Nat
  BY <1>1
<1>3. t \in Tabs /\ txs[i].token \in Tokens /\ page[t] \in Page
  BY <1>1, <1>2 DEF Transaction
<1>4. y \in Page
  BY <1>2, <1>3 DEF Page, Prepended
<1> HIDE DEF y
<1>5. LoadSound(p)
  BY <1>3, <1>4, LoadingSound
<1>6. Update(t, p) \/ UNCHANGED page
  BY DEF Receipt, y
<1> HIDE DEF p
<1> QED
  BY <1>3, <1>5, <1>6, LoadSoundStep DEF BalanceInv

(* A balance shown is that of the token selected, as long as loads came    *)
(* one by one: App.tsx:104 starts one for each change of the token.        *)
THEOREM BalanceTrue == Spec => []BalanceOfSelected
<1>1. Init => BalanceInv
  BY DEF Init, BalanceInv, LoadSound, Closed
<1>2. DappInv /\ BalanceInv /\ [Next]_vars => BalanceInv'
  <2> SUFFICES ASSUME DappInv, BalanceInv, [Next]_vars
               PROVE  BalanceInv'
    OBVIOUS
  <2>1. CASE UNCHANGED page
    BY <2>1 DEF BalanceInv
  <2>2. ASSUME NEW t \in Tabs
        PROVE  page[t] \in Page /\ LoadSound(page[t])
    BY DEF DappInv, Typed, BalanceInv
  <2>3. ASSUME NEW t \in Tabs, Open(t) \/ Close(t)
        PROVE  BalanceInv'
    <3>1. LoadSound(Closed) /\ LoadSound([Closed EXCEPT !.open = TRUE, !.history = Saved, !.unsaved = TRUE])
      BY DEF LoadSound, Closed
    <3> QED
      BY <2>3, <3>1, LoadSoundStep DEF Open, Close
  <2>4. ASSUME NEW t \in Tabs, Save(t)
        PROVE  BalanceInv'
    <3>1. LoadSound([page[t] EXCEPT !.unsaved = FALSE])
      BY <2>2 DEF LoadSound, Page
    <3> QED
      BY <2>4, <3>1, LoadSoundStep DEF Save
  <2>5. ASSUME NEW t \in Tabs, Connect(t)
        PROVE  BalanceInv'
    <3>1. [page[t] EXCEPT !.connected = TRUE] \in Page /\ page[t].token \in Tokens
      BY <2>2 DEF Page
    <3> QED
      BY <2>5, <3>1, LoadingSound, LoadSoundStep DEF Connect
  <2>6. ASSUME NEW t \in Tabs, NEW k \in Tokens, SelectToken(t, k)
        PROVE  BalanceInv'
    <3> DEFINE y == [page[t] EXCEPT !.token = k]
    <3>1. y \in Page /\ y.token = k
      BY <2>2 DEF Page
    <3>2. Update(t, Selected(y))
      BY <2>6 DEF SelectToken
    <3> HIDE DEF y
    <3>3. LoadSound(Selected(y))
      BY <3>1, LoadingSound DEF Selected, LoadSound
    <3> QED
      BY <3>2, <3>3, LoadSoundStep
  <2>7. ASSUME NEW t \in Tabs, NEW k \in Tokens, Loaded(t, k)
        PROVE  BalanceInv'
    <3> DEFINE won == [page[t] EXCEPT !.loads = @ \ {k}, !.balance = k]
               lost == [page[t] EXCEPT !.loads = @ \ {k}, !.inTurn = FALSE]
    <3>1. k \in page[t].loads /\ (Update(t, won) \/ Update(t, lost))
      BY <2>7 DEF Loaded
    <3>2. LoadSound(won)
      BY <2>2, <3>1 DEF LoadSound, Page
    <3>3. LoadSound(lost)
      BY <2>2 DEF LoadSound, Page
    <3> HIDE DEF won, lost
    <3> QED
      BY <3>1, <3>2, <3>3, LoadSoundStep
  <2>8. Offered \in [Tabs -> SUBSET Tokens]
    BY DappAssumption
  <2> QED
    BY <2>1, <2>3, <2>4, <2>5, <2>6, <2>7, <2>8, ReceiptLoads
       DEF Next, vars, Effect, Click, Submit, Mined
<1>3. BalanceInv => BalanceOfSelected
  <2> SUFFICES ASSUME BalanceInv, NEW t \in Tabs, page[t].connected, page[t].inTurn,
                      page[t].loads = {}
               PROVE  page[t].balance = page[t].token
    BY DEF BalanceOfSelected
  <2>1. LoadSound(page[t])
    BY DEF BalanceInv
  <2> QED
    BY <2>1 DEF LoadSound
<1> QED
  BY <1>1, <1>2, <1>3, DappInvariance, PTL DEF Spec
=============================================================================
