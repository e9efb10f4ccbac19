--------------------------------- MODULE Dapp ---------------------------------
(***************************************************************************)
(* The browser dapp of src/App.tsx: several tabs, each a React component   *)
(* whose handlers await the wallet and the chain, and one localStorage.    *)
(* What a handler reads of the component's state is what the render had    *)
(* that created it, while setState reaches the state of the day; between   *)
(* two awaits of one handler anything else may happen.                     *)
(***************************************************************************)
EXTENDS Naturals, Sequences, FiniteSets

CONSTANTS
    Tabs,
    Tokens,         \* keys of TOKENS
    FirstToken,     \* the token selected at the start, "MXT"
    Offered,        \* the tokens that the user of each tab selects
    Null,           \* what localStorage.getItem answers before the first save
    MaxClicks       \* bound of the transactions asked for

ASSUME DappAssumption ==
    /\ FirstToken \in Tokens /\ Offered \in [Tabs -> SUBSET Tokens]
    /\ MaxClicks \in Nat
    /\ \A history \in SUBSET (1..MaxClicks) : history # Null

VARIABLES
    page,           \* the state of the component in each tab
    txs,            \* the calls of transferTokens, mintTokens and burnTokens so far
    stored,         \* localStorage "txHistory"
    kept            \* history: no two tabs were ever open at once, nor one closed unsaved

vars == <<page, txs, stored, kept>>

(* The component of a tab: whose balance it shows, and for which tokens    *)
(* loads are in flight.  `inTurn' only records that so far each load was   *)
(* alone in flight, was for the token selected, and succeeded.             *)
Closed == [open |-> FALSE, connected |-> FALSE, token |-> FirstToken, balance |-> Null,
           loads |-> {}, inTurn |-> TRUE, history |-> {}, unsaved |-> FALSE]

Opened == {t \in Tabs : page[t].open}
Update(t, p) == page' = [page EXCEPT ![t] = p]
-----------------------------------------------------------------------------
\* Slips: a missing item is not noticed; the history starts empty.
SavedUnchecked == stored
SavedForgotten == {}

Saved == IF stored = Null THEN {} ELSE stored

\* The first render reads the history; the effect that follows saves it back.
Open(t) ==
    /\ ~page[t].open
    /\ Update(t, [Closed EXCEPT !.open = TRUE, !.history = Saved, !.unsaved = TRUE])
    /\ kept' = (kept /\ Opened = {})
    /\ UNCHANGED <<txs, stored>>

\* A transaction goes on without the tab, and nobody waits for its receipt.
Close(t) ==
    /\ page[t].open
    /\ Update(t, Closed)
    /\ txs' = [i \in DOMAIN txs |->
                  IF txs[i].tab = t THEN [txs[i] EXCEPT !.waiting = FALSE] ELSE txs[i]]
    /\ kept' = (kept /\ ~page[t].unsaved)
    /\ UNCHANGED stored

\* The effect on [txHistory].
Save(t) ==
    /\ page[t].open /\ page[t].unsaved
    /\ stored' = page[t].history
    /\ Update(t, [page[t] EXCEPT !.unsaved = FALSE])
    /\ UNCHANGED <<txs, kept>>

\* loadTokenData, called by a render in which token k was selected.
Loading(p, k) ==
    [p EXCEPT !.loads = @ \cup {k}, !.inTurn = @ /\ p.loads = {} /\ k = p.token]

Connect(t) ==
    /\ page[t].open /\ ~page[t].connected
    /\ Update(t, Loading([page[t] EXCEPT !.connected = TRUE], page[t].token))
    /\ UNCHANGED <<txs, stored, kept>>

\* A slip: the effect that loads depends on the account only.
SelectedUnloaded(p) == p

\* The effect on [tokenKey, account].
Selected(p) == IF p.connected THEN Loading(p, p.token) ELSE p

SelectToken(t, k) ==
    /\ page[t].open /\ page[t].token # k
    /\ Update(t, Selected([page[t] EXCEPT !.token = k]))
    /\ UNCHANGED <<txs, stored, kept>>

(* Loads end in any order, whatever token is selected by then.  One that   *)
(* fails leaves the balance that was shown.                                *)
Loaded(t, k) ==
    /\ k \in page[t].loads
    /\ \/ Update(t, [page[t] EXCEPT !.loads = @ \ {k}, !.balance = k])
       \/ Update(t, [page[t] EXCEPT !.loads = @ \ {k}, !.inTurn = FALSE])
    /\ UNCHANGED <<txs, stored, kept>>
-----------------------------------------------------------------------------
(***************************************************************************)
(* transferTokens, mintTokens and burnTokens, which differ in the function *)
(* they call.  A click with an empty field only shows an alert.            *)
(***************************************************************************)
Click(t) ==
    /\ page[t].open /\ page[t].connected
    /\ Len(txs) < MaxClicks
    /\ txs' = Append(txs, [tab |-> t, token |-> page[t].token, status |-> "asked",
                           waiting |-> TRUE])
    /\ UNCHANGED <<page, stored, kept>>

SetTx(i, tx) == txs' = [txs EXCEPT ![i] = tx]

\* The wallet sends the transaction, or it refuses and the handler is over.
Submit(i) ==
    /\ txs[i].status = "asked" /\ txs[i].waiting
    /\ \/ SetTx(i, [txs[i] EXCEPT !.status = "pending"])
       \/ SetTx(i, [txs[i] EXCEPT !.status = "refused", !.waiting = FALSE])
    /\ UNCHANGED <<page, stored, kept>>

Mined(i) ==
    /\ txs[i].status = "pending"
    /\ \E status \in {"ok", "reverted"} : SetTx(i, [txs[i] EXCEPT !.status = status])
    /\ UNCHANGED <<page, stored, kept>>

\* A slip: the receipt's status is not looked at.
SucceededOrNot(i) == txs[i].status \in {"ok", "reverted"}

\* tx.wait throws for a reverted transaction.
Succeeded(i) == txs[i].status = "ok"

\* A slip: the new history is made from what was saved.
PrependedToSaved(i) == Saved \cup {i}

\* setTxHistory((prev) => [newEntry, ...prev])
Prepended(i) == page[txs[i].tab].history \cup {i}

\* The handler goes on with the receipt: addToHistory, then loadTokenData.
Receipt(i) ==
    LET t == txs[i].tab
    IN  /\ txs[i].waiting /\ txs[i].status \in {"ok", "reverted"}
        /\ SetTx(i, [txs[i] EXCEPT !.waiting = FALSE])
        /\ \/ /\ Succeeded(i)
              /\ Update(t, Loading([page[t] EXCEPT !.history = Prepended(i),
                                                   !.unsaved = TRUE],
                                   txs[i].token))
           \/ ~Succeeded(i) /\ UNCHANGED page
        /\ UNCHANGED <<stored, kept>>
-----------------------------------------------------------------------------
Init ==
    /\ page = [t \in Tabs |-> Closed]
    /\ txs = <<>>
    /\ stored = Null
    /\ kept = TRUE

Effect(t) == Save(t) \/ (\E k \in Tokens : Loaded(t, k))

Next ==
    \/ \E t \in Tabs :
          \/ Open(t) \/ Close(t) \/ Connect(t) \/ Click(t) \/ Effect(t)
          \/ \E k \in Offered[t] : SelectToken(t, k)
    \/ \E i \in DOMAIN txs : Submit(i) \/ Mined(i) \/ Receipt(i)

Spec == Init /\ [][Next]_vars

(* The browser runs effects and the handlers whose promise has settled.  A *)
(* promise of the wallet or the chain need not settle.                     *)
Fairness ==
    /\ \A t \in Tabs : WF_vars(Save(t))
    /\ \A i \in 1..MaxClicks : WF_vars(i \in DOMAIN txs /\ Receipt(i))

FairSpec == Spec /\ Fairness
-----------------------------------------------------------------------------
TypeOK ==
    /\ \A t \in Tabs :
          /\ page[t].history # Null /\ page[t].history \subseteq DOMAIN txs
          /\ page[t].token \in Tokens /\ page[t].loads \subseteq Tokens
    /\ stored # Null => stored \subseteq DOMAIN txs
    /\ \A i \in DOMAIN txs :
          txs[i].status \in {"asked", "pending", "refused", "ok", "reverted"}

(* At rest, the balance under the symbol of the selected token is that     *)
(* token's, as long as loads came one by one and succeeded.  (A load that  *)
(* is overtaken, that fails, or that follows a transaction of another token*)
(* leaves the balance of one token under the symbol of another.)           *)
BalanceOfSelected ==
    \A t \in Tabs : page[t].connected /\ page[t].inTurn /\ page[t].loads = {} =>
        page[t].balance = page[t].token

(* Every entry of a history, on a page or in localStorage, is of a         *)
(* transaction that was mined and did not revert.                          *)
RecordsSucceeded ==
    \A i \in DOMAIN txs :
        (\/ stored # Null /\ i \in stored
         \/ \E t \in Tabs : i \in page[t].history) => txs[i].status = "ok"

(* As long as tabs are opened one after the other and closed with nothing  *)
(* unsaved, what localStorage holds survives every reload.  (Two tabs at   *)
(* once do overwrite what the other has saved.)                            *)
ReloadKeepsRecords ==
    [][kept' /\ stored # Null => stored \subseteq stored']_vars

(* A transaction that succeeds while its tab waits for it gets into        *)
(* localStorage, unless the tab is closed first: receipts of several come  *)
(* in any order between two saves, and none drops what another added.      *)
SuccessIsStored ==
    \A i \in 1..MaxClicks :
        i \in DOMAIN txs /\ txs[i].waiting /\ txs[i].status = "ok" ~>
            (stored # Null /\ i \in stored) \/ (i \in DOMAIN txs /\ ~page[txs[i].tab].open)
=============================================================================
