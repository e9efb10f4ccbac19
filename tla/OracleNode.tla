------------------------------ MODULE OracleNode ------------------------------
(***************************************************************************)
(* The Ethereum node the server talks to: the contract, the account nonce  *)
(* of the server's key, the transactions from that key waiting in the      *)
(* node's pool, and the receipts of the mined ones.  The node is not part  *)
(* of the repository; it is modelled from how the updater uses it.  There  *)
(* are no reorganisations: the code has no notion of one.                  *)
(***************************************************************************)
EXTENDS MockOracle

CONSTANTS
    Server,         \* the account of PRIVATE_KEY, under which the server sends
    GasPrices       \* prices SuggestGasPrice may answer

ASSUME NodeAssumption ==
    /\ Server \in Accounts
    /\ GasPrices \subseteq Nat \ {0}

VARIABLES nonce, pool, receipts

nodeVars == <<nonce, pool, receipts>>

\* Signatures are deterministic, so the fields of a transaction are its hash.
Tx == [nonce : Nat, answer : Answers, gasPrice : GasPrices]

NodeInit == nonce = 0 /\ pool = {} /\ receipts = {}

(* "nonce too low", "already known" and "replacement underpriced" are the  *)
(* three refusals: a pending transaction gives way only to a dearer one.   *)
Acceptable(tx) ==
    /\ tx.nonce >= nonce
    /\ \A p \in pool : p.nonce = tx.nonce => p.gasPrice < tx.gasPrice

PoolWith(tx) == {p \in pool : p.nonce # tx.nonce} \cup {tx}

\* The next block mines tx; a call the contract refuses still uses its nonce.
MineTx(tx) ==
    /\ tx \in pool /\ tx.nonce = nonce
    /\ timestamp + 1 \in Times
    /\ \/ /\ UpdateAnswer(Server, tx.answer, timestamp + 1)
          /\ receipts' = receipts \cup {[tx |-> tx, round |-> latestRoundId']}
       \/ /\ ~UpdateAllowed(Server, tx.answer)
          /\ NextBlock(timestamp + 1)
          /\ receipts' = receipts \cup {[tx |-> tx, round |-> 0]}
    /\ nonce' = nonce + 1
    /\ pool' = {p \in pool : p.nonce > nonce}

(* The owner runs script/Update.s.sol beside the server.  When the server  *)
(* holds the owner's key, both spend nonces of one account.                *)
ScriptUpdate(newAnswer) ==
    /\ timestamp + 1 \in Times
    /\ UpdateAnswer(owner, newAnswer, timestamp + 1)
    /\ nonce' = IF owner = Server THEN nonce + 1 ELSE nonce
    /\ pool' = {p \in pool : p.nonce >= nonce'}
    /\ UNCHANGED receipts

NodeTypeOK ==
    /\ OracleTypeOK
    /\ nonce \in Nat
    /\ pool \subseteq Tx
    /\ receipts \subseteq [tx : Tx, round : RoundIds]

(* The updater never has two transactions in flight: NonceAt names the     *)
(* next unmined nonce, so a second send either replaces the first or is    *)
(* refused, and no gap in the nonces can block the account.                *)
OnePendingTx == \A p, q \in pool : p = q /\ p.nonce = nonce
=============================================================================
