-------------------------------- MODULE MCDapp --------------------------------
(* Two tabs; the user of the first changes to another token, once a visit. *)
EXTENDS Dapp

CONSTANTS t1, t2, MXT, WBTC

OneChanges == [t \in Tabs |-> IF t = t1 THEN Tokens \ {FirstToken} ELSE {}]
===============================================================================
