---------------------------- MODULE OracleService ----------------------------
(***************************************************************************)
(* What the HTTP API promises its clients, with no cache, table, node or   *)
(* retry in sight: a client that asks is either refused or given an entry  *)
(* of the append-only feed, published no later than the reply; a client    *)
(* that asked for a round is given that round.  The promise ends with the  *)
(* last entry whose number a reply can hold.                               *)
(***************************************************************************)
EXTENDS PriceFeed

CONSTANTS
    Clients, Operations, Arguments,
    LargestId       \* the largest number a reply can hold

VARIABLE client

serviceVars == <<feed, client>>

\* What passes between a client and the service; `id' and `entry' are the reply.
Waits(op, arg) == [state |-> "waiting", op |-> op, arg |-> arg]
Answered(op, arg, id, entry) ==
    [state |-> "answered", op |-> op, arg |-> arg, id |-> id, entry |-> entry]
Refused == [state |-> "refused"]
Away == [state |-> "away"]

ServiceInit == FeedInit /\ client = [c \in Clients |-> Away]

Ask(c) ==
    /\ client[c].state # "waiting"
    /\ \E op \in Operations, arg \in Arguments :
          client' = [client EXCEPT ![c] = Waits(op, arg)]
    /\ UNCHANGED feed

AnswerWithEntry(c) ==
    /\ client[c].state = "waiting"
    /\ \E id \in 1..Len(feed) :
          /\ client[c].op = "round" => id = client[c].arg
          /\ client' = [client EXCEPT
                           ![c] = Answered(@.op, @.arg, id, feed[id])]
    /\ UNCHANGED feed

\* Of a feed with entries that cannot be told apart nothing is promised.
AnswerUnfit(c) ==
    /\ client[c].state = "waiting"
    /\ Len(feed) > LargestId
    /\ client' = [client EXCEPT ![c] = client'[c]]
    /\ client'[c].state = "answered"
    /\ client'[c].op = client[c].op /\ client'[c].arg = client[c].arg
    /\ UNCHANGED feed

Refuse(c) ==
    /\ client' = [client EXCEPT ![c] = Refused]
    /\ UNCHANGED feed

\* The service restarts and every connection is gone.
Restart ==
    /\ client' = [c \in Clients |-> Away]
    /\ UNCHANGED feed

ServiceNext ==
    \/ Publish /\ UNCHANGED client
    \/ \E c \in Clients : Ask(c) \/ AnswerWithEntry(c) \/ AnswerUnfit(c) \/ Refuse(c)
    \/ Restart

ServiceSpec == ServiceInit /\ [][ServiceNext]_serviceVars
=============================================================================
