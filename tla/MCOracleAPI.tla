----------------------------- MODULE MCOracleAPI -----------------------------
(* Workloads and faults for the runs of the whole API. *)
EXTENDS OracleAPI, TLC

Reads == [r \in Requests |-> {"latest", "round"}]
Latest == [r \in Requests |-> {"latest"}]
Updates == [r \in Requests |-> {"update"}]
Mixed == [r \in Requests |-> {"latest", "update"}]

AnyFault == FaultKinds
ServiceFaults == {"redis", "postgres", "rpc"}
UpdateFaults == {"rpc", "reply", "client", "crash"}
ReplyLost == {"reply"}
PostgresDown == {"postgres"}
NoFault == {}

ZeroAndOne == {0, 1}
NoAnswers == {}
One == {1}
Two == {2}
OneToThree == 1..3
OneToTwo == 1..2
OneToFour == 1..4
ThreeRounds == 0..3

SlotSymmetry == Permutations(Requests)
=============================================================================
