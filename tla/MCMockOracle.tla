---------------------------- MODULE MCMockOracle ----------------------------
(* The contract alone: two callers, one of them the owner, answers on both *)
(* sides of zero, and a round id that overflows within the run.            *)
EXTENDS MockOracle

MCAnswers == {-1, 0, 1, 2}
MCTimes == 1..3
=============================================================================
