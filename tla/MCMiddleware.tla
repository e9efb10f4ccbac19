----------------------------- MODULE MCMiddleware -----------------------------
(* Three connections of one host: two behind a proxy that names the host,  *)
(* and so under one client key, and a direct one.                          *)
EXTENDS Middleware, TLC

OneHost == [c \in Connections |-> "host"]
GoroutineSymmetry == Permutations(Goroutines)
===============================================================================
