------------------------------ MODULE MCLifecycle ------------------------------
(* One process, restarted as often as it ends, with two requests at once.  *)
EXTENDS Lifecycle
================================================================================
