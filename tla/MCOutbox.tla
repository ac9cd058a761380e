------------------------------- MODULE MCOutbox -------------------------------
(***************************************************************************)
(* Outbox on a small instance for TLC: two transactions, the first with a  *)
(* task and a broadcast, the second with a task.                           *)
(***************************************************************************)
EXTENDS Outbox, TLC

CONSTANTS t1, t2, b1

MCCreated == (t1 :> 1) @@ (b1 :> 1) @@ (t2 :> 2)
===============================================================================
