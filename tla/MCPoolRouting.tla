---------------------------- MODULE MCPoolRouting -----------------------------
(* Small instances of PoolRouting. *)
EXTENDS PoolRouting, TLC

MCWeight == [x \in Pools |-> 3 - x]
===============================================================================
