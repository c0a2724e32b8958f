----------------------------- MODULE MCMongoFifo ------------------------------
(* Instances of MongoFifo for TLC. *)
EXTENDS MongoFifo, TLC

CONSTANTS p1, p2, p3, p4

Singles == [p \in Producers |-> 1]

OneBatch == [p \in Producers |-> IF p = p1 THEN 2 ELSE 1]

Symmetry == Permutations(Producers)
===============================================================================
