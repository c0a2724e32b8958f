---------------------------- MODULE MCMongoClaims -----------------------------
(* Small instances of MongoClaims. *)
EXTENDS MongoClaims, TLC

Symmetry == Permutations(Claims)
===============================================================================
