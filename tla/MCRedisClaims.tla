---------------------------- MODULE MCRedisClaims -----------------------------
(* Small instances of RedisClaims. *)
EXTENDS RedisClaims, TLC

Symmetry == Permutations(Msgs) \cup Permutations(Claims)
===============================================================================
