---------------------------- MODULE MCSwiftClaims -----------------------------
(* Small instances of SwiftClaims. *)
EXTENDS SwiftClaims, TLC

Symmetry == Permutations(Claims)
===============================================================================
