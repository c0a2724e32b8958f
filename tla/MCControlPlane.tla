---------------------------- MODULE MCControlPlane ----------------------------
(* Small instances of ControlPlane. *)
EXTENDS ControlPlane, TLC

CONSTANTS u1, u2

\* Two URIs of drivers with different capabilities.
MCUris == {u1, u2}
MCCaps == [u \in MCUris |-> u]

Symmetry == Permutations(Admins)
===============================================================================
