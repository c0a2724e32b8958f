------------------------------ MODULE ClaimLease ------------------------------
(* What a claim promises, whichever storage driver keeps it: a message is    *)
(* leased to at most one claim at a time, the lease is taken over by another *)
(* claim only once it has run out, and only its own claim renews or releases *)
(* it.  The storage drivers' claim controllers are checked against this      *)
(* module with a refinement mapping.                                         *)
EXTENDS Naturals

CONSTANTS
    Msgs,      \* the messages of one queue
    Claims,    \* claim ids
    NoClaim    \* the claim id of a message that is not claimed

VARIABLES
    clock,     \* seconds
    holder,    \* the claim each message is leased to
    until,     \* when each lease runs out
    removed    \* messages that have left the queue

vars == <<clock, holder, until, removed>>

Init ==
    /\ clock \in Nat
    /\ holder = [m \in Msgs |-> NoClaim]
    /\ until = [m \in Msgs |-> 0]
    /\ removed = {}

\* A message is free when no claim holds it or the claim has run out.
Free(m) == holder[m] = NoClaim \/ until[m] <= clock

\* A claim chooses how long it leases a message.
Lease(m, c) ==
    /\ m \notin removed
    /\ holder' = [holder EXCEPT ![m] = c]
    /\ until' \in [Msgs -> Nat]
    /\ \A k \in Msgs \ {m} : until'[k] = until[k]
    /\ UNCHANGED <<clock, removed>>

Acquire(m, c) == Free(m) /\ Lease(m, c)

Renew(m, c) == holder[m] = c /\ Lease(m, c)

Release(m, c) == holder[m] = c /\ Lease(m, NoClaim)

\* Deletion, pop, or expiry of the message itself.
Remove(m) ==
    /\ removed' = removed \cup {m}
    /\ UNCHANGED <<clock, holder, until>>

Advance ==
    /\ clock' = clock + 1
    /\ UNCHANGED <<holder, until, removed>>

Next ==
    \/ \E m \in Msgs, c \in Claims :
          Acquire(m, c) \/ Renew(m, c) \/ Release(m, c)
    \/ \E m \in Msgs : Remove(m)
    \/ Advance

Spec == Init /\ [][Next]_vars

-------------------------------------------------------------------------------
Kept(m) ==
    /\ holder[m] # NoClaim /\ until[m] > clock => holder'[m] \in {holder[m], NoClaim}
    /\ m \in removed => m \in removed' /\ holder'[m] = holder[m]

\* A lease that has not run out never passes from one claim to another, and a
\* removed message is never leased again (the contract of the Claim controller
\* in storage/base.py).
NoTakeover == [][\A m \in Msgs : Kept(m)]_vars
===============================================================================
