---------------------------- MODULE MCSubscriptions ----------------------------
EXTENDS Subscriptions, TLC

CONSTANTS a, b

MCOps == (a :> {"read", "post", "ws", "patch", "confirm", "delete", "purge"}) @@ (b :> {"walk"})
SubscriberSymmetry == Permutations(Supported)
================================================================================
