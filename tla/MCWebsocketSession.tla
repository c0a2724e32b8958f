-------------------------- MODULE MCWebsocketSession --------------------------
EXTENDS WebsocketSession, TLC

CONSTANTS a, w

MCOps == (a :> {"patch", "delete", "walk"}) @@ (w :> {})
================================================================================
