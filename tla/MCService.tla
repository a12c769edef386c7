----------------------------- MODULE MCService -----------------------------
(* TLC instances of Service: one idle time for every key.                  *)
EXTENDS Service

CONSTANT Idle
MCExpiry == [k \in Key |-> Idle]
=============================================================================
