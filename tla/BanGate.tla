------------------------------ MODULE BanGate ------------------------------
(***************************************************************************)
(* What suspending a class promises, whoever shares the detector: a gate   *)
(* per class that is shut for so many ticks.  A request is admitted only   *)
(* through an open gate; time opens it; and only a request that had been   *)
(* admitted can bring back what shuts it, or shuts it for another while.   *)
(***************************************************************************)
EXTENDS Integers

CONSTANTS Class, Req, None

VARIABLES
  gate,    \* per class the ticks it stays shut, 0 if open
  inside   \* per request the class it is admitted to, None if it is not

Open(c) == gate[c] = 0

Init == gate = [c \in Class |-> 0] /\ inside = [r \in Req |-> None]

Age == /\ gate' = [c \in Class |-> IF Open(c) THEN 0 ELSE gate[c] - 1]
       /\ UNCHANGED inside

Admit(r, c) == /\ inside[r] = None /\ Open(c)
               /\ inside' = [inside EXCEPT ![r] = c]
               /\ UNCHANGED gate

\* gate' # gate only when Binance's answer says so, for this class alone
Leave(r) == /\ inside[r] # None
            /\ gate' = [gate EXCEPT ![inside[r]] = gate'[inside[r]]]
            /\ gate'[inside[r]] \in Nat
            /\ inside' = [inside EXCEPT ![r] = None]

Next == Age \/ \E r \in Req : Leave(r) \/ \E c \in Class : Admit(r, c)

Spec == Init /\ [][Next]_<<gate, inside>>
=============================================================================
