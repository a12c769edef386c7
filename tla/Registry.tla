------------------------------ MODULE Registry ------------------------------
(***************************************************************************)
(* What the service registry promises: a table in which looking a key up   *)
(* and creating the service it lacks are one step.  A service is entered   *)
(* once, under one key, and begun at most once, not before it is entered;  *)
(* it is ended only after it was taken out of the table, and one taken out *)
(* is ended before the next is.                                            *)
(***************************************************************************)
CONSTANTS Key, Srv, Req, None

VARIABLES
  entry,     \* per key the service that requests share, None if there is none
  leaving,   \* the service taken out and not yet ended
  begun,     \* services that were started
  ended,     \* services that were stopped
  wants,     \* per request the key it asks for
  holds      \* per request the service it was handed

Entered(s) == (\E k \in Key : entry[k] = s) \/ leaving = s \/ s \in ended

Init == /\ entry = [k \in Key |-> None] /\ leaving = None
        /\ begun = {} /\ ended = {}
        /\ wants = [r \in Req |-> None] /\ holds = [r \in Req |-> None]

Ask(r, k) ==
  /\ wants[r] = None /\ wants' = [wants EXCEPT ![r] = k]
  /\ UNCHANGED <<entry, leaving, begun, ended, holds>>

\* r is handed what its key is mapped to from here on, new if there was none.
Obtain(r) ==
  /\ wants[r] # None /\ holds[r] = None
  /\ \E s \in Srv :
       /\ \/ entry[wants[r]] = s
          \/ entry[wants[r]] = None /\ ~Entered(s)
       /\ entry' = [entry EXCEPT ![wants[r]] = s] /\ holds' = [holds EXCEPT ![r] = s]
  /\ UNCHANGED <<leaving, begun, ended, wants>>

Begin(s) ==
  /\ s \notin begun /\ Entered(s) /\ begun' = begun \cup {s}
  /\ UNCHANGED <<entry, leaving, ended, wants, holds>>

Remove(k) ==
  /\ entry[k] # None /\ leaving = None
  /\ leaving' = entry[k] /\ entry' = [entry EXCEPT ![k] = None]
  /\ UNCHANGED <<begun, ended, wants, holds>>

End ==
  /\ leaving # None /\ ended' = ended \cup {leaving} /\ leaving' = None
  /\ UNCHANGED <<entry, begun, wants, holds>>

Next == \/ \E r \in Req : Obtain(r) \/ \E k \in Key : Ask(r, k)
        \/ \E s \in Srv : Begin(s)
        \/ End \/ \E k \in Key : Remove(k)

vars == <<entry, leaving, begun, ended, wants, holds>>
Spec == Init /\ [][Next]_vars
=============================================================================
