----------------------------- MODULE DepthCache -----------------------------
(***************************************************************************)
(* What the depth cache promises its readers.  The exchange numbers its    *)
(* books.  The book shown is always one the exchange has made, and never    *)
(* an older one than was shown before, whether or not it was taken away    *)
(* in between; after a loss it may even be known to be as new as what the  *)
(* exchange had by then.                                                   *)
(***************************************************************************)
EXTENDS Integers

CONSTANT Nil   \* no book is shown

VARIABLES
  cur,     \* the exchange's latest book
  shown,   \* the book a request is shown
  since    \* no older one will be shown

Init == cur = 0 /\ shown = Nil /\ since = 0

Make == cur' = cur + 1 /\ since' \in since..cur' /\ UNCHANGED shown
Show == shown' \in since..cur /\ since' = shown' /\ UNCHANGED cur
Forget == shown' = Nil /\ since' \in since..cur /\ UNCHANGED cur

Next == Make \/ Show \/ Forget
vars == <<cur, shown, since>>
Spec == Init /\ [][Next]_vars
=============================================================================
