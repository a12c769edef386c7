---------------------------- MODULE KlinesCache ----------------------------
(***************************************************************************)
(* What the klines cache promises its readers.  The exchange numbers the   *)
(* updates of one symbol's candles; a candle takes PerCandle updates, the  *)
(* last of which is final.  The answer shown is always the exchange's own  *)
(* latest Limit candles as of some update, and never goes back to an       *)
(* earlier candle.                                                         *)
(***************************************************************************)
EXTENDS Integers, Sequences

CONSTANTS
  PerCandle,   \* updates of one candle
  Limit        \* candles kept: REST's limit=1000 and the list's bound

VARIABLES
  cur,   \* the exchange's latest update
  arr    \* the published candles, each as the update it carries

\* A candle carrying update u has OpenTime(u); Final(o) closes candle o.
OpenTime(u) == u \div PerCandle
Final(o) == o * PerCandle + PerCandle - 1

\* The exchange's last Limit candles as of update u.
Window(u) ==
  LET n == IF OpenTime(u) + 1 < Limit THEN OpenTime(u) + 1 ELSE Limit
  IN  [i \in 1..n |-> IF i = n THEN u ELSE Final(OpenTime(u) - n + i)]
Last(s) == s[Len(s)]

Init == cur = 0 /\ arr = <<>>

Advance == cur' = cur + 1 /\ UNCHANGED arr
Publish == /\ \E u \in 0..cur : /\ arr # <<>> => OpenTime(u) >= OpenTime(Last(arr))
                                /\ arr' = Window(u)
           /\ UNCHANGED cur

Spec == Init /\ [][Advance \/ Publish]_<<cur, arr>>
=============================================================================
