---------------------------- MODULE BanDetector ----------------------------
(***************************************************************************)
(* internal/service/ban_detector.go: whether requests of a class are        *)
(* suspended, judged from Binance's responses.  Every method takes the     *)
(* mutex, so each is a step; spot and futures are two copies of the same   *)
(* fields.  Instants are kept relative to the clock: left is               *)
(* recoveryTime - now, negative once it has passed.                        *)
(***************************************************************************)
EXTENDS Integers

CONSTANTS
  Class,       \* SPOT, FUTURES
  None,        \* no value in a header or a body
  Minute, ForbidTime, DefaultBan, MaxBackoff,   \* 1, 5, 10, 10 minutes in ticks
  MaxErrors,   \* 5 connection errors
  HighWeight,  \* the last weight that is not above 90% of the limit
  Weights,     \* weights a response may report
  Waits        \* waits a Retry-After or a ban message may ask for

ASSUME BanAssumption ==
  /\ {Minute, ForbidTime, DefaultBan, MaxBackoff, MaxErrors} \subseteq Nat \ {0}
  /\ HighWeight \in Nat /\ Weights \subseteq Nat /\ Waits \subseteq Int
  /\ None \notin Int

VARIABLES
  phase,   \* time to the next full minute
  bd       \* the detector's fields, per class

Clamp(n, low) == IF n < low THEN low ELSE n
Cap(n, high) == IF n > high THEN high ELSE n

Init ==
  /\ phase = Minute
  /\ bd = [c \in Class |->
       [banned |-> FALSE, left |-> -1, errors |-> 0, age |-> Minute + 1,
        used |-> 0, reset |-> Minute, backoff |-> 0]]

Active(c) == bd[c].banned /\ bd[c].left > 0

-----------------------------------------------------------------------------
(* IsBanned: the answer, and the ban cleared once its recovery has passed. *)

Unchecked(b) == FALSE
Banned(b) == b.banned /\ b.left > 0
ClearedBelow(b) == IF b.left <= 1 THEN [b EXCEPT !.banned = FALSE] ELSE b
Cleared(b) == IF b.left < 0 THEN [b EXCEPT !.banned = FALSE] ELSE b

IsBanned(c) == bd' = [bd EXCEPT ![c] = Cleared(@)]

-----------------------------------------------------------------------------
(* CheckResponse: the fields after it and its answer.                      *)

Suspend(b, wait) == [b EXCEPT !.banned = TRUE, !.left = Clamp(wait, -1)]

\* A response without the header counts for one; the first response after
\* the minute zeroes what it has just reported.
UpdateWeight(b, resp) ==
  LET used == IF resp.used = None THEN Cap(b.used + 1, HighWeight + 1) ELSE resp.used
  IN  IF b.reset < 0 THEN [b EXCEPT !.used = 0, !.reset = phase]
                     ELSE [b EXCEPT !.used = used]

First(a, b, c) == IF a # None THEN a ELSE IF b # None THEN b ELSE c

Wait(resp) ==
  IF resp.status = 418 THEN First(resp.retryAfter, resp.message, DefaultBan)
  ELSE IF resp.status = 429 THEN First(resp.retryAfter, None, Minute)
  ELSE ForbidTime

NoBackoff(b) == [b EXCEPT !.backoff = 0]

AfterResponse(b, resp) ==
  LET w == UpdateWeight(b, resp) IN
  IF w.used > HighWeight              THEN <<Suspend(w, phase), TRUE>>
  ELSE IF resp.status \in {418, 429} THEN <<NoBackoff(Suspend(w, Wait(resp))), TRUE>>
  ELSE IF resp.status = 403           THEN <<Suspend(w, Wait(resp)), TRUE>>
  ELSE IF resp.status = 200           THEN <<NoBackoff([w EXCEPT !.errors = 0]), FALSE>>
  ELSE <<w, FALSE>>

\* Connection refused, timeout, no route to host.  backoff is the length of
\* the last suspension for errors, 2^n seconds for the n-th in a row.
TooManyLate(errors) == errors > MaxErrors
TooMany(errors) == errors >= MaxErrors
BackoffUncapped(last) == IF last = 0 THEN 2 ELSE 2 * last
Backoff(last) == Cap(IF last = 0 THEN 2 ELSE 2 * last, MaxBackoff)
AfterError(b) ==
  LET errors == IF b.age > Minute THEN 1 ELSE b.errors + 1
      e == [b EXCEPT !.errors = errors, !.age = 0]
      n == Backoff(b.backoff)
  IN  IF ~TooMany(errors) THEN <<e, FALSE>>
      ELSE <<Suspend([e EXCEPT !.errors = 0, !.backoff = n], n), TRUE>>

\* 500 stands for every other status; what is not read is not told apart.
Response ==
  {x \in [status : {200, 403, 418, 429, 500}, used : Weights \cup {None},
          retryAfter : Waits \cup {None}, message : Waits \cup {None}] :
     /\ x.retryAfter # None => x.status \in {418, 429}
     /\ x.message # None => x.status = 418 /\ x.retryAfter = None}

CheckResponse(c, resp) == bd' = [bd EXCEPT ![c] = AfterResponse(@, resp)[1]]
CheckError(c) == bd' = [bd EXCEPT ![c] = AfterError(@)[1]]

-----------------------------------------------------------------------------
Older(b) == [b EXCEPT !.left = Clamp(@ - 1, -1), !.reset = Clamp(@ - 1, -1),
                      !.age = Cap(@ + 1, Minute + 1)]
Tick == /\ phase' = IF phase = 1 THEN Minute ELSE phase - 1
        /\ bd' = [c \in Class |-> Older(bd[c])]

Call(c) == \/ IsBanned(c) \/ CheckError(c)
           \/ \E resp \in Response : CheckResponse(c, resp)

Next == Tick \/ \E c \in Class : Call(c) /\ UNCHANGED phase

Spec == Init /\ [][Next]_<<phase, bd>>

-----------------------------------------------------------------------------
\* Shapes of the fields; the error count stays below its threshold between
\* calls, so that the backoff starts at the fifth error and not later.
TypeOK ==
  /\ phase \in 1..Minute
  /\ bd \in [Class -> [banned : BOOLEAN, left : Int, errors : 0..(MaxErrors - 1),
                       age : 0..(Minute + 1), used : Nat, reset : -1..Minute,
                       backoff : 0..MaxBackoff]]

\* What the code, a header or a body may make a suspension last.
Durations == {Minute, ForbidTime, DefaultBan, MaxBackoff} \cup Waits

\* Suspensions never add up: however answers of overlapping requests and
\* connection errors follow each other, a class is not suspended for longer
\* from now than one of them may ask for, so that a quiet proxy recovers.
Bounded == \A c \in Class : \E n \in Durations : bd[c].left <= n
=============================================================================
