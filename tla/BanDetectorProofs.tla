------------------------- MODULE BanDetectorProofs -------------------------
(* The ban detector for any classes, thresholds and durations, and any     *)
(* weights and waits Binance may report: what a call does to the fields,   *)
(* and how long a suspension may be.                                       *)
EXTENDS BanDetector, TLAPS

Fields == [banned : BOOLEAN, left : Int, errors : 0..(MaxErrors - 1),
           age : 0..(Minute + 1), used : Nat, reset : -1..Minute,
           backoff : 0..MaxBackoff]

LEMMA Constants ==
  /\ Minute \in Nat \ {0} /\ ForbidTime \in Nat \ {0} /\ DefaultBan \in Nat \ {0}
  /\ MaxBackoff \in Nat \ {0} /\ MaxErrors \in Nat \ {0}
  /\ HighWeight \in Nat /\ Weights \subseteq Nat /\ Waits \subseteq Int /\ None \notin Int
  BY BanAssumption

-----------------------------------------------------------------------------
(* The detector's operators on the fields of one class.                    *)

LEMMA SuspendType ==
  ASSUME NEW b \in Fields, NEW wait \in Int
  PROVE  /\ Suspend(b, wait) \in Fields
         /\ Suspend(b, wait).banned = TRUE /\ Suspend(b, wait).left = Clamp(wait, -1)
<1> DEFINE left == Clamp(wait, -1)
<1>1. left \in Int /\ Suspend(b, wait) = [b EXCEPT !.banned = TRUE, !.left = left]
  BY DEF Clamp, Suspend
<1> HIDE DEF left
<1>2. /\ Suspend(b, wait) \in Fields /\ Suspend(b, wait).banned = TRUE
      /\ Suspend(b, wait).left = left
  BY <1>1 DEF Fields
<1> QED
  BY <1>2 DEF left

\* A suspension for a known duration is bounded by it.
LEMMA SuspendBound ==
  ASSUME NEW b \in Fields, NEW wait \in Int,
         wait \in Durations \/ wait \in 1..Minute
  PROVE  \E n \in Durations : Suspend(b, wait).left <= n
<1>1. Suspend(b, wait).left = IF wait < -1 THEN -1 ELSE wait
  BY SuspendType DEF Clamp
<1>2. Minute \in Durations /\ Minute \in Nat \ {0}
  BY Constants DEF Durations
<1>3. CASE wait < -1 \/ wait \in 1..Minute
  BY <1>1, <1>2, <1>3
<1>4. CASE wait >= -1 /\ wait \in Durations
  BY <1>1, <1>4
<1> QED
  BY <1>3, <1>4

LEMMA WeightType ==
  ASSUME NEW b \in Fields, NEW resp \in Response, phase \in 1..Minute
  PROVE  /\ UpdateWeight(b, resp) \in Fields
         /\ UpdateWeight(b, resp).banned = b.banned /\ UpdateWeight(b, resp).left = b.left
<1> DEFINE used == IF resp.used = None THEN Cap(b.used + 1, HighWeight + 1) ELSE resp.used
<1>1. used \in Nat
  <2>1. CASE resp.used = None
    BY <2>1, Constants DEF Fields, Cap
  <2>2. CASE resp.used # None
    <3>1. resp.used \in Weights
      BY <2>2 DEF Response
    <3> QED
      BY <2>2, <3>1, Constants
  <2> QED
    BY <2>1, <2>2
<1> HIDE DEF used
<1>2. UpdateWeight(b, resp) = IF b.reset < 0 THEN [b EXCEPT !.used = 0, !.reset = phase]
                                             ELSE [b EXCEPT !.used = used]
  BY DEF UpdateWeight, used
<1>3. CASE b.reset < 0
  <2>1. UpdateWeight(b, resp) = [b EXCEPT !.used = 0, !.reset = phase]
    BY <1>2, <1>3
  <2>2. phase \in -1..Minute
    BY Constants
  <2>3. [b EXCEPT !.used = 0, !.reset = phase] \in Fields
    BY <2>2 DEF Fields
  <2> QED
    BY <2>1, <2>3 DEF Fields
<1>4. CASE ~(b.reset < 0)
  <2>1. UpdateWeight(b, resp) = [b EXCEPT !.used = used]
    BY <1>2, <1>4
  <2> QED
    BY <2>1, <1>1 DEF Fields
<1> QED
  BY <1>3, <1>4

LEMMA WaitType ==
  ASSUME NEW resp \in Response, resp.status \in {418, 429, 403}
  PROVE  Wait(resp) \in Int /\ Wait(resp) \in Durations
<1>1. /\ resp.retryAfter \in Waits \cup {None} /\ resp.message \in Waits \cup {None}
      /\ Waits \subseteq Int
  BY Constants DEF Response
<1>2. resp.retryAfter # None => resp.retryAfter \in Int \cap Durations
  BY <1>1 DEF Durations
<1>3. resp.message # None => resp.message \in Int \cap Durations
  BY <1>1 DEF Durations
<1>4. /\ Minute \in Int \cap Durations /\ ForbidTime \in Int \cap Durations
      /\ DefaultBan \in Int \cap Durations
  BY Constants DEF Durations
<1>5. First(resp.retryAfter, resp.message, DefaultBan) \in Int \cap Durations
  BY <1>2, <1>3, <1>4, Zenon DEF First
<1>6. First(resp.retryAfter, None, Minute) \in Int \cap Durations
  BY <1>2, <1>4, Zenon DEF First
<1>7. Wait(resp) \in Int \cap Durations
  BY <1>4, <1>5, <1>6, Zenon DEF Wait
<1> QED
  BY <1>7

\* What a call answers of the fields after it: TRUE after setting a suspension
\* of a known duration, FALSE if it has left the suspension as it was.
Answered(b, after) ==
  IF after[2] = TRUE THEN after[1].banned = TRUE /\ \E n \in Durations : after[1].left <= n
                     ELSE after[1].banned = b.banned /\ after[1].left = b.left

LEMMA SaysYes ==
  ASSUME NEW b \in Fields, NEW f \in Fields, f.banned = TRUE, \E n \in Durations : f.left <= n
  PROVE  <<f, TRUE>>[1] \in Fields /\ Answered(b, <<f, TRUE>>)
<1>1. <<f, TRUE>>[1] = f /\ <<f, TRUE>>[2] = TRUE
  OBVIOUS
<1> QED
  BY <1>1 DEF Answered

LEMMA SaysNo ==
  ASSUME NEW b \in Fields, NEW f \in Fields, f.banned = b.banned, f.left = b.left
  PROVE  <<f, FALSE>>[1] \in Fields /\ Answered(b, <<f, FALSE>>)
<1>1. <<f, FALSE>>[1] = f /\ <<f, FALSE>>[2] = FALSE
  OBVIOUS
<1> QED
  BY <1>1 DEF Answered

LEMMA ResponseType ==
  ASSUME NEW b \in Fields, NEW resp \in Response, phase \in 1..Minute
  PROVE  AfterResponse(b, resp)[1] \in Fields /\ Answered(b, AfterResponse(b, resp))
<1> DEFINE w == UpdateWeight(b, resp)
<1>1. w \in Fields /\ w.banned = b.banned /\ w.left = b.left
  BY WeightType
<1> HIDE DEF w
<1>2. AfterResponse(b, resp) =
        IF w.used > HighWeight              THEN <<Suspend(w, phase), TRUE>>
        ELSE IF resp.status \in {418, 429} THEN <<NoBackoff(Suspend(w, Wait(resp))), TRUE>>
        ELSE IF resp.status = 403           THEN <<Suspend(w, Wait(resp)), TRUE>>
        ELSE IF resp.status = 200           THEN <<NoBackoff([w EXCEPT !.errors = 0]), FALSE>>
        ELSE <<w, FALSE>>
  BY DEF AfterResponse, w
<1>3. \A f \in Fields : /\ NoBackoff(f) \in Fields
                        /\ NoBackoff(f).banned = f.banned /\ NoBackoff(f).left = f.left
  BY Constants DEF NoBackoff, Fields
<1>4. /\ [w EXCEPT !.errors = 0] \in Fields
      /\ [w EXCEPT !.errors = 0].banned = w.banned /\ [w EXCEPT !.errors = 0].left = w.left
  BY <1>1, Constants DEF Fields
<1>5. CASE w.used > HighWeight
  <2>1. AfterResponse(b, resp) = <<Suspend(w, phase), TRUE>>
    BY <1>2, <1>5
  <2>2. phase \in Int
    OBVIOUS
  <2>3. /\ Suspend(w, phase) \in Fields /\ Suspend(w, phase).banned = TRUE
        /\ \E n \in Durations : Suspend(w, phase).left <= n
    BY <2>2, <1>1, SuspendType, SuspendBound
  <2> QED
    BY <2>1, <2>3, SaysYes
<1>6. CASE ~(w.used > HighWeight) /\ resp.status \in {418, 429}
  <2>1. AfterResponse(b, resp) = <<NoBackoff(Suspend(w, Wait(resp))), TRUE>>
    BY <1>2, <1>6
  <2>2. Suspend(w, Wait(resp)) \in Fields /\ Suspend(w, Wait(resp)).banned = TRUE
    BY <1>1, <1>6, SuspendType, WaitType
  <2>3. \E n \in Durations : Suspend(w, Wait(resp)).left <= n
    BY <1>1, <1>6, SuspendBound, WaitType
  <2> DEFINE f == NoBackoff(Suspend(w, Wait(resp)))
  <2>4. f \in Fields /\ f.banned = TRUE /\ \E n \in Durations : f.left <= n
    BY <2>2, <2>3, <1>3
  <2> QED
    BY <2>1, <2>4, SaysYes
<1>7. CASE ~(w.used > HighWeight) /\ resp.status = 403
  <2>1. resp.status \notin {418, 429} /\ resp.status = 403
    BY <1>7
  <2>2. AfterResponse(b, resp) = <<Suspend(w, Wait(resp)), TRUE>>
    BY <1>2, <1>7, <2>1, Zenon
  <2>3. /\ Suspend(w, Wait(resp)) \in Fields /\ Suspend(w, Wait(resp)).banned = TRUE
        /\ \E n \in Durations : Suspend(w, Wait(resp)).left <= n
    BY <1>1, <1>7, SuspendType, SuspendBound, WaitType
  <2> QED
    BY <2>2, <2>3, SaysYes
<1>8. CASE ~(w.used > HighWeight) /\ resp.status = 200
  <2>1. resp.status \notin {418, 429} /\ resp.status # 403 /\ resp.status = 200
    BY <1>8
  <2>2. AfterResponse(b, resp) = <<NoBackoff([w EXCEPT !.errors = 0]), FALSE>>
    BY <1>2, <1>8, <2>1, Zenon
  <2> DEFINE f == NoBackoff([w EXCEPT !.errors = 0])
  <2>3. f \in Fields /\ f.banned = b.banned /\ f.left = b.left
    BY <1>1, <1>3, <1>4
  <2> QED
    BY <2>2, <2>3, SaysNo
<1>9. CASE ~(w.used > HighWeight) /\ resp.status \notin {418, 429, 403, 200}
  <2>1. resp.status \notin {418, 429} /\ resp.status # 403 /\ resp.status # 200
    BY <1>9
  <2>2. AfterResponse(b, resp) = <<w, FALSE>>
    BY <1>2, <1>9, <2>1, Zenon
  <2> QED
    BY <2>2, <1>1, SaysNo
<1> QED
  BY <1>5, <1>6, <1>7, <1>8, <1>9

\* An error either leaves the suspension alone or starts one.
LEMMA ErrorType ==
  ASSUME NEW b \in Fields
  PROVE  /\ AfterError(b)[1] \in Fields /\ Answered(b, AfterError(b))
         /\ AfterError(b)[2] => AfterError(b)[1].left > 0
         /\ b.banned /\ b.left > 0 => AfterError(b)[1].banned /\ AfterError(b)[1].left > 0
<1> DEFINE errors == IF b.age > Minute THEN 1 ELSE b.errors + 1
           e == [b EXCEPT !.errors = errors, !.age = 0]
           n == Backoff(b.backoff)
           f == [e EXCEPT !.errors = 0, !.backoff = n]
<1>1. errors \in Nat
  BY Constants DEF Fields
<1>2. n \in 1..MaxBackoff
  BY Constants DEF Fields, Backoff, Cap
<1>3. f \in Fields
  <2>1. f = [b EXCEPT !.errors = 0, !.age = 0, !.backoff = n]
    BY DEF Fields
  <2>2. 0 \in 0..(MaxErrors - 1) /\ 0 \in 0..(Minute + 1) /\ n \in 0..MaxBackoff
    BY <1>2, Constants
  <2> HIDE DEF n, f
  <2> QED
    BY <2>1, <2>2 DEF Fields
<1>4. ~TooMany(errors) => e \in Fields /\ e.banned = b.banned /\ e.left = b.left
  <2> SUFFICES ASSUME ~TooMany(errors)
               PROVE  e \in Fields /\ e.banned = b.banned /\ e.left = b.left
    OBVIOUS
  <2>1. errors \in 0..(MaxErrors - 1) /\ 0 \in 0..(Minute + 1)
    <3> HIDE DEF errors
    <3> QED
      BY <1>1, Constants DEF TooMany
  <2> HIDE DEF errors
  <2> QED
    BY <2>1 DEF Fields
<1>5. AfterError(b) = IF ~TooMany(errors) THEN <<e, FALSE>> ELSE <<Suspend(f, n), TRUE>>
  BY DEF AfterError
<1>6. /\ Suspend(f, n) \in Fields /\ Suspend(f, n).banned /\ Suspend(f, n).left > 0
      /\ MaxBackoff \in Durations /\ Suspend(f, n).left <= MaxBackoff
  <2> HIDE DEF n, f
  <2>1. n \in Int /\ n > 0 /\ n <= MaxBackoff /\ Clamp(n, -1) = n
    BY <1>2, Constants DEF Clamp
  <2> QED
    BY <2>1, <1>3, SuspendType DEF Durations
<1> HIDE DEF errors, e, n, f
<1>7. CASE ~TooMany(errors)
  BY <1>4, <1>5, <1>7 DEF Answered
<1>8. CASE TooMany(errors)
  BY <1>5, <1>6, <1>8 DEF Answered
<1> QED
  BY <1>7, <1>8

LEMMA ClearedType ==
  ASSUME NEW b \in Fields
  PROVE  /\ Cleared(b) \in Fields /\ Cleared(b).left = b.left
         /\ b.left > 0 => Cleared(b) = b
         /\ ~(b.banned /\ b.left > 0) => ~(Cleared(b).banned /\ Cleared(b).left > 0)
<1>1. CASE b.left < 0
  <2>1. Cleared(b) = [b EXCEPT !.banned = FALSE]
    BY <1>1 DEF Cleared
  <2>2. /\ [b EXCEPT !.banned = FALSE] \in Fields
        /\ [b EXCEPT !.banned = FALSE].banned = FALSE
        /\ [b EXCEPT !.banned = FALSE].left = b.left
    BY DEF Fields
  <2>3. b.left \in Int
    BY DEF Fields
  <2> QED
    BY <1>1, <2>1, <2>2, <2>3
<1>2. CASE ~(b.left < 0)
  BY <1>2 DEF Cleared, Fields
<1> QED
  BY <1>1, <1>2

LEMMA OlderType ==
  ASSUME NEW b \in Fields
  PROVE  /\ Older(b) \in Fields /\ Older(b).banned = b.banned
         /\ Older(b).left = IF b.left > 0 THEN b.left - 1 ELSE -1
<1> DEFINE left == Clamp(b.left - 1, -1)
           reset == Clamp(b.reset - 1, -1)
           age == Cap(b.age + 1, Minute + 1)
<1>1. left \in Int /\ left = IF b.left > 0 THEN b.left - 1 ELSE -1
  BY DEF Clamp, Fields
<1>2. reset \in -1..Minute /\ age \in 0..(Minute + 1)
  BY Constants DEF Clamp, Cap, Fields
<1>3. Older(b) = [b EXCEPT !.left = left, !.reset = reset, !.age = age]
  BY DEF Older
<1> HIDE DEF left, reset, age
<1>4. Older(b) \in Fields /\ Older(b).banned = b.banned /\ Older(b).left = left
  BY <1>1, <1>2, <1>3 DEF Fields
<1> QED
  BY <1>1, <1>4

-----------------------------------------------------------------------------
(* Steps.                                                                  *)

\* What one call of the detector does to its fields.
Called(c) == \/ IsBanned(c) \/ CheckError(c) \/ UNCHANGED bd
             \/ \E resp \in Response : CheckResponse(c, resp)

LEMMA CallType ==
  ASSUME TypeOK, NEW c \in Class, Called(c), UNCHANGED phase
  PROVE  TypeOK' /\ \A d \in Class \ {c} : bd'[d] = bd[d]
<1> USE DEF TypeOK
<1>1. bd \in [Class -> Fields] /\ bd[c] \in Fields /\ phase \in 1..Minute
  BY DEF Fields
<1>2. ASSUME NEW f \in Fields, bd' = [bd EXCEPT ![c] = f]
      PROVE  TypeOK' /\ \A d \in Class \ {c} : bd'[d] = bd[d]
  <2>1. bd' \in [Class -> Fields]
    BY <1>1, <1>2
  <2> QED
    BY <1>1, <1>2, <2>1 DEF Fields
<1>3. CASE IsBanned(c)
  BY <1>1, <1>2, <1>3, ClearedType DEF IsBanned
<1>4. CASE CheckError(c)
  BY <1>1, <1>2, <1>4, ErrorType DEF CheckError
<1>5. ASSUME NEW resp \in Response, CheckResponse(c, resp)
      PROVE  TypeOK' /\ \A d \in Class \ {c} : bd'[d] = bd[d]
  BY <1>1, <1>2, <1>5, ResponseType DEF CheckResponse
<1>6. CASE UNCHANGED bd
  BY <1>6
<1> QED
  BY <1>3, <1>4, <1>5, <1>6 DEF Called

LEMMA TickType ==
  ASSUME TypeOK, Tick
  PROVE  TypeOK' /\ \A c \in Class : bd'[c] = Older(bd[c])
<1>1. bd \in [Class -> Fields] /\ phase \in 1..Minute
  BY DEF TypeOK, Fields
<1>2. phase' \in 1..Minute
  BY <1>1, Constants DEF Tick
<1>3. bd' \in [Class -> Fields] /\ \A c \in Class : bd'[c] = Older(bd[c])
  BY <1>1, OlderType DEF Tick
<1> QED
  BY <1>2, <1>3 DEF TypeOK, Fields

LEMMA InitType == Init => TypeOK
<1> SUFFICES ASSUME Init PROVE TypeOK
  OBVIOUS
<1> DEFINE f == [banned |-> FALSE, left |-> -1, errors |-> 0, age |-> Minute + 1,
                 used |-> 0, reset |-> Minute, backoff |-> 0]
<1>1. /\ 0 \in 0..(MaxErrors - 1) /\ Minute + 1 \in 0..(Minute + 1) /\ Minute \in -1..Minute
      /\ 0 \in 0..MaxBackoff /\ -1 \in Int /\ 0 \in Nat
  BY Constants
<1>2. f \in Fields
  BY <1>1 DEF Fields
<1>3. \A c \in Class : bd[c] \in Fields
  BY <1>2 DEF Init
<1> QED
  BY <1>3, Constants DEF Init, TypeOK, Fields

LEMMA NextCalls ==
  ASSUME Next
  PROVE  Tick \/ \E c \in Class : Called(c) /\ UNCHANGED phase
  BY DEF Next, Call, Called

\* The detector's fields keep their ranges whoever calls it, an error count
\* below its threshold among them.
THEOREM DetectorTypeCorrect == Spec => []TypeOK
<1>1. TypeOK /\ [Next]_<<phase, bd>> => TypeOK'
  <2> SUFFICES ASSUME TypeOK, [Next]_<<phase, bd>> PROVE TypeOK'
    OBVIOUS
  <2>1. CASE Next
    BY <2>1, NextCalls, TickType, CallType
  <2>2. CASE UNCHANGED <<phase, bd>>
    BY <2>2 DEF TypeOK
  <2> QED
    BY <2>1, <2>2
<1> QED
  BY InitType, <1>1, PTL DEF Spec

\* CheckResponse tells its caller of a suspension exactly when it has set one,
\* no longer than the durations there are: initKlineData and refreshExchangeInfo
\* give up on TRUE and try again on FALSE.
THEOREM AnswersTruly ==
  ASSUME NEW b \in Fields, phase \in 1..Minute
  PROVE  /\ \A resp \in Response : Answered(b, AfterResponse(b, resp))
         /\ Answered(b, AfterError(b)) /\ (AfterError(b)[2] => AfterError(b)[1].left > 0)
  BY ResponseType, ErrorType

LEMMA BoundedInit == Init => Bounded
<1> SUFFICES ASSUME Init, NEW c \in Class PROVE \E n \in Durations : bd[c].left <= n
  BY DEF Bounded
<1>1. bd[c].left = -1 /\ Minute \in Durations /\ -1 <= Minute
  BY Constants DEF Init, Durations
<1> QED
  BY <1>1

LEMMA BoundedCall ==
  ASSUME TypeOK, Bounded, NEW c \in Class, Called(c), UNCHANGED phase
  PROVE  Bounded'
<1>1. bd \in [Class -> Fields] /\ phase \in 1..Minute
  BY DEF TypeOK, Fields
<1>2. \E n \in Durations : bd'[c].left <= n
  <2>0. \E n \in Durations : bd[c].left <= n
    BY DEF Bounded
  <2>1. CASE IsBanned(c)
    BY <1>1, <2>0, <2>1, ClearedType DEF IsBanned
  <2>2. CASE CheckError(c)
    BY <1>1, <2>0, <2>2, ErrorType DEF CheckError, Answered
  <2>3. ASSUME NEW resp \in Response, CheckResponse(c, resp)
        PROVE  \E n \in Durations : bd'[c].left <= n
    BY <1>1, <2>0, <2>3, ResponseType DEF CheckResponse, Answered
  <2>4. CASE UNCHANGED bd
    BY <2>0, <2>4
  <2> QED
    BY <2>1, <2>2, <2>3, <2>4 DEF Called
<1>3. \A d \in Class \ {c} : bd'[d] = bd[d]
  BY CallType
<1> QED
  BY <1>2, <1>3 DEF Bounded

LEMMA BoundedTick ==
  ASSUME TypeOK, Bounded, Tick
  PROVE  Bounded'
<1> SUFFICES ASSUME NEW c \in Class PROVE \E n \in Durations : bd'[c].left <= n
  BY DEF Bounded
<1>1. bd[c] \in Fields /\ bd'[c] = Older(bd[c])
  BY TickType DEF TypeOK, Fields
<1>2. bd[c].left \in Int /\ bd'[c].left = IF bd[c].left > 0 THEN bd[c].left - 1 ELSE -1
  BY <1>1, OlderType DEF Fields
<1>3. CASE bd[c].left > 0
  <2>1. PICK n \in Durations : bd[c].left <= n
    BY DEF Bounded
  <2>2. n \in Int
    BY Constants DEF Durations
  <2> QED
    BY <1>2, <1>3, <2>1, <2>2
<1>4. CASE ~(bd[c].left > 0)
  <2>1. Minute \in Durations /\ -1 <= Minute
    BY Constants DEF Durations
  <2> QED
    BY <1>2, <1>4, <2>1
<1> QED
  BY <1>3, <1>4

\* Whatever answers and errors overlap, no suspension is longer from now than
\* the longest wait that one of them may ask for.
THEOREM SuspensionsBounded == Spec => []Bounded
<1>1. TypeOK /\ Bounded /\ [Next]_<<phase, bd>> => Bounded'
  <2> SUFFICES ASSUME TypeOK, Bounded, [Next]_<<phase, bd>> PROVE Bounded'
    OBVIOUS
  <2>1. CASE Next
    BY <2>1, NextCalls, BoundedCall, BoundedTick
  <2>2. CASE UNCHANGED <<phase, bd>>
    BY <2>2 DEF Bounded
  <2> QED
    BY <2>1, <2>2
<1> QED
  BY BoundedInit, DetectorTypeCorrect, <1>1, PTL DEF Spec

=============================================================================
