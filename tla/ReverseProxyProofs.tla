------------------------- MODULE ReverseProxyProofs -------------------------
(* Safety of the ban detector and the requests that share it, for any       *)
(* number of requests, any classes and any durations: the detector's fields *)
(* keep their ranges and the gate it makes admits no request while shut.    *)
EXTENDS ReverseProxy, BanDetectorProofs

Requests == [at : {"idle", "ctx", "check", "status", "wait", "send", "flight", "reply"},
             class : Class, got : Outcome \cup {None}]

\* A step of a request is one call of the detector, or none.
LEMMA StepCalls ==
  ASSUME PTypeOK, NEW r \in Req,
         (\E c \in Class : Arrive(r, c)) \/ ProxyStep(r) \/ Upstream(r)
  PROVE  \E c \in Class : Called(c) /\ UNCHANGED phase
<1> USE DEF PTypeOK
<1>1. req[r].class \in Class
  OBVIOUS
<1>2. CASE CheckBan(r)
  BY <1>1, <1>2 DEF CheckBan, Called
<1>3. CASE Reply(r)
  BY <1>1, <1>3 DEF Reply, Report, Called
<1>4. ASSUME UNCHANGED <<phase, bd>> PROVE \E c \in Class : Called(c) /\ UNCHANGED phase
  BY <1>1, <1>4 DEF Called
<1> QED
  BY <1>2, <1>3, <1>4 DEF ProxyStep, Arrive, CheckCtx, ReadStatus, RateWait, Send, Upstream

LEMMA PTypeStep == PTypeOK /\ [PNext]_pvars => PTypeOK'
<1> SUFFICES ASSUME PTypeOK, [PNext]_pvars PROVE PTypeOK'
  OBVIOUS
<1> DEFINE ReqOK == /\ req \in [Req -> Requests]
                    /\ \A r \in Req : req[r].at = "reply" <=> req[r].got # None
<1>1. ReqOK /\ TypeOK /\ ctxDone \in BOOLEAN
  BY DEF PTypeOK, Requests
<1>2. ASSUME TypeOK', ReqOK', ctxDone' \in BOOLEAN PROVE PTypeOK'
  BY <1>2 DEF PTypeOK, Requests
<1>3. CASE Time
  BY <1>1, <1>2, <1>3, TickType DEF Time
<1>4. CASE Cancel
  BY <1>1, <1>2, <1>4 DEF Cancel, TypeOK
<1>5. ASSUME NEW r \in Req,
             (\E c \in Class : Arrive(r, c)) \/ ProxyStep(r) \/ Upstream(r)
      PROVE  PTypeOK'
  <2>1. TypeOK'
    BY <1>1, <1>5, StepCalls, CallType
  <2>2. ctxDone' \in BOOLEAN
    BY <1>1, <1>5 DEF Arrive, ProxyStep, CheckCtx, CheckBan, ReadStatus, RateWait, Send,
                      Reply, Upstream, Goto
  <2>3. ReqOK'
    <3>1. ASSUME NEW q \in Requests, q.at = "reply" <=> q.got # None,
                 req' = [req EXCEPT ![r] = q]
          PROVE  ReqOK'
      BY <1>1, <3>1
    <3>2. req[r] \in Requests /\ (req[r].at = "reply" <=> req[r].got # None)
      BY <1>1
    <3>3. ASSUME NEW pc \in {"idle", "check", "status", "wait", "send", "flight"},
                 req[r].at # "reply", Goto(r, pc)
          PROVE  ReqOK'
      <4>1. [req[r] EXCEPT !.at = pc] \in Requests
        BY <3>2 DEF Requests
      <4> QED
        BY <3>1, <3>2, <3>3, <4>1 DEF Goto, Requests
    <3>4. ASSUME NEW c \in Class, Arrive(r, c) PROVE ReqOK'
      BY <3>1, <3>4 DEF Arrive, Requests
    <3>5. CASE CheckCtx(r)
      BY <3>3, <3>5 DEF CheckCtx
    <3>6. CASE CheckBan(r)
      BY <3>3, <3>6 DEF CheckBan
    <3>7. CASE ReadStatus(r)
      BY <3>3, <3>7 DEF ReadStatus
    <3>8. CASE RateWait(r)
      BY <3>3, <3>8 DEF RateWait, WaitFailed
    <3>9. CASE Send(r)
      BY <3>3, <3>9 DEF Send
    <3>10. CASE Reply(r)
      <4>1. [req[r] EXCEPT !.at = "idle", !.got = None] \in Requests
        BY <3>2 DEF Requests
      <4> QED
        BY <3>1, <3>2, <3>10, <4>1 DEF Reply, Requests
    <3>11. CASE Upstream(r)
      <4>1. PICK got \in Outcome : req' = [req EXCEPT ![r] = [@ EXCEPT !.at = "reply", !.got = got]]
        BY <3>11 DEF Upstream
      <4>2. [req[r] EXCEPT !.at = "reply", !.got = got] \in Requests
        BY <3>2 DEF Requests
      <4> QED
        BY <3>1, <3>2, <4>1, <4>2, ProxyAssumption DEF Requests
    <3> QED
      BY <1>5, <3>4, <3>5, <3>6, <3>7, <3>8, <3>9, <3>10, <3>11 DEF ProxyStep
  <2> HIDE DEF ReqOK
  <2> QED
    BY <1>2, <2>1, <2>2, <2>3
<1>6. CASE UNCHANGED pvars
  BY <1>1, <1>2, <1>6 DEF pvars, TypeOK
<1>7. CASE PNext
  <2>1. CASE \E r \in Req : (\E c \in Class : Arrive(r, c)) \/ ProxyStep(r) \/ Upstream(r)
    <3>1. PICK r \in Req : (\E c \in Class : Arrive(r, c)) \/ ProxyStep(r) \/ Upstream(r)
      BY <2>1
    <3> QED
      BY <3>1, <1>5, Zenon
  <2> QED
    BY <1>3, <1>4, <1>7, <2>1, Zenon DEF PNext
<1> QED
  BY <1>6, <1>7

LEMMA PTypeInit == PInit => PTypeOK
  BY InitType DEF PInit, PTypeOK

\* The detector's fields keep their ranges, an error count below its
\* threshold among them, and a request has an outcome only while it reports it.
THEOREM ProxyTypeCorrect == PSpec => []PTypeOK
  BY PTypeInit, PTypeStep, PTL DEF PSpec

\* Nor do the requests that share the detector ever make a suspension longer
\* than one of the waits that may be asked for.
THEOREM ProxyBounded == PSpec => []Bounded
<1>1. PInit => Bounded
  BY BoundedInit DEF PInit
<1>2. PTypeOK /\ Bounded /\ [PNext]_pvars => Bounded'
  <2> SUFFICES ASSUME PTypeOK, Bounded, [PNext]_pvars PROVE Bounded'
    OBVIOUS
  <2>1. TypeOK
    BY DEF PTypeOK
  <2>2. CASE Time
    BY <2>1, <2>2, BoundedTick DEF Time
  <2>3. ASSUME NEW r \in Req,
               (\E c \in Class : Arrive(r, c)) \/ ProxyStep(r) \/ Upstream(r)
        PROVE  Bounded'
    BY <2>1, <2>3, StepCalls, BoundedCall
  <2>4. CASE Cancel \/ UNCHANGED pvars
    BY <2>4 DEF Cancel, pvars, Bounded
  <2>5. CASE \E r \in Req : (\E c \in Class : Arrive(r, c)) \/ ProxyStep(r) \/ Upstream(r)
    BY <2>3, <2>5
  <2> QED
    BY <2>2, <2>4, <2>5 DEF PNext
<1> QED
  BY <1>1, <1>2, ProxyTypeCorrect, PTL DEF PSpec

-----------------------------------------------------------------------------
(* What moves the end of a suspension.                                      *)

\* A response that is no ban and leaves the weight low leaves a suspension.
LEMMA ResponseKeeps ==
  ASSUME NEW b \in Fields, NEW resp \in Response, phase \in 1..Minute,
         resp.status \notin {403, 418, 429}, ~(AfterResponse(b, resp)[1].used > HighWeight)
  PROVE  AfterResponse(b, resp)[1].banned = b.banned /\ AfterResponse(b, resp)[1].left = b.left
<1> DEFINE w == UpdateWeight(b, resp)
<1>1. w \in Fields
  BY WeightType
<1>2. AfterResponse(b, resp) = IF w.used > HighWeight  THEN <<Suspend(w, phase), TRUE>>
                               ELSE IF resp.status = 200
                                    THEN <<NoBackoff([w EXCEPT !.errors = 0]), FALSE>>
                               ELSE <<w, FALSE>>
  BY Zenon DEF AfterResponse, w
<1>3. AfterResponse(b, resp)[2] = FALSE
  <2>1. Suspend(w, phase).used = w.used
    <3> HIDE DEF w
    <3> QED
      BY <1>1 DEF Suspend, Fields
  <2> HIDE DEF w
  <2>2. CASE w.used > HighWeight
    BY <1>2, <2>1, <2>2
  <2>3. CASE ~(w.used > HighWeight)
    BY <1>2, <2>3
  <2> QED
    BY <2>2, <2>3
<1>4. Answered(b, AfterResponse(b, resp))
  BY ResponseType
<1> HIDE DEF w
<1> QED
  BY <1>3, <1>4, Zenon DEF Answered

\* An error leaves a suspension unless it is the last one it takes.
LEMMA ErrorKeeps ==
  ASSUME NEW b \in Fields, b.errors # MaxErrors - 1
  PROVE  AfterError(b)[1].banned = b.banned /\ AfterError(b)[1].left = b.left
<1> DEFINE errors == IF b.age > Minute THEN 1 ELSE b.errors + 1
           e == [b EXCEPT !.errors = errors, !.age = 0]
<1>1. ~TooMany(errors)
  BY Constants DEF TooMany, Fields
<1>2. AfterError(b) = <<e, FALSE>>
  BY <1>1 DEF AfterError
<1>3. AfterError(b)[2] = FALSE
  <2> HIDE DEF e
  <2> QED
    BY <1>2
<1> QED
  BY <1>3, ErrorType DEF Answered

LEMMA SuspendingStep ==
  ASSUME PTypeOK, [PNext]_pvars, NEW c \in Class, Active(c)
  PROVE  \/ bd'[c].banned /\ bd'[c].left = bd[c].left
         \/ Time /\ bd'[c].banned /\ bd'[c].left = bd[c].left - 1
         \/ \E r \in Req : Reply(r) /\ req[r].class = c /\ Suspends(c, req[r].got)
<1>1. /\ TypeOK /\ bd \in [Class -> Fields] /\ bd[c] \in Fields /\ phase \in 1..Minute
      /\ req \in [Req -> Requests]
  BY DEF PTypeOK, TypeOK, Fields, Requests
<1>2. bd[c].banned /\ bd[c].left > 0 /\ bd[c].left \in Int
  BY <1>1 DEF Active, Fields
<1>3. CASE Time
  <2>1. bd'[c] = Older(bd[c])
    BY <1>1, <1>3, TickType DEF Time
  <2> QED
    BY <1>1, <1>2, <1>3, <2>1, OlderType
<1>4. CASE UNCHANGED bd
  BY <1>2, <1>4
<1>5. ASSUME NEW r \in Req, CheckBan(r)
      PROVE  bd'[c].banned /\ bd'[c].left = bd[c].left
  <2>1. req[r].class \in Class /\ bd' = [bd EXCEPT ![req[r].class] = Cleared(@)]
    BY <1>1, <1>5 DEF CheckBan, IsBanned, Requests
  <2>2. bd'[c] = bd[c] \/ bd'[c] = Cleared(bd[c])
    BY <1>1, <2>1
  <2> QED
    BY <1>1, <1>2, <2>2, ClearedType
<1>6. ASSUME NEW r \in Req, Reply(r)
      PROVE  \/ bd'[c].banned /\ bd'[c].left = bd[c].left
             \/ req[r].class = c /\ Suspends(c, req[r].got)
  <2> DEFINE d == req[r].class
             got == req[r].got
  <2>1. d \in Class /\ Report(d, got)
    BY <1>1, <1>6 DEF Reply, Requests
  <2>2. CASE d # c
    <3>1. Called(d) /\ UNCHANGED phase
      BY <1>6, <2>1 DEF Reply, Report, Called
    <3> QED
      BY <1>1, <1>2, <2>1, <2>2, <3>1, CallType
  <2> SUFFICES ASSUME d = c, ~Suspends(c, got)
               PROVE  bd'[c].banned /\ bd'[c].left = bd[c].left
    BY <2>2
  <2>3. CASE got \in Response
    <3>1. bd'[c] = AfterResponse(bd[c], got)[1]
      BY <1>1, <2>1, <2>3 DEF Report, CheckResponse
    <3>2. got.status \notin {403, 418, 429} /\ ~(bd'[c].used > HighWeight)
      BY <2>3 DEF Suspends
    <3> HIDE DEF got
    <3> QED
      BY <1>1, <1>2, <2>3, <3>1, <3>2, ResponseKeeps
  <2>4. CASE got \notin Response /\ got = ConnError
    <3>1. bd'[c] = AfterError(bd[c])[1]
      BY <1>1, <2>1, <2>4 DEF Report, CheckError
    <3>2. bd[c].errors # MaxErrors - 1
      BY <2>4 DEF Suspends
    <3> QED
      BY <1>1, <1>2, <3>1, <3>2, ErrorKeeps
  <2>5. CASE got \notin Response /\ got # ConnError
    BY <1>2, <2>1, <2>5 DEF Report
  <2> QED
    BY <2>3, <2>4, <2>5
<1>7. CASE \E r \in Req : (\E d \in Class : Arrive(r, d)) \/ ProxyStep(r) \/ Upstream(r)
  <2>1. PICK r \in Req : (\E d \in Class : Arrive(r, d)) \/ ProxyStep(r) \/ Upstream(r)
    BY <1>7
  <2>2. CheckBan(r) \/ Reply(r) \/ UNCHANGED bd
    BY <2>1 DEF Arrive, ProxyStep, CheckCtx, ReadStatus, RateWait, Send, Upstream
  <2> QED
    BY <1>4, <1>5, <1>6, <2>2, Zenon
<1> QED
  BY <1>3, <1>4, <1>7 DEF PNext, Cancel, pvars

\* Only an answer that would itself suspend the class moves the end of a
\* suspension that is under way, to a later or an earlier instant; all else
\* lets it come nearer with time.
THEOREM ProxyMovedOnlyBySuspending == PSpec => MovedOnlyBySuspending
<1>1. PTypeOK /\ [PNext]_pvars =>
        [\A c \in Class : Active(c) =>
           \/ bd'[c].banned /\ bd'[c].left = bd[c].left
           \/ Time /\ bd'[c].banned /\ bd'[c].left = bd[c].left - 1
           \/ \E r \in Req : Reply(r) /\ req[r].class = c /\ Suspends(c, req[r].got)]_pvars
  BY SuspendingStep
<1> QED
  BY <1>1, ProxyTypeCorrect, PTL DEF PSpec, MovedOnlyBySuspending

-----------------------------------------------------------------------------
(* The refinement of BanGate.                                              *)

gate == [c \in Class |-> IF Active(c) THEN bd[c].left ELSE 0]
inside == [r \in Req |-> IF req[r].at \in Admitted THEN req[r].class ELSE None]
GateStep == [Gate!Next]_<<gate, inside>>

LEMMA GateInit == PInit => Gate!Init
  BY DEF PInit, Init, Gate!Init, Active, Admitted

\* What a step leaves alone, as BanGate sees it.
LEMMA GateStays ==
  ASSUME PTypeOK, NEW c \in Class, IsBanned(c) \/ UNCHANGED bd
  PROVE  gate' = gate
<1>1. TypeOK /\ bd \in [Class -> Fields] /\ bd[c] \in Fields
  BY DEF PTypeOK, TypeOK, Fields
<1>2. CASE IsBanned(c)
  <2>1. bd' = [bd EXCEPT ![c] = Cleared(bd[c])]
    BY <1>2 DEF IsBanned
  <2>2. bd[c].left \in Int
    BY <1>1 DEF Fields
  <2>3. \A d \in Class : /\ Active(d)' <=> Active(d)
                         /\ Active(d) => bd'[d].left = bd[d].left
    BY <1>1, <2>1, <2>2, ClearedType DEF Active
  <2> QED
    BY <2>3, Zenon DEF gate
<1>3. CASE UNCHANGED bd
  BY <1>3 DEF gate, Active
<1> QED
  BY <1>2, <1>3

LEMMA GateSimulates == PTypeOK /\ [PNext]_pvars => GateStep
<1> SUFFICES ASSUME PTypeOK, [PNext]_pvars PROVE GateStep
  OBVIOUS
<1>1. /\ TypeOK /\ bd \in [Class -> Fields]
      /\ req \in [Req -> Requests] /\ \A r \in Req : req[r].class \in Class
  BY DEF PTypeOK, TypeOK, Fields, Requests
<1>2. CASE Time
  <2>1. \A c \in Class : bd'[c] = Older(bd[c]) /\ bd[c] \in Fields
    BY <1>1, <1>2, TickType DEF Time
  <2>2. ASSUME NEW c \in Class
        PROVE  (IF Active(c)' THEN bd'[c].left ELSE 0) = IF gate[c] = 0 THEN 0 ELSE gate[c] - 1
    <3>1. /\ bd'[c].banned = bd[c].banned /\ bd[c].left \in Int
          /\ bd'[c].left = IF bd[c].left > 0 THEN bd[c].left - 1 ELSE -1
      BY <2>1, <2>2, OlderType DEF Fields
    <3>2. gate[c] = IF bd[c].banned /\ bd[c].left > 0 THEN bd[c].left ELSE 0
      BY <2>2 DEF gate, Active
    <3>3. Active(c)' <=> bd'[c].banned /\ bd'[c].left > 0
      BY DEF Active
    <3> QED
      BY <3>1, <3>2, <3>3
  <2>3. gate' = [c \in Class |-> IF gate[c] = 0 THEN 0 ELSE gate[c] - 1]
    BY <2>2 DEF gate
  <2>4. inside' = inside
    BY <1>2 DEF Time, inside
  <2>5. Gate!Age
    BY <2>3, <2>4, Zenon DEF Gate!Age, Gate!Open, gate, inside
  <2> QED
    BY <2>5 DEF GateStep, Gate!Next
<1>3. ASSUME gate' = gate, inside' = inside PROVE GateStep
  BY <1>3 DEF GateStep
<1>4. ASSUME UNCHANGED bd PROVE gate' = gate
  BY <1>4 DEF gate, Active
<1>5. CASE Cancel \/ UNCHANGED pvars
  BY <1>3, <1>4, <1>5 DEF Cancel, pvars, inside
<1>6. ASSUME NEW r \in Req, (\E c \in Class : Arrive(r, c)) \/ ProxyStep(r) \/ Upstream(r)
      PROVE  GateStep
  <2> DEFINE c == req[r].class
  <2>1. c \in Class
    BY <1>1
  <2>2. ASSUME NEW q \in Requests, req' = [req EXCEPT ![r] = q],
               q.at \in Admitted <=> req[r].at \in Admitted,
               q.at \in Admitted => q.class = c
        PROVE  inside' = inside
    <3>1. \A s \in Req : (IF req'[s].at \in Admitted THEN req'[s].class ELSE None) = inside[s]
      BY <1>1, <2>2 DEF inside
    <3> QED
      BY <3>1 DEF inside
  <2>3. ASSUME NEW pc \in {"idle", "check", "status", "wait", "send", "flight"},
               Goto(r, pc), pc \in Admitted <=> req[r].at \in Admitted
        PROVE  inside' = inside
    <3>1. /\ [req[r] EXCEPT !.at = pc] \in Requests
          /\ [req[r] EXCEPT !.at = pc].at = pc /\ [req[r] EXCEPT !.at = pc].class = c
      BY <1>1 DEF Requests
    <3> QED
      BY <2>2, <2>3, <3>1 DEF Goto
  <2>4. CASE CheckBan(r)
    <3>1. gate' = gate
      BY <2>1, <2>4, GateStays DEF CheckBan
    <3>2. CASE Banned(bd[c])
      BY <1>3, <2>3, <2>4, <3>1, <3>2 DEF CheckBan, Admitted
    <3>3. CASE ~Banned(bd[c])
      <4>1. inside[r] = None /\ gate[c] = 0
        BY <2>1, <2>4, <3>3 DEF CheckBan, inside, gate, Admitted, Active, Banned
      <4>2. inside' = [inside EXCEPT ![r] = c]
        BY <1>1, <2>4, <3>3 DEF CheckBan, Goto, inside, Admitted, Requests
      <4>3. PICK d \in Class : d = c
        BY <2>1
      <4>4. Gate!Admit(r, d)
        BY <3>1, <4>1, <4>2, <4>3, Zenon DEF Gate!Admit, Gate!Open, gate, inside
      <4>5. \E s \in Req : Gate!Leave(s) \/ \E e \in Class : Gate!Admit(s, e)
        BY <4>4
      <4>6. Gate!Next
        BY <4>5 DEF Gate!Next
      <4> QED
        BY <4>6 DEF GateStep
    <3> QED
      BY <3>2, <3>3
  <2>5. CASE ReadStatus(r)
    <3>1. gate' = gate
      BY <1>4, <2>5 DEF ReadStatus
    <3>2. CASE bd[c].banned
      BY <1>3, <2>3, <2>5, <3>1, <3>2 DEF ReadStatus, Admitted
    <3>3. CASE ~bd[c].banned
      <4>1. inside[r] = None /\ gate[c] = 0
        BY <2>1, <2>5, <3>3 DEF ReadStatus, inside, gate, Admitted, Active
      <4>2. inside' = [inside EXCEPT ![r] = c]
        BY <1>1, <2>5, <3>3 DEF ReadStatus, Goto, inside, Admitted, Requests
      <4>3. PICK d \in Class : d = c
        BY <2>1
      <4>4. Gate!Admit(r, d)
        BY <3>1, <4>1, <4>2, <4>3, Zenon DEF Gate!Admit, Gate!Open, gate, inside
      <4>5. \E s \in Req : Gate!Leave(s) \/ \E e \in Class : Gate!Admit(s, e)
        BY <4>4
      <4>6. Gate!Next
        BY <4>5 DEF Gate!Next
      <4> QED
        BY <4>6 DEF GateStep
    <3> QED
      BY <3>2, <3>3
  <2>6. ASSUME gate' \in [Class -> Nat], \A d \in Class \ {c} : gate'[d] = gate[d],
               inside[r] = c, inside' = [inside EXCEPT ![r] = None]
        PROVE  GateStep
    <3>1. gate' = [gate EXCEPT ![c] = gate'[c]] /\ gate'[c] \in Nat
      BY <2>1, <2>6 DEF gate
    <3>2. inside[r] # None
      BY <2>1, <2>6, ProxyAssumption
    <3>3. Gate!Leave(r)
      BY <2>6, <3>1, <3>2, Zenon DEF Gate!Leave, gate, inside
    <3> QED
      BY <3>3 DEF GateStep, Gate!Next
  <2>7. /\ gate \in [Class -> Nat] /\ (TypeOK' => gate' \in [Class -> Nat])
        /\ \A d \in Class : bd'[d] = bd[d] => gate'[d] = gate[d]
    BY <1>1 DEF gate, Active, TypeOK, Fields
  <2>8. CASE RateWait(r)
    <3>1. gate' = gate
      BY <1>4, <2>8 DEF RateWait
    <3>2. CASE ctxDone
      <4>1. inside[r] = c
        BY <2>8 DEF RateWait, inside, Admitted
      <4>2. inside' = [inside EXCEPT ![r] = None]
        BY <1>1, <2>8, <3>2 DEF RateWait, WaitFailed, Goto, inside, Admitted, Requests
      <4> QED
        BY <2>6, <2>7, <3>1, <4>1, <4>2
    <3>3. CASE ~ctxDone
      BY <1>3, <2>3, <2>8, <3>1, <3>3 DEF RateWait, Admitted
    <3> QED
      BY <3>2, <3>3
  <2>9. CASE Reply(r)
    <3>1. inside[r] = c
      BY <2>9 DEF Reply, inside, Admitted
    <3>2. inside' = [inside EXCEPT ![r] = None]
      BY <1>1, <2>9 DEF Reply, inside, Admitted, Requests
    <3>3. Called(c) /\ UNCHANGED phase
      BY <2>9 DEF Reply, Report, Called
    <3> QED
      BY <1>1, <2>1, <2>6, <2>7, <3>1, <3>2, <3>3, CallType
  <2>10. ASSUME NEW d \in Class, Arrive(r, d) PROVE GateStep
    <3>1. [at |-> "ctx", class |-> d, got |-> None] \in Requests
      BY DEF Requests
    <3> QED
      BY <1>3, <1>4, <2>2, <2>10, <3>1 DEF Arrive, Admitted
  <2>11. CASE CheckCtx(r)
    BY <1>3, <1>4, <2>3, <2>11 DEF CheckCtx, Admitted
  <2>12. CASE Send(r)
    BY <1>3, <1>4, <2>3, <2>12 DEF Send, Admitted
  <2>13. CASE Upstream(r)
    <3>1. PICK got \in Outcome : req' = [req EXCEPT ![r] = [@ EXCEPT !.at = "reply", !.got = got]]
      BY <2>13 DEF Upstream
    <3> DEFINE q == [req[r] EXCEPT !.at = "reply", !.got = got]
    <3>2. q \in Requests /\ q.at = "reply" /\ q.class = c
      BY <1>1 DEF Requests
    <3>3. inside' = inside
      BY <2>2, <2>13, <3>1, <3>2 DEF Upstream, Admitted
    <3> QED
      BY <1>3, <1>4, <2>13, <3>3 DEF Upstream
  <2> QED
    BY <1>6, <2>4, <2>5, <2>8, <2>9, <2>10, <2>11, <2>12, <2>13 DEF ProxyStep
<1>7. CASE \E r \in Req : (\E c \in Class : Arrive(r, c)) \/ ProxyStep(r) \/ Upstream(r)
  BY <1>6, <1>7
<1> QED
  BY <1>2, <1>5, <1>7 DEF PNext

\* The detector and the requests that share it implement BanGate, for any
\* number of requests and classes: no request gets past a shut gate.
THEOREM ProxyGated == PSpec => Gated
<1>1. PTypeOK /\ [PNext]_pvars => [Gate!Next]_<<gate, inside>>
  BY GateSimulates DEF GateStep
<1> QED
  BY <1>1, ProxyTypeCorrect, GateInit, PTL DEF PSpec, Gated, Gate!Spec, gate, inside
=============================================================================
