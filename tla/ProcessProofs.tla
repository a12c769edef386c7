--------------------------- MODULE ProcessProofs ---------------------------
(* The process with any number of classes and of requests.                 *)
EXTENDS Process, FiniteSetTheorems, TLAPS

Down == {c \in Class : proxy[c] = "failed"}

\* Every failed listener has sent one error, which main has or has not got.
Accounted == errChan + errors = Cardinality(Down)

\* Whoever waits does so for one of the classes.
Waiting == \A r \in Req : req[r].at = "waiting" => req[r].class \in Class

IInv == TypeOK /\ Accounted /\ Waiting /\ NeverUnavailable /\ KeepsServing

USE DEF evars, pvars

LEMMA ClassesFinite ==
  ASSUME NEW S \in SUBSET Class
  PROVE  /\ IsFiniteSet(S) /\ Cardinality(S) \in Nat /\ Cardinality(S) <= Buffer
         /\ \A T \in SUBSET S : Cardinality(T) = Cardinality(S) => T = S
         /\ \A T \in SUBSET S : Cardinality(T) <= Cardinality(S)
<1>1. IsFiniteSet(S) /\ Cardinality(S) <= Cardinality(Class)
  BY InfoAssumption, FS_Subset
<1>2. Cardinality(S) \in Nat /\ Cardinality(Class) \in Nat
  BY InfoAssumption, <1>1, FS_CardinalityType
<1>3. Cardinality(S) <= Buffer
  BY <1>1, <1>2, ProcessAssumption
<1>4. \A T \in SUBSET S : /\ Cardinality(T) = Cardinality(S) => T = S
                          /\ Cardinality(T) <= Cardinality(S)
  BY <1>1, FS_Subset
<1> QED
  BY <1>1, <1>2, <1>3, <1>4

LEMMA InitInv == Init => IInv
<1> SUFFICES ASSUME Init PROVE IInv
  OBVIOUS
<1>1. PICK enabled \in SUBSET Class \ {{}} :
        /\ EInit(enabled)
        /\ proxy = [c \in Class |-> IF c \in enabled THEN "starting" ELSE "off"]
  BY DEF Init
<1> USE InfoAssumption, ProcessAssumption
<1>2. errChan = 0 /\ errors = 0 /\ restart = "none" /\ exited = FALSE
  BY DEF Init
<1>3. TypeOK
  <2>1. /\ at \in [Class -> {"off", "check", "wait", "fetch", "idle", "gone"}]
        /\ proxy \in [Class -> {"off", "starting", "listening", "failed"}]
    BY <1>1 DEF EInit
  <2>2. /\ info \in [Class -> Body] /\ {inited, started, banned} \subseteq SUBSET Class
        /\ \A c \in Class : c \in inited <=> info[c] # Nil
    BY <1>1 DEF EInit, Body
  <2>3. req \in [Req -> [at : {"none", "waiting", "answered"}, class : Class \cup {Nil},
                        body : Body]]
    BY <1>1 DEF EInit, NoReq, Body
  <2>4. {ctxDone, exited} \subseteq BOOLEAN
    BY <1>1, <1>2 DEF EInit
  <2> QED
    BY <1>2, <2>1, <2>2, <2>3, <2>4 DEF TypeOK
<1>4. Down = {}
  BY <1>1 DEF Down
<1>5. Accounted
  BY <1>2, <1>4, FS_EmptySet DEF Accounted
<1>6. Waiting /\ NeverUnavailable /\ KeepsServing
  BY <1>1, <1>2 DEF EInit, NoReq, Waiting, NeverUnavailable, KeepsServing
<1> QED
  BY <1>3, <1>5, <1>6 DEF IInv

\* What dies with the process has the shape of what never was.
LEMMA DieType ==
  ASSUME TypeOK, Die, UNCHANGED proxy, errChan' \in 0..Buffer, errors' \in Nat,
         restart' \in {"none", "accepted", "cancelled"}
  PROVE  TypeOK' /\ Waiting' /\ NeverUnavailable'
BY DEF TypeOK, Die, NoReq, Body, Waiting, NeverUnavailable

\* A step of a refresher or of the ban detector.
LEMMA RefreshStep ==
  ASSUME IInv, NEW c \in Class, Refresh(c) \/ Ban(c) \/ Lift(c), UNCHANGED pvars
  PROVE  IInv'
<1> USE DEF IInv, TypeOK
<1>1. UNCHANGED req
  BY DEF Refresh, CheckBan, RateWait, Timer, Leave, Store, Suspended, Failed, Ban, Lift
<1>2. UNCHANGED ctxDone
  BY DEF Refresh, CheckBan, RateWait, Timer, Leave, Store, Suspended, Failed, Ban, Lift
<1>3. /\ at' \in [Class -> {"off", "check", "wait", "fetch", "idle", "gone"}]
      /\ started' \in SUBSET Class
  <2>1. Return(c) \/ Again(c) => /\ at' \in [Class -> {"off", "check", "wait", "fetch", "idle", "gone"}]
                                 /\ started' \in SUBSET Class
    BY DEF Return, Again
  <2> QED
    BY <2>1 DEF Refresh, CheckBan, SkipBan, RateWait, Timer, Leave, Store, Suspended, Failed, Ban, Lift
<1>4. banned' \in SUBSET Class
  BY DEF Refresh, CheckBan, RateWait, Timer, Leave, Store, Suspended, Failed, Ban, Lift
<1>5. /\ info' \in [Class -> Body] /\ inited' \in SUBSET Class
      /\ \A d \in Class : d \in inited' <=> info'[d] # Nil
  <2>1. CASE Store(c)
    BY <2>1, InfoAssumption DEF Store, InitDone, Body
  <2>2. CASE ~Store(c)
    <3>1. UNCHANGED <<info, inited>>
      BY <2>2 DEF Refresh, CheckBan, RateWait, Timer, Leave, Suspended, Failed, Ban, Lift
    <3> QED
      BY <3>1
  <2> QED
    BY <2>1, <2>2
<1>6. TypeOK'
  BY <1>1, <1>2, <1>3, <1>4, <1>5
<1>7. Accounted' /\ Waiting' /\ NeverUnavailable' /\ KeepsServing'
  BY <1>1, <1>2 DEF Accounted, Down, Waiting, NeverUnavailable, KeepsServing, Enabled
<1> QED
  BY <1>6, <1>7

\* A request asks, or is answered.
LEMMA RequestStep ==
  ASSUME IInv, NEW r \in Req, Request(r) \/ GetExchangeInfo(r), UNCHANGED pvars
  PROVE  IInv'
<1> USE DEF IInv, TypeOK
<1>1. UNCHANGED <<at, info, inited, started, banned, ctxDone>>
  BY DEF Request, Ask, GetExchangeInfo
<1>2. Accounted' /\ KeepsServing'
  BY <1>1 DEF Accounted, Down, KeepsServing, Enabled
<1>3. CASE Request(r)
  <2>1. PICK c \in Class : req' = [req EXCEPT ![r] = [at |-> "waiting", class |-> c, body |-> Nil]]
    BY <1>3 DEF Request, Ask
  <2>2. TypeOK' /\ Waiting' /\ NeverUnavailable'
    BY <1>1, <2>1 DEF Waiting, NeverUnavailable, Body
  <2> QED
    BY <1>2, <2>2
<1>4. CASE GetExchangeInfo(r)
  <2>1. /\ req[r].class \in inited /\ req[r].class \in Class
        /\ req' = [req EXCEPT ![r] =
             [at |-> "answered", class |-> Nil, body |-> info[req[r].class]]]
    BY <1>4 DEF GetExchangeInfo, Ready, Waiting
  <2>2. info[req[r].class] \in Body /\ info[req[r].class] # Nil
    BY <2>1
  <2>3. TypeOK' /\ Waiting' /\ NeverUnavailable'
    BY <1>1, <2>1, <2>2 DEF Waiting, NeverUnavailable
  <2> QED
    BY <1>2, <2>3
<1> QED
  BY <1>3, <1>4

\* A listener fails: there is room for its error.
LEMMA FailStep ==
  ASSUME IInv, NEW c \in Class, ListenFails(c), ~exited
  PROVE  IInv'
<1> USE DEF IInv
<1>1. /\ proxy' = [proxy EXCEPT ![c] = "failed"] /\ errChan' = errChan + 1 /\ errChan < Buffer
      /\ proxy[c] # "failed" /\ UNCHANGED <<evars, errors, restart, exited>>
  BY DEF ListenFails
<1>2. errChan' \in 0..Buffer
  BY <1>1, ProcessAssumption DEF TypeOK
<1>3. TypeOK'
  BY <1>1, <1>2 DEF TypeOK
<1>4. Down' = Down \cup {c} /\ c \notin Down
  BY <1>1 DEF Down, TypeOK
<1>5. IsFiniteSet(Down) /\ Cardinality(Down) \in Nat
  BY ClassesFinite DEF Down
<1>6. Cardinality(Down') = Cardinality(Down) + 1
  BY <1>4, <1>5, FS_AddElement
<1>7. Accounted'
  BY <1>1, <1>5, <1>6 DEF Accounted, TypeOK
<1>8. Waiting' /\ NeverUnavailable' /\ KeepsServing'
  BY <1>1 DEF Waiting, NeverUnavailable, KeepsServing
<1> QED
  BY <1>3, <1>7, <1>8

\* main receives an error; it leaves only if every listener has sent one.
LEMMA CollectStep ==
  ASSUME IInv, Collect, ~exited
  PROVE  IInv'
<1> USE DEF IInv
<1>1. /\ errChan > 0 /\ errChan' = errChan - 1 /\ errors' = errors + 1
      /\ UNCHANGED <<proxy, restart>>
  BY DEF Collect
<1>2. errChan \in 0..Buffer /\ errors \in Nat
  BY DEF TypeOK
<1>3. errChan' \in 0..Buffer /\ errors' \in Nat
  BY <1>1, <1>2, ProcessAssumption
<1>4. Accounted'
  BY <1>1, <1>2 DEF Accounted, Down
<1>5. CASE AllFailed(errors + 1)
  <2>1. Die
    BY <1>5 DEF Collect
  <2>2. TypeOK' /\ Waiting' /\ NeverUnavailable'
    BY <1>1, <1>3, <2>1, DieType DEF TypeOK
  <2>3. Down \in SUBSET Enabled /\ Enabled \in SUBSET Class
    BY DEF Down, Enabled
  <2>4. Cardinality(Down) \in Nat /\ Cardinality(Enabled) \in Nat
    BY <2>3, ClassesFinite
  <2>5. Cardinality(Down) >= Cardinality(Enabled)
    BY <1>1, <1>2, <1>5, <2>4 DEF Accounted, AllFailed
  <2>6. Cardinality(Down) <= Cardinality(Enabled)
    BY <2>3, ClassesFinite
  <2>7. Cardinality(Down) = Cardinality(Enabled)
    BY <2>4, <2>5, <2>6
  <2>8. Down = Enabled
    BY <2>3, <2>7, ClassesFinite
  <2>9. KeepsServing'
    BY <1>1, <2>8 DEF KeepsServing, Enabled, Down
  <2> QED
    BY <1>4, <2>2, <2>9
<1>6. CASE ~AllFailed(errors + 1)
  <2>1. UNCHANGED <<evars, exited>>
    BY <1>6 DEF Collect
  <2>2. TypeOK'
    BY <1>1, <1>3, <2>1 DEF TypeOK
  <2>3. Waiting' /\ NeverUnavailable' /\ KeepsServing'
    BY <2>1 DEF Waiting, NeverUnavailable, KeepsServing
  <2> QED
    BY <1>4, <2>2, <2>3
<1> QED
  BY <1>5, <1>6

LEMMA InvStep == IInv /\ [Next]_vars => IInv'
<1> SUFFICES ASSUME IInv, [Next]_vars PROVE IInv'
  OBVIOUS
<1> USE DEF IInv
<1>1. CASE Signal
  BY <1>1 DEF Signal, TypeOK, Accounted, Down, Waiting, NeverUnavailable, KeepsServing, Enabled
<1>2. CASE Interrupted \/ Exit
  <2>1. Die /\ UNCHANGED <<proxy, errChan, errors, restart>>
    BY <1>2 DEF Interrupted, Exit
  <2>2. TypeOK' /\ Waiting' /\ NeverUnavailable'
    BY <2>1, DieType DEF TypeOK
  <2>3. Accounted'
    BY <2>1 DEF Accounted, Down
  <2>4. KeepsServing'
    BY <1>2, <2>1 DEF KeepsServing, Interrupted, Exit, Die
  <2> QED
    BY <2>2, <2>3, <2>4
<1>3. CASE Collect /\ ~exited
  BY <1>3, CollectStep
<1>4. ASSUME Cancel, ~exited PROVE IInv'
  BY <1>4 DEF Cancel, TypeOK, Accounted, Down, Waiting, NeverUnavailable, KeepsServing
<1>5. ASSUME NEW c \in Class, ListenFails(c), ~exited PROVE IInv'
  BY <1>5, FailStep
<1>6. ASSUME NEW c \in Class, Restart(c), ~exited PROVE IInv'
  BY <1>6 DEF Restart, TypeOK, Accounted, Down, Waiting, NeverUnavailable, KeepsServing
<1>7. ASSUME NEW c \in Class, Listen(c), ~exited PROVE IInv'
  <2>1. /\ proxy' = [proxy EXCEPT ![c] = "listening"] /\ proxy[c] = "starting"
        /\ UNCHANGED <<evars, errChan, errors, restart, exited>>
    BY <1>7 DEF Listen
  <2>2. TypeOK'
    BY <2>1 DEF TypeOK
  <2>3. Down' = Down
    BY <2>1 DEF Down, TypeOK
  <2>4. Accounted' /\ Waiting' /\ NeverUnavailable' /\ KeepsServing'
    BY <1>7, <2>1, <2>3 DEF Accounted, Waiting, NeverUnavailable, KeepsServing
  <2> QED
    BY <2>2, <2>4
<1>8. ASSUME NEW c \in Class, Refresh(c) \/ Ban(c) \/ Lift(c), UNCHANGED pvars PROVE IInv'
  BY <1>8, RefreshStep
<1>9. ASSUME NEW r \in Req, Request(r) \/ GetExchangeInfo(r), UNCHANGED pvars PROVE IInv'
  BY <1>9, RequestStep
<1>10. CASE UNCHANGED vars
  BY <1>10 DEF vars, TypeOK, Accounted, Down, Waiting, NeverUnavailable, KeepsServing, Enabled
<1> QED
  BY <1>1, <1>2, <1>3, <1>4, <1>5, <1>6, <1>7, <1>8, <1>9, <1>10 DEF Next

LEMMA Inductive == Spec => []IInv
  BY InitInv, InvStep, PTL DEF Spec

\* Every goroutine's state keeps its type, and initDone is called exactly
\* when the information is first there, for any number of classes.
THEOREM ProcessTypeCorrect == Spec => []TypeOK
<1>1. IInv => TypeOK
  BY DEF IInv
<1> QED
  BY Inductive, <1>1, PTL

\* GetExchangeInfo never returns nil, whatever became of the first refresh.
THEOREM AlwaysAvailable == Spec => []NeverUnavailable
<1>1. IInv => NeverUnavailable
  BY DEF IInv
<1> QED
  BY Inductive, <1>1, PTL

\* Unasked, main ends the process only when no listener is left: the errors
\* it has counted are of as many different classes.
THEOREM ServesToTheLast == Spec => []KeepsServing
<1>1. IInv => KeepsServing
  BY DEF IInv
<1> QED
  BY Inductive, <1>1, PTL

\* A failed startProxy can always leave its error: while a class has not
\* failed, errChan has room for it.
THEOREM NeverStuckOnErrChan ==
  Spec => [](\A c \in Class : proxy[c] # "failed" => errChan < Buffer)
<1>1. ASSUME IInv, NEW c \in Class, proxy[c] # "failed" PROVE errChan < Buffer
  <2>1. Down \in SUBSET Class /\ Down # Class
    BY <1>1 DEF Down
  <2>2. /\ Cardinality(Down) \in Nat /\ Cardinality(Class) \in Nat
        /\ Cardinality(Class) <= Buffer /\ Cardinality(Down) <= Cardinality(Class)
        /\ Cardinality(Down) # Cardinality(Class)
    BY <2>1, ClassesFinite
  <2> QED
    BY <1>1, <2>2, ProcessAssumption DEF IInv, Accounted, TypeOK
<1>2. IInv => \A c \in Class : proxy[c] # "failed" => errChan < Buffer
  BY <1>1
<1> QED
  BY Inductive, <1>2, PTL
=============================================================================
