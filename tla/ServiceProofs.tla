--------------------------- MODULE ServiceProofs ---------------------------
(* Safety of the service registry for any number of keys, objects and      *)
(* requests, and any idle times: the inductive invariant and its proof.    *)
EXTENDS Service, TLAPS

Holding(r) == req[r].at \notin {"idle", "load", "new"}
Sweeping == sweep.at \notin {"range", "exit"}

\* An object is only ever mapped, held or swept under its own key.
OwnKey ==
  /\ \A k \in Key : srvMap[k] # None => keyOf[srvMap[k]] = k
  /\ \A r \in Req : Holding(r) => keyOf[req[r].srv] = req[r].key
  /\ Sweeping => keyOf[sweep.srv] = sweep.key
  /\ \A s \in Srv : life[s] # {} => keyOf[s] # None

\* Until LoadOrStore has run the new object is its creator's alone.
Private ==
  \A r \in Req : req[r].at = "store" =>
    /\ life[req[r].srv] = {}
    /\ \A k \in Key : srvMap[k] # req[r].srv
    /\ \A q \in Req \ {r} : Holding(q) => req[q].srv # req[r].srv
    /\ Sweeping => sweep.srv # req[r].srv

\* Between its storing and its start an object cannot get lost: it is
\* mapped, or the sweeper has it in hand, or it was already stopped.
Registered(s) == \/ srvMap[keyOf[s]] = s
                 \/ sweep.at = "stop" /\ sweep.srv = s
                 \/ "stopped" \in life[s]
StoredStays == \A r \in Req : req[r].at = "start" => Registered(req[r].srv)

\* Nobody replaces an entry the sweeper is about to delete.
SweptMapped == sweep.at \in {"seed", "delGet", "delSrv"} => srvMap[sweep.key] = sweep.srv

\* What the sweeper is about to stop is mapped nowhere any more.
Unmapped == sweep.at = "stop" => \A k \in Key : srvMap[k] # sweep.srv

\* Whatever the registry maps a key to has been started or is about to be.
Coming(s) == \/ "started" \in life[s]
             \/ \E q \in Req : req[q].at = "start" /\ req[q].srv = s
MappedComes == \A k \in Key : srvMap[k] # None => Coming(srvMap[k])

IInv == /\ TypeOK /\ OwnKey /\ Private /\ StoredStays /\ SweptMapped
        /\ Unmapped /\ NoLeak /\ StartedOnce /\ NeverMapsStopped

USE DEF LifeEvent, env, maps, objs

LEMMA InitInv == Init => IInv
<1> SUFFICES ASSUME Init PROVE IInv
  OBVIOUS
<1> USE ServiceAssumption DEF Init
<1>1. TypeOK
  BY DEF TypeOK, ReqType, SweepType
<1>2. OwnKey /\ SweptMapped /\ Unmapped
  BY DEF OwnKey, SweptMapped, Unmapped, Holding, Sweeping
<1>3. Private /\ StoredStays /\ NoLeak /\ StartedOnce /\ NeverMapsStopped
  BY DEF Private, StoredStays, NoLeak, StartedOnce, NeverMapsStopped, Live
<1> QED
  BY <1>1, <1>2, <1>3 DEF IInv

\* Type correctness is inductive by itself.
LEMMA TypeStep == TypeOK /\ [Next]_vars => TypeOK'
<1> SUFFICES ASSUME TypeOK, [Next]_vars PROVE TypeOK'
  OBVIOUS
<1> USE ServiceAssumption DEF TypeOK
<1>1. ASSUME NEW r \in Req, NEW k \in Key, Arrive(r, k) PROVE TypeOK'
  <2>2. req[r] \in ReqType
    OBVIOUS
  <2>1. [req[r] EXCEPT !.at = "load", !.key = k] \in ReqType
    BY <2>2 DEF ReqType
  <2> QED
    BY <1>1, <2>1 DEF Arrive
<1>2. ASSUME NEW r \in Req, Load(r) PROVE TypeOK'
  <2> DEFINE q == [req[r] EXCEPT !.srv = srvMap[req[r].key],
                                 !.at = AfterLoad(srvMap[req[r].key])]
  <2>1. req[r] \in ReqType /\ req[r].key \in Key
    BY <1>2 DEF Load, ReqType
  <2>2. q \in ReqType
    <3>1. CASE srvMap[req[r].key] = None
      BY <1>2, <2>1, <3>1 DEF Load, ReqType, AfterLoad
    <3>2. CASE srvMap[req[r].key] # None
      BY <1>2, <2>1, <3>2 DEF Load, ReqType, AfterLoad
    <3> QED
      BY <3>1, <3>2
  <2> QED
    BY <1>2, <2>2 DEF Load
<1>3. ASSUME NEW r \in Req, New(r) PROVE TypeOK'
  <2>1. PICK s \in Srv : /\ keyOf' = [keyOf EXCEPT ![s] = req[r].key]
                         /\ req' = [req EXCEPT ![r] = [@ EXCEPT !.srv = s, !.at = "store"]]
    BY <1>3 DEF New
  <2>3. req[r] \in ReqType /\ req[r].key \in Key
    BY <1>3 DEF New, ReqType
  <2>2. [req[r] EXCEPT !.srv = s, !.at = "store"] \in ReqType
    BY <2>3 DEF ReqType
  <2> QED
    BY <1>3, <2>1, <2>2, <2>3 DEF New
<1>4. ASSUME NEW r \in Req, LoadOrStore(r) PROVE TypeOK'
  <2>1. req[r].key \in Key /\ req[r].srv \in Srv
    BY <1>4 DEF LoadOrStore, ReqType
  <2>2. CASE StoreOwn(r)
    <3>1. [req[r] EXCEPT !.at = "start"] \in ReqType
      BY <1>4, <2>1 DEF LoadOrStore, ReqType
    <3> QED
      BY <1>4, <2>1, <2>2, <3>1 DEF LoadOrStore, StoreOwn
  <2>3. CASE srvMap[req[r].key] # None /\ UseStored(r, "stamp")
    <3>2. req[r] \in ReqType /\ srvMap[req[r].key] \in Srv
      BY <2>1, <2>3
    <3>1. [req[r] EXCEPT !.srv = srvMap[req[r].key], !.at = "stamp"] \in ReqType
      BY <2>1, <3>2 DEF ReqType
    <3> QED
      BY <1>4, <2>3, <3>1 DEF LoadOrStore, UseStored
  <2> QED
    BY <1>4, <2>2, <2>3 DEF LoadOrStore, StoreStep
<1>5. ASSUME NEW r \in Req, Start(r) PROVE TypeOK'
  <2>1. [req[r] EXCEPT !.at = "stamp"] \in ReqType
    BY <1>5 DEF Start, ReqType
  <2> QED
    BY <1>5, <2>1 DEF Start, Launch, Mark
<1>6. ASSUME NEW r \in Req, Stamp(r) PROVE TypeOK'
  <2>1. [req[r] EXCEPT !.stamp = now, !.at = "touch"] \in ReqType
    BY <1>6 DEF Stamp, ReqType
  <2> QED
    BY <1>6, <2>1 DEF Stamp
<1>7. ASSUME NEW r \in Req, Touch(r) PROVE TypeOK'
  <2>1. [req[r] EXCEPT !.at = "wait"] \in ReqType /\ req[r].stamp \in Nat
    BY <1>7 DEF Touch, ReqType
  <2> QED
    BY <1>7, <2>1 DEF Touch
<1>8. ASSUME NEW r \in Req, Get(r) PROVE TypeOK'
  <2>1. [req[r] EXCEPT !.at = "done"] \in ReqType
    BY <1>8 DEF Get, ReqType
  <2> QED
    BY <1>8, <2>1 DEF Get
<1>9. CASE SweepBegin
  BY <1>9 DEF SweepBegin, SweepType
<1>10. ASSUME NEW k \in Key, SweepVisit(k) PROVE TypeOK'
  <2>1. k \in Key /\ srvMap[k] \in Srv \cup {None} /\ sweep.todo \ {k} \in SUBSET Key
    BY DEF SweepType
  <2>2. sweep' \in SweepType
    <3>1. CASE srvMap[k] = None \/ (lastGet[k] # None /\ ~Expired(k))
      BY <1>10, <2>1, <3>1 DEF SweepVisit, SweepType
    <3>2. CASE ~(srvMap[k] = None \/ (lastGet[k] # None /\ ~Expired(k)))
      <4> DEFINE a == IF lastGet[k] = None THEN "seed" ELSE "delGet"
      <4>1. a \in {"seed", "delGet"}
        OBVIOUS
      <4> HIDE DEF a
      <4>2. [sweep EXCEPT !.todo = @ \ {k}, !.key = k, !.srv = srvMap[k], !.at = a] \in SweepType
        BY <2>1, <3>2, <4>1 DEF SweepType
      <4> QED
        BY <1>10, <3>2, <4>2 DEF SweepVisit, a
    <3> QED
      BY <3>1, <3>2
  <2> QED
    BY <1>10, <2>2 DEF SweepVisit
<1>11. CASE SweepSeed
  BY <1>11 DEF SweepSeed, SweepType
<1>12. CASE SweepDelGet
  BY <1>12 DEF SweepDelGet, SweepType
<1>13. CASE SweepDelSrv
  BY <1>13 DEF SweepDelSrv, Delete, SweepType
<1>14. CASE SweepStop
  BY <1>14 DEF SweepStop, Halt, Mark, SweepType
<1>15. ASSUME NEW s \in Srv, FeedInit(s) \/ FeedExit(s) PROVE TypeOK'
  BY <1>15 DEF FeedInit, FeedExit, Mark
<1>16. CASE SweepExit
  BY <1>16 DEF SweepExit, SweepType
<1>17. CASE Stop
  BY <1>17 DEF Stop
<1>18. CASE Tick
  <2>1. now' \in Nat
    BY <1>18 DEF Tick
  <2> QED
    BY <1>18, <2>1 DEF Tick
<1>19. CASE UNCHANGED vars
  BY <1>19 DEF vars
<1> QED
  BY <1>1, <1>2, <1>3, <1>4, <1>5, <1>6, <1>7, <1>8, <1>9, <1>10, <1>11, <1>12,
     <1>13, <1>14, <1>15, <1>16, <1>17, <1>18, <1>19 DEF Next, ReqStep, SweepStep

\* One step per action; a leaf names the parts it disturbs.
LEMMA InvStep == IInv /\ [Next]_vars => IInv'
<1> SUFFICES ASSUME IInv, [Next]_vars PROVE IInv'
  OBVIOUS
<1>0. TypeOK /\ TypeOK'
  BY TypeStep DEF IInv
<1> USE <1>0, ServiceAssumption DEF IInv, OwnKey, Private, StoredStays, Registered,
      SweptMapped, Unmapped, NoLeak, StartedOnce, NeverMapsStopped, Holding, Sweeping, Live, TypeOK, ReqType, SweepType
<1>1. ASSUME NEW r \in Req, NEW k \in Key, Arrive(r, k) PROVE IInv'
  BY <1>1 DEF Arrive
<1>2. ASSUME NEW r \in Req, Load(r) PROVE IInv'
  <2>1. CASE srvMap[req[r].key] = None
    BY <1>2, <2>1 DEF Load, AfterLoad
  <2>2. CASE srvMap[req[r].key] # None
    <3>1. OwnKey'
      BY <1>2, <2>2 DEF Load, AfterLoad
    <3>2. Private'
      BY <1>2, <2>2 DEF Load, AfterLoad
    <3>3. StoredStays'
      <4>1. ASSUME NEW q \in Req, req'[q].at = "start" PROVE req'[q] = req[q]
        BY <4>1, <1>2, <2>2 DEF Load, AfterLoad
      <4>2. UNCHANGED <<srvMap, keyOf, life, sweep>>
        BY <1>2, <2>2 DEF Load, AfterLoad
      <4> HIDE DEF TypeOK, IInv, OwnKey, Private, NoLeak, StartedOnce
      <4> QED
        BY <4>1, <4>2 DEF IInv
    <3>4. SweptMapped'
      BY <1>2, <2>2 DEF Load, AfterLoad
    <3>5. NoLeak'
      BY <1>2, <2>2 DEF Load, AfterLoad
    <3>6. StartedOnce' /\ Unmapped' /\ NeverMapsStopped'
      BY <1>2, <2>2 DEF Load, AfterLoad
    <3> QED
      BY <3>1, <3>2, <3>3, <3>4, <3>5, <3>6
  <2> QED
    BY <2>1, <2>2
<1>3. ASSUME NEW r \in Req, New(r) PROVE IInv'
  <2>1. OwnKey'
    BY <1>3 DEF New
  <2>2. Private'
    BY <1>3 DEF New
  <2>3. StoredStays'
    BY <1>3 DEF New
  <2>4. SweptMapped'
    BY <1>3 DEF New
  <2>5. NoLeak'
    BY <1>3 DEF New
  <2>6. StartedOnce' /\ Unmapped' /\ NeverMapsStopped'
    BY <1>3 DEF New
  <2> QED
    BY <2>1, <2>2, <2>3, <2>4, <2>5, <2>6
<1>4. ASSUME NEW r \in Req, LoadOrStore(r) PROVE IInv'
  <2>1. CASE srvMap[req[r].key] = None /\ StoreOwn(r)
    <3>1. OwnKey'
      BY <1>4, <2>1 DEF LoadOrStore, StoreOwn
    <3>2. Private'
      BY <1>4, <2>1 DEF LoadOrStore, StoreOwn
    <3>3. StoredStays'
      BY <1>4, <2>1 DEF LoadOrStore, StoreOwn
    <3>4. SweptMapped'
      BY <1>4, <2>1 DEF LoadOrStore, StoreOwn
    <3>5. NoLeak'
      BY <1>4, <2>1 DEF LoadOrStore, StoreOwn
    <3>6. StartedOnce' /\ Unmapped' /\ NeverMapsStopped'
      BY <1>4, <2>1 DEF LoadOrStore, StoreOwn
    <3> QED
      BY <3>1, <3>2, <3>3, <3>4, <3>5, <3>6
  <2>2. CASE srvMap[req[r].key] # None /\ UseStored(r, "stamp")
    <3>1. OwnKey'
      BY <1>4, <2>2 DEF LoadOrStore, UseStored
    <3>2. Private'
      BY <1>4, <2>2 DEF LoadOrStore, UseStored
    <3>3. StoredStays'
      <4>1. ASSUME NEW q \in Req, req'[q].at = "start" PROVE req'[q] = req[q]
        BY <4>1, <1>4, <2>2 DEF LoadOrStore, UseStored
      <4>2. UNCHANGED <<srvMap, keyOf, life, sweep>>
        BY <1>4, <2>2 DEF LoadOrStore, UseStored
      <4> HIDE DEF TypeOK, IInv, OwnKey, Private, NoLeak, StartedOnce
      <4> QED
        BY <4>1, <4>2 DEF IInv
    <3>4. SweptMapped'
      BY <1>4, <2>2 DEF LoadOrStore, UseStored
    <3>5. NoLeak'
      BY <1>4, <2>2 DEF LoadOrStore, UseStored
    <3>6. StartedOnce' /\ Unmapped' /\ NeverMapsStopped'
      BY <1>4, <2>2 DEF LoadOrStore, UseStored
    <3> QED
      BY <3>1, <3>2, <3>3, <3>4, <3>5, <3>6
  <2> QED
    BY <1>4, <2>1, <2>2 DEF LoadOrStore, StoreStep
<1>5. ASSUME NEW r \in Req, Start(r) PROVE IInv'
  <2>1. /\ req[r].at = "start" /\ req[r].srv \in Srv
        /\ req' = [req EXCEPT ![r].at = "stamp"]
        /\ life' = [life EXCEPT ![req[r].srv] = @ \cup {"started"}]
        /\ UNCHANGED <<srvMap, keyOf, sweep>>
    BY <1>5 DEF Start, Launch, Mark
  <2>2. OwnKey' /\ SweptMapped' /\ Unmapped'
    BY <2>1
  <2>3. Private'
    BY <2>1
  <2>4. StoredStays'
    BY <2>1
  <2>5. NoLeak' /\ NeverMapsStopped'
    BY <2>1
  <2>6. StartedOnce'
    BY <2>1
  <2> QED
    BY <2>2, <2>3, <2>4, <2>5, <2>6
<1>6. ASSUME NEW r \in Req, Stamp(r) \/ Touch(r) \/ Get(r) PROVE IInv'
  <2>1. /\ UNCHANGED <<srvMap, keyOf, life, sweep>>
        /\ \A q \in Req : /\ req'[q].key = req[q].key /\ req'[q].srv = req[q].srv
                          /\ req'[q].at \in {"store", "start"} => req'[q].at = req[q].at
                          /\ Holding(q)' <=> Holding(q)
    <3>1. CASE Stamp(r)
      BY <3>1 DEF Stamp
    <3>2. CASE Touch(r)
      BY <3>2 DEF Touch
    <3>3. CASE Get(r)
      BY <3>3 DEF Get
    <3> QED
      BY <1>6, <3>1, <3>2, <3>3
  <2> HIDE DEF Holding, TypeOK
  <2>2. OwnKey' /\ SweptMapped' /\ Unmapped'
    BY <2>1
  <2>3. Private' /\ StoredStays'
    BY <2>1
  <2>4. NoLeak' /\ StartedOnce' /\ NeverMapsStopped'
    BY <2>1
  <2> QED
    BY <2>2, <2>3, <2>4
<1>9. ASSUME SweepBegin PROVE IInv'
  BY <1>9 DEF SweepBegin
<1>10. ASSUME NEW k \in Key, SweepVisit(k) PROVE IInv'
  <2>1. CASE srvMap[k] = None \/ (lastGet[k] # None /\ ~Expired(k))
    BY <1>10, <2>1 DEF SweepVisit
  <2>2. CASE srvMap[k] # None /\ (lastGet[k] = None \/ Expired(k))
    <3> DEFINE a == IF lastGet[k] = None THEN "seed" ELSE "delGet"
    <3>1. /\ a \in {"seed", "delGet"}
          /\ sweep' = [sweep EXCEPT !.todo = @ \ {k}, !.key = k, !.srv = srvMap[k], !.at = a]
          /\ sweep.at = "range" /\ UNCHANGED <<maps, objs, req>>
      BY <1>10, <2>2, Zenon DEF SweepVisit
    <3> HIDE DEF a
    <3>2. sweep'.at = a /\ sweep'.key = k /\ sweep'.srv = srvMap[k]
      BY <3>1
    <3>3. OwnKey' /\ SweptMapped'
      BY <3>1, <3>2
    <3>4. Private' /\ StoredStays'
      BY <3>1, <3>2
    <3>5. NoLeak' /\ StartedOnce' /\ Unmapped' /\ NeverMapsStopped'
      BY <3>1, <3>2
    <3> QED
      BY <3>3, <3>4, <3>5
  <2> QED
    BY <2>1, <2>2
<1>11. ASSUME SweepSeed PROVE IInv'
  BY <1>11 DEF SweepSeed
<1>12. ASSUME SweepDelGet PROVE IInv'
  BY <1>12 DEF SweepDelGet
<1>13. ASSUME SweepDelSrv PROVE IInv'
  BY <1>13 DEF SweepDelSrv, Delete
<1>14. ASSUME SweepStop PROVE IInv'
  BY <1>14 DEF SweepStop, Halt, Mark
<1>15. ASSUME NEW s \in Srv, FeedInit(s) \/ FeedExit(s) PROVE IInv'
  <2>1. CASE FeedInit(s)
    BY <2>1 DEF FeedInit, Mark
  <2>2. CASE FeedExit(s)
    BY <2>2 DEF FeedExit, Mark
  <2> QED
    BY <1>15, <2>1, <2>2
<1>16. ASSUME SweepExit PROVE IInv'
  BY <1>16 DEF SweepExit
<1>17. ASSUME Stop PROVE IInv'
  BY <1>17 DEF Stop
<1>18. ASSUME Tick PROVE IInv'
  BY <1>18 DEF Tick
<1>19. ASSUME UNCHANGED vars PROVE IInv'
  BY <1>19 DEF vars
<1> QED
  BY <1>1, <1>2, <1>3, <1>4, <1>5, <1>6, <1>9, <1>10, <1>11,
     <1>12, <1>13, <1>14, <1>15, <1>16, <1>17, <1>18, <1>19
     DEF Next, ReqStep, SweepStep

LEMMA Inductive == Spec => []IInv
  BY InitInv, InvStep, PTL DEF Spec

\* Starting is all that becomes of a request about to start its object.
LEMMA ComingStays ==
  ASSUME IInv, NEW s \in Srv, Coming(s), Next
  PROVE  Coming(s)'
<1> USE DEF Coming
<1>0. req \in [Req -> ReqType] /\ life \in [Srv -> SUBSET LifeEvent]
  BY DEF IInv, TypeOK
<1>1. life[s] \subseteq life'[s]
  <2>1. ASSUME NEW t \in Srv, NEW e \in LifeEvent, Mark(t, e)
        PROVE  life[s] \subseteq life'[s]
    BY <1>0, <2>1 DEF Mark
  <2>2. ASSUME NEW r \in Req, ReqStep(r) PROVE life[s] \subseteq life'[s]
    <3>1. CASE Start(r)
      BY <2>1, <3>1 DEF IInv, TypeOK, ReqType, Start, Launch
    <3>2. CASE ~Start(r)
      BY <2>2, <3>2 DEF ReqStep, Load, New, LoadOrStore, Stamp, Touch, Get
    <3> QED
      BY <3>1, <3>2
  <2>3. CASE SweepStop
    BY <2>1, <2>3 DEF IInv, TypeOK, SweepType, SweepStop, Halt
  <2>4. CASE \E t \in Srv : FeedInit(t) \/ FeedExit(t)
    BY <2>1, <2>4 DEF FeedInit, FeedExit
  <2>5. CASE ~SweepStop /\ SweepStep
    BY <2>5 DEF SweepStep, SweepBegin, SweepVisit, SweepSeed, SweepDelGet, SweepDelSrv
  <2> QED
    BY <2>2, <2>3, <2>4, <2>5 DEF Next, Arrive, SweepExit, Stop, Tick
<1>2. ASSUME NEW q \in Req, req[q].at = "start", req[q].srv = s
      PROVE  Coming(s)'
  <2>1. CASE Start(q)
    BY <1>0, <1>2, <2>1 DEF Start, Launch, Mark
  <2>2. CASE ~Start(q)
    <3>1. ASSUME NEW r \in Req, r # q, (\E k \in Key : Arrive(r, k)) \/ ReqStep(r)
          PROVE  req'[q] = req[q]
      BY <1>0, <3>1 DEF ReqStep, Arrive, Load, New, LoadOrStore, StoreStep, StoreOwn, UseStored,
                        Start, Stamp, Touch, Get
    <3>2. ~(\E k \in Key : Arrive(q, k)) /\ ~ReqStep(q)
      BY <1>2, <2>2 DEF ReqStep, Arrive, Load, New, LoadOrStore, Stamp, Touch, Get
    <3>3. CASE UNCHANGED req
      BY <1>2, <3>3
    <3>4. CASE \E r \in Req : (\E k \in Key : Arrive(r, k)) \/ ReqStep(r)
      BY <1>2, <3>1, <3>2, <3>4
    <3> QED
      BY <3>3, <3>4 DEF Next, SweepStep, SweepBegin, SweepVisit, SweepSeed, SweepDelGet,
         SweepDelSrv, SweepStop, SweepExit, FeedInit, FeedExit, Stop, Tick
  <2> QED
    BY <2>1, <2>2
<1> QED
  BY <1>1, <1>2

Locals == [at : {"idle", "load", "new", "store", "start", "stamp", "touch", "wait", "done"},
           key : Key \cup {None}, srv : Srv \cup {None}, stamp : Nat \cup {None}]

LEMMA ReqTypes ==
  ASSUME TypeOK
  PROVE  /\ req \in [Req -> Locals]
         /\ \A r \in Req : req[r].at # "idle" => req[r].key \in Key
         /\ \A r \in Req : req[r].at \notin {"idle", "load", "new"} => req[r].srv \in Srv
<1> USE ServiceAssumption DEF TypeOK
<1>1. req \in [Req -> Locals]
  BY DEF ReqType, Locals
<1>2. ASSUME NEW r \in Req, req[r].at # "idle" PROVE req[r].key \in Key
  BY <1>2 DEF ReqType
<1>3. ASSUME NEW r \in Req, req[r].at \notin {"idle", "load", "new"} PROVE req[r].srv \in Srv
  BY <1>3 DEF ReqType
<1> QED
  BY <1>1, <1>2, <1>3

JInv == IInv /\ MappedComes /\ StartComes

LEMMA ComesStep == JInv /\ [Next]_vars => MappedComes' /\ StartComes'
<1> SUFFICES ASSUME JInv, [Next]_vars PROVE MappedComes' /\ StartComes'
  OBVIOUS
<1> DEFINE Past == {"stamp", "touch", "wait"}
<1>0. /\ req \in [Req -> ReqType] /\ life \in [Srv -> SUBSET LifeEvent]
      /\ srvMap \in [Key -> Srv \cup {None}] /\ sweep \in SweepType
      /\ TypeOK'
  BY TypeStep DEF JInv, IInv, TypeOK
<1>1. CASE UNCHANGED vars
  BY <1>1 DEF vars, JInv, MappedComes, StartComes, Coming
<1>2. ASSUME Next, NEW k \in Key, NEW s \in Srv, srvMap'[k] = s
      PROVE  srvMap[k] = s \/ Coming(s)'
  <2>1. ASSUME NEW r \in Req, LoadOrStore(r)
        PROVE  srvMap[k] = s \/ Coming(s)'
    <3>1. CASE StoreOwn(r)
      <4>1. req'[r].at = "start" /\ req'[r].srv = req[r].srv /\ req[r].key \in Key
        BY <1>0, <2>1, <3>1 DEF StoreOwn, LoadOrStore, ReqType
      <4>2. k # req[r].key => srvMap'[k] = srvMap[k]
        BY <1>0, <3>1, <4>1 DEF StoreOwn
      <4>3. k = req[r].key => s = req'[r].srv
        BY <1>0, <1>2, <3>1, <4>1 DEF StoreOwn
      <4> QED
        BY <1>2, <4>1, <4>2, <4>3 DEF Coming
    <3>2. CASE UNCHANGED srvMap
      BY <1>2, <3>2
    <3> QED
      BY <2>1, <3>1, <3>2 DEF LoadOrStore, StoreStep, UseStored
  <2>2. CASE SweepDelSrv
    BY <1>0, <1>2, <2>2, ServiceAssumption DEF SweepDelSrv, Delete, SweepType
  <2>3. CASE UNCHANGED srvMap
    BY <1>2, <2>3
  <2> QED
    BY <1>2, <2>1, <2>2, <2>3 DEF Next, ReqStep, SweepStep, Arrive, Load, New, Start, Stamp, Touch,
       Get, SweepBegin, SweepVisit, SweepSeed, SweepDelGet, SweepStop, SweepExit, FeedInit,
       FeedExit, Stop, Tick
<1>3. ASSUME Next, NEW r \in Req, req'[r].at \in Past
      PROVE  \/ req[r].at \in Past /\ req'[r].srv = req[r].srv
             \/ \E k \in Key : srvMap[k] # None /\ req'[r].srv = srvMap[k]
             \/ "started" \in life'[req'[r].srv]
  <2>1. CASE Load(r)
    BY <1>0, <1>3, <2>1 DEF Load, AfterLoad, ReqType
  <2>2. CASE LoadOrStore(r)
    <3>1. req[r].key \in Key
      BY <1>0, <2>2 DEF LoadOrStore, ReqType
    <3>2. ~StoreOwn(r)
      <4>1. StoreOwn(r) => req'[r].at = "start"
        BY <1>0 DEF StoreOwn, ReqType
      <4> QED
        BY <1>3, <4>1
    <3>3. srvMap[req[r].key] # None /\ UseStored(r, "stamp")
      BY <2>2, <3>2 DEF LoadOrStore, StoreStep
    <3> QED
      BY <1>0, <3>1, <3>3 DEF UseStored
  <2>3. CASE Start(r)
    BY <1>0, <1>3, <2>3 DEF Start, Launch, Mark, ReqType
  <2>0. req \in [Req -> Locals]
    BY ReqTypes DEF JInv, IInv
  <2>4. CASE New(r) \/ Stamp(r) \/ Touch(r) \/ Get(r) \/ \E k \in Key : Arrive(r, k)
    <3>1. CASE New(r) \/ Get(r) \/ \E k \in Key : Arrive(r, k)
      <4>1. New(r) => req'[r].at = "store"
        BY <2>0 DEF New, Locals
      <4>2. Get(r) => req'[r].at = "done"
        BY <2>0 DEF Get, Locals
      <4>3. (\E k \in Key : Arrive(r, k)) => req'[r].at = "load"
        BY <2>0 DEF Arrive, Locals
      <4> QED
        BY <1>3, <3>1, <4>1, <4>2, <4>3
    <3>2. CASE Stamp(r) \/ Touch(r)
      BY <2>0, <3>2 DEF Stamp, Touch, Locals
    <3> QED
      BY <2>4, <3>1, <3>2
  <2>5. ASSUME NEW q \in Req, q # r, ReqStep(q) \/ \E k \in Key : Arrive(q, k)
        PROVE  req'[r] = req[r]
    BY <1>0, <2>5 DEF ReqStep, Arrive, Load, New, LoadOrStore, StoreStep, StoreOwn, UseStored,
                      Start, Stamp, Touch, Get
  <2>6. CASE req'[r] = req[r]
    BY <1>3, <2>6
  <2> QED
    BY <1>3, <2>1, <2>2, <2>3, <2>4, <2>5, <2>6 DEF Next, ReqStep, SweepStep, SweepBegin, SweepVisit,
       SweepSeed, SweepDelGet, SweepDelSrv, SweepStop, SweepExit, FeedInit, FeedExit, Stop, Tick
<1>4. CASE Next
  <2>1. MappedComes'
    <3>1. ASSUME NEW k \in Key, NEW s \in Srv, srvMap'[k] = s PROVE Coming(s)'
      <4>1. CASE srvMap[k] = s
        <5>1. Coming(s)
          BY <4>1, ServiceAssumption DEF JInv, MappedComes
        <5> QED
          BY <1>4, <5>1, ComingStays DEF JInv
      <4> QED
        BY <1>2, <1>4, <3>1, <4>1
    <3>2. \A k \in Key : srvMap'[k] # None => srvMap'[k] \in Srv
      BY <1>0 DEF TypeOK
    <3> QED
      BY <3>1, <3>2 DEF MappedComes, Coming
  <2>2. StartComes'
    <3>1. ASSUME NEW r \in Req, req'[r].at \in Past, NEW s \in Srv, req'[r].srv = s
          PROVE  Coming(s)'
      <4>1. CASE req[r].at \in Past /\ req[r].srv = s
        <5>1. Coming(s)
          BY <4>1 DEF JInv, StartComes, Coming
        <5> QED
          BY <1>4, <5>1, ComingStays DEF JInv
      <4>2. ASSUME NEW k \in Key, srvMap[k] # None, srvMap[k] = s PROVE Coming(s)'
        <5>1. Coming(s)
          BY <4>2 DEF JInv, MappedComes
        <5> QED
          BY <1>4, <5>1, ComingStays DEF JInv
      <4>3. CASE "started" \in life'[s]
        BY <4>3 DEF Coming
      <4>4. \/ req[r].at \in Past /\ req[r].srv = s
            \/ \E k \in Key : srvMap[k] # None /\ srvMap[k] = s
            \/ "started" \in life'[s]
        BY <1>3, <1>4, <3>1
      <4> QED
        BY <4>1, <4>2, <4>3, <4>4
    <3>2. \A r \in Req : req'[r].at \in Past => req'[r].srv \in Srv
      BY <1>0 DEF TypeOK, ReqType
    <3> QED
      BY <3>1, <3>2 DEF StartComes, Coming
  <2> QED
    BY <2>1, <2>2
<1> QED
  BY <1>1, <1>4

\* No request waits on an object nobody will start: neither the one that
\* found it in the map before its creator called Start, nor one that built
\* an object of its own and lost.
THEOREM WaitsForAStart == Spec => []StartComes
<1>1. Init => MappedComes /\ StartComes
  BY DEF Init, MappedComes, StartComes
<1>2. JInv /\ [Next]_vars => JInv'
  BY InvStep, ComesStep DEF JInv
<1>3. Init => JInv
  BY <1>1, InitInv DEF JInv
<1>4. JInv => StartComes
  BY DEF JInv
<1> QED
  BY <1>2, <1>3, <1>4, PTL DEF Spec

-----------------------------------------------------------------------------
(* The refinement of Registry.                                             *)

\* What the registry's callers see of it.
view == <<srvMap, leaving, begun, ended, wants, holds>>

\* A step of one request shows in what it wants and holds only.
LEMMA OneRequest ==
  ASSUME TypeOK, NEW r \in Req, NEW q \in Locals, req' = [req EXCEPT ![r] = q]
  PROVE  /\ wants' = [wants EXCEPT ![r] = IF q.at = "idle" THEN None ELSE q.key]
         /\ holds' = [holds EXCEPT ![r] =
                        IF q.at \in {"idle", "load", "new", "store"} THEN None ELSE q.srv]
<1>1. req \in [Req -> Locals]
  BY ReqTypes
<1>2. \A p \in Req : req'[p] = IF p = r THEN q ELSE req[p]
  BY <1>1
<1>3. wants' = [p \in Req |-> IF p = r THEN IF q.at = "idle" THEN None ELSE q.key ELSE wants[p]]
  BY <1>2 DEF wants
<1>4. holds' = [p \in Req |-> IF p = r THEN IF q.at \in {"idle", "load", "new", "store"}
                               THEN None ELSE q.srv ELSE holds[p]]
  BY <1>2 DEF holds
<1> QED
  BY <1>3, <1>4 DEF wants, holds

\* One that neither asks nor obtains anything changes neither.
LEMMA SameRequest ==
  ASSUME TypeOK, NEW r \in Req, NEW q \in Locals, req' = [req EXCEPT ![r] = q],
         q.at # "idle", req[r].at # "idle", q.key = req[r].key,
         \/ q.at \in {"load", "new", "store"} /\ req[r].at \in {"load", "new", "store"}
         \/ /\ q.at \notin {"load", "new", "store"} /\ req[r].at \notin {"load", "new", "store"}
            /\ q.srv = req[r].srv
  PROVE  wants' = wants /\ holds' = holds
<1>1. wants[r] = q.key /\ wants' = [wants EXCEPT ![r] = wants[r]]
  BY OneRequest DEF wants
<1>2. holds' = [holds EXCEPT ![r] = holds[r]]
  BY OneRequest DEF holds
<1> QED
  BY <1>1, <1>2 DEF wants, holds

LEMMA AskStep ==
  ASSUME IInv, NEW r \in Req, NEW k \in Key, Arrive(r, k)
  PROVE  Shares!Ask(r, k)
<1> DEFINE q == [req[r] EXCEPT !.at = "load", !.key = k]
<1>1. TypeOK /\ req \in [Req -> Locals] /\ req[r].at = "idle"
  BY ReqTypes DEF IInv, Arrive
<1>2. q \in Locals /\ q.at = "load" /\ q.key = k /\ req' = [req EXCEPT ![r] = q]
  BY <1>1 DEF Arrive, Locals
<1> HIDE DEF q
<1>3. wants[r] = None /\ wants' = [wants EXCEPT ![r] = k]
  BY <1>1, <1>2, OneRequest DEF wants
<1>4. holds[r] = None /\ holds' = [holds EXCEPT ![r] = None]
  BY <1>1, <1>2, OneRequest DEF holds
<1>5. holds' = holds
  BY <1>4 DEF holds
<1>6. UNCHANGED <<srvMap, leaving, begun, ended>>
  BY DEF Arrive, leaving, begun, ended
<1> QED
  BY <1>3, <1>5, <1>6 DEF Shares!Ask

\* The instant at which a request is handed its service: the Load that finds
\* one, the LoadOrStore that finds one or stores one.
LEMMA ObtainStep ==
  ASSUME IInv, NEW r \in Req, NEW q \in Locals, NEW s \in Srv,
         req[r].at \in {"load", "new", "store"}, req' = [req EXCEPT ![r] = q],
         q.at \notin {"idle", "load", "new", "store"}, q.key = req[r].key, q.srv = s,
         srvMap[req[r].key] = s \/ (srvMap[req[r].key] = None /\ ~Shares!Entered(s)),
         srvMap' = [srvMap EXCEPT ![req[r].key] = s],
         UNCHANGED <<life, sweep>>
  PROVE  Shares!Obtain(r)
<1>0. TypeOK /\ req[r].at # "idle"
  BY DEF IInv
<1>1. req[r].key \in Key
  BY <1>0, ReqTypes
<1>2. wants[r] = req[r].key /\ wants[r] # None /\ holds[r] = None
  BY <1>0, <1>1, ServiceAssumption DEF wants, holds
<1>3. holds' = [holds EXCEPT ![r] = s]
  BY <1>0, <1>1, OneRequest
<1>4. wants' = [wants EXCEPT ![r] = wants[r]]
  BY <1>0, <1>1, <1>2, OneRequest
<1>5. wants' = wants
  BY <1>4 DEF wants
<1>6. UNCHANGED <<leaving, begun, ended>>
  BY DEF leaving, begun, ended
<1> QED
  BY <1>2, <1>3, <1>5, <1>6 DEF Shares!Obtain

LEMMA BeginStep ==
  ASSUME IInv, NEW r \in Req, Start(r)
  PROVE  Shares!Begin(req[r].srv)
<1> DEFINE s == req[r].srv
           q == [req[r] EXCEPT !.at = "stamp"]
<1>1. /\ TypeOK /\ req \in [Req -> Locals] /\ req[r].at = "start"
      /\ s \in Srv /\ req[r].key \in Key /\ life \in [Srv -> SUBSET LifeEvent]
  <2>1. TypeOK /\ req[r].at = "start"
    BY DEF IInv, Start
  <2>2. life \in [Srv -> SUBSET LifeEvent]
    BY <2>1 DEF TypeOK
  <2> QED
    BY <2>1, <2>2, ReqTypes
<1>2. /\ q \in Locals /\ q.at = "stamp" /\ q.key = req[r].key /\ q.srv = s
      /\ req' = [req EXCEPT ![r] = q]
  BY <1>1 DEF Start, Locals
<1>3. UNCHANGED <<wants, holds>>
  <2> HIDE DEF q
  <2> QED
    BY <1>1, <1>2, SameRequest
<1>4. s \notin begun
  BY <1>1 DEF IInv, StartedOnce, begun
<1>5. Shares!Entered(s)
  <2>1. keyOf[s] \in Key
    BY <1>1 DEF IInv, OwnKey, Holding
  <2>2. Registered(s)
    BY <1>1 DEF IInv, StoredStays
  <2> QED
    BY <1>1, <2>1, <2>2 DEF Registered, Shares!Entered, leaving, ended
<1>6. life' = [life EXCEPT ![s] = @ \cup {"started"}]
  BY DEF Start, Launch, Mark
<1>7. begun' = begun \cup {s} /\ ended' = ended
  BY <1>1, <1>6 DEF begun, ended
<1>8. UNCHANGED <<srvMap, leaving>>
  BY DEF Start, leaving
<1> QED
  BY <1>3, <1>4, <1>5, <1>7, <1>8 DEF Shares!Begin

\* A request's other steps concern its own locals, and the time of the last
\* request.
LEMMA LoadSteps ==
  ASSUME IInv, NEW r \in Req, Load(r)
  PROVE  Shares!Obtain(r) \/ UNCHANGED view
<1> DEFINE s == srvMap[req[r].key]
           q == [req[r] EXCEPT !.srv = s, !.at = AfterLoad(s)]
<1>1. /\ TypeOK /\ req \in [Req -> Locals] /\ req[r].at = "load" /\ req[r].key \in Key
      /\ srvMap \in [Key -> Srv \cup {None}]
  <2>1. TypeOK /\ req[r].at = "load"
    BY DEF IInv, Load
  <2>2. srvMap \in [Key -> Srv \cup {None}]
    BY <2>1 DEF TypeOK
  <2> QED
    BY <2>1, <2>2, ReqTypes
<1>2. /\ q \in Locals /\ q.at = AfterLoad(s) /\ q.key = req[r].key /\ q.srv = s
      /\ req' = [req EXCEPT ![r] = q]
  BY <1>1 DEF Load, Locals, AfterLoad
<1>3. UNCHANGED <<srvMap, life, sweep>>
  BY DEF Load
<1> HIDE DEF q
<1>4. CASE s = None
  <2>1. UNCHANGED <<wants, holds>>
    BY <1>1, <1>2, <1>4, SameRequest DEF AfterLoad
  <2> QED
    BY <1>3, <2>1 DEF view, leaving, begun, ended
<1>5. CASE s # None
  <2>1. s \in Srv /\ srvMap' = [srvMap EXCEPT ![req[r].key] = s]
    BY <1>1, <1>3, <1>5
  <2>2. q.at = "stamp"
    BY <1>2, <1>5 DEF AfterLoad
  <2> QED
    BY <1>1, <1>2, <1>3, <2>1, <2>2, ObtainStep
<1> QED
  BY <1>4, <1>5

LEMMA StoreSteps ==
  ASSUME IInv, NEW r \in Req, LoadOrStore(r)
  PROVE  Shares!Obtain(r)
<1> DEFINE k == req[r].key
<1>1. /\ TypeOK /\ req \in [Req -> Locals] /\ req[r].at = "store" /\ k \in Key /\ req[r].srv \in Srv
      /\ srvMap \in [Key -> Srv \cup {None}]
  <2>1. TypeOK /\ req[r].at = "store"
    BY DEF IInv, LoadOrStore
  <2>2. srvMap \in [Key -> Srv \cup {None}]
    BY <2>1 DEF TypeOK
  <2> QED
    BY <2>1, <2>2, ReqTypes
<1>2. UNCHANGED <<life, sweep>>
  BY DEF LoadOrStore
<1>3. CASE srvMap[k] = None
  <2> DEFINE q == [req[r] EXCEPT !.at = "start"]
  <2>1. /\ q \in Locals /\ q.at = "start" /\ q.key = k /\ q.srv = req[r].srv
        /\ req' = [req EXCEPT ![r] = q]
    BY <1>1, <1>3 DEF LoadOrStore, StoreStep, StoreOwn, Locals
  <2>2. srvMap' = [srvMap EXCEPT ![k] = req[r].srv]
    BY <1>3 DEF LoadOrStore, StoreStep, StoreOwn
  <2>3. ~Shares!Entered(req[r].srv)
    BY <1>1, ServiceAssumption DEF IInv, Private, Sweeping, Shares!Entered, leaving, ended
  <2> HIDE DEF q
  <2> QED
    BY <1>1, <1>2, <1>3, <2>1, <2>2, <2>3, ObtainStep
<1>4. CASE srvMap[k] # None
  <2> DEFINE q == [req[r] EXCEPT !.srv = srvMap[k], !.at = "stamp"]
  <2>0. srvMap[k] \in Srv
    BY <1>1, <1>4
  <2>1. /\ q \in Locals /\ q.at = "stamp" /\ q.key = k /\ q.srv = srvMap[k]
        /\ req' = [req EXCEPT ![r] = q]
    BY <1>1, <1>4, <2>0 DEF LoadOrStore, StoreStep, UseStored, Locals
  <2>2. srvMap' = [srvMap EXCEPT ![k] = srvMap[k]]
    BY <1>1, <1>4 DEF LoadOrStore, StoreStep, UseStored
  <2> HIDE DEF q
  <2> QED
    BY <1>1, <1>2, <2>0, <2>1, <2>2, ObtainStep
<1> QED
  BY <1>3, <1>4

LEMMA QuietSteps ==
  ASSUME IInv, NEW r \in Req, New(r) \/ Stamp(r) \/ Touch(r) \/ Get(r)
  PROVE  UNCHANGED view
<1>1. TypeOK /\ req \in [Req -> Locals] /\ now \in Nat
  BY ReqTypes DEF IInv, TypeOK
<1>2. UNCHANGED <<srvMap, life, sweep>>
  BY DEF New, Stamp, Touch, Get
<1>3. UNCHANGED <<wants, holds>>
  <2>1. ASSUME NEW s \in Srv, req[r].at = "new",
               req' = [req EXCEPT ![r] = [@ EXCEPT !.srv = s, !.at = "store"]]
        PROVE  UNCHANGED <<wants, holds>>
    <3> DEFINE q == [req[r] EXCEPT !.srv = s, !.at = "store"]
    <3>1. q \in Locals /\ q.at = "store" /\ q.key = req[r].key /\ req' = [req EXCEPT ![r] = q]
      BY <1>1, <2>1 DEF Locals
    <3> HIDE DEF q
    <3> QED
      BY <1>1, <2>1, <3>1, SameRequest
  <2>2. CASE Stamp(r)
    <3> DEFINE q == [req[r] EXCEPT !.stamp = now, !.at = "touch"]
    <3>1. /\ q \in Locals /\ q.at = "touch" /\ q.key = req[r].key /\ q.srv = req[r].srv
          /\ req' = [req EXCEPT ![r] = q] /\ req[r].at = "stamp"
      BY <1>1, <2>2 DEF Stamp, Locals
    <3> HIDE DEF q
    <3> QED
      BY <1>1, <3>1, SameRequest
  <2>3. CASE Touch(r)
    <3> DEFINE q == [req[r] EXCEPT !.at = "wait"]
    <3>1. /\ q \in Locals /\ q.at = "wait" /\ q.key = req[r].key /\ q.srv = req[r].srv
          /\ req' = [req EXCEPT ![r] = q] /\ req[r].at = "touch"
      BY <1>1, <2>3 DEF Touch, Locals
    <3> HIDE DEF q
    <3> QED
      BY <1>1, <3>1, SameRequest
  <2>4. CASE Get(r)
    <3> DEFINE q == [req[r] EXCEPT !.at = "done"]
    <3>1. /\ q \in Locals /\ q.at = "done" /\ q.key = req[r].key /\ q.srv = req[r].srv
          /\ req' = [req EXCEPT ![r] = q] /\ req[r].at = "wait"
      BY <1>1, <2>4 DEF Get, Locals
    <3> HIDE DEF q
    <3> QED
      BY <1>1, <3>1, SameRequest
  <2> QED
    BY <2>1, <2>2, <2>3, <2>4 DEF New
<1> QED
  BY <1>2, <1>3 DEF view, leaving, begun, ended

\* The sweeper's deletion and its Stop are the two steps that show.
LEMMA SweepSteps ==
  ASSUME IInv, SweepStep
  PROVE  (\E k \in Key : Shares!Remove(k)) \/ Shares!End \/ UNCHANGED view
<1> USE ServiceAssumption
<1>1. /\ TypeOK /\ sweep \in SweepType /\ srvMap \in [Key -> Srv \cup {None}]
      /\ life \in [Srv -> SUBSET LifeEvent]
  BY DEF IInv, TypeOK
<1>2. UNCHANGED <<wants, holds>>
  BY DEF SweepStep, SweepBegin, SweepVisit, SweepSeed, SweepDelGet, SweepDelSrv, SweepStop,
         wants, holds
<1>3. CASE SweepDelSrv
  <2> DEFINE k == sweep.key
  <2>1. k \in Key /\ sweep.srv \in Srv /\ sweep'.at = "stop" /\ sweep'.srv = sweep.srv
    BY <1>1, <1>3 DEF SweepDelSrv, SweepType
  <2>2. srvMap[k] = sweep.srv
    BY <1>3 DEF IInv, SweptMapped, SweepDelSrv
  <2>3. leaving = None /\ leaving' = srvMap[k] /\ srvMap' = [srvMap EXCEPT ![k] = None]
    BY <1>3, <2>1, <2>2 DEF leaving, SweepDelSrv, Delete
  <2>4. UNCHANGED <<begun, ended>>
    BY <1>3 DEF begun, ended, SweepDelSrv
  <2>5. Shares!Remove(k)
    BY <1>2, <2>1, <2>2, <2>3, <2>4 DEF Shares!Remove
  <2> QED
    BY <2>1, <2>5
<1>4. CASE SweepStop
  <2>1. sweep.at = "stop" /\ sweep.srv \in Srv /\ sweep'.at = "range"
    BY <1>1, <1>4 DEF SweepStop, SweepType
  <2>2. leaving = sweep.srv /\ leaving' = None /\ srvMap' = srvMap
    BY <1>4, <2>1 DEF leaving, SweepStop
  <2>3. life' = [life EXCEPT ![sweep.srv] = @ \cup {"stopped"}]
    BY <1>4 DEF SweepStop, Halt, Mark
  <2>4. begun' = begun /\ ended' = ended \cup {sweep.srv}
    BY <1>1, <2>1, <2>3 DEF begun, ended
  <2>5. Shares!End
    BY <1>2, <2>1, <2>2, <2>4 DEF Shares!End
  <2> QED
    BY <2>5
<1>5. CASE ~SweepDelSrv /\ ~SweepStop
  <2>1. sweep.at # "stop" /\ sweep'.at # "stop" /\ UNCHANGED <<srvMap, life>>
    <3>1. ASSUME NEW k \in Key, SweepVisit(k)
          PROVE  sweep.at # "stop" /\ sweep'.at # "stop" /\ UNCHANGED <<srvMap, life>>
      <4>1. CASE srvMap[k] = None \/ (lastGet[k] # None /\ ~Expired(k))
        BY <1>1, <3>1, <4>1 DEF SweepVisit, SweepType
      <4>2. CASE ~(srvMap[k] = None \/ (lastGet[k] # None /\ ~Expired(k)))
        <5> DEFINE a == IF lastGet[k] = None THEN "seed" ELSE "delGet"
        <5>1. /\ sweep' = [sweep EXCEPT !.todo = @ \ {k}, !.key = k, !.srv = srvMap[k], !.at = a]
              /\ a # "stop" /\ sweep.at = "range" /\ UNCHANGED <<srvMap, life>>
          BY <3>1, <4>2, Zenon DEF SweepVisit
        <5> HIDE DEF a
        <5> QED
          BY <1>1, <5>1 DEF SweepType
      <4> QED
        BY <4>1, <4>2
    <3> QED
      BY <1>1, <1>5, <3>1 DEF SweepStep, SweepBegin, SweepSeed, SweepDelGet, SweepType
  <2> QED
    BY <1>2, <2>1 DEF view, leaving, begun, ended
<1> QED
  BY <1>3, <1>4, <1>5

\* Every step of the registry is one of Registry's or none.
LEMMA RegistrySimulates ==
  IInv /\ [Next]_vars => [Shares!Next]_(Shares!vars)
<1> SUFFICES ASSUME IInv, [Next]_vars PROVE Shares!Next \/ UNCHANGED view
  BY DEF view, Shares!vars
<1>1. ASSUME NEW r \in Req, NEW k \in Key, Arrive(r, k) PROVE Shares!Next
  BY <1>1, AskStep DEF Shares!Next
<1>2. ASSUME NEW r \in Req, ReqStep(r) PROVE Shares!Next \/ UNCHANGED view
  <2>1. CASE Start(r)
    <3>0. TypeOK /\ req[r].at = "start"
      BY <2>1 DEF IInv, Start
    <3>1. req[r].srv \in Srv
      BY <3>0, ReqTypes
    <3> QED
      BY <2>1, <3>1, BeginStep DEF Shares!Next
  <2>2. CASE Load(r) \/ LoadOrStore(r)
    BY <2>2, LoadSteps, StoreSteps DEF Shares!Next
  <2>3. CASE New(r) \/ Stamp(r) \/ Touch(r) \/ Get(r)
    BY <2>3, QuietSteps
  <2> QED
    BY <1>2, <2>1, <2>2, <2>3 DEF ReqStep
<1>3. CASE SweepStep
  BY <1>3, SweepSteps DEF Shares!Next
<1>4. ASSUME NEW s \in Srv, FeedInit(s) \/ FeedExit(s) PROVE UNCHANGED view
  <2>1. PICK e \in {"inited", "exited"} : Mark(s, e)
    BY <1>4 DEF FeedInit, FeedExit
  <2>2. life \in [Srv -> SUBSET LifeEvent]
    BY DEF IInv, TypeOK
  <2>3. begun' = begun /\ ended' = ended
    BY <2>1, <2>2 DEF Mark, begun, ended
  <2> QED
    BY <1>4, <2>3 DEF FeedInit, FeedExit, view, leaving, wants, holds
<1>5. CASE SweepExit
  <2>1. sweep.at # "stop" /\ sweep'.at # "stop"
    BY <1>5 DEF SweepExit, IInv, TypeOK, SweepType
  <2> QED
    BY <1>5, <2>1 DEF SweepExit, view, leaving, begun, ended, wants, holds
<1>6. CASE Stop \/ Tick \/ UNCHANGED vars
  BY <1>6 DEF Stop, Tick, vars, view, leaving, begun, ended, wants, holds
<1> QED
  BY <1>1, <1>2, <1>3, <1>4, <1>5, <1>6 DEF Next

\* To its callers the registry of many steps is the table of Registry: what
\* they are handed is what their key is mapped to at one instant of their
\* call, whatever they race.
THEOREM RegistryShared == Spec => Atomic
<1>1. Init => Shares!Init
  BY DEF Init, Shares!Init, leaving, begun, ended, wants, holds
<1> QED
  BY Inductive, RegistrySimulates, <1>1, PTL DEF Spec, Atomic, Shares!Spec

\* The registry's variables and every goroutine's locals keep their types,
\* for any number of requests racing each other and the sweeper.
THEOREM TypeCorrect == Spec => []TypeOK
<1>1. IInv => TypeOK
  BY DEF IInv
<1> QED
  BY Inductive, <1>1, PTL

\* No interleaving of Klines, Depth or Ticker calls with autoRemoveExpired
\* leaves a running service the registry has lost.
THEOREM NoServiceLeaks == Spec => []NoLeak
<1>1. IInv => NoLeak
  BY DEF IInv
<1> QED
  BY Inductive, <1>1, PTL

\* LoadOrStore lets one request start an object, whoever else built one.
THEOREM OneStart == Spec => []StartedOnce
<1>1. IInv => StartedOnce
  BY DEF IInv
<1> QED
  BY Inductive, <1>1, PTL

\* However a request overlaps the sweep that expires its key, what the
\* registry goes on handing out is not what the sweeper has stopped.
THEOREM HandsOutRunning == Spec => []NeverMapsStopped
<1>1. IInv => NeverMapsStopped
  BY DEF IInv
<1> QED
  BY Inductive, <1>1, PTL
=============================================================================
