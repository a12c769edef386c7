------------------------------ MODULE Service ------------------------------
(***************************************************************************)
(* The registry of streaming services, internal/service/service.go.        *)
(*                                                                         *)
(* Per kind of data (klines, depth, ticker) Service keeps one sync.Map from *)
(* symbolInterval to the service object and one to the time of the last    *)
(* request.  Request goroutines look objects up, create and stamp them; a  *)
(* goroutine sweeps idle ones.  Only the single sync.Map operations are    *)
(* atomic, so each is a step.  The three kinds are the same code over      *)
(* disjoint maps: a Key is a kind and a symbolInterval together.           *)
(***************************************************************************)
EXTENDS Integers

CONSTANTS
  Key, Srv, Req,   \* keys; service objects (bounds allocation); requests
  None,            \* no map entry, nil
  Expiry,          \* Expiry[k]: idle time after which k is closed
  LastArrival,     \* bound: no request arrives after this instant
  MaxTime          \* bound of the clock

ASSUME ServiceAssumption ==
  /\ Expiry \in [Key -> Nat] /\ LastArrival \in Nat /\ MaxTime \in Nat
  /\ None \notin Key /\ None \notin Srv /\ None \notin Nat

VARIABLES
  now,       \* time.Now(), in ticks
  ctxDone,   \* s.ctx, the parent of every object's context, is cancelled
  srvMap,    \* klinesSrv, depthSrv, tickerSrv
  lastGet,   \* lastGetKlines, lastGetDepth, lastGetTicker
  keyOf,     \* the si an object was built for, None if not built
  life,      \* what has happened to an object, a subset of LifeEvent
  req,       \* per request its control point and its locals
  sweep      \* the sweeper's control point and its locals

env == <<now, ctxDone>>
maps == <<srvMap, lastGet>>
objs == <<keyOf, life>>
vars == <<env, maps, objs, req, sweep>>

LifeEvent == {"started", "stopped", "inited", "exited"}
Mark(s, e) == life' = [life EXCEPT ![s] = @ \cup {e}]
Live(s) == "started" \in life[s] /\ "stopped" \notin life[s]
Cancelled(s) == "stopped" \in life[s] \/ ctxDone

Init ==
  /\ now = 0 /\ ctxDone = FALSE
  /\ srvMap = [k \in Key |-> None] /\ lastGet = [k \in Key |-> None]
  /\ keyOf = [s \in Srv |-> None] /\ life = [s \in Srv |-> {}]
  /\ req = [r \in Req |-> [at |-> "idle", key |-> None, srv |-> None, stamp |-> None]]
  /\ sweep = [at |-> "range", now |-> 0, todo |-> {}, key |-> None, srv |-> None]

-----------------------------------------------------------------------------
(* Requests: Klines, Depth and Ticker.                                     *)

Arrive(r, k) ==
  /\ req[r].at = "idle" /\ now <= LastArrival
  /\ req' = [req EXCEPT ![r] = [@ EXCEPT !.at = "load", !.key = k]]
  /\ UNCHANGED <<env, maps, objs, sweep>>

\* srv, loaded := s.klinesSrv.Load(*si); AfterLoad is where control goes
AfterLoadUnchecked(srv) == "stamp"
AfterLoad(srv) == IF srv = None THEN "new" ELSE "stamp"

Load(r) ==
  /\ req[r].at = "load"
  /\ LET srv == srvMap[req[r].key] IN
       req' = [req EXCEPT ![r] = [@ EXCEPT !.srv = srv, !.at = AfterLoad(srv)]]
  /\ UNCHANGED <<env, maps, objs, sweep>>

\* LoadOrStore's argument is built before the map is consulted again: the
\* object of a request that loses the race is garbage, never started.
New(r) ==
  /\ req[r].at = "new"
  /\ \E s \in Srv :
       /\ keyOf[s] = None
       /\ keyOf' = [keyOf EXCEPT ![s] = req[r].key]
       /\ req' = [req EXCEPT ![r] = [@ EXCEPT !.srv = s, !.at = "store"]]
  /\ UNCHANGED <<env, maps, life, sweep>>

StoreOwn(r) == /\ srvMap' = [srvMap EXCEPT ![req[r].key] = req[r].srv]
               /\ req' = [req EXCEPT ![r].at = "start"]
UseOwn(r, next) == req' = [req EXCEPT ![r].at = next] /\ UNCHANGED srvMap
UseStored(r, next) ==
  /\ req' = [req EXCEPT ![r] = [@ EXCEPT !.srv = srvMap[req[r].key], !.at = next]]
  /\ UNCHANGED srvMap

StoreAlways(r)   == StoreOwn(r)
StoreStartAll(r) == IF srvMap[req[r].key] = None THEN StoreOwn(r) ELSE UseStored(r, "start")
StoreStep(r)     == IF srvMap[req[r].key] = None THEN StoreOwn(r) ELSE UseStored(r, "stamp")

LoadOrStore(r) ==
  /\ req[r].at = "store"
  /\ StoreStep(r)
  /\ UNCHANGED <<env, lastGet, objs, sweep>>

LaunchNothing(s) == UNCHANGED life
Launch(s) == Mark(s, "started")

Start(r) ==
  /\ req[r].at = "start"
  /\ Launch(req[r].srv)
  /\ req' = [req EXCEPT ![r].at = "stamp"]
  /\ UNCHANGED <<env, maps, keyOf, sweep>>

\* s.lastGetKlines.Store(*si, time.Now()): the clock is read, then stored
Stamp(r) ==
  /\ req[r].at = "stamp"
  /\ req' = [req EXCEPT ![r] = [@ EXCEPT !.stamp = now, !.at = "touch"]]
  /\ UNCHANGED <<env, maps, objs, sweep>>

Touch(r) ==
  /\ req[r].at = "touch"
  /\ lastGet' = [lastGet EXCEPT ![req[r].key] = req[r].stamp]
  /\ req' = [req EXCEPT ![r].at = "wait"]
  /\ UNCHANGED <<env, srvMap, objs, sweep>>

\* GetKlines, GetDepth, GetTicker: <-s.initCtx.Done(), then the data
Get(r) ==
  /\ req[r].at = "wait" /\ "inited" \in life[req[r].srv]
  /\ req' = [req EXCEPT ![r].at = "done"]
  /\ UNCHANGED <<env, maps, objs, sweep>>

-----------------------------------------------------------------------------
(* The sweeper: autoRemoveExpired, called by NewService's goroutine.  With *)
(* an empty todo it is between two sweeps, waiting for its timer.          *)

SweepBegin ==
  /\ sweep.at = "range" /\ sweep.todo = {}
  /\ sweep' = [sweep EXCEPT !.now = now, !.todo = Key]
  /\ UNCHANGED <<env, maps, objs, req>>

\* case <-s.ctx.Done(): return
SweepExit ==
  /\ sweep.at = "range" /\ sweep.todo = {} /\ ctxDone
  /\ sweep' = [sweep EXCEPT !.at = "exit"]
  /\ UNCHANGED <<env, maps, objs, req>>

\* now.Sub(t) > expiry
Expired(k) == sweep.now - lastGet[k] > Expiry[k]

\* Range meets every key present throughout, and may meet or miss one that
\* is stored meanwhile: todo starts as all keys, in any order.  An entry the
\* sweeper has met stays until it deletes it, so meeting it and the Load of
\* its last request are one step.
SweepVisit(k) ==
  /\ sweep.at = "range" /\ k \in sweep.todo
  /\ IF srvMap[k] = None \/ (lastGet[k] # None /\ ~Expired(k))
       THEN sweep' = [sweep EXCEPT !.todo = @ \ {k}]
       ELSE sweep' = [sweep EXCEPT !.todo = @ \ {k}, !.key = k, !.srv = srvMap[k],
                                   !.at = IF lastGet[k] = None THEN "seed" ELSE "delGet"]
  /\ UNCHANGED <<env, maps, objs, req>>

SweepSeed ==
  /\ sweep.at = "seed"
  /\ lastGet' = [lastGet EXCEPT ![sweep.key] = sweep.now]
  /\ sweep' = [sweep EXCEPT !.at = "range", !.key = None, !.srv = None]
  /\ UNCHANGED <<env, srvMap, objs, req>>

SweepDelGet ==
  /\ sweep.at = "delGet"
  /\ lastGet' = [lastGet EXCEPT ![sweep.key] = None]
  /\ sweep' = [sweep EXCEPT !.at = "delSrv"]
  /\ UNCHANGED <<env, srvMap, objs, req>>

KeepEntry(m, k) == m
Delete(m, k) == [m EXCEPT ![k] = None]

SweepDelSrv ==
  /\ sweep.at = "delSrv"
  /\ srvMap' = Delete(srvMap, sweep.key)
  /\ sweep' = [sweep EXCEPT !.at = "stop"]
  /\ UNCHANGED <<env, lastGet, objs, req>>

HaltNothing(s) == UNCHANGED life
Halt(s) == Mark(s, "stopped")

\* srv.Stop()
SweepStop ==
  /\ sweep.at = "stop"
  /\ Halt(sweep.srv)
  /\ sweep' = [sweep EXCEPT !.at = "range", !.key = None, !.srv = None]
  /\ UNCHANGED <<env, maps, keyOf, req>>

-----------------------------------------------------------------------------
(* What the registry sees of a service object: once started it has its     *)
(* first data at some point, and once cancelled it may be gone.            *)

FeedInit(s) ==
  /\ "started" \in life[s] /\ "inited" \notin life[s] /\ "exited" \notin life[s]
  /\ Mark(s, "inited")
  /\ UNCHANGED <<env, maps, keyOf, req, sweep>>

FeedExit(s) ==
  /\ "started" \in life[s] /\ "exited" \notin life[s] /\ Cancelled(s)
  /\ Mark(s, "exited")
  /\ UNCHANGED <<env, maps, keyOf, req, sweep>>

\* A signal cancelling the context Service was given, just before main
\* returns; Service.Stop would, but nothing calls it.
Stop ==
  /\ ~ctxDone /\ ctxDone' = TRUE
  /\ UNCHANGED <<now, maps, objs, req, sweep>>

\* Bound: the clock leaves the arrival window only when no request is between
\* its lookup and its stamp, so that every stamp expires before MaxTime.
Settled(r) == req[r].at \in {"idle", "wait", "done"}
Tick ==
  /\ now < MaxTime
  /\ now < LastArrival \/ \A r \in Req : Settled(r)
  /\ now' = now + 1
  /\ UNCHANGED <<ctxDone, maps, objs, req, sweep>>

ReqStep(r) == Load(r) \/ New(r) \/ LoadOrStore(r) \/ Start(r) \/ Stamp(r)
              \/ Touch(r) \/ Get(r)
SweepStep == SweepBegin \/ (\E k \in Key : SweepVisit(k)) \/ SweepSeed
             \/ SweepDelGet \/ SweepDelSrv \/ SweepStop

Next == \/ \E r \in Req : (\E k \in Key : Arrive(r, k)) \/ ReqStep(r)
        \/ \E s \in Srv : FeedInit(s) \/ FeedExit(s)
        \/ SweepStep \/ SweepExit \/ Stop \/ Tick

Spec == Init /\ [][Next]_vars

\* Goroutines run, the timer fires, and a running stream has a first event.
\* Nothing forces a request to come or the process to stop, nor the clock to
\* go on: a request must not have to wait for a service to expire.
FairSpec == /\ Spec /\ WF_vars(SweepStep)
            /\ \A r \in Req : WF_vars(ReqStep(r))
            /\ \A s \in Srv : WF_vars(FeedInit(s))

-----------------------------------------------------------------------------
\* What control implies of the locals: a request past its lookup holds an
\* object, the sweeper past its visit an entry.
ReqType ==
  {q \in [at : {"idle", "load", "new", "store", "start", "stamp", "touch", "wait", "done"},
          key : Key \cup {None}, srv : Srv \cup {None}, stamp : Nat \cup {None}] :
     /\ q.at # "idle" => q.key # None
     /\ q.at \notin {"idle", "load", "new"} => q.srv # None
     /\ q.at \in {"touch", "wait", "done"} => q.stamp # None}
SweepType ==
  {w \in [at : {"range", "seed", "delGet", "delSrv", "stop", "exit"}, now : Nat,
          todo : SUBSET Key, key : Key \cup {None}, srv : Srv \cup {None}] :
     w.at \notin {"range", "exit"} => w.key # None /\ w.srv # None}

\* Every variable has its type, the locals of a goroutine included: no
\* request waits on nil and the sweeper stops nothing it did not find.
TypeOK ==
  /\ now \in Nat /\ ctxDone \in BOOLEAN
  /\ srvMap \in [Key -> Srv \cup {None}] /\ lastGet \in [Key -> Nat \cup {None}]
  /\ keyOf \in [Srv -> Key \cup {None}] /\ life \in [Srv -> SUBSET LifeEvent]
  /\ req \in [Req -> ReqType] /\ sweep \in SweepType

\* No stream leaks: a service that was started and not stopped is the one
\* the registry maps its key to, so that later requests share it and the
\* sweeper can close it, except while the sweeper has deleted it and is
\* about to stop it.  Requests racing to create a key, or racing the sweep,
\* leave no second stream behind.
NoLeak ==
  \A s \in Srv : Live(s) => \/ srvMap[keyOf[s]] = s
                            \/ sweep.at = "stop" /\ sweep.srv = s

\* Start runs at most once per object however many requests found the key
\* missing at once: a second one would be a second supervisor goroutine.
StartedOnce ==
  \A r \in Req : req[r].at = "start" =>
    /\ "started" \notin life[req[r].srv]
    /\ \A q \in Req \ {r} : req[q].at = "start" => req[q].srv # req[r].srv

\* The sweeper judges by a stamp that may be renewed before it acts: a request
\* it overlaps may be left holding a stopped service, but nobody is handed
\* one afterwards, for the registry never maps a key to it.
NeverMapsStopped == \A k \in Key : srvMap[k] # None => "stopped" \notin life[srvMap[k]]

\* What Registry's variables are here: a service leaves the map until it is
\* stopped, and a request holds what it has loaded or stored.
leaving == IF sweep.at = "stop" THEN sweep.srv ELSE None
begun == {s \in Srv : "started" \in life[s]}
ended == {s \in Srv : "stopped" \in life[s]}
wants == [r \in Req |-> IF req[r].at = "idle" THEN None ELSE req[r].key]
holds == [r \in Req |-> IF req[r].at \in {"idle", "load", "new", "store"} THEN None
                        ELSE req[r].srv]
Shares == INSTANCE Registry WITH entry <- srvMap

\* The registry, with its lookups, its creations and its sweeps that are many
\* steps each, is no different to its callers from Registry, where each is
\* one: every request is handed what its key is mapped to at some instant of
\* its call, nobody's service is replaced, and one that is stopped is out of
\* the map first.
Atomic == Shares!Spec

\* A request never waits on a service that nobody is going to start: what it
\* found in the map was started, or the request that stored it is about to.
StartComes ==
  \A r \in Req : req[r].at \in {"stamp", "touch", "wait"} =>
    \/ "started" \in life[req[r].srv]
    \/ \E q \in Req : req[q].at = "start" /\ req[q].srv = req[r].srv

\* README: "Websocket is closed if there is no following request".  Once
\* requests have ceased and time goes on every stream that was started is
\* closed.
IdleClosed ==
  <>(now = MaxTime) => \A s \in Srv : "started" \in life[s] ~> Cancelled(s)

\* A waiting request is answered, also when it found the object in the map
\* before its creator called Start, unless the service is stopped meanwhile.
\* It is so without time passing, which would have the service expire.
AnsweredUnlessStopped ==
  \A r \in Req : \A s \in Srv :
    (req[r].at = "wait" /\ req[r].srv = s) ~> (req[r].at = "done" \/ Cancelled(s))

\* The handlers forward a request the cache has no data for ("data not
\* available, proxying via REST", internal/handler/ticker.go:19), so none is
\* left waiting on a service the sweeper has stopped and that is gone without
\* having had data.
NoStrandedRequest ==
  \A r \in Req : req[r].at = "wait" =>
    ~({"stopped", "exited"} \subseteq life[req[r].srv] /\ "inited" \notin life[req[r].srv])
=============================================================================
