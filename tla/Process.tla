------------------------------ MODULE Process ------------------------------
(***************************************************************************)
(* The life of the process: cmd/binance-proxy/main.go with /restart,       *)
(* Handler.restart.  A goroutine per class fetches the exchange            *)
(* information (NewHandler, NewService, ExchangeInfoSrv.Start) and only    *)
(* then listens; main waits for a signal or for every listener's error.    *)
(***************************************************************************)
EXTENDS ExchangeInfoSrv

CONSTANT Buffer   \* capacity of errChan

ASSUME ProcessAssumption ==
  Buffer \in Nat /\ Cardinality(Class) <= Buffer

VARIABLES
  proxy,    \* a class's startProxy: its server
  errChan,  \* errors main has not yet received
  errors,   \* len(collectedErrors)
  restart,  \* the goroutine of the first /restart
  exited    \* the process is gone

evars == <<at, info, inited, started, banned, ctxDone, req>>
pvars == <<proxy, errChan, errors, restart, exited>>
vars == <<evars, pvars>>

Enabled == {c \in Class : proxy[c] # "off"}

\* Both classes disabled: os.Exit(1) before anything starts.
Init ==
  \E enabled \in SUBSET Class \ {{}} :
    /\ EInit(enabled)
    /\ proxy = [c \in Class |-> IF c \in enabled THEN "starting" ELSE "off"]
    /\ errChan = 0 /\ errors = 0 /\ restart = "none" /\ exited = FALSE

-----------------------------------------------------------------------------
(* startProxy.                                                             *)

Listen(c) ==
  /\ proxy[c] = "starting" /\ c \in started
  /\ proxy' = [proxy EXCEPT ![c] = "listening"]
  /\ UNCHANGED <<evars, errChan, errors, restart, exited>>

\* ListenAndServe returns: the port is taken, or accepting fails.
ListenFails(c) ==
  /\ c \in started /\ proxy[c] \in {"starting", "listening"} /\ errChan < Buffer
  /\ proxy' = [proxy EXCEPT ![c] = "failed"] /\ errChan' = errChan + 1
  /\ UNCHANGED <<evars, errors, restart, exited>>

-----------------------------------------------------------------------------
(* main's loop, and handleSignal.                                          *)

Signal ==
  /\ ~ctxDone /\ ctxDone' = TRUE
  /\ UNCHANGED <<at, info, inited, started, banned, req, pvars>>

\* The goroutines and what they know are gone with the process.
Die == /\ exited' = TRUE /\ at' = [c \in Class |-> "gone"] /\ started' = {}
       /\ info' = [c \in Class |-> Nil] /\ inited' = {} /\ banned' = {}
       /\ req' = [r \in Req |-> NoReq] /\ UNCHANGED ctxDone

Interrupted == ctxDone /\ Die /\ UNCHANGED <<proxy, errChan, errors, restart>>

AnyFailed(n) == n >= 1
AllFailed(n) == n >= Cardinality(Enabled)

Collect ==
  /\ errChan > 0 /\ errChan' = errChan - 1
  /\ errors' = errors + 1
  /\ IF AllFailed(errors + 1) THEN Die ELSE UNCHANGED <<evars, exited>>
  /\ UNCHANGED <<proxy, restart>>

-----------------------------------------------------------------------------
(* /restart: answered, 2 s later the handler's context is cancelled, 3 s   *)
(* later the process exits.  Another one, of either class, is always        *)
(* behind the first.                                                       *)

Restart(c) ==
  /\ proxy[c] = "listening" /\ restart = "none" /\ restart' = "accepted"
  /\ UNCHANGED <<evars, proxy, errChan, errors, exited>>

Cancel ==
  /\ restart = "accepted" /\ restart' = "cancelled"
  /\ UNCHANGED <<evars, proxy, errChan, errors, exited>>

\* os.Exit(0), without looking at what the handlers still do
WhenIdle == \A r \in Req : req[r].at # "waiting"
ByForce == TRUE

Exit == /\ restart = "cancelled" /\ ByForce /\ Die
        /\ UNCHANGED <<proxy, errChan, errors, restart>>

-----------------------------------------------------------------------------
Request(r) == \E c \in Class : proxy[c] = "listening" /\ Ask(r, c)

Next ==
  /\ ~exited
  /\ \/ Signal \/ Interrupted \/ Collect \/ Cancel \/ Exit
     \/ \E c \in Class : Listen(c) \/ ListenFails(c) \/ Restart(c)
     \/ \E c \in Class : (Refresh(c) \/ Ban(c) \/ Lift(c)) /\ UNCHANGED pvars
     \/ \E r \in Req : (Request(r) \/ GetExchangeInfo(r)) /\ UNCHANGED pvars

Spec == Init /\ [][Next]_vars

\* Goroutines run, sleeps end, every fetch ends somehow and one tried again
\* and again is answered at some point.  Bans need not end, nor listeners fail.
FairSpec ==
  /\ Spec /\ WF_vars(~exited /\ (Interrupted \/ Collect))
  /\ WF_vars(~exited /\ (Cancel \/ Exit))
  /\ \A c \in Class :
       /\ WF_vars(~exited /\ Listen(c))
       /\ WF_vars(~exited /\ Refresh(c) /\ UNCHANGED pvars)
       /\ SF_vars(~exited /\ Store(c) /\ UNCHANGED pvars)
  /\ \A r \in Req : WF_vars(~exited /\ GetExchangeInfo(r) /\ UNCHANGED pvars)

-----------------------------------------------------------------------------
Body == Bodies \cup {Nil}

\* Types; initDone was called when, and only when, there is information.
TypeOK ==
  /\ at \in [Class -> {"off", "check", "wait", "fetch", "idle", "gone"}]
  /\ info \in [Class -> Body] /\ {inited, started, banned} \subseteq SUBSET Class
  /\ {ctxDone, exited} \subseteq BOOLEAN
  /\ req \in [Req -> [at : {"none", "waiting", "answered"}, class : Class \cup {Nil},
                      body : Body]]
  /\ proxy \in [Class -> {"off", "starting", "listening", "failed"}]
  /\ errChan \in 0..Buffer /\ errors \in Nat
  /\ restart \in {"none", "accepted", "cancelled"}
  /\ \A c \in Class : c \in inited <=> info[c] # Nil

\* internal/handler/exchangeinfo.go:9: no client is told that there is no
\* exchange information, although Start may return without any.
NeverUnavailable == \A r \in Req : req[r].at = "answered" => req[r].body # Nil

\* One listener's failure leaves the other's clients served: unasked, the
\* process exits only when no listener is left (main.go:155).
KeepsServing ==
  exited => \/ ctxDone \/ restart = "cancelled"
            \/ \A c \in Enabled : proxy[c] = "failed"

\* The proxy comes up, also when a ban begins under its first refresh and
\* never ends.
Starts == \A c \in Class : proxy[c] = "starting" ~> proxy[c] # "starting" \/ exited

\* A request for the information is answered unless a ban comes in the way,
\* also if the first refresh was given up for an earlier one.
InfoAnswered == \A r \in Req :
  req[r].at = "waiting" ~> req[r].at = "answered" \/ req[r].class \in banned \/ exited

\* A signal, a /restart of either class, or the failure of every listener
\* ends the process, whatever its goroutines wait for.
Due == \/ ctxDone \/ restart # "none"
       \/ \A c \in Enabled : proxy[c] = "failed"
EndsWhenDue == Due ~> exited
=============================================================================
