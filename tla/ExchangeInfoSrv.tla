-------------------------- MODULE ExchangeInfoSrv --------------------------
(***************************************************************************)
(* The exchange information of each class,                                 *)
(* internal/service/exchangeinfo.go: fetched once before Start returns,    *)
(* then every 60 s, tried again after an error and put off during a ban.   *)
(* Of the ban detector only its answers matter here: a class is banned or  *)
(* not, others ban it too, and bans are lifted.                            *)
(***************************************************************************)
EXTENDS Limiter, FiniteSets

CONSTANTS
  Class,   \* SPOT, FUTURES
  Nil,     \* exchangeInfo = nil; no class
  Bodies,  \* bodies of responses that are not taken for a ban
  Req      \* requests for the information at once

ASSUME InfoAssumption ==
  Nil \notin Class \cup Bodies /\ IsFiniteSet(Class)

VARIABLES
  at,       \* control point of the refresher of a class
  info,     \* exchangeInfo
  inited,   \* classes whose initDone was called
  started,  \* classes whose Start has returned
  banned,   \* classes the ban detector holds banned
  ctxDone,  \* the process's context, and with it every context derived from it
  req       \* a request's control point, class while it waits, and the body it read

NoReq == [at |-> "none", class |-> Nil, body |-> Nil]

EInit(enabled) ==
  /\ at = [c \in Class |-> IF c \in enabled THEN "check" ELSE "off"]
  /\ info = [c \in Class |-> Nil]
  /\ inited = {} /\ started = {} /\ banned = {} /\ ctxDone = FALSE
  /\ req = [r \in Req |-> NoReq]

-----------------------------------------------------------------------------
(* refreshExchangeInfo, and reTryRefreshExchangeInfo around it.            *)

\* A refresh that returned nil, and one that returned an error.
Return(c) == at' = [at EXCEPT ![c] = "idle"] /\ started' = started \cup {c}
Again(c) == at' = [at EXCEPT ![c] = "check"] /\ UNCHANGED started

RetryBan(c) == Again(c)
SkipBan(c) == Return(c)

CheckBan(c) ==
  /\ at[c] = "check"
  /\ IF c \in banned THEN SkipBan(c)
     ELSE at' = [at EXCEPT ![c] = "wait"] /\ UNCHANGED started
  /\ UNCHANGED <<info, inited, banned, ctxDone, req>>

InfoPath(c) == IF c = SPOT THEN "/api/v3/exchangeInfo" ELSE "/fapi/v1/exchangeInfo"

RateWait(c) ==
  /\ at[c] = "wait"
  /\ at' = [at EXCEPT ![c] =
              IF Refuses(c, Weight("GET", InfoPath(c), 0, FALSE), ctxDone) THEN "check" ELSE "fetch"]
  /\ UNCHANGED <<info, inited, started, banned, ctxDone, req>>

InitFirst(c) == IF c \in started THEN inited ELSE inited \cup {c}
InitDone(c) == IF info[c] = Nil THEN inited \cup {c} ELSE inited

\* The body is kept whatever the status it came with.
Store(c) ==
  /\ at[c] = "fetch" /\ Return(c)
  /\ \E body \in Bodies : info' = [info EXCEPT ![c] = body]
  /\ inited' = InitDone(c) /\ UNCHANGED <<banned, ctxDone, req>>

\* CheckResponse takes the response for a ban: err is nil and is returned.
Suspended(c) ==
  /\ at[c] = "fetch" /\ Return(c) /\ banned' = banned \cup {c}
  /\ UNCHANGED <<info, inited, ctxDone, req>>

\* Do or ReadAll fails; one connection error too many suspends the class.
Failed(c) ==
  /\ at[c] = "fetch" /\ Again(c) /\ banned' \in {banned, banned \cup {c}}
  /\ UNCHANGED <<info, inited, ctxDone, req>>

-----------------------------------------------------------------------------
(* Start's goroutine.                                                      *)

Timer(c) ==
  /\ at[c] = "idle" /\ at' = [at EXCEPT ![c] = "check"]
  /\ UNCHANGED <<info, inited, started, banned, ctxDone, req>>

Leave(c) ==
  /\ at[c] = "idle" /\ ctxDone /\ at' = [at EXCEPT ![c] = "gone"]
  /\ UNCHANGED <<info, inited, started, banned, ctxDone, req>>

\* Other responses of the class suspend it, time ends the suspension.
Ban(c) == /\ c \notin banned /\ banned' = banned \cup {c}
          /\ UNCHANGED <<at, info, inited, started, ctxDone, req>>
Lift(c) == /\ c \in banned /\ banned' = banned \ {c}
           /\ UNCHANGED <<at, info, inited, started, ctxDone, req>>

-----------------------------------------------------------------------------
(* Handler.exchangeInfo, calling GetExchangeInfo.                          *)

Ask(r, c) ==
  /\ req[r].at # "waiting"
  /\ req' = [req EXCEPT ![r] = [at |-> "waiting", class |-> c, body |-> Nil]]
  /\ UNCHANGED <<at, info, inited, started, banned, ctxDone>>

\* <-s.initCtx.Done()
AtOnce(c) == TRUE
Ready(c) == c \in inited

GetExchangeInfo(r) ==
  /\ req[r].at = "waiting" /\ Ready(req[r].class)
  /\ req' = [req EXCEPT ![r] = [at |-> "answered", class |-> Nil, body |-> info[req[r].class]]]
  /\ UNCHANGED <<at, info, inited, started, banned, ctxDone>>

Refresh(c) == \/ CheckBan(c) \/ RateWait(c) \/ Timer(c) \/ Leave(c)
              \/ Store(c) \/ Suspended(c) \/ Failed(c)

=============================================================================
