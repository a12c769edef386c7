---------------------------- MODULE ReverseProxy ---------------------------
(***************************************************************************)
(* Forwarded requests and the ban detector they share:                     *)
(* Handler.reverseProxy, internal/handler/handler.go.  Each request is a   *)
(* goroutine that asks the detector, waits for the rate limiter, goes to   *)
(* Binance and reports what came back; any number overlap.                 *)
(* ExchangeInfoSrv.refreshExchangeInfo goes through the same steps.        *)
(***************************************************************************)
EXTENDS BanDetector

CONSTANT Req   \* requests that may be under way at once

VARIABLES
  req,      \* per request its control point, class, and what came back
  ctxDone   \* the handler's context: /restart, or the process is stopping

pvars == <<phase, bd, req, ctxDone>>

\* What the round trip yields: a response, a connection error the
\* detector counts, or another one.
Failed(n) == [status |-> n, used |-> None, retryAfter |-> None, message |-> None]
ConnError == Failed(-1)
OtherError == Failed(-2)
Outcome == Response \cup {ConnError, OtherError}

ASSUME ProxyAssumption == None \notin Class /\ None \notin Outcome

PInit == /\ Init /\ ctxDone = FALSE
         /\ req \in [Req -> [at : {"idle"}, class : Class, got : {None}]]

Goto(r, pc) == req' = [req EXCEPT ![r].at = pc]

Arrive(r, c) ==
  /\ req[r].at = "idle"
  /\ req' = [req EXCEPT ![r] = [at |-> "ctx", class |-> c, got |-> None]]
  /\ UNCHANGED <<phase, bd, ctxDone>>

\* An answered request is "idle" again; with the context done it gets 503.
CheckCtx(r) ==
  /\ req[r].at = "ctx"
  /\ Goto(r, IF ctxDone THEN "idle" ELSE "check")
  /\ UNCHANGED <<phase, bd, ctxDone>>

\* s.banDetector.IsBanned(s.class)
CheckBan(r) ==
  /\ req[r].at = "check"
  /\ IsBanned(req[r].class)
  /\ Goto(r, IF Banned(bd[req[r].class]) THEN "status" ELSE "wait")
  /\ UNCHANGED <<phase, ctxDone>>

\* s.banDetector.GetBanStatus(s.class): banned, the empty answer; by now the
\* ban may have been lifted, and the request goes on
ReadStatus(r) ==
  /\ req[r].at = "status"
  /\ Goto(r, IF bd[req[r].class].banned THEN "idle" ELSE "wait")
  /\ UNCHANGED <<phase, bd, ctxDone>>

WaitAgain == "wait"
WaitFailed == "idle"

RateWait(r) ==
  /\ req[r].at = "wait"
  /\ Goto(r, IF ctxDone THEN WaitFailed ELSE "send")
  /\ UNCHANGED <<phase, bd, ctxDone>>

Send(r) ==
  /\ req[r].at = "send"
  /\ Goto(r, "flight")
  /\ UNCHANGED <<phase, bd, ctxDone>>

\* Binance, or the network.
Upstream(r) ==
  /\ req[r].at = "flight"
  /\ \E got \in Outcome : req' = [req EXCEPT ![r] = [@ EXCEPT !.at = "reply", !.got = got]]
  /\ UNCHANGED <<phase, bd, ctxDone>>

\* ModifyResponse or ErrorHandler
Report(c, got) == IF got \in Response THEN CheckResponse(c, got)
                  ELSE IF got = ConnError THEN CheckError(c) ELSE UNCHANGED bd

Reply(r) ==
  /\ req[r].at = "reply"
  /\ Report(req[r].class, req[r].got)
  /\ req' = [req EXCEPT ![r] = [@ EXCEPT !.at = "idle", !.got = None]]
  /\ UNCHANGED <<phase, ctxDone>>

Cancel == ~ctxDone /\ ctxDone' = TRUE /\ UNCHANGED <<phase, bd, req>>

ProxyStep(r) == \/ CheckCtx(r) \/ CheckBan(r) \/ ReadStatus(r) \/ RateWait(r)
                \/ Send(r) \/ Reply(r)

Time == Tick /\ UNCHANGED <<req, ctxDone>>

PNext == \/ Time \/ Cancel
         \/ \E r \in Req : (\E c \in Class : Arrive(r, c)) \/ ProxyStep(r) \/ Upstream(r)

PSpec == PInit /\ [][PNext]_pvars

\* Goroutines run, the limiter refills and time passes.  Clients need not
\* come, and Binance need not answer.
PFairSpec == PSpec /\ WF_pvars(Time) /\ \A r \in Req : WF_pvars(ProxyStep(r))

-----------------------------------------------------------------------------
\* Control points behind the check.
Admitted == {"wait", "send", "flight", "reply"}

PTypeOK ==
  /\ TypeOK /\ ctxDone \in BOOLEAN
  /\ req \in [Req -> [at : {"idle", "ctx", "check", "status", "wait", "send", "flight",
                            "reply"},
                      class : Class, got : Outcome \cup {None}]]
  /\ \A r \in Req : req[r].at = "reply" <=> req[r].got # None

\* The ban detector and the requests that share it keep BanGate's promise:
\* while its class is suspended no request gets past the check, not even one
\* that saw the ban in IsBanned and asks for its status only later; and only
\* the answer to a request that was let through suspends, or ends it early.
Gate == INSTANCE BanGate WITH
  gate <- [c \in Class |-> IF Active(c) THEN bd[c].left ELSE 0],
  inside <- [r \in Req |-> IF req[r].at \in Admitted THEN req[r].class ELSE None]
Gated == Gate!Spec

\* An answer that suspends its class whether or not it is suspended: a ban or
\* a limit, a high weight, one connection error too many.
Suspends(c, got) ==
  \/ got \in Response /\ (got.status \in {403, 418, 429} \/ bd'[c].used > HighWeight)
  \/ got = ConnError /\ bd[c].errors = MaxErrors - 1

\* Once announced the end of a suspension only comes nearer with time.  No
\* request's check, no success and no failure that is not one too many moves
\* it or lifts the ban.  What moves it is the answer to a request of the class
\* that suspends on its own account: that replaces the end, also by an earlier
\* one, so that the last of a few connection errors leaves of a ban of ten
\* minutes a backoff of seconds.
MovedOnlyBySuspending ==
  [][\A c \in Class : Active(c) =>
       \/ bd'[c].banned /\ bd'[c].left = bd[c].left
       \/ Time /\ bd'[c].banned /\ bd'[c].left = bd[c].left - 1
       \/ \E r \in Req : Reply(r) /\ req[r].class = c /\ Suspends(c, req[r].got)]_pvars

\* A suspension comes to an end: those already past the check may prolong
\* it, but it refuses all others, however many clients keep asking.
Recovers == \A c \in Class : Active(c) ~> ~Active(c)

\* Every request is answered or on its way to Binance, also when the context
\* is cancelled under it.
AnsweredOrSent == \A r \in Req : req[r].at # "idle" ~> req[r].at \in {"idle", "flight"}
=============================================================================
