----------------------------- MODULE TickerSrv -----------------------------
(***************************************************************************)
(* One ticker cache, internal/service/ticker.go: two websockets, of the    *)
(* 24 hour statistics and of the best prices, supervised by one goroutine. *)
(* Each dialling opens a socket with a reader, which closes doneC when it   *)
(* ends, and a watcher, which takes stopC or doneC and closes the socket   *)
(* (go-binance's wsServe).  stopC is unbuffered, and nil if dialling       *)
(* failed.                                                                 *)
(***************************************************************************)
EXTENDS Integers

CONSTANTS
  Nil,      \* no data since the last (re)connection
  MaxGen    \* bound: dialling attempts of the supervisor's loop

ASSUME GenAssumption == MaxGen \in Nat \ {0} /\ Nil \notin Nat

Stream == {"ticker24hr", "book"}
Gen == 1..MaxGen

VARIABLES
  sup,         \* the supervisor's control point
  gen,         \* turn of its loop
  up,          \* per stream and turn: the socket is open
  watch,       \* its watcher: "none", "wait", "close" (about to), "gone"
  rd,          \* its reader: "none" (doneC closed), "read", "handle"
  data,        \* ticker24hr and bookTicker: the turn their event is of
  inited,      \* initDone was called
  cancelled    \* s.ctx is done

socks == <<up, watch, rd>>
vars == <<sup, gen, up, watch, rd, data, inited, cancelled>>

Init ==
  /\ sup = "reset" /\ gen = 0 /\ inited = FALSE /\ cancelled = FALSE
  /\ up = [c \in Stream |-> [g \in Gen |-> FALSE]]
  /\ watch = [c \in Stream |-> [g \in Gen |-> "none"]]
  /\ rd = [c \in Stream |-> [g \in Gen |-> "none"]]
  /\ data = [c \in Stream |-> Nil]

-----------------------------------------------------------------------------
(* Start's goroutine.                                                      *)

Reset ==
  /\ sup = "reset" /\ gen < MaxGen
  /\ data' = [c \in Stream |-> Nil] /\ gen' = gen + 1 /\ sup' = "dial ticker24hr"
  /\ UNCHANGED <<socks, inited, cancelled>>

Dialled(c, next) ==
  /\ up' = [up EXCEPT ![c][gen] = TRUE] /\ watch' = [watch EXCEPT ![c][gen] = "wait"]
  /\ rd' = [rd EXCEPT ![c][gen] = "read"] /\ sup' = next
  /\ UNCHANGED <<gen, data, inited, cancelled>>

DialTicker24hr == sup = "dial ticker24hr" /\ Dialled("ticker24hr", "dial book")
DialBook == sup = "dial book" /\ Dialled("book", "select")

\* bookStopC <- struct{}{}: the stopC of the failed dialling, nil, blocks
BookErrorIgnored == "select"
BookError == "nil send"

DialError ==
  /\ \/ sup = "dial ticker24hr" /\ sup' = "reset"
     \/ sup = "dial book" /\ sup' = BookError
  /\ UNCHANGED <<gen, socks, data, inited, cancelled>>

\* Which stopC the supervisor's select leads to send on.
SelectStopNone ==
  \/ cancelled /\ sup' = "cancel book"
  \/ (rd["book"][gen] = "none" \/ rd["ticker24hr"][gen] = "none") /\ sup' = "reset"
Select ==
  \/ cancelled /\ sup' = "cancel book"
  \/ rd["book"][gen] = "none" /\ sup' = "stop ticker24hr"
  \/ rd["ticker24hr"][gen] = "none" /\ sup' = "stop book"

SelectStep ==
  /\ sup = "select" /\ Select
  /\ UNCHANGED <<gen, socks, data, inited, cancelled>>

\* After bookStopC the cancelled supervisor sends on ticker24hrStopC.
AfterBookOnly == "exited"
AfterBook == "cancel ticker24hr"

Sending == [s \in {"cancel book", "cancel ticker24hr", "stop book", "stop ticker24hr"} |->
  CASE s = "cancel book"       -> [to |-> "book", next |-> AfterBook]
    [] s = "cancel ticker24hr" -> [to |-> "ticker24hr", next |-> "exited"]
    [] s = "stop book"         -> [to |-> "book", next |-> "reset"]
    [] s = "stop ticker24hr"   -> [to |-> "ticker24hr", next |-> "reset"]]

\* The send and its receipt by the watcher; without one the send blocks.
SendStop ==
  /\ sup \in DOMAIN Sending
  /\ LET c == Sending[sup].to IN
       /\ watch[c][gen] = "wait"
       /\ watch' = [watch EXCEPT ![c][gen] = "close"]
  /\ sup' = Sending[sup].next
  /\ UNCHANGED <<gen, up, rd, data, inited, cancelled>>

Stop ==
  /\ ~cancelled /\ cancelled' = TRUE
  /\ UNCHANGED <<sup, gen, socks, data, inited>>

-----------------------------------------------------------------------------
(* The sockets.                                                            *)

TakeDone(c, g) ==
  /\ watch[c][g] = "wait" /\ rd[c][g] = "none"
  /\ watch' = [watch EXCEPT ![c][g] = "close"]
  /\ UNCHANGED <<sup, gen, up, rd, data, inited, cancelled>>

Close(c, g) ==
  /\ watch[c][g] = "close"
  /\ watch' = [watch EXCEPT ![c][g] = "gone"] /\ up' = [up EXCEPT ![c][g] = FALSE]
  /\ UNCHANGED <<sup, gen, rd, data, inited, cancelled>>

Drop(c, g) ==
  /\ up[c][g] /\ up' = [up EXCEPT ![c][g] = FALSE]
  /\ UNCHANGED <<sup, gen, watch, rd, data, inited, cancelled>>

Read(c, g) ==
  /\ rd[c][g] = "read"
  /\ \/ up[c][g] /\ rd' = [rd EXCEPT ![c][g] = "handle"]
     \/ ~up[c][g] /\ rd' = [rd EXCEPT ![c][g] = "none"]
  /\ UNCHANGED <<sup, gen, up, watch, data, inited, cancelled>>

\* wsHandlerBookTicker and wsHandlerTicker24hr, under the lock
Handle(c, g) ==
  /\ rd[c][g] = "handle" /\ rd' = [rd EXCEPT ![c][g] = "read"]
  /\ data' = [data EXCEPT ![c] = g]
  /\ inited' = (inited \/ (c = "ticker24hr" /\ data[c] = Nil))
  /\ UNCHANGED <<sup, gen, up, watch, cancelled>>

Sup == Reset \/ DialTicker24hr \/ DialBook \/ SelectStep \/ SendStop
Sock(c, g) == TakeDone(c, g) \/ Close(c, g) \/ Read(c, g) \/ Handle(c, g)
Next == Sup \/ DialError \/ Stop \/ \E c \in Stream, g \in Gen : Sock(c, g) \/ Drop(c, g)

Spec == Init /\ [][Next]_vars

\* Every goroutine runs; no socket need drop and no dialling fail.
FairSpec == Spec /\ WF_vars(Sup) /\ \A c \in Stream, g \in Gen :
              WF_vars(TakeDone(c, g) \/ Close(c, g)) /\ WF_vars(Read(c, g) \/ Handle(c, g))

-----------------------------------------------------------------------------
\* Types; and whatever the supervisor selects on or sends on was dialled.
TypeOK ==
  /\ sup \in {"reset", "dial ticker24hr", "dial book", "select", "nil send", "exited"}
             \cup DOMAIN Sending
  /\ gen \in 0..MaxGen /\ inited \in BOOLEAN /\ cancelled \in BOOLEAN
  /\ up \in [Stream -> [Gen -> BOOLEAN]]
  /\ watch \in [Stream -> [Gen -> {"none", "wait", "close", "gone"}]]
  /\ rd \in [Stream -> [Gen -> {"none", "read", "handle"}]]
  /\ data \in [Stream -> Gen \cup {Nil}]
  /\ sup \in DOMAIN Sending \cup {"select"} => \A c \in Stream : watch[c][gen] # "none"

\* The supervisor waits for ever on a stopC while ticker24hr is open: nobody
\* receives from the nil one of a failed dialling, nor, once cancelled, from
\* the book stream's whose watcher has taken doneC.
Stuck == \/ sup = "nil send"
         \/ sup = "cancel book" /\ watch["book"][gen] # "wait"

\* Somebody still is to close the socket: its watcher, or the supervisor,
\* which watches over it or is telling it to stop, or will when the send it
\* is at has been taken.
Closable(c, g) ==
  \/ watch[c][g] = "close"
  \/ /\ g = gen /\ ~Stuck
     /\ \/ sup \in {"dial book", "select", "cancel book"}
        \/ sup \in DOMAIN Sending /\ Sending[sup].to = c

\* README.md:123, "Websocket is closed if there is no following request after
\* 2 minutes": a service that was stopped has no socket open that nobody is
\* left to close.
NoSocketLeak == cancelled => \A c \in Stream, g \in Gen : up[c][g] => Closable(c, g)

\* The two places where the supervisor is stuck are the only ones a socket
\* leaks at, and ticker24hr of that turn the only one that does.  However
\* sockets are lost, stopped and dialled anew, no turn the supervisor has
\* gone on from, no other stream and no exit leaves one behind.
LeaksOnlyStuck ==
  \A c \in Stream, g \in Gen :
    up[c][g] => Closable(c, g) \/ (Stuck /\ c = "ticker24hr" /\ g = gen)

\* internal/handler/ticker.go:19, "Ticker24hr data not available, proxying
\* via REST": a request that gets as far as the data finds it, for GetTicker
\* reads through the pointer before the handler can ask.
AlwaysData == inited => data["ticker24hr"] # Nil

\* ticker.go, "Ticker24hr or BookTicker websocket disconnected, trying to
\* reconnect.": when both sockets are lost the supervisor dials again.
Reconnects ==
  \A g \in Gen :
    (sup = "select" /\ gen = g /\ g < MaxGen /\ \A c \in Stream : ~up[c][g])
      ~> (gen > g \/ cancelled)

\* A stopped service closes both sockets, in whatever state its loop is, or
\* is stuck with the one it leaks, which NoSocketLeak is about.
StopCloses == cancelled ~> (Stuck \/ \A c \in Stream, g \in Gen : ~up[c][g])
=============================================================================
