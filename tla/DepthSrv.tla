------------------------------ MODULE DepthSrv ------------------------------
(***************************************************************************)
(* One depth cache, internal/service/depth.go: a supervisor goroutine      *)
(* keeps a websocket open and dials again through tool.DelayIterator,      *)
(* whose pauses grow; each event of the partial depth stream carries the   *)
(* whole book.  Books are numbered as the exchange makes them.  What       *)
(* go-binance's wsServe does is described in KlinesSrv.                    *)
(***************************************************************************)
EXTENDS Integers, Sequences

CONSTANTS
  Nil,        \* depth = nil
  LastDelay,  \* len(delayList)
  MaxCur,     \* bound: books the exchange makes
  MaxQueue    \* bound: events under way at once

ASSUME DepthAssumption ==
  /\ LastDelay \in Nat \ {0} /\ MaxCur \in Nat /\ MaxQueue \in Nat /\ Nil \notin Nat

VARIABLES
  cur,        \* the exchange's book
  depth,      \* the book GetDepth returns
  sup,        \* control point of the supervisor
  index,      \* DelayIterator.index
  rd, ev,     \* control point of the reader, "none" if ended; its event
  watch,      \* the watcher is waiting
  up, queue,  \* the socket is open; events not yet read
  inited,     \* initDone was called
  cancelled,  \* s.ctx is done
  conn,       \* history: the book when the last connection was made
  fails       \* history: diallings failed since then

sock == <<watch, up, queue>>
handler == <<depth, inited, rd, ev>>
history == <<conn, fails>>
vars == <<cur, depth, sup, index, rd, ev, watch, up, queue, inited, cancelled, conn, fails>>

Init ==
  /\ cur = 0 /\ depth = Nil /\ sup = "reset" /\ index = 0 /\ rd = "none" /\ ev = 0
  /\ watch = FALSE /\ up = FALSE /\ queue = <<>> /\ inited = FALSE /\ cancelled = FALSE
  /\ conn = 0 /\ fails = 0

-----------------------------------------------------------------------------
(* The exchange and the network.                                           *)

Advance ==
  /\ cur < MaxCur /\ cur' = cur + 1
  /\ UNCHANGED <<handler, sock, sup, index, cancelled, history>>

\* Every 100 ms, whether or not the book has changed.
Push ==
  /\ up /\ Len(queue) < MaxQueue /\ queue' = Append(queue, cur)
  /\ UNCHANGED <<cur, handler, watch, up, sup, index, cancelled, history>>


\* A closed socket may still hold events for its reader.
Close == /\ up' = FALSE
         /\ \E n \in 0..Len(queue) : queue' = SubSeq(queue, 1, n)

Drop ==
  /\ up /\ Close
  /\ UNCHANGED <<cur, handler, watch, sup, index, cancelled, history>>

-----------------------------------------------------------------------------
(* Start's goroutine, the supervisor.                                      *)

KeepDepth == depth
NoDepth == Nil

Reset ==
  /\ sup = "reset" /\ sup' = "connect" /\ depth' = NoDepth
  /\ UNCHANGED <<cur, sock, inited, rd, ev, index, cancelled, history>>

\* d.Reset()
Continued == index
Restarted == 0

Connect ==
  /\ sup = "connect" /\ sup' = "select"
  /\ up' = TRUE /\ queue' = <<>> /\ watch' = TRUE /\ rd' = "read"
  /\ index' = Restarted /\ conn' = cur /\ fails' = 0
  /\ UNCHANGED <<cur, depth, inited, ev, cancelled>>

\* Bound: fails counts no further than index does.
ConnectError ==
  /\ sup = "connect" /\ sup' = "delay"
  /\ fails' = IF fails < LastDelay THEN fails + 1 ELSE fails
  /\ UNCHANGED <<cur, sock, handler, index, cancelled, conn>>

SocketLost == ~up
DoneClosed == rd = "none"

\* case <-doneC
SelectDone ==
  /\ sup = "select" /\ DoneClosed /\ sup' = "delay"
  /\ UNCHANGED <<cur, sock, handler, index, cancelled, history>>

CtxIgnored == FALSE
CtxDone == cancelled

\* stopC <- struct{}{} before the return
ReturnUntold == "exited"
TellWatcher == "stopping"

\* case <-s.ctx.Done()
SelectCancel ==
  /\ sup = "select" /\ CtxDone /\ sup' = TellWatcher
  /\ UNCHANGED <<cur, sock, handler, index, cancelled, history>>

\* d.Delay()
NextIndexUnbounded == index + 1
NextIndex == IF index >= LastDelay THEN index ELSE index + 1

Delay ==
  /\ sup = "delay" /\ sup' = "reset" /\ index' = NextIndex
  /\ UNCHANGED <<cur, sock, handler, cancelled, history>>

\* stopC <- struct{}{}, taken by the watcher
WatchStop ==
  /\ watch /\ sup = "stopping"
  /\ watch' = FALSE /\ sup' = "exited" /\ Close
  /\ UNCHANGED <<cur, handler, index, cancelled, history>>

WatchDone ==
  /\ watch /\ DoneClosed /\ watch' = FALSE /\ Close
  /\ UNCHANGED <<cur, handler, sup, index, cancelled, history>>

Stop ==
  /\ ~cancelled /\ cancelled' = TRUE
  /\ UNCHANGED <<cur, sock, handler, sup, index, history>>

-----------------------------------------------------------------------------
(* The reader, with wsHandler and wsHandlerFutures.                        *)

Read ==
  /\ rd = "read" /\ queue # <<>>
  /\ ev' = Head(queue) /\ queue' = Tail(queue) /\ rd' = "handle"
  /\ UNCHANGED <<cur, depth, inited, watch, up, sup, index, cancelled, history>>

ReadError ==
  /\ rd = "read" /\ queue = <<>> /\ ~up /\ rd' = "none"
  /\ UNCHANGED <<cur, depth, inited, ev, sock, sup, index, cancelled, history>>

FirstBook == IF depth = Nil THEN ev ELSE depth
NewBook == ev

Handle ==
  /\ rd = "handle" /\ rd' = "read"
  /\ depth' = NewBook /\ inited' = (inited \/ depth = Nil)
  /\ UNCHANGED <<cur, ev, sock, sup, index, cancelled, history>>

Sup == Reset \/ SelectDone \/ Delay \/ WatchStop \/ WatchDone

Next == \/ Advance \/ Push \/ Drop \/ Stop
        \/ Sup \/ Connect \/ ConnectError \/ SelectCancel
        \/ Read \/ ReadError \/ Handle

Spec == Init /\ [][Next]_vars

\* Goroutines run and pauses end, select picks among its ready cases at
\* random, the exchange goes on pushing, and a dialling that keeps being
\* tried succeeds at some point.  No socket need drop.
FairSpec ==
  /\ Spec /\ WF_vars(Sup) /\ WF_vars(ReadError \/ Handle)
  /\ SF_vars(Push) /\ SF_vars(Connect) /\ SF_vars(SelectCancel) /\ SF_vars(Read)

-----------------------------------------------------------------------------
(* Handler.depth, internal/handler/depth.go: levels shown of each side.    *)

Fewer(a, b) == IF a < b THEN a ELSE b
Cacheable(limit) == limit \in 5..20
DepthAnswer(bids, asks, limit) == Fewer(Fewer(asks, bids), limit)

-----------------------------------------------------------------------------
Book == 0..MaxCur

\* Types; the pause asked for next is always one of the list.
TypeOK ==
  /\ cur \in Book /\ ev \in Book /\ conn \in Book /\ depth \in Book \cup {Nil}
  /\ sup \in {"reset", "connect", "select", "stopping", "exited", "delay"}
  /\ rd \in {"none", "read", "handle"} /\ queue \in Seq(Book)
  /\ {watch, up, inited, cancelled} \subseteq BOOLEAN
  /\ index \in 0..LastDelay /\ fails \in 0..LastDelay

\* A request is shown no book from before the connection was lost: what
\* GetDepth returns once the socket is up again is as new as the connection,
\* or nil, which the handler forwards.  No handler of the lost connection is
\* left to write its event.
FreshBook == sup \in {"select", "stopping", "exited"} /\ depth # Nil => depth >= conn

\* An open socket is one the supervisor can still stop, or is telling its
\* watcher to close: neither a loss, a failed dialling nor Stop abandons one.
NoSocketLeak == up => watch /\ sup \in {"select", "stopping"}

\* The depth cache keeps DepthCache's promise through drops, reconnections
\* and events left over from a lost socket: a client that asks again is never
\* shown an older book than it has seen.  Between two connections no book is
\* shown, and the next is as new as the connection it comes from.
Cache == INSTANCE DepthCache WITH
  shown <- depth,
  since <- IF depth # Nil THEN depth
           ELSE IF sup \in {"reset", "connect", "delay"} THEN cur ELSE conn
NeverBack == Cache!Spec

\* depth.go:59, "Reset the reconnect backoff now that we have a successful
\* connection": pauses grow with failures in a row only, however often the
\* socket has been lost since the service was started.
PauseEarned == index <= fails + 1

\* Whatever the socket does, requests come to see each book or a newer one,
\* unless the service is stopped.
CatchesUp == \A b \in Book : cur >= b ~> cancelled \/ (depth # Nil /\ depth >= b)

\* README.md:122: "Websocket is closed if there is no following request after
\* 2 minutes": after Stop the socket is closed for good, also if the
\* supervisor was pausing, dialling or being told of a lost connection.
StopCloses == cancelled ~> [](~up)
=============================================================================
