----------------------------- MODULE KlinesSrv -----------------------------
(***************************************************************************)
(* One kline cache, internal/service/kline.go: a supervisor goroutine      *)
(* keeps a websocket open, go-binance's reader goroutine calls wsHandler   *)
(* for each event, and its watcher closes the socket when told on stopC.   *)
(* The first event of a connection loads the list through REST.            *)
(*                                                                         *)
(* Of go-binance's wsServe: the reader closes doneC when it ends; the      *)
(* watcher takes whichever of stopC and doneC comes first, closes the      *)
(* socket and ends.  stopC is unbuffered.                                  *)
(***************************************************************************)
EXTENDS Integers, Sequences

CONSTANTS
  PerCandle, Limit,   \* see KlinesCache
  Nil,                \* klinesList = nil
  MaxCur,             \* bound: updates the exchange makes
  MaxQueue            \* bound: events under way at once

ASSUME KlinesAssumption ==
  /\ PerCandle \in Nat \ {0} /\ Limit \in Nat \ {0}
  /\ MaxCur \in Nat /\ MaxQueue \in Nat /\ Nil \notin Seq(Nat)

VARIABLES
  cur,        \* the exchange's latest update
  arr,        \* klinesArr, the candles GetKlines returns
  list,       \* klinesList
  sup,        \* control point of the supervisor
  rd,         \* control point of the reader; "none" if ended (doneC closed)
  watch,      \* the watcher is waiting
  up, queue,  \* the socket is open; events not yet read, as updates
  ev, snap,   \* the event being handled; the update the REST answer is of
  inited,     \* initDone was called
  cancelled,  \* s.ctx is done
  crashed     \* a panic has ended the process

sock == <<watch, up, queue>>
data == <<list, arr>>
handler == <<rd, ev, snap, inited>>
vars == <<cur, arr, list, sup, rd, watch, up, queue, ev, snap, inited, cancelled, crashed>>

Cache == INSTANCE KlinesCache
OpenTime(u) == Cache!OpenTime(u)
Last(s) == s[Len(s)]

Init ==
  /\ cur = 0 /\ arr = <<>> /\ list = Nil /\ sup = "reset" /\ rd = "none"
  /\ watch = FALSE /\ up = FALSE /\ queue = <<>> /\ ev = 0 /\ snap = 0
  /\ inited = FALSE /\ cancelled = FALSE /\ crashed = FALSE

-----------------------------------------------------------------------------
(* The exchange and the network.                                           *)

\* Every update is pushed on an open socket.
Advance ==
  /\ cur < MaxCur /\ (up => Len(queue) < MaxQueue)
  /\ cur' = cur + 1
  /\ queue' = IF up THEN Append(queue, cur + 1) ELSE queue
  /\ UNCHANGED <<data, handler, sup, watch, up, cancelled, crashed>>

\* The stream repeats the current candle when nothing changes.
Repeat ==
  /\ up /\ queue = <<>> /\ queue' = <<cur>>
  /\ UNCHANGED <<cur, data, handler, sup, watch, up, cancelled, crashed>>


\* A closed socket may still hold events for its reader.
Close == /\ up' = FALSE
         /\ \E n \in 0..Len(queue) : queue' = SubSeq(queue, 1, n)

Drop ==
  /\ up /\ Close
  /\ UNCHANGED <<cur, data, handler, sup, watch, cancelled, crashed>>

-----------------------------------------------------------------------------
(* Start's goroutine, the supervisor.                                      *)

KeepList == list
NewList == Nil

\* klinesArr stays for requests to read
ArrToo == <<>>
ArrKept == arr

Reset ==
  /\ sup = "reset" /\ sup' = "connect" /\ list' = NewList /\ arr' = ArrKept
  /\ UNCHANGED <<cur, sock, handler, cancelled, crashed>>

Connect ==
  /\ sup = "connect" /\ sup' = "select"
  /\ up' = TRUE /\ queue' = <<>> /\ watch' = TRUE /\ rd' = "read"
  /\ UNCHANGED <<cur, data, ev, snap, inited, cancelled, crashed>>

\* err != nil: continue, whether or not the context is done
ConnectError ==
  /\ sup = "connect" /\ sup' = "reset"
  /\ UNCHANGED <<cur, data, sock, handler, cancelled, crashed>>

SocketLost == ~up
DoneClosed == rd = "none"

\* case <-doneC
SelectDone ==
  /\ sup = "select" /\ DoneClosed /\ sup' = "reset"
  /\ UNCHANGED <<cur, data, sock, handler, cancelled, crashed>>

CtxIgnored == FALSE
CtxDone == cancelled

\* stopC <- struct{}{} before the return; blocks until the watcher takes it
ReturnUntold == "exited"
TellWatcher == "stopping"

\* case <-s.ctx.Done()
SelectCancel ==
  /\ sup = "select" /\ CtxDone /\ sup' = TellWatcher
  /\ UNCHANGED <<cur, data, sock, handler, cancelled, crashed>>

WatchStop ==
  /\ watch /\ sup = "stopping"
  /\ watch' = FALSE /\ sup' = "exited" /\ Close
  /\ UNCHANGED <<cur, data, handler, cancelled, crashed>>

WatchDone ==
  /\ watch /\ DoneClosed
  /\ watch' = FALSE /\ Close
  /\ UNCHANGED <<cur, data, handler, sup, cancelled, crashed>>

Stop ==
  /\ ~cancelled /\ cancelled' = TRUE
  /\ UNCHANGED <<cur, data, sock, handler, sup, crashed>>

-----------------------------------------------------------------------------
(* The reader: ReadMessage, then wsHandler with initKlineData.             *)

\* if s.klinesList == nil { s.initKlineData() }
EntryOnce == IF inited THEN "merge" ELSE "init"
Entry == IF list = Nil THEN "init" ELSE "merge"

Read ==
  /\ rd = "read" /\ queue # <<>>
  /\ ev' = Head(queue) /\ queue' = Tail(queue)
  /\ rd' = Entry
  /\ UNCHANGED <<cur, data, sup, watch, up, snap, inited, cancelled, crashed>>

ReadError ==
  /\ rd = "read" /\ queue = <<>> /\ ~up
  /\ rd' = "none"
  /\ UNCHANGED <<cur, data, sock, sup, ev, snap, inited, cancelled, crashed>>

InitWith(l) == list' = l /\ inited' = TRUE /\ rd' = "merge"
Goto(pc) == rd' = pc /\ UNCHANGED <<list, inited>>

\* IsBanned, before each attempt
BanCheck ==
  /\ rd = "init"
  /\ Goto("wait") \/ InitWith(<<>>)
  /\ UNCHANGED <<cur, arr, sock, sup, ev, snap, cancelled, crashed>>

\* RateWait fails if the context is done, and the attempt is repeated
RateWait ==
  /\ rd = "wait"
  /\ Goto(IF cancelled THEN "init" ELSE "fetch")
  /\ UNCHANGED <<cur, arr, sock, sup, ev, snap, cancelled, crashed>>

\* the exchange answers Do(s.ctx) ...
Serve ==
  /\ rd = "fetch" /\ rd' = "reply" /\ snap' = cur
  /\ UNCHANGED <<cur, data, sock, sup, ev, inited, cancelled, crashed>>

\* ... and the answer arrives
ReplyOK ==
  /\ rd = "reply" /\ InitWith(Cache!Window(snap))
  /\ UNCHANGED <<cur, arr, sock, sup, ev, snap, cancelled, crashed>>

\* CheckResponse has no response to look at, but may see one error too many
ReplyError ==
  /\ rd = "reply"
  /\ Goto("init") \/ InitWith(<<>>)
  /\ UNCHANGED <<cur, arr, sock, sup, ev, snap, cancelled, crashed>>

Trim(l) == SubSeq(l, IF Len(l) > Limit THEN Len(l) - Limit + 1 ELSE 1, Len(l))

MergeAppendOnly(l, k) == IF OpenTime(Last(l)) < OpenTime(k) THEN Append(l, k) ELSE l
MergeInto(l, k) ==
  IF OpenTime(Last(l)) < OpenTime(k) THEN Append(l, k)
  ELSE IF OpenTime(Last(l)) = OpenTime(k) THEN [l EXCEPT ![Len(l)] = k] ELSE l

Merge ==
  /\ rd = "merge" /\ list # <<>>
  /\ list' = Trim(MergeInto(list, ev)) /\ rd' = "publish"
  /\ UNCHANGED <<cur, arr, sock, sup, ev, snap, inited, cancelled, crashed>>

\* Back() of an empty list is nil: a panic in a goroutine nobody recovers
MergeEmpty ==
  /\ rd = "merge" /\ list = <<>>
  /\ crashed' = TRUE
  /\ UNCHANGED <<cur, data, sock, handler, sup, cancelled>>

Publish ==
  /\ rd = "publish" /\ arr' = list /\ rd' = "read"
  /\ UNCHANGED <<cur, list, sock, sup, ev, snap, inited, cancelled, crashed>>

Sup == Reset \/ SelectDone \/ WatchStop \/ WatchDone
Handle == ReadError \/ BanCheck \/ RateWait \/ Serve \/ Merge \/ MergeEmpty \/ Publish

Next == ~crashed /\ ( \/ Advance \/ Repeat \/ Drop \/ Stop
                      \/ Sup \/ Connect \/ ConnectError \/ SelectCancel
                      \/ Handle \/ Read \/ ReplyOK \/ ReplyError )

Spec == Init /\ [][Next]_vars

\* Goroutines run, and select picks among its ready cases at random, so that
\* neither is passed over forever.  A connection, a stream's first event and
\* a request that keep being tried succeed at some point.  Nothing forces a
\* socket to drop or a request to fail.
FairSpec ==
  /\ Spec /\ WF_vars(~crashed /\ Sup) /\ WF_vars(~crashed /\ Handle)
  /\ SF_vars(~crashed /\ Repeat) /\ SF_vars(~crashed /\ Connect)
  /\ SF_vars(~crashed /\ SelectCancel) /\ SF_vars(~crashed /\ Read)
  /\ SF_vars(~crashed /\ ReplyOK)

-----------------------------------------------------------------------------
Update == 0..MaxCur

\* Types; and a handler past initKlineData has a list, not nil.
TypeOK ==
  /\ cur \in Update /\ ev \in Update /\ snap \in Update
  /\ {watch, up, inited, cancelled, crashed} \subseteq BOOLEAN
  /\ queue \in Seq(Update) /\ arr \in Seq(Update)
  /\ list = Nil \/ list \in Seq(Update)
  /\ sup \in {"reset", "connect", "select", "stopping", "exited"}
  /\ rd \in {"none", "read", "init", "wait", "fetch", "reply", "merge", "publish"}
  /\ rd \in {"merge", "publish"} => list # Nil

\* klinesList is written by the supervisor and by the reader, the handler's
\* accesses without the lock: while the supervisor is about to reset it no
\* handler may be running.
OneWriter == sup \in {"reset", "connect"} => rd = "none"

\* An open socket is one the supervisor can still stop, or is telling its
\* watcher to close: neither a loss nor a handler stuck initialising, whose
\* service is stopped meanwhile, abandons one.
NoSocketLeak == up => watch /\ sup \in {"select", "stopping"}

\* The cache keeps KlinesCache's promise through drops, reconnections, late
\* and repeated events, failed and late REST answers: what GetKlines returns
\* is the exchange's latest candles as of one update, without a gap or an
\* unfinished candle before the last, and never of an earlier candle than
\* it has shown.
Mirrors == Cache!Spec

\* Whatever the socket does, the cache catches up with the exchange unless
\* it is stopped (or the process crashes).
CatchesUp ==
  \A u \in Update : cur >= u ~> cancelled \/ crashed \/ (arr # <<>> /\ Last(arr) >= u)

\* README: "Websocket is closed if there is no following request": after
\* Stop the socket is closed for good, also if the service is reconnecting,
\* its connection is failing or its handler is still trying to initialise.
StopCloses == cancelled ~> (crashed \/ [](~up))

\* kline.go:115, "Create empty klines list to prevent repeated
\* initialization attempts": the list left by a ban is one to go on with.
NoCrash == ~crashed
=============================================================================
