---------------------------- MODULE DepthProofs ----------------------------
(* The depth cache for any list of pauses, any number of books and any      *)
(* number of events under way.                                              *)
EXTENDS DepthSrv, TLAPS

USE DepthAssumption
USE DEF sock, handler, history

\* No reader outlives the connection the supervisor has given up.
ReaderGone == sup \in {"reset", "connect", "delay"} => rd = "none"

\* Everything the connection has delivered is at least as new as it is.
Delivered ==
  /\ conn <= cur /\ (rd = "handle" => ev >= conn)
  /\ \A i \in DOMAIN queue : queue[i] >= conn

\* Nothing is left of the connection before.
Emptied == sup = "connect" => depth = Nil

\* A pause counts for one failure: the one that is about to be paused for.
Paid == sup \in {"delay", "select", "stopping", "exited"} => index <= fails

\* An open socket has its reader, whose end the supervisor would not miss.
Attended == up => rd # "none"

\* What is under way comes in the order of the books.
Ordered ==
  /\ rd = "handle" => ev <= cur /\ \A i \in DOMAIN queue : ev <= queue[i]
  /\ \A i \in DOMAIN queue : queue[i] <= cur
  /\ \A i, j \in DOMAIN queue : i < j => queue[i] <= queue[j]

\* The book shown is no newer than what its connection has yet to deliver.
Behind ==
  depth # Nil =>
    /\ depth <= cur
    /\ rd = "handle" => depth <= ev
    /\ rd # "none" => \A i \in DOMAIN queue : depth <= queue[i]

IInv == /\ TypeOK /\ ReaderGone /\ Delivered /\ Emptied /\ Paid
        /\ FreshBook /\ PauseEarned
        /\ NoSocketLeak /\ Attended /\ Ordered /\ Behind

LEMMA InitInv == Init => IInv
<1> SUFFICES ASSUME Init PROVE IInv
  OBVIOUS
<1> USE DEF Init
<1>1. TypeOK
  <2>1. <<>> \in Seq(Book)
    OBVIOUS
  <2>2. cur \in Book /\ ev \in Book /\ conn \in Book /\ index \in 0..LastDelay /\ fails \in 0..LastDelay
    BY DEF Book
  <2>3. {watch, up, inited, cancelled} \subseteq BOOLEAN
    OBVIOUS
  <2> QED
    BY <2>1, <2>2, <2>3 DEF TypeOK
<1>2. ReaderGone /\ Delivered /\ Emptied
  BY DEF ReaderGone, Delivered, Emptied
<1>3. Paid /\ FreshBook /\ PauseEarned
  BY DEF Paid, FreshBook, PauseEarned
<1>4. NoSocketLeak /\ Attended /\ Ordered /\ Behind
  BY DEF NoSocketLeak, Attended, Ordered, Behind
<1> QED
  BY <1>1, <1>2, <1>3, <1>4 DEF IInv

\* A socket that closes loses the end of what it still held.
LEMMA CloseKeeps ==
  ASSUME TypeOK, Delivered, Close, conn' = conn
  PROVE  /\ up' \in BOOLEAN /\ queue' \in Seq(Book)
         /\ \A i \in DOMAIN queue' : queue'[i] >= conn'
<1>1. PICK n \in 0..Len(queue) : queue' = SubSeq(queue, 1, n)
  BY DEF Close
<1>2. queue \in Seq(Book)
  BY DEF TypeOK
<1>3. queue' \in Seq(Book) /\ \A i \in DOMAIN queue' : queue'[i] = queue[i] /\ i \in DOMAIN queue
  BY <1>1, <1>2
<1> QED
  BY <1>3 DEF Delivered, Close

LEMMA PushKeeps ==
  ASSUME TypeOK, Delivered, Push
  PROVE  queue' \in Seq(Book) /\ \A i \in DOMAIN queue' : queue'[i] >= conn
<1>1. queue \in Seq(Book) /\ cur \in Book /\ queue' = Append(queue, cur)
  BY DEF TypeOK, Push
<1>2. \A i \in DOMAIN queue' : IF i = Len(queue) + 1 THEN queue'[i] = cur
                               ELSE i \in DOMAIN queue /\ queue'[i] = queue[i]
  BY <1>1
<1>3. queue' \in Seq(Book)
  BY <1>1
<1> QED
  BY <1>2, <1>3 DEF Delivered

LEMMA ReadKeeps ==
  ASSUME TypeOK, Delivered, Read
  PROVE  /\ queue' \in Seq(Book) /\ ev' \in Book /\ ev' >= conn
         /\ \A i \in DOMAIN queue' : queue'[i] >= conn
<1>1. queue \in Seq(Book) /\ queue # <<>> /\ queue' = Tail(queue) /\ ev' = Head(queue)
  BY DEF TypeOK, Read
<1>2. queue' \in Seq(Book) /\ ev' = queue[1] /\ 1 \in DOMAIN queue /\ ev' \in Book
  BY <1>1
<1>3. \A i \in DOMAIN queue' : i + 1 \in DOMAIN queue /\ queue'[i] = queue[i + 1]
  BY <1>1
<1> QED
  BY <1>2, <1>3 DEF Delivered

\* The types and what has been delivered, step by step.
LEMMA BaseStep ==
  ASSUME TypeOK, ReaderGone, Delivered, Next
  PROVE  TypeOK' /\ ReaderGone' /\ Delivered'
<1> USE DEF TypeOK, ReaderGone, Delivered, Book
<1>1. CASE Advance
  BY <1>1 DEF Advance
<1>2. CASE Push
  BY <1>2, PushKeeps DEF Push
<1>3. CASE Drop
  BY <1>3, CloseKeeps DEF Drop
<1>4. CASE Stop
  BY <1>4 DEF Stop
<1>5. CASE Reset
  BY <1>5 DEF Reset, NoDepth
<1>6. CASE SelectDone
  BY <1>6 DEF SelectDone, DoneClosed
<1>7. CASE Delay
  BY <1>7 DEF Delay, NextIndex
<1>8. CASE WatchStop
  BY <1>8, CloseKeeps DEF WatchStop
<1>9. CASE WatchDone
  BY <1>9, CloseKeeps DEF WatchDone
<1>10. CASE Connect
  BY <1>10 DEF Connect, Restarted
<1>11. CASE ConnectError
  BY <1>11 DEF ConnectError
<1>12. CASE SelectCancel
  BY <1>12 DEF SelectCancel, TellWatcher
<1>13. CASE Read
  BY <1>13, ReadKeeps DEF Read
<1>14. CASE ReadError
  BY <1>14 DEF ReadError
<1>15. CASE Handle
  BY <1>15 DEF Handle, NewBook
<1> QED
  BY <1>1, <1>2, <1>3, <1>4, <1>5, <1>6, <1>7, <1>8, <1>9, <1>10, <1>11,
     <1>12, <1>13, <1>14, <1>15 DEF Next, Sup

\* The book and the pauses: only the supervisor and Handle touch them.
LEMMA BookStep ==
  ASSUME IInv, Next
  PROVE  Emptied' /\ FreshBook'
<1> USE DEF IInv, TypeOK, Book, Emptied, FreshBook
<1>1. CASE Reset
  BY <1>1 DEF Reset, NoDepth
<1>2. CASE Connect
  BY <1>2 DEF Connect
<1>3. CASE Handle
  BY <1>3 DEF Handle, NewBook, Delivered, ReaderGone
<1>4. CASE ~(Reset \/ Connect \/ Handle)
  <2>1. depth' = depth /\ conn' = conn
    BY <1>4 DEF Next, Sup, Advance, Push, Drop, Stop, SelectDone, Delay, WatchStop,
                WatchDone, ConnectError, SelectCancel, TellWatcher, Read, ReadError
  <2>2. sup' = "connect" => sup = "connect"
    BY <1>4 DEF Next, Sup, Advance, Push, Drop, Stop, SelectDone, Delay, WatchStop,
                WatchDone, ConnectError, SelectCancel, TellWatcher, Read, ReadError
  <2>3. sup' \in {"select", "stopping", "exited"} => sup \in {"select", "stopping", "exited"}
    BY <1>4 DEF Next, Sup, Advance, Push, Drop, Stop, SelectDone, Delay, WatchStop,
                WatchDone, ConnectError, SelectCancel, TellWatcher, Read, ReadError
  <2> QED
    BY <2>1, <2>2, <2>3
<1> QED
  BY <1>1, <1>2, <1>3, <1>4

LEMMA PauseStep ==
  ASSUME IInv, Next
  PROVE  Paid' /\ PauseEarned'
<1> USE DEF IInv, TypeOK, Paid, PauseEarned
<1>1. CASE Connect
  BY <1>1 DEF Connect, Restarted
<1>2. CASE ConnectError
  BY <1>2 DEF ConnectError
<1>3. CASE Delay
  BY <1>3 DEF Delay, NextIndex
<1>4. CASE ~(Connect \/ ConnectError \/ Delay)
  <2>1. index' = index /\ fails' = fails
    BY <1>4 DEF Next, Sup, Advance, Push, Drop, Stop, Reset, SelectDone, WatchStop,
                WatchDone, SelectCancel, Read, ReadError, Handle
  <2>2. \/ sup' \notin {"delay", "select", "stopping", "exited"}
        \/ sup \in {"delay", "select", "stopping", "exited"}
    BY <1>4 DEF Next, Sup, Advance, Push, Drop, Stop, Reset, SelectDone, WatchStop,
                WatchDone, SelectCancel, Read, ReadError, Handle
  <2> QED
    BY <2>1, <2>2
<1> QED
  BY <1>1, <1>2, <1>3, <1>4

\* A socket is open between a dialling and its reader's end, or the watcher's.
LEMMA SocketStep ==
  ASSUME IInv, Next
  PROVE  NoSocketLeak' /\ Attended'
<1> USE DEF IInv, ReaderGone, NoSocketLeak, Attended
<1>1. CASE Connect
  BY <1>1 DEF Connect
<1>2. CASE SelectDone \/ WatchDone
  BY <1>2 DEF SelectDone, WatchDone, DoneClosed, Close
<1>3. CASE SelectCancel \/ WatchStop
  BY <1>3 DEF SelectCancel, TellWatcher, WatchStop, Close
<1>4. CASE Drop
  BY <1>4 DEF Drop, Close
<1>5. CASE Read \/ ReadError \/ Handle
  BY <1>5 DEF Read, ReadError, Handle
<1>6. CASE Reset \/ Delay \/ ConnectError
  BY <1>6 DEF Reset, Delay, ConnectError
<1>7. CASE Advance \/ Push \/ Stop
  BY <1>7 DEF Advance, Push, Stop
<1> QED
  BY <1>1, <1>2, <1>3, <1>4, <1>5, <1>6, <1>7 DEF Next, Sup

\* A socket that closes keeps the order of what it still held.
LEMMA CloseOrders ==
  ASSUME TypeOK, Ordered, Behind, Close, UNCHANGED <<cur, depth, rd, ev>>
  PROVE  Ordered' /\ Behind'
<1>1. PICK n \in 0..Len(queue) : queue' = SubSeq(queue, 1, n)
  BY DEF Close
<1>2. queue \in Seq(Book)
  BY DEF TypeOK
<1>3. \A i \in DOMAIN queue' : queue'[i] = queue[i] /\ i \in DOMAIN queue
  BY <1>1, <1>2
<1> QED
  BY <1>3 DEF Ordered, Behind

\* The newest book goes to the end of the queue, the oldest is read.
LEMMA PushOrders ==
  ASSUME TypeOK, Ordered, Behind, Push
  PROVE  Ordered' /\ Behind'
<1> USE DEF Book
<1>1. /\ queue \in Seq(Book) /\ cur \in Book /\ queue' = Append(queue, cur)
      /\ UNCHANGED <<cur, depth, rd, ev>>
  BY DEF TypeOK, Push
<1>2. \A i \in DOMAIN queue' :
        IF i = Len(queue) + 1 THEN queue'[i] = cur
        ELSE i \in DOMAIN queue /\ queue'[i] = queue[i] /\ i \in 1..Len(queue)
  BY <1>1
<1>3. \A i \in DOMAIN queue' : i \in Nat /\ i <= Len(queue) + 1 /\ queue'[i] <= cur
  BY <1>1, <1>2 DEF Ordered
<1>4. \A i, j \in DOMAIN queue' : i < j => queue'[i] <= queue'[j]
  <2>1. ASSUME NEW i \in DOMAIN queue', NEW j \in DOMAIN queue', i < j
        PROVE  queue'[i] <= queue'[j]
    <3>1. CASE j = Len(queue) + 1
      BY <1>2, <1>3, <3>1
    <3>2. CASE j # Len(queue) + 1
      <4>1. i # Len(queue) + 1
        BY <1>1, <1>2, <1>3, <2>1, <3>2
      <4> QED
        BY <1>2, <2>1, <3>2, <4>1 DEF Ordered
    <3> QED
      BY <3>1, <3>2
  <2> QED
    BY <2>1
<1>5. Ordered'
  BY <1>1, <1>2, <1>3, <1>4 DEF Ordered
<1>6. Behind'
  BY <1>1, <1>2 DEF Behind
<1> QED
  BY <1>5, <1>6

LEMMA ReadOrders ==
  ASSUME TypeOK, Ordered, Behind, Read
  PROVE  Ordered' /\ Behind'
<1>1. /\ queue \in Seq(Book) /\ queue # <<>> /\ queue' = Tail(queue) /\ ev' = Head(queue)
      /\ rd = "read" /\ rd' = "handle" /\ UNCHANGED <<cur, depth>>
  BY DEF TypeOK, Read
<1>2. ev' = queue[1] /\ 1 \in DOMAIN queue
  BY <1>1
<1>3. \A i \in DOMAIN queue' : /\ i \in Nat \ {0} /\ i + 1 \in DOMAIN queue
                                /\ queue'[i] = queue[i + 1] /\ 1 < i + 1
  BY <1>1
<1>4. \A i \in DOMAIN queue' : ev' <= queue'[i] /\ queue'[i] <= cur
  BY <1>2, <1>3 DEF Ordered
<1>5. \A i, j \in DOMAIN queue' : i < j => queue'[i] <= queue'[j]
  <2>1. ASSUME NEW i \in DOMAIN queue', NEW j \in DOMAIN queue', i < j
        PROVE  queue'[i] <= queue'[j]
    <3>1. i + 1 < j + 1
      BY <1>3, <2>1
    <3> QED
      BY <1>3, <2>1, <3>1 DEF Ordered
  <2> QED
    BY <2>1
<1>6. Ordered'
  BY <1>1, <1>2, <1>4, <1>5 DEF Ordered
<1>7. Behind'
  BY <1>1, <1>2, <1>3 DEF Behind
<1> QED
  BY <1>6, <1>7

LEMMA OrderStep ==
  ASSUME IInv, Next
  PROVE  Ordered' /\ Behind'
<1>0. TypeOK /\ Ordered /\ Behind /\ ReaderGone /\ Emptied
  BY DEF IInv
<1> USE DEF Ordered, Behind
<1>1. CASE Advance
  BY <1>0, <1>1 DEF Advance, TypeOK, Book
<1>2. CASE Push
  BY <1>0, <1>2, PushOrders
<1>3. CASE Drop \/ WatchStop \/ WatchDone
  <2>1. Close /\ UNCHANGED <<cur, depth, rd, ev>>
    BY <1>3 DEF Drop, WatchStop, WatchDone
  <2> QED
    BY <1>0, <2>1, CloseOrders
<1>4. CASE Read
  BY <1>0, <1>4, ReadOrders
<1>5. CASE Connect
  BY <1>0, <1>5 DEF Connect, Emptied
<1>6. CASE Handle
  BY <1>0, <1>6 DEF Handle, NewBook
<1>7. CASE Reset
  BY <1>0, <1>7 DEF Reset, NoDepth
<1>8. CASE Stop \/ SelectDone \/ Delay \/ ConnectError \/ SelectCancel \/ ReadError
  BY <1>0, <1>8 DEF Stop, SelectDone, Delay, ConnectError, SelectCancel, ReadError
<1> QED
  BY <1>1, <1>2, <1>3, <1>4, <1>5, <1>6, <1>7, <1>8 DEF Next, Sup

LEMMA InvStep == IInv /\ [Next]_vars => IInv'
<1> SUFFICES ASSUME IInv, [Next]_vars PROVE IInv'
  OBVIOUS
<1>1. CASE Next
  BY <1>1, BaseStep, BookStep, PauseStep, SocketStep, OrderStep DEF IInv
<1>2. CASE UNCHANGED vars
  <2>1. TypeOK' /\ ReaderGone' /\ Delivered' /\ Emptied'
    BY <1>2 DEF vars, IInv, TypeOK, ReaderGone, Delivered, Emptied
  <2>2. Paid' /\ FreshBook' /\ PauseEarned'
    BY <1>2 DEF vars, IInv, Paid, FreshBook, PauseEarned
  <2>3. NoSocketLeak' /\ Attended' /\ Ordered' /\ Behind'
    BY <1>2 DEF vars, IInv, NoSocketLeak, Attended, Ordered, Behind
  <2> QED
    BY <2>1, <2>2, <2>3 DEF IInv
<1> QED
  BY <1>1, <1>2

LEMMA Inductive == Spec => []IInv
  BY InitInv, InvStep, PTL DEF Spec

\* The cache, its socket and the delay iterator keep their types; the next
\* pause is one of the list.
THEOREM DepthTypeCorrect == Spec => []TypeOK
<1>1. IInv => TypeOK
  BY DEF IInv
<1> QED
  BY Inductive, <1>1, PTL

\* GetDepth returns no book from before the connection that is up, however
\* late events and lost connections overlap.
THEOREM ServesFreshBooks == Spec => []FreshBook
<1>1. IInv => FreshBook
  BY DEF IInv
<1> QED
  BY Inductive, <1>1, PTL

\* The pauses before a dialling have grown by its failures in a row only.
THEOREM PausesEarned == Spec => []PauseEarned
<1>1. IInv => PauseEarned
  BY DEF IInv
<1> QED
  BY Inductive, <1>1, PTL

\* No open socket is left to itself, whenever the connection is lost, the
\* next dialling fails or the service is stopped.
THEOREM NoDepthSocketLeaks == Spec => []NoSocketLeak
<1>1. IInv => NoSocketLeak
  BY DEF IInv
<1> QED
  BY Inductive, <1>1, PTL

\* Every step of the supervisor, the watcher and the reader is one of
\* DepthCache's or none.
LEMMA CacheSimulates ==
  IInv /\ [Next]_vars => [Cache!Next]_(Cache!vars)
<1> DEFINE since == IF depth # Nil THEN depth
                    ELSE IF sup \in {"reset", "connect", "delay"} THEN cur ELSE conn
<1> SUFFICES ASSUME IInv, [Next]_vars
             PROVE  \/ Cache!Make \/ Cache!Show \/ Cache!Forget
                    \/ UNCHANGED <<cur, depth, since>>
  BY DEF Cache!Next, Cache!vars
<1>0. /\ cur \in Nat /\ conn \in Nat /\ conn <= cur /\ (depth = Nil \/ depth \in Nat)
      /\ depth # Nil => depth <= cur
  BY DEF IInv, TypeOK, Book, Delivered, Behind
<1>1. CASE Advance
  BY <1>0, <1>1 DEF Advance, Cache!Make
<1>2. CASE Handle
  <2>1. /\ rd = "handle" /\ depth' = ev /\ ev \in Nat /\ ev <= cur /\ cur' = cur
        /\ sup \notin {"reset", "connect", "delay"}
    BY <1>2 DEF Handle, NewBook, IInv, TypeOK, Book, Ordered, ReaderGone
  <2>2. since <= ev
    BY <2>1 DEF IInv, Delivered, Behind
  <2>3. depth' # Nil
    BY <2>1
  <2> QED
    BY <1>0, <2>1, <2>2, <2>3 DEF Cache!Show
<1>3. CASE Reset
  BY <1>0, <1>3 DEF Reset, NoDepth, Cache!Forget
<1>4. CASE Connect
  BY <1>4 DEF Connect, IInv, Emptied
<1>5. CASE SelectDone
  BY <1>0, <1>5 DEF SelectDone, Cache!Forget
<1>6. CASE Push \/ Drop \/ Stop \/ WatchDone \/ Read \/ ReadError \/ UNCHANGED vars
  BY <1>6 DEF Push, Drop, Stop, WatchDone, Read, ReadError, vars
<1>7. CASE Delay \/ ConnectError \/ SelectCancel \/ WatchStop
  BY <1>7 DEF Delay, ConnectError, SelectCancel, TellWatcher, WatchStop
<1> QED
  BY <1>1, <1>2, <1>3, <1>4, <1>5, <1>6, <1>7 DEF Next, Sup

\* Requests are never shown an older book than before, whatever a lost
\* socket still delivers and however often the cache is emptied.
THEOREM BooksNeverGoBack == Spec => NeverBack
<1>1. Init => Cache!Init
  BY DEF Init, Cache!Init
<1> QED
  BY Inductive, CacheSimulates, <1>1, PTL DEF Spec, NeverBack, Cache!Spec

\* What the depth handler sends has no more levels than were asked for, and
\* none that a side of the book does not have.
THEOREM AnswerFits ==
  ASSUME NEW bids \in Nat, NEW asks \in Nat, NEW limit \in Int, Cacheable(limit)
  PROVE  /\ DepthAnswer(bids, asks, limit) \in 0..limit
         /\ DepthAnswer(bids, asks, limit) <= bids /\ DepthAnswer(bids, asks, limit) <= asks
BY DEF Cacheable, DepthAnswer, Fewer
=============================================================================
