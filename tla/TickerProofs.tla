---------------------------- MODULE TickerProofs ----------------------------
(* The two sockets of a ticker cache, through any number of reconnections.  *)
EXTENDS TickerSrv, TLAPS

USE DEF socks

\* Where the supervisor sends on a stopC.
Sends == {"cancel book", "cancel ticker24hr", "stop book", "stop ticker24hr"}

Shape ==
  /\ sup \in {"reset", "dial ticker24hr", "dial book", "select", "nil send", "exited"}
             \cup Sends
  /\ gen \in 0..MaxGen /\ inited \in BOOLEAN /\ cancelled \in BOOLEAN
  /\ up \in [Stream -> [Gen -> BOOLEAN]]
  /\ watch \in [Stream -> [Gen -> {"none", "wait", "close", "gone"}]]
  /\ rd \in [Stream -> [Gen -> {"none", "read", "handle"}]]
  /\ data \in [Stream -> Gen \cup {Nil}]

\* The loop has begun a turn, and has dialled what it has got past.
Turn ==
  /\ sup # "reset" => gen \in Gen
  /\ sup = "dial book" => watch["ticker24hr"][gen] # "none"
  /\ sup \in Sends \cup {"select"} => \A c \in Stream : watch[c][gen] # "none"

\* What is open was dialled in this turn or before.
Past == \A c \in Stream, g \in Gen :
  up[c][g] => g < gen \/ (g = gen /\ sup # "dial ticker24hr")

\* A socket that is open has its reader and its watcher.
Attended == \A c \in Stream, g \in Gen :
  up[c][g] => rd[c][g] # "none" /\ watch[c][g] \in {"wait", "close"}

\* The socket the supervisor does not turn to is lost, or told to close.
OtherDone ==
  /\ sup = "stop ticker24hr" => ~up["book"][gen]
  /\ sup = "stop book" => ~up["ticker24hr"][gen]
  /\ sup = "cancel ticker24hr" => watch["book"][gen] # "wait"

\* What the supervisor has turned its back on was told to close.
NoneBehind == \A c \in Stream, g \in Gen :
  up[c][g] => \/ watch[c][g] = "close"
              \/ g = gen /\ sup \notin {"reset", "dial ticker24hr", "exited"}

\* Up to its dialling, and past a failed one, this turn's book socket is closed.
BookUndialled == sup \in {"dial book", "nil send"} => ~up["book"][gen]

IInv == Shape /\ Turn /\ Past /\ Attended /\ OtherDone /\ NoneBehind /\ BookUndialled

LEMMA Streams == Stream = {"ticker24hr", "book"} /\ "ticker24hr" # "book"
BY DEF Stream

LEMMA Turns == \A g \in Gen : g \in Nat /\ g > 0 /\ g <= MaxGen /\ ~(g < g)
BY DEF Gen, GenAssumption

LEMMA SendsType == DOMAIN Sending = Sends
BY DEF Sending, Sends

LEMMA TypeParts == Shape /\ Turn => TypeOK
BY SendsType DEF Shape, Turn, TypeOK

LEMMA NextTurn ==
  ASSUME NEW n \in 0..MaxGen, n < MaxGen
  PROVE  n + 1 \in Gen /\ n + 1 \in 0..MaxGen /\ \A g \in Gen : g < n \/ g = n => g < n + 1
BY GenAssumption DEF Gen

LEMMA InitInv == Init => IInv
<1> SUFFICES ASSUME Init PROVE IInv
  OBVIOUS
<1> USE DEF Init
<1>1. \A c \in Stream, g \in Gen : ~up[c][g]
  OBVIOUS
<1>2. Past /\ Attended /\ OtherDone /\ NoneBehind
  BY <1>1 DEF Past, Attended, OtherDone, NoneBehind
<1>6. BookUndialled
  BY DEF BookUndialled
<1>3. Turn
  BY DEF Turn, Sends
<1>4. gen \in 0..MaxGen
  BY GenAssumption
<1>5. Shape
  BY <1>4 DEF Shape
<1> QED
  BY <1>2, <1>3, <1>5, <1>6 DEF IInv

\* A socket's own steps close it or bring it closer to that, and a reader
\* ends only when its socket is closed.
LEMMA SockTables ==
  ASSUME Shape, NEW c \in Stream, NEW g \in Gen, Sock(c, g) \/ Drop(c, g)
  PROVE  /\ Shape' /\ sup' = sup /\ gen' = gen
         /\ \A d \in Stream, h \in Gen :
              /\ up'[d][h] => up[d][h]
              /\ \/ watch'[d][h] = watch[d][h]
                 \/ watch[d][h] = "wait" /\ watch'[d][h] = "close"
                 \/ watch[d][h] = "close" /\ watch'[d][h] = "gone" /\ ~up'[d][h]
              /\ rd'[d][h] = "none" => rd[d][h] = "none" \/ ~up[d][h]
<1>1. CASE TakeDone(c, g)
  <2>1. /\ watch' = [watch EXCEPT ![c][g] = "close"] /\ watch[c][g] = "wait"
        /\ UNCHANGED <<sup, gen, cancelled, up, rd, data, inited>>
    BY <1>1 DEF TakeDone
  <2>2. /\ watch' \in [Stream -> [Gen -> {"none", "wait", "close", "gone"}]]
        /\ \A d \in Stream, h \in Gen :
             watch'[d][h] = IF d = c /\ h = g THEN "close" ELSE watch[d][h]
    BY <2>1 DEF Shape
  <2>3. Shape'
    BY <2>1, <2>2 DEF Shape
  <2> QED
    BY <2>1, <2>2, <2>3
<1>2. CASE Close(c, g)
  <2>1. /\ watch' = [watch EXCEPT ![c][g] = "gone"] /\ watch[c][g] = "close"
        /\ up' = [up EXCEPT ![c][g] = FALSE]
        /\ UNCHANGED <<sup, gen, cancelled, rd, data, inited>>
    BY <1>2 DEF Close
  <2>2. /\ up' \in [Stream -> [Gen -> BOOLEAN]] /\ ~up'[c][g]
        /\ \A d \in Stream, h \in Gen : up'[d][h] => up[d][h]
    BY <2>1 DEF Shape
  <2>3. /\ watch' \in [Stream -> [Gen -> {"none", "wait", "close", "gone"}]]
        /\ \A d \in Stream, h \in Gen :
             watch'[d][h] = IF d = c /\ h = g THEN "gone" ELSE watch[d][h]
    BY <2>1 DEF Shape
  <2>4. Shape'
    BY <2>1, <2>2, <2>3 DEF Shape
  <2> QED
    BY <2>1, <2>2, <2>3, <2>4
<1>3. CASE Drop(c, g)
  <2>1. /\ up' = [up EXCEPT ![c][g] = FALSE]
        /\ UNCHANGED <<sup, gen, cancelled, watch, rd, data, inited>>
    BY <1>3 DEF Drop
  <2>2. /\ up' \in [Stream -> [Gen -> BOOLEAN]] /\ ~up'[c][g]
        /\ \A d \in Stream, h \in Gen : up'[d][h] => up[d][h]
    BY <2>1 DEF Shape
  <2>3. Shape'
    BY <2>1, <2>2 DEF Shape
  <2> QED
    BY <2>1, <2>2, <2>3
<1>4. CASE Read(c, g)
  <2>1. UNCHANGED <<sup, gen, cancelled, up, watch, data, inited>>
    BY <1>4 DEF Read
  <2>2. PICK v \in {"none", "handle"} : /\ rd' = [rd EXCEPT ![c][g] = v]
                                        /\ v = "none" => ~up[c][g]
    BY <1>4 DEF Read
  <2>3. /\ rd' \in [Stream -> [Gen -> {"none", "read", "handle"}]]
        /\ \A d \in Stream, h \in Gen : rd'[d][h] = IF d = c /\ h = g THEN v ELSE rd[d][h]
    BY <2>2 DEF Shape
  <2>4. Shape'
    BY <2>1, <2>3 DEF Shape
  <2> QED
    BY <2>1, <2>2, <2>3, <2>4
<1>5. CASE Handle(c, g)
  <2>1. /\ rd' = [rd EXCEPT ![c][g] = "read"] /\ data' = [data EXCEPT ![c] = g]
        /\ UNCHANGED <<sup, gen, cancelled, up, watch>>
    BY <1>5 DEF Handle
  <2>2. inited' \in BOOLEAN
    BY <1>5 DEF Handle, Shape
  <2>3. data' \in [Stream -> Gen \cup {Nil}]
    BY <2>1 DEF Shape
  <2>4. /\ rd' \in [Stream -> [Gen -> {"none", "read", "handle"}]]
        /\ \A d \in Stream, h \in Gen : rd'[d][h] = IF d = c /\ h = g THEN "read" ELSE rd[d][h]
    BY <2>1 DEF Shape
  <2>5. Shape'
    BY <2>1, <2>2, <2>3, <2>4 DEF Shape
  <2> QED
    BY <2>1, <2>4, <2>5
<1> QED
  BY <1>1, <1>2, <1>3, <1>4, <1>5 DEF Sock

LEMMA SockStep ==
  ASSUME IInv, NEW c \in Stream, NEW g \in Gen, Sock(c, g) \/ Drop(c, g)
  PROVE  IInv'
<1> USE DEF IInv
<1>1. /\ Shape' /\ sup' = sup /\ gen' = gen
      /\ \A d \in Stream, h \in Gen :
           /\ up'[d][h] => up[d][h]
           /\ \/ watch'[d][h] = watch[d][h]
              \/ watch[d][h] = "wait" /\ watch'[d][h] = "close"
              \/ watch[d][h] = "close" /\ watch'[d][h] = "gone" /\ ~up'[d][h]
           /\ rd'[d][h] = "none" => rd[d][h] = "none" \/ ~up[d][h]
  BY SockTables
<1>2. Turn'
  <2>1. sup' = sup /\ gen' = gen /\ "ticker24hr" \in Stream
    BY <1>1, Streams
  <2>2. ASSUME NEW d \in Stream, gen \in Gen, watch[d][gen] # "none"
        PROVE  watch'[d][gen] # "none"
    BY <1>1, <2>2
  <2>3. /\ sup \in Sends \cup {"select"} => sup # "reset"
        /\ sup = "dial book" => sup # "reset"
    BY DEF Sends
  <2> QED
    BY <2>1, <2>2, <2>3, Zenon DEF Turn
<1>3. Past'
  <2> SUFFICES ASSUME NEW d \in Stream, NEW h \in Gen, up'[d][h]
               PROVE  h < gen' \/ (h = gen' /\ sup' # "dial ticker24hr")
    BY DEF Past
  <2>1. up[d][h]
    BY <1>1
  <2>2. h < gen \/ (h = gen /\ sup # "dial ticker24hr")
    BY <2>1, Zenon DEF Past
  <2> QED
    BY <1>1, <2>2, Zenon
<1>4. Attended'
  BY <1>1 DEF Attended
<1>5. OtherDone'
  BY <1>1, Streams DEF OtherDone, Turn
<1>6. NoneBehind'
  <2> SUFFICES ASSUME NEW d \in Stream, NEW h \in Gen, up'[d][h]
               PROVE  \/ watch'[d][h] = "close"
                      \/ h = gen' /\ sup' \notin {"reset", "dial ticker24hr", "exited"}
    BY DEF NoneBehind
  <2>1. up[d][h] /\ (watch[d][h] = "close" => watch'[d][h] = "close")
    BY <1>1
  <2>2. \/ watch[d][h] = "close"
        \/ h = gen /\ sup \notin {"reset", "dial ticker24hr", "exited"}
    BY <2>1, Zenon DEF NoneBehind
  <2>3. sup' = sup /\ gen' = gen
    BY <1>1
  <2> QED
    BY <2>1, <2>2, <2>3, Zenon
<1>7. BookUndialled'
  BY <1>1, Streams DEF BookUndialled, Turn
<1> QED
  BY <1>1, <1>2, <1>3, <1>4, <1>5, <1>6, <1>7

\* A dialling opens the socket of the turn.
LEMMA DialStep ==
  ASSUME IInv, NEW c \in Stream, NEW next,
         \/ sup = "dial ticker24hr" /\ c = "ticker24hr" /\ next = "dial book"
         \/ sup = "dial book" /\ c = "book" /\ next = "select",
         Dialled(c, next)
  PROVE  IInv'
<1> USE DEF IInv
<1>1. gen \in Gen
  BY DEF Turn
<1>2. /\ up' = [up EXCEPT ![c][gen] = TRUE] /\ watch' = [watch EXCEPT ![c][gen] = "wait"]
      /\ rd' = [rd EXCEPT ![c][gen] = "read"] /\ sup' = next
      /\ UNCHANGED <<gen, data, inited, cancelled>>
  BY DEF Dialled
<1>3. /\ up' \in [Stream -> [Gen -> BOOLEAN]]
      /\ \A d \in Stream, h \in Gen : (d # c \/ h # gen) => up'[d][h] = up[d][h]
  BY <1>1, <1>2 DEF Shape
<1>4. /\ watch' \in [Stream -> [Gen -> {"none", "wait", "close", "gone"}]]
      /\ \A d \in Stream, h \in Gen :
           watch'[d][h] = IF d = c /\ h = gen THEN "wait" ELSE watch[d][h]
  BY <1>1, <1>2 DEF Shape
<1>5. /\ rd' \in [Stream -> [Gen -> {"none", "read", "handle"}]]
      /\ \A d \in Stream, h \in Gen :
           rd'[d][h] = IF d = c /\ h = gen THEN "read" ELSE rd[d][h]
  BY <1>1, <1>2 DEF Shape
<1>6. Shape'
  BY <1>2, <1>3, <1>4, <1>5 DEF Shape
<1>7. Turn'
  BY <1>1, <1>2, <1>4, Streams DEF Turn, Sends
<1>8. Past'
  BY <1>1, <1>2, <1>3 DEF Past
<1>9. Attended'
  <2> SUFFICES ASSUME NEW d \in Stream, NEW h \in Gen, up'[d][h]
               PROVE  rd'[d][h] # "none" /\ watch'[d][h] \in {"wait", "close"}
    BY DEF Attended
  <2>1. CASE d = c /\ h = gen
    BY <1>4, <1>5, <2>1
  <2>2. CASE d # c \/ h # gen
    <3>1. up[d][h] /\ rd'[d][h] = rd[d][h] /\ watch'[d][h] = watch[d][h]
      BY <1>3, <1>4, <1>5, <2>2
    <3> QED
      BY <3>1, Zenon DEF Attended
  <2> QED
    BY <2>1, <2>2
<1>10. OtherDone'
  BY <1>2 DEF OtherDone
<1>11. NoneBehind'
  <2>1. ASSUME NEW d \in Stream, NEW h \in Gen, d # c \/ h # gen, up'[d][h]
        PROVE  watch'[d][h] = "close" \/ h = gen
    <3>1. up[d][h] /\ watch'[d][h] = watch[d][h]
      BY <1>3, <1>4, <2>1
    <3> QED
      BY <3>1, Zenon DEF NoneBehind
  <2> QED
    BY <1>2, <2>1 DEF NoneBehind
<1>12. BookUndialled'
  <2>1. CASE sup = "dial ticker24hr"
    <3>1. ~up["book"][gen]
      <4>1. up["book"][gen] => gen < gen
        BY <1>1, <2>1, Streams, Zenon DEF Past
      <4> QED
        BY <1>1, <4>1, Turns, Zenon
    <3> QED
      BY <1>1, <1>2, <1>3, <2>1, <3>1, Streams DEF BookUndialled
  <2>2. CASE sup = "dial book"
    BY <1>2, <2>2 DEF BookUndialled
  <2> QED
    BY <2>1, <2>2
<1> QED
  BY <1>6, <1>7, <1>8, <1>9, <1>10, <1>11, <1>12

LEMMA SendStep ==
  ASSUME IInv, SendStop
  PROVE  IInv'
<1> USE DEF IInv
<1>1. sup \in Sends /\ gen \in Gen
  BY SendsType DEF SendStop, Turn, Sends
<1>2. UNCHANGED <<gen, up, rd, data, inited, cancelled>>
  BY DEF SendStop
<1> DEFINE To == CASE sup = "cancel book" -> "book"
                   [] sup = "cancel ticker24hr" -> "ticker24hr"
                   [] sup = "stop book" -> "book"
                   [] sup = "stop ticker24hr" -> "ticker24hr"
           Then == CASE sup = "cancel book" -> "cancel ticker24hr"
                     [] sup = "cancel ticker24hr" -> "exited"
                     [] sup = "stop book" -> "reset"
                     [] sup = "stop ticker24hr" -> "reset"
<1>3. Sending[sup].to = To /\ Sending[sup].next = Then
  BY <1>1 DEF Sending, Sends, AfterBook
<1>4. /\ watch[To][gen] = "wait" /\ watch' = [watch EXCEPT ![To][gen] = "close"]
      /\ sup' = Then
  BY <1>3 DEF SendStop
<1>5. To \in Stream
  BY <1>1, Streams DEF Sends
<1>6. /\ watch' \in [Stream -> [Gen -> {"none", "wait", "close", "gone"}]]
      /\ \A d \in Stream, h \in Gen :
           watch'[d][h] = IF d = To /\ h = gen THEN "close" ELSE watch[d][h]
  <2> HIDE DEF To
  <2> QED
    BY <1>1, <1>4, <1>5 DEF Shape
<1>7. Then \in {"cancel ticker24hr", "exited", "reset"}
  BY <1>1 DEF Sends
<1>8. Shape'
  BY <1>2, <1>4, <1>6, <1>7 DEF Shape, Sends
<1>9. Turn'
  BY <1>1, <1>2, <1>4, <1>6, <1>7 DEF Turn, Sends
<1>10. Past'
  BY <1>2, <1>4, <1>7 DEF Past
<1>13. Attended'
  <2> SUFFICES ASSUME NEW d \in Stream, NEW h \in Gen, up[d][h]
               PROVE  rd[d][h] # "none" /\ watch'[d][h] \in {"wait", "close"}
    BY <1>2 DEF Attended
  <2>1. rd[d][h] # "none" /\ watch[d][h] \in {"wait", "close"}
    BY Zenon DEF Attended
  <2>2. watch'[d][h] = watch[d][h] \/ watch'[d][h] = "close"
    <3> HIDE DEF To
    <3> QED
      BY <1>6
  <2> QED
    BY <2>1, <2>2, Zenon
<1>11. OtherDone'
  BY <1>1, <1>2, <1>4, <1>6, Streams DEF OtherDone, Sends
<1>12. NoneBehind'
  <2>1. CASE sup = "cancel book"
    <3> SUFFICES ASSUME NEW d \in Stream, NEW h \in Gen, up[d][h]
                 PROVE  watch'[d][h] = "close" \/ h = gen
      BY <1>2, <1>4, <2>1 DEF NoneBehind
    <3>1. watch[d][h] = "close" \/ h = gen
      BY Zenon DEF NoneBehind
    <3>2. watch'[d][h] = watch[d][h] \/ watch'[d][h] = "close"
      <4> HIDE DEF To
      <4> QED
        BY <1>6
    <3> QED
      BY <3>1, <3>2, Zenon
  <2>2. CASE sup # "cancel book"
    <3>1. \A d \in Stream : up[d][gen] => d = To \/ watch[d][gen] = "close"
      BY <1>1, <2>2, Streams DEF OtherDone, Attended, Sends
    <3>2. \A d \in Stream, h \in Gen : up[d][h] => h = gen \/ watch[d][h] = "close"
      BY DEF NoneBehind
    <3>3. \A d \in Stream, h \in Gen : up[d][h] => watch'[d][h] = "close"
      <4> HIDE DEF To
      <4> QED
        BY <1>6, <3>1, <3>2
    <3> QED
      BY <1>2, <3>3 DEF NoneBehind
  <2> QED
    BY <2>1, <2>2
<1>14. BookUndialled'
  BY <1>4, <1>7 DEF BookUndialled
<1> QED
  BY <1>8, <1>9, <1>10, <1>11, <1>12, <1>13, <1>14

LEMMA InvStep == IInv /\ [Next]_vars => IInv'
<1> SUFFICES ASSUME IInv, [Next]_vars PROVE IInv'
  OBVIOUS
<1> USE DEF IInv
<1>1. CASE Reset
  <2>1. /\ sup = "reset" /\ gen < MaxGen /\ gen' = gen + 1 /\ sup' = "dial ticker24hr"
        /\ data' = [c \in Stream |-> Nil] /\ UNCHANGED <<up, watch, rd, inited, cancelled>>
    BY <1>1 DEF Reset
  <2>2. /\ gen' \in Gen /\ gen' \in 0..MaxGen
        /\ \A g \in Gen : g < gen \/ g = gen => g < gen'
    <3>1. gen \in 0..MaxGen
      BY DEF Shape
    <3> QED
      BY <2>1, <3>1, NextTurn, Zenon
  <2>3. Shape'
    BY <2>1, <2>2 DEF Shape
  <2>4. Turn'
    BY <2>1, <2>2 DEF Turn, Sends
  <2>5. Past'
    <3> SUFFICES ASSUME NEW c \in Stream, NEW g \in Gen, up'[c][g] PROVE g < gen'
      BY DEF Past
    <3>1. up[c][g]
      BY <2>1
    <3> QED
      BY <2>2, <3>1, Zenon DEF Past
  <2>6. Attended' /\ OtherDone' /\ NoneBehind' /\ BookUndialled'
    BY <2>1 DEF Attended, OtherDone, NoneBehind, BookUndialled
  <2> QED
    BY <2>3, <2>4, <2>5, <2>6
<1>2. CASE DialTicker24hr \/ DialBook
  BY <1>2, DialStep, Streams DEF DialTicker24hr, DialBook
<1>3. CASE SelectStep
  <2>1. /\ sup = "select" /\ UNCHANGED <<gen, up, watch, rd, data, inited, cancelled>>
        /\ \/ sup' = "cancel book"
           \/ rd["book"][gen] = "none" /\ sup' = "stop ticker24hr"
           \/ rd["ticker24hr"][gen] = "none" /\ sup' = "stop book"
    BY <1>3 DEF SelectStep, Select
  <2>2. gen \in Gen
    BY <2>1 DEF Turn
  <2>3. Shape' /\ Turn'
    BY <2>1, <2>2 DEF Shape, Turn, Sends
  <2>4. Past' /\ Attended' /\ BookUndialled'
    BY <2>1 DEF Past, Attended, BookUndialled
  <2>5. OtherDone' /\ NoneBehind'
    BY <2>1, <2>2, Streams DEF Attended, OtherDone, NoneBehind
  <2> QED
    BY <2>3, <2>4, <2>5
<1>4. CASE SendStop
  BY <1>4, SendStep
<1>5. CASE DialError
  <2>1. /\ \/ sup = "dial ticker24hr" /\ sup' = "reset"
           \/ sup = "dial book" /\ sup' = "nil send"
        /\ UNCHANGED <<gen, up, watch, rd, data, inited, cancelled>>
    BY <1>5 DEF DialError, BookError
  <2>2. gen \in Gen
    BY <2>1 DEF Turn
  <2>3. Shape' /\ Turn'
    BY <2>1, <2>2 DEF Shape, Turn, Sends
  <2>4. Past' /\ Attended' /\ OtherDone' /\ BookUndialled'
    BY <2>1 DEF Past, Attended, OtherDone, BookUndialled
  <2>5. NoneBehind'
    BY <2>1, <2>2, Turns DEF Past, NoneBehind
  <2> QED
    BY <2>3, <2>4, <2>5
<1>6. CASE Stop
  BY <1>6 DEF Stop, Shape, Turn, Past, Attended, OtherDone, NoneBehind, BookUndialled
<1>7. ASSUME NEW c \in Stream, NEW g \in Gen, Sock(c, g) \/ Drop(c, g) PROVE IInv'
  BY <1>7, SockStep
<1>8. CASE UNCHANGED vars
  BY <1>8 DEF vars, Shape, Turn, Past, Attended, OtherDone, NoneBehind,
                 BookUndialled
<1> QED
  BY <1>1, <1>2, <1>3, <1>4, <1>5, <1>6, <1>7, <1>8 DEF Next, Sup

LEMMA Inductive == Spec => []IInv
  BY InitInv, InvStep, PTL DEF Spec

\* The supervisor's and the sockets' states keep their types, and what the
\* supervisor selects or sends on was dialled in the same turn.
THEOREM TickerTypeCorrect == Spec => []TypeOK
<1>1. IInv => TypeOK
  BY TypeParts DEF IInv
<1> QED
  BY Inductive, <1>1, PTL

\* A socket that nobody is left to close is the statistics' one of the turn
\* the supervisor is stuck in.
LEMMA OnlyStuck == IInv => LeaksOnlyStuck
<1> SUFFICES ASSUME IInv, NEW c \in Stream, NEW g \in Gen, up[c][g], watch[c][g] # "close"
             PROVE  Closable(c, g) \/ (Stuck /\ c = "ticker24hr" /\ g = gen)
  BY DEF LeaksOnlyStuck, Closable
<1> USE DEF IInv
<1>1. g = gen /\ sup \notin {"reset", "dial ticker24hr", "exited"}
  BY Zenon DEF NoneBehind
<1>2. watch[c][g] = "wait"
  BY DEF Attended
<1>3. CASE Stuck
  <2>1. c # "book"
    BY <1>1, <1>2, <1>3 DEF Stuck, BookUndialled
  <2> QED
    BY <1>1, <1>3, <2>1, Streams
<1>4. CASE ~Stuck
  <2>1. CASE sup \in {"dial book", "select", "cancel book"}
    BY <1>1, <1>4, <2>1 DEF Closable
  <2>2. CASE sup \in Sends \ {"cancel book"}
    <3>1. c = IF sup = "stop book" THEN "book" ELSE "ticker24hr"
      BY <1>1, <1>2, <2>2, Streams DEF OtherDone, Sends
    <3>2. sup \in DOMAIN Sending /\ Sending[sup].to = c
      BY <2>2, <3>1 DEF Sending, Sends
    <3> QED
      BY <1>1, <1>4, <3>2 DEF Closable
  <2> QED
    BY <1>1, <1>4, <2>1, <2>2 DEF Shape, Stuck
<1> QED
  BY <1>3, <1>4

\* However two sockets are lost, stopped and dialled anew: the one a turn may
\* leave open with nobody to close it is the statistics' one, and then the
\* supervisor is stuck in that turn, at one of the two places TickerSrv names.
THEOREM TickerLeaksOnlyStuck == Spec => []LeaksOnlyStuck
  BY Inductive, OnlyStuck, PTL
=============================================================================
