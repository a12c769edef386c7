--------------------------- MODULE KlinesProofs ---------------------------
(* The kline cache for candles of any length, lists of any length, any     *)
(* number of updates and any number of events under way.                   *)
EXTENDS KlinesHandler, TLAPS

Loading == {"init", "wait", "fetch", "reply"}

\* The reader has the connection's first event behind it.
Tracked == list # Nil \/ rd \in Loading

\* No event is missed between the one handled, those under way and, on an
\* open socket, the exchange's latest update.
Stream ==
  /\ ev <= cur /\ \A i \in DOMAIN queue : queue[i] <= cur
  /\ \A i \in DOMAIN queue : i + 1 \in DOMAIN queue => queue[i + 1] \in {queue[i], queue[i] + 1}
  /\ up /\ queue # <<>> => queue[Len(queue)] = cur
  /\ Tracked => (IF queue # <<>> THEN queue[1] \in {ev, ev + 1} ELSE up => ev = cur)

\* The REST answer is no older than the event it is fetched for, nor than
\* what was shown before the connection.
Answer ==
  /\ snap <= cur
  /\ rd = "reply" => ev <= snap /\ (arr # <<>> => Last(arr) <= snap)

\* The list is the exchange's as of one update, which the event being
\* handled continues, or has become.
Loaded ==
  list \notin {Nil, <<>>} =>
    /\ list = Cache!Window(Last(list)) /\ Last(list) <= cur
    /\ OpenTime(ev) > OpenTime(Last(list)) => ev = Last(list) + 1
    /\ rd # "merge" => ev = Last(list) \/ OpenTime(ev) < OpenTime(Last(list))
    /\ arr # <<>> => OpenTime(Last(list)) >= OpenTime(Last(arr))

\* So is what was shown.
Shown == arr # <<>> => arr = Cache!Window(Last(arr)) /\ Last(arr) <= cur

\* A connection starts without a list, and only a merge meets an empty one.
Started == (sup = "connect" => list = Nil) /\ (list = <<>> => rd = "merge")

IInv == /\ TypeOK /\ OneWriter /\ ServedOnceReady
        /\ Stream /\ Answer /\ Loaded /\ Shown /\ Started

-----------------------------------------------------------------------------
(* Candles.                                                                *)

LEMMA Division ==
  ASSUME NEW u \in Nat, NEW p \in Nat \ {0}
  PROVE  /\ u \div p \in Nat /\ (u \div p) * p <= u /\ u < (u \div p) * p + p
  OBVIOUS

LEMMA Monotone ==
  ASSUME NEW u \in Nat, NEW v \in Nat, NEW p \in Nat \ {0}, u <= v
  PROVE  u \div p <= v \div p
  OBVIOUS

LEMMA Closing ==
  ASSUME NEW o \in Nat, NEW p \in Nat \ {0}
  PROVE  o * p + p - 1 \in Nat /\ (o * p + p - 1) \div p = o
  OBVIOUS

LEMMA Earlier ==
  ASSUME NEW u \in Nat, NEW p \in Nat \ {0}, NEW o \in Nat, o < u \div p
  PROVE  o * p + p - 1 < u
  OBVIOUS

LEMMA Following ==
  ASSUME NEW u \in Nat, NEW p \in Nat \ {0}, (u + 1) \div p > u \div p
  PROVE  (u + 1) \div p = u \div p + 1 /\ u = (u \div p) * p + p - 1
  OBVIOUS

LEMMA OpenTimes ==
  ASSUME NEW u \in Nat, NEW v \in Nat
  PROVE  /\ OpenTime(u) \in Nat
         /\ u <= v => OpenTime(u) <= OpenTime(v)
         /\ OpenTime(u + 1) <= OpenTime(u) + 1
         /\ OpenTime(u + 1) > OpenTime(u) => u = Cache!Final(OpenTime(u))
<1>1. PerCandle \in Nat \ {0}
  BY KlinesAssumption
<1>2. OpenTime(u) \in Nat
  BY <1>1, Division DEF OpenTime, Cache!OpenTime
<1>3. u <= v => OpenTime(u) <= OpenTime(v)
  BY <1>1, Monotone DEF OpenTime, Cache!OpenTime
<1>4. OpenTime(u) <= OpenTime(u + 1)
  BY <1>1, Monotone DEF OpenTime, Cache!OpenTime
<1>5. OpenTime(u + 1) > OpenTime(u) =>
        OpenTime(u + 1) = OpenTime(u) + 1 /\ u = Cache!Final(OpenTime(u))
  BY <1>1, Following DEF OpenTime, Cache!OpenTime, Cache!Final
<1>6. OpenTime(u + 1) \in Nat
  BY <1>1, Division DEF OpenTime, Cache!OpenTime
<1> QED
  BY <1>2, <1>3, <1>4, <1>5, <1>6

LEMMA Finals ==
  ASSUME NEW o \in Nat
  PROVE  /\ Cache!Final(o) \in Nat /\ OpenTime(Cache!Final(o)) = o
         /\ \A u \in Nat : o < OpenTime(u) => Cache!Final(o) < u
<1>1. PerCandle \in Nat \ {0}
  BY KlinesAssumption
<1>2. Cache!Final(o) \in Nat /\ OpenTime(Cache!Final(o)) = o
  BY <1>1, Closing DEF OpenTime, Cache!OpenTime, Cache!Final
<1>3. \A u \in Nat : o < OpenTime(u) => Cache!Final(o) < u
  BY <1>1, Earlier DEF OpenTime, Cache!OpenTime, Cache!Final
<1> QED
  BY <1>2, <1>3

-----------------------------------------------------------------------------
(* The exchange's candles.                                                 *)

Size(u) == IF OpenTime(u) + 1 < Limit THEN OpenTime(u) + 1 ELSE Limit

LEMMA Windows ==
  ASSUME NEW u \in Nat
  PROVE  /\ Size(u) \in 1..Limit /\ Size(u) <= OpenTime(u) + 1
         /\ Cache!Window(u) \in Seq(0..u)
         /\ Len(Cache!Window(u)) = Size(u) /\ Last(Cache!Window(u)) = u
         /\ \A i \in 1..Size(u) :
              Cache!Window(u)[i] = IF i = Size(u) THEN u
                                   ELSE Cache!Final(OpenTime(u) - Size(u) + i)
         /\ \A i \in 1..Size(u) : OpenTime(Cache!Window(u)[i]) = OpenTime(u) - Size(u) + i
<1>1. Limit \in Nat \ {0} /\ OpenTime(u) \in Nat
  BY OpenTimes, KlinesAssumption
<1>2. Size(u) \in 1..Limit /\ Size(u) <= OpenTime(u) + 1
  BY <1>1 DEF Size
<1>3. Cache!Window(u) = [i \in 1..Size(u) |-> IF i = Size(u) THEN u
                                   ELSE Cache!Final(OpenTime(u) - Size(u) + i)]
  BY DEF Cache!Window, Size, OpenTime
<1>4. \A i \in 1..Size(u) : i # Size(u) =>
        OpenTime(u) - Size(u) + i \in Nat /\ OpenTime(u) - Size(u) + i < OpenTime(u)
  BY <1>1, <1>2
<1>5. \A i \in 1..Size(u) : i # Size(u) =>
        /\ Cache!Final(OpenTime(u) - Size(u) + i) \in 0..u
        /\ OpenTime(Cache!Final(OpenTime(u) - Size(u) + i)) = OpenTime(u) - Size(u) + i
  BY <1>4, Finals
<1>6. \A i \in 1..Size(u) : Cache!Window(u)[i] = IF i = Size(u) THEN u
                                   ELSE Cache!Final(OpenTime(u) - Size(u) + i)
  BY <1>3
<1>7. Size(u) \in 1..Size(u) /\ Size(u) \in Nat
  BY <1>1, <1>2
<1>8. \A i \in 1..Size(u) : Cache!Window(u)[i] \in 0..u
  BY <1>5, <1>6
<1>9. Cache!Window(u) \in Seq(0..u) /\ Len(Cache!Window(u)) = Size(u)
  BY <1>3, <1>7, <1>8
<1>10. Last(Cache!Window(u)) = u
  BY <1>6, <1>7, <1>9 DEF Last
<1>11. \A i \in 1..Size(u) : OpenTime(Cache!Window(u)[i]) = OpenTime(u) - Size(u) + i
  BY <1>1, <1>2, <1>5, <1>6
<1> QED
  BY <1>2, <1>6, <1>9, <1>10, <1>11

LEMMA Shapes ==
  ASSUME NEW u \in Nat
  PROVE  /\ Size(u) \in Nat \ {0} /\ Size(u) <= Limit /\ Limit \in Nat
         /\ Cache!Window(u) \in Seq(Nat) /\ Len(Cache!Window(u)) = Size(u)
         /\ Cache!Window(u)[Size(u)] = u
<1>1. Size(u) \in Nat \ {0} /\ Size(u) <= Limit /\ Limit \in Nat
  BY Windows, KlinesAssumption
<1>2. Cache!Window(u) \in Seq(0..u) /\ Len(Cache!Window(u)) = Size(u)
  BY Windows
<1>3. Cache!Window(u) \in Seq(Nat)
  BY <1>2
<1>4. Size(u) \in 1..Size(u)
  BY <1>1
<1>5. Cache!Window(u)[Size(u)] = u
  BY <1>4, Windows
<1> QED
  BY <1>1, <1>2, <1>3, <1>5

\* The same candle's later (or late) update replaces it.
LEMMA Replaces ==
  ASSUME NEW u \in Nat, NEW v \in Nat, OpenTime(u) = OpenTime(v)
  PROVE  [Cache!Window(u) EXCEPT ![Len(Cache!Window(u))] = v] = Cache!Window(v)
<1>1. Size(u) = Size(v)
  BY DEF Size
<1>2. Cache!Window(u) \in Seq(Nat) /\ Cache!Window(v) \in Seq(Nat)
  BY Shapes
<1>3. Len(Cache!Window(u)) = Size(u) /\ Len(Cache!Window(v)) = Size(u)
  BY Shapes, <1>1
<1>4. \A i \in 1..Size(u) : i # Size(u) => Cache!Window(u)[i] = Cache!Window(v)[i]
  BY <1>1, Windows
<1>5. Size(u) \in 1..Size(u) /\ Cache!Window(v)[Size(u)] = v
  <2>1. Size(u) \in Nat \ {0} /\ Cache!Window(v)[Size(v)] = v
    BY Shapes
  <2>2. Size(u) \in 1..Size(u)
    BY <2>1
  <2> QED
    BY <1>1, <2>1, <2>2, Zenon
<1> DEFINE e == [Cache!Window(u) EXCEPT ![Size(u)] = v]
<1>6. e \in Seq(Nat) /\ Len(e) = Size(u)
  BY <1>2, <1>3, <1>5
<1>7. \A i \in 1..Size(u) : e[i] = Cache!Window(v)[i]
  BY <1>2, <1>3, <1>4, <1>5
<1>8. e = Cache!Window(v)
  BY <1>2, <1>3, <1>6, <1>7
<1> QED
  BY <1>3, <1>8

LEMMA SameElements ==
  ASSUME NEW s \in Seq(Nat), NEW t \in Seq(Nat), Len(s) = Len(t),
         \A i \in 1..Len(s) : s[i] = t[i]
  PROVE  s = t
  OBVIOUS

LEMMA Suffix ==
  ASSUME NEW s \in Seq(Nat), NEW m \in 1..Len(s)
  PROVE  /\ SubSeq(s, m, Len(s)) \in Seq(Nat)
         /\ Len(SubSeq(s, m, Len(s))) = Len(s) - m + 1
         /\ \A i \in 1..(Len(s) - m + 1) : SubSeq(s, m, Len(s))[i] = s[m - 1 + i]
<1>1. Len(s) \in Nat /\ m \in Nat /\ m >= 1 /\ m <= Len(s)
  OBVIOUS
<1>2. SubSeq(s, m, Len(s)) \in Seq(Nat) /\ Len(SubSeq(s, m, Len(s))) = Len(s) - m + 1
  BY <1>1
<1>3. \A i \in 1..(Len(s) - m + 1) : SubSeq(s, m, Len(s))[i] = s[m + i - 1]
  BY <1>1
<1>4. \A i \in 1..(Len(s) - m + 1) : m + i - 1 = m - 1 + i
  BY <1>1
<1> QED
  BY <1>2, <1>3, <1>4

\* The next candle's first update is appended, and the oldest candle goes.
LEMMA Extends ==
  ASSUME NEW u \in Nat, OpenTime(u + 1) > OpenTime(u)
  PROVE  Trim(Append(Cache!Window(u), u + 1)) = Cache!Window(u + 1)
<1> DEFINE v == u + 1
           a == Append(Cache!Window(u), v)
           first == IF Len(a) > Limit THEN Len(a) - Limit + 1 ELSE 1
<1>1. v \in Nat /\ OpenTime(u) \in Nat /\ Limit \in Nat \ {0}
  BY OpenTimes, KlinesAssumption
<1>2. OpenTime(v) = OpenTime(u) + 1 /\ u = Cache!Final(OpenTime(u))
  BY <1>1, OpenTimes
<1>3. Cache!Window(u) \in Seq(Nat) /\ Len(Cache!Window(u)) = Size(u) /\ Size(u) \in Nat
  BY Shapes
<1>4. a \in Seq(Nat) /\ Len(a) = Size(u) + 1
  BY <1>1, <1>3
<1>5. /\ \A i \in 1..Size(u) : a[i] = Cache!Window(u)[i]
      /\ a[Size(u) + 1] = v
  BY <1>1, <1>3
<1>6. \A i \in 1..Size(u) : a[i] = Cache!Final(OpenTime(u) - Size(u) + i)
  <2> SUFFICES ASSUME NEW i \in 1..Size(u) PROVE a[i] = Cache!Final(OpenTime(u) - Size(u) + i)
    OBVIOUS
  <2>1. CASE i = Size(u)
    <3>1. OpenTime(u) - Size(u) + i = OpenTime(u)
      BY <1>1, <1>3, <2>1
    <3> QED
      BY <1>2, <1>5, <2>1, <3>1, Windows
  <2>2. CASE i # Size(u)
    BY <1>5, <2>2, Windows
  <2> QED
    BY <2>1, <2>2
<1>7. Cache!Window(v) \in Seq(Nat) /\ Len(Cache!Window(v)) = Size(v) /\ Size(v) \in Nat
  BY <1>1, Shapes
<1>8. Size(v) = Size(u) + 1 - (first - 1) /\ first \in 1..Len(a)
  BY <1>1, <1>2, <1>4 DEF Size
<1> HIDE DEF a, first
<1>9. Trim(a) = SubSeq(a, first, Len(a))
  BY DEF Trim, first
<1>10. /\ Trim(a) \in Seq(Nat) /\ Len(Trim(a)) = Len(a) - first + 1
      /\ \A i \in 1..(Len(a) - first + 1) : Trim(a)[i] = a[first - 1 + i]
  BY <1>4, <1>8, <1>9, Suffix
<1>11. Len(a) - first + 1 = Size(v)
  BY <1>3, <1>4, <1>8
<1>12. \A i \in 1..Size(v) : Trim(a)[i] = Cache!Window(v)[i]
  <2> SUFFICES ASSUME NEW i \in 1..Size(v) PROVE Trim(a)[i] = Cache!Window(v)[i]
    OBVIOUS
  <2>1. CASE i = Size(v)
    <3>1. first - 1 + i = Size(u) + 1
      BY <1>3, <1>4, <1>8, <2>1
    <3>2. Cache!Window(v)[i] = v
      BY <1>1, <2>1, Windows
    <3> QED
      BY <1>5, <1>10, <1>11, <3>1, <3>2
  <2>2. CASE i # Size(v)
    <3>1. first - 1 + i \in 1..Size(u)
      BY <1>3, <1>4, <1>8, <1>7, <2>2
    <3>2. OpenTime(u) - Size(u) + (first - 1 + i) = OpenTime(v) - Size(v) + i
      BY <1>1, <1>2, <1>3, <1>4, <1>8
    <3>3. Cache!Window(v)[i] = Cache!Final(OpenTime(v) - Size(v) + i)
      BY <1>1, <2>2, Windows
    <3> QED
      BY <1>6, <1>10, <1>11, <3>1, <3>2, <3>3
  <2> QED
    BY <2>1, <2>2
<1>13. Trim(a) \in Seq(Nat) /\ Len(Trim(a)) = Size(v)
  BY <1>10, <1>11
<1>14. Len(Trim(a)) = Len(Cache!Window(v))
  BY <1>7, <1>13
<1>15. \A i \in 1..Len(Trim(a)) : Trim(a)[i] = Cache!Window(v)[i]
  BY <1>12, <1>13, Zenon
<1>16. Trim(a) = Cache!Window(v)
  BY <1>7, <1>13, <1>14, <1>15, SameElements, Zenon
<1> QED
  BY <1>16 DEF a

LEMMA Trimmed ==
  ASSUME NEW u \in Nat
  PROVE  Trim(Cache!Window(u)) = Cache!Window(u)
<1> DEFINE w == Cache!Window(u)
<1>1. w \in Seq(Nat) /\ Len(w) <= Limit /\ Limit \in Nat /\ Len(w) \in Nat \ {0}
  BY Shapes
<1> HIDE DEF w
<1>2. Trim(w) = SubSeq(w, 1, Len(w))
  <2>1. ~(Len(w) > Limit)
    BY <1>1
  <2> QED
    BY <2>1, Zenon DEF Trim
<1>3. Trim(w) = w
  BY <1>1, <1>2
<1> QED
  BY <1>3 DEF w

\* A merge keeps the list the exchange's, as of the event or as it was.
LEMMA Merges ==
  ASSUME NEW u \in Nat, NEW e \in Nat, OpenTime(e) > OpenTime(u) => e = u + 1
  PROVE  Trim(MergeInto(Cache!Window(u), e)) =
           Cache!Window(IF OpenTime(e) < OpenTime(u) THEN u ELSE e)
<1>1. Last(Cache!Window(u)) = u /\ OpenTime(u) \in Nat /\ OpenTime(e) \in Nat
  BY Windows, OpenTimes
<1>2. CASE OpenTime(u) < OpenTime(e)
  <2>1. MergeInto(Cache!Window(u), e) = Append(Cache!Window(u), e) /\ e = u + 1
    BY <1>1, <1>2 DEF MergeInto
  <2> QED
    BY <1>1, <1>2, <2>1, Extends
<1>3. CASE OpenTime(u) = OpenTime(e)
  <2>1. MergeInto(Cache!Window(u), e) = Cache!Window(e)
    BY <1>1, <1>3, Replaces DEF MergeInto
  <2> QED
    BY <1>1, <1>3, <2>1, Trimmed
<1>4. CASE OpenTime(u) > OpenTime(e)
  BY <1>1, <1>4, Trimmed DEF MergeInto
<1> QED
  BY <1>1, <1>2, <1>3, <1>4

-----------------------------------------------------------------------------
(* The invariant.                                                          *)

USE KlinesAssumption
USE DEF Update, sock, data, handler

LEMMA Empty == <<>> \in Seq(Update) /\ <<>> # Nil
<1>1. <<>> \in Seq(Update) /\ <<>> \in Seq(Nat)
  OBVIOUS
<1> QED
  BY <1>1

LEMMA InitInv == Init => IInv
<1> SUFFICES ASSUME Init PROVE IInv
  OBVIOUS
<1> USE DEF Init
<1>1. TypeOK
  <2>1. <<>> \in Seq(Update)
    OBVIOUS
  <2>2. cur \in Update /\ ev \in Update /\ snap \in Update
    OBVIOUS
  <2>3. {watch, up, inited, cancelled, crashed} \subseteq BOOLEAN
    OBVIOUS
  <2>4. queue \in Seq(Update) /\ arr \in Seq(Update) /\ list = Nil
    BY <2>1
  <2>5. sup = "reset" /\ rd = "none"
    OBVIOUS
  <2> QED
    BY <2>2, <2>3, <2>4, <2>5 DEF TypeOK
<1>2. list = Nil /\ Nil # <<>> /\ arr = <<>> /\ queue = <<>> /\ rd = "none"
  <2>1. <<>> \in Seq(Nat)
    OBVIOUS
  <2> QED
    BY <2>1
<1>3. OneWriter /\ ServedOnceReady /\ Started
  BY <1>2 DEF OneWriter, ServedOnceReady, FromCache, Started
<1>4. Stream /\ Answer /\ Loaded /\ Shown
  BY <1>2 DEF Stream, Tracked, Loading, Answer, Loaded, Shown
<1> QED
  BY <1>1, <1>3, <1>4 DEF IInv

\* A socket that closes loses the end of what it still held.
LEMMA CloseKeeps ==
  ASSUME TypeOK, Stream, Close
  PROVE  /\ up' = FALSE /\ queue' \in Seq(Update) /\ Len(queue') <= Len(queue)
         /\ \A i \in DOMAIN queue' : i \in DOMAIN queue /\ queue'[i] = queue[i]
<1>1. PICK n \in 0..Len(queue) : queue' = SubSeq(queue, 1, n)
  BY DEF Close
<1>2. queue \in Seq(Update)
  BY DEF TypeOK
<1> QED
  BY <1>1, <1>2 DEF Close

LEMMA PushKeeps ==
  ASSUME NEW q \in Seq(Update), NEW u \in Update
  PROVE  /\ Append(q, u) \in Seq(Update) /\ Len(Append(q, u)) = Len(q) + 1
         /\ Append(q, u)[Len(q) + 1] = u /\ Append(q, u) # <<>>
         /\ \A i \in DOMAIN q : Append(q, u)[i] = q[i]
         /\ \A i \in DOMAIN Append(q, u) : i = Len(q) + 1 \/ i \in DOMAIN q
  OBVIOUS

LEMMA ReadKeeps ==
  ASSUME NEW q \in Seq(Update), q # <<>>
  PROVE  /\ Tail(q) \in Seq(Update) /\ Head(q) \in Update /\ Head(q) = q[1]
         /\ Len(Tail(q)) = Len(q) - 1 /\ 1 \in DOMAIN q
         /\ \A i \in DOMAIN Tail(q) : i + 1 \in DOMAIN q /\ Tail(q)[i] = q[i + 1]
  OBVIOUS

\* The list stays typed because it is the exchange's.
LEMMA WindowType ==
  ASSUME NEW u \in Nat, u <= cur, cur \in Update
  PROVE  /\ Cache!Window(u) \in Seq(Update) /\ Cache!Window(u) \in Seq(Nat)
         /\ Cache!Window(u) # <<>> /\ Cache!Window(u) # Nil
<1>1. Cache!Window(u) \in Seq(0..u) /\ Len(Cache!Window(u)) = Size(u) /\ Size(u) \in 1..Limit
  BY Windows
<1>2. Cache!Window(u) \in Seq(Nat) /\ Cache!Window(u) \in Seq(Update)
  BY <1>1
<1>3. Cache!Window(u) # <<>>
  BY <1>1
<1> QED
  BY <1>2, <1>3

\* The update a merge leaves the list at.
Merged == IF OpenTime(ev) < OpenTime(Last(list)) THEN Last(list) ELSE ev

LEMMA MergeKeeps ==
  ASSUME IInv, Merge
  PROVE  /\ Merged \in Nat /\ Merged <= cur
         /\ list' = Cache!Window(Merged) /\ Last(list') = Merged
         /\ OpenTime(Last(list)) <= OpenTime(Merged)
         /\ ~(OpenTime(ev) > OpenTime(Merged))
         /\ ev = Merged \/ OpenTime(ev) < OpenTime(Merged)
<1>1. list \notin {Nil, <<>>} /\ ev \in Nat /\ ev <= cur /\ cur \in Nat
  BY DEF IInv, TypeOK, Merge, Stream
<1> DEFINE w == Last(list)
<1>2. w \in Nat
  <2>1. list \in Seq(Update)
    BY <1>1 DEF IInv, TypeOK
  <2> QED
    BY <1>1, <2>1 DEF Last
<1>3. list = Cache!Window(w) /\ w <= cur /\ (OpenTime(ev) > OpenTime(w) => ev = w + 1)
  BY <1>1 DEF IInv, Loaded
<1>4. list' = Cache!Window(Merged)
  <2>1. list' = Trim(MergeInto(list, ev))
    BY DEF Merge
  <2>2. Trim(MergeInto(Cache!Window(w), ev)) = Cache!Window(Merged)
    BY <1>1, <1>2, <1>3, Merges DEF Merged
  <2> QED
    BY <1>3, <2>1, <2>2, Zenon
<1>5. OpenTime(w) \in Nat /\ OpenTime(ev) \in Nat
  BY <1>1, <1>2, OpenTimes
<1>6. Merged \in Nat /\ Merged <= cur
  BY <1>1, <1>2, <1>3 DEF Merged
<1>7. Last(list') = Merged
  BY <1>4, <1>6, Windows
<1> QED
  BY <1>4, <1>5, <1>6, <1>7 DEF Merged

\* The types, and who writes the list.
LEMMA BaseStep ==
  ASSUME IInv, Next
  PROVE  TypeOK' /\ OneWriter' /\ Started' /\ ServedOnceReady'
<1> USE DEF IInv, TypeOK, OneWriter, Started, ServedOnceReady, FromCache
<1>1. CASE Advance
  <2>1. cur' \in Update
    BY <1>1 DEF Advance
  <2>2. queue' \in Seq(Update)
    <3>1. cur + 1 \in Update
      BY <2>1, <1>1 DEF Advance
    <3>2. Append(queue, cur + 1) \in Seq(Update)
      BY <3>1, PushKeeps
    <3> QED
      BY <1>1, <3>2 DEF Advance
  <2> QED
    BY <1>1, <2>1, <2>2 DEF Advance
<1>2. CASE Repeat
  BY <1>2 DEF Repeat
<1>3. CASE Drop
  BY <1>3, CloseKeeps DEF Drop
<1>4. CASE Stop
  BY <1>4 DEF Stop
<1>5. CASE Reset
  BY <1>5, Empty DEF Reset, NewList, ArrKept
<1>6. CASE Connect
  BY <1>6 DEF Connect
<1>7. CASE ConnectError
  BY <1>7 DEF ConnectError
<1>8. CASE SelectDone
  BY <1>8 DEF SelectDone, DoneClosed
<1>9. CASE SelectCancel
  BY <1>9 DEF SelectCancel, TellWatcher
<1>10. CASE WatchStop
  BY <1>10, CloseKeeps DEF WatchStop
<1>11. CASE WatchDone
  BY <1>11, CloseKeeps DEF WatchDone
<1>12. CASE Read
  BY <1>12, ReadKeeps DEF Read, Entry
<1>13. CASE ReadError
  BY <1>13 DEF ReadError
<1>14. CASE BanCheck
  <2>1. CASE Goto("wait")
    BY <1>14, <2>1 DEF BanCheck, Goto
  <2>2. CASE InitWith(<<>>)
    BY <1>14, <2>2, Empty DEF BanCheck, InitWith
  <2> QED
    BY <1>14, <2>1, <2>2 DEF BanCheck
<1>15. CASE RateWait
  BY <1>15 DEF RateWait, Goto
<1>16. CASE Serve
  BY <1>16 DEF Serve
<1>17. CASE ReplyOK
  BY <1>17, WindowType DEF ReplyOK, InitWith, Answer
<1>18. CASE ReplyError
  <2>1. CASE Goto("init")
    BY <1>18, <2>1 DEF ReplyError, Goto
  <2>2. CASE InitWith(<<>>)
    BY <1>18, <2>2, Empty DEF ReplyError, InitWith
  <2> QED
    BY <1>18, <2>1, <2>2 DEF ReplyError
<1>19. CASE Merge
  BY <1>19, MergeKeeps, WindowType DEF Merge
<1>20. CASE MergeEmpty
  BY <1>20 DEF MergeEmpty
<1>21. CASE Publish
  BY <1>21 DEF Publish
<1> QED
  BY <1>1, <1>2, <1>3, <1>4, <1>5, <1>6, <1>7, <1>8, <1>9, <1>10, <1>11, <1>12,
     <1>13, <1>14, <1>15, <1>16, <1>17, <1>18, <1>19, <1>20, <1>21 DEF Next, Sup, Handle

\* What is under way.  Only the exchange, the network and Read change the
\* queue; a connection and the end of a load change whether it counts.
LEMMA StreamStep ==
  ASSUME IInv, Next
  PROVE  Stream'
<1>0. /\ queue \in Seq(Update) /\ cur \in Nat /\ ev \in Nat /\ Len(queue) \in Nat
      /\ \A i \in DOMAIN queue : queue[i] \in Nat
  BY DEF IInv, TypeOK
<1>00. Stream
  BY DEF IInv
<1>1. CASE Advance
  <2>1. CASE up
    <3>1. queue' = Append(queue, cur + 1) /\ cur' = cur + 1 /\ cur + 1 \in Update
      BY <1>0, <1>1, <2>1 DEF Advance
    <3>2. /\ Len(queue') = Len(queue) + 1 /\ queue'[Len(queue) + 1] = cur + 1
          /\ queue' # <<>> /\ DOMAIN queue' = 1..(Len(queue) + 1)
          /\ \A i \in DOMAIN queue : queue'[i] = queue[i]
      BY <1>0, <3>1, PushKeeps
    <3>3. \A i \in DOMAIN queue' : queue'[i] <= cur'
      BY <1>0, <1>00, <3>1, <3>2 DEF Stream
    <3>4. \A i \in DOMAIN queue' : i + 1 \in DOMAIN queue' => queue'[i + 1] \in {queue'[i], queue'[i] + 1}
      <4> SUFFICES ASSUME NEW i \in DOMAIN queue', i + 1 \in DOMAIN queue'
                   PROVE  queue'[i + 1] \in {queue'[i], queue'[i] + 1}
        OBVIOUS
      <4>1. i \in DOMAIN queue
        BY <1>0, <3>2
      <4>2. CASE i + 1 \in DOMAIN queue
        BY <1>00, <3>2, <4>1, <4>2 DEF Stream
      <4>3. CASE i + 1 \notin DOMAIN queue
        <5>1. i = Len(queue) /\ queue # <<>>
          BY <1>0, <4>1, <4>3
        <5> QED
          BY <1>00, <2>1, <3>2, <4>1, <5>1 DEF Stream
      <4> QED
        BY <4>2, <4>3
    <3>5. Tracked => queue'[1] \in {ev, ev + 1}
      <4>1. CASE queue = <<>>
        <5>1. Len(queue) = 0
          BY <4>1
        <5> QED
          BY <1>00, <2>1, <3>2, <4>1, <5>1 DEF Stream
      <4>2. CASE queue # <<>>
        <5>1. 1 \in DOMAIN queue
          BY <1>0, <4>2
        <5> QED
          BY <1>00, <3>2, <4>2, <5>1 DEF Stream
      <4> QED
        BY <4>1, <4>2
    <3>6. ev' = ev /\ (Tracked' <=> Tracked) /\ ev <= cur' /\ queue'[Len(queue')] = cur'
      BY <1>0, <1>00, <1>1, <3>1, <3>2 DEF Advance, Tracked, Stream
    <3> QED
      BY <3>2, <3>3, <3>4, <3>5, <3>6 DEF Stream
  <2>2. CASE ~up
    BY <1>0, <1>00, <1>1, <2>2 DEF Advance, Stream, Tracked
  <2> QED
    BY <2>1, <2>2
<1>2. CASE Repeat
  <2>1. queue' = <<cur>> /\ queue = <<>> /\ up /\ cur' = cur /\ ev' = ev /\ up' = up
    BY <1>2 DEF Repeat
  <2>2. queue' # <<>> /\ Len(queue') = 1 /\ DOMAIN queue' = {1} /\ queue'[1] = cur
    BY <2>1
  <2>3. Tracked' <=> Tracked
    BY <1>2 DEF Repeat, Tracked
  <2> QED
    BY <1>0, <1>00, <2>1, <2>2, <2>3 DEF Stream
<1>3. CASE Drop \/ WatchStop \/ WatchDone
  <2>1. Close /\ cur' = cur /\ ev' = ev /\ (Tracked' <=> Tracked)
    BY <1>3 DEF Drop, WatchStop, WatchDone, Tracked
  <2>2. /\ up' = FALSE /\ queue' \in Seq(Update)
        /\ \A i \in DOMAIN queue' : i \in DOMAIN queue /\ queue'[i] = queue[i]
    BY <2>1, CloseKeeps DEF IInv
  <2>3. queue' # <<>> => 1 \in DOMAIN queue' /\ queue # <<>>
    BY <2>2
  <2>4. \A i \in DOMAIN queue' : i + 1 \in DOMAIN queue' => queue'[i + 1] \in {queue'[i], queue'[i] + 1}
    BY <1>00, <2>2, Zenon DEF Stream
  <2>5. \A i \in DOMAIN queue' : queue'[i] <= cur'
    BY <1>00, <2>1, <2>2 DEF Stream
  <2>6. Tracked' /\ queue' # <<>> => queue'[1] \in {ev', ev' + 1}
    BY <1>00, <2>1, <2>2, <2>3 DEF Stream
  <2> QED
    BY <1>00, <2>1, <2>2, <2>4, <2>5, <2>6 DEF Stream
<1>4. CASE Connect
  <2>1. queue' = <<>> /\ list' = Nil /\ rd' = "read" /\ cur' = cur /\ ev' = ev
    BY <1>4 DEF Connect, IInv, Started
  <2>2. ~Tracked' /\ DOMAIN queue' = {}
    BY <2>1 DEF Tracked, Loading
  <2> QED
    BY <1>00, <2>1, <2>2 DEF Stream
<1>5. CASE Read
  <2>1. /\ queue # <<>> /\ ev' = Head(queue) /\ queue' = Tail(queue) /\ cur' = cur /\ up' = up
        /\ rd' \in Loading \/ list' # Nil
    BY <1>5 DEF Read, Entry, Loading
  <2>2. /\ queue' \in Seq(Update) /\ ev' = queue[1] /\ 1 \in DOMAIN queue
        /\ Len(queue') = Len(queue) - 1 /\ Len(queue') \in Nat
        /\ \A i \in DOMAIN queue' : i + 1 \in DOMAIN queue /\ queue'[i] = queue[i + 1]
    BY <1>0, <2>1, ReadKeeps
  <2>3. \A i \in DOMAIN queue' : queue'[i] <= cur'
    BY <1>00, <2>1, <2>2 DEF Stream
  <2>4. \A i \in DOMAIN queue' : i + 1 \in DOMAIN queue' => queue'[i + 1] \in {queue'[i], queue'[i] + 1}
    BY <1>00, <2>2, Zenon DEF Stream
  <2>5. ev' <= cur'
    BY <1>00, <2>1, <2>2 DEF Stream
  <2>6. CASE queue' = <<>>
    <3>1. Len(queue) = 1
      BY <2>2, <2>6
    <3> QED
      BY <1>00, <2>1, <2>2, <2>3, <2>4, <2>5, <2>6, <3>1 DEF Stream
  <2>7. CASE queue' # <<>>
    <3>1. 1 \in DOMAIN queue' /\ Len(queue') \in DOMAIN queue' /\ Len(queue') + 1 = Len(queue)
      BY <1>0, <2>2, <2>7
    <3>2. queue'[1] \in {ev', ev' + 1}
      <4>1. queue'[1] = queue[1 + 1] /\ 1 + 1 \in DOMAIN queue
        BY <2>2, <3>1
      <4> QED
        BY <1>00, <2>2, <4>1 DEF Stream
    <3>3. up' => queue'[Len(queue')] = cur'
      BY <1>00, <2>1, <2>2, <3>1 DEF Stream
    <3> QED
      BY <2>3, <2>4, <2>5, <2>7, <3>2, <3>3 DEF Stream
  <2> QED
    BY <2>6, <2>7
<1>6. CASE ~(Advance \/ Repeat \/ Drop \/ WatchStop \/ WatchDone \/ Connect \/ Read)
  <2>1. UNCHANGED <<cur, queue, up, ev>>
    BY <1>6 DEF Next, Sup, Handle, Stop, Reset, SelectDone, ConnectError, SelectCancel,
                ReadError, BanCheck, RateWait, Serve, ReplyOK, ReplyError, Merge,
                MergeEmpty, Publish
  <2>2. Tracked' => Tracked
    BY <1>6, Empty DEF Next, Sup, Handle, Stop, Reset, NewList, SelectDone, ConnectError,
                SelectCancel, ReadError, BanCheck, RateWait, Serve, ReplyOK, ReplyError,
                Goto, InitWith, Merge, MergeEmpty, Publish, Tracked, Loading, IInv, TypeOK
  <2> QED
    BY <1>00, <2>1, <2>2 DEF Stream
<1> QED
  BY <1>1, <1>2, <1>3, <1>4, <1>5, <1>6

\* The list, the answer and what is shown.
LEMMA DataStep ==
  ASSUME IInv, Next
  PROVE  Answer' /\ Loaded' /\ Shown'
<1>1. /\ cur \in Nat /\ ev \in Nat /\ snap \in Nat /\ ev <= cur /\ snap <= cur
      /\ arr # <<>> => Last(arr) \in Nat /\ Last(arr) <= cur
      /\ list \notin {Nil, <<>>} => Last(list) \in Nat /\ Last(list) <= cur
  <2>1. \A s \in Seq(Update) : s # <<>> => Last(s) \in Nat
    BY DEF Last
  <2> QED
    BY <2>1 DEF IInv, TypeOK, Stream, Answer, Shown, Loaded
<1>2. Answer /\ Loaded /\ Shown /\ Stream
  BY DEF IInv
<1>3. CASE Advance
  <2>1. cur' = cur + 1 /\ UNCHANGED <<arr, list, ev, snap, rd>>
    BY <1>3 DEF Advance
  <2> QED
    BY <1>1, <1>2, <2>1 DEF Answer, Loaded, Shown
<1>4. CASE Reset
  BY <1>2, <1>4 DEF Reset, NewList, ArrKept, Answer, Loaded, Shown
<1>5. CASE Connect
  BY <1>2, <1>5 DEF Connect, Answer, Loaded, Shown, IInv, Started
<1>6. CASE Read
  <2>1. /\ UNCHANGED <<cur, arr, list, snap>> /\ ev' = Head(queue) /\ queue # <<>>
        /\ rd = "read" /\ rd' \in {"init", "merge"} /\ (list # Nil => rd' = "merge")
    BY <1>6 DEF Read, Entry
  <2>2. Tracked => ev' \in {ev, ev + 1}
    BY <1>2, <2>1, ReadKeeps DEF Stream, IInv, TypeOK
  <2>3. ASSUME list \notin {Nil, <<>>}, OpenTime(ev') > OpenTime(Last(list))
        PROVE  ev' = Last(list) + 1
    <3>1. ev' \in {ev, ev + 1}
      BY <2>2, <2>3 DEF Tracked
    <3>2. ev = Last(list) \/ OpenTime(ev) < OpenTime(Last(list))
      BY <1>2, <2>1, <2>3 DEF Loaded
    <3>3. /\ OpenTime(ev) \in Nat /\ OpenTime(Last(list)) \in Nat
          /\ OpenTime(ev + 1) \in Nat /\ OpenTime(ev + 1) <= OpenTime(ev) + 1
      <4>1. ev + 1 \in Nat /\ Last(list) \in Nat
        BY <1>1, <2>3
      <4>2. OpenTime(ev + 1) \in Nat /\ OpenTime(Last(list)) \in Nat
        BY <4>1, OpenTimes
      <4>3. OpenTime(ev) \in Nat /\ OpenTime(ev + 1) <= OpenTime(ev) + 1
        BY <1>1, OpenTimes
      <4> QED
        BY <4>2, <4>3
    <3>4. CASE ev' = ev
      BY <2>3, <3>2, <3>3, <3>4
    <3>5. CASE ev' = ev + 1
      <4>1. ~(OpenTime(ev) < OpenTime(Last(list)))
        BY <2>3, <3>3, <3>5
      <4> QED
        BY <3>2, <3>5, <4>1
    <3> QED
      BY <3>1, <3>4, <3>5
  <2> QED
    BY <1>2, <2>1, <2>3 DEF Answer, Loaded, Shown
<1>7. CASE Serve
  <2>1. UNCHANGED <<cur, arr, list, ev>> /\ snap' = cur /\ rd = "fetch" /\ rd' = "reply"
    BY <1>7 DEF Serve
  <2> QED
    BY <1>1, <1>2, <2>1 DEF Answer, Loaded, Shown
<1>8. CASE ReplyOK
  <2>1. /\ UNCHANGED <<cur, arr, ev, snap>> /\ list' = Cache!Window(snap)
        /\ rd = "reply" /\ rd' = "merge"
    BY <1>8 DEF ReplyOK, InitWith
  <2>2. Last(list') = snap /\ ev <= snap /\ (arr # <<>> => Last(arr) <= snap)
    BY <1>1, <1>2, <2>1, Windows DEF Answer
  <2>3. OpenTime(ev) <= OpenTime(snap) /\ OpenTime(ev) \in Nat /\ OpenTime(snap) \in Nat
    BY <1>1, <2>2, OpenTimes
  <2>4. arr # <<>> => OpenTime(snap) >= OpenTime(Last(arr))
    <3> SUFFICES ASSUME arr # <<>> PROVE OpenTime(snap) >= OpenTime(Last(arr))
      OBVIOUS
    <3>1. OpenTime(Last(arr)) \in Nat /\ OpenTime(Last(arr)) <= OpenTime(snap)
      BY <1>1, <2>2, OpenTimes
    <3> QED
      BY <2>3, <3>1
  <2> QED
    BY <1>1, <1>2, <2>1, <2>2, <2>3, <2>4 DEF Answer, Loaded, Shown
<1>9. CASE Merge
  <2>1. /\ UNCHANGED <<cur, arr, ev, snap>> /\ rd = "merge" /\ rd' = "publish"
        /\ list \notin {Nil, <<>>}
    BY <1>9 DEF Merge, IInv, TypeOK
  <2>2. /\ Merged \in Nat /\ Merged <= cur
        /\ list' = Cache!Window(Merged) /\ Last(list') = Merged
        /\ OpenTime(Last(list)) <= OpenTime(Merged)
        /\ ~(OpenTime(ev) > OpenTime(Merged))
        /\ ev = Merged \/ OpenTime(ev) < OpenTime(Merged)
    BY <1>9, MergeKeeps
  <2>3. arr # <<>> => OpenTime(Merged) >= OpenTime(Last(arr))
    <3> SUFFICES ASSUME arr # <<>> PROVE OpenTime(Merged) >= OpenTime(Last(arr))
      OBVIOUS
    <3>1. OpenTime(Last(arr)) \in Nat /\ OpenTime(Last(list)) \in Nat /\ OpenTime(Merged) \in Nat
      BY <1>1, <2>1, <2>2, OpenTimes
    <3>2. OpenTime(Last(list)) >= OpenTime(Last(arr))
      BY <1>2, <2>1 DEF Loaded
    <3>3. OpenTime(Last(list)) <= OpenTime(Merged)
      BY <2>2
    <3> QED
      BY <3>1, <3>2, <3>3
  <2>4. Answer' /\ Shown'
    BY <1>2, <2>1 DEF Answer, Shown
  <2>5. Loaded'
    <3>1. list' = Cache!Window(Last(list')) /\ Last(list') <= cur' /\ ~(OpenTime(ev') > OpenTime(Last(list')))
      BY <2>1, <2>2
    <3>2. ev' = Last(list') \/ OpenTime(ev') < OpenTime(Last(list'))
      BY <2>1, <2>2
    <3>3. arr' # <<>> => OpenTime(Last(list')) >= OpenTime(Last(arr'))
      BY <2>1, <2>2, <2>3
    <3> QED
      BY <3>1, <3>2, <3>3, Zenon DEF Loaded
  <2> QED
    BY <2>4, <2>5
<1>10. CASE Publish
  <2>1. UNCHANGED <<cur, list, ev, snap>> /\ rd = "publish" /\ rd' = "read" /\ arr' = list
    BY <1>10 DEF Publish
  <2>2. list \notin {Nil, <<>>}
    BY <2>1 DEF IInv, TypeOK, Started
  <2>3. OpenTime(Last(list)) >= OpenTime(Last(list))
    BY <1>1, <2>2, OpenTimes
  <2> QED
    BY <1>1, <1>2, <2>1, <2>2, <2>3 DEF Answer, Loaded, Shown
<1>11. CASE ReadError \/ BanCheck \/ RateWait \/ ReplyError
  <2>1. /\ UNCHANGED <<cur, arr, ev, snap>> /\ rd' # "reply"
        /\ rd # "merge" /\ (list' = list \/ list' = <<>>)
    BY <1>11 DEF ReadError, BanCheck, RateWait, ReplyError, Goto, InitWith
  <2> QED
    BY <1>2, <2>1 DEF Answer, Loaded, Shown
<1>12. CASE \/ Repeat \/ Drop \/ Stop \/ SelectDone \/ WatchStop \/ WatchDone
            \/ ConnectError \/ SelectCancel \/ MergeEmpty
  <2>1. UNCHANGED <<cur, arr, list, ev, snap, rd>>
    BY <1>12 DEF Repeat, Drop, Stop, SelectDone, WatchStop, WatchDone, ConnectError,
                 SelectCancel, MergeEmpty
  <2> QED
    BY <1>2, <2>1 DEF Answer, Loaded, Shown
<1> QED
  BY <1>3, <1>4, <1>5, <1>6, <1>7, <1>8, <1>9, <1>10, <1>11, <1>12 DEF Next, Sup, Handle

LEMMA InvStep == IInv /\ [Next]_vars => IInv'
<1> SUFFICES ASSUME IInv, [Next]_vars PROVE IInv'
  OBVIOUS
<1>1. CASE Next
  BY <1>1, BaseStep, StreamStep, DataStep DEF IInv
<1>2. CASE UNCHANGED vars
  BY <1>2 DEF vars, IInv, TypeOK, OneWriter, ServedOnceReady, FromCache, Stream, Tracked,
              Answer, Loaded, Shown, Started
<1> QED
  BY <1>1, <1>2

LEMMA Inductive == Spec => []IInv
  BY InitInv, InvStep, PTL DEF Spec

-----------------------------------------------------------------------------
(* The theorems.                                                           *)

\* The cache, its socket and its goroutines keep their types; a handler
\* past initKlineData has a list to merge into.
THEOREM KlinesTypeCorrect == Spec => []TypeOK
<1>1. IInv => TypeOK
  BY DEF IInv
<1> QED
  BY Inductive, <1>1, PTL

\* The supervisor and the handler are never both about to write klinesList.
THEOREM OneWriterOfTheList == Spec => []OneWriter
<1>1. IInv => OneWriter
  BY DEF IInv
<1> QED
  BY Inductive, <1>1, PTL

\* An open socket has its reader, whose end the supervisor would not miss.
Attended == up => rd # "none"

\* A socket is open between a dialling and its reader's end, or the watcher's.
LEMMA SocketStep ==
  ASSUME OneWriter, NoSocketLeak, Attended, [Next]_vars
  PROVE  NoSocketLeak' /\ Attended'
<1> USE DEF OneWriter, NoSocketLeak, Attended, sock, handler, data
<1>1. CASE Connect
  BY <1>1 DEF Connect
<1>2. CASE SelectDone \/ WatchDone
  BY <1>2 DEF SelectDone, WatchDone, DoneClosed, Close
<1>3. CASE SelectCancel \/ WatchStop
  BY <1>3 DEF SelectCancel, TellWatcher, WatchStop, Close
<1>4. CASE Drop
  BY <1>4 DEF Drop, Close
<1>5. CASE Read \/ ReadError
  BY <1>5 DEF Read, ReadError, Entry
<1>6. CASE BanCheck \/ RateWait \/ Serve \/ ReplyOK \/ ReplyError
  BY <1>6 DEF BanCheck, RateWait, Serve, ReplyOK, ReplyError, InitWith, Goto
<1>7. CASE Merge \/ MergeEmpty \/ Publish
  BY <1>7 DEF Merge, MergeEmpty, Publish
<1>8. CASE Reset \/ ConnectError
  BY <1>8 DEF Reset, ConnectError
<1>9. CASE Advance \/ Repeat \/ Stop
  BY <1>9 DEF Advance, Repeat, Stop
<1>10. CASE UNCHANGED vars
  BY <1>10 DEF vars
<1> QED
  BY <1>1, <1>2, <1>3, <1>4, <1>5, <1>6, <1>7, <1>8, <1>9, <1>10 DEF Next, Sup, Handle

\* No open socket is left to itself, whenever the connection is lost or the
\* service is stopped, and whatever its handler is waiting for.
THEOREM NoKlinesSocketLeaks == Spec => []NoSocketLeak
<1>1. Init => NoSocketLeak /\ Attended
  BY DEF Init, NoSocketLeak, Attended
<1>2. IInv => OneWriter
  BY DEF IInv
<1> QED
  BY Inductive, SocketStep, <1>1, <1>2, PTL DEF Spec

\* A request that GetKlines lets through finds candles, reconnecting or not.
THEOREM CandlesOnceReady == Spec => []ServedOnceReady
<1>1. IInv => ServedOnceReady
  BY DEF IInv
<1> QED
  BY Inductive, <1>1, PTL

LEMMA MirrorStep ==
  ASSUME IInv, Next
  PROVE  [Cache!Advance \/ Cache!Publish]_<<cur, arr>>
<1>1. CASE Advance
  BY <1>1 DEF Advance, Cache!Advance
<1>2. CASE Publish
  <2>1. UNCHANGED cur /\ rd = "publish" /\ arr' = list
    BY <1>2 DEF Publish
  <2>2. list \notin {Nil, <<>>} /\ list \in Seq(Update) /\ cur \in Nat
    BY <2>1 DEF IInv, TypeOK, Started
  <2>3. Last(list) \in Nat
    BY <2>2 DEF Last
  <2>4. /\ list = Cache!Window(Last(list)) /\ Last(list) \in 0..cur
        /\ arr # <<>> => OpenTime(Last(list)) >= OpenTime(Last(arr))
    BY <2>2, <2>3 DEF IInv, Loaded
  <2>5. Cache!Publish
    BY <2>1, <2>4 DEF Cache!Publish, Cache!Last, Last, OpenTime
  <2> QED
    BY <2>5
<1>3. CASE ~(Advance \/ Publish)
  BY <1>3 DEF Next, Sup, Handle, Repeat, Drop, Stop, Reset, ArrKept, SelectDone, WatchStop,
              WatchDone, Connect, ConnectError, SelectCancel, Read, ReadError, BanCheck,
              RateWait, Serve, ReplyOK, ReplyError, Merge, MergeEmpty
<1> QED
  BY <1>1, <1>2, <1>3

\* The klines cache implements KlinesCache: for candles and lists of any
\* length, through drops, reconnections, late events and failing answers,
\* what is published is the exchange's own list as of one update, and never
\* of an earlier candle than before.
THEOREM KlinesMirror == Spec => Mirrors
<1>1. Init => Cache!Init
  BY DEF Init, Cache!Init
<1>2. IInv /\ [Next]_vars => [Cache!Advance \/ Cache!Publish]_<<cur, arr>>
  BY MirrorStep DEF vars
<1> QED
  BY <1>1, <1>2, Inductive, PTL DEF Spec, Mirrors, Cache!Spec

\* n candles in a row up to the one opening at o, or a fake one after it.
InARow(a, n, o, faked) ==
  /\ Len(a) = n /\ Last(a) = o + (IF faked THEN 1 ELSE 0)
  /\ \A i \in 1..(Len(a) - 1) :
       a[i + 1] = a[i] + (IF faked /\ i + 1 = Len(a) THEN 2 ELSE 1)

LEMMA AnswerOfWindow ==
  ASSUME NEW u \in Nat, NEW w, w = Cache!Window(u),
         NEW limit \in Nat \ {0}, NEW faked \in BOOLEAN
  PROVE  InARow(KlinesAnswer(w, limit, faked), Fitting(w, limit), OpenTime(u), faked)
<1> DEFINE a == KlinesAnswer(w, limit, faked)
           f == Fitting(w, limit)
           n == Newest(w, limit)
<1>1. /\ Len(w) = Size(u) /\ Size(u) \in Nat \ {0} /\ OpenTime(u) \in Nat /\ Last(w) = u
      /\ \A i \in 1..Size(u) : OpenTime(w[i]) = OpenTime(u) - Size(u) + i
  <2>1. Len(w) = Size(u) /\ Size(u) \in Nat \ {0}
    BY Shapes
  <2>2. OpenTime(u) \in Nat
    BY OpenTimes
  <2> QED
    BY <2>1, <2>2, Windows
<1>2. f \in 1..Size(u)
  BY <1>1 DEF Fitting
<1> HIDE DEF f
<1>3. n = [i \in 1..f |-> OpenTime(w[Size(u) - f + i])]
  BY <1>1 DEF Newest, f
<1>4. \A i \in 1..f : n[i] = OpenTime(u) - f + i
  <2> SUFFICES ASSUME NEW i \in 1..f PROVE n[i] = OpenTime(u) - f + i
    OBVIOUS
  <2>1. Size(u) - f + i \in 1..Size(u)
    BY <1>1, <1>2
  <2>2. n[i] = OpenTime(u) - Size(u) + (Size(u) - f + i)
    BY <1>1, <1>3, <2>1
  <2> QED
    BY <1>1, <1>2, <2>2
<1>5. Len(n) = f /\ DOMAIN n = 1..f
  BY <1>1, <1>2, <1>3
<1> HIDE DEF n
<1>6. CASE ~faked
  <2>1. a = n
    BY <1>6 DEF KlinesAnswer, n
  <2>2. Len(a) = f /\ Last(a) = OpenTime(u)
    BY <1>1, <1>2, <1>4, <1>5, <2>1 DEF Last
  <2>3. \A i \in 1..(f - 1) : a[i + 1] = a[i] + 1
    BY <1>1, <1>2, <1>4, <2>1
  <2> HIDE DEF a
  <2>4. InARow(a, f, OpenTime(u), faked)
    BY <1>1, <1>6, <2>2, <2>3 DEF InARow
  <2> QED
    BY <2>4 DEF a, f
<1>7. CASE faked
  <2>1. a = [n EXCEPT ![f] = OpenTime(u) + 1]
    BY <1>1, <1>2, <1>5, <1>7 DEF KlinesAnswer, WithFake, n, f
  <2>2. Len(a) = f /\ \A i \in 1..f : a[i] = IF i = f THEN OpenTime(u) + 1 ELSE OpenTime(u) - f + i
    BY <1>2, <1>4, <1>5, <2>1
  <2>3. Last(a) = OpenTime(u) + 1
    BY <1>2, <2>2 DEF Last
  <2>4. \A i \in 1..(f - 1) : a[i + 1] = a[i] + (IF i + 1 = f THEN 2 ELSE 1)
    <3> HIDE DEF a
    <3> SUFFICES ASSUME NEW i \in 1..(f - 1)
                 PROVE  a[i + 1] = a[i] + (IF i + 1 = f THEN 2 ELSE 1)
      OBVIOUS
    <3>1. i \in 1..f /\ i + 1 \in 1..f /\ i # f /\ i \in Int /\ f \in Int
      BY <1>1, <1>2
    <3>2. a[i] = OpenTime(u) - f + i
      BY <2>2, <3>1
    <3>3. a[i + 1] = IF i + 1 = f THEN OpenTime(u) + 1 ELSE OpenTime(u) - f + (i + 1)
      BY <2>2, <3>1
    <3>4. OpenTime(u) \in Int
      BY <1>1
    <3> QED
      BY <3>1, <3>2, <3>3, <3>4
  <2> HIDE DEF a
  <2>5. InARow(a, f, OpenTime(u), faked)
    BY <1>1, <1>7, <2>2, <2>3, <2>4 DEF InARow
  <2> QED
    BY <2>5 DEF a, f
<1> QED
  BY <1>6, <1>7

\* A request for any number of candles gets the newest of them, in order and
\* without a gap but the one a fake candle leaves, whatever the cache has
\* been through.
THEOREM AnswersAreNewest == Spec => []AnswersNewest
<1>1. IInv => AnswersNewest
  <2> SUFFICES ASSUME IInv, FromCache,
                      NEW limit \in Asked, NEW faked \in {FALSE} \cup MayFake
               PROVE  InARow(KlinesAnswer(arr, limit, faked), Fitting(arr, limit),
                             OpenTime(Last(arr)), faked)
    BY Zenon DEF AnswersNewest, InARow
  <2>1. arr = Cache!Window(Last(arr)) /\ Last(arr) \in Nat
    <3>1. arr \in Seq(Update) /\ arr # <<>>
      BY DEF IInv, TypeOK, FromCache
    <3>2. Last(arr) \in Nat
      BY <3>1 DEF Last
    <3> QED
      BY <3>1, <3>2 DEF IInv, Shown
  <2>2. limit \in Nat \ {0} /\ faked \in BOOLEAN
    <3>1. limit \in Nat \ {0}
      BY DEF Asked
    <3>2. faked \in BOOLEAN
      BY Zenon DEF MayFake
    <3> QED
      BY <3>1, <3>2
  <2> QED
    BY <2>1, <2>2, AnswerOfWindow
<1> QED
  BY Inductive, <1>1, PTL
=============================================================================
