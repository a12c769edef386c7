--------------------------- MODULE KlinesHandler ---------------------------
(***************************************************************************)
(* Handler.klines, internal/handler/kline.go: what a request gets of the   *)
(* candles KlinesSrv publishes.  A candle is represented by its open time, *)
(* counted in candles.  The handler reads the list in one step and the     *)
(* rest is a function of what it read, the limit asked for and the clock.  *)
(***************************************************************************)
EXTENDS KlinesSrv

\* data == nil: the request is forwarded instead
FromCache == arr # <<>>

Fitting(candles, limit) == IF Len(candles) > limit THEN limit ELSE Len(candles)

\* data[startIdx:], and the loop forgetting startIdx
Oldest(candles, limit) == [i \in 1..Fitting(candles, limit) |-> OpenTime(candles[i])]
Newest(candles, limit) ==
  LET start == Len(candles) - Fitting(candles, limit)
  IN  [i \in 1..Fitting(candles, limit) |-> OpenTime(candles[start + i])]

\* fakeKline opens where the last candle closes.
WithFake(klines, minLen, fake) ==
  IF Len(klines) >= minLen THEN [klines EXCEPT ![Len(klines)] = fake]
  ELSE Append(klines, fake)

\* faked: fake candles are enabled and the last candle's close time is past
KlinesAnswer(candles, limit, faked) ==
  LET klines == Newest(candles, limit)
  IN  IF faked THEN WithFake(klines, Fitting(candles, limit), OpenTime(Last(candles)) + 1)
      ELSE klines

\* The close time is past at the latest when the next candle has an update.
MayFake == IF OpenTime(cur) > OpenTime(Last(arr)) THEN {TRUE} ELSE BOOLEAN
Asked == 1..(Limit + 1)

-----------------------------------------------------------------------------
\* Whatever the cache has been through, a request for any limit gets the
\* newest candles, as many as there are up to the limit, in order and
\* without a gap, but for the one before a fake candle.
AnswersNewest ==
  FromCache => \A limit \in Asked, faked \in {FALSE} \cup MayFake :
    LET a == KlinesAnswer(arr, limit, faked) IN
    /\ Len(a) = Fitting(arr, limit)
    /\ Last(a) = OpenTime(Last(arr)) + (IF faked THEN 1 ELSE 0)
    /\ \A i \in 1..(Len(a) - 1) :
         a[i + 1] = a[i] + (IF faked /\ i + 1 = Len(a) THEN 2 ELSE 1)

\* initDone is called before the first candles are published, and a
\* reconnection takes the list away: a request whose wait is over still finds
\* candles, but for the moment in which the very first are being published.
ServedOnceReady ==
  inited /\ ~crashed => FromCache \/ rd \in {"merge", "publish"}

\* cmd/binance-proxy/main.go:63, "Disable generation of fake candles (ohlcv)
\* when sockets have not delivered data yet": a fake candle stands for one
\* that was not delivered, and the newest one that was is in the answer.
NewestKept ==
  FromCache => \A limit \in Asked \ {1}, faked \in MayFake :
    LET a == KlinesAnswer(arr, limit, faked)
    IN  \E i \in DOMAIN a : a[i] = OpenTime(Last(arr))
=============================================================================
