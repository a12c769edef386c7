--------------------------- MODULE LimiterProofs ---------------------------
(* What every cost the limiter computes has in common.                     *)
EXTENDS Limiter, TLAPS

\* Whatever a client asks for, also with an odd limit, it costs something and
\* no more than 50.
LEMMA WeightBounded ==
  ASSUME NEW method, NEW path, NEW limit \in Int, NEW symbol \in BOOLEAN
  PROVE  Weight(method, path, limit, symbol) \in 1..50
<1>1. KlinesWeight(limit) \in 1..50
  BY DEF KlinesWeight
<1>2. SpotDepthWeight(limit) \in 1..50
  BY DEF SpotDepthWeight
<1>3. FuturesDepthWeight(limit) \in 1..50
  BY DEF FuturesDepthWeight
<1> QED
  BY <1>1, <1>2, <1>3 DEF Weight

\* No request is too costly to be let through: RateWait returns an error only
\* when the context it is given is done, so that the retries around it
\* (kline.go:140, exchangeinfo.go:103) have no other lasting cause.
THEOREM RefusesOnlyWhenDone ==
  ASSUME NEW class, NEW method, NEW path, NEW limit \in Int, NEW symbol \in BOOLEAN,
         NEW done \in BOOLEAN, Refuses(class, Weight(method, path, limit, symbol), done)
  PROVE  done
BY WeightBounded DEF Refuses, Burst
=============================================================================
