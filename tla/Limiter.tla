------------------------------ MODULE Limiter ------------------------------
(***************************************************************************)
(* internal/service/limiter.go: what a request to Binance costs, and when  *)
(* RateWait refuses it.  limit is the number the query names, 0 if it      *)
(* names none; symbol tells whether it names one.                          *)
(***************************************************************************)
EXTENDS Integers

CONSTANT SPOT  \* the class; any other is FUTURES

KlinesWeight(limit) ==
  IF limit \in 1..99 THEN 1 ELSE IF limit \in 100..499 THEN 2
  ELSE IF limit \in 1001..1500 THEN 10 ELSE 5

SpotDepthWeight(limit) ==
  IF limit \in 101..499 THEN 2 ELSE IF limit = 500 THEN 5
  ELSE IF limit = 1000 THEN 10 ELSE IF limit = 5000 THEN 50 ELSE 1

FuturesDepthWeight(limit) ==
  IF limit = 100 THEN 5 ELSE IF limit = 500 THEN 10
  ELSE IF limit = 1000 THEN 20 ELSE 2

\* calculateWeight
Weight(method, path, limit, symbol) ==
  CASE path = "/fapi/v1/klines" -> KlinesWeight(limit)
    [] path = "/api/v3/depth" -> SpotDepthWeight(limit)
    [] path = "/fapi/v1/depth" -> FuturesDepthWeight(limit)
    [] path \in {"/api/v3/ticker/24hr", "/fapi/v1/ticker/24hr"} -> IF symbol THEN 1 ELSE 40
    [] path \in {"/api/v3/exchangeInfo", "/fapi/v1/exchangeInfo",
                 "/api/v3/account", "/api/v3/myTrades"} -> 10
    [] path = "/api/v3/order" -> IF method = "GET" THEN 2 ELSE 1
    [] path \in {"/fapi/v1/userTrades", "/fapi/v2/account"} -> 5
    [] OTHER -> 1

\* SpotLimiter, FuturesLimiter: more than the burst is never let through.
Burst(class) == IF class = SPOT THEN 1200 ELSE 2400

\* RateWait returns an error: at once, or when the context ends the wait.
Refuses(class, weight, done) == done \/ weight > Burst(class)
=============================================================================
