# Verification of binance-proxy

TLA+ models of the proxy in `src/`, the TLC runs that check them on small
instances, and machine-checked proofs for instances of any size. `PROJECT.json`
lists the components, runs, mutants, findings, hazards and theorems, and maps
every definition to the lines it models.

    tlc -config KlinesHandler_klines.cfg KlinesHandler.tla  # a run: configuration, module
    tlapm KlinesProofs.tla                                  # the proofs about a module

## 1. The system

The proxy stands between trading bots and Binance. For each market class (spot,
futures) one process runs a `Handler` (HTTP), a `Service` (the registry of
caches) and a share of the process-wide `BanDetector` and rate limiters.
Requests for klines, depth, 24 hour tickers and exchange info are answered from
caches that websockets (exchange info: a polling loop) keep up to date; every
other request, and one a cache has nothing for, is forwarded.

| Component | State | Operations | What makes it correct |
|---|---|---|---|
| Service registry, `internal/service/service.go` | per kind of data two `sync.Map`s: key to service object, key to time of the last request | `Klines`, `Depth`, `Ticker` (look up, create, start, stamp, wait), `autoRemoveExpired`, `Stop` | no stream is lost or started twice; idle ones are closed; waiting requests are answered |
| Kline cache, `kline.go` | `klinesList` (reader and supervisor), `klinesArr` (published), contexts | `Start` loop, `wsHandler`, `initKlineData`, `GetKlines`, `Stop` | what is shown is the exchange's candles as of one update, no gaps; it catches up; one writer; no crash |
| Ticker cache, `ticker.go` | `ticker24hr`, `bookTicker`, two sockets | `Start` loop over two sockets, two handlers, `GetTicker`, `Stop` | no socket leaks; reconnects; readers never meet nil |
| Depth cache, `depth.go` | `depth`, one socket | `Start` loop, two handlers, `GetDepth`, `Stop` | no book of a lost connection is shown on the next; it catches up; its socket is closed |
| Exchange info, `exchangeinfo.go` | the last answer | blocking first refresh, a refresh every 60 s with retries | serves what Binance last sent; a ban does not leave readers waiting for ever |
| Ban detector, `ban_detector.go` | per class: banned, recovery time, error count and time, used weight, reset, backoff | `IsBanned`, `CheckResponse`, `GetBanStatus` | suspensions start when they must, move only by answers that suspend, and end |
| Reverse proxy, `handler.go` | a goroutine per request; the handler's context | `reverseProxy`: context, ban, limiter, send, report | nothing new is sent while suspended; nothing hangs |
| Request handlers, `handler/*.go` | none | shaping cached data, choosing cache or upstream | answers have the form Binance's have |
| Rate limiter, `limiter.go` | token buckets | `RateWait` with weights by path | the weight Binance charges is waited for |
| Status tracker, `status.go` | counters | `/status` | numbers agree with what happened |
| Process life, `main.go` | listeners, signals, `/restart` | start, stop | it comes up, serves while a listener is left, and ends when due |
| Delay iterator, `tool/iterator.go` | an index into a list of pauses | `Delay`, `Reset` | pauses grow with failures in a row only |
| Log cache, names and pools | small | | |

**Interactions.** A request goroutine calls the registry, which may create a
service object and start its supervisor goroutine; the supervisor dials through
go-binance, which starts a reader goroutine (it calls the service's handler for
each event) and a watcher goroutine (it closes the socket on `stopC` or `doneC`).
The kline reader asks the ban detector and the limiter before its REST request
and reports the result to the detector, as forwarded requests do. The registry's
timer goroutine sweeps idle services and cancels their contexts. Before a class
listens, its exchange information is fetched once. `main` ends the process on a signal or
when no listener is left, `/restart` of either class ends it for both.

**What is hard.** Requests racing each other and the sweeper over maps whose
single operations are atomic but whose sequences are not; three goroutines per
socket synchronised by unbuffered channels that are nil or unserved in some
states; reconnections that invalidate data; REST answers overtaken by events;
bans that start between a check and its use; suspensions set by responses that
arrive in any order; retries without end and first fetches that give up. The hazards
of `PROJECT.json` give each at its line.

## 2. The modules

### Service (with MCService): the registry

Klines, depth and ticker services run the same code over disjoint maps, so a
`Key` is a kind and a symbol/interval. `Srv` are service objects (how many may
ever be allocated), `Req` request goroutines. Each action is one `sync.Map`
operation or one call:

| Action | Code |
|---|---|
| `Load`, `New`, `LoadOrStore`, `Start`, `Stamp`, `Touch`, `Get` | `Klines`, `Depth`, `Ticker`: the lookup, the object built as `LoadOrStore`'s argument (garbage for a loser), storing, `Start`, reading the clock, storing the stamp, waiting on `initCtx` |
| `SweepBegin`, `SweepVisit`, `SweepSeed`, `SweepDelGet`, `SweepDelSrv`, `SweepStop`, `SweepExit` | the timer goroutine and `autoRemoveExpired`: `Range` in any order, the unstamped entry given a stamp, the two deletions, `Stop` |
| `FeedInit`, `FeedExit` | what the registry sees of an object: its first data, its end after cancellation |
| `Stop`, `Tick` | the context the `Service` was given is done: a signal, just before `main` returns (`Service.Stop`, which would do the same, has no caller); the clock |

Because `Range` may or may not meet an entry stored meanwhile, `todo` starts
with every key. A key the sweeper met is not replaced by anyone while it deletes
it (proved as `SweptMapped`), so that meeting it and loading its stamp are one step.

`Registry` is the promise: a table in which a request looks its key up, or enters a
service the key lacks, in one step (`Obtain`); a service begins once, after it was entered; what is
taken out (`Remove`) is ended (`End`) before anything else is. `Service!Shares` instantiates it: the
table is `srvMap`; a service leaves while the sweeper is at `stop`; a request holds what a `Load`
or `LoadOrStore` gave it. `Load` of a mapped key and `LoadOrStore` are `Obtain`, `Start` is `Begin`
(of an object another request or the sweeper may already use), `SweepDelSrv` is `Remove`,
`SweepStop` is `End`; the rest, `Stop` and the life of a stream among them, are stutters.

### KlinesCache, KlinesSrv and KlinesHandler: one kline cache

The exchange numbers its updates; a candle takes `PerCandle` of them, so that a
candle is the update it carries. `KlinesCache` is the promise: the published
array is always `Window(u)`, the exchange's last `Limit` candles as of one update
`u`, and never shows an earlier candle than it has shown. `KlinesSrv` is the code:
the supervisor (`Reset`, `Connect`, `ConnectError`, `SelectDone`, `SelectCancel`),
go-binance's watcher (`WatchStop`, the rendezvous on the unbuffered `stopC`, and
`WatchDone`), the reader (`Read`, `ReadError`) and, inside it, `initKlineData`
(`BanCheck`, `RateWait`, `Serve`, `ReplyOK`, `ReplyError`) and the rest of
`wsHandler` (`Merge`, `MergeEmpty`, `Publish`). The REST answer is of the instant
`Serve`, and events keep queueing while it is under way. A socket that closes may
lose any tail of its queue. A panic (`MergeEmpty`) ends the process: nobody recovers
in go-binance's goroutine. `KlinesHandler` EXTENDS it with what `Handler.klines` makes
of the list: which candles a limit selects, and where the fake candle goes.

### DepthSrv: the single-socket supervisor, and its pauses

The same three goroutines around one book, numbered as the exchange makes them.
Where `KlinesSrv` leaves pauses out, this module has `tool.DelayIterator`'s index
(`NextIndex`, `Restarted`), because `depth.go` is the code that resets it. Two history variables
serve the properties: the book when the connection was made, and the diallings
failed since the last one that succeeded. `DepthAnswer` is the handler's number of levels.
`DepthCache` is the promise: the book shown is one the exchange has made, never an older one than
was shown before, even if none was shown in between. Its variable `since`, the oldest book that may
still be shown, is the shown one, or with none the connection's first or, before one is made, the
exchange's latest.

### BanDetector and ReverseProxy: forwarding and suspensions

Every detector method holds the mutex, so each is one step on the record `bd[c]`
of its class. Instants are relative to the clock (`left` is recovery time minus
now), and stop at -1: how long ago a suspension ended is told apart by nothing.
`phase` is the time to the next full minute, which weight suspensions end at.
`AfterResponse` follows the order of `CheckResponse`: weights first, then
statuses; `AfterError` is its branch for errors. `ReverseProxy` EXTENDS it with
request goroutines at the points of `reverseProxy` where others can interleave:
context, `IsBanned`, `GetBanStatus`, `RateWait`, sending, the round trip, and
`ModifyResponse` or `ErrorHandler` reporting it.

`BanGate` is the promise: per class a gate shut for so many ticks, opened by time, entered only while
open, and moved only by a request that had been let through as it leaves. `ReverseProxy!Gate`
instantiates it with the gate mapped to the rest of an active suspension and a request
inside from the check on to its report.

### TickerSrv: the two-socket supervisor

Per stream and per turn of the supervisor's loop a socket, a watcher and a reader,
all kept apart: those of an earlier turn may outlive it. A send on `stopC`
is the step `SendStop`, possible only while the watcher waits; `sup = "nil send"`
is the send on the nil `bookStopC` of a failed dialling. `Stuck` names the two places where the
supervisor waits for ever with `ticker24hr` open: that send, and, cancelled, the send to the book's
watcher if that has taken `doneC`. `Closable` says who is still to close a socket: its watcher, or
the supervisor if it is not stuck.

### Limiter, ExchangeInfoSrv and Process: coming up, serving and ending

`Limiter` has the weights of `calculateWeight` and when `RateWait` refuses: at
once if the weight exceeds the burst, or when the context is done. `ExchangeInfoSrv` is one
refresher per class (`CheckBan`, `RateWait`, `Store`, `Suspended`, `Failed`; `Timer`,
`Leave`) and the requests waiting in `GetExchangeInfo`. The detector is two actions here,
`Ban` and `Lift`, since other traffic of the class may cause either at any time; `BanDetector`
says how. `Process` EXTENDS it with `startProxy` of each class (`Listen`,
`ListenFails`), `errChan` and main's loop (`Collect`, `Interrupted`), `Signal` and
`/restart` (`Restart`, `Cancel`, `Exit`). `Die` clears what goes with the process.

## 3. The runs

| Run | Checks | Bounds |
|---|---|---|
| `service` | `TypeOK`; `NoLeak`: a running service is the mapped one or in the sweeper's hand; `StartedOnce`; `NeverMapsStopped`: the registry hands out no stopped service; `StartComes`: nobody waits for a service that nobody will start; `Atomic` (`Service` implements `Registry`); `IdleClosed`: a started service is stopped once requests cease and time goes on; `AnsweredUnlessStopped` | 1 key, 2 objects, 2 requests, arrivals to tick 2, clock to 4, idle time 1 |
| `klines` | `TypeOK`, `OneWriter`; `NoSocketLeak`: an open socket has its watcher and a supervisor that can stop it; `ServedOnceReady`: a request whose wait is over finds candles; `AnswersNewest`: every limit gets the newest candles without a gap; `Mirrors` (`KlinesSrv` implements `KlinesCache`), `CatchesUp`, `StopCloses` | 5 updates of 2 per candle, 2 candles kept, 2 events under way, limits 1 to 3 |
| `depth` | `TypeOK`; `FreshBook`: no book of a lost connection on the next; `PauseEarned`; `NoSocketLeak`; `NeverBack` (`DepthSrv` implements `DepthCache`); `CatchesUp`; `StopCloses` | 4 books, 3 events under way, 4 pauses |
| `ticker` | `TypeOK`; `LeaksOnlyStuck`: an open socket has somebody to close it, but for `ticker24hr`'s in the turn the supervisor is stuck in; `StopCloses`: after `Stop` both close, or the supervisor is stuck there | 2 turns of the loop |
| `proxy` | `PTypeOK`; `Bounded`: no suspension is longer than one answer may ask for; `Gated`: detector and requests implement `BanGate`; `MovedOnlyBySuspending`: the announced end of a suspension is moved, later or earlier, only by an answer that itself suspends; `Recovers`; `AnsweredOrSent` | 2 requests in a loop, one class, two errors to a suspension |
| `process` | `TypeOK`; `NeverUnavailable`: no client is told there is no information; `KeepsServing`: unasked, the process exits with the last listener only; `Starts`; `InfoAnswered`; `EndsWhenDue` | 2 classes, either disabled, 1 request in a loop, `errChan` of 2 |
| `service_stranded` (violation) | `NoStrandedRequest`: the sweeper has stopped a service before its first data while a request waits on it | 2 objects, 2 requests, arrivals to tick 3 |
| `klines_ban_crash` (violation) | `NoCrash` | 3 updates, 1 event under way |
| `klines_fake` (violation) | `NewestKept` | as `klines`, 1 event under way |
| `ticker_nil` (violation) | `AlwaysData` | 2 turns |
| `ticker_both_lost` (violation) | `Reconnects` | 2 turns |
| `ticker_leak` (violation) | `NoSocketLeak`: a stopped service has no open socket that nobody is left to close | 2 turns |

**Why the bounds are enough to be of interest.** Registry: two requests
race to create a key, the sweeper expires it, and either may create it
again with the second object while the other still holds the first; three of each, and
more keys, are covered by the proofs. Klines: five updates close two candles, overflow
the list, and leave enough for a gap at a reconnection; two queued events
let the REST answer overtake one and be overtaken by the next. Depth: three
events of a lost connection can outlive it while a new book arrives, and four pauses are
exhausted by failures in a row. Proxy: two requests are a suspended one and one in
flight whose answer sets the suspension; the clock is unbounded there, all
instants being relative. Ticker: two turns are the old connection and the new. Process: both
classes are what there is; one `/restart` is enough, later ones being behind the first; requests
share nothing but what they read, and bodies are not told apart.

**Mutants.** Each property of a passing run has a variant of a modelled definition, as a
plausible slip in that code would make it (storing over another request's
object, keeping the list over a reconnection, counting one error too many,
not telling the other stream to stop), under which the property fails.

**Fairness.** Every goroutine that can run does (weak fairness per goroutine:
requests, sweeper, supervisor, watcher, reader, refresher, main) and timers fire. Time passes in the
detector. In the registry that is a premise of `IdleClosed` and not of
`AnsweredUnlessStopped`: since every idle service is stopped in the end, a request
would otherwise be excused by the expiry of the service it waits for.
Go's `select` picks at random among ready cases, so in `KlinesSrv` and `DepthSrv` a case
that is ready again and again is taken at some time (strong fairness of `SelectCancel`); so are
attempts that keep being repeated, dialling and REST requests, assumed to succeed at some time:
`CatchesUp` and `InfoAnswered` are about a network that lets one attempt through.
Never assumed: that a client comes, that a socket drops, that Binance answers a
forwarded request, that a ban of `ExchangeInfoSrv`'s is lifted, that a listener fails, that
the process is told to stop.

## 4. What is proved

Each component's theorems are in a module of its own. They hold for every value of
the constants that satisfies the component's named assumption (naturals where the code
counts, sentinels that are no value), so without the bounds of section 3.

**ServiceProofs**: `TypeCorrect` (`TypeOK`), `NoServiceLeaks` (`NoLeak`), `OneStart`
(`StartedOnce`), `HandsOutRunning` (`NeverMapsStopped`). `NoLeak` is not inductive: a
service is started by a request that stored it a step before, and in between
the sweeper may visit, delete and stop it. `IInv` adds what excludes a loss there:

- `OwnKey`: an object is mapped, held and swept only under the key it was built
  for; otherwise `srvMap[keyOf[s]]` would say nothing about where `s` is.
- `Private`: until `LoadOrStore` has run nobody else knows the new object, so that
  storing it cannot give a started object a second starter.
- `StoredStays`: between storing and starting, the object is mapped, or in the
  sweeper's hand, or already stopped. Starting it then keeps `NoLeak`.
- `SweptMapped`: while the sweeper is on its way to delete an entry the entry is
  still the one it read. `LoadOrStore` stores only into empty keys and the
  sweeper alone empties them; without this the sweeper could delete a newer object than the
  one it goes on to stop.
- `Unmapped`: what it goes on to stop is mapped nowhere.

`WaitsForAStart` (`StartComes`) adds `MappedComes`: whatever is mapped has been started or its
creator is about to start it, so that a request that finds it need not know which.
`RegistryShared` (`Atomic`) is the refinement, one lemma per kind of step (`LoadSteps`, `StoreSteps`,
`BeginStep`, `SweepSteps`, `QuietSteps`). The step that needs the invariant is `LoadOrStore` into an empty
key: the new object must be entered nowhere in `Registry`, which is `Private`; and `Start` is a `Begin`
only by `StoredStays` and `OwnKey`, since the object may have been swept before it began.

**KlinesProofs**: `KlinesTypeCorrect`, `OneWriterOfTheList`, `NoKlinesSocketLeaks`
(`NoSocketLeak`, with `Attended`: an open socket has a reader, so that one exists whose end closes it), `CandlesOnceReady`
(`ServedOnceReady`), `KlinesMirror` (`Mirrors`, the refinement) and `AnswersAreNewest`
(`AnswersNewest`). The refinement needs to know that the next event fits the list, which is a fact
about everything under way:

- `Stream`: from the event handled over those queued to, on an open socket, the exchange's
  latest update nothing is missing, though updates may repeat.
- `Answer`: the REST answer is no older than the event it was fetched for, nor than what was shown
  before the connection.
- `Loaded`: the list is `Window(u)` for its last update `u`; the event being
  handled is of an earlier candle, of the same, or the very next update; afterwards it
  is what the list ends in, or of an earlier candle. What was shown is of no later candle.
- `Started`: a connection begins without a list, so none is continued over a gap.

`Replaces`, `Extends` and `Trimmed` are the algebra of `Window` that makes the three branches
of `wsHandler` steps from one window to another, on four lemmas about division by `PerCandle`.

**DepthProofs**: `DepthTypeCorrect`, `ServesFreshBooks` (`FreshBook`), `PausesEarned`
(`PauseEarned`), `NoDepthSocketLeaks` (`NoSocketLeak`), `BooksNeverGoBack` (`NeverBack`, the
refinement), `AnswerFits`. `ReaderGone` (no reader outlives the connection given up) and
`Delivered` (everything under way is as new as the connection) carry `FreshBook`; `Paid` (a pause
counts for the failure it is about to follow) carries `PauseEarned`. The refinement of `DepthCache`
needs what is under way as a whole: `Ordered` (the events handled and queued come in the exchange's
order) and `Behind` (the book shown is no newer than any of them), from which each `Handle` shows
no older book, and a reset followed by a connection only ever moves `since` up.

**TickerProofs**: `TickerTypeCorrect`, `TickerLeaksOnlyStuck` (`LeaksOnlyStuck`). `Attended`: an open
socket has a reader and a watcher, so its end closes it. `OtherDone`: the socket
the supervisor does not turn to is lost or told to close, by which a turn that is gone on from leaves
none behind (`NoneBehind`). `BookUndialled`: at the nil send the book's socket was never opened, so that
the one that leaks is the other. That a socket does leak there is `ticker_leak`'s to show.

**BanDetectorProofs**: `DetectorTypeCorrect`, `AnswersTruly` and `SuspensionsBounded` (`Bounded`), of
the detector on its own, its methods called in any order. `AnswersTruly` is what callers rely
on: `CheckResponse` says TRUE exactly when it has set a suspension, and on FALSE has left the old one.
`Bounded` follows call by call: an answer sets `left` to one of `Durations`, the backoff is
capped at one of them (this is the part of the type invariant it needs), and everything else only shortens.

**ReverseProxyProofs**: `ProxyTypeCorrect` (`PTypeOK`), `ProxyBounded` (`Bounded`),
`ProxyMovedOnlyBySuspending` (`MovedOnlyBySuspending`), and `ProxyGated`
(`Gated`, the refinement of `BanGate`), for any number of requests and classes and any weights and
waits Binance may report. `PTypeOK` is inductive and enough: the gate's state is read off the
detector's fields, and each step maps to `Age`, `Admit`, `Leave` or a stutter (`GateSimulates`).
What leaves a suspension alone is `ResponseKeeps`, `ErrorKeeps` (an error that is not the last one
it takes) and `ClearedType` (`IsBanned`).

**LimiterProofs**: `RefusesOnlyWhenDone`: every weight fits the burst, so that the endless retries
around `RateWait` have no cause but a context that is done.

**ProcessProofs**: `ProcessTypeCorrect`, `AlwaysAvailable` (`NeverUnavailable`), `ServesToTheLast`
(`KeepsServing`), and `NeverStuckOnErrChan`: there is room for every listener's error. All rest on
`Accounted`: errors sent and received are as many as listeners that failed.

Only model-checked: liveness (the prover does not do fairness: `IdleClosed`, `AnsweredUnlessStopped`,
`CatchesUp`, `StopCloses`, `Recovers`, `AnsweredOrSent`, `Starts`, `InfoAnswered`, `EndsWhenDue`), and
the runs that find violations. Every invariant and every action property or refinement of a passing
run is proved.

## 5. Where the code and its own words disagree

Each is a run whose property TLC violates (details and lines in `PROJECT.json`):

- `service_stranded`: the sweeper stopping a service that has had no data leaves the requests
  that wait in `GetTicker`, `GetKlines` or `GetDepth` waiting for ever.
- `klines_ban_crash`: a ban during `initKlineData` leaves an empty list, and the
  merge that follows dereferences its missing last element.
- `klines_fake`: the fake candle always replaces the newest delivered one, and the answer jumps
  from the one before to the fake.
- `ticker_nil`: after a reconnection `GetTicker` reads through a nil `ticker24hr`.
- `ticker_both_lost`: both sockets lost together leave the supervisor blocked on a
  `stopC` nobody receives from; it never reconnects.
- `ticker_leak`: if the second of a ticker service's streams cannot be dialled, its supervisor blocks
  on that stream's nil `stopC`; the first stream's socket then stays open, also after `Stop`. The
  other place of `Stuck` leaks it as well.

One more has no run, the models not telling bodies apart: `refreshExchangeInfo` keeps the body of an
error response that is no ban (exchangeinfo.go:166), and the handler serves it with a 200 until the
next refresh, where README.md:124 has "Current exchange trading rules and symbol information".

Other behaviours the models have that a reader of the code should know, but which no
line of the repository clearly speaks against: a later answer may move the end of a
suspension in either direction (`setBanned` overwrites it), so that the fifth connection error,
of a request let through before, may leave of a ban of ten minutes a backoff of seconds
(`MovedOnlyBySuspending` says who may do that, and not which end should win); a 418 or 429 that also reports a high weight is
suspended only until the next minute, because the weight is looked at first; a request that passed the check
is sent even if the suspension begins while it waits for the limiter; the
`banned` flag `/status` shows outlasts the ban until a request asks `IsBanned`;
only the transport of the HTTP client with the 60 s timeout is used, so a forwarded
request has no timeout of its own (the server's `WriteTimeout` of 75 s, main.go:33, cuts the
client's connection and not the request to Binance); the sweeper may stop a service that was stamped
after it read the old stamp; a kline reader that is in `initKlineData` when its service is stopped
retries until the process ends, since every `RateWait` fails with the context done (its socket is
closed, `StopCloses`); the klines and ticker
supervisors never reset their delay iterator, so that late in a service's life every reconnection
waits a minute; `/restart` shuts nothing down gracefully but exits after five seconds, for both
classes; `GetExchangeInfo` blocks until there is information, so that the handler's "ExchangeInfo
not available" is never sent (`NeverUnavailable`), and a request waits out a ban that hit the first
refresh; with the context done a refresh is retried without end, until the process is gone; klines, depth
and ticker requests go to `reverseProxy` without `isUpstreamPath`; `/status` counts a
request like any other, and `RecordError` has no caller.

## 6. Not modelled, and what is left

Not modelled: composing headers and bodies and parsing them (represented by what they find);
logging and its cache; the string interner and the pools; the status tracker, whose counters nothing
but `/status` reads; flags; the refilling of the token bucket, which belongs to
`golang.org/x/time/rate`; durations of pauses, which only space attempts; methods
nothing calls (`ExchangeInfoSrv.Stop`, `SetDelayList`, `RecordError`; `Service.Stop` only as the
cancelling of the same context by a signal); the HTTP server's timeouts.

What a continuation would take up:

1. Composing the components that share the detector: klines initialisation and exchange info
   requests with `ReverseProxy`'s, in one model instead of the `Ban` and `Lift` of `ExchangeInfoSrv`.
2. `GetTicker`'s assembly from both streams, and how old either may be.
3. The exchange information as an abstract cache that is filled once and never emptied, with
   `ExchangeInfoSrv` as its implementation.
