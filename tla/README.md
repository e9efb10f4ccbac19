# A verification development for MaveriX-Oracle

The repository is a price oracle in three parts: a Solidity contract that keeps
rounds of prices, a Go server that reads and updates it behind an HTTP API with a
Redis cache and a Postgres table, and a separate browser dapp. This directory
models all three in TLA+, model-checks them with TLC and proves theorems about
them with TLAPS. Paths below are relative to the repository.

## 1. Inventory

| Component | Source | State | Operations | What makes it correct |
|---|---|---|---|---|
| Contract | `src/MockOracle.sol` | `rounds`, `latestRoundId`, `owner`, event log | constructor, `updateAnswer`, `getRoundData`, `latestRoundData` | no gap, no rewrite, times in order, the log replays the mapping, no wrap of the `uint80` id |
| HTTP handlers | `go-client/api/handlers.go` | none between requests; a request's locals during it | `GET /latestPrice`, `GET /round/{id}`, `POST /updatePrice` | replies are rounds of the chain, every request is answered, an update is one update |
| Updater | `go-client/internal/updater` | key, chain id | `UpdatePrice`, `IsOwner` | one nonce at a time, no gap in nonces |
| Retry | `go-client/internal/retry` | attempt counter | `Retry` | ends; does not repeat what was done |
| Reader | `go-client/internal/reader` | none | `GetLatestRoundData`, `GetRoundData` | passes values through |
| Table | `go-client/internal/db` | `oracle_rounds`, keyed by round id | `Save` (insert), `GetByRoundID`, `GetLatest` | a row is the round it is filed under, for ever |
| Cache | `go-client/internal/cache`, absent from the repository | key to round, 10 s TTL | `Get`, `Set`, `Del` | stale for at most a TTL |
| Middleware | `go-client/api/middleware.go` | the limiter's map of request times | CORS, logging, rate limit, API key | at most 10 requests a minute, client and process, no unjust refusal |
| Lifecycle | `go-client/cmd/server/main.go`, `config/` | the goroutines, the open connections, the signal channel, the shutdown's timer | start-up order, listening, signal, graceful shutdown | requests find every connection open and get their 30 seconds; the process neither lingers without a listener nor survives a signal |
| Health | `api/handlers.go`, `Dockerfile` | none in the handler; the container's status | `GET /health`, the container's probe | the report is exact; a service that hangs is noticed |
| Update script | `script/Update.s.sol` | none | one `updateAnswer` | |
| RPC wrapper | `go-client/internal/rpc` | none | not reached from `main` | |
| Binding | `go-client/internal/contracts` | generated | | |
| Dapp | `src/App.tsx` | the React state of each tab, history in `localStorage` | open, connect, select, load, transfer, mint, burn, save | the balance shown is the selected token's; the history records what succeeded and is not lost |
| Deployment, CI | `script/Deploy.s.sol`, `.github/`, `deployments/` | | | |

The README's flow is `Request -> Redis -> Postgres -> Ethereum RPC`. `net/http`
runs each request in a goroutine; all of them share the cache, the table, the
node, the server's one account and, in the middleware, one unlocked map. The
owner may publish beside the server with the update script, from the same
account. What is hard here:

- *interleaving*: two updates and one nonce; a cache fill across an
  invalidation; several handlers inserting one row; the limiter's map; `main` and
  the goroutine that listens; two tabs and one `localStorage`;
- *ordering*: the update reads the chain back before its transaction is mined;
  the dapp's loads end in any order;
- *failure*: every error of `Set`, `Del` and `Save` is dropped; the send ignores the
  request's context; the answer of the node can be lost after it took the
  transaction; the process can die between any two calls, and a service can hang
  rather than fail;
- *retry*: the retried function of an update contains the choice of the nonce;
- *staleness*: a row answers for the chain as long as it exists;
- *boundaries*: the last `uint80`, ids beyond `int64` and beyond `uint64`, zero and
  negative answers, a request exactly a minute old.

`PROJECT.json` lists each hazard at its line, with the properties that watch it.

## 2. Modules

```
PriceFeed      what a reader of the oracle is promised     (abstract)
  OracleService  what a client of the API is promised       (abstract, extends PriceFeed)
MockOracle     the contract                                 implements PriceFeed
  OracleNode     the node around it: nonce, pool, receipts  (extends MockOracle)
    OracleAPI      handlers, cache, table, retry, updater     implements OracleService
Middleware     the rate limiter
Lifecycle      main, its listener, signals, health check
Dapp           the tabs of the dapp and their shared history
MockOracleProofs, OracleAPIProofs, TransactionProofs, ServiceProofs,
RetryProofs, MiddlewareProofs, LifecycleProofs, DappProofs                theorems
MCMockOracle, MCOracleAPI, MCMiddleware, MCLifecycle, MCDapp              instances for TLC
```

**MockOracle** has the contract's storage as variables, plus its event log and the
time of the last block. `UpdateAnswer` is the transaction with its three
refusals in `UpdateAllowed`: the modifier, the `require`, and the checked
increment at `MaxRoundId`, which stands for `type(uint80).max`. A reverted call
changes nothing and appears only as the guard. `GetRoundData` and `RoundFound`
are the getter and its `require`.

**OracleNode** is what the updater relies on and the repository does not contain:
the count of mined transactions (`nonce`), the pool with its replacement rule
(only a dearer transaction replaces one with the same nonce; the node's minimum
bump of ten percent is collapsed to "dearer"), and the receipts of mined
transactions with the round each made, or 0 when it reverted. There are no
reorganisations. Signatures are deterministic, so a transaction is its own hash.

**OracleAPI** has one action for each call a handler makes to another process,
and everything may happen between two of them. A request is a record in `req`:
the next call (`pc`), what was asked, whether its context is alive, the attempt
`retry.Retry` is at, the data in hand, the transaction last signed and all that
the node took. `CacheGet`, `DbGet`, `RpcRead`, `CacheSet` and `DbSave` serve both
read handlers, whose bodies are the same but for the key and the lookup;
`CheckOwner`, `Prepare`, `Send`, `ReadBack`, `CacheDel` and `DbSave` are the update.
`Prepare` joins the calls of `NonceAt` and `SuggestGasPrice`: the second only picks
a price from `GasPrices` and depends on nothing that the first could change.
`Retried` is what follows a failed attempt: another one, or the reply 500
when it was the third or the context has ended.
A dropped error is a disjunct that changes nothing and goes on. A cancelled
context makes every later call fail, except the send, whose context `UpdatePrice`
never sets; a call in flight when the client leaves is one that was done before or
one that fails. `Crash` clears all requests and keeps Redis,
Postgres and the chain. Round ids change their width three times, and `MaxRoundId`
may be as large as it likes beside `MaxInt64`:

- `ChainId` is the conversion `int64(roundId)` of the asked id: beyond `MaxInt64` it wraps
  to a negative number, which the binding cannot encode as a `uint80`, so such a round can
  be published and still not be read over RPC by its id;
- `Uint64` is `roundId.Uint64()` of what the contract returns (`handlers.go:108`, `112`, `196`,
  `288`, `296`, `300`), which keeps the low 64 bits of a `uint80`. `EveryCopyIsAChainRound`,
  `NeverBehindArrival` and `ImplementsService` therefore hold until the contract's id
  outgrows a `uint64` (`IdsFit`, and `AnswerUnfit` of the abstract service): round 2^64 + k
  is filed and served as round k. `APIFaults` goes on to such ids;
- `Insertable` refuses ids beyond `MaxInt64`: gorm keeps a `uint64` key in a signed bigint,
  so from 2^63 on a round is served and cached but never stored. The key 0, which only the
  cut can make, is for gorm an unset one, and the column's sequence picks another
  (`RowIds`).

Left out: that `/round/7` and `/round/07` are two cache
keys for one round; wording and encoding.

**Middleware** takes the limiter apart into its accesses of the shared map: look,
write back the cleaned entry, check, read again, write the longer entry. A time is
a `Stamp`: what the model's coarse clock shows and the number of the request, since
the code's nanoseconds tell apart what that clock does not. The code looks at the
length of a slice and at the age of each time in it, never at their order, and no time
is in it twice (the second half of `CountedWereAdmitted`), so an entry is a set. Two
goroutines that append to one slice may share its array, and the time that stays
in the slot can be that of either (`SlotTimes`). Go's runtime may also notice
the race and end the process (`ConcurrentMapAccess`). What was let through stays in the
history `admitted`, and `started` marks where the next process begins, which knows
nothing of it: the counts are a process's own, and so are the promises, so that a client may
have its ten requests once more within the minute when other keys' races have killed the
server. The limiter stands before the API key, as `main.go` nests them; one connection has
one request at a time. CORS, the API key and logging keep no state, and nothing the limiter
promises depends on what they answer: they are left out, pre-flight requests, which never
reach the limiter, with them.
A cleaned entry that is empty keeps its key, as in the code. The check of the count
and the longer entry are separate accesses (`middleware.go:78` and after), so when
requests of one key overlap more than the limit can be let through. `raced` records
the keys for which two goroutines were ever between those accesses at once: the
limit and the justice of refusals are stated for the other keys, whatever goes on
beside them, and `CountedWereAdmitted` for all.

**Lifecycle** is the process from its start to its end, and the next one after it.
`main` goes through its stages: the configuration, the dial, the updater (which asks the
node for the network id, without a deadline), the database, the launch of the listening
goroutine, `signal.Notify`, the wait, the shutdown, and the deferred `Close` calls, last
first. The other goroutine is `Listen`, `Bind` and `Return`, with the checks of
`net/http` for a shutdown before and after the port is bound; only an error other than
`ErrServerClosed` is fatal. That may be one of the bind, or one of `Accept` while
requests run (`AcceptFails`), which kills them: `GraceHonoured` excepts it, and also
does not speak of what the Go runtime kills. Requests that come during a shutdown are
turned away by `net/http` and left out. Of the settings `LoadConfig` asks for two; a
missing API key and an address that is none pass unnoticed (`Unchecked`), and a server
runs with them, which `ServingIsReady` says and `Connected` shows in the report. A
signal before `Notify` kills the process; the channel holds one, and what finds it full
is dropped. The timer of the 30 seconds is unset, running or expired. A request only
runs or does not, and may run for ever. A service is up, down (its calls fail) or hung
(they never return); Redis does not hang, its client having timeouts. `HealthCall` is
one of the three calls of `HealthHandler`; the probe is the Dockerfile's `curl -f` with
its retries and timeout, without the length of the intervals. Failures in the start
period (`young`), which ends after its 5 seconds or with the first success, do not
count. The status of the reply is 200 whatever the report says, so only a service that
hangs makes a probe fail: that this gets noticed, and for good, is `HangIsNoticed`.

**Dapp** has one record for each tab: the token selected, the token whose balance is
shown, the loads in flight, the history and whether its effect has yet to save it. The
point of the model is which state a handler reads after an `await`: that of the render
which created it (the token), or, through the functional `setState`, that of the day
(the history). `transferTokens`, `mintTokens` and `burnTokens` differ in the contract
function alone and are one chain of `Click`, `Submit` (after the signer), `Mined` and
`Receipt`. A tab may be closed at any time and opened again from `localStorage`. Two
variables only record the past: `inTurn`, that a tab's loads came one at a time, and
`kept`, that tabs were used one after the other. Left out: amounts and their scaling,
the contract's address and decimals, which come with the token, price labels, which are
loaded like the balances, and the wallet's change of account.

**Slips.** Next to some definitions stands a slipped form of it
(`UpdateAllowedZero`, `NonceToUsePending`, `AtLimitLate`, ...), the mistake a plausible
edit of that code would make. No action uses them. Each run's properties were
checked against these: put in the place of the original, the slip makes TLC
report the property violated. They document what each property protects from.

## 3. Runs

| Run (`.cfg`) | Bounds | What it shows |
|---|---|---|
| `MCMockOracle` | 2 accounts, answers -1..2, ids to 4, times 1..3 | rounds gapless, ordered, immutable, replayed by the log; the contract implements `PriceFeed`. The id reaches its maximum, so the overflow is exercised; a stranger and non-positive answers are refused |
| `APIReads` | 2 requests of either read, 3 rounds of which the third is beyond `MaxInt64`, Redis, Postgres and RPC failing | every copy is a round of the chain under its own key; past the cache no reply is behind the table the request found (a cached one may be, for a TTL); the API implements `OracleService` |
| `APIUpdates` | 2 updates, 2 gas prices, 3 rounds, lost answers of the node | one transaction in flight; every accepted one mined, pending or outbid; a retried update sent at most three times; a hash is written to one row, by the request whose transaction the node took |
| `APIFaults` | 1 request of either kind, every fault, server owner or not, answers 0 and 1, 4 rounds with `MaxInt64` 1: the last is past a `uint64` | every call leaves a request fewer to make, and every request is answered; a transaction reverts only for a refused answer or at the last round id (which the blocks' times end with, so that the theorem and not this run covers it); copies are faithful until ids outgrow a `uint64` |
| `APILive` | 1 read or update in each of 2 slots, Postgres failing, 2 rounds | the cached latest price catches up with the table |
| `Limiter` | 2 goroutines, 3 connections of one host under 2 keys, limit 2, window 2, 4 requests let through | for keys whose requests never overlapped each process keeps the limit and justifies its refusals, across the restarts that other keys' races bring; races lose counts, never invent them |
| `Lifecycle` | a request beside the probe's, 3 failed probes, any number of restarts | requests find their connections open; the grace period is honoured unless Accept fails; a signal ends the process; start-up ends; health reports the services exactly, and the container notices one that hangs |
| `Dapp` | 2 tabs, 2 tokens, 2 transactions, one user who changes token | histories hold successes only, are not lost by a reload, and every success reaches `localStorage`; the balance at rest is the selected token's |

The bounds are small because the interesting cases are: a fill across a
publication needs two requests and two rounds, an outbid transaction two
prices, the retry that publishes twice one request, three attempts and a lost
answer. Three rounds allow a copy that is behind by one and by two.
`MaxAttempts` is the code's 3 throughout, as are the container's `Retries`. The
limiter's 10 and one minute become `Limit` and `Window` of 2, enough for a request to
be counted, to be refused, and to grow old; `MaxTime` and `MaxAdmitted` bound the clock
and the history; 4 let a key be filled, the process die and the key be filled again.
`Times` bounds the blocks. A request and the probe's let one outlast the other in a
shutdown. Two transactions can be confirmed out of order in one tab, or one in each
of two tabs that share the storage; one tab whose user changes to the other token, once a
visit, overtakes its own loads, and the second would only repeat that.
Slots are symmetric in the safety runs; the runs with liveness use no symmetry.
Deadlock is checked where the system never stops, the contract and the process,
and not for the server, the limiter and the dapp: with the bounds used up, all
requests may rest.

Four more runs end in a violation: each states what a document or a comment of
the repository says, and its trace is a scenario of the code that disagrees.

| Run | Says | Trace |
|---|---|---|
| `StaleReadBack` | "Get updated data with retry", `handlers.go:273` | the reply has the round before its own, since nothing waits for the block |
| `RetriedUpdate` | "Update price with retry", `handlers.go:260` | lost answer, block, second send with the next nonce: two rounds |
| `OutbidUpdate` | "Update price", `README.md:37` | an answered hash is replaced in the pool by the next update |
| `StaleTable` | "Get latest price (cached)", `README.md:35` | the script publishes; the table answers for ever with the older row |

Smaller disagreements were met and have no run, each being one or two steps of a
model:

- requests of one client that overlap can pass one check of the limiter together
  (`middleware.go:78`), so more than ten a minute are let through: this is why
  `WithinLimit` speaks of keys not in `raced`;
- an in-flight fill can put the older round back after the `Del` of
  `handlers.go:293` ("Invalidate cache"), which `CacheCatchesUpWithTable` shows to last
  no longer than the TTL;
- without a forwarding header `getClientIP` returns address *and port*
  (`middleware.go:131`, "extracts the client IP"), so each connection is limited on its
  own;
- `README.md:30` tests `/latestPrice` without the API key that every path but `/health`
  asks for;
- health, "for all services" in `README.md:38`, replies 200 with all of them down, so the
  container stays healthy;
- `config.go:56` takes a missing `API_KEY` and `main.go:37` any string for an address;
- an error of `Accept` is fatal under running requests (`main.go:88`), although the shutdown
  means to "give outstanding requests 30 seconds to complete" (`main.go:99`);
- ids are cut to 64 bits, as said of `Uint64` above;
- a signal between the launch of the listener and `signal.Notify` still kills the
  process under its first requests, and a second signal during the shutdown does
  nothing;
- a load of the dapp that is overtaken, fails, or follows a transaction of another
  token leaves that token's balance under the selected symbol, and two open tabs
  overwrite each other's history: what `inTurn` and `kept` except.

**Fairness.** `FairSpec` adds weak fairness of each request's own next call
(`net/http` gives it a goroutine and each call ends in a result or an error), of
the expiry of each cache entry (the TTL), and of mining. Nothing obliges clients
to come, the script to run, faults to happen or to stop. A node that accepts a
connection and never answers is outside this assumption: the code sets no deadline.
`Lifecycle` has that case: there no request need finish and no service recover. Its
fairness is that of the scheduler for the two goroutines, of the context's timer and
of the container's probing and age; nobody has to start the process or to signal it. In
`Dapp` the browser runs the effect that saves, and a handler whose receipt has come
(`Receipt`); no promise of the wallet or the chain need settle, and no user act.

## 4. Proofs

`MockOracleProofs` proves of the contract, for every set of accounts, answers and
times and every width of the round id: its type invariant (`ContractTyped`), the
four safety properties, the immutability of rounds, and that it implements
`PriceFeed` (`ContractImplementsFeed`). The inductive invariant `ContractInv` joins type,
gaplessness, order and log: none is inductive alone, since a new round keeps the
order only if the last round is not in the future, and it rewrites nothing only
if the next id is still unwritten. The refinement is one step for the initial
state and one for each action, `NextBlock` being a stutter.

`OracleAPIProofs` proves of the whole API, for any number of requests, rounds and
prices and every set of faults:

- `APIRefinesContract`: every behaviour is one of `OracleSpec`, so the theorems on
  the contract hold beneath the handlers and are used as facts there;
- `APITyped`: from `APIInv`, which adds to the types what the actions rely on: a
  handler is in the middle of an operation with an argument of its kind, and one
  about to send has signed a transaction (`HandlersSound`); the table's newest id
  is well defined (`NewestExists`);
- `OneTransactionInFlight`: `OnePendingTx` is part of `APIInv`; a signed
  transaction held by a handler has a nonce that is not in the future, so what
  the node accepts has exactly the next nonce and replaces what is pending;
- `CopiesFaithful`: `CopyInv` says of the cache, the rows and the data in hand
  together that each is the chain's own round. It needs all three at once, as
  each is copied from another, and the immutability of rounds to survive a block. All of
  it is under `IdsFit`, where `Uint64` returns what it is given; since the contract's
  latest id never falls, what holds of the ids after a step held of them before.

`TransactionProofs` continues with what becomes of a transaction, under `APIInv` and
`TxInv`, which relates the handler that signed it, the node and the table:

- `NoTransactionLost`: an accepted transaction keeps being accounted for, because the
  pool replaces one only by a dearer one with its nonce and a block that takes it
  spends the nonce;
- `HashesFiledOnce`: an action property, of the step that writes a hash: it is that of a
  transaction the node took from the request that writes, and no other row has it.
  `TxInv` adds that no transaction is that of two requests. This holds although two
  updates may sign for the same nonce: had the node taken the same transaction before,
  it would be accounted for, and then it is either too old or not dearer, and the node
  refuses it. A hash is filed only when its request is over, so no later step can file
  it again;
- `ReceiptsFaithful`: from `ReceiptInv`, whose first part (`PoolOfOwner`) says that what
  is pending is the owner's. The check of the owner and the send are several calls
  apart, and a reverted transaction has no other cause left than its answer or the
  last id only because the owner never changes.

`ServiceProofs` proves what clients are told:

- `RepliesNotBehind`, while ids fit a `uint64`: from `FreshInv`. What a request found at
  its arrival, a row for a reader and a round for an update, is still there when the
  handler reads it, since rows are only inserted and rounds only added;
- `APIImplementsService`: the API implements the abstract `OracleService`. Each handler
  step moves one client from waiting to answered or refused, or is a stutter; that
  an answer is a published round, and the one asked for, is `CopyInv`; a block is a
  step of the feed (`FeedStep` of `MockOracleProofs`) and is nothing to the clients; a crash
  refuses whoever waits. An answer given when ids no longer fit is a step of `AnswerUnfit`,
  with which the abstract service says that it promises nothing then.

`RetryProofs` proves what the loops of `retry.Retry` come to:

- `CallsRunOut`: `CallsLeft` is the longest way a handler can still have to go, and every
  call shortens it, so seven calls answer a read and fifteen an update (`Prepare` makes two).
  This is the half of `EveryRequestAnswered` that needs no fairness;
  the attempts left of a loop count for all the calls of one round of it, two in the loop of
  the send, and what follows the loop counts on top;
- `RetriedSendsBounded`: from `SendInv`, that what was sent and what may still be sent
  (`SendsLeft`, nothing outside the loop) are at most three together. The bound alone is not
  inductive. Both follow from `HandleAdvances`, one lemma about all ten calls.

`MiddlewareProofs` proves all the safety properties of the limiter, for any number of
goroutines and connections, any limit and any window:

- `LimiterTyped` and `NothingInvented`: from `CountInv`, which says of the map and of what
  each goroutine holds in hand that a stamp in it is that of a request of this client that
  was let through (`EntriesSound`), that requests between the check and the write have
  numbers of their own (`NumbersSound`), and that a request yet to read the entry is
  counted nowhere, one about to write it not in what it has read (`Uncounted`). The last is
  what keeps a shared slot from counting a request twice;
- `LimitKept` and `RefusalsJustified`: from `LimitInv`, which adds `KeySound(k)` for each key
  not in `raced`: at most one of its requests is between the first and the last access;
  what the entry does not hold of the requests let through is about to be added or too
  old (`Remembers`); and the one request there has in hand what the map holds, with no
  later time in it, and at the check none too old. The number of recent requests is then
  the size of the entry, by the bijection of a stamp to its number, and the check bounds
  it. Other keys' goroutines write
  the same map: one frame lemma says that a step of another key leaves this key's part
  of the state as it was, a second what is left to show of a step of its one request.
  `ConcurrentMapAccess` starts all of it afresh: what the dead process let through stays in
  `admitted` and is not in `Own`, the part the running process answers for.

`LifecycleProofs` proves of the process, for any number of requests and retries:
`LifecycleTyped`, `ReadyWhileServing` and `NoEarlyEnd` from `LifecycleInv`, which says what
has been checked and opened by each stage of `main`, what the listening goroutine
may be doing at it, and that requests run only behind a listener that was on: it
relates the two goroutines, and no part of it is inductive alone. `ReportsExact` is from
`ReportSound`, the report after each call of the health handler.

`DappProofs` proves of the dapp, for any number of tabs, tokens and transactions, all
its safety and action properties, types included (`DappTyped`, with the lemma that there
are no more transactions than clicks). `DappInv` says that whatever is recorded has
happened (a success is final, so a record stays true), and that as long as tabs are used
in turn the open one knows all that is stored; `ReloadsRemember` needs the last of
these, since a save overwrites. `BalanceTrue` is from `BalanceInv`: one load in flight
is that of the selected token.

The assumptions are those named in the modules: `OracleAssumption`, `NodeAssumption`,
`APIAssumption`, `MiddlewareAssumption`, `LifecycleAssumption`, `DappAssumption`. TLC
evaluates them in every run of the modules that have them. Beyond types they say little
of the constants: that the ids asked for fit a `uint64`, as the handler's parsing sees
to, that the limit and the window are not zero, and that `Null`, what `localStorage` has
for nothing, is no set of transactions.

Every invariant and every action property that a passing run checks is stated by a
theorem. Only model-checked are the liveness properties, which are beyond the prover:
`EveryRequestAnswered`, `CacheCatchesUpWithTable`, `SignalEndsProcess`, `StartsOrDies`,
`HangIsNoticed` and `SuccessIsStored`.

## 5. Not modelled

- The RPC wrapper `internal/rpc`: `main` does not reach it. The getters of the reader
  and the methods of the table that nothing calls.
- The generated binding, whose calls appear as those of the reader and the updater.
- Deployment and CI: one-shot scripts; what `Deploy.s.sol` does to the contract is its
  constructor.
- Of the configuration, its values: only whether they are complete and usable.
- Logging, CORS, the API key and response headers, which carry no state.
- Requests that arrive during a shutdown, which `net/http` turns away.
- Chain reorganisations: the code has no notion of them.
- Of the dapp: amounts and their scaling, price labels, the wallet's change of account.
- Time as durations: delays between attempts, the length of timeouts and intervals.
  A timer runs or is over; only the limiter's window and the block times are numbers.

## 6. Plan

Done: the contract, the node, the API, the middleware, the process, the dapp, and the
theorems above. What is left would add less:

1. the loop of `retry` alone, with its delays as numbers, implementing "at most three
   attempts, the delays doubling";
2. the dapp with a wallet that changes its account between a click and its
   signature.
