# Verification of the API gateway

The repository is an HTTP gateway in front of two external APIs (Jina and
Serper).  A request passes a *tollgate*, which charges the caller's key one
unit of quota in Redis and refunds it when the request fails, then a *response
cache*, then a reverse proxy.  Quotas are administered in Postgres and copied
into Redis by a *cache warmer*.  There are no Go tests; concurrency, failures
of Redis and Postgres, retries and restarts are what these models are for.

## Inventory

| component | code | state | operations |
|---|---|---|---|
| tollgate | `pkg/tollgate/tollgate.go`, `redis_adapter.go` | one Redis hash per key and service (`available`, `consumed`, `service_account`), one hash of minute buckets | `ServeHTTP`: `Reserve`, next handler, `Refund`; Lua script `updateQuota` |
| response cache | `pkg/cache` | local TinyLFU per process, shared Redis | `ServeHTTP` and `RoundTrip`: key, `Get`, `Set`, `Release` |
| cache warmer | `pkg/cw.go`, `cmd/cachewarmer` | locals of `Do`: offset, batch, errors | `Do`, `BatchDo`, Lua script `writeQuotaAndMetric` |
| gateway process | `cmd/cachev2/main.go` | two proxies, each with its name server, service id and connection | warm up, build the proxies, serve, shut down within 10 s |
| name server | `pkg/ns.go` | cache of ids (local and Redis, 30 min), singleflight, one `*pgx.Conn` | `ResolveServiceName`, `ResolveAPIKey` |
| admin | `pkg/admin`, `cmd/admin` | Postgres through one `*pgx.Conn` shared by all handlers | create user, add key, open service, invite |
| staff service | `pkg/staff`, `cmd/staff` | sessions in Redis, each loaded and saved as a whole; one `*pgx.Conn` | request and complete a verification, log out, mail a key |
| dump reader | `cmd/rdb` | goroutines joined by bounded channels | read, filter, transform, decode, write |
| backup job | `pkg/backup` | - | unfinished, no program runs it |
| static key tollgate, proxy rewrites, configuration, logging, templates, generated queries, older gateways | `pkg/tollgate/sk_adapter.go`, `pkg/proxy`, `pkg/env.go`, `pkg/slog.go`, `pkg/templa`, `pkg/dbsqlc`, `cmd/cachev0`, `cmd/cachev1` | none of their own | stateless |

**How they interact.**  Each request is a goroutine that runs tollgate, cache
and proxy as nested handlers.  The tollgate resolves the key through the name
server (Redis, else Postgres) and then runs a Lua script in Redis.  The cache
keeps its entries in the same Redis and in a local cache per process.  The
warmer reads pages of quota rows in Postgres and writes hashes that do not
exist.  The admin service writes those rows, and the staff service reads users
and keys.  Nothing flows from Redis back to Postgres.

**What is hard.**
- Quota: a non-idempotent script behind a client that retries; a reply lost or
  a command executed after the request was answered; a refund that runs under
  the cancelled context of its request; a panic or the end of the process
  between reservation and refund.
- Cache: two layers touched in two steps by the handlers of several processes;
  hits that write back the copy they read; entries from older builds.
- Warm-up: pages by `OFFSET` over a table that changes; errors that skip a page
  and go on; charges between the read of a row and the write of its hash.
- Admin: transactions of several handlers on one connection; clients that leave
  inside a transaction; two processes that create the same user.
- Login: concurrent requests of one browser that each write the whole session.
- Name server: lookups of different keys at once on one connection whose busy
  flag is read without a lock; callers that wait for another's query; ids that
  outlive the process in Redis.
- Gateway: ids resolved by another request or an earlier process; a second
  lookup between a failure and its refund; what a process has sent and nobody
  waits for.
- Dump reader: a stage that stops reading while the one before it still sends.

**What makes each part correct.**  Tollgate: no key is overdrawn, the books
match what was executed, whoever is served has paid once, and whoever failed is
refunded.  Cache: an answer is a success, of a request with the same key, which
tells requests of one method apart, and not older than the TTL.  Warmer: a warm-up without an error has loaded every row that was
there, and forgets no charge.  Admin: what is answered is stored, and nothing
half done ever is, as far as handlers do not share a transaction.  Login: a session belongs to the address whose link was
presented, each link works once, and a logout is final.  Name server: a name
resolves to its own id, with one query however many ask.  Gateway: a request
pays from its own account only, nothing when it fails, and ends.  Key mail: a key goes to the address of its user.  Dump reader: every
record is written once, and the pipeline ends.

The hazards are listed one by one, with the properties that cover each, in
`PROJECT.json`.

## Modules

| module | models | runs |
|---|---|---|
| `Tollgate` | `ServeHTTP`, `Reserve`, `Refund`, `updateQuota`, the go-redis client, warm-ups | `MCTollgate`, `Tollgate_*.cfg` |
| `QuotaLedger` | abstract: what the quota store promises under any fault | refined by `Tollgate` |
| `PayPerSuccess` | abstract: what a client is promised when no command is lost | refined by `Tollgate` |
| `TollgateProofs` | theorems about `Tollgate` | TLAPS |
| `NameServer` | both lookups: caches, singleflight, one connection; an open component without a specification of its own | composed by `Gateway` |
| `Gateway` | the process of `cmd/cachev2` and its requests, around `NameServer` | `MCGateway`, `Gateway*.cfg` |
| `GatewayProofs` | theorems about `Gateway` and `NameServer` | TLAPS |
| `ResponseCache` | `ServeHTTP` and `RoundTrip` over the two layers | `MCResponseCache`, `ResponseCache.cfg` |
| `RefreshHistory` | `ResponseCache` with a record of who was answered before whom | `MCRefreshHistory` |
| `ResponseCacheProofs` | theorems about `ResponseCache` | TLAPS |
| `CacheWarmer` | `Do`, `BatchDo`, `OpenServiceForKey`, the charge of a unit | `MCCacheWarmer`, `CacheWarmer.cfg` |
| `CacheWarmerProofs` | theorems about `CacheWarmer` | TLAPS |
| `Admin` | the handlers of `pkg/admin/api`, `InviteNewUser` and `SendInstructionHandler`, statement by statement on shared connections | `MCAdmin`, `Admin*.cfg` |
| `AdminProofs` | theorems about `Admin` | TLAPS |
| `StaffLogin` | the handlers under `/auth` of `pkg/staff` on sessions loaded and saved whole | `MCStaffLogin`, `StaffLogin.cfg` |
| `StaffLoginProofs` | theorems about `StaffLogin` | TLAPS |
| `DumpReader` | `ToJSONLine` of `cmd/rdb` | `DumpReader.cfg` |
| `DumpReaderProofs` | theorems about `DumpReader` | TLAPS |

### Tollgate

`pc[r]` is the place of request `r` in `ServeHTTP`: `reserving` (inside
`Reserve`), `serving` (inside the next handler), `refunding` (inside `Refund`)
and the ways it ends: `kept` (success), `failed` (answer of 400 or more, refund
done or given up), `payment_required` (402), `error` (500), `aborted` (panic),
`killed` (end of the process).  `Send` is one transmission of the script by
go-redis, `wire` the commands Redis has not executed, `Execute` the atomic run
of `updateQuota`, `Lose` a reply that does not come, `CallFails` and
`CallReturns` the two ends of a call.  `Execute` may run a command whose caller
no longer waits: then the quota moves and nobody hears of it.  The constant
`Faults` switches the environment's failures on by kind.  `ledger` is a history
of script executions and has no influence on the steps.

A key in `Limited` has the field `service_account`, which is what makes the
script check and lower `available`; the code's amounts are always 1 and -1.
`BucketLife` stands for `MetricTTLSeconds`, counted in buckets.  Failing key
resolution is a fault of its own (`resolve`): it happens before the first
`Send`, and covers the empty key, the unknown key and a failing name server.

The minute buckets are in the model, and expire, but no property is about them:
a refund subtracts from the bucket of the minute it runs in, so a bucket has no
meaning of its own beyond the sum of what was executed in it.

Not in the model: Redis losing data, the service id (one service), and
`updated_at`.

### NameServer and Gateway

`NameServer` has the state of the name servers (`local`, `conn`, `flight`), the
Redis and Postgres they share (`shared`, `rows`) and one call per goroutine:
`Get` is the first look into the cache, `GetAgain` the second one inside
`sf.Do`, `Query`, `Answer` and `Store` the flight of the one that asks; `Land`
ends it and hands its result to all who `wait`.  Both lookups differ in the
query alone, so they share the actions; a name is a pair of kind and string, as
the two tables count their ids from 1 separately.  What a look into the cache
finds is the local copy, Redis' copy or nothing (`Found`): TinyLFU may drop a
copy at any time, entries expire, and an error of Redis is a miss.

A `pgx.Conn` refuses a query while another runs and stays closed once it is
closed (`Query`, `QueryFails`).  pgconn keeps its busy flag without a lock, so
two goroutines that call at once may both find it clear.  The Go memory model
gives that race no meaning; the model lets each of the two get the answer to any
query sent over the connection, an error, or nothing ever (`AnswerMixed`), and
notes it in `raced`.  The properties hold up to the first race and say so: after
one, a request may indeed be charged to another key's account or hang.

`Gateway` says who calls.  `Main` connects and resolves the service of each
proxy (`Connect`, `Built`), a panic on the way ends the process (`StartFails`),
a signal starts `Shutdown`, which waits for the requests or its deadline
(`Exit`), and `Crash` may happen at any time; all three ends lose what is not in
Redis or Postgres, and the process may be started again.  A request names its
proxy and its key, looks the key up, is charged (`Reserve`), served, and when it
fails looks the key up a second time before it is refunded (`Refund`).

A call of the script is one step here, where `Tollgate` has each send, execution
and reply.  The step says which of its sends (`Sends`, up to `MaxTries`) have
been executed with `OK` when the call returns and which are still on their way
(`Run`).  With every reply received there is one send and its reply decides
(`Answered`).  When replies are missed, any subset of the sends may have been
executed and any other still be (`Missed`): the call may end in `OK`, in a
refusal of what an earlier send has charged, in an error, or in a double charge.
Sends left on the way are in `wire` and may be executed at any time later
(`ExecuteLate`), also those of a process that has ended (`Down`).  A client may
leave at any time (`Disconnect`), and then neither call sends anything.
`ledger` has the sends that were executed with `OK`, `lost` the requests that
missed a reply, `unresolved` those whose refund found no id; the three are
history, but that a refund is refused only where no hash exists (`Refunds`).
Errors of Redis itself, which answers the script or not at all, and panics of a
handler, which are in `Tollgate`, are left out.

`Gateway.cfg` has one service, `jina`, and two keys, one of which has the name
and one the id of the service; its script answers.  `Gateway_script.cfg` has one
key for both requests, a Postgres that works, and a script that does not.

### ResponseCache

`pc[r]` follows `ServeHTTP`, or `RoundTrip` for the requests in `Transport`,
which differ in how they call upstream, between the accesses to a layer: each of `Get`,
`Set` and `Release` is one step for the local cache and one for Redis, as in
go-redis/cache.  `hold[r]` is the decoded copy the handler read or is about to
write.  An entry carries the request that produced it and its time (history)
and the expiration the code stores; `hold` is let go with the entry's last use.
Redis outlives the gateways, so under the keys in `Leftovers` it may start with
bytes that do not decode.  A command to Redis may fail
(`RedisFails`), also because the request's context is cancelled.  `succeeded` is
history: the requests upstream answered in full with a success.  `Evict` and
`ExpireRedis` are the two layers' own expiries; neither is assumed to be
prompt.  A status of 400 or more and a panic of the proxy are one outcome,
`failure`: neither is stored.  `RoundTrip` reads the body before it stores it,
and stores nothing when that fails.

The key is the bytes the code hashes, `Url \o Body` with nothing between and
without the method, so different requests may share one; the 64-bit hash of
those bytes is taken as injective.  Query parameters are taken as already sorted.
`LastAccess`, `Frequency` and headers are left out.

### CacheWarmer

Each warm-up has the locals of `Do`.  `Page(o)` is the query's `ORDER BY id
LIMIT OFFSET` on the rows committed at that moment; ids are drawn before the
commit, so a row may appear below those already read.  `QueryFails` skips the
page, as the code's `continue` does, and may leave the connection closed for
good (`broken`): a `pgx.Conn` does not reconnect.  `WriteFails` is an error of
one record, whether or not Redis executed the script.  No code deletes a quota
row or takes a key out of the status `assigned`, so rows never disappear.  Only
keys with `has_quota` are modelled; the others differ in the field
`service_account` alone.  The offset stops at `End`, from where every page is
empty.

### Admin

`tx[c]` is the status of a process's one `pgx.Conn`, `draft[c]` the rows its
open transaction has written, `db` the committed ones; a statement sees `draft`
over `db`.  Each step is one statement; `pc[r]` names the next one and `work[r]`
the transaction it belongs to.  `StatementFails` is a statement that never
reaches Postgres or is refused by it, `CutOff` one during which the client
leaves.  pgx closes a connection on which `Begin` or `Rollback` fails, or a
`Commit` with a transaction open, and does not reopen it.  A deferred rollback
is the step `rollback`; `CreateNewUser` goes on to insert after *any* error of
its check, as the code does.

Any number of handlers may be on a connection at once (`Arrive` has no
condition), as `cmd/admin` and `cmd/staff` serve concurrently on one `pgx.Conn`.
A `BEGIN` inside another handler's transaction joins it, and the first `COMMIT`
or `ROLLBACK` ends the work of all that are `Inside` it, after which their
statements commit one by one.  `joined` is history: the requests to whose
transaction that ever happened.  `AnsweredIsStored` and `KeysAreAssigned` are
promised to the others, whatever the joined ones do; `Admin_overlap.cfg` shows
that they are broken for those.  The other properties are of all requests.

Clients know the ids
of rows that are committed or in a transaction (another handler of the same
connection may list them) and one that does not exist.  The statements of
another connection see committed rows only, and wait for its row and
unique-index locks.

The staff service has a connection of its own, `StaffConn`, on which
`SendInstructionHandler` looks up the user of an address (`AllowList`) and a key
of that user (`IdToKey`) in two statements, between which admins go on; it then
mails the key (`SendInstruction`).  The code takes the user's newest key; the
model takes any, as keys have no time in it.

Not in the model: the data race inside pgconn's own busy flag, which Go leaves
undefined and `NameServer` has; here a handler finds the connection free or,
with another on it, busy, nondeterministically.

### StaffLogin

A session is one value in `store` under a token.  scs loads it before the
handler (`Load`), the handler changes its copy `data[r]`, and scs writes it back
whole with the answer (`Commit`), so the steps of concurrent requests of one
browser interleave.  Links are named by the request that drew them; `login` is
the link that was presented (the code keeps only that there was one).  The mail
goes out before the session is written, as in the code.  `RenewToken` and
`Destroy` drop their errors in the handlers, which the fault `delete` exercises.

Not in the model: a session write repeated late by the Redis client, the
24 h lifetime as a clock (`Expire` may happen at any time), the dashboard.

### DumpReader

`chan[s]` is the bounded channel goroutine `s` sends to, `open` the goroutines
that have not closed theirs, `hold` the object each has received and not passed
on.  `Passes` is what a goroutine makes of an object; `filterStream` and
`decodeStream` drop one and go on, `transformStream` returns (`GiveUp`), and the
parser may end anywhere, as its error is dropped (`ParseEnds`).  A goroutine
whose receiver has returned blocks on its full channel; the model then simply
never enables its `Send`.  `WriteData` and `WriteNewline` may fail, the former
after a part of the record.

## Runs

| run | checks | bounds |
|---|---|---|
| `Tollgate_faults` | `TypeOK`, `BooksBalance`, `Conservation`, `ServedIsCharged`, `RefundOnlyFailures`, `ImplementsQuota`, `EveryRequestAnswered` | two requests on a limited key with one unit, two sends per command, one bucket; all five kinds of faults |
| `Tollgate_reliable` | `RefundUnlessGone`, `ImplementsPayment`, `NoLateExecution` | three requests, a limited and an unlimited key, two buckets; disconnects, panics, crashes |
| `Tollgate_refund_lost` | violates `FailedRequestsAreRefunded` | one request, disconnects |
| `Gateway` | `TypeOK`, `OneQueryPerName`, `OwnAccountOnly`, `EveryRequestEnds` | one service, two requests, two keys; closed connections and races for them, any number of restarts; the script answers |
| `Gateway_script` | `OwnAccountOnly`, `ChargedOnce`, `FailuresPayNothing` | one service, two requests of one key, two sends per command; lost commands and replies, disconnects, any number of restarts |
| `ResponseCache` | `TypeOK`, `SameMethodToldApart`, `OnlySuccessesStored`, `HitsWithinTTL` | two POSTs to one URL with different bodies and, with the bytes of the first, a GET through the transport and the URL of a refreshing POST; two gateways, TTL 2, clock to 2, bytes of an older build under the key the three share, Redis may fail |
| `RefreshHistory` | violates `RefreshFrees` | three POSTs, the second a refresh |
| `CacheWarmer` | `TypeOK`, `CleanWarmUpIsComplete`, `NoChargeForgotten`, `WarmUpEnds` | two warm-ups, three rows, pages of two |
| `Admin` | `TypeOK`, `AnsweredIsStored`, `KeysAreAssigned`, `KeysGoToTheirUsers`, `TransactionsEnd`, `EmailsAreUnique`, `QuotasByOwner` | three requests that overlap on the connections of two admin processes and the staff service, two addresses, one client that leaves (`MCOneLeaves`), one invitation (`MCOneInvites`), any number of restarts |
| `Admin_overlap` | violates `CreatedUsersExist` | two requests that overlap on one connection |
| `StaffLogin` | `TypeOK`, `LoginProvesAddress`, `SpentLinksStayDead`, `LogoutIsFinal` | four requests, two browsers, two addresses, a failing session store |
| `DumpReader` | `TypeOK`, `OkFileIsWhole`, `NobodyLeftBehind`, `AlwaysReturns` | four objects of any kinds, one place per channel |

Why these bounds are enough to see the interesting cases: two requests on one
unit is where a race for the last unit, a retry that finds the quota exhausted
by its own first execution and a refund that revives the other request all
occur.  Two sends per command is one retry, so a command can be executed twice
and late.  Two buckets let a bucket expire.  In the cache, with a TTL of 2 and the clock
running to 2 an entry is young, old and expired while handlers of both gateways
hold copies; one key is shared by a GET, a POST and a refresh, so that an entry
is stored, hit and written back, and hit again.  In `Gateway` two requests are one that asks and one that waits, for one key, or two that
meet on the connection, for different keys; ids of one process are read from
Redis by the next.  Two sends of a call are executed both, one of them or none,
in time or late.  Three rows in pages of two give a full page, a partial page
and shifts between them.  In `Admin` two processes race for an address while a
third request takes over a connection that an abandoned one left, joins a
transaction, or ends one under the other; a second client that leaves would
fail its statements as a busy or closed connection does, and a second invitation
would run the statements of a new user and a new key.  In
`StaffLogin` four requests are two links, a login and one late writer, or a
link, a login, a logout and one late writer.  In `DumpReader` four objects and
channels of one place fill every channel behind a goroutine that has returned,
with one object more in its hands.

`Admin` and `StaffLogin` use the symmetry of values that no
constant distinguishes; the runs with liveness properties use no symmetry.  Deadlock is
not checked in `Tollgate`, `ResponseCache`, `Admin`, `StaffLogin` and
`DumpReader`, where the system comes to rest once every request is answered or
the program has ended; it is checked in `CacheWarmer` and the two runs of
`Gateway`.

**Fairness.**  Handlers: a runnable goroutine runs, a wait for Redis ends with
the reply or the read timeout, and the next handler returns (`WF` on `Step`).
Redis: it works through its sockets (`WF` on `Execute`).  Warm-ups: a database
asked again and again over an open connection does not fail for ever (`WF` on
`ReadPage`, which stays enabled while queries fail).  Gateway: a request's goroutine runs on
and Postgres, Redis and upstream answer it or fail (`WF` on its steps); an
answer swallowed by a race never comes, and `EveryRequestEnds` excepts it.  Dump
reader: each goroutine runs when it can, and the parser and the disk answer.
Nothing is assumed of clients, administrators, clocks, evictions or faults.
`EveryRequestAnswered` of the tollgate is checked with every fault: a lost reply
ends in the next send, and the last one in an error.

### What the violations show

- A request whose client disconnects while it is served fails without a refund:
  `Refund` gets the request's own, cancelled context (`tollgate.go:64`).
- A refresh of a POST frees the key of the bare URL (`middleware.go:41`): the
  stored response of that POST is served again.
- Two requests of one admin process for one address: the second sees the user
  the first has inserted, returns an error, and its deferred rollback ends the
  transaction they share; the first then commits nothing and answers 201
  (`create_new_user.go:12`, against `api.yaml:68`).

Other divergences met and not run: a reservation that took the last unit and
whose reply was lost is sent again by go-redis, finds the quota exhausted and is
answered 402, though charged, and one that did not take the last unit is charged
twice (`redis_adapter.go:164`, against `adapter.go:9`; excepted as `lost` in
`Gateway`, and by a hypothesis of `RefusedIsNotChargedCorrect`); a handler of
the admin API commits what another has written in the transaction they share,
so a key may be committed unassigned and mailed (`add_key_to_user.go:13`;
excepted as `joined` in `Admin`); a POST with an empty body is answered with the
response to a GET of the same URL, and a GET with that to a refreshing POST
(`cache.go:141`, `middleware.go:41`; `SameMethodToldApart` is about the rest); a
refund in the minute after its reservation leaves a bucket at -1
(`redis_adapter.go:74`), which SCHEMA.md:151 calls a number of requests; a
warm-up never updates a hash that exists,
whatever `updated_at` says (`cw.go:28`, against case (B) of the comment on `Do`,
`cw.go:103`), so a hash older than its topped-up row stays as it is; a refund
whose second lookup fails, for example because another lookup uses the
connection, is dropped and its unit lost (`redis_adapter.go:189`,
`tollgate.go:65`); an object in the dump that is no response of the cache (the
name server keeps its ids as strings of the same Redis), or an error of the parser,
ends the output of `rdb -c jsonl` early without an error (`jsonl.go:91`, `44`);
an entry of the cache that does not decode is neither released nor replaced
(`middleware.go:52`); when `ListenAndServe` fails the gateway logs it and waits
for a signal without serving (`cachev2/main.go:196`); a service associated with a key a second time is answered
201 and its available quota set anew, where `api.yaml:298` has a 409; one
client that leaves during a transaction closes the admin process's only
connection for good; PLAN.md wants the tollgate after the cache and a 429, the
code has it before the cache (so hits are charged) and answers 402;
`BucketSizeMinutes` is 60 and used as seconds.

## Proofs

`TollgateProofs` proves, for every finite set of requests, every set of keys,
any grants, any number of retries and any choice of faults:

| theorem | says |
|---|---|
| `TypeCorrect` | `Spec => []TypeOK` |
| `BooksCorrect` | `Spec => []BooksBalance` |
| `ConservationCorrect` | `Spec => []Conservation` |
| `ServedIsChargedCorrect` | `Spec => []ServedIsCharged` |
| `RefundOnlyFailuresCorrect` | `Spec => []RefundOnlyFailures` |
| `QuotaImplemented` | `Spec => ImplementsQuota` |

and, where no command to Redis and no reply is lost (`"network" \notin Faults`),
whatever clients, handlers, processes and the name server do:

| theorem | says |
|---|---|
| `NoLateExecutionCorrect` | `Spec => NoLateExecution` |
| `RefusedIsNotChargedCorrect` | `Spec => []RefusedIsNotCharged` |
| `PaymentImplemented` | `Spec => ImplementsPayment` |
| `RefundUnlessGoneCorrect` | `Spec => []RefundUnlessGone`, if also `"resolve" \notin Faults` |

They rest on the four named assumptions of `Tollgate` about its constants and
nothing else.  The hypothesis of the second table is needed: a lost reply may
get a charged request refused.

The argument.  The properties on the books need that each execution of the
script adds a *new* entry to the ledger, otherwise a set could not count them.
That is the inductive invariant's first half, `OnceInv`: sends of one call are
numbered, a command on the wire has a number already used by its request, and
no command on the wire has an entry in the ledger (`Disciplined`,
`ExecutedOnce`).  The second half, `Books`, is the properties themselves with
the fact that nothing was executed on a key without a hash (`LedgerLoaded`);
each step is then one insertion into a finite set, and its cardinality moves by
one.  `AllPaidUp`, the invariant behind the last two properties of the first table, relates
the place of each request to the entries it has in the ledger: a request is past
`reserving` by way of an `OK` only if an execution of its own is there, and a
refund is on the wire or in the ledger only for a request past `serving`.
Refinement then maps `Execute` with answer `OK` to `Spend` or `Return` and
`WarmUp` to `Open`, and everything else stutters.

Without lost commands there is more to say, and `Punctual` says it: no call is
sent twice, and a command on the wire is either awaited by its handler or its
handler was killed.  So an execution and the end of its call are one event for
everyone but the dead (`NoLateExecution`), an answer other than `OK` means that
the call has no entry in the ledger (`OneAttempt`), and a refund always
succeeds, because the request was charged before (`RefundsSucceed`).
`PaymentImplemented` maps each execution to the phase it puts its request in,
and the rest stutters (`SamePhase`).

`ResponseCacheProofs` proves, for any sets of requests and gateways, any TTL and
any clock, with a Redis that may fail:

| theorem | says |
|---|---|
| `TypeCorrect` | `Spec => []TypeOK` |
| `StoredCorrect` | `Spec => []OnlySuccessesStored` |
| `FreshnessCorrect` | `Spec => HitsWithinTTL` |
| `ToldApartCorrect` | `Spec => []SameMethodToldApart` |

They rest on the three assumptions of `ResponseCache`, of which the last theorem
needs that URLs and bodies are sequences of bytes: that what the key does not
separate it still tells apart as `SameMethodToldApart` says is a fact about
concatenation (`KeyTellsApart`), not an assumption on the requests.

The argument.  None of the properties is inductive: what a handler writes is
what it read some steps before, so `IInv` says of the copy in `hold` what it
says of the entries in both layers: born `TTL` before it expires (`Sound`), of
an upstream success, for a request of the key it is stored under.  `StepOf`
then says in one formula what every step of a handler does to
these cells: a layer gets nothing but what the handler holds, under its own key,
and a handler nothing but what a layer has there, or the response upstream has
just given.  `HandlerSteps` shows it action by action, and `StepKeepsInv` needs
only that formula.

`StaffLoginProofs` proves, for any sets of requests, browsers and addresses and
any failing commands of the session store:

| theorem | says |
|---|---|
| `TypeCorrect` | `Spec => []TypeOK` |
| `LoginCorrect` | `Spec => []LoginProvesAddress` |
| `SpentLinksCorrect` | `Spec => []SpentLinksStayDead` |
| `LogoutCorrect` | `Spec => []LogoutIsFinal` |

They rest on the two assumptions of `StaffLogin`.

The argument.  A session exists once in the store and any number of times in the
requests that have loaded it, and any of them may write its copy back.
`Addresses` says `LoginProvesAddress` of every copy and of the links not yet
used.  `Links` says where a link can be: in the store only under the token its
own request wrote it to (`Home`), because every other handler that writes a
session has replaced or removed the link (`Copies`); so when a login is
committed, `Home` of its link is overwritten, or was cleared by the renewal or an
expiry, and nobody can bring the link back.  `Tokens` says that a session under
a renewed token is logged in, so that a request that has loaded it is refused,
greeted or logs out, and writes nothing.

`CacheWarmerProofs` proves, for any finite set of rows, any size of a page, any
default and any number of warm-ups:

| theorem | says |
|---|---|
| `TypeCorrect` | `Spec => []TypeOK` |
| `ChargesCorrect` | `Spec => []NoChargeForgotten` |
| `CompletenessCorrect` | `Spec => []CleanWarmUpIsComplete` |

They rest on the two assumptions of `CacheWarmer`.

The argument.  `Complete` says what a warm-up without an error still owes: every
row it saw at its start is loaded, in its batch, or at or after the offset of
the page it reads next (`Pending`).  Rows committed meanwhile only raise the
rank of others (`RankFacts`), so none slips to a page already read, and ranks
have no gaps (`RowBefore`), so a page that is empty is the last
(`EmptyPageIsLast`).  `Books` adds to `NoChargeForgotten` that a hash which does
not exist has never been charged, which is why writing it forgets nothing.

`GatewayProofs` proves, for any sets of services, keys and requests, any ids the
tables give them and any number of restarts:

| theorem | says |
|---|---|
| `TypeCorrect` | `Spec => []TypeOK` |
| `AnswersCorrect` | `Spec => []AnswersOwnId` |
| `OwnAccountCorrect` | `Spec => []OwnAccountOnly` |
| `ChargedOnceCorrect` | `Spec => []ChargedOnce` |
| `FailuresCorrect` | `Spec => []FailuresPayNothing` |
| `OneQueryCorrect` | `Spec => []OneQueryPerName` |

They rest on the three assumptions of `NameServer` and the two of `Gateway`, and
on none about faults: any number of retries, lost replies, commands executed
late, clients that leave and processes that end.

The argument.  `StepOfCall` says in one formula what any step of a lookup does:
it moves the calls of one name on, and an id it hands out or puts into a cache
is, before the first race, that of this name (`OwnIds`).  So a request's key has
its own id, and its proxy, because a process serves only once all its proxies
are built (`ProxiesBuilt`), the service's (`Matched`).  The second invariant,
`Settled`, is about what was sent, executed or not: a request that is away or
reserving has sent nothing, one that sends a refund was charged, and only a
request that missed a reply sends anything twice or, unless its process ended,
leaves anything on the wire (`SentInOrder`).  A late execution then adds nothing
new, and `Settles` says what each request has paid where it is.  `Down` is the
one step that concerns all requests: it leaves on the wire what calls under way
may have sent.  The last theorem
needs that whoever looks up a name on behalf of others is the one their flight
belongs to (`FlightsLed`), which no race disturbs.

`AdminProofs` proves, for any sets of requests, admin processes and addresses,
clients that leave, restarts, and handlers that overlap on a connection or not:

| theorem | says |
|---|---|
| `TypeCorrect` | `Spec => []TypeOK` |
| `EmailsAreUniqueCorrect` | `Spec => []EmailsAreUnique` |
| `QuotasByOwnerCorrect` | `Spec => []QuotasByOwner` |
| `TransactionsEndCorrect` | `Spec => []TransactionsEnd` |
| `KeysAreAssignedCorrect` | `Spec => []KeysAreAssigned` |
| `AnsweredIsStoredCorrect` | `Spec => []AnsweredIsStored` |
| `KeysGoToTheirUsersCorrect` | `Spec => []KeysGoToTheirUsers` |

They rest on the three assumptions of `Admin` and on none about overlap.

The argument.  A row is written by one request and may be committed by another,
perhaps after the one that wrote it has failed, so the first invariant, `Inv`,
speaks of a value wherever it is held, in `db` or in any `draft` (`Holds`): each
is what the request that wrote it asked for (`RowsFit`), no address is held for
two users (`OneUserEach`), and a quota only where its key is (`KeysHeld`).  Every
action does one of three things to the rows (`Touches`): it looks, it ends the
transaction, or it writes a row that is due (`Due`: for a user, the unique index
and the wait for other transactions exclude every other holder of the address);
`StoredStep` needs only that.  The owner that `AssociateKeyService` has compared
stays right until the quota is written, as keys do not change hands (`Owned`).

The second invariant, `Orderly`, has two parts that are of all requests: an open
or aborted transaction has a handler in it (`HasHandler`), and what the staff
service has found is committed and stays so (`Mailed`).  The third part is of a
request that never shared a transaction (`Apart`).  While it is in one, it is
`Alone` there, so the draft is its own and has at each statement what the
handler has written so far (`DraftFits`: nothing before the first write, its key
only before the assignment, no unassigned key at the commit), nobody else has
its rows in a draft (`Drawn`), and what it was answered is committed
(`Answered`).  A step of another handler, joined or not, can reach none of this:
each step has one of four shapes (`Shape`: it reads, opens a transaction, ends
one, or puts a row that is named by its own request, or a quota), and when it
opens one inside another's, that other is joined from then on.

`DumpReaderProofs` proves, for any size of the dump, any capacity of the
channels and any kinds of objects:

| theorem | says |
|---|---|
| `TypeCorrect` | `Spec => []TypeOK` |
| `WholeFileCorrect` | `Spec => []OkFileIsWhole` |
| `NobodyLeftBehindCorrect` | `Spec => []NobodyLeftBehind` |

They rest on the assumption of `DumpReader`.

The argument.  An object passes eleven places on its way from the dump to the
file.  `Flow` says that what is further on comes earlier in the dump
(`InOrder`), that nothing is at a place which a goroutine before it would have
dropped (`Screened`), and that a response stays at some place until a write
fails, and an object that does not decode never gets past `transformStream`
(`Accounted`).  `Closed` follows the end of the stream: a goroutine has
returned because the one before it has and left nothing in the channel, or it is
`transformStream` with an object that does not decode.  So when the writer finds
its channel closed and empty, the file is the only place left for a response in
`Reached`.

Every safety property of a passing run is thus a theorem.  Only model-checked
are the liveness properties, which are out of the prover's reach
(`EveryRequestAnswered`, `WarmUpEnds`, `EveryRequestEnds`, `AlwaysReturns`).

## Plan

Modelled, checked and, but for liveness, proved: every component with state of
its own.  Next, in this order:

1. `Gateway`: that the accounts of a process, up to the first race, are a
   `QuotaLedger` as those of `Tollgate` are, checked and then proved in
   `GatewayProofs`.
2. `ResponseCache`: an abstract cache, one register per key that answers with a
   success stored less than `TTL` ago or asks upstream, and that the two layers
   implement it.

## Not modelled

The backup job is unfinished and no program runs it.  The static key tollgate
(one comparison), the proxy rewrites, configuration, logging and templates keep
no state.  The older gateways are the cache alone, or the cache behind the
static key.  Of the generated code, queries that no program sends and the
scanning of rows are left out.  The rate limit of the staff service is a
library's counter.  Amounts other than 1, the status and headers of a replayed
answer and the contents of mails and pages are abstracted away.
