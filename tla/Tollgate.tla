------------------------------ MODULE Tollgate ------------------------------
(***************************************************************************)
(* pkg/tollgate: the middleware that charges an API key one unit of quota  *)
(* before a request is served and refunds it when the answer is an error,  *)
(* with RedisAdapter as its quota store.                                   *)
(*                                                                         *)
(* Each request is one run of ServeHTTP in a goroutine of its own.  Quota  *)
(* lives in one Redis hash per key, changed only by a Lua script, which    *)
(* Redis executes atomically.  A command travels to Redis and its reply    *)
(* travels back; between the two the client may give up and send the       *)
(* command again, because go-redis retries a command whose reply it did    *)
(* not get (MaxRetries defaults to 3, and no caller changes it).           *)
(***************************************************************************)
EXTENDS Integers, FiniteSets

CONSTANTS
    Requests,    \* runs of ServeHTTP
    Keys,        \* API keys of this service, one quota hash each
    KeyOf,       \* extractKey: the key a request presents
    Limited,     \* keys whose hash has the field service_account
    Grant,       \* units available to a key in its Postgres row
    Used,        \* units consumed in that row
    MaxTries,    \* sends of one command by go-redis (1 + MaxRetries)
    BucketLife,  \* buckets after which HEXPIRE drops a metric field
    MaxBucket,   \* bound on the clock, in buckets
    Faults       \* the failures the environment may produce

FaultKinds == {"resolve", "network", "disconnect", "panic", "crash"}

ASSUME RequestsAssumption == IsFiniteSet(Requests) /\ KeyOf \in [Requests -> Keys]
ASSUME QuotaAssumption ==
    /\ Limited \subseteq Keys
    /\ Grant \in [Keys -> Nat]
    /\ Used \in [Keys -> Nat]
ASSUME BoundsAssumption ==
    /\ MaxTries \in Nat \ {0}
    /\ BucketLife \in Nat \ {0}
    /\ MaxBucket \in Nat
ASSUME FaultsAssumption == Faults \subseteq FaultKinds

VARIABLES
    available,  \* field "available" of each quota hash
    consumed,   \* field "consumed" of each quota hash
    loaded,     \* keys whose quota hash exists
    metric,     \* field "bucket:<t>" of each metric hash, 0 when absent
    ledger,     \* history: the commands whose execution returned OK
    now,        \* the bucket Redis' TIME falls in
    wire,       \* commands sent to Redis and not executed yet
    pc,         \* where each run of ServeHTTP stands
    tries,      \* sends so far of the command being run
    conn,       \* what the connection of that command holds
    gone        \* requests whose context is cancelled (client disconnected)

redisVars == <<available, consumed, loaded, metric, ledger>>
vars == <<redisVars, now, wire, pc, tries, conn, gone>>

Buckets == 0..MaxBucket
Statuses == {"OK", "QUOTA_EXHAUSTED", "KEY_NOT_FOUND"}
Calling == {"reserving", "refunding"}
Final == {"kept", "failed", "payment_required", "error", "aborted", "killed"}
Commands == [req : Requests, amount : {1, -1}, try : 1..MaxTries]

(* The amount ServeHTTP's two calls pass: Reserve 1, Refund -1. *)
Amount(r) == IF pc[r] = "reserving" THEN 1 ELSE -1
Active(r) == pc[r] \notin Final \cup {"idle"}

TypeOK ==
    /\ available \in [Keys -> Int] /\ consumed \in [Keys -> Int]
    /\ loaded \subseteq Keys
    /\ metric \in [Keys -> [Buckets -> Int]]
    /\ ledger \subseteq Commands
    /\ now \in Buckets
    /\ wire \subseteq Commands
    /\ pc \in [Requests -> {"idle", "serving"} \cup Calling \cup Final]
    /\ tries \in [Requests -> 0..MaxTries]
    /\ conn \in [Requests -> {"free", "waiting"} \cup Statuses]
    /\ gone \in [Requests -> BOOLEAN]

Init ==
    /\ available = [k \in Keys |-> 0] /\ consumed = [k \in Keys |-> 0]
    /\ loaded = {}
    /\ metric = [k \in Keys |-> [b \in Buckets |-> 0]]
    /\ ledger = {}
    /\ now = 0
    /\ wire = {}
    /\ pc = [r \in Requests |-> "idle"]
    /\ tries = [r \in Requests |-> 0]
    /\ conn = [r \in Requests |-> "free"]
    /\ gone = [r \in Requests |-> FALSE]

-----------------------------------------------------------------------------
(* Redis: the script updateQuota and the clock.                            *)

LimitReachedOffByOne(k, amount) == k \in Limited /\ available[k] < amount - 1
LimitReached(k, amount) == k \in Limited /\ available[k] < amount

ScriptStatusUnlimited(k, amount) ==
    IF k \notin loaded THEN "KEY_NOT_FOUND" ELSE "OK"

ScriptStatus(k, amount) ==
    IF k \notin loaded THEN "KEY_NOT_FOUND"
    ELSE IF LimitReached(k, amount) THEN "QUOTA_EXHAUSTED" ELSE "OK"

(* The script's writes for an answer OK.  A hash without service_account   *)
(* is not limited: only consumed moves.                                    *)
Charge(k, amount) ==
    /\ available' = IF k \in Limited
                    THEN [available EXCEPT ![k] = @ - amount] ELSE available
    /\ consumed' = [consumed EXCEPT ![k] = @ + amount]
    /\ metric' = [metric EXCEPT ![k][now] = @ + amount]

(* Redis executes one command.  The reply reaches the handler only if it   *)
(* still waits for this very attempt; it is lost otherwise.                *)
Execute(c) ==
    LET k == KeyOf[c.req]
        status == ScriptStatus(k, c.amount)
        awaited == /\ conn[c.req] = "waiting" /\ tries[c.req] = c.try
                   /\ pc[c.req] \in Calling /\ Amount(c.req) = c.amount
    IN /\ c \in wire
       /\ wire' = wire \ {c}
       /\ IF status = "OK"
          THEN /\ Charge(k, c.amount)
               /\ ledger' = ledger \cup {c}
          ELSE UNCHANGED <<available, consumed, metric, ledger>>
       /\ conn' = IF awaited THEN [conn EXCEPT ![c.req] = status] ELSE conn
       /\ UNCHANGED <<loaded, now, pc, tries, gone>>

(* A broken connection takes with it a command Redis never read. *)
Drop(c) ==
    /\ "network" \in Faults
    /\ c \in wire
    /\ wire' = wire \ {c}
    /\ UNCHANGED <<redisVars, now, pc, tries, conn, gone>>

AbsentIgnored(k) == TRUE
Absent(k) == k \notin loaded

(* CacheWarmer's script creates the hash of a key that has none. *)
WarmUp(k) ==
    /\ Absent(k)
    /\ loaded' = loaded \cup {k}
    /\ available' = [available EXCEPT ![k] = Grant[k]]
    /\ consumed' = [consumed EXCEPT ![k] = Used[k]]
    /\ UNCHANGED <<metric, ledger, now, wire, pc, tries, conn, gone>>

(* Time passes into the next bucket. *)
Tick ==
    /\ now < MaxBucket
    /\ now' = now + 1
    /\ UNCHANGED <<redisVars, wire, pc, tries, conn, gone>>

(* HEXPIRE drops a field BucketLife buckets after its last write, which is *)
(* in the bucket itself.                                                   *)
Expire(k, b) ==
    /\ b + BucketLife <= now
    /\ metric[k][b] # 0
    /\ metric' = [metric EXCEPT ![k][b] = 0]
    /\ UNCHANGED <<available, consumed, loaded, ledger, now, wire, pc, tries, conn, gone>>

-----------------------------------------------------------------------------
(* ServeHTTP and the two calls of RedisAdapter it makes.                   *)

Arrive(r) ==
    /\ pc[r] = "idle"
    /\ pc' = [pc EXCEPT ![r] = "reserving"]
    /\ UNCHANGED <<redisVars, now, wire, tries, conn, gone>>

AttemptsLeftOffByOne(r) == tries[r] <= MaxTries
AttemptsLeft(r) == tries[r] < MaxTries

AfterSendAsync(r) == IF pc[r] = "refunding" THEN "failed" ELSE pc[r]
AfterSend(r) == pc[r]

(* luaScript.Run sends the command, for the first time or again. A         *)
(* cancelled context is refused a connection.                              *)
Send(r) ==
    /\ pc[r] \in Calling /\ conn[r] = "free"
    /\ ~gone[r] /\ AttemptsLeft(r)
    /\ tries' = [tries EXCEPT ![r] = @ + 1]
    /\ conn' = [conn EXCEPT ![r] = "waiting"]
    /\ wire' = wire \cup {[req |-> r, amount |-> Amount(r), try |-> tries[r] + 1]}
    /\ pc' = [pc EXCEPT ![r] = AfterSend(r)]
    /\ UNCHANGED <<redisVars, now, gone>>

(* The reply does not arrive: read timeout or broken connection. *)
Lose(r) ==
    /\ "network" \in Faults
    /\ pc[r] \in Calling /\ conn[r] # "free"
    /\ conn' = [conn EXCEPT ![r] = "free"]
    /\ UNCHANGED <<redisVars, now, wire, pc, tries, gone>>

CannotCall(r) ==
    gone[r] \/ tries[r] = MaxTries \/ ("resolve" \in Faults /\ tries[r] = 0)

AfterErrorRetrying(p) == IF p = "reserving" THEN "error" ELSE "refunding"
AfterErrorRefunding(p) == IF p = "reserving" THEN "refunding" ELSE "failed"
AfterError(p) == IF p = "reserving" THEN "error" ELSE "failed"

(* The call returns an error: the key does not resolve (empty, unknown, or *)
(* the name server failed), the context is cancelled, or the last retry    *)
(* failed.  Reserve's error is answered 500, Refund's is swallowed.        *)
CallFails(r) ==
    /\ pc[r] \in Calling /\ conn[r] = "free"
    /\ CannotCall(r)
    /\ pc' = [pc EXCEPT ![r] = AfterError(@)]
    /\ tries' = [tries EXCEPT ![r] = 0]
    /\ UNCHANGED <<redisVars, now, wire, conn, gone>>

AfterReplyUnknownPasses(p, status) ==
    IF p = "refunding" THEN "failed"
    ELSE IF status = "QUOTA_EXHAUSTED" THEN "payment_required" ELSE "serving"
AfterReplyRefundingRefused(p, status) ==
    IF p = "refunding" THEN "failed"
    ELSE IF status = "OK" THEN "serving" ELSE "refunding"
AfterReply(p, status) ==
    IF p = "refunding" THEN "failed"
    ELSE IF status = "OK" THEN "serving" ELSE "payment_required"

(* The call returns: Reserve's status decides between the next handler and *)
(* 402, Refund's changes nothing any more.                                 *)
CallReturns(r) ==
    /\ pc[r] \in Calling /\ conn[r] \in Statuses
    /\ pc' = [pc EXCEPT ![r] = AfterReply(@, conn[r])]
    /\ conn' = [conn EXCEPT ![r] = "free"]
    /\ tries' = [tries EXCEPT ![r] = 0]
    /\ UNCHANGED <<redisVars, now, wire, gone>>

AfterServingNoRefund == {"kept", "failed"}
AfterServing == {"kept", "refunding"} \cup (IF "panic" \in Faults THEN {"aborted"} ELSE {})

(* next.ServeHTTP returns: a status below 400 keeps the charge, any other  *)
(* starts the refund; a panic (ReverseProxy aborting a broken copy) skips  *)
(* the rest of ServeHTTP.                                                  *)
NextReturns(r) ==
    /\ pc[r] = "serving"
    /\ \E p \in AfterServing : pc' = [pc EXCEPT ![r] = p]
    /\ UNCHANGED <<redisVars, now, wire, tries, conn, gone>>

(* The client goes away, which cancels r.Context(). *)
Disconnect(r) ==
    /\ "disconnect" \in Faults
    /\ Active(r) /\ ~gone[r]
    /\ gone' = [gone EXCEPT ![r] = TRUE]
    /\ UNCHANGED <<redisVars, now, wire, pc, tries, conn>>

(* The gateway dies, or its 10 s of graceful shutdown run out: every       *)
(* handler stops where it is.                                              *)
Crash ==
    /\ "crash" \in Faults
    /\ \E r \in Requests : Active(r)
    /\ pc' = [r \in Requests |-> IF Active(r) THEN "killed" ELSE pc[r]]
    /\ UNCHANGED <<redisVars, now, wire, tries, conn, gone>>

Step(r) == Send(r) \/ Lose(r) \/ CallFails(r) \/ CallReturns(r) \/ NextReturns(r)

Next ==
    \/ \E r \in Requests : Arrive(r) \/ Step(r) \/ Disconnect(r)
    \/ \E c \in wire : Execute(c) \/ Drop(c)
    \/ \E k \in Keys : WarmUp(k)
    \/ \E k \in Keys, b \in Buckets : Expire(k, b)
    \/ Tick
    \/ Crash

Spec == Init /\ [][Next]_vars

(* A runnable goroutine runs, Redis works through its sockets, and a       *)
(* handler that waits gets its reply or its read timeout.  Nothing is      *)
(* assumed of clients, of warm-ups or of the clock.                        *)
FairSpec ==
    /\ Spec
    /\ \A r \in Requests : WF_vars(Step(r))
    /\ \A c \in Commands : WF_vars(Execute(c))

-----------------------------------------------------------------------------
(* Properties.                                                             *)

Charges(k) == {e \in ledger : KeyOf[e.req] = k /\ e.amount = 1}
Refunds(k) == {e \in ledger : KeyOf[e.req] = k /\ e.amount = -1}
Charged(r) == \E e \in ledger : e.req = r /\ e.amount = 1
Refunded(r) == \E e \in ledger : e.req = r /\ e.amount = -1

(* Whatever is retried, executed late or lost, the field consumed of a     *)
(* loaded hash is the warm-up's figure plus the reservations and minus the *)
(* refunds Redis executed on that key (updateQuota, both branches).        *)
BooksBalance ==
    \A k \in loaded :
        consumed[k] = Used[k] + Cardinality(Charges(k)) - Cardinality(Refunds(k))

(* The check "available < amount" of updateQuota makes overdraft           *)
(* impossible under every interleaving, and its two HINCRBY conserve the   *)
(* units of a limited key.                                                 *)
Conservation ==
    \A k \in Limited \cap loaded :
        available[k] >= 0 /\ available[k] + consumed[k] = Grant[k] + Used[k]

(* No request gets past Reserve, to the cache or to the upstream, without  *)
(* a reservation of its own having been executed.                          *)
ServedIsCharged ==
    \A r \in Requests :
        pc[r] \in {"serving", "refunding", "kept", "failed", "aborted"} => Charged(r)

(* A refund, even one executed late, goes only to a request that was       *)
(* charged and whose answer was an error; a successful one keeps its       *)
(* charge for good (tollgate.go, end of ServeHTTP).                        *)
RefundOnlyFailures ==
    \A r \in Requests :
        Refunded(r) => Charged(r) /\ pc[r] \in {"refunding", "failed", "killed"}

(* While no command is lost, nothing is charged or refunded behind the     *)
(* back of a request already answered.                                     *)
NoLateExecution ==
    [][\A e \in ledger' \ ledger : Active(e.req) \/ pc[e.req] = "killed"]_vars

(* While no command is lost and keys resolve, a failed request is refunded *)
(* unless its client went away: the refund runs under the request's own    *)
(* context (tollgate.go:64), which a disconnect has cancelled.             *)
RefundUnlessGone ==
    \A r \in Requests : pc[r] = "failed" => Refunded(r) \/ gone[r]

(* A reply may be lost each time and a refund be sent as often again: the  *)
(* retries of the two calls are bounded, so every request is answered.     *)
EveryRequestAnswered ==
    \A r \in Requests : pc[r] = "reserving" ~> pc[r] \in Final

(* tollgate.go:62 "Refund reserved quota if the request failed".           *)
FailedRequestsAreRefunded ==
    \A r \in Requests : pc[r] = "failed" => Refunded(r)

(* adapter.go:9 "Returns true if the reservation was successful, false if  *)
(* the quota is insufficient": a request refused for lack of quota has     *)
(* reserved nothing.  True unless replies are lost: go-redis then sends a  *)
(* reservation again that has taken the last unit, and gets a refusal.     *)
RefusedIsNotCharged ==
    \A r \in Requests : pc[r] = "payment_required" => ~Charged(r)

-----------------------------------------------------------------------------
(* Abstract specifications.                                                *)

Quota == INSTANCE QuotaLedger WITH
    open <- loaded,
    spent <- [k \in Keys |-> Cardinality(Charges(k))],
    returned <- [k \in Keys |-> Cardinality(Refunds(k))]

(* A request refused by the script counts as refused before its handler    *)
(* hears of it, as one charged counts as paid.                             *)
PaymentPhase(r) ==
    CASE Refunded(r) -> "returned"
      [] Charged(r) /\ ~Refunded(r) -> IF pc[r] = "kept" THEN "kept" ELSE "paid"
      [] OTHER -> IF \/ pc[r] = "payment_required"
                     \/ conn[r] \in {"QUOTA_EXHAUSTED", "KEY_NOT_FOUND"}
                  THEN "refused" ELSE "new"

Payment == INSTANCE PayPerSuccess WITH
    open <- loaded,
    balance <- available,
    phase <- [r \in Requests |-> PaymentPhase(r)]

(* With lost commands, late executions, crashes: the books of QuotaLedger. *)
ImplementsQuota == Quota!Spec

(* With disconnects, panics and crashes but no lost command: at most one   *)
(* charge and one refund per request, as PayPerSuccess says.               *)
ImplementsPayment == Payment!Spec
=============================================================================
