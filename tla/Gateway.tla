------------------------------- MODULE Gateway -------------------------------
(***************************************************************************)
(* cmd/cachev2: the life of a gateway process.  It builds one proxy per    *)
(* service, each with a name server and a connection to Postgres of its    *)
(* own, serves, and stops on a signal or a crash; Redis and Postgres       *)
(* outlive it.  A request is charged to the account that the ids of its    *)
(* service and its key name.  Both come from the name server: the          *)
(* service's once at the start, the key's once for the reservation and     *)
(* once more for the refund.                                               *)
(*                                                                         *)
(* Tollgate models the quota, and each send, execution and reply of the    *)
(* script; here a call of the script is one step, which says how many of   *)
(* its sends have been executed when it returns and which are still on     *)
(* their way.  CacheWarmer has the warm-up that gives the script something *)
(* to charge.  Cache and proxy, behind the tollgate, are one step that     *)
(* succeeds or fails: a hit is a success, and charged.                     *)
(***************************************************************************)
EXTENDS NameServer, Integers

CONSTANTS
    Requests,
    Main,     \* the goroutine that starts the process
    MaxTries, \* sends of one script by go-redis (1 + MaxRetries)
    Faults    \* "network": replies and commands are lost; "disconnect": clients leave

ASSUME GatewayAssumption ==
    /\ Callers = Requests \cup {Main} /\ Main \notin Requests
    /\ \A s \in Servers : <<"service", s>> \in Names
ASSUME ScriptAssumption ==
    MaxTries \in Nat \ {0} /\ Faults \subseteq {"network", "disconnect"}

VARIABLES
    phase,      \* where the process stands
    serviceId,  \* RedisAdapter.serviceID of each proxy that has been built
    pc,         \* where each request stands
    account,    \* the proxy it is sent to and the name of its key
    gone,       \* requests whose context is cancelled (client disconnected)
    wire,       \* sends of the script that Redis has not executed yet
    ledger,     \* history: those it has executed and answered OK
    unresolved, \* history: requests whose refund found no id
    lost        \* history: requests whose call of the script missed a reply

process == <<phase, serviceId>>
quota == <<wire, ledger, lost>>
requests == <<pc, account, gone, unresolved, quota>>
vars == <<nsVars, process, requests>>

ServiceName(s) == <<"service", s>>
Accounts == Ids \X Ids
Keys == {n \in Names : n[1] = "api_key"}
Commands == [req : Requests, account : Accounts, amount : {1, -1}, try : 1..MaxTries]
OwnAccount(r) == <<Id[ServiceName(account[r][1])], Id[account[r][2]]>>

Ended == {"kept", "failed", "payment_required", "error", "killed"}
InProgress == {r \in Requests : pc[r] \notin {"away"} \cup Ended}

TypeOK ==
    /\ NsTypeOK
    /\ phase \in {"down", "starting", "serving", "draining"}
    /\ serviceId \in [Servers -> Answers]
    /\ pc \in [Requests -> {"away", "reserving", "serving", "refunding"} \cup Ended]
    /\ account \in [Requests -> (Servers \X Keys) \cup {<<>>}]
    /\ gone \subseteq Requests /\ unresolved \subseteq Requests /\ lost \subseteq Requests
    /\ wire \subseteq Commands /\ ledger \subseteq Commands

Init ==
    /\ NsInit
    /\ phase = "down"
    /\ serviceId = [s \in Servers |-> None]
    /\ pc = [r \in Requests |-> "away"]
    /\ account = [r \in Requests |-> <<>>]
    /\ gone = {} /\ unresolved = {} /\ lost = {}
    /\ wire = {} /\ ledger = {}

Goto(r, p) == pc' = [pc EXCEPT ![r] = p]

-----------------------------------------------------------------------------
(* The script, which Reserve and Refund run for the ids they resolved.     *)

(* The service's id is the proxy's, the key's the one just looked up. *)
AccountUsed(r) == <<serviceId[account[r][1]], call[r].id>>

(* go-redis sends a command again only when it misses the reply. *)
Tries == IF "network" \in Faults THEN 1..MaxTries ELSE {1}
AmountRefundingTwo(r) == IF pc[r] = "reserving" THEN 1 ELSE -2
Amount(r) == IF pc[r] = "reserving" THEN 1 ELSE -1
Sends(r) ==
    {[req |-> r, account |-> AccountUsed(r), amount |-> Amount(r), try |-> t] : t \in Tries}

(* Of its sends those in done have been executed with OK when the call     *)
(* returns, and those in late still may be.                                *)
Run(r, done, late) ==
    /\ done \subseteq Sends(r) /\ late \subseteq Sends(r) \ done
    /\ ledger' = ledger \cup done
    /\ wire' = wire \cup late

(* The first send was answered; or replies were missed on the way. *)
Answered(r, done) == Run(r, done, {}) /\ (\A c \in done : c.try = 1) /\ UNCHANGED lost
Missed(r, done, late) == "network" \in Faults /\ Run(r, done, late) /\ lost' = lost \cup {r}

(* A send whose caller does not wait for it any more is executed, with OK  *)
(* or without, or gets lost.                                               *)
ExecuteLate(c) ==
    /\ c \in wire /\ wire' = wire \ {c}
    /\ ledger' \in {ledger, ledger \cup {c}}
    /\ UNCHANGED <<nsVars, process, pc, account, gone, unresolved, lost>>

-----------------------------------------------------------------------------
(* main, NewNameServer, NewRedisAdapter.                                   *)

(* warmupCache has run; the error of its Do is dropped. *)
Start ==
    /\ phase = "down" /\ phase' = "starting"
    /\ UNCHANGED <<nsVars, serviceId, requests>>

HangUp(c) == call' = [call EXCEPT ![c] = NoCall]

(* A proxy is built: pgx.Connect, then ResolveServiceName. *)
Connect(s) ==
    /\ phase = "starting" /\ call[Main] = NoCall /\ serviceId[s] = None
    /\ conn' = [conn EXCEPT ![s] = "free"]
    /\ call' = [call EXCEPT ![Main] = Call(s, ServiceName(s), "get", None)]
    /\ UNCHANGED <<rows, local, shared, flight, raced, process, requests>>

Built ==
    /\ call[Main].pc = "done" /\ call[Main].id # None
    /\ serviceId' = [serviceId EXCEPT ![call[Main].at] = call[Main].id]
    /\ HangUp(Main)
    /\ phase' = IF \E s \in Servers : serviceId'[s] = None THEN phase ELSE "serving"
    /\ UNCHANGED <<rows, local, shared, conn, flight, raced, requests>>

(* The end of the process takes everything with it that is not in Redis or *)
(* Postgres, but for what it has sent: a call of the script under way may  *)
(* be executed all the same.                                               *)
Running(r) == pc[r] \in {"reserving", "refunding"} /\ call[r].pc = "done" /\ call[r].id # None

Down ==
    /\ phase' = "down"
    /\ local' = [s \in Servers |-> [k \in CacheKeys |-> None]]
    /\ conn' = [s \in Servers |-> "closed"]
    /\ flight' = [s \in Servers |-> [k \in CacheKeys |-> Nobody]]
    /\ call' = [c \in Callers |-> NoCall]
    /\ serviceId' = [s \in Servers |-> None]
    /\ pc' = [r \in Requests |-> IF r \in InProgress THEN "killed" ELSE pc[r]]
    /\ \E left \in SUBSET UNION {Sends(r) : r \in {q \in Requests : Running(q)}} :
          /\ wire' = wire \cup left
          /\ lost' = lost \cup {c.req : c \in {d \in left : d.try > 1}}
    /\ UNCHANGED <<rows, shared, raced, account, gone, unresolved, ledger>>

(* main panics: Postgres does not answer or does not know the service. *)
StartFails ==
    /\ phase = "starting" /\ (call[Main].pc = "done" => call[Main].id = None)
    /\ call[Main].pc \in {"none", "done"}
    /\ Down

Signal ==
    /\ phase = "serving" /\ phase' = "draining"
    /\ UNCHANGED <<nsVars, serviceId, requests>>

(* server.Shutdown waits for the requests, but not longer than 10 s. *)
Exit == phase = "draining" /\ Down

Crash == phase # "down" /\ Down

-----------------------------------------------------------------------------
(* The tollgate on its way through the name server and the script.         *)

Lookup(r) == call' = [call EXCEPT ![r] = Call(account'[r][1], account'[r][2], "get", None)]

Arrive(r) ==
    /\ phase = "serving" /\ pc[r] = "away"
    /\ Goto(r, "reserving")
    /\ account' \in {[account EXCEPT ![r] = a] : a \in Servers \X Keys}
    /\ Lookup(r)
    /\ UNCHANGED <<rows, local, shared, conn, flight, raced, process, gone, unresolved, quota>>

(* An error is answered 500, whether the script has charged or not. *)
AnswerToErrorServing == "serving"
AnswerToError == "error"

(* Reserve, with the id or the error of the lookup.  A cancelled context   *)
(* is refused a connection to Redis.  Where replies are missed, the last   *)
(* reply decides, if one comes at all: the call may end in OK, in a        *)
(* refusal of what an earlier send has charged, or in an error.            *)
Reserve(r) ==
    /\ pc[r] = "reserving" /\ call[r].pc = "done" /\ HangUp(r)
    /\ \/ (call[r].id = None \/ r \in gone) /\ Goto(r, AnswerToError) /\ UNCHANGED quota
       \/ /\ call[r].id # None /\ r \notin gone
          /\ \E done, late \in SUBSET Sends(r) :
                \/ Answered(r, done) /\ Goto(r, IF done # {} THEN "serving" ELSE "payment_required")
                \/ /\ Missed(r, done, late)
                   /\ \/ done # {} /\ Goto(r, "serving")
                      \/ done \cup late # Sends(r) /\ Goto(r, "payment_required")
                      \/ Goto(r, AnswerToError)
    /\ UNCHANGED <<rows, local, shared, conn, flight, raced, process, account, gone, unresolved>>

(* The next handler: its success ends the request, its failure is refunded. *)
Succeed(r) ==
    /\ pc[r] = "serving"
    /\ Goto(r, "kept")
    /\ UNCHANGED <<nsVars, process, account, gone, unresolved, quota>>

Fail(r) ==
    /\ pc[r] = "serving"
    /\ Goto(r, "refunding")
    /\ UNCHANGED <<account, gone, unresolved, quota>>
    /\ Lookup(r)
    /\ UNCHANGED <<rows, local, shared, conn, flight, raced, process>>

RefundNotSent(r, done) == done = {}
(* A refund is not refused, unless no hash exists: it does where somebody  *)
(* has been charged.                                                       *)
Refunds(r, done) ==
    done # {} \/ ~\E c \in ledger : c.amount = 1 /\ c.account = AccountUsed(r)

(* Refund, under the same context; its error is dropped. *)
Refund(r) ==
    /\ pc[r] = "refunding" /\ call[r].pc = "done" /\ HangUp(r)
    /\ Goto(r, "failed")
    /\ \/ /\ call[r].id = None
          /\ unresolved' = unresolved \cup {r}
          /\ UNCHANGED quota
       \/ call[r].id # None /\ r \in gone /\ UNCHANGED <<unresolved, quota>>
       \/ /\ call[r].id # None /\ r \notin gone /\ UNCHANGED unresolved
          /\ \E done, late \in SUBSET Sends(r) :
                \/ Answered(r, done) /\ Refunds(r, done)
                \/ Missed(r, done, late)
    /\ UNCHANGED <<rows, local, shared, conn, flight, raced, process, account, gone>>

(* The client goes away, which cancels r.Context(). *)
Disconnect(r) ==
    /\ "disconnect" \in Faults
    /\ r \in InProgress \ gone
    /\ gone' = gone \cup {r}
    /\ UNCHANGED <<nsVars, process, pc, account, unresolved, quota>>

-----------------------------------------------------------------------------
LookupStep(c) == CallStep(c) /\ UNCHANGED <<process, requests>>
RequestStep(r) == Reserve(r) \/ Succeed(r) \/ Fail(r) \/ Refund(r)
Starting == Start \/ Built \/ StartFails \/ \E s \in Servers : Connect(s)

Next ==
    \/ \E c \in Callers : LookupStep(c)
    \/ NsEnv /\ UNCHANGED <<process, requests>>
    \/ Starting \/ Signal \/ Exit \/ Crash
    \/ \E r \in Requests : Arrive(r) \/ RequestStep(r) \/ Disconnect(r)
    \/ \E c \in wire : ExecuteLate(c)

Spec == Init /\ [][Next]_vars

(* The goroutine of a request runs on, and Postgres, Redis and upstream    *)
(* answer or fail.                                                         *)
FairSpec ==
    /\ Spec
    /\ \A r \in Requests : WF_vars(LookupStep(r) \/ RequestStep(r))

-----------------------------------------------------------------------------
(* Properties.                                                             *)

Charged(r) == \E c \in ledger : c.req = r /\ c.amount = 1
Refunded(r) == \E c \in ledger : c.req = r /\ c.amount = -1

(* Unless a race has mixed up answers, no send of the script, even one     *)
(* executed after its process is gone, moves a unit of an account that is  *)
(* not the request's own, though its ids come through two caches, other    *)
(* requests' lookups and earlier processes (redis_adapter.go:150, 189).    *)
OwnAccountOnly == ~raced => \A c \in ledger : c.account = OwnAccount(c.req)

(* Nobody is let through uncharged, and only who was charged and failed is *)
(* refunded, whatever replies are missed and whenever the process ends; a  *)
(* request that missed none is charged and refunded at most once.          *)
ChargedOnce ==
    /\ \A r \in Requests :
          /\ pc[r] \in {"serving", "refunding", "kept"} => Charged(r)
          /\ Refunded(r) => Charged(r) /\ pc[r] \in {"failed", "killed"}
    /\ \A c, d \in ledger : c.req = d.req /\ c.amount = d.amount /\ c.req \notin lost => c = d

(* A request the gateway answered without success has paid nothing, unless *)
(* its refund could not resolve the key a second time, its client was      *)
(* gone, or a reply of Redis was missed.                                   *)
FailuresPayNothing ==
    ~raced => \A r \in Requests \ (unresolved \cup gone \cup lost) :
        pc[r] \in {"failed", "payment_required", "error"} => (Charged(r) <=> Refunded(r))

(* Every request comes to an end: whoever waits for another's lookup is    *)
(* told when it fails (singleflight), unless a race has swallowed the      *)
(* answer.                                                                 *)
EveryRequestEnds ==
    \A r \in Requests : pc[r] \in {"reserving", "serving", "refunding"} ~> (pc[r] \in Ended \/ raced)
=============================================================================
