--------------------------- MODULE ResponseCache ---------------------------
(***************************************************************************)
(* pkg/cache: the middleware that answers a request from a stored response *)
(* when it has one younger than the TTL, and stores successful responses.  *)
(*                                                                         *)
(* The store has two layers: a local cache inside each gateway process and *)
(* one Redis all processes share (go-redis/cache with a TinyLFU).  Get,    *)
(* Set and Delete touch the two layers in two steps, so the handlers of a  *)
(* process, and those of different processes, interleave between them.     *)
(*                                                                         *)
(* Two faces share this control: a handler (ServeHTTP), and a transport    *)
(* for clients (RoundTrip), which no program of the repository uses yet.   *)
(***************************************************************************)
EXTENDS Naturals, Sequences

CONSTANTS
    Requests,      \* runs of ServeHTTP or RoundTrip
    Transport,     \* those of RoundTrip
    Gateways,      \* processes, each with a local cache
    At,            \* the gateway a request is sent to
    Bytes,         \* what URLs and bodies are made of
    Method, Url, Body,  \* what a request carries; body <<>> when there is none
    Refresh,       \* requests with the refresh parameter in their URL
    TTL,           \* Cache.ttl
    MaxTime,       \* bound on the clock
    Leftovers,     \* cache keys under which an older build may have written
    RedisFails     \* whether a command to Redis may fail

ASSUME RequestsAssumption ==
    At \in [Requests -> Gateways] /\ Refresh \subseteq Requests /\ Transport \subseteq Requests
ASSUME BytesAssumption == Url \in [Requests -> Seq(Bytes)] /\ Body \in [Requests -> Seq(Bytes)]
ASSUME TimeAssumption == TTL \in Nat \ {0} /\ MaxTime \in Nat /\ RedisFails \in BOOLEAN

VARIABLES
    local,   \* per gateway: entries by cache key
    redis,   \* entries by cache key
    clock,
    pc,      \* where each handler stands
    hold,    \* the entry a handler read or is about to write
    succeeded  \* history: the requests upstream answered in full with a success

stores == <<local, redis>>
vars == <<stores, clock, pc, hold, succeeded>>

-----------------------------------------------------------------------------
(* Cache keys.  The hash is taken as injective on the bytes it is given.   *)

Methods == {"GET", "POST"}  \* WithMethods in NewCache of every gateway

(* generateKey(URL), or generateKeyWithBody(URL, body), which appends the  *)
(* body to the same bytes, with nothing between; the method is no part of  *)
(* either.                                                                 *)
LookupKeyWithoutBody(r) == Url[r]
LookupKey(r) == IF Method[r] = "POST" THEN Url[r] \o Body[r] ELSE Url[r]

(* A refresh computes its key anew, from the URL alone. *)
Key(r) == IF r \in Refresh THEN Url[r] ELSE LookupKey(r)

CacheKeys == {Key(r) : r \in Requests}
Time == 0..(MaxTime + TTL)
None == [kind |-> "none"]
Garbled == [kind |-> "garbled"]  \* bytes that gob does not decode
Entries == [kind : {"response"}, by : Requests, born : Time, exp : Time]
Slots == Entries \cup {None, Garbled}

Phases == {"idle", "getLocal", "getRedis", "fillLocal", "check", "setLocal", "setRedis",
           "delLocal", "delRedis", "next", "bypass", "answered"}

TypeOK ==
    /\ local \in [Gateways -> [CacheKeys -> Slots]]
    /\ redis \in [CacheKeys -> Slots]
    /\ clock \in 0..MaxTime
    /\ pc \in [Requests -> Phases]
    /\ hold \in [Requests -> Slots]
    /\ succeeded \subseteq Requests

(* Redis outlives the gateways and may hold bytes of an older build. *)
Init ==
    /\ local = [g \in Gateways |-> [k \in CacheKeys |-> None]]
    /\ redis \in [CacheKeys -> {None, Garbled}]
    /\ \A k \in CacheKeys \ Leftovers : redis[k] = None
    /\ clock = 0
    /\ pc = [r \in Requests |-> "idle"]
    /\ hold = [r \in Requests |-> None]
    /\ succeeded = {}

Goto(r, p) == pc' = [pc EXCEPT ![r] = p]
LetGo(r) == hold' = [hold EXCEPT ![r] = None]
SetLocalTo(r, e) == local' = [local EXCEPT ![At[r]][Key(r)] = e]

-----------------------------------------------------------------------------
(* ServeHTTP *)

(* Other methods skip the cache, and so does a POST whose body cannot be   *)
(* read; the cache is not asked before the whole body is there.            *)
Arrive(r) ==
    /\ pc[r] = "idle"
    /\ \/ Method[r] # "GET" /\ Goto(r, "bypass")
       \/ Method[r] \in Methods /\ Goto(r, IF r \in Refresh THEN "delLocal" ELSE "getLocal")
    /\ UNCHANGED <<stores, clock, hold, succeeded>>

(* adapter.Get: the local cache, then Redis, whose answer fills the local  *)
(* cache.  An error of Redis is a miss.                                    *)
GetLocal(r) ==
    /\ pc[r] = "getLocal"
    /\ hold' = [hold EXCEPT ![r] = local[At[r]][Key(r)]]
    /\ Goto(r, IF local[At[r]][Key(r)] = None THEN "getRedis" ELSE "check")
    /\ UNCHANGED <<stores, clock, succeeded>>

GetRedis(r) ==
    /\ pc[r] = "getRedis"
    /\ \/ /\ redis[Key(r)] # None
          /\ hold' = [hold EXCEPT ![r] = redis[Key(r)]]
          /\ Goto(r, "fillLocal")
       \/ /\ redis[Key(r)] = None \/ RedisFails
          /\ Goto(r, "next")
          /\ UNCHANGED hold
    /\ UNCHANGED <<stores, clock, succeeded>>

FillLocal(r) ==
    /\ pc[r] = "fillLocal"
    /\ SetLocalTo(r, hold[r])
    /\ Goto(r, "check")
    /\ UNCHANGED <<redis, clock, hold, succeeded>>

TouchedExtending(e) == [e EXCEPT !.exp = @ + TTL]
TouchedSliding(e) == [e EXCEPT !.exp = clock + TTL]
Touched(e) == e

(* A hit is written back, with its access counters raised and its          *)
(* expiration kept; an expired entry is released.                          *)
Check(r) ==
    /\ pc[r] = "check"
    /\ \/ /\ hold[r] = Garbled
          /\ LetGo(r)
          /\ Goto(r, "bypass")
       \/ /\ hold[r] # Garbled /\ hold[r].exp > clock
          /\ hold' = [hold EXCEPT ![r] = Touched(@)]
          /\ Goto(r, "setLocal")
       \/ /\ hold[r] # Garbled /\ hold[r].exp <= clock
          /\ LetGo(r)
          /\ Goto(r, "delLocal")
    /\ UNCHANGED <<stores, clock, succeeded>>

(* adapter.Set, for a hit and for a new response. *)
SetLocal(r) ==
    /\ pc[r] = "setLocal"
    /\ SetLocalTo(r, hold[r])
    /\ Goto(r, "setRedis")
    /\ UNCHANGED <<redis, clock, hold, succeeded>>

(* A lifetime already over is not written; a failure is only logged. *)
SetRedis(r) ==
    /\ pc[r] = "setRedis"
    /\ \/ redis' = [redis EXCEPT ![Key(r)] = hold[r]]
       \/ (RedisFails \/ hold[r].exp <= clock) /\ UNCHANGED redis
    /\ LetGo(r)
    /\ Goto(r, "answered")
    /\ UNCHANGED <<local, clock, succeeded>>

(* adapter.Release, of an expired entry or for a refresh. *)
DelLocal(r) ==
    /\ pc[r] = "delLocal"
    /\ SetLocalTo(r, None)
    /\ Goto(r, "delRedis")
    /\ UNCHANGED <<redis, clock, hold, succeeded>>

AfterRelease(r) == "next"

DelRedis(r) ==
    /\ pc[r] = "delRedis"
    /\ \/ redis' = [redis EXCEPT ![Key(r)] = None]
       \/ RedisFails /\ UNCHANGED redis
    /\ Goto(r, AfterRelease(r))
    /\ UNCHANGED <<local, clock, hold, succeeded>>

(* A response and when it expires: TTL after its last byte. *)
Fresh(r) == [kind |-> "response", by |-> r, born |-> clock, exp |-> clock + TTL]

StorableAll(status) == TRUE
Storable(status) == status = "success"

(* next.ServeHTTP: upstream's answer.  A failure is a status of 400 or     *)
(* more, or a panic of the proxy on a broken copy, which unwinds this      *)
(* handler; the expiration counts from the moment the answer is complete.  *)
CallNext(r) ==
    /\ pc[r] = "next"
    /\ \E status \in {"success", "failure"} :
          /\ succeeded' = IF status = "success" THEN succeeded \cup {r} ELSE succeeded
          /\ IF Storable(status)
             THEN hold' = [hold EXCEPT ![r] = Fresh(r)] /\ Goto(r, "setLocal")
             ELSE Goto(r, "answered") /\ UNCHANGED hold
    /\ UNCHANGED <<stores, clock>>

(* The transport's next.RoundTrip: an error or a status of 400 or more is  *)
(* not stored, nor is a success whose body cannot be read to its end.      *)
CallTransport(r) ==
    /\ pc[r] = "next"
    /\ \E head \in {"success", "failure"}, whole \in BOOLEAN :
          /\ succeeded' = IF head = "success" /\ whole THEN succeeded \cup {r} ELSE succeeded
          /\ IF Storable(head) /\ whole
             THEN hold' = [hold EXCEPT ![r] = Fresh(r)] /\ Goto(r, "setLocal")
             ELSE Goto(r, "answered") /\ UNCHANGED hold
    /\ UNCHANGED <<stores, clock>>

(* next.ServeHTTP outside the cache: whatever it answers is not stored. *)
Bypass(r) ==
    /\ pc[r] = "bypass"
    /\ Goto(r, "answered")
    /\ UNCHANGED <<stores, clock, hold, succeeded>>

-----------------------------------------------------------------------------
(* The environment. *)

Tick ==
    /\ clock < MaxTime
    /\ clock' = clock + 1
    /\ UNCHANGED <<stores, pc, hold, succeeded>>

(* TinyLFU drops a copy when it is full, or ten minutes after the write. *)
Evict(g, k) ==
    /\ local[g][k] # None
    /\ local' = [local EXCEPT ![g][k] = None]
    /\ UNCHANGED <<redis, clock, pc, hold, succeeded>>

(* Redis' own TTL, set from the expiration. *)
ExpireRedis(k) ==
    /\ redis[k] \notin {None, Garbled} /\ redis[k].exp <= clock
    /\ redis' = [redis EXCEPT ![k] = None]
    /\ UNCHANGED <<local, clock, pc, hold, succeeded>>

Cached(r) ==
    \/ GetLocal(r) \/ GetRedis(r) \/ FillLocal(r) \/ Check(r) \/ SetLocal(r) \/ SetRedis(r)
    \/ DelLocal(r) \/ DelRedis(r) \/ Bypass(r)

ServeHTTP(r) == r \notin Transport /\ (Cached(r) \/ CallNext(r))
RoundTrip(r) == r \in Transport /\ (Cached(r) \/ CallTransport(r))
Step(r) == ServeHTTP(r) \/ RoundTrip(r)

Next ==
    \/ \E r \in Requests : Arrive(r) \/ Step(r)
    \/ \E g \in Gateways, k \in CacheKeys : Evict(g, k)
    \/ \E k \in CacheKeys : ExpireRedis(k)
    \/ Tick

Spec == Init /\ [][Next]_vars

-----------------------------------------------------------------------------
(* Properties. *)

Identity(r) == <<Method[r], Url[r], Body[r]>>

(* Hits write entries back again and again (middleware.go:57), from any    *)
(* process, but never prolong them: when a handler decides for a hit, the  *)
(* response left upstream less than TTL ago.                               *)
HitsWithinTTL ==
    [][\A r \in Requests :
         pc[r] = "check" /\ pc'[r] = "setLocal" => clock < hold[r].born + TTL]_vars

(* The key separates neither URL from body nor one method from another,    *)
(* and a refresh is stored under the bare URL (cache.go:141,               *)
(* middleware.go:41): what it does ensure, through both layers and every   *)
(* write-back, is that a POST is answered with no other POST's response to *)
(* the same URL or the same body, nor a GET with that to another URL.      *)
SameMethodToldApart ==
    \A r \in Requests \ Refresh :
        pc[r] \in {"setLocal", "setRedis"} =>
            LET q == hold[r].by
            IN  q \notin Refresh /\ Method[q] = Method[r] =>
                    IF Method[r] = "POST" THEN Url[q] = Url[r] <=> Body[q] = Body[r]
                    ELSE Url[q] = Url[r]

(* Every entry, in Redis or in any process, is a success of upstream: an   *)
(* error is never replayed to later clients (middleware.go:87).            *)
OnlySuccessesStored ==
    \A e \in {redis[k] : k \in CacheKeys} \cup
             {local[g][k] : g \in Gateways, k \in CacheKeys} :
        e \in {None, Garbled} \/ e.by \in succeeded
=============================================================================
