------------------------ MODULE ResponseCacheProofs ------------------------
(***************************************************************************)
(* Proofs about module ResponseCache, for every set of requests, gateways  *)
(* and keys, every TTL and any assignment of requests to gateways.         *)
(***************************************************************************)
EXTENDS ResponseCache, SequenceTheorems, TLAPS

(* A copy of an entry under the key k lives for TTL from its birth,        *)
(* whichever layer or handler has it, and its response is one of the       *)
(* successes in S, to a request of that key.                               *)
Sound(e, k, S) ==
    e \in {None, Garbled} \/ (e.exp = e.born + TTL /\ e.by \in S /\ Key(e.by) = k)

LayersSound ==
    /\ \A k \in CacheKeys : Sound(redis[k], k, succeeded)
    /\ \A g \in Gateways, k \in CacheKeys : Sound(local[g][k], k, succeeded)

HoldsSound ==
    \A r \in Requests :
        /\ Sound(hold[r], Key(r), succeeded)
        /\ pc[r] \in {"fillLocal", "check"} => hold[r] # None
        /\ pc[r] \in {"setLocal", "setRedis"} => hold[r] \notin {None, Garbled}

IInv == TypeOK /\ LayersSound /\ HoldsSound

-----------------------------------------------------------------------------
(* The data. *)

LEMMA KeysAndGateways ==
    ASSUME NEW r \in Requests
    PROVE  Key(r) \in CacheKeys /\ At[r] \in Gateways
  BY RequestsAssumption DEF CacheKeys

LEMMA NothingIsASlot == None \in Slots /\ Garbled \in Slots
  BY DEF Slots

LEMMA ClockInTime ==
    ASSUME TypeOK
    PROVE  clock \in Time /\ clock + TTL \in Time
  BY TimeAssumption DEF TypeOK, Time

LEMMA FreshIsSound ==
    ASSUME TypeOK, NEW r \in Requests
    PROVE  /\ Fresh(r) \in Slots /\ Fresh(r) \notin {None, Garbled}
           /\ \A S : r \in S => Sound(Fresh(r), Key(r), S)
  <1>1. Fresh(r) \in Entries
    BY ClockInTime DEF Fresh, Entries
  <1>2. Fresh(r) \notin {None, Garbled}
    BY DEF Fresh, None, Garbled
  <1>3. Fresh(r).exp = Fresh(r).born + TTL /\ Fresh(r).by = r
    BY DEF Fresh
  <1> QED
    BY <1>1, <1>2, <1>3 DEF Slots, Sound

LEMMA SoundLater ==
    ASSUME NEW S, NEW T, S \subseteq T, NEW e, NEW k, Sound(e, k, S)
    PROVE  Sound(e, k, T)
  BY DEF Sound

-----------------------------------------------------------------------------
(* What a step does to the variables the invariant relates: a layer gets   *)
(* nothing but what a handler holds, and a handler nothing but what a      *)
(* layer has, or a response upstream has just given.                       *)

(* The value a handler may come to hold, and what a cell of a layer may.   *)
Held(r, e) ==
    \/ e \in {hold[r], None, redis[Key(r)], local[At[r]][Key(r)]}
    \/ e = Fresh(r) /\ r \in succeeded'

StepOf(r) ==
    /\ \A q \in Requests \ {r} : pc'[q] = pc[q] /\ hold'[q] = hold[q]
    /\ pc' \in [Requests -> Phases] /\ Held(r, hold'[r])
    /\ hold' = [hold EXCEPT ![r] = hold'[r]]
    /\ pc'[r] \in {"fillLocal", "check"} => hold'[r] # None
    /\ pc'[r] \in {"setLocal", "setRedis"} => hold'[r] \notin {None, Garbled}
    /\ \/ redis' = redis
       \/ \E e \in {None, hold[r]} : redis' = [redis EXCEPT ![Key(r)] = e]
    /\ \/ local' = local
       \/ \E e \in {None, hold[r]} : SetLocalTo(r, e)
    /\ clock' = clock
    /\ succeeded \subseteq succeeded' /\ succeeded' \subseteq Requests

LEMMA HandlerSteps ==
    ASSUME IInv, NEW r \in Requests, Arrive(r) \/ Step(r)
    PROVE  StepOf(r)
  <1> USE DEF IInv, TypeOK, Goto, LetGo, StepOf, Held, Phases
  <1>1. CASE Arrive(r)
    BY <1>1 DEF Arrive, stores
  <1>2. CASE GetLocal(r)
    BY <1>2 DEF GetLocal, stores
  <1>3. CASE GetRedis(r)
    BY <1>3 DEF GetRedis, stores
  <1>4. CASE FillLocal(r)
    BY <1>4 DEF FillLocal, HoldsSound
  <1>5. CASE Check(r)
    BY <1>5 DEF Check, Touched, HoldsSound, stores
  <1>6. CASE SetLocal(r)
    BY <1>6 DEF SetLocal, HoldsSound
  <1>7. CASE SetRedis(r)
    BY <1>7 DEF SetRedis
  <1>8. CASE DelLocal(r)
    BY <1>8 DEF DelLocal
  <1>9. CASE DelRedis(r)
    BY <1>9 DEF DelRedis, AfterRelease
  <1>10. CASE Bypass(r)
    BY <1>10 DEF Bypass, stores
  <1>11. CASE CallNext(r)
    BY <1>11, FreshIsSound DEF CallNext, Storable, stores
  <1>12. CASE CallTransport(r)
    BY <1>12, FreshIsSound DEF CallTransport, Storable, stores
  <1> QED
    BY <1>1, <1>2, <1>3, <1>4, <1>5, <1>6, <1>7, <1>8, <1>9, <1>10, <1>11, <1>12
    DEF Step, ServeHTTP, RoundTrip, Cached

-----------------------------------------------------------------------------
(* The invariant. *)

LEMMA InvInit == Init => IInv
  <1> SUFFICES ASSUME Init PROVE IInv
    OBVIOUS
  <1>1. TypeOK
    BY TimeAssumption, NothingIsASlot DEF Init, TypeOK, Phases
  <1>2. LayersSound
    BY DEF Init, LayersSound, Sound
  <1>3. HoldsSound
    BY DEF Init, HoldsSound, Sound
  <1> QED
    BY <1>1, <1>2, <1>3 DEF IInv

(* What a handler may come to hold is a slot, and sound. *)
LEMMA HeldIsSound ==
    ASSUME IInv, NEW r \in Requests, NEW e, Held(r, e), succeeded \subseteq succeeded'
    PROVE  e \in Slots /\ Sound(e, Key(r), succeeded')
  <1> USE KeysAndGateways
  <1>1. CASE e = None
    BY <1>1, NothingIsASlot DEF Sound
  <1>2. CASE e \in {hold[r], redis[Key(r)], local[At[r]][Key(r)]}
    <2>1. e \in Slots
      BY <1>2 DEF IInv, TypeOK
    <2>2. Sound(e, Key(r), succeeded)
      BY <1>2 DEF IInv, LayersSound, HoldsSound
    <2> QED
      BY <2>1, <2>2, SoundLater
  <1>3. CASE e = Fresh(r) /\ r \in succeeded'
    BY <1>3, FreshIsSound DEF IInv
  <1> QED
    BY <1>1, <1>2, <1>3 DEF Held

LEMMA StepKeepsInv ==
    ASSUME IInv, NEW r \in Requests, StepOf(r)
    PROVE  IInv'
  <1> USE KeysAndGateways
  <1>1. \A e \in {None, hold[r]} : e \in Slots /\ Sound(e, Key(r), succeeded')
    BY HeldIsSound DEF StepOf, Held
  <1>2. hold'[r] \in Slots /\ Sound(hold'[r], Key(r), succeeded')
    BY HeldIsSound DEF StepOf
  <1>3. redis' \in [CacheKeys -> Slots]
    BY <1>1 DEF StepOf, IInv, TypeOK
  <1>4. local' \in [Gateways -> [CacheKeys -> Slots]]
    <2>1. CASE local' = local
      BY <2>1 DEF IInv, TypeOK
    <2>2. ASSUME NEW e \in {None, hold[r]}, SetLocalTo(r, e)
          PROVE  local' \in [Gateways -> [CacheKeys -> Slots]]
      BY <1>1, <2>2 DEF SetLocalTo, IInv, TypeOK
    <2> QED
      BY <2>1, <2>2 DEF StepOf
  <1>5. TypeOK'
    BY <1>2, <1>3, <1>4 DEF StepOf, IInv, TypeOK
  <1>6. ASSUME NEW k \in CacheKeys
        PROVE  Sound(redis'[k], k, succeeded')
    <2>1. redis'[k] = redis[k] \/ (k = Key(r) /\ redis'[k] \in {None, hold[r]})
      BY DEF StepOf, IInv, TypeOK
    <2>2. Sound(redis[k], k, succeeded')
      BY SoundLater DEF StepOf, IInv, LayersSound
    <2> QED
      BY <1>1, <2>1, <2>2
  <1>7. ASSUME NEW g \in Gateways, NEW k \in CacheKeys
        PROVE  Sound(local'[g][k], k, succeeded')
    <2>1. local'[g][k] = local[g][k] \/ (k = Key(r) /\ local'[g][k] \in {None, hold[r]})
      BY DEF StepOf, SetLocalTo, IInv, TypeOK
    <2>2. Sound(local[g][k], k, succeeded')
      BY SoundLater DEF StepOf, IInv, LayersSound
    <2> QED
      BY <1>1, <2>1, <2>2
  <1>8. ASSUME NEW q \in Requests
        PROVE  /\ Sound(hold'[q], Key(q), succeeded')
               /\ pc'[q] \in {"fillLocal", "check"} => hold'[q] # None
               /\ pc'[q] \in {"setLocal", "setRedis"} => hold'[q] \notin {None, Garbled}
    <2>1. CASE q = r
      BY <1>2, <2>1 DEF StepOf
    <2>2. CASE q # r
      <3>1. Sound(hold[q], Key(q), succeeded')
        BY SoundLater DEF StepOf, IInv, HoldsSound
      <3> QED
        BY <2>2, <3>1 DEF StepOf, IInv, HoldsSound
    <2> QED
      BY <2>1, <2>2
  <1> QED
    BY <1>5, <1>6, <1>7, <1>8 DEF IInv, LayersSound, HoldsSound

(* The environment only removes entries and moves the clock. *)
LEMMA EnvironmentKeepsInv ==
    ASSUME IInv,
           \/ \E g \in Gateways, k \in CacheKeys : Evict(g, k)
           \/ \E k \in CacheKeys : ExpireRedis(k)
           \/ Tick
    PROVE  IInv'
  <1> USE NothingIsASlot
  <1>1. ASSUME NEW g \in Gateways, NEW k \in CacheKeys, Evict(g, k)
        PROVE  IInv'
    <2>1. TypeOK'
      BY <1>1 DEF Evict, IInv, TypeOK
    <2>2. LayersSound'
      BY <1>1 DEF Evict, IInv, TypeOK, LayersSound, Sound
    <2>3. HoldsSound'
      BY <1>1 DEF Evict, IInv, HoldsSound
    <2> QED
      BY <2>1, <2>2, <2>3 DEF IInv
  <1>2. ASSUME NEW k \in CacheKeys, ExpireRedis(k)
        PROVE  IInv'
    <2>1. TypeOK'
      BY <1>2 DEF ExpireRedis, IInv, TypeOK
    <2>2. LayersSound'
      BY <1>2 DEF ExpireRedis, IInv, TypeOK, LayersSound, Sound
    <2>3. HoldsSound'
      BY <1>2 DEF ExpireRedis, IInv, HoldsSound
    <2> QED
      BY <2>1, <2>2, <2>3 DEF IInv
  <1>3. CASE Tick
    <2>1. TypeOK'
      BY <1>3, TimeAssumption DEF Tick, stores, IInv, TypeOK
    <2>2. LayersSound' /\ HoldsSound'
      BY <1>3 DEF Tick, stores, IInv, LayersSound, HoldsSound
    <2> QED
      BY <2>1, <2>2 DEF IInv
  <1> QED
    BY <1>1, <1>2, <1>3

LEMMA InvInductive == IInv /\ [Next]_vars => IInv'
  <1> SUFFICES ASSUME IInv, [Next]_vars PROVE IInv'
    OBVIOUS
  <1>1. ASSUME NEW r \in Requests, Arrive(r) \/ Step(r)
        PROVE  IInv'
    BY <1>1, HandlerSteps, StepKeepsInv
  <1>2. CASE UNCHANGED vars
    BY <1>2 DEF vars, stores, IInv, TypeOK, LayersSound, HoldsSound
  <1> QED
    BY <1>1, <1>2, EnvironmentKeepsInv DEF Next

LEMMA InvCorrect == Spec => []IInv
  BY InvInit, InvInductive, PTL DEF Spec

-----------------------------------------------------------------------------
(* The theorems. *)

(* Every variable keeps its type, whatever the constants: in particular no *)
(* stored expiration lies more than TTL after the clock's bound.           *)
THEOREM TypeCorrect == Spec => []TypeOK
  <1>1. IInv => TypeOK
    BY DEF IInv
  <1> QED
    BY <1>1, InvCorrect, PTL

(* However the accesses of handlers and processes to the two layers        *)
(* interleave and fail, nothing but successes of upstream is ever stored:  *)
(* no handler can hold, and so write back, anything else                   *)
(* (middleware.go:87).                                                     *)
THEOREM StoredCorrect == Spec => []OnlySuccessesStored
  <1>1. IInv => OnlySuccessesStored
    BY DEF IInv, LayersSound, Sound, OnlySuccessesStored
  <1> QED
    BY <1>1, InvCorrect, PTL

(* A handler that decides for a hit holds a response younger than TTL,     *)
(* however often it has been written back before (middleware.go:54).       *)
THEOREM FreshnessCorrect == Spec => HitsWithinTTL
  <1> DEFINE Young(r) ==
        pc[r] = "check" /\ pc'[r] = "setLocal" => clock < hold[r].born + TTL
  <1>1. ASSUME IInv, [Next]_vars, NEW r \in Requests, pc[r] = "check", pc'[r] = "setLocal"
        PROVE  clock < hold[r].born + TTL
    <2>1. Check(r)
      <3>1. PICK q \in Requests : Arrive(q) \/ Step(q)
        BY <1>1 DEF Next, vars, Evict, ExpireRedis, Tick
      <3>2. q = r
        BY <1>1, <3>1, HandlerSteps DEF StepOf
      <3> QED
        BY <1>1, <3>1, <3>2
        DEF Step, ServeHTTP, RoundTrip, Cached, Arrive, GetLocal, GetRedis, FillLocal,
            SetLocal, SetRedis, DelLocal, DelRedis, Bypass, CallNext, CallTransport
    <2>2. hold[r] # Garbled /\ hold[r].exp > clock
      BY <1>1, <2>1 DEF Check, Goto, IInv, TypeOK
    <2>3. hold[r] # None /\ Sound(hold[r], Key(r), succeeded)
      BY <1>1 DEF IInv, HoldsSound
    <2>4. hold[r].exp = hold[r].born + TTL
      BY <2>2, <2>3 DEF Sound
    <2> QED
      <3>1. hold[r].exp \in Nat /\ clock \in Nat
        BY <1>1, <2>2, <2>3, TimeAssumption DEF IInv, TypeOK, Slots, Entries, Time
      <3> QED
        BY <2>2, <2>4, <3>1
  <1>2. IInv /\ [Next]_vars => \A r \in Requests : Young(r)
    BY <1>1
  <1>3. Spec => [][\A r \in Requests : Young(r)]_vars
    BY <1>2, InvCorrect, PTL DEF Spec
  <1> QED
    BY <1>3 DEF HitsWithinTTL

(* Of two requests with one key and one method, no refresh among them, the *)
(* URLs are equal, or, for a POST, as equal as the bodies: equal bytes     *)
(* after equal bytes, or before them.                                      *)
LEMMA KeyTellsApart ==
    ASSUME NEW r \in Requests \ Refresh, NEW q \in Requests \ Refresh,
           Key(q) = Key(r), Method[q] = Method[r]
    PROVE  IF Method[r] = "POST" THEN Url[q] = Url[r] <=> Body[q] = Body[r]
           ELSE Url[q] = Url[r]
  <1>1. CASE Method[r] = "POST"
    <2>1. Url[q] \o Body[q] = Url[r] \o Body[r]
      BY <1>1 DEF Key, LookupKey
    <2>2. /\ Url[q] \in Seq(Bytes) /\ Url[r] \in Seq(Bytes)
          /\ Body[q] \in Seq(Bytes) /\ Body[r] \in Seq(Bytes)
      BY BytesAssumption
    <2>3. ASSUME Url[q] = Url[r] PROVE Body[q] = Body[r]
      BY <2>1, <2>2, <2>3, ConcatSimplifications
    <2>4. ASSUME Body[q] = Body[r] PROVE Url[q] = Url[r]
      BY <2>1, <2>2, <2>4, ConcatSimplifications
    <2> QED
      BY <1>1, <2>3, <2>4
  <1>2. CASE Method[r] # "POST"
    BY <1>2 DEF Key, LookupKey
  <1> QED
    BY <1>1, <1>2

(* None of the ways the layers are read and written moves an entry to      *)
(* another key, so what the bytes of two keys tell apart is never mixed    *)
(* up, whatever the requests and however their handlers interleave         *)
(* (cache.go:141, middleware.go:80).                                       *)
THEOREM ToldApartCorrect == Spec => []SameMethodToldApart
  <1>1. IInv => SameMethodToldApart
    <2> SUFFICES ASSUME IInv, NEW r \in Requests \ Refresh, pc[r] \in {"setLocal", "setRedis"},
                        hold[r].by \notin Refresh, Method[hold[r].by] = Method[r]
                 PROVE  IF Method[r] = "POST" THEN Url[hold[r].by] = Url[r] <=> Body[hold[r].by] = Body[r]
                        ELSE Url[hold[r].by] = Url[r]
      BY DEF SameMethodToldApart
    <2>1. hold[r] \notin {None, Garbled} /\ Sound(hold[r], Key(r), succeeded)
      BY DEF IInv, HoldsSound
    <2>2. hold[r].by \in Requests /\ Key(hold[r].by) = Key(r)
      BY <2>1 DEF Sound, IInv, TypeOK
    <2> QED
      BY <2>2, KeyTellsApart
  <1> QED
    BY <1>1, InvCorrect, PTL
=============================================================================
