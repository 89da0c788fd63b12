--------------------------- MODULE GatewayProofs ---------------------------
(***************************************************************************)
(* Proofs about module Gateway and the name servers in it, for any number  *)
(* of services, keys and requests and any number of restarts.              *)
(***************************************************************************)
EXTENDS Gateway, TLAPS

CallPhases == {"get", "wait", "again", "query", "asking", "store", "lost", "done"}
Calls == [pc : CallPhases, at : Servers, name : Names, id : Answers]

(* Who calls, and for what: the start for the names of services, a request *)
(* for the name of its key at its own proxy.                               *)
CallsMatch ==
    /\ call \in [Callers -> Calls \cup {NoCall}]
    /\ call[Main] # NoCall => phase = "starting" /\ call[Main].name = ServiceName(call[Main].at)
    /\ \A r \in Requests :
          /\ pc[r] # "away" => account[r] \in Servers \X Keys
          /\ pc[r] = "away" => account[r] = <<>>
          /\ pc[r] \in {"reserving", "refunding"} =>
                call[r] \in Calls /\ <<call[r].at, call[r].name>> = account[r]

(* Requests run only in a process all of whose proxies have been built. *)
ProxiesBuilt ==
    /\ phase \in {"serving", "draining"} => \A s \in Servers : serviceId[s] # None
    /\ \A r \in InProgress : phase \in {"serving", "draining"}

(* What is anywhere on its way is the id of its own name. *)
OwnIds ==
    /\ \A s \in Servers : conn[s] # "mixed" /\ serviceId[s] \in {None, Id[ServiceName(s)]}
    /\ \A n \in Names : shared[n] \in {None, Id[n]} /\ \A s \in Servers : local[s][n] \in {None, Id[n]}
    /\ \A c \in Callers :
          call[c] # NoCall /\ call[c].pc \in {"store", "done"} =>
              call[c].id \in {None, Id[call[c].name]}

IInv ==
    /\ NsTypeOK /\ CallsMatch /\ ProxiesBuilt
    /\ ~raced => OwnIds

-----------------------------------------------------------------------------
(* The calls. *)

LEMMA NoCallIsNone == NoCall \notin Calls /\ NoCall.pc = "none"
  BY DEF NoCall, Calls, CallPhases

LEMMA KeysAreNames == CacheKeys = Names /\ None \in Answers /\ \A n \in Names : Id[n] \in Answers /\ Id[n] # None
  BY NamesAssumption DEF CacheKeys, CacheKey, None, Answers, Ids

LEMMA ServicesAreNames ==
    \A s \in Servers : ServiceName(s) \in Names /\ Id[ServiceName(s)] \in Ids
  BY GatewayAssumption DEF ServiceName, Ids

LEMMA CallMoved ==
    ASSUME NEW r \in Calls, NEW p \in CallPhases
    PROVE  LET m == [r EXCEPT !.pc = p]
           IN m \in Calls /\ m.pc = p /\ m.id = r.id /\ m.at = r.at /\ m.name = r.name
  BY DEF Calls

(* What a step of the name server may do to a call: nothing, or move it    *)
(* on; with an id that is given to it now, id, or without one.             *)
Onward(d, id) ==
    \/ call'[d] = call[d]
    \/ /\ call[d] \in Calls /\ call'[d] \in Calls
       /\ call'[d].at = call[d].at /\ call'[d].name = call[d].name
       /\ call'[d].pc \in {"store", "done"} => call'[d].id = id

LEMMA LandEffect ==
    ASSUME IInv, NEW c \in Callers, call[c] \in Calls, NEW id \in Answers, Land(c, id)
    PROVE  /\ flight' \in [Servers -> [CacheKeys -> Callers \cup {Nobody}]]
           /\ call' = [d \in Callers |-> call'[d]]
           /\ \A d \in Callers : Onward(d, id) /\ (call'[d] # call[d] => call[d].name = call[c].name)
  <1> USE DEF IInv, CallsMatch
  <1>1. flight' \in [Servers -> [CacheKeys -> Callers \cup {Nobody}]]
    BY DEF Land, Landing, NsTypeOK
  <1>2. call' = [d \in Callers |-> call'[d]]
    BY DEF Land
  <1>3. ASSUME NEW d \in Callers, call'[d] # call[d]
        PROVE  /\ call[d] \in Calls /\ call[d].name = call[c].name
               /\ call'[d] = [call[d] EXCEPT !.pc = "done", !.id = id]
    BY <1>3 DEF Land, CacheKey, Returned
  <1>4. ASSUME NEW d \in Callers
        PROVE  Onward(d, id)
    <2>1. CASE call'[d] # call[d]
      <3>1. "done" \in CallPhases
        BY DEF CallPhases
      <3>2. /\ call[d] \in Calls
            /\ call'[d] = [call[d] EXCEPT !.pc = "done", !.id = id]
        BY <1>3, <2>1
      <3>3. /\ call'[d] \in Calls /\ call'[d].id = id
            /\ call'[d].at = call[d].at /\ call'[d].name = call[d].name
        BY <3>1, <3>2 DEF Calls
      <3> QED
        BY <3>2, <3>3 DEF Onward
    <2> QED
      BY <2>1 DEF Onward
  <1> QED
    BY <1>1, <1>2, <1>3, <1>4

LEMMA GotoEffect ==
    ASSUME IInv, NEW c \in Callers, call[c] \in Calls,
           NEW p \in CallPhases \ {"store", "done"}, CallGoto(c, p)
    PROVE  call' = [d \in Callers |-> call'[d]] /\ \A d \in Callers : \A id \in Answers : Onward(d, id)
  <1>1. call'[c] = [call[c] EXCEPT !.pc = p] /\ \A d \in Callers \ {c} : call'[d] = call[d]
    BY DEF CallGoto, IInv, CallsMatch
  <1>2. /\ call'[c] \in Calls /\ call'[c].pc = p
        /\ call'[c].at = call[c].at /\ call'[c].name = call[c].name
    <2>1. p \in CallPhases
      OBVIOUS
    <2> QED
      BY <1>1, <2>1, CallMoved
  <1>3. call' = [d \in Callers |-> call'[d]]
    BY DEF CallGoto, IInv, CallsMatch
  <1> QED
    BY <1>1, <1>2, <1>3 DEF Onward

(* A step of a call: every call it moves on is for one name, n, and the id *)
(* is that name's own if everything was before.                            *)
StepOfCall(c) ==
    /\ rows' = rows /\ call' = [d \in Callers |-> call'[d]]
    /\ local' \in [Servers -> [CacheKeys -> Answers]] /\ shared' \in [CacheKeys -> Answers]
    /\ conn' \in [Servers -> {"free", "busy", "mixed", "closed"}]
    /\ flight' \in [Servers -> [CacheKeys -> Callers \cup {Nobody}]]
    /\ raced' \in BOOLEAN /\ (raced => raced')
    /\ \E id \in Answers :
          /\ \A d \in Callers : Onward(d, id)
          /\ ~raced' /\ OwnIds =>
                /\ \A d \in Callers : call'[d] # call[d] => id \in {None, Id[call[d].name]}
                /\ \A s \in Servers : conn'[s] # "mixed"
                /\ \A n \in Names : /\ shared'[n] \in {None, Id[n]}
                                    /\ \A s \in Servers : local'[s][n] \in {None, Id[n]}

LEMMA CallerCalls ==
    ASSUME IInv, NEW c \in Callers, call[c].pc # "none"
    PROVE  /\ call[c] \in Calls /\ call[c].at \in Servers /\ call[c].name \in Names
           /\ call[c].id \in Answers
  BY NoCallIsNone DEF IInv, CallsMatch, Calls

(* Found, and filled into the local cache, or not. *)
LEMMA FoundEffect ==
    ASSUME IInv, NEW s \in Servers, NEW n \in Names, NEW id \in Found(s, n)
    PROVE  /\ id \in Answers /\ (OwnIds => id \in {None, Id[n]})
           /\ SetLocal(s, n, id) =>
                 /\ local' \in [Servers -> [CacheKeys -> Answers]]
                 /\ OwnIds => \A m \in Names, t \in Servers : local'[t][m] \in {None, Id[m]}
  <1> USE KeysAreNames DEF IInv, NsTypeOK
  <1>1. id \in Answers /\ (OwnIds => id \in {None, Id[n]})
    BY DEF Found, OwnIds
  <1>2. ASSUME SetLocal(s, n, id)
        PROVE  local' \in [Servers -> [CacheKeys -> Answers]]
    BY <1>1, <1>2 DEF SetLocal
  <1>3. ASSUME SetLocal(s, n, id), OwnIds, NEW m \in Names, NEW t \in Servers
        PROVE  local'[t][m] \in {None, Id[m]}
    BY <1>1, <1>3 DEF SetLocal, OwnIds
  <1> QED
    BY <1>1, <1>2, <1>3

LEMMA GetSteps ==
    ASSUME IInv, NEW c \in Callers, Get(c)
    PROVE  StepOfCall(c)
  <1> USE KeysAreNames DEF StepOfCall
  <1> DEFINE s == call[c].at
             n == call[c].name
  <1>1. call[c] \in Calls /\ s \in Servers /\ n \in Names /\ CacheKey(n) = n
    BY CallerCalls DEF Get, CacheKey
  <1>2. /\ rows' = rows /\ shared' = shared /\ conn' = conn /\ raced' = raced
        /\ raced \in BOOLEAN /\ shared \in [CacheKeys -> Answers]
        /\ conn \in [Servers -> {"free", "busy", "mixed", "closed"}]
        /\ local \in [Servers -> [CacheKeys -> Answers]]
        /\ flight \in [Servers -> [CacheKeys -> Callers \cup {Nobody}]]
    BY DEF Get, IInv, NsTypeOK
  <1>3. ASSUME NEW id \in Found(s, n), id # None, SetLocal(s, n, id), flight' = flight,
               call' = [call EXCEPT ![c] = Returned(@, id)]
        PROVE  StepOfCall(c)
    <2>1. /\ call'[c] = [call[c] EXCEPT !.pc = "done", !.id = id]
          /\ call' = [d \in Callers |-> call'[d]] /\ \A d \in Callers \ {c} : call'[d] = call[d]
      BY <1>3 DEF Returned, IInv, CallsMatch
    <2>2. id \in Answers
      BY <1>1, FoundEffect
    <2>3. \A d \in Callers : Onward(d, id)
      <3>1. /\ call'[c] \in Calls /\ call'[c].id = id
            /\ call'[c].at = s /\ call'[c].name = n
        BY <1>1, <2>1, <2>2 DEF Calls, CallPhases
      <3> QED
        BY <1>1, <2>1, <3>1 DEF Onward
    <2>4. local' \in [Servers -> [CacheKeys -> Answers]]
      BY <1>1, <1>3, FoundEffect
    <2>5. ASSUME OwnIds
          PROVE  /\ id \in {None, Id[n]}
                 /\ \A m \in Names : /\ shared'[m] \in {None, Id[m]}
                                     /\ \A t \in Servers : local'[t][m] \in {None, Id[m]}
      <3>1. /\ id \in {None, Id[n]}
            /\ \A m \in Names, t \in Servers : local'[t][m] \in {None, Id[m]}
        BY <1>1, <1>3, <2>5, FoundEffect
      <3> QED
        BY <1>2, <2>5, <3>1 DEF OwnIds
    <2>6. \A t \in Servers : OwnIds => conn'[t] # "mixed"
      BY <1>2 DEF OwnIds
    <2>7. \A d \in Callers : call'[d] # call[d] => d = c
      BY <2>1
    <2> QED
      BY <1>2, <1>3, <2>1, <2>2, <2>3, <2>4, <2>5, <2>6, <2>7
  <1>4. ASSUME local' = local,
               \/ CallGoto(c, "wait") /\ flight' = flight
               \/ CallGoto(c, "again") /\ flight' = [flight EXCEPT ![s][n] = c]
        PROVE  StepOfCall(c)
    <2>1. call' = [d \in Callers |-> call'[d]] /\ \A d \in Callers : Onward(d, None)
      BY <1>1, <1>4, GotoEffect DEF CallPhases
    <2>2. flight' \in [Servers -> [CacheKeys -> Callers \cup {Nobody}]]
      <3>1. CASE flight' = flight
        BY <1>2, <3>1
      <3>2. CASE flight' = [flight EXCEPT ![s][n] = c]
        BY <1>1, <1>2, <3>2
      <3> QED
        BY <1>4, <3>1, <3>2
    <2> QED
      BY <1>2, <1>4, <2>1, <2>2 DEF OwnIds
  <1> QED
    BY <1>1, <1>3, <1>4 DEF Get

LEMMA GetAgainSteps ==
    ASSUME IInv, NEW c \in Callers, GetAgain(c)
    PROVE  StepOfCall(c)
  <1> USE KeysAreNames DEF StepOfCall
  <1> DEFINE s == call[c].at
             n == call[c].name
  <1>1. call[c] \in Calls /\ s \in Servers /\ n \in Names /\ CacheKey(n) = n
    BY CallerCalls DEF GetAgain, CacheKey
  <1>2. /\ rows' = rows /\ shared' = shared /\ conn' = conn /\ raced' = raced
        /\ raced \in BOOLEAN /\ shared \in [CacheKeys -> Answers]
        /\ conn \in [Servers -> {"free", "busy", "mixed", "closed"}]
        /\ local \in [Servers -> [CacheKeys -> Answers]]
        /\ flight \in [Servers -> [CacheKeys -> Callers \cup {Nobody}]]
    BY DEF GetAgain, IInv, NsTypeOK
  <1>3. ASSUME NEW id \in Found(s, n), SetLocal(s, n, id), Land(c, id)
        PROVE  StepOfCall(c)
    <2>1. id \in Answers
      BY <1>1, FoundEffect
    <2>2. local' \in [Servers -> [CacheKeys -> Answers]]
      BY <1>1, <1>3, FoundEffect
    <2>3. ASSUME OwnIds
          PROVE  /\ id \in {None, Id[n]}
                 /\ \A m \in Names : /\ shared'[m] \in {None, Id[m]}
                                     /\ \A t \in Servers : local'[t][m] \in {None, Id[m]}
      <3>1. /\ id \in {None, Id[n]}
            /\ \A m \in Names, t \in Servers : local'[t][m] \in {None, Id[m]}
        BY <1>1, <1>3, <2>3, FoundEffect
      <3> QED
        BY <1>2, <2>3, <3>1 DEF OwnIds
    <2>4. \A t \in Servers : OwnIds => conn'[t] # "mixed"
      BY <1>2 DEF OwnIds
    <2>5. /\ flight' \in [Servers -> [CacheKeys -> Callers \cup {Nobody}]]
          /\ call' = [d \in Callers |-> call'[d]]
          /\ \A d \in Callers : Onward(d, id) /\ (call'[d] # call[d] => call[d].name = n)
      BY <1>1, <1>3, <2>1, LandEffect
    <2> QED
      BY <1>2, <2>1, <2>2, <2>3, <2>4, <2>5
  <1>4. ASSUME CallGoto(c, "query"), local' = local, flight' = flight
        PROVE  StepOfCall(c)
    <2>1. call' = [d \in Callers |-> call'[d]] /\ \A d \in Callers : Onward(d, None)
      BY <1>1, <1>4, GotoEffect DEF CallPhases
    <2> QED
      BY <1>2, <1>4, <2>1 DEF OwnIds
  <1> QED
    BY <1>1, <1>3, <1>4 DEF GetAgain

(* Steps that give nobody an id. *)
LEMMA StepsWithoutId ==
    ASSUME IInv, NEW c \in Callers, call[c] \in Calls,
           rows' = rows, local' = local, shared' = shared,
           conn' \in [Servers -> {"free", "busy", "mixed", "closed"}],
           raced' \in BOOLEAN, raced => raced',
           ~raced' /\ OwnIds => \A s \in Servers : conn'[s] # "mixed",
           \/ Land(c, None)
           \/ flight' = flight /\ \E p \in CallPhases \ {"store", "done"} : CallGoto(c, p)
    PROVE  StepOfCall(c)
  <1> USE KeysAreNames
  <1>1. /\ flight' \in [Servers -> [CacheKeys -> Callers \cup {Nobody}]]
        /\ call' = [d \in Callers |-> call'[d]] /\ \A d \in Callers : Onward(d, None)
    <2>1. CASE Land(c, None)
      BY <2>1, LandEffect
    <2>2. CASE flight' = flight /\ \E p \in CallPhases \ {"store", "done"} : CallGoto(c, p)
      BY <2>2, GotoEffect DEF IInv, NsTypeOK
    <2> QED
      BY <2>1, <2>2
  <1>2. local \in [Servers -> [CacheKeys -> Answers]] /\ shared \in [CacheKeys -> Answers]
    BY DEF IInv, NsTypeOK
  <1>3. OwnIds => \A n \in Names : /\ shared'[n] \in {None, Id[n]}
                                   /\ \A s \in Servers : local'[s][n] \in {None, Id[n]}
    BY DEF OwnIds
  <1> QED
    BY <1>1, <1>2, <1>3 DEF StepOfCall

(* Postgres gives one call the id of name m. *)
LEMMA IdGiven ==
    ASSUME IInv, NEW c \in Callers, call[c] \in Calls, NEW m \in Names,
           rows' = rows, local' = local, shared' = shared, flight' = flight, raced' = raced,
           conn' \in [Servers -> {"free", "busy", "mixed", "closed"}],
           call' = [call EXCEPT ![c].pc = "store", ![c].id = Id[m]],
           OwnIds => m = call[c].name /\ \A s \in Servers : conn'[s] # "mixed"
    PROVE  StepOfCall(c)
  <1> USE KeysAreNames
  <1>1. /\ call'[c] = [call[c] EXCEPT !.pc = "store", !.id = Id[m]]
        /\ call' = [d \in Callers |-> call'[d]] /\ \A d \in Callers \ {c} : call'[d] = call[d]
    BY DEF IInv, CallsMatch
  <1>2. /\ call'[c] \in Calls /\ call'[c].id = Id[m]
        /\ call'[c].at = call[c].at /\ call'[c].name = call[c].name
    BY <1>1 DEF Calls, CallPhases
  <1>3. \A d \in Callers : Onward(d, Id[m])
    BY <1>1, <1>2 DEF Onward
  <1>4. /\ local \in [Servers -> [CacheKeys -> Answers]] /\ shared \in [CacheKeys -> Answers]
        /\ flight \in [Servers -> [CacheKeys -> Callers \cup {Nobody}]] /\ raced \in BOOLEAN
    BY DEF IInv, NsTypeOK
  <1>5. OwnIds => \A n \in Names : /\ shared'[n] \in {None, Id[n]}
                                   /\ \A s \in Servers : local'[s][n] \in {None, Id[n]}
    BY DEF OwnIds
  <1>6. OwnIds => \A d \in Callers : call'[d] # call[d] => Id[m] \in {None, Id[call[d].name]}
    BY <1>1
  <1> QED
    BY <1>1, <1>3, <1>4, <1>5, <1>6 DEF StepOfCall

LEMMA QuerySteps ==
    ASSUME IInv, NEW c \in Callers, Query(c)
    PROVE  StepOfCall(c)
  <1>1. call[c] \in Calls /\ call[c].at \in Servers
    BY CallerCalls DEF Query
  <1>2. /\ rows' = rows /\ local' = local /\ shared' = shared
        /\ conn \in [Servers -> {"free", "busy", "mixed", "closed"}] /\ raced \in BOOLEAN
    BY DEF Query, IInv, NsTypeOK
  <1>3. /\ conn' \in [Servers -> {"free", "busy", "mixed", "closed"}]
        /\ raced' \in BOOLEAN /\ (raced => raced')
        /\ ~raced' /\ OwnIds => \A s \in Servers : conn'[s] # "mixed"
    BY <1>1, <1>2 DEF Query, OwnIds
  <1>4. \/ Land(c, None)
        \/ flight' = flight /\ \E p \in CallPhases \ {"store", "done"} : CallGoto(c, p)
    BY DEF Query, CallPhases
  <1> QED
    BY <1>1, <1>2, <1>3, <1>4, StepsWithoutId

LEMMA AnswerSteps ==
    ASSUME IInv, NEW c \in Callers, Answer(c) \/ AnswerMixed(c) \/ QueryFails(c)
    PROVE  StepOfCall(c)
  <1>1. call[c] \in Calls /\ call[c].at \in Servers /\ call[c].name \in Names
    BY CallerCalls DEF Answer, AnswerMixed, QueryFails
  <1>2. /\ rows' = rows /\ local' = local /\ shared' = shared /\ raced' = raced
        /\ raced \in BOOLEAN /\ conn \in [Servers -> {"free", "busy", "mixed", "closed"}]
    BY DEF Answer, AnswerMixed, QueryFails, IInv, NsTypeOK
  <1>3. /\ conn' \in [Servers -> {"free", "busy", "mixed", "closed"}]
        /\ OwnIds => \A s \in Servers : conn'[s] # "mixed"
    BY <1>1, <1>2 DEF Answer, AnswerMixed, QueryFails, OwnIds
  <1>4. CASE \/ Land(c, None)
             \/ flight' = flight /\ \E p \in CallPhases \ {"store", "done"} : CallGoto(c, p)
    BY <1>1, <1>2, <1>3, <1>4, StepsWithoutId
  <1>5. ASSUME NEW m \in Names, flight' = flight, OwnIds => m = call[c].name,
               call' = [call EXCEPT ![c].pc = "store", ![c].id = Id[m]]
        PROVE  StepOfCall(c)
    BY <1>1, <1>2, <1>3, <1>5, IdGiven
  <1>6. CASE Answer(c)
    <2>1. CASE call[c].name \in rows
      BY <1>1, <1>5, <1>6, <2>1 DEF Answer
    <2>2. CASE call[c].name \notin rows
      BY <1>4, <1>6, <2>2 DEF Answer
    <2> QED
      BY <2>1, <2>2
  <1>7. CASE AnswerMixed(c)
    <2>1. ~OwnIds
      BY <1>1, <1>7 DEF AnswerMixed, OwnIds
    <2>2. "lost" \in CallPhases \ {"store", "done"} /\ rows \subseteq Names
      BY DEF CallPhases, IInv, NsTypeOK
    <2> QED
      BY <1>4, <1>5, <1>7, <2>1, <2>2 DEF AnswerMixed
  <1>8. CASE QueryFails(c)
    BY <1>4, <1>8 DEF QueryFails
  <1> QED
    BY <1>6, <1>7, <1>8

LEMMA StoreSteps ==
    ASSUME IInv, NEW c \in Callers, Store(c)
    PROVE  StepOfCall(c)
  <1> USE KeysAreNames
  <1> DEFINE n == call[c].name
             id == call[c].id
  <1>1. /\ call[c] \in Calls /\ call[c].at \in Servers /\ n \in Names /\ id \in Answers
        /\ CacheKey(n) = n /\ call[c].pc = "store"
    BY CallerCalls DEF Store, CacheKey
  <1>2. /\ rows' = rows /\ conn' = conn /\ raced' = raced /\ raced \in BOOLEAN
        /\ conn \in [Servers -> {"free", "busy", "mixed", "closed"}]
        /\ local \in [Servers -> [CacheKeys -> Answers]] /\ shared \in [CacheKeys -> Answers]
        /\ local' = [local EXCEPT ![call[c].at][n] = id]
        /\ shared' \in {shared, [shared EXCEPT ![n] = id]}
        /\ Land(c, id)
    BY <1>1 DEF Store, SetLocal, IInv, NsTypeOK
  <1>3. local' \in [Servers -> [CacheKeys -> Answers]] /\ shared' \in [CacheKeys -> Answers]
    BY <1>1, <1>2
  <1>4. ASSUME OwnIds
        PROVE  /\ id \in {None, Id[n]} /\ \A s \in Servers : conn'[s] # "mixed"
               /\ \A m \in Names : /\ shared'[m] \in {None, Id[m]}
                                   /\ \A s \in Servers : local'[s][m] \in {None, Id[m]}
    <2>1. id \in {None, Id[n]} /\ \A s \in Servers : conn'[s] # "mixed"
      BY <1>1, <1>2, <1>4, NoCallIsNone DEF OwnIds
    <2>2. \A m \in Names : shared'[m] \in {None, Id[m]}
      BY <1>1, <1>2, <1>4, <2>1 DEF OwnIds
    <2>3. \A m \in Names : \A s \in Servers : local'[s][m] \in {None, Id[m]}
      BY <1>1, <1>2, <1>4, <2>1 DEF OwnIds
    <2> QED
      BY <2>1, <2>2, <2>3
  <1>5. /\ flight' \in [Servers -> [CacheKeys -> Callers \cup {Nobody}]]
        /\ call' = [d \in Callers |-> call'[d]]
        /\ \A d \in Callers : Onward(d, id) /\ (call'[d] # call[d] => call[d].name = n)
    BY <1>1, <1>2, LandEffect
  <1> HIDE DEF n, id
  <1> QED
    BY <1>1, <1>2, <1>3, <1>4, <1>5 DEF StepOfCall

LEMMA CallSteps ==
    ASSUME IInv, NEW c \in Callers, CallStep(c)
    PROVE  StepOfCall(c)
  BY GetSteps, GetAgainSteps, QuerySteps, AnswerSteps, StoreSteps DEF CallStep

-----------------------------------------------------------------------------
(* The steps of the gateway. *)

(* The inductive invariant Matched, about calls and ids, is IInv with the  *)
(* type of what does not follow from CallsMatch.                           *)
Typed ==
    /\ rows \subseteq Names
    /\ local \in [Servers -> [CacheKeys -> Answers]] /\ shared \in [CacheKeys -> Answers]
    /\ conn \in [Servers -> {"free", "busy", "mixed", "closed"}]
    /\ flight \in [Servers -> [CacheKeys -> Callers \cup {Nobody}]]
    /\ raced \in BOOLEAN
    /\ phase \in {"down", "starting", "serving", "draining"}
    /\ serviceId \in [Servers -> Answers]
    /\ pc \in [Requests -> {"away", "reserving", "serving", "refunding"} \cup Ended]
    /\ account \in [Requests -> (Servers \X Keys) \cup {<<>>}]

Matched == Typed /\ CallsMatch /\ ProxiesBuilt /\ (~raced => OwnIds)

LEMMA MatchedIsInv == Matched => IInv
  BY DEF Matched, Typed, IInv, NsTypeOK, CallsMatch, Calls, CallPhases

LEMMA MatchedInit == Init => Matched
  <1> SUFFICES ASSUME Init PROVE Matched
    OBVIOUS
  <1> USE KeysAreNames DEF Init, NsInit
  <1>1. Typed
    <2>1. /\ rows \subseteq Names /\ raced \in BOOLEAN
          /\ local \in [Servers -> [CacheKeys -> Answers]] /\ shared \in [CacheKeys -> Answers]
      OBVIOUS
    <2>2. /\ conn \in [Servers -> {"free", "busy", "mixed", "closed"}]
          /\ flight \in [Servers -> [CacheKeys -> Callers \cup {Nobody}]]
      OBVIOUS
    <2>3. /\ phase \in {"down", "starting", "serving", "draining"}
          /\ serviceId \in [Servers -> Answers]
          /\ pc \in [Requests -> {"away", "reserving", "serving", "refunding"} \cup Ended]
      OBVIOUS
    <2>4. account \in [Requests -> (Servers \X Keys) \cup {<<>>}]
      OBVIOUS
    <2> QED
      BY <2>1, <2>2, <2>3, <2>4 DEF Typed
  <1>2. CallsMatch
    BY GatewayAssumption DEF CallsMatch
  <1>3. ProxiesBuilt
    BY DEF ProxiesBuilt, InProgress
  <1>4. OwnIds
    BY DEF OwnIds
  <1> QED
    BY <1>1, <1>2, <1>3, <1>4 DEF Matched

LEMMA LookupKeepsMatched ==
    ASSUME Matched, NEW c \in Callers, StepOfCall(c), UNCHANGED <<process, requests>>
    PROVE  Matched'
  <1> USE DEF Matched, process, requests
  <1>1. PICK id \in Answers :
          /\ \A d \in Callers : Onward(d, id)
          /\ ~raced' /\ OwnIds =>
                /\ \A d \in Callers : call'[d] # call[d] => id \in {None, Id[call[d].name]}
                /\ \A s \in Servers : conn'[s] # "mixed"
                /\ \A n \in Names : /\ shared'[n] \in {None, Id[n]}
                                    /\ \A s \in Servers : local'[s][n] \in {None, Id[n]}
    BY DEF StepOfCall
  <1>2. Typed'
    BY DEF Typed, StepOfCall, Keys, InProgress, Ids, Accounts, Ended
  <1>3. CallsMatch'
    <2>1. \A d \in Callers : /\ call'[d] \in Calls \cup {NoCall}
                             /\ call[d] = NoCall => call'[d] = NoCall
                             /\ call[d] # NoCall => /\ call'[d] # NoCall
                                                    /\ call'[d].at = call[d].at
                                                    /\ call'[d].name = call[d].name
      BY <1>1, NoCallIsNone DEF CallsMatch, Onward
    <2>2. call' \in [Callers -> Calls \cup {NoCall}]
      BY <2>1 DEF StepOfCall
    <2> QED
      BY <2>1, <2>2, GatewayAssumption, NoCallIsNone DEF CallsMatch
  <1>4. ProxiesBuilt'
    BY DEF ProxiesBuilt, InProgress
  <1>5. ASSUME ~raced'
        PROVE  OwnIds'
    <2>1. OwnIds
      BY <1>5 DEF StepOfCall, Typed
    <2>2. \A d \in Callers :
             call'[d] # NoCall /\ call'[d].pc \in {"store", "done"} =>
                 call'[d].id \in {None, Id[call'[d].name]}
      BY <1>1, <1>5, <2>1 DEF Onward, OwnIds
    <2> QED
      BY <1>1, <1>5, <2>1, <2>2 DEF OwnIds
  <1> QED
    BY <1>2, <1>3, <1>4, <1>5

LEMMA EnvironmentKeepsMatched ==
    ASSUME Matched, NsEnv, UNCHANGED <<process, requests>>
    PROVE  Matched'
  <1> USE DEF Matched, process, requests
  <1>1. /\ local' = local /\ shared' = shared /\ flight' = flight /\ call' = call
        /\ raced' = raced /\ rows' \subseteq Names
        /\ conn' \in [Servers -> {"free", "busy", "mixed", "closed"}]
        /\ \A s \in Servers : conn'[s] \in {conn[s], "closed"}
    BY DEF NsEnv, AddRow, LoseConnection, Typed
  <1>2. Typed' /\ CallsMatch' /\ ProxiesBuilt'
    BY <1>1 DEF Typed, CallsMatch, ProxiesBuilt, InProgress
  <1>3. OwnIds => OwnIds'
    BY <1>1 DEF OwnIds
  <1> QED
    BY <1>1, <1>2, <1>3

(* A request moves on to p and leaves the other requests alone. *)
LEMMA RequestKeepsMatched ==
    ASSUME Matched, NEW r \in InProgress, NEW p \in {"serving", "refunding"} \cup Ended,
           Goto(r, p), UNCHANGED <<rows, local, shared, conn, flight, raced, process, account>>,
           \/ call' = call /\ p # "refunding"
           \/ call' = [call EXCEPT ![r] = NoCall] /\ p # "refunding"
           \/ Lookup(r)
    PROVE  Matched'
  <1> USE DEF Matched, process
  <1>1. /\ r \in Requests /\ r # Main /\ pc[r] \notin {"away"} \cup Ended
        /\ pc' \in [Requests -> {"away", "reserving", "serving", "refunding"} \cup Ended]
        /\ pc'[r] = p /\ \A q \in Requests \ {r} : pc'[q] = pc[q]
    BY GatewayAssumption DEF InProgress, Goto, Typed
  <1>2. Typed'
    BY <1>1 DEF Typed, Ids, Accounts, Keys
  <1>3. account[r] \in Servers \X Keys
    BY <1>1 DEF CallsMatch, Typed
  <1>4. CallsMatch'
    <2>1. Call(account[r][1], account[r][2], "get", None) \in Calls
      BY <1>3, KeysAreNames DEF Call, Calls, CallPhases, Keys
    <2>2. /\ call' \in [Callers -> Calls \cup {NoCall}]
          /\ \A d \in Callers \ {r} : call'[d] = call[d]
          /\ p = "refunding" => call'[r] = Call(account[r][1], account[r][2], "get", None)
      <3> DEFINE lookup == Call(account[r][1], account[r][2], "get", None)
      <3>1. r \in Callers /\ call \in [Callers -> Calls \cup {NoCall}]
        BY <1>1, GatewayAssumption DEF CallsMatch
      <3>2. /\ call' \in {call, [call EXCEPT ![r] = NoCall], [call EXCEPT ![r] = lookup]}
            /\ p = "refunding" => call' = [call EXCEPT ![r] = lookup]
        BY DEF Lookup
      <3>3. lookup \in Calls
        BY <2>1
      <3> HIDE DEF lookup
      <3>4. /\ call' \in [Callers -> Calls \cup {NoCall}]
            /\ \A d \in Callers \ {r} : call'[d] = call[d]
            /\ p = "refunding" => call'[r] = lookup
        BY <3>1, <3>2, <3>3
      <3> QED
        BY <3>4 DEF lookup
    <2>3. call'[Main] = call[Main]
      BY <1>1, <2>2, GatewayAssumption
    <2>4. p = "refunding" => /\ call'[r] \in Calls
                             /\ <<call'[r].at, call'[r].name>> = account[r]
      BY <1>3, <2>1, <2>2 DEF Call
    <2>5. p # "reserving" /\ p # "away"
      BY DEF Ended
    <2>6. ASSUME NEW q \in Requests
          PROVE  /\ pc'[q] # "away" => account'[q] \in Servers \X Keys
                 /\ pc'[q] = "away" => account'[q] = <<>>
                 /\ pc'[q] \in {"reserving", "refunding"} =>
                       call'[q] \in Calls /\ <<call'[q].at, call'[q].name>> = account'[q]
      <3>1. CASE q = r
        BY <1>1, <1>3, <2>4, <2>5, <3>1
      <3>2. CASE q # r
        <4>1. pc'[q] = pc[q] /\ call'[q] = call[q]
          BY <1>1, <2>2, <3>2, GatewayAssumption
        <4> QED
          BY <4>1 DEF CallsMatch
      <3> QED
        BY <3>1, <3>2
    <2> QED
      BY <2>2, <2>3, <2>6 DEF CallsMatch
  <1>5. ProxiesBuilt'
    BY <1>1 DEF ProxiesBuilt, InProgress
  <1>6. ASSUME ~raced'
        PROVE  OwnIds'
    <2>1. OwnIds
      BY <1>6
    <2>2. \A d \in Callers : call'[d] # NoCall /\ call'[d].pc \in {"store", "done"} =>
                                call'[d].id \in {None, Id[call'[d].name]}
      <3>1. Call(account[r][1], account[r][2], "get", None).pc = "get"
        BY DEF Call
      <3>2. ASSUME NEW d \in Callers
            PROVE  call'[d] \in {call[d], NoCall, Call(account[r][1], account[r][2], "get", None)}
        BY DEF Lookup, CallsMatch
      <3> QED
        BY <2>1, <3>1, <3>2 DEF OwnIds
    <2> QED
      BY <2>1, <2>2 DEF OwnIds
  <1> QED
    BY <1>2, <1>4, <1>5, <1>6

LEMMA RequestStepKeepsMatched ==
    ASSUME Matched, NEW r \in Requests, RequestStep(r)
    PROVE  Matched'
  <1>1. /\ r \in InProgress
        /\ UNCHANGED <<rows, local, shared, conn, flight, raced, process, account>>
    BY DEF RequestStep, Reserve, Succeed, Fail, Refund, InProgress, Ended, nsVars
  <1>2. PICK p \in {"serving", "refunding"} \cup Ended :
           /\ Goto(r, p)
           /\ \/ call' = call /\ p # "refunding"
              \/ call' = [call EXCEPT ![r] = NoCall] /\ p # "refunding"
              \/ Lookup(r)
    <2>1. CASE Reserve(r)
      BY <2>1 DEF Reserve, HangUp, AnswerToError, Ended
    <2>2. CASE Refund(r)
      BY <2>2 DEF Refund, HangUp, Ended
    <2>3. CASE Succeed(r)
      BY <2>3 DEF Succeed, nsVars, Ended
    <2>4. CASE Fail(r)
      BY <2>4 DEF Fail
    <2> QED
      BY <2>1, <2>2, <2>3, <2>4 DEF RequestStep
  <1> QED
    BY <1>1, <1>2, RequestKeepsMatched

LEMMA ArriveKeepsMatched ==
    ASSUME Matched, NEW r \in Requests, Arrive(r)
    PROVE  Matched'
  <1> USE DEF Matched
  <1>1. /\ UNCHANGED <<rows, local, shared, conn, flight, raced, phase, serviceId>>
        /\ phase = "serving" /\ pc[r] = "away" /\ pc' = [pc EXCEPT ![r] = "reserving"]
        /\ pc \in [Requests -> {"away", "reserving", "serving", "refunding"} \cup Ended]
    BY DEF Arrive, Goto, process, Typed
  <1>2. PICK a \in Servers \X Keys : account' = [account EXCEPT ![r] = a]
    BY DEF Arrive
  <1>3. /\ account' \in [Requests -> (Servers \X Keys) \cup {<<>>}]
        /\ account'[r] = a /\ \A q \in Requests \ {r} : account'[q] = account[q]
    BY <1>2 DEF Typed
  <1>4. /\ pc' \in [Requests -> {"away", "reserving", "serving", "refunding"} \cup Ended]
        /\ pc'[r] = "reserving" /\ \A q \in Requests \ {r} : pc'[q] = pc[q]
    BY <1>1
  <1> DEFINE lookup == Call(a[1], a[2], "get", None)
  <1>5. lookup \in Calls /\ <<lookup.at, lookup.name>> = a /\ lookup.pc = "get"
    BY KeysAreNames DEF Call, Calls, CallPhases, Keys
  <1>6. call' = [call EXCEPT ![r] = lookup]
    BY <1>3 DEF Arrive, Lookup
  <1> HIDE DEF lookup
  <1>7. /\ call' \in [Callers -> Calls \cup {NoCall}]
        /\ call'[r] = lookup /\ \A d \in Callers \ {r} : call'[d] = call[d]
    BY <1>5, <1>6, GatewayAssumption DEF CallsMatch
  <1>8. Typed'
    BY <1>1, <1>3, <1>4 DEF Typed, Ids, Accounts, Keys, Ended
  <1>9. CallsMatch'
    <2>1. call'[Main] = call[Main]
      BY <1>7, GatewayAssumption
    <2>2. ASSUME NEW q \in Requests
          PROVE  /\ pc'[q] # "away" => account'[q] \in Servers \X Keys
                 /\ pc'[q] = "away" => account'[q] = <<>>
                 /\ pc'[q] \in {"reserving", "refunding"} =>
                       call'[q] \in Calls /\ <<call'[q].at, call'[q].name>> = account'[q]
      <3>1. CASE q = r
        BY <1>3, <1>4, <1>5, <1>7, <3>1
      <3>2. CASE q # r
        <4>1. pc'[q] = pc[q] /\ call'[q] = call[q] /\ account'[q] = account[q]
          BY <1>3, <1>4, <1>7, <3>2, GatewayAssumption
        <4> QED
          BY <4>1 DEF CallsMatch
      <3> QED
        BY <3>1, <3>2
    <2> QED
      BY <1>1, <1>7, <2>1, <2>2 DEF CallsMatch, ServiceName
  <1>10. ProxiesBuilt'
    BY <1>1, <1>4 DEF ProxiesBuilt, InProgress
  <1>11. OwnIds => OwnIds'
    BY <1>1, <1>5, <1>7 DEF OwnIds, ServiceName
  <1> QED
    BY <1>1, <1>8, <1>9, <1>10, <1>11

(* The steps of the process. *)

LEMMA PhaseKeepsMatched ==
    ASSUME Matched, Start \/ Signal
    PROVE  Matched'
  <1> USE DEF Matched
  <1>1. /\ UNCHANGED <<rows, local, shared, conn, flight, call, raced, serviceId, pc, account>>
        /\ \/ phase = "down" /\ phase' = "starting"
           \/ phase = "serving" /\ phase' = "draining"
    BY DEF Start, Signal, nsVars, requests
  <1>2. Typed' /\ CallsMatch' /\ ProxiesBuilt'
    BY <1>1 DEF Typed, CallsMatch, ProxiesBuilt, InProgress
  <1>3. OwnIds => OwnIds'
    BY <1>1 DEF OwnIds
  <1> QED
    BY <1>1, <1>2, <1>3

LEMMA ConnectKeepsMatched ==
    ASSUME Matched, NEW s \in Servers, Connect(s)
    PROVE  Matched'
  <1> USE DEF Matched
  <1> DEFINE lookup == Call(s, ServiceName(s), "get", None)
  <1>1. /\ UNCHANGED <<rows, local, shared, flight, raced, phase, serviceId, pc, account>>
        /\ phase = "starting" /\ conn' = [conn EXCEPT ![s] = "free"]
        /\ call' = [call EXCEPT ![Main] = lookup]
    BY DEF Connect, process, requests
  <1>2. lookup \in Calls /\ lookup.at = s /\ lookup.name = ServiceName(s) /\ lookup.pc = "get"
    BY KeysAreNames, ServicesAreNames DEF Call, Calls, CallPhases
  <1> HIDE DEF lookup
  <1>3. /\ call' \in [Callers -> Calls \cup {NoCall}]
        /\ call'[Main] = lookup /\ \A d \in Callers \ {Main} : call'[d] = call[d]
    BY <1>1, <1>2, GatewayAssumption DEF CallsMatch
  <1>4. Typed'
    BY <1>1 DEF Typed
  <1>5. CallsMatch'
    <2>1. \A r \in Requests : call'[r] = call[r]
      BY <1>3, GatewayAssumption
    <2> QED
      BY <1>1, <1>2, <1>3, <2>1 DEF CallsMatch
  <1>6. ProxiesBuilt'
    BY <1>1 DEF ProxiesBuilt, InProgress
  <1>7. OwnIds => OwnIds'
    BY <1>1, <1>2, <1>3 DEF OwnIds, Typed
  <1> QED
    BY <1>1, <1>4, <1>5, <1>6, <1>7

LEMMA BuiltKeepsMatched ==
    ASSUME Matched, Built
    PROVE  Matched'
  <1> USE DEF Matched
  <1> DEFINE s == call[Main].at
             id == call[Main].id
  <1>1. /\ UNCHANGED <<rows, local, shared, conn, flight, raced, pc, account>>
        /\ call[Main].pc = "done" /\ id # None
        /\ serviceId' = [serviceId EXCEPT ![s] = id]
        /\ call' = [call EXCEPT ![Main] = NoCall]
        /\ phase' = IF \E t \in Servers : serviceId'[t] = None THEN phase ELSE "serving"
    BY DEF Built, HangUp, requests
  <1>2. /\ call[Main] \in Calls /\ phase = "starting"
        /\ s \in Servers /\ id \in Answers /\ call[Main].name = ServiceName(s)
    BY <1>1, NoCallIsNone, GatewayAssumption DEF CallsMatch, Calls
  <1>3. OwnIds => id = Id[ServiceName(s)]
    BY <1>1, <1>2, NoCallIsNone, GatewayAssumption DEF OwnIds
  <1> HIDE DEF s, id
  <1>4. /\ serviceId' \in [Servers -> Answers]
        /\ \A t \in Servers : serviceId'[t] \in {serviceId[t]} \cup (IF t = s THEN {id} ELSE {})
    BY <1>1, <1>2 DEF Typed
  <1>5. /\ call' \in [Callers -> Calls \cup {NoCall}]
        /\ call'[Main] = NoCall /\ \A d \in Callers \ {Main} : call'[d] = call[d]
    BY <1>1, GatewayAssumption DEF CallsMatch
  <1>6. Typed'
    BY <1>1, <1>2, <1>4 DEF Typed
  <1>7. CallsMatch'
    <2>1. \A r \in Requests : call'[r] = call[r]
      BY <1>5, GatewayAssumption
    <2> QED
      BY <1>1, <1>5, <2>1 DEF CallsMatch
  <1>8. ProxiesBuilt'
    BY <1>1, <1>2 DEF ProxiesBuilt, InProgress
  <1>9. OwnIds => OwnIds'
    BY <1>1, <1>3, <1>4, <1>5 DEF OwnIds
  <1> QED
    BY <1>1, <1>6, <1>7, <1>8, <1>9

LEMMA DownKeepsMatched ==
    ASSUME Matched, Down
    PROVE  Matched'
  <1> USE KeysAreNames DEF Matched
  <1>1. /\ phase' = "down" /\ UNCHANGED <<rows, shared, raced, account>>
        /\ local' = [s \in Servers |-> [k \in CacheKeys |-> None]]
        /\ conn' = [s \in Servers |-> "closed"]
        /\ flight' = [s \in Servers |-> [k \in CacheKeys |-> Nobody]]
        /\ call' = [c \in Callers |-> NoCall]
        /\ serviceId' = [s \in Servers |-> None]
    BY DEF Down
  <1>2. /\ pc' \in [Requests -> {"away", "reserving", "serving", "refunding"} \cup Ended]
        /\ \A r \in Requests : \/ pc'[r] = pc[r] /\ pc[r] \in {"away"} \cup Ended
                              \/ /\ pc'[r] = "killed"
                                 /\ pc[r] \in {"reserving", "serving", "refunding"}
    BY DEF Down, InProgress, Typed, Ended
  <1>3. Typed'
    BY <1>1, <1>2 DEF Typed, Ids, Accounts, Keys
  <1>4. CallsMatch'
    BY <1>1, <1>2, GatewayAssumption DEF CallsMatch, Ended
  <1>5. ProxiesBuilt'
    BY <1>1, <1>2 DEF ProxiesBuilt, InProgress, Ended
  <1>6. OwnIds => OwnIds'
    BY <1>1 DEF OwnIds
  <1> QED
    BY <1>1, <1>3, <1>4, <1>5, <1>6

(* A client leaves, a late send arrives, or nothing happens. *)
LEMMA StutterKeepsMatched ==
    ASSUME Matched, UNCHANGED <<nsVars, process, pc, account>>
    PROVE  Matched'
  <1> USE DEF nsVars, process, Matched
  <1>1. Typed' /\ CallsMatch' /\ ProxiesBuilt'
    BY DEF Typed, CallsMatch, ProxiesBuilt, InProgress
  <1>2. ~raced' => OwnIds'
    BY DEF OwnIds
  <1> QED
    BY <1>1, <1>2

LEMMA MatchedPreserved ==
    ASSUME Matched, [Next]_vars
    PROVE  Matched'
  <1>0. IInv
    BY MatchedIsInv
  <1>1. ASSUME NEW c \in Callers, LookupStep(c)
        PROVE  Matched'
    BY <1>0, <1>1, CallSteps, LookupKeepsMatched DEF LookupStep
  <1>2. CASE NsEnv /\ UNCHANGED <<process, requests>>
    BY <1>2, EnvironmentKeepsMatched
  <1>3. CASE Start \/ Signal
    BY <1>3, PhaseKeepsMatched
  <1>4. CASE Built
    BY <1>4, BuiltKeepsMatched
  <1>5. CASE StartFails \/ Exit \/ Crash
    BY <1>5, DownKeepsMatched DEF StartFails, Exit, Crash
  <1>6. ASSUME NEW s \in Servers, Connect(s)
        PROVE  Matched'
    BY <1>6, ConnectKeepsMatched
  <1>7. ASSUME NEW r \in Requests, Arrive(r) \/ RequestStep(r)
        PROVE  Matched'
    BY <1>7, ArriveKeepsMatched, RequestStepKeepsMatched
  <1>8. CASE UNCHANGED vars
    BY <1>8, StutterKeepsMatched DEF vars, requests
  <1>9. ASSUME NEW r \in Requests, Disconnect(r)
        PROVE  Matched'
    BY <1>9, StutterKeepsMatched DEF Disconnect
  <1>10. ASSUME NEW c \in wire, ExecuteLate(c)
         PROVE  Matched'
    BY <1>10, StutterKeepsMatched DEF ExecuteLate
  <1> QED
    BY <1>1, <1>2, <1>3, <1>4, <1>5, <1>6, <1>7, <1>8, <1>9, <1>10 DEF Next, Starting

LEMMA MatchedInvariant == Spec => []Matched
  BY MatchedInit, MatchedPreserved, PTL DEF Spec

-----------------------------------------------------------------------------
(* Flights. *)

(* The caller that has a flight to lead is the one the flight belongs to. *)
Leads == {"again", "query", "asking", "store", "lost"}
FlightsLed ==
    \A c \in Callers : call[c].pc \in Leads => flight[call[c].at][call[c].name] = c

LEMMA LandKeepsLed ==
    ASSUME IInv, FlightsLed, NEW c \in Callers, call[c].pc \in Leads, NEW id, Land(c, id)
    PROVE  FlightsLed'
  <1>1. /\ call[c] \in Calls /\ call[c].at \in Servers /\ call[c].name \in Names
        /\ CacheKeys = Names /\ flight \in [Servers -> [CacheKeys -> Callers \cup {Nobody}]]
    BY CallerCalls, KeysAreNames DEF Leads, IInv, NsTypeOK
  <1>2. flight' = [flight EXCEPT ![call[c].at][call[c].name] = Nobody]
    BY DEF Land, Landing, CacheKey
  <1>3. ASSUME NEW d \in Callers, call'[d].pc \in Leads
        PROVE  d # c /\ call'[d] = call[d]
    <2>1. \/ call'[d] = call[d] /\ d # c
          \/ call'[d] = [call[d] EXCEPT !.pc = "done", !.id = id] /\ call[d] \in Calls
      BY <1>1 DEF Land, Returned, IInv, CallsMatch
    <2> QED
      BY <1>3, <2>1 DEF Leads, Calls
  <1>4. ASSUME NEW d \in Callers, call'[d].pc \in Leads
        PROVE  flight'[call'[d].at][call'[d].name] = d
    <2>1. /\ d # c /\ call'[d] = call[d] /\ call[d].pc \in Leads
          /\ call[d].at \in Servers /\ call[d].name \in Names
      BY <1>3, <1>4, CallerCalls DEF Leads
    <2>2. /\ flight[call[d].at][call[d].name] = d
          /\ flight[call[c].at][call[c].name] = c
      BY <2>1 DEF FlightsLed
    <2> QED
      BY <1>1, <1>2, <2>1, <2>2
  <1> QED
    BY <1>4 DEF FlightsLed

(* A step that starts no flight and ends none. *)
LEMMA SameFlightsKeepLed ==
    ASSUME FlightsLed, flight' = flight,
           \A d \in Callers : call'[d].pc \in Leads =>
               call[d].pc \in Leads /\ call'[d].at = call[d].at /\ call'[d].name = call[d].name
    PROVE  FlightsLed'
  BY DEF FlightsLed

LEMMA GetKeepsLed ==
    ASSUME IInv, FlightsLed, NEW c \in Callers, Get(c)
    PROVE  FlightsLed'
  <1> DEFINE s == call[c].at
             n == call[c].name
  <1>1. /\ call[c] \in Calls /\ s \in Servers /\ n \in Names /\ call[c].pc = "get"
        /\ CacheKeys = Names /\ flight \in [Servers -> [CacheKeys -> Callers \cup {Nobody}]]
        /\ call \in [Callers -> Calls \cup {NoCall}]
    BY CallerCalls, KeysAreNames DEF Get, IInv, CallsMatch, NsTypeOK
  <1>2. \A d \in Callers \ {c} : call'[d] = call[d]
    BY DEF Get, CallGoto, IInv, CallsMatch
  <1>3. CASE flight' = flight
    <2>1. call'[c].pc \in {"done", "wait"}
      <3>1. call' = [call EXCEPT ![c].pc = "again"] => call'[c].pc = "again"
        BY <1>1 DEF Calls
      <3>2. ASSUME call' = [call EXCEPT ![c].pc = "again"],
                   flight' = [flight EXCEPT ![s][n] = c], flight[s][n] = Nobody
            PROVE  FALSE
        BY <1>1, <1>3, <3>2, CallersAssumption DEF Nobody
      <3>3. \/ \E id \in Found(s, n) : call' = [call EXCEPT ![c] = Returned(@, id)]
            \/ call' = [call EXCEPT ![c].pc = "wait"]
        BY <3>2 DEF Get, CallGoto, Joins, CacheKey
      <3>4. CASE call' = [call EXCEPT ![c].pc = "wait"]
        BY <1>1, <3>4 DEF Calls
      <3>5. ASSUME NEW id, call' = [call EXCEPT ![c] = Returned(@, id)]
            PROVE  call'[c].pc = "done"
        BY <1>1, <3>5 DEF Returned, Calls
      <3> QED
        BY <3>3, <3>4, <3>5
    <2> QED
      BY <1>2, <1>3, <2>1, SameFlightsKeepLed DEF Leads
  <1>4. CASE flight' # flight
    <2>1. /\ call' = [call EXCEPT ![c].pc = "again"] /\ flight[s][n] = Nobody
          /\ flight' = [flight EXCEPT ![s][n] = c]
      BY <1>4 DEF Get, CallGoto, Joins, CacheKey
    <2>2. call'[c].at = s /\ call'[c].name = n
      BY <1>1, <2>1 DEF Calls
    <2>3. ASSUME NEW d \in Callers, call'[d].pc \in Leads
          PROVE  flight'[call'[d].at][call'[d].name] = d
      <3>1. CASE d = c
        BY <1>1, <2>1, <2>2, <3>1
      <3>2. CASE d # c
        <4>1. /\ call'[d] = call[d] /\ flight[call[d].at][call[d].name] = d /\ d # Nobody
              /\ call[d].at \in Servers /\ call[d].name \in Names
          BY <1>2, <2>3, <3>2, CallerCalls, CallersAssumption DEF FlightsLed, Leads, Nobody
        <4> QED
          BY <1>1, <2>1, <4>1
      <3> QED
        BY <3>1, <3>2
    <2> QED
      BY <2>3 DEF FlightsLed
  <1> QED
    BY <1>3, <1>4

LEMMA CallKeepsLed ==
    ASSUME IInv, FlightsLed, NEW c \in Callers, CallStep(c)
    PROVE  FlightsLed'
  <1>1. CASE call[c].pc \notin Leads
    BY <1>1, GetKeepsLed DEF CallStep, Leads, GetAgain, Query, Answer, AnswerMixed, QueryFails, Store
  <1>2. CASE call[c].pc \in Leads /\ \E id : Land(c, id)
    BY <1>2, LandKeepsLed
  <1>3. CASE /\ call[c].pc \in Leads /\ flight' = flight
             /\ \/ \E p \in Leads : call' = [call EXCEPT ![c].pc = p]
                \/ \E n \in Names : call' = [call EXCEPT ![c].pc = "store", ![c].id = Id[n]]
    <2>1. call[c] \in Calls /\ call \in [Callers -> Calls \cup {NoCall}]
      BY <1>3, CallerCalls DEF Leads, IInv, CallsMatch
    <2>2. /\ call'[c].at = call[c].at /\ call'[c].name = call[c].name
          /\ \A d \in Callers \ {c} : call'[d] = call[d]
      BY <1>3, <2>1 DEF Calls
    <2> QED
      BY <1>3, <2>2, SameFlightsKeepLed
  <1>4. rows \subseteq Names
    BY DEF IInv, NsTypeOK
  <1>5. CASE GetAgain(c)
    BY <1>2, <1>3, <1>5 DEF GetAgain, Leads, CallGoto
  <1>6. CASE Query(c)
    BY <1>2, <1>3, <1>6 DEF Query, Leads, CallGoto
  <1>7. CASE Answer(c)
    BY <1>2, <1>3, <1>4, <1>7 DEF Answer, Leads
  <1>8. CASE AnswerMixed(c)
    BY <1>2, <1>3, <1>4, <1>8 DEF AnswerMixed, Leads, CallGoto
  <1>9. CASE QueryFails(c)
    BY <1>2, <1>9 DEF QueryFails, Leads
  <1>10. CASE Store(c)
    BY <1>2, <1>10 DEF Store, Leads
  <1>11. CASE Get(c)
    BY <1>11, GetKeepsLed
  <1> QED
    BY <1>5, <1>6, <1>7, <1>8, <1>9, <1>10, <1>11 DEF CallStep

LEMMA LedPreserved ==
    ASSUME Matched, FlightsLed, [Next]_vars
    PROVE  FlightsLed'
  <1>0. IInv /\ Main \in Callers /\ Requests \subseteq Callers
        /\ call \in [Callers -> Calls \cup {NoCall}]
    BY MatchedIsInv, GatewayAssumption DEF IInv, CallsMatch
  <1>1. ASSUME NEW c \in Callers, LookupStep(c)
        PROVE  FlightsLed'
    BY <1>0, <1>1, CallKeepsLed DEF LookupStep
  <1>2. CASE flight' = flight /\ call' = call
    BY <1>2, SameFlightsKeepLed
  <1>3. ASSUME NEW c \in Callers, NEW m, m.pc \notin Leads, flight' = flight,
               call' = [call EXCEPT ![c] = m]
        PROVE  FlightsLed'
    BY <1>0, <1>3, SameFlightsKeepLed
  <1>4. CASE Down
    <2>1. \A c \in Callers : call'[c].pc = "none"
      BY <1>4, NoCallIsNone DEF Down
    <2> QED
      BY <2>1 DEF FlightsLed, Leads
  <1>5. NoCall.pc \notin Leads /\ \A s, n : Call(s, n, "get", None).pc \notin Leads
    BY NoCallIsNone DEF Leads, Call
  <1>6. CASE NsEnv \/ Start \/ Signal \/ UNCHANGED vars
    BY <1>2, <1>6 DEF NsEnv, AddRow, LoseConnection, Start, Signal, vars, nsVars
  <1>10. CASE (\E r \in Requests : Disconnect(r)) \/ (\E c \in wire : ExecuteLate(c))
    BY <1>2, <1>10 DEF Disconnect, ExecuteLate, nsVars
  <1>7. CASE Built
    BY <1>0, <1>3, <1>5, <1>7 DEF Built, HangUp
  <1>8. ASSUME NEW s \in Servers, Connect(s)
        PROVE  FlightsLed'
    BY <1>0, <1>3, <1>5, <1>8 DEF Connect
  <1>9. ASSUME NEW r \in Requests, Arrive(r) \/ RequestStep(r)
        PROVE  FlightsLed'
    <2>1. CASE Arrive(r) \/ Fail(r)
      BY <1>0, <1>3, <1>5, <2>1 DEF Arrive, Fail, Lookup
    <2>2. CASE Reserve(r) \/ Refund(r)
      BY <1>0, <1>3, <1>5, <2>2 DEF Reserve, Refund, HangUp
    <2>3. CASE Succeed(r)
      BY <1>2, <2>3 DEF Succeed, nsVars
    <2> QED
      BY <1>9, <2>1, <2>2, <2>3 DEF RequestStep
  <1> QED
    BY <1>1, <1>4, <1>6, <1>7, <1>8, <1>9, <1>10 DEF Next, Starting, StartFails, Exit, Crash

-----------------------------------------------------------------------------
(* Units. *)

(* What has been sent is on the wire, in the ledger, or lost. *)
Sent == ledger \cup wire

SentTyped ==
    /\ ledger \subseteq Commands /\ wire \subseteq Commands
    /\ gone \subseteq Requests /\ unresolved \subseteq Requests /\ lost \subseteq Requests

(* A request sends its charges for one account, and its refunds, once it   *)
(* was charged, for one; without a missed reply it sends nothing twice and *)
(* leaves nothing on the wire, unless its process ends.                    *)
SentInOrder ==
    /\ ~raced => \A c \in Sent : c.account = OwnAccount(c.req)
    /\ \A c \in Sent :
          /\ pc[c.req] \notin {"away", "reserving"}
          /\ c.amount = -1 => pc[c.req] \in {"failed", "killed"} /\ Charged(c.req)
          /\ c.req \in lost \/ c.try = 1
    /\ \A c \in wire : c.req \in lost \/ pc[c.req] = "killed"
    /\ \A c, d \in Sent : c.req = d.req /\ c.amount = d.amount => c.account = d.account

(* What a request has paid by the time it is where it is. *)
Settles(r) ==
    /\ pc[r] \in {"serving", "refunding", "kept", "failed"} => Charged(r)
    /\ r \notin lost /\ pc[r] \in {"payment_required", "error"} => ~Charged(r)
    /\ ~raced /\ r \notin unresolved \cup gone \cup lost /\ pc[r] = "failed" => Refunded(r)

Settled == SentTyped /\ SentInOrder /\ \A r \in Requests : Settles(r)

LEMMA SettledInit == Init => Settled
  BY DEF Init, NsInit, Settled, SentTyped, SentInOrder, Sent, Settles

(* A step that neither sends nor executes anything and ends no request. *)
LEMMA QuietKeepsSettled ==
    ASSUME Settled, UNCHANGED <<pc, account, unresolved, quota>>, raced => raced',
           raced \in BOOLEAN, raced' \in BOOLEAN, gone \subseteq gone', gone' \subseteq Requests
    PROVE  Settled'
  <1> USE DEF Settled, quota
  <1>1. SentTyped' /\ SentInOrder'
    BY DEF SentTyped, SentInOrder, Sent, OwnAccount, Charged
  <1>2. ASSUME NEW r \in Requests
        PROVE  Settles(r)'
    BY DEF Settles, Charged, Refunded
  <1> QED
    BY <1>1, <1>2

LEMMA ArriveKeepsSettled ==
    ASSUME Matched, Settled, NEW r \in Requests, Arrive(r)
    PROVE  Settled'
  <1> USE DEF Settled
  <1>1. /\ UNCHANGED <<raced, gone, unresolved, wire, ledger, lost>>
        /\ pc[r] = "away" /\ pc'[r] = "reserving"
        /\ \A q \in Requests \ {r} : pc'[q] = pc[q] /\ account'[q] = account[q]
    BY DEF Arrive, Goto, quota, Matched, Typed
  <1>2. \A c \in Sent : c.req \in Requests \ {r}
    BY <1>1 DEF SentTyped, SentInOrder, Sent, Commands
  <1>3. SentTyped' /\ SentInOrder'
    BY <1>1, <1>2 DEF SentTyped, SentInOrder, Sent, OwnAccount, Charged
  <1>4. ASSUME NEW q \in Requests
        PROVE  Settles(q)'
    BY <1>1 DEF Settles, Charged, Refunded
  <1> QED
    BY <1>3, <1>4

LEMMA LateKeepsSettled ==
    ASSUME Settled, NEW c \in wire, ExecuteLate(c)
    PROVE  Settled'
  <1> USE DEF Settled
  <1>1. /\ UNCHANGED <<raced, pc, account, gone, unresolved, lost>>
        /\ wire' = wire \ {c} /\ ledger' \in {ledger, ledger \cup {c}}
    BY DEF ExecuteLate, nsVars
  <1>2. Sent' \subseteq Sent /\ wire' \subseteq wire /\ ledger \subseteq ledger'
    BY <1>1 DEF Sent
  <1>3. \A r \in Requests : (Charged(r) => Charged(r)') /\ (Refunded(r) => Refunded(r)')
    BY <1>2 DEF Charged, Refunded
  <1>4. SentTyped'
    BY <1>1, <1>2 DEF SentTyped
  <1>5. \A d \in Sent : d.req \in Requests
    BY DEF SentTyped, Sent, Commands
  <1>6. SentInOrder'
    BY <1>1, <1>2, <1>3, <1>5 DEF SentInOrder, OwnAccount
  <1>7. ASSUME NEW r \in Requests, r \notin lost, pc[r] \in {"payment_required", "error"}
        PROVE  ~Charged(r)'
    <2>1. c.req # r /\ ~Charged(r)
      BY <1>7 DEF SentInOrder, Settles
    <2> QED
      BY <1>1, <2>1 DEF Charged
  <1>8. ASSUME NEW r \in Requests
        PROVE  Settles(r)'
    BY <1>1, <1>3, <1>7 DEF Settles
  <1> QED
    BY <1>4, <1>6, <1>8

(* What a request sends it sends for itself and, without a race, for its   *)
(* own account.                                                            *)
LEMMA SendsOwn ==
    ASSUME Matched, NEW r \in Requests, Running(r)
    PROVE  /\ Sends(r) \subseteq Commands
           /\ \A c \in Sends(r) : c.req = r /\ c.amount = Amount(r) /\ c.account = AccountUsed(r)
           /\ ~raced => AccountUsed(r) = OwnAccount(r)
  <1> USE DEF Matched
  <1>1. /\ account[r] \in Servers \X Keys /\ call[r] \in Calls
        /\ <<call[r].at, call[r].name>> = account[r]
        /\ call[r].pc = "done" /\ call[r].id # None /\ r \in InProgress
    BY DEF Running, CallsMatch, InProgress, Ended
  <1>2. serviceId[account[r][1]] \in Ids /\ call[r].id \in Ids
    BY <1>1 DEF ProxiesBuilt, Typed, Answers, Calls
  <1>3. Tries \subseteq 1..MaxTries
    BY ScriptAssumption DEF Tries
  <1>4. Sends(r) \subseteq Commands
    <2>1. AccountUsed(r) \in Accounts
      BY <1>2 DEF AccountUsed, Accounts
    <2>2. Amount(r) \in {1, -1}
      BY DEF Amount
    <2> QED
      BY <1>3, <2>1, <2>2 DEF Sends, Commands
  <1>5. \A c \in Sends(r) : c.req = r /\ c.amount = Amount(r) /\ c.account = AccountUsed(r)
    BY DEF Sends
  <1>6. ASSUME ~raced
        PROVE  AccountUsed(r) = OwnAccount(r)
    <2>1. call[r].id = Id[account[r][2]]
      BY <1>1, <1>6, NoCallIsNone, GatewayAssumption DEF OwnIds
    <2>2. serviceId[account[r][1]] = Id[ServiceName(account[r][1])]
      BY <1>1, <1>6 DEF OwnIds, ProxiesBuilt
    <2> QED
      BY <2>1, <2>2 DEF AccountUsed, OwnAccount
  <1> QED
    BY <1>4, <1>5, <1>6

(* Request r moves on, and sends what is in done and late, if anything. *)
LEMMA MoveKeepsSettled ==
    ASSUME Matched, Settled, NEW r \in InProgress, NEW p \in {"serving", "refunding"} \cup Ended,
           Goto(r, p), UNCHANGED <<raced, account, gone>>,
           NEW done, NEW late, done \cup late # {} => Running(r),
           done \subseteq Sends(r), late \subseteq Sends(r),
           ledger' = ledger \cup done, wire' = wire \cup late,
           lost' \in {lost, lost \cup {r}}, unresolved' \in {unresolved, unresolved \cup {r}},
           r \notin lost' => late = {} /\ \A c \in done : c.try = 1,
           pc[r] = "refunding" => p = "failed",
           Settles(r)'
    PROVE  Settled'
  <1> USE DEF Settled
  <1>1. /\ r \in Requests /\ pc[r] \in {"reserving", "serving", "refunding"}
        /\ pc'[r] = p /\ \A q \in Requests \ {r} : pc'[q] = pc[q]
    BY DEF InProgress, Goto, Matched, Typed
  <1>2. /\ done \cup late \subseteq Commands
        /\ \A c \in done \cup late : c.req = r /\ c.amount = Amount(r) /\ c.account = AccountUsed(r)
        /\ ~raced => \A c \in done \cup late : c.account = OwnAccount(r)
    BY <1>1, SendsOwn
  <1>3. Sent' = Sent \cup (done \cup late) /\ Sent \subseteq Commands
    BY DEF Sent, SentTyped
  <1>4. \A q \in Requests : Charged(q) => Charged(q)'
    BY DEF Charged
  <1>5. SentTyped'
    BY <1>1, <1>2 DEF SentTyped
  <1>6. \A c \in Sent : c.req = r => c.amount # Amount(r) \/ done \cup late = {}
    <2>1. done \cup late # {} => pc[r] \in {"reserving", "refunding"}
      BY DEF Running
    <2>2. \A c \in Sent : c.req = r => pc[r] # "reserving" /\ (c.amount = -1 => pc[r] # "refunding")
      BY DEF SentInOrder
    <2> QED
      BY <2>1, <2>2 DEF Amount
  <1>7. ASSUME NEW c \in Sent'
        PROVE  /\ pc'[c.req] \notin {"away", "reserving"}
               /\ c.amount = -1 => pc'[c.req] \in {"failed", "killed"} /\ Charged(c.req)'
               /\ c.req \in lost' \/ c.try = 1
    <2>0. c.req \in Requests /\ p \notin {"away", "reserving"}
      BY <1>2, <1>3 DEF Commands, Ended
    <2>1. CASE c \in Sent
      <3>1. c.amount = -1 => c.req # r
        BY <1>1, <2>1 DEF SentInOrder
      <3> QED
        BY <1>1, <1>4, <2>0, <2>1, <3>1 DEF SentInOrder
    <2>2. CASE c \in done \cup late
      <3>1. c.req = r /\ c.amount = Amount(r)
        BY <1>2, <2>2
      <3>2. c.amount = -1 => pc[r] = "refunding" /\ p = "failed" /\ Charged(r)'
        BY <1>1, <1>4, <2>2, <3>1 DEF Amount, Running, Settles
      <3> QED
        BY <1>1, <2>0, <2>2, <3>1, <3>2
    <2> QED
      BY <1>3, <2>1, <2>2
  <1>8. ~raced' => \A c \in Sent' : c.account = OwnAccount(c.req)'
    BY <1>2, <1>3 DEF SentInOrder, OwnAccount
  <1>9. \A c \in wire' : c.req \in lost' \/ pc'[c.req] = "killed"
    <2>1. ASSUME NEW c \in wire, pc[c.req] = "killed"
          PROVE  pc'[c.req] = "killed"
      BY <1>1, <2>1 DEF SentTyped, Commands
    <2> QED
      BY <1>2, <2>1 DEF SentInOrder
  <1>10. \A c, d \in Sent' : c.req = d.req /\ c.amount = d.amount => c.account = d.account
    <2>1. ASSUME NEW c \in Sent, NEW d \in done \cup late, c.req = d.req, c.amount = d.amount
          PROVE  FALSE
      BY <1>2, <1>6, <2>1
    <2> QED
      BY <1>2, <1>3, <2>1 DEF SentInOrder
  <1>11. ASSUME NEW q \in Requests \ {r}
         PROVE  Settles(q)'
    <2>1. (Charged(q)' <=> Charged(q)) /\ (Refunded(q)' <=> Refunded(q))
      BY <1>2 DEF Charged, Refunded
    <2> QED
      BY <1>1, <2>1 DEF Settles
  <1> QED
    BY <1>5, <1>7, <1>8, <1>9, <1>10, <1>11 DEF SentInOrder

(* Request r moves on and sends nothing. *)
LEMMA UnsentKeepsSettled ==
    ASSUME Matched, Settled, NEW r \in InProgress, NEW p \in {"serving", "refunding"} \cup Ended,
           Goto(r, p), UNCHANGED <<raced, account, gone, quota>>,
           unresolved' \in {unresolved, unresolved \cup {r}},
           pc[r] = "refunding" => p = "failed",
           Settles(r)'
    PROVE  Settled'
  <1> DEFINE none == {}
  <1>1. /\ none \cup none = {} /\ none \subseteq Sends(r) /\ \A c \in none : c.try = 1
        /\ none = {}
    OBVIOUS
  <1>2. /\ ledger' = ledger \cup none /\ wire' = wire \cup none /\ lost' \in {lost, lost \cup {r}}
    BY DEF quota
  <1> HIDE DEF none
  <1> QED
    BY <1>1, <1>2, MoveKeepsSettled

LEMMA ReserveKeepsSettled ==
    ASSUME Matched, Settled, NEW r \in Requests, Reserve(r)
    PROVE  Settled'
  <1>1. /\ r \in InProgress /\ pc[r] = "reserving" /\ call[r].pc = "done"
        /\ UNCHANGED <<raced, account, gone, unresolved>>
        /\ pc \in [Requests -> {"away", "reserving", "serving", "refunding"} \cup Ended]
    BY DEF Reserve, InProgress, Ended, Matched, Typed
  <1>2. ~Charged(r)
    BY <1>1 DEF Charged, Settled, SentInOrder, Sent
  <1>3. Amount(r) = 1
    BY <1>1 DEF Amount
  <1>4. CASE Goto(r, "error") /\ UNCHANGED quota
    <2>1. pc'[r] = "error" /\ ~Charged(r)'
      BY <1>1, <1>2, <1>4 DEF Goto, quota, Charged
    <2>2. Settles(r)'
      BY <2>1 DEF Settles
    <2>3. "error" \in {"serving", "refunding"} \cup Ended
      BY DEF Ended
    <2> QED
      BY <1>1, <1>4, <2>2, <2>3, UnsentKeepsSettled
  <1>5. ASSUME NEW done \in SUBSET Sends(r), NEW late \in SUBSET Sends(r), Run(r, done, late),
               NEW p \in {"serving", "payment_required", "error"}, Goto(r, p), Running(r),
               \/ /\ UNCHANGED lost /\ late = {} /\ \A c \in done : c.try = 1
                  /\ p = IF done # {} THEN "serving" ELSE "payment_required"
               \/ lost' = lost \cup {r} /\ (p = "serving" => done # {})
        PROVE  Settled'
    <2>1. pc'[r] = p /\ ledger' = ledger \cup done /\ wire' = wire \cup late
      BY <1>1, <1>5 DEF Goto, Run
    <2>2. \A c \in done : c.req = r /\ c.amount = 1
      BY <1>3, <1>5, SendsOwn
    <2>3. done # {} => Charged(r)'
      BY <2>1, <2>2 DEF Charged
    <2>4. done = {} => ~Charged(r)'
      BY <1>2, <2>1 DEF Charged
    <2>5. Settles(r)'
      BY <1>5, <2>1, <2>3, <2>4 DEF Settles
    <2>6. p \in {"serving", "refunding"} \cup Ended
      BY <1>5 DEF Ended
    <2> QED
      BY <1>1, <1>5, <2>1, <2>5, <2>6, MoveKeepsSettled
  <1>6. CASE call[r].id # None /\ r \notin gone
    <2>1. Running(r)
      BY <1>1, <1>6 DEF Running
    <2>2. PICK done, late \in SUBSET Sends(r) :
             \/ Answered(r, done) /\ Goto(r, IF done # {} THEN "serving" ELSE "payment_required")
             \/ /\ Missed(r, done, late)
                /\ \/ done # {} /\ Goto(r, "serving")
                   \/ Goto(r, "payment_required")
                   \/ Goto(r, "error")
      BY <1>6 DEF Reserve, AnswerToError
    <2>3. CASE Answered(r, done) /\ Goto(r, IF done # {} THEN "serving" ELSE "payment_required")
      <3> DEFINE p == IF done # {} THEN "serving" ELSE "payment_required"
      <3>1. p \in {"serving", "payment_required", "error"} /\ Goto(r, p)
        BY <2>3
      <3>2. Run(r, done, {}) /\ UNCHANGED lost /\ \A c \in done : c.try = 1
        BY <2>3 DEF Answered
      <3> QED
        BY <1>5, <2>1, <3>1, <3>2
    <2>4. CASE Missed(r, done, late)
      <3>1. PICK p \in {"serving", "payment_required", "error"} : Goto(r, p) /\ (p = "serving" => done # {})
        BY <1>1, <2>2, <2>4, <2>3 DEF Answered, Goto
      <3>2. Run(r, done, late) /\ lost' = lost \cup {r}
        BY <2>4 DEF Missed
      <3> QED
        BY <1>5, <2>1, <3>1, <3>2
    <2> QED
      BY <2>2, <2>3, <2>4
  <1>7. CASE ~(call[r].id # None /\ r \notin gone)
    BY <1>4, <1>7 DEF Reserve, AnswerToError
  <1> QED
    BY <1>6, <1>7

LEMMA ServingKeepsSettled ==
    ASSUME Matched, Settled, NEW r \in Requests, Succeed(r) \/ Fail(r)
    PROVE  Settled'
  <1>1. /\ r \in InProgress /\ pc[r] = "serving"
        /\ pc \in [Requests -> {"away", "reserving", "serving", "refunding"} \cup Ended]
        /\ UNCHANGED <<raced, account, gone, unresolved, quota>>
    BY DEF Succeed, Fail, InProgress, Ended, nsVars, Matched, Typed
  <1>2. PICK p \in {"kept", "refunding"} : Goto(r, p)
    BY DEF Succeed, Fail
  <1>3. pc'[r] = p /\ Charged(r)'
    BY <1>1, <1>2 DEF Goto, Settled, Settles, Charged, quota
  <1>4. Settles(r)'
    BY <1>3 DEF Settles
  <1>5. p \in {"serving", "refunding"} \cup Ended
    BY DEF Ended
  <1> QED
    BY <1>1, <1>2, <1>4, <1>5, UnsentKeepsSettled

(* A refund that is answered finds the hash its request was charged in. *)
LEMMA RefundKeepsSettled ==
    ASSUME Matched, Settled, NEW r \in Requests, Refund(r)
    PROVE  Settled'
  <1>1. /\ r \in InProgress /\ pc[r] = "refunding" /\ call[r].pc = "done"
        /\ pc \in [Requests -> {"away", "reserving", "serving", "refunding"} \cup Ended]
        /\ UNCHANGED <<raced, account, gone>> /\ Goto(r, "failed") /\ "failed" \in Ended
    BY DEF Refund, InProgress, Ended, Matched, Typed
  <1>2. pc'[r] = "failed" /\ Charged(r) /\ Amount(r) = -1
    BY <1>1 DEF Goto, Amount, Settled, Settles
  <1>3. CASE UNCHANGED quota /\ (r \in gone \/ unresolved' = unresolved \cup {r})
             /\ unresolved' \in {unresolved, unresolved \cup {r}}
    <2>1. Settles(r)'
      BY <1>1, <1>2, <1>3 DEF Settles, Charged, quota
    <2> QED
      BY <1>1, <1>3, <2>1, UnsentKeepsSettled
  <1>4. ASSUME call[r].id # None, unresolved' = unresolved,
               NEW done \in SUBSET Sends(r), NEW late \in SUBSET Sends(r), Run(r, done, late),
               \/ /\ UNCHANGED lost /\ late = {} /\ Refunds(r, done) /\ \A c \in done : c.try = 1
               \/ lost' = lost \cup {r}
        PROVE  Settled'
    <2>1. Running(r) /\ ledger' = ledger \cup done /\ wire' = wire \cup late
      BY <1>1, <1>4 DEF Running, Run
    <2>2. \A c \in done : c.req = r /\ c.amount = -1
      BY <1>2, <2>1, <1>4, SendsOwn
    <2>3. Charged(r)'
      BY <1>2, <2>1 DEF Charged
    <2>4. ASSUME ~raced, r \notin lost'
          PROVE  Refunded(r)'
      <3>1. PICK c \in ledger : c.req = r /\ c.amount = 1
        BY <1>2 DEF Charged
      <3>2. c.account = AccountUsed(r)
        BY <2>1, <2>4, <3>1, SendsOwn DEF Settled, SentInOrder, Sent
      <3>3. done # {}
        BY <1>4, <2>4, <3>1, <3>2 DEF Refunds
      <3> QED
        BY <2>1, <2>2, <3>3 DEF Refunded
    <2>5. Settles(r)'
      BY <1>1, <1>2, <2>3, <2>4 DEF Settles
    <2>6. r \notin lost' => late = {} /\ \A c \in done : c.try = 1
      BY <1>4
    <2>7. lost' \in {lost, lost \cup {r}}
      BY <1>4
    <2> QED
      BY <1>1, <1>4, <2>1, <2>5, <2>6, <2>7, MoveKeepsSettled
  <1>5. CASE call[r].id # None /\ r \notin gone
    <2>1. PICK done, late \in SUBSET Sends(r) :
             \/ Answered(r, done) /\ Refunds(r, done)
             \/ Missed(r, done, late)
      BY <1>5 DEF Refund
    <2>2. unresolved' = unresolved
      BY <1>5 DEF Refund
    <2>3. CASE Answered(r, done) /\ Refunds(r, done)
      <3>1. Run(r, done, {}) /\ UNCHANGED lost /\ \A c \in done : c.try = 1
        BY <2>3 DEF Answered
      <3> QED
        BY <1>4, <1>5, <2>2, <2>3, <3>1
    <2>4. CASE Missed(r, done, late)
      BY <1>4, <1>5, <2>2, <2>4 DEF Missed
    <2> QED
      BY <2>1, <2>3, <2>4
  <1>6. CASE ~(call[r].id # None /\ r \notin gone)
    BY <1>3, <1>6 DEF Refund
  <1> QED
    BY <1>5, <1>6

LEMMA DownKeepsSettled ==
    ASSUME Matched, Settled, Down
    PROVE  Settled'
  <1> USE DEF Settled
  <1>1. /\ UNCHANGED <<raced, account, gone, unresolved, ledger>>
        /\ \A r \in Requests : IF r \in InProgress THEN pc'[r] = "killed" ELSE pc'[r] = pc[r]
    BY DEF Down, Matched, Typed
  <1>2. PICK left \in SUBSET UNION {Sends(r) : r \in {q \in Requests : Running(q)}} :
           /\ wire' = wire \cup left
           /\ lost' = lost \cup {c.req : c \in {d \in left : d.try > 1}}
    BY DEF Down
  <1>3. ASSUME NEW c \in left
        PROVE  /\ c \in Commands /\ Running(c.req) /\ c.req \in InProgress
               /\ c.amount = Amount(c.req) /\ c.account = AccountUsed(c.req)
               /\ ~raced => c.account = OwnAccount(c.req)
               /\ c.req \in lost' \/ c.try = 1
    <2>1. PICK r \in Requests : Running(r) /\ c \in Sends(r)
      BY <1>2
    <2>2. /\ c \in Commands /\ c.req = r /\ c.amount = Amount(r) /\ c.account = AccountUsed(r)
          /\ ~raced => AccountUsed(r) = OwnAccount(r)
      BY <2>1, SendsOwn
    <2>3. r \in InProgress
      BY <2>1 DEF Running, InProgress, Ended
    <2>4. c.try \in 1..MaxTries
      BY <2>2 DEF Commands
    <2>5. c.try > 1 => c.req \in lost'
      BY <1>2
    <2>6. c.try > 1 \/ c.try = 1
      BY <2>4, ScriptAssumption
    <2> QED
      BY <2>1, <2>2, <2>3, <2>5, <2>6
  <1>4. Sent' = Sent \cup left /\ Sent \subseteq Commands
    BY <1>1, <1>2 DEF Sent, SentTyped
  <1>5. \A r \in Requests : (Charged(r)' <=> Charged(r)) /\ (Refunded(r)' <=> Refunded(r))
    BY <1>1 DEF Charged, Refunded
  <1>6. lost \subseteq lost' /\ lost' \subseteq Requests
    BY <1>2, <1>3 DEF SentTyped, Commands
  <1>7. SentTyped'
    BY <1>1, <1>2, <1>3, <1>6 DEF SentTyped
  <1>8. ASSUME NEW c \in Sent
        PROVE  c.req \in Requests /\ (pc'[c.req] = pc[c.req] \/ pc'[c.req] = "killed")
    BY <1>1, <1>4 DEF Commands
  <1>9. ASSUME NEW c \in Sent'
        PROVE  /\ pc'[c.req] \notin {"away", "reserving"}
               /\ c.amount = -1 => pc'[c.req] \in {"failed", "killed"} /\ Charged(c.req)'
               /\ c.req \in lost' \/ c.try = 1
    <2>1. CASE c \in Sent
      BY <1>5, <1>6, <1>8, <2>1 DEF SentInOrder
    <2>2. CASE c \in left
      <3>1. c.req \in Requests /\ pc'[c.req] = "killed"
        BY <1>1, <1>3, <2>2 DEF Commands
      <3>2. c.amount = -1 => Charged(c.req)
        BY <1>3, <2>2, <3>1 DEF Amount, Running, Settles
      <3> QED
        BY <1>3, <1>5, <2>2, <3>1, <3>2
    <2> QED
      BY <1>4, <2>1, <2>2
  <1>10. \A c \in wire' : c.req \in lost' \/ pc'[c.req] = "killed"
    <2>1. ASSUME NEW c \in wire
          PROVE  c.req \in lost' \/ pc'[c.req] = "killed"
      BY <1>6, <1>8 DEF SentInOrder, Sent
    <2>2. ASSUME NEW c \in left
          PROVE  pc'[c.req] = "killed"
      BY <1>1, <1>3 DEF Commands
    <2> QED
      BY <1>2, <2>1, <2>2
  <1>11. \A c, d \in Sent' : c.req = d.req /\ c.amount = d.amount => c.account = d.account
    <2>1. ASSUME NEW c \in Sent, NEW d \in left, c.req = d.req, c.amount = d.amount
          PROVE  FALSE
      <3>1. pc[d.req] \in {"reserving", "refunding"} /\ d.amount = Amount(d.req)
        BY <1>3 DEF Running
      <3> QED
        BY <2>1, <3>1 DEF SentInOrder, Amount
    <2> QED
      BY <1>3, <1>4, <2>1 DEF SentInOrder
  <1>12. ~raced' => \A c \in Sent' : c.account = OwnAccount(c.req)'
    BY <1>1, <1>3, <1>4 DEF SentInOrder, OwnAccount
  <1>13. ASSUME NEW r \in Requests
         PROVE  Settles(r)'
    BY <1>1, <1>5, <1>6 DEF Settles
  <1> QED
    BY <1>7, <1>9, <1>10, <1>11, <1>12, <1>13 DEF SentInOrder

LEMMA SettledPreserved ==
    ASSUME Matched, Matched', Settled, [Next]_vars
    PROVE  Settled'
  <1>0. IInv /\ raced \in BOOLEAN /\ raced' \in BOOLEAN /\ gone \subseteq Requests
    BY MatchedIsInv DEF Matched, Typed, Settled, SentTyped
  <1>1. ASSUME NEW c \in Callers, LookupStep(c)
        PROVE  Settled'
    <2>1. StepOfCall(c)
      BY <1>0, <1>1, CallSteps DEF LookupStep
    <2> QED
      BY <1>0, <1>1, <2>1, QuietKeepsSettled DEF LookupStep, StepOfCall, requests
  <1>2. CASE NsEnv /\ UNCHANGED <<process, requests>>
    BY <1>0, <1>2, QuietKeepsSettled DEF NsEnv, AddRow, LoseConnection, requests
  <1>3. CASE Start \/ Signal \/ Built \/ UNCHANGED vars
    BY <1>0, <1>3, QuietKeepsSettled DEF Start, Signal, Built, vars, nsVars, requests
  <1>4. ASSUME NEW s \in Servers, Connect(s)
        PROVE  Settled'
    BY <1>0, <1>4, QuietKeepsSettled DEF Connect, requests
  <1>5. CASE StartFails \/ Exit \/ Crash
    BY <1>5, DownKeepsSettled DEF StartFails, Exit, Crash
  <1>6. ASSUME NEW r \in Requests, Arrive(r) \/ RequestStep(r)
        PROVE  Settled'
    BY <1>6, ArriveKeepsSettled, ReserveKeepsSettled, ServingKeepsSettled, RefundKeepsSettled DEF RequestStep
  <1>7. ASSUME NEW r \in Requests, Disconnect(r)
        PROVE  Settled'
    BY <1>0, <1>7, QuietKeepsSettled DEF Disconnect, nsVars
  <1>8. ASSUME NEW c \in wire, ExecuteLate(c)
        PROVE  Settled'
    BY <1>8, LateKeepsSettled
  <1> QED
    BY <1>1, <1>2, <1>3, <1>4, <1>5, <1>6, <1>7, <1>8 DEF Next, Starting

LEMMA SettledInvariant == Spec => [](Matched /\ Settled)
  <1>1. Matched /\ Settled /\ [Next]_vars => Settled'
    BY MatchedPreserved, SettledPreserved
  <1> QED
    BY <1>1, SettledInit, MatchedInvariant, PTL DEF Spec

-----------------------------------------------------------------------------
(* The name server and the gateway keep the types of their variables, for  *)
(* any number of services, keys and requests.                              *)
THEOREM TypeCorrect == Spec => []TypeOK
  <1>1. Matched /\ Settled => TypeOK
    BY MatchedIsInv DEF IInv, Matched, Typed, Settled, SentTyped, TypeOK
  <1> QED
    BY <1>1, SettledInvariant, PTL

(* Unless a race has mixed up two answers, a lookup answers an error or    *)
(* the id of its own name, for any number of names, callers and restarts.  *)
THEOREM AnswersCorrect == Spec => []AnswersOwnId
  <1>1. Matched => AnswersOwnId
    <2> SUFFICES ASSUME Matched, ~raced, NEW c \in Callers, call[c].pc = "done", call[c].id # None
                 PROVE  call[c].id = Id[call[c].name]
      BY DEF AnswersOwnId
    <2> QED
      BY NoCallIsNone DEF Matched, OwnIds
  <1> QED
    BY <1>1, MatchedInvariant, PTL

(* No send of the script moves a unit of an account that is not the        *)
(* request's own, as long as no two lookups have used one connection at    *)
(* once, with every fault of the network, clients that leave and processes *)
(* that end: through the caches, others' lookups and earlier processes an  *)
(* id stays the one of its name.                                           *)
THEOREM OwnAccountCorrect == Spec => []OwnAccountOnly
  <1>1. Settled => OwnAccountOnly
    BY DEF Settled, SentInOrder, Sent, OwnAccountOnly
  <1> QED
    BY <1>1, SettledInvariant, PTL

(* With every fault, race or not, nobody is let through uncharged, only    *)
(* who was charged and failed is refunded, and who missed no reply of      *)
(* Redis is charged and refunded at most once.                             *)
THEOREM ChargedOnceCorrect == Spec => []ChargedOnce
  <1>1. Settled => ChargedOnce
    <2> SUFFICES ASSUME Settled PROVE ChargedOnce
      OBVIOUS
    <2>1. ASSUME NEW r \in Requests
          PROVE  /\ pc[r] \in {"serving", "refunding", "kept"} => Charged(r)
                 /\ Refunded(r) => Charged(r) /\ pc[r] \in {"failed", "killed"}
      BY DEF Settled, Settles, SentInOrder, Sent, Refunded
    <2>2. ASSUME NEW c \in ledger, NEW d \in ledger,
                 c.req = d.req, c.amount = d.amount, c.req \notin lost
          PROVE  c = d
      <3>1. c.account = d.account /\ c.try = 1 /\ d.try = 1
        BY <2>2 DEF Settled, SentInOrder, Sent
      <3> QED
        BY <2>2, <3>1 DEF Settled, SentTyped, Commands
    <2> QED
      BY <2>1, <2>2 DEF ChargedOnce
  <1> QED
    BY <1>1, SettledInvariant, PTL

(* A request that ended without success has paid nothing, or has got it    *)
(* back, unless its refund could not resolve the key again, its client was *)
(* gone, or a reply of Redis was missed.                                   *)
THEOREM FailuresCorrect == Spec => []FailuresPayNothing
  <1>1. Settled => FailuresPayNothing
    <2> SUFFICES ASSUME Settled, ~raced, NEW r \in Requests \ (unresolved \cup gone \cup lost),
                        pc[r] \in {"failed", "payment_required", "error"}
                 PROVE  Charged(r) <=> Refunded(r)
      BY DEF FailuresPayNothing
    <2>1. Refunded(r) => Charged(r)
      BY DEF Settled, SentInOrder, Sent, Refunded
    <2> QED
      BY <2>1 DEF Settled, Settles
  <1> QED
    BY <1>1, SettledInvariant, PTL

(* However many callers miss a name, each name server has at most one      *)
(* query for it under way: every query belongs to the flight of its name.  *)
THEOREM OneQueryCorrect == Spec => []OneQueryPerName
  <1>1. Init => FlightsLed
    BY NoCallIsNone DEF Init, NsInit, FlightsLed, Leads
  <1>2. Matched /\ FlightsLed /\ [Next]_vars => FlightsLed'
    BY LedPreserved
  <1>3. FlightsLed => OneQueryPerName
    BY DEF FlightsLed, OneQueryPerName, Leads
  <1> QED
    BY <1>1, <1>2, <1>3, MatchedInvariant, PTL DEF Spec
=============================================================================
