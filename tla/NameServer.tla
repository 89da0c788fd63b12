------------------------------ MODULE NameServer ------------------------------
(***************************************************************************)
(* pkg/ns.go: resolves names of services and API keys to the ids Postgres  *)
(* gave them.  A name server keeps ids in a local cache and in a Redis it  *)
(* shares with the other name servers, asks Postgres once for all callers  *)
(* that miss the same name (singleflight), and asks over one pgx.Conn,     *)
(* which refuses a query while another runs and does not come back once it *)
(* is closed.  The refusal is a flag that pgconn reads without a lock: two *)
(* callers may both find it clear, and their answers get mixed up.         *)
(*                                                                         *)
(* The module describes the calls; Gateway says who makes them.            *)
(***************************************************************************)
EXTENDS Naturals, FiniteSets

CONSTANTS
    Servers,  \* name servers, each with its local cache and connection
    Callers,  \* goroutines, each in at most one call at a time
    Names,    \* <<kind, string>>, kind "service" or "api_key"
    Id,       \* the id of each name's row; both tables count from 1
    NsFaults  \* "postgres" may close a connection, two callers may "race" for one

ASSUME NamesAssumption ==
    /\ Names \subseteq {"service", "api_key"} \X STRING
    /\ Id \in [Names -> Nat \ {0}]
    /\ \A m, n \in Names : m # n /\ m[1] = n[1] => Id[m] # Id[n]
ASSUME CallersAssumption == "nobody" \notin Callers
ASSUME NsFaultsAssumption == NsFaults \subseteq {"postgres", "race"}

VARIABLES
    rows,    \* names that have a row in Postgres
    local,   \* ids in each name server's local cache, by cache key
    shared,  \* ids in Redis, by cache key
    conn,    \* each connection: "free", "busy", "mixed" or "closed"
    flight,  \* the caller that asks for a cache key on behalf of all
    call,    \* each caller's call
    raced    \* history: whether two callers ever used one connection at once

nsVars == <<rows, local, shared, conn, flight, call, raced>>

None == 0
Ids == {Id[n] : n \in Names}
Answers == Ids \cup {None}
Nobody == "nobody"

(* The cache key "service:<name>" or "api_key:<key>". *)
CacheKeyWithoutPrefix(n) == <<"", n[2]>>
CacheKey(n) == n
CacheKeys == {CacheKey(n) : n \in Names}

NoCall == [pc |-> "none"]
Call(s, n, pc, id) == [pc |-> pc, at |-> s, name |-> n, id |-> id]

NsTypeOK ==
    /\ rows \subseteq Names
    /\ local \in [Servers -> [CacheKeys -> Answers]]
    /\ shared \in [CacheKeys -> Answers]
    /\ conn \in [Servers -> {"free", "busy", "mixed", "closed"}]
    /\ flight \in [Servers -> [CacheKeys -> Callers \cup {Nobody}]]
    /\ \A c \in Callers :
          call[c] # NoCall =>
              /\ call[c].at \in Servers /\ call[c].name \in Names /\ call[c].id \in Answers
              /\ call[c].pc \in {"get", "wait", "again", "query", "asking", "store", "lost", "done"}
    /\ raced \in BOOLEAN

NsInit ==
    /\ rows \in SUBSET Names
    /\ local = [s \in Servers |-> [k \in CacheKeys |-> None]]
    /\ shared = [k \in CacheKeys |-> None]
    /\ conn = [s \in Servers |-> "closed"]
    /\ flight = [s \in Servers |-> [k \in CacheKeys |-> Nobody]]
    /\ call = [c \in Callers |-> NoCall]
    /\ raced = FALSE

CallGoto(c, pc) == call' = [call EXCEPT ![c].pc = pc]

-----------------------------------------------------------------------------
(* ResolveServiceName and ResolveAPIKey, which differ in the query alone.  *)

(* What cache.Get can find: the local copy, which TinyLFU drops when it    *)
(* likes, else Redis' copy, which then fills the local cache, or nothing:  *)
(* an entry past its 30 minutes and an error of Redis are misses.          *)
Found(s, k) == {local[s][k], shared[k], None}

SetLocal(s, k, id) == local' = [local EXCEPT ![s][k] = id]

(* A call that is to return: with the id, or None for an error. *)
Returned(r, id) == [r EXCEPT !.pc = "done", !.id = id]

(* The first look into the cache; a caller that misses joins the flight of *)
(* its name, or becomes the one that asks.                                 *)
JoinsNobody(s, k) == FALSE
Joins(s, k) == flight[s][k] # Nobody

Get(c) ==
    LET s == call[c].at
        k == CacheKey(call[c].name)
    IN /\ call[c].pc = "get"
       /\ \E id \in Found(s, k) :
             IF id # None
             THEN /\ SetLocal(s, k, id)
                  /\ call' = [call EXCEPT ![c] = Returned(@, id)]
                  /\ UNCHANGED flight
             ELSE /\ IF Joins(s, k)
                     THEN CallGoto(c, "wait") /\ UNCHANGED flight
                     ELSE /\ CallGoto(c, "again")
                          /\ flight' = [flight EXCEPT ![s][k] = c]
                  /\ UNCHANGED local
       /\ UNCHANGED <<rows, shared, conn, raced>>

(* The flight lands: whoever waits for it gets what its leader got.        *)
LandingOnSuccess(s, k, id) ==
    IF id = None THEN flight ELSE [flight EXCEPT ![s][k] = Nobody]
Landing(s, k, id) == [flight EXCEPT ![s][k] = Nobody]

Land(c, id) ==
    LET s == call[c].at
        k == CacheKey(call[c].name)
        waits(d) == call[d] # NoCall /\ call[d].pc = "wait" /\ call[d].at = s
                        /\ CacheKey(call[d].name) = k
    IN /\ flight' = Landing(s, k, id)
       /\ call' = [d \in Callers |->
              IF d = c \/ (waits(d) /\ flight'[s][k] = Nobody) THEN Returned(call[d], id) ELSE call[d]]

(* The leader looks into the cache again: it may have been filled since.   *)
GetAgain(c) ==
    LET s == call[c].at
        k == CacheKey(call[c].name)
    IN /\ call[c].pc = "again"
       /\ \E id \in Found(s, k) :
             IF id # None
             THEN SetLocal(s, k, id) /\ Land(c, id)
             ELSE CallGoto(c, "query") /\ UNCHANGED <<local, flight>>
       /\ UNCHANGED <<rows, shared, conn, raced>>

(* GetServiceByName or GetAPIKeyByName over the one connection. *)
Query(c) ==
    LET s == call[c].at
    IN /\ call[c].pc = "query"
       /\ \/ /\ conn[s] = "free"
             /\ conn' = [conn EXCEPT ![s] = "busy"]
             /\ CallGoto(c, "asking")
             /\ UNCHANGED <<flight, raced>>
          \/ /\ conn[s] # "free"
             /\ Land(c, None)
             /\ UNCHANGED <<conn, raced>>
          \/ /\ conn[s] \in {"busy", "mixed"} /\ "race" \in NsFaults
             /\ conn' = [conn EXCEPT ![s] = "mixed"]
             /\ CallGoto(c, "asking")
             /\ raced' = TRUE
             /\ UNCHANGED flight
       /\ UNCHANGED <<rows, local, shared>>

(* Postgres' answer: the id, or no row. *)
Answer(c) ==
    LET n == call[c].name
        s == call[c].at
    IN /\ call[c].pc = "asking" /\ conn[s] = "busy"
       /\ conn' = [conn EXCEPT ![s] = "free"]
       /\ IF n \in rows
          THEN /\ call' = [call EXCEPT ![c].pc = "store", ![c].id = Id[n]]
               /\ UNCHANGED flight
          ELSE Land(c, None)
       /\ UNCHANGED <<rows, local, shared, raced>>

(* Two callers read from one connection: each may get the answer to any    *)
(* query sent over it, an error, or nothing ever.                          *)
AnswerMixed(c) ==
    LET asked == {call[d].name : d \in {d \in Callers :
                      call[d] # NoCall /\ call[d].at = call[c].at}}
    IN /\ call[c].pc = "asking" /\ conn[call[c].at] = "mixed"
       /\ \/ \E n \in asked \cap rows :
                call' = [call EXCEPT ![c].pc = "store", ![c].id = Id[n]] /\ UNCHANGED flight
          \/ Land(c, None)
          \/ CallGoto(c, "lost") /\ UNCHANGED flight
       /\ UNCHANGED <<rows, local, shared, conn, raced>>

(* The query fails because the connection was closed under it. *)
QueryFails(c) ==
    /\ call[c].pc = "asking" /\ conn[call[c].at] = "closed"
    /\ Land(c, None)
    /\ UNCHANGED <<rows, local, shared, conn, raced>>

(* cache.Set for 30 minutes; an error of Redis is only logged. *)
Store(c) ==
    LET k == CacheKey(call[c].name)
    IN /\ call[c].pc = "store"
       /\ SetLocal(call[c].at, k, call[c].id)
       /\ shared' \in {shared, [shared EXCEPT ![k] = call[c].id]}
       /\ Land(c, call[c].id)
       /\ UNCHANGED <<rows, conn, raced>>

CallStep(c) ==
    \/ Get(c) \/ GetAgain(c) \/ Query(c)
    \/ Answer(c) \/ AnswerMixed(c) \/ QueryFails(c) \/ Store(c)

-----------------------------------------------------------------------------
(* Around the name servers.                                                *)

(* A name gets its row; no code takes one away or changes its id. *)
AddRow(n) ==
    /\ rows' = rows \cup {n}
    /\ UNCHANGED <<local, shared, conn, flight, call, raced>>

LoseConnection(s) ==
    /\ "postgres" \in NsFaults
    /\ conn' = [conn EXCEPT ![s] = "closed"]
    /\ UNCHANGED <<rows, local, shared, flight, call, raced>>

NsEnv ==
    \/ \E n \in Names \ rows : AddRow(n)
    \/ \E s \in Servers : conn[s] # "closed" /\ LoseConnection(s)

-----------------------------------------------------------------------------
(* Properties.                                                             *)

(* Unless a race has mixed up two answers, a call answers an error or the  *)
(* id of its own name, whichever caller asked for it and whatever the two  *)
(* tables have in common (ns.go:99, 142).                                  *)
AnswersOwnId ==
    \A c \in Callers :
        call[c].pc = "done" /\ call[c].id # None /\ ~raced => call[c].id = Id[call[c].name]

(* However many callers miss a name, each name server has at most one      *)
(* query for it under way (ns.go:110).                                     *)
OneQueryPerName ==
    \A c, d \in Callers :
        call[c].pc = "asking" /\ call[d].pc = "asking" /\ c # d =>
            <<call[c].at, call[c].name>> # <<call[d].at, call[d].name>>
=============================================================================
