--------------------------- MODULE TollgateProofs ---------------------------
(***************************************************************************)
(* Proofs about module Tollgate, for every set of requests and keys, every *)
(* grant, every number of retries and every combination of faults; the     *)
(* last two parts suppose that no command to Redis is lost.                *)
(***************************************************************************)
EXTENDS Tollgate, FiniteSetTheorems, TLAPS

Status(c) == ScriptStatus(KeyOf[c.req], c.amount)

(* What an execution changes, with the question who hears of it put aside. *)
LEMMA ExecuteEffect ==
    ASSUME NEW c \in wire, Execute(c)
    PROVE  /\ wire' = wire \ {c}
           /\ UNCHANGED <<loaded, now, pc, tries, gone>>
           /\ Status(c) = "OK" =>
                 Charge(KeyOf[c.req], c.amount) /\ ledger' = ledger \cup {c}
           /\ Status(c) # "OK" => UNCHANGED <<available, consumed, metric, ledger>>
           /\ \/ conn' = conn
              \/ /\ conn' = [conn EXCEPT ![c.req] = Status(c)]
                 /\ pc[c.req] \in Calling /\ Amount(c.req) = c.amount
  BY DEF Execute, Status

Typed == TypeOK /\ IsFiniteSet(ledger)

LEMMA TypedInit == Init => Typed
  <1> SUFFICES ASSUME Init PROVE Typed
    OBVIOUS
  <1> USE BoundsAssumption
  <1>1. IsFiniteSet(ledger)
    BY FS_EmptySet DEF Init
  <1>2. TypeOK
    BY DEF Init, TypeOK, Buckets
  <1> QED
    BY <1>1, <1>2 DEF Typed

LEMMA ChargeTyped ==
    ASSUME TypeOK, NEW k \in Keys, NEW a \in Int, Charge(k, a)
    PROVE  /\ available' \in [Keys -> Int] /\ consumed' \in [Keys -> Int]
           /\ metric' \in [Keys -> [Buckets -> Int]]
  <1>1. available' \in [Keys -> Int]
    BY DEF TypeOK, Charge
  <1>2. consumed' \in [Keys -> Int]
    BY DEF TypeOK, Charge
  <1>3. metric' \in [Keys -> [Buckets -> Int]]
    <2>1. metric[k] \in [Buckets -> Int] /\ now \in Buckets /\ metric[k][now] + a \in Int
      BY DEF TypeOK
    <2>2. [metric[k] EXCEPT ![now] = metric[k][now] + a] \in [Buckets -> Int]
      BY <2>1
    <2> QED
      BY <2>2 DEF TypeOK, Charge
  <1> QED
    BY <1>1, <1>2, <1>3

LEMMA TypedExecute ==
    ASSUME Typed, NEW c \in wire, Execute(c)
    PROVE  Typed'
  <1> USE BoundsAssumption, RequestsAssumption DEF Typed, TypeOK
  <1>1. c \in Commands
    OBVIOUS
  <1>2. ledger' \subseteq ledger \cup {c}
    BY ExecuteEffect
  <1>3. IsFiniteSet(ledger')
    <2>1. IsFiniteSet(ledger \cup {c})
      BY FS_AddElement
    <2> QED
      BY <1>2, <2>1, FS_Subset
  <1>4. ledger' \subseteq Commands
    BY <1>1, <1>2
  <1>5. KeyOf[c.req] \in Keys /\ c.amount \in Int
    BY <1>1 DEF Commands
  <1>6. /\ available' \in [Keys -> Int] /\ consumed' \in [Keys -> Int]
        /\ metric' \in [Keys -> [Buckets -> Int]]
    <2>1. CASE Status(c) = "OK"
      BY <1>5, <2>1, ExecuteEffect, ChargeTyped
    <2>2. CASE Status(c) # "OK"
      BY <2>2, ExecuteEffect
    <2> QED
      BY <2>1, <2>2
  <1>7. conn' \in [Requests -> {"free", "waiting"} \cup Statuses]
    <2>1. Status(c) \in Statuses
      BY DEF Status, ScriptStatus, Statuses
    <2> QED
      BY <1>1, <2>1, ExecuteEffect
  <1>8. UNCHANGED <<loaded, now, pc, tries, gone>> /\ wire' \subseteq wire
    BY ExecuteEffect
  <1> QED
    BY <1>2, <1>3, <1>4, <1>6, <1>7, <1>8

LEMMA TypedStep == Typed /\ [Next]_vars => Typed'
  <1> SUFFICES ASSUME Typed, [Next]_vars PROVE Typed'
    OBVIOUS
  <1> USE BoundsAssumption, QuotaAssumption DEF Typed, TypeOK, redisVars
  <1>1. ASSUME NEW r \in Requests, Arrive(r) PROVE Typed'
    BY <1>1 DEF Arrive, Calling
  <1>2. ASSUME NEW r \in Requests, Send(r) PROVE Typed'
    <2>1. tries[r] + 1 \in 1..MaxTries
      BY <1>2 DEF Send, AttemptsLeft
    <2>2. [req |-> r, amount |-> Amount(r), try |-> tries[r] + 1] \in Commands
      BY <2>1 DEF Commands, Amount
    <2> QED
      BY <1>2, <2>1, <2>2 DEF Send, AfterSend
  <1>3. ASSUME NEW r \in Requests, Lose(r) PROVE Typed'
    BY <1>3 DEF Lose
  <1>4. ASSUME NEW r \in Requests, CallFails(r) PROVE Typed'
    BY <1>4 DEF CallFails, AfterError, Final
  <1>5. ASSUME NEW r \in Requests, CallReturns(r) PROVE Typed'
    BY <1>5 DEF CallReturns, AfterReply, Final
  <1>6. ASSUME NEW r \in Requests, NextReturns(r) PROVE Typed'
    BY <1>6 DEF NextReturns, AfterServing, Calling, Final
  <1>7. ASSUME NEW r \in Requests, Disconnect(r) PROVE Typed'
    BY <1>7 DEF Disconnect
  <1>8. ASSUME NEW c \in wire, Execute(c) PROVE Typed'
    BY <1>8, TypedExecute
  <1>9. ASSUME NEW c \in wire, Drop(c) PROVE Typed'
    BY <1>9 DEF Drop
  <1>10. ASSUME NEW k \in Keys, WarmUp(k) PROVE Typed'
    BY <1>10 DEF WarmUp
  <1>11. ASSUME NEW k \in Keys, NEW b \in Buckets, Expire(k, b) PROVE Typed'
    BY <1>11 DEF Expire
  <1>12. CASE Tick
    BY <1>12 DEF Tick, Buckets
  <1>13. CASE Crash
    BY <1>13 DEF Crash, Final
  <1>14. CASE UNCHANGED vars
    BY <1>14 DEF vars
  <1> QED
    BY <1>1, <1>2, <1>3, <1>4, <1>5, <1>6, <1>7, <1>8, <1>9, <1>10, <1>11, <1>12,
       <1>13, <1>14 DEF Next, Step

(* Every variable of the tollgate keeps its type: the retry counter stays  *)
(* within go-redis' limit and nothing but the three answers of the script  *)
(* reaches a handler.                                                      *)
THEOREM TypeCorrect == Spec => []TypeOK
  <1>1. Spec => []Typed
    BY TypedInit, TypedStep, PTL DEF Spec
  <1> QED
    BY <1>1, PTL DEF Typed

-----------------------------------------------------------------------------
(* A command is executed at most once.  A retry carries a new number, and a *)
(* request makes each of its two calls once, so no command that is still   *)
(* on the wire can be in the ledger already.                               *)

Issued(r, a, t) ==
    \/ [req |-> r, amount |-> a, try |-> t] \in wire
    \/ \E e \in ledger : e.req = r /\ e.amount = a /\ e.try = t

Tries == 1..MaxTries

Discipline(r) ==
    /\ pc[r] = "idle" => tries[r] = 0 /\ \A t \in Tries : ~Issued(r, 1, t)
    /\ pc[r] = "serving" => tries[r] = 0
    /\ pc[r] = "reserving" => \A t \in Tries : Issued(r, 1, t) => t <= tries[r]
    /\ pc[r] = "refunding" => \A t \in Tries : Issued(r, -1, t) => t <= tries[r]
    /\ pc[r] \notin {"refunding", "failed", "killed"} => \A t \in Tries : ~Issued(r, -1, t)

Disciplined == \A r \in Requests : Discipline(r)

ExecutedOnce ==
    \A c \in wire : ~\E e \in ledger : e.req = c.req /\ e.amount = c.amount /\ e.try = c.try

OnceInv == Typed /\ Disciplined /\ ExecutedOnce

LEMMA OnceInit == Init => OnceInv
  <1> SUFFICES ASSUME Init PROVE OnceInv
    OBVIOUS
  <1>1. Disciplined
    BY DEF Init, Disciplined, Discipline, Issued
  <1>2. ExecutedOnce
    BY DEF Init, ExecutedOnce
  <1> QED
    BY <1>1, <1>2, TypedInit DEF OnceInv

(* Nothing but Send issues a command. *)
LEMMA IssuedByExecute ==
    ASSUME Typed, NEW c \in wire, Execute(c)
    PROVE  \A r \in Requests, a \in {1, -1}, t \in Tries : Issued(r, a, t)' => Issued(r, a, t)
  <1> SUFFICES ASSUME NEW r \in Requests, NEW a \in {1, -1}, NEW t \in Tries, Issued(r, a, t)'
               PROVE  Issued(r, a, t)
    OBVIOUS
  <1>1. wire' = wire \ {c} /\ ledger' \subseteq ledger \cup {c}
    BY ExecuteEffect
  <1>2. c = [req |-> c.req, amount |-> c.amount, try |-> c.try]
    BY DEF Typed, TypeOK, Commands
  <1>3. CASE \E e \in ledger' : e.req = r /\ e.amount = a /\ e.try = t
    <2>1. PICK e \in ledger \cup {c} : e.req = r /\ e.amount = a /\ e.try = t
      BY <1>1, <1>3
    <2>2. CASE e \in ledger
      BY <2>1, <2>2 DEF Issued
    <2>3. CASE e = c
      <3>1. c.req = r /\ c.amount = a /\ c.try = t
        BY <2>1, <2>3
      <3> QED
        BY <3>1, <1>2 DEF Issued
    <2> QED
      BY <2>1, <2>2, <2>3
  <1>4. CASE [req |-> r, amount |-> a, try |-> t] \in wire'
    BY <1>1, <1>4 DEF Issued
  <1> QED
    BY <1>3, <1>4 DEF Issued

LEMMA OnceExecute ==
    ASSUME OnceInv, NEW c \in wire, Execute(c)
    PROVE  Disciplined' /\ ExecutedOnce'
  <1>1. Disciplined'
    BY IssuedByExecute, ExecuteEffect DEF OnceInv, Disciplined, Discipline
  <1>2. ExecutedOnce'
    <2> SUFFICES ASSUME NEW d \in wire', NEW e \in ledger',
                        e.req = d.req /\ e.amount = d.amount /\ e.try = d.try
                 PROVE  FALSE
      BY DEF ExecutedOnce
    <2>1. d \in wire /\ d # c /\ (e \in ledger \/ e = c)
      BY ExecuteEffect
    <2>2. CASE e \in ledger
      BY <2>1, <2>2 DEF OnceInv, ExecutedOnce
    <2>3. CASE e = c
      <3>1. c.req = d.req /\ c.amount = d.amount /\ c.try = d.try
        BY <2>3
      <3>2. c = d
        BY <2>1, <3>1 DEF OnceInv, Typed, TypeOK, Commands
      <3> QED
        BY <2>1, <3>2
    <2> QED
      BY <2>1, <2>2, <2>3
  <1> QED
    BY <1>1, <1>2

LEMMA OnceSend ==
    ASSUME OnceInv, NEW r \in Requests, Send(r)
    PROVE  Disciplined' /\ ExecutedOnce'
  <1> DEFINE c == [req |-> r, amount |-> Amount(r), try |-> tries[r] + 1]
  <1> USE BoundsAssumption
  <1>1. /\ wire' = wire \cup {c} /\ ledger' = ledger /\ pc' = pc
        /\ tries' = [tries EXCEPT ![r] = @ + 1]
        /\ pc[r] \in Calling
    BY DEF Send, AfterSend, redisVars, OnceInv, Typed, TypeOK
  <1>2. tries[r] \in 0..MaxTries /\ tries'[r] = tries[r] + 1 /\ Amount(r) \in {1, -1}
    BY <1>1 DEF OnceInv, Typed, TypeOK, Amount
  <1>3. \A q \in Requests, a \in {1, -1}, t \in Tries :
           Issued(q, a, t)' => \/ Issued(q, a, t)
                               \/ q = r /\ a = Amount(r) /\ t = tries[r] + 1
    BY <1>1 DEF Issued
  <1>4. Disciplined'
    <2> SUFFICES ASSUME NEW q \in Requests PROVE Discipline(q)'
      BY DEF Disciplined
    <2>1. Discipline(q)
      BY DEF OnceInv, Disciplined
    <2>2. CASE q # r
      <3>1. tries'[q] = tries[q]
        BY <1>1, <2>2 DEF OnceInv, Typed, TypeOK
      <3> QED
        BY <1>1, <1>3, <2>1, <2>2, <3>1 DEF Discipline
    <2>3. CASE q = r
      BY <1>1, <1>2, <1>3, <2>1, <2>3 DEF Discipline, Calling, Amount, Tries
    <2> QED
      BY <2>2, <2>3
  <1>5. ExecutedOnce'
    <2>1. ~\E e \in ledger : e.req = r /\ e.amount = Amount(r) /\ e.try = tries[r] + 1
      <3> SUFFICES ASSUME NEW e \in ledger,
                          e.req = r /\ e.amount = Amount(r) /\ e.try = tries[r] + 1
                   PROVE  FALSE
        OBVIOUS
      <3>1. tries[r] + 1 \in Tries /\ Issued(r, Amount(r), tries[r] + 1)
        BY DEF OnceInv, Typed, TypeOK, Issued, Tries, Commands
      <3> QED
        BY <1>1, <1>2, <3>1 DEF OnceInv, Disciplined, Discipline, Calling, Amount
    <2> QED
      BY <1>1, <2>1 DEF OnceInv, ExecutedOnce
  <1> QED
    BY <1>4, <1>5

(* The steps of a handler that do not send, and of the environment. *)
LEMMA QuietIssues ==
    ASSUME wire' \subseteq wire, ledger' = ledger
    PROVE  /\ \A r, a, t : Issued(r, a, t)' => Issued(r, a, t)
           /\ ExecutedOnce => ExecutedOnce'
  BY DEF Issued, ExecutedOnce

LEMMA OnceQuiet ==
    ASSUME OnceInv, wire' \subseteq wire, ledger' = ledger,
           NEW r \in Requests, \A q \in Requests \ {r} : pc'[q] = pc[q] /\ tries'[q] = tries[q],
           Discipline(r)'
    PROVE  Disciplined' /\ ExecutedOnce'
  <1>1. ASSUME NEW q \in Requests PROVE Discipline(q)'
    <2>1. CASE q = r
      BY <2>1
    <2>2. CASE q # r
      BY <2>2, QuietIssues DEF OnceInv, Disciplined, Discipline
    <2> QED
      BY <2>1, <2>2
  <1> QED
    BY <1>1, QuietIssues DEF OnceInv, Disciplined

LEMMA OnceStep == OnceInv /\ [Next]_vars => OnceInv'
  <1> SUFFICES ASSUME OnceInv, [Next]_vars PROVE Disciplined' /\ ExecutedOnce'
    BY TypedStep DEF OnceInv
  <1> USE BoundsAssumption, QuietIssues DEF redisVars
  <1>0. TypeOK /\ Disciplined /\ ExecutedOnce
    BY DEF OnceInv, Typed
  <1>1. ASSUME NEW r \in Requests, Arrive(r) PROVE Disciplined' /\ ExecutedOnce'
    <2>1. Discipline(r)'
      BY <1>0, <1>1 DEF Arrive, Disciplined, Discipline, TypeOK, Calling, Final
    <2> QED
      BY <1>0, <1>1, <2>1, OnceQuiet DEF Arrive, TypeOK
  <1>2. ASSUME NEW r \in Requests, Send(r) PROVE Disciplined' /\ ExecutedOnce'
    BY <1>2, OnceSend
  <1>3. ASSUME NEW r \in Requests, Lose(r) PROVE Disciplined' /\ ExecutedOnce'
    <2>1. Discipline(r)'
      BY <1>0, <1>3 DEF Lose, Disciplined, Discipline
    <2> QED
      BY <1>0, <1>3, <2>1, OnceQuiet DEF Lose, TypeOK
  <1>4. ASSUME NEW r \in Requests, CallFails(r) PROVE Disciplined' /\ ExecutedOnce'
    <2>1. Discipline(r)'
      BY <1>0, <1>4 DEF CallFails, AfterError, Disciplined, Discipline, TypeOK, Calling
    <2> QED
      BY <1>0, <1>4, <2>1, OnceQuiet DEF CallFails, TypeOK
  <1>5. ASSUME NEW r \in Requests, CallReturns(r) PROVE Disciplined' /\ ExecutedOnce'
    <2>1. Discipline(r)'
      BY <1>0, <1>5 DEF CallReturns, AfterReply, Disciplined, Discipline, TypeOK, Calling
    <2> QED
      BY <1>0, <1>5, <2>1, OnceQuiet DEF CallReturns, TypeOK
  <1>6. ASSUME NEW r \in Requests, NextReturns(r) PROVE Disciplined' /\ ExecutedOnce'
    <2>1. Discipline(r)'
      BY <1>0, <1>6 DEF NextReturns, AfterServing, Disciplined, Discipline, TypeOK, Calling
    <2> QED
      BY <1>0, <1>6, <2>1, OnceQuiet DEF NextReturns, TypeOK
  <1>7. ASSUME NEW r \in Requests, Disconnect(r) PROVE Disciplined' /\ ExecutedOnce'
    <2>1. Discipline(r)'
      BY <1>0, <1>7 DEF Disconnect, Disciplined, Discipline
    <2> QED
      BY <1>7, <2>1, OnceQuiet DEF Disconnect
  <1>8. ASSUME NEW c \in wire, Execute(c) PROVE Disciplined' /\ ExecutedOnce'
    BY <1>8, OnceExecute
  <1>9. ASSUME NEW c \in wire, Drop(c) PROVE Disciplined' /\ ExecutedOnce'
    BY <1>0, <1>9 DEF Drop, Disciplined, Discipline
  <1>10. ASSUME NEW k \in Keys, WarmUp(k) PROVE Disciplined' /\ ExecutedOnce'
    BY <1>0, <1>10 DEF WarmUp, Disciplined, Discipline
  <1>11. ASSUME NEW k \in Keys, NEW b \in Buckets, Expire(k, b)
         PROVE  Disciplined' /\ ExecutedOnce'
    BY <1>0, <1>11 DEF Expire, Disciplined, Discipline
  <1>12. CASE Tick
    BY <1>0, <1>12 DEF Tick, Disciplined, Discipline
  <1>13. CASE Crash
    BY <1>0, <1>13 DEF Crash, Active, Disciplined, Discipline, TypeOK, Calling, Final
  <1>14. CASE UNCHANGED vars
    BY <1>0, <1>14 DEF vars, Disciplined, Discipline
  <1> QED
    BY <1>1, <1>2, <1>3, <1>4, <1>5, <1>6, <1>7, <1>8, <1>9, <1>10, <1>11, <1>12,
       <1>13, <1>14 DEF Next, Step

-----------------------------------------------------------------------------
(* The books.                                                              *)

LEMMA AccountsFinite ==
    ASSUME IsFiniteSet(ledger), NEW k
    PROVE  IsFiniteSet(Charges(k)) /\ IsFiniteSet(Refunds(k))
  BY FS_Subset DEF Charges, Refunds

(* An execution answered OK is written once to one of the two accounts of  *)
(* its key.                                                                *)
LEMMA ExecuteLedger ==
    ASSUME OnceInv, NEW c \in wire, Execute(c), Status(c) = "OK", NEW k
    PROVE  /\ Cardinality(Charges(k))' = Cardinality(Charges(k))
                + (IF k = KeyOf[c.req] /\ c.amount = 1 THEN 1 ELSE 0)
           /\ Cardinality(Refunds(k))' = Cardinality(Refunds(k))
                + (IF k = KeyOf[c.req] /\ c.amount = -1 THEN 1 ELSE 0)
  <1>1. ledger' = ledger \cup {c} /\ c \notin ledger /\ IsFiniteSet(ledger)
    BY ExecuteEffect DEF OnceInv, Typed, ExecutedOnce
  <1>2. /\ Charges(k)' = IF k = KeyOf[c.req] /\ c.amount = 1
                         THEN Charges(k) \cup {c} ELSE Charges(k)
        /\ Refunds(k)' = IF k = KeyOf[c.req] /\ c.amount = -1
                         THEN Refunds(k) \cup {c} ELSE Refunds(k)
    BY <1>1 DEF Charges, Refunds
  <1>3. c \notin Charges(k) /\ c \notin Refunds(k)
    BY <1>1 DEF Charges, Refunds
  <1>4. Cardinality(Charges(k)) \in Nat /\ Cardinality(Refunds(k)) \in Nat
    BY <1>1, AccountsFinite, FS_CardinalityType
  <1>5. /\ Cardinality(Charges(k) \cup {c}) = Cardinality(Charges(k)) + 1
        /\ Cardinality(Refunds(k) \cup {c}) = Cardinality(Refunds(k)) + 1
    BY <1>1, <1>3, AccountsFinite, FS_AddElement
  <1> QED
    BY <1>2, <1>4, <1>5

(* Only a loaded hash is ever charged: needed when a hash is created, for  *)
(* its accounts must then be empty.                                        *)
LedgerLoaded == \A e \in ledger : KeyOf[e.req] \in loaded

Books == LedgerLoaded /\ BooksBalance /\ Conservation

LEMMA BooksInit == Init => Books
  <1> SUFFICES ASSUME Init PROVE Books
    OBVIOUS
  <1>1. \A k : Charges(k) = {} /\ Refunds(k) = {}
    BY DEF Init, Charges, Refunds
  <1> QED
    BY <1>1 DEF Init, Books, LedgerLoaded, BooksBalance, Conservation

LEMMA BooksExecute ==
    ASSUME OnceInv, Books, NEW c \in wire, Execute(c)
    PROVE  Books'
  <1> DEFINE k0 == KeyOf[c.req]
  <1> USE RequestsAssumption, QuotaAssumption, BoundsAssumption
  <1>1. CASE Status(c) # "OK"
    BY <1>1, ExecuteEffect
    DEF Books, LedgerLoaded, BooksBalance, Conservation, Charges, Refunds
  <1>2. CASE Status(c) = "OK"
    <2>1. TypeOK /\ IsFiniteSet(ledger) /\ k0 \in Keys /\ c.amount \in {1, -1}
      BY DEF OnceInv, Typed, TypeOK, Commands
    <2>2. k0 \in loaded /\ (k0 \in Limited => ~(available[k0] < c.amount))
      BY <1>2 DEF Status, ScriptStatus, LimitReached
    <2>3. /\ Charge(k0, c.amount) /\ ledger' = ledger \cup {c}
          /\ loaded' = loaded /\ now' = now
      BY <1>2, ExecuteEffect
    <2>4. LedgerLoaded'
      BY <2>2, <2>3 DEF Books, LedgerLoaded
    <2>5. BooksBalance'
      <3> SUFFICES ASSUME NEW k \in loaded'
                   PROVE  (consumed[k] = Used[k] + Cardinality(Charges(k)) - Cardinality(Refunds(k)))'
        BY DEF BooksBalance
      <3>1. consumed'[k] = consumed[k] + (IF k = k0 THEN c.amount ELSE 0)
        BY <2>1, <2>3 DEF TypeOK, Charge
      <3>2. consumed[k] = Used[k] + Cardinality(Charges(k)) - Cardinality(Refunds(k))
        BY <2>3 DEF Books, BooksBalance
      <3>3. Cardinality(Charges(k)) \in Nat /\ Cardinality(Refunds(k)) \in Nat
        BY <2>1, AccountsFinite, FS_CardinalityType
      <3>4. k \in Keys /\ consumed[k] \in Int /\ Used[k] \in Int
        BY <2>1, <2>3 DEF TypeOK
      <3> QED
        BY <1>2, <2>1, <3>1, <3>2, <3>3, <3>4, ExecuteLedger
    <2>6. Conservation'
      <3> SUFFICES ASSUME NEW k \in Limited \cap loaded
                   PROVE  available'[k] >= 0 /\ available'[k] + consumed'[k] = Grant[k] + Used[k]
        BY <2>3 DEF Conservation
      <3>1. /\ available'[k] = available[k] - (IF k = k0 THEN c.amount ELSE 0)
            /\ consumed'[k] = consumed[k] + (IF k = k0 THEN c.amount ELSE 0)
            /\ available[k] \in Int /\ consumed[k] \in Int
        BY <2>1, <2>3 DEF TypeOK, Charge
      <3>2. available[k] >= 0 /\ available[k] + consumed[k] = Grant[k] + Used[k]
        BY DEF Books, Conservation
      <3> QED
        BY <2>1, <2>2, <3>1, <3>2
    <2> QED
      BY <2>4, <2>5, <2>6 DEF Books
  <1> QED
    BY <1>1, <1>2

LEMMA BooksWarmUp ==
    ASSUME OnceInv, Books, NEW k \in Keys, WarmUp(k)
    PROVE  Books'
  <1> USE QuotaAssumption, BoundsAssumption DEF Books
  <1>1. /\ TypeOK /\ k \notin loaded /\ loaded' = loaded \cup {k}
        /\ UNCHANGED <<metric, ledger, now>>
        /\ available' = [available EXCEPT ![k] = Grant[k]]
        /\ consumed' = [consumed EXCEPT ![k] = Used[k]]
    BY DEF WarmUp, Absent, OnceInv, Typed
  <1>2. Cardinality(Charges(k)) = 0 /\ Cardinality(Refunds(k)) = 0
    <2>1. Charges(k) = {} /\ Refunds(k) = {}
      BY <1>1 DEF LedgerLoaded, Charges, Refunds
    <2> QED
      BY <2>1, FS_EmptySet
  <1>3. \A q : Charges(q)' = Charges(q) /\ Refunds(q)' = Refunds(q)
    BY <1>1 DEF Charges, Refunds
  <1>4. LedgerLoaded'
    BY <1>1 DEF LedgerLoaded
  <1>5. BooksBalance'
    <2> SUFFICES ASSUME NEW q \in loaded \cup {k}
                 PROVE  consumed'[q] = Used[q] + Cardinality(Charges(q)) - Cardinality(Refunds(q))
      BY <1>1, <1>3 DEF BooksBalance
    <2>1. CASE q = k
      BY <1>1, <1>2, <2>1 DEF TypeOK
    <2>2. CASE q # k
      BY <1>1, <2>2 DEF TypeOK, BooksBalance
    <2> QED
      BY <2>1, <2>2
  <1>6. Conservation'
    BY <1>1 DEF TypeOK, Conservation
  <1> QED
    BY <1>4, <1>5, <1>6

LEMMA BooksUntouched ==
    ASSUME Books, UNCHANGED <<available, consumed, loaded, ledger>>
    PROVE  Books'
  BY DEF Books, LedgerLoaded, BooksBalance, Conservation, Charges, Refunds

(* Every other step leaves the quota hashes and the ledger alone. *)
LEMMA RestUntouched ==
    ASSUME [Next]_vars
    PROVE  \/ UNCHANGED <<available, consumed, loaded, ledger>>
           \/ \E c \in wire : Execute(c)
           \/ \E k \in Keys : WarmUp(k)
  BY DEF Next, Step, vars, redisVars, Arrive, Send, Lose, CallFails, CallReturns, NextReturns,
         Disconnect, Drop, Crash, Tick, Expire

LEMMA BooksStep == OnceInv /\ Books /\ [Next]_vars => Books'
  BY RestUntouched, BooksUntouched, BooksExecute, BooksWarmUp

Inv == OnceInv /\ Books

LEMMA SpecInv == Spec => []Inv
  <1>1. Init => Inv
    BY OnceInit, BooksInit DEF Inv
  <1>2. Inv /\ [Next]_vars => Inv'
    BY OnceStep, BooksStep DEF Inv
  <1> QED
    BY <1>1, <1>2, PTL DEF Spec

(* The field consumed agrees with the executions of the script. *)
THEOREM BooksCorrect == Spec => []BooksBalance
  BY SpecInv, PTL DEF Inv, Books

(* No interleaving, retry or late execution overdraws a limited key or     *)
(* creates or destroys a unit of its quota.                                *)
THEOREM ConservationCorrect == Spec => []Conservation
  BY SpecInv, PTL DEF Inv, Books

-----------------------------------------------------------------------------
(* Who has paid.  A handler past Reserve, or about to learn of its OK, has *)
(* a charge in the ledger, and a refund is issued only for such a request. *)

PaidPhases == {"serving", "refunding", "kept", "failed", "aborted"}

PaidUp(r) ==
    /\ pc[r] \in {"idle", "serving"} => conn[r] = "free"
    /\ pc[r] = "reserving" /\ conn[r] = "OK" => Charged(r)
    /\ pc[r] \in PaidPhases => Charged(r)
    /\ \A t \in Tries : Issued(r, -1, t) => Charged(r)

AllPaidUp == \A r \in Requests : PaidUp(r)

LEMMA PaidInit == Init => AllPaidUp
  BY DEF Init, AllPaidUp, PaidUp, PaidPhases, Issued

LEMMA LedgerGrows ==
    ASSUME [Next]_vars
    PROVE  /\ ledger \subseteq ledger'
           /\ \A r : Charged(r) => Charged(r)'
  <1>1. ASSUME NEW c \in wire, Execute(c) PROVE ledger \subseteq ledger'
    BY <1>1, ExecuteEffect
  <1>2. ledger \subseteq ledger'
    BY <1>1, RestUntouched DEF WarmUp
  <1> QED
    BY <1>2 DEF Charged

(* Steps that issue nothing and change the state of one handler. *)
LEMMA PaidQuiet ==
    ASSUME AllPaidUp, wire' \subseteq wire, ledger' = ledger,
           NEW r \in Requests, \A q \in Requests \ {r} : pc'[q] = pc[q] /\ conn'[q] = conn[q],
           PaidUp(r)'
    PROVE  AllPaidUp'
  <1>1. \A q : Charged(q)' = Charged(q)
    BY DEF Charged
  <1>2. ASSUME NEW q \in Requests, q # r PROVE PaidUp(q)'
    BY <1>1, <1>2, QuietIssues DEF AllPaidUp, PaidUp
  <1> QED
    BY <1>2 DEF AllPaidUp

LEMMA PaidSend ==
    ASSUME OnceInv, AllPaidUp, NEW r \in Requests, Send(r)
    PROVE  AllPaidUp'
  <1>1. /\ wire' = wire \cup {[req |-> r, amount |-> Amount(r), try |-> tries[r] + 1]}
        /\ ledger' = ledger /\ pc' = pc /\ pc[r] \in Calling
        /\ conn' = [conn EXCEPT ![r] = "waiting"]
    BY DEF Send, AfterSend, redisVars, OnceInv, Typed, TypeOK
  <1>2. \A q : Charged(q)' = Charged(q)
    BY <1>1 DEF Charged
  <1>3. \A q \in Requests, t \in Tries :
           Issued(q, -1, t)' => Issued(q, -1, t) \/ (q = r /\ Amount(r) = -1)
    BY <1>1 DEF Issued
  <1>4. Amount(r) = -1 => pc[r] = "refunding"
    BY <1>1 DEF Amount, Calling
  <1>5. ASSUME NEW q \in Requests PROVE PaidUp(q)'
    <2>1. PaidUp(q) /\ PaidUp(r)
      BY DEF AllPaidUp
    <2>2. conn'[q] = IF q = r THEN "waiting" ELSE conn[q]
      BY <1>1 DEF OnceInv, Typed, TypeOK
    <2> QED
      BY <1>1, <1>2, <1>3, <1>4, <2>1, <2>2 DEF PaidUp, PaidPhases, Calling
  <1> QED
    BY <1>5 DEF AllPaidUp

LEMMA PaidExecute ==
    ASSUME OnceInv, AllPaidUp, NEW c \in wire, Execute(c)
    PROVE  AllPaidUp'
  <1>1. TypeOK /\ c.req \in Requests /\ c.amount \in {1, -1} /\ c.try \in Tries
    BY DEF OnceInv, Typed, TypeOK, Commands, Tries
  <1>2. pc' = pc
    BY ExecuteEffect
  <1>3. \A q : Charged(q) => Charged(q)'
    BY ExecuteEffect DEF Charged
  <1>4. ASSUME NEW q \in Requests PROVE PaidUp(q)'
    <2>1. PaidUp(q)
      BY DEF AllPaidUp
    <2>2. \A t \in Tries : Issued(q, -1, t)' => Charged(q)'
      BY <1>3, <2>1, IssuedByExecute DEF OnceInv, PaidUp
    <2>3. ASSUME pc[q] = "reserving", conn'[q] = "OK" PROVE Charged(q)'
      <3>1. CASE conn' = conn
        BY <1>3, <2>1, <2>3, <3>1 DEF PaidUp
      <3>2. CASE /\ conn' = [conn EXCEPT ![c.req] = Status(c)]
                 /\ pc[c.req] \in Calling /\ Amount(c.req) = c.amount
        <4>1. CASE q # c.req
          BY <1>1, <1>3, <2>1, <2>3, <3>2, <4>1 DEF PaidUp, TypeOK
        <4>2. CASE q = c.req
          <5>1. Status(c) = "OK" /\ c.amount = 1
            BY <1>1, <2>3, <3>2, <4>2 DEF TypeOK, Amount
          <5>2. c \in ledger'
            BY <5>1, ExecuteEffect
          <5> QED
            BY <4>2, <5>1, <5>2 DEF Charged
        <4> QED
          BY <4>1, <4>2
      <3> QED
        BY <3>1, <3>2, ExecuteEffect
    <2>4. pc[q] \in {"idle", "serving"} => conn'[q] = "free"
      BY <1>1, <2>1, ExecuteEffect DEF PaidUp, Calling, TypeOK
    <2> QED
      BY <1>2, <1>3, <2>1, <2>2, <2>3, <2>4 DEF PaidUp
  <1> QED
    BY <1>4 DEF AllPaidUp

LEMMA PaidStep == OnceInv /\ AllPaidUp /\ [Next]_vars => AllPaidUp'
  <1> SUFFICES ASSUME OnceInv, AllPaidUp, [Next]_vars PROVE AllPaidUp'
    OBVIOUS
  <1> USE DEF redisVars
  <1>0. /\ TypeOK /\ Disciplined
        /\ \A r \in Requests : PaidUp(r) /\ Discipline(r)
    BY DEF OnceInv, Typed, AllPaidUp, Disciplined
  <1>1. ASSUME NEW r \in Requests, Arrive(r) PROVE AllPaidUp'
    <2>1. PaidUp(r)'
      BY <1>0, <1>1, QuietIssues DEF Arrive, PaidUp, PaidPhases, TypeOK, Charged
    <2> QED
      BY <1>0, <1>1, <2>1, PaidQuiet DEF Arrive, TypeOK
  <1>2. ASSUME NEW r \in Requests, Send(r) PROVE AllPaidUp'
    BY <1>2, PaidSend
  <1>3. ASSUME NEW r \in Requests, Lose(r) PROVE AllPaidUp'
    <2>1. PaidUp(r)'
      BY <1>0, <1>3, QuietIssues DEF Lose, PaidUp, PaidPhases, TypeOK, Charged
    <2> QED
      BY <1>0, <1>3, <2>1, PaidQuiet DEF Lose, TypeOK
  <1>4. ASSUME NEW r \in Requests, CallFails(r) PROVE AllPaidUp'
    <2>1. PaidUp(r)'
      BY <1>0, <1>4, QuietIssues
      DEF CallFails, AfterError, Calling, PaidUp, PaidPhases, TypeOK, Charged
    <2> QED
      BY <1>0, <1>4, <2>1, PaidQuiet DEF CallFails, TypeOK
  <1>5. ASSUME NEW r \in Requests, CallReturns(r) PROVE AllPaidUp'
    <2>1. PaidUp(r)'
      BY <1>0, <1>5, QuietIssues
      DEF CallReturns, AfterReply, Calling, PaidUp, PaidPhases, TypeOK, Charged
    <2> QED
      BY <1>0, <1>5, <2>1, PaidQuiet DEF CallReturns, TypeOK
  <1>6. ASSUME NEW r \in Requests, NextReturns(r) PROVE AllPaidUp'
    <2>1. PaidUp(r)'
      BY <1>0, <1>6, QuietIssues
      DEF NextReturns, AfterServing, PaidUp, PaidPhases, TypeOK, Charged
    <2> QED
      BY <1>0, <1>6, <2>1, PaidQuiet DEF NextReturns, TypeOK
  <1>7. ASSUME NEW r \in Requests, Disconnect(r) PROVE AllPaidUp'
    BY <1>0, <1>7, QuietIssues DEF Disconnect, AllPaidUp, PaidUp, Charged
  <1>8. ASSUME NEW c \in wire, Execute(c) PROVE AllPaidUp'
    BY <1>8, PaidExecute
  <1>9. ASSUME NEW c \in wire, Drop(c) PROVE AllPaidUp'
    BY <1>0, <1>9, QuietIssues DEF Drop, AllPaidUp, PaidUp, Charged
  <1>10. ASSUME NEW k \in Keys, WarmUp(k) PROVE AllPaidUp'
    BY <1>0, <1>10, QuietIssues DEF WarmUp, AllPaidUp, PaidUp, Charged
  <1>11. ASSUME NEW k \in Keys, NEW b \in Buckets, Expire(k, b) PROVE AllPaidUp'
    BY <1>0, <1>11, QuietIssues DEF Expire, AllPaidUp, PaidUp, Charged
  <1>12. CASE Tick
    BY <1>0, <1>12, QuietIssues DEF Tick, AllPaidUp, PaidUp, Charged
  <1>13. CASE Crash
    BY <1>0, <1>13, QuietIssues
    DEF Crash, Active, Final, AllPaidUp, PaidUp, PaidPhases, Charged, TypeOK
  <1>14. CASE UNCHANGED vars
    BY <1>0, <1>14, QuietIssues DEF vars, AllPaidUp, PaidUp, Charged
  <1> QED
    BY <1>1, <1>2, <1>3, <1>4, <1>5, <1>6, <1>7, <1>8, <1>9, <1>10, <1>11, <1>12,
       <1>13, <1>14 DEF Next, Step

LEMMA SpecPaid == Spec => [](Inv /\ AllPaidUp)
  <1>1. Init => AllPaidUp
    BY PaidInit
  <1>2. Inv /\ AllPaidUp /\ [Next]_vars => AllPaidUp'
    BY PaidStep DEF Inv
  <1> QED
    BY <1>1, <1>2, SpecInv, PTL DEF Spec

(* No request is handed to the next handler without a reservation of its   *)
(* own in Redis, whatever was lost or repeated on the way.                 *)
THEOREM ServedIsChargedCorrect == Spec => []ServedIsCharged
  <1>1. AllPaidUp => ServedIsCharged
    BY DEF AllPaidUp, PaidUp, PaidPhases, ServedIsCharged
  <1> QED
    BY <1>1, SpecPaid, PTL

LEMMA RefundedIsCharged ==
    ASSUME OnceInv, AllPaidUp
    PROVE  RefundOnlyFailures
  <1> SUFFICES ASSUME NEW r \in Requests, NEW e \in ledger, e.req = r, e.amount = -1
               PROVE  Charged(r) /\ pc[r] \in {"refunding", "failed", "killed"}
    BY DEF RefundOnlyFailures, Refunded
  <1>1. e.try \in Tries /\ Issued(r, -1, e.try)
    BY DEF OnceInv, Typed, TypeOK, Tries, Issued, Commands
  <1> QED
    BY <1>1 DEF OnceInv, Disciplined, Discipline, AllPaidUp, PaidUp

(* A refund reaches Redis only for a request that was charged and failed:  *)
(* a successful answer is never refunded, not even by a late execution.    *)
THEOREM RefundOnlyFailuresCorrect == Spec => []RefundOnlyFailures
  BY SpecPaid, RefundedIsCharged, PTL DEF Inv

-----------------------------------------------------------------------------
(* The tollgate implements QuotaLedger.                                    *)

LEMMA QuotaInit == Init => Quota!Init
  <1> SUFFICES ASSUME Init PROVE Quota!Init
    OBVIOUS
  <1>1. \A k \in Keys : Charges(k) = {} /\ Refunds(k) = {}
    BY DEF Init, Charges, Refunds
  <1>2. \A k \in Keys : Cardinality(Charges(k)) = 0 /\ Cardinality(Refunds(k)) = 0
    BY <1>1, FS_EmptySet
  <1> QED
    BY <1>2 DEF Init, Quota!Init

LEMMA QuotaExecute ==
    ASSUME Inv, AllPaidUp, NEW c \in wire, Execute(c)
    PROVE  [Quota!Next]_Quota!vars
  <1> DEFINE k0 == KeyOf[c.req]
             spent == [k \in Keys |-> Cardinality(Charges(k))]
             returned == [k \in Keys |-> Cardinality(Refunds(k))]
  <1> USE RequestsAssumption, QuotaAssumption
  <1>0. OnceInv /\ Books /\ TypeOK /\ IsFiniteSet(ledger)
    BY DEF Inv, OnceInv, Typed
  <1>1. k0 \in Keys /\ c.amount \in {1, -1} /\ c.req \in Requests /\ loaded' = loaded
    BY <1>0, ExecuteEffect DEF TypeOK, Commands
  <1>2. CASE Status(c) # "OK"
    BY <1>1, <1>2, ExecuteEffect DEF Quota!vars, Charges, Refunds
  <1>3. \A k \in Keys : Cardinality(Charges(k)) \in Nat /\ Cardinality(Refunds(k)) \in Nat
    BY <1>0, AccountsFinite, FS_CardinalityType
  <1>4. CASE Status(c) = "OK"
    <2>1. k0 \in loaded /\ (k0 \in Limited => ~(available[k0] < c.amount))
      BY <1>4 DEF Status, ScriptStatus, LimitReached
    <2>2. CASE c.amount = 1
      <3>1. spent' = [spent EXCEPT ![k0] = @ + 1] /\ returned' = returned
        <4>1. \A k \in Keys :
                 /\ Cardinality(Charges(k))' =
                      IF k = k0 THEN Cardinality(Charges(k)) + 1 ELSE Cardinality(Charges(k))
                 /\ Cardinality(Refunds(k))' = Cardinality(Refunds(k))
          BY <1>0, <1>4, <1>3, <2>2, ExecuteLedger
        <4> QED
          BY <1>1, <4>1
      <3>2. k0 \in Limited => spent[k0] - returned[k0] < Grant[k0]
        <4> SUFFICES ASSUME k0 \in Limited PROVE spent[k0] - returned[k0] < Grant[k0]
          OBVIOUS
        <4>1. spent[k0] \in Nat /\ returned[k0] \in Nat
          BY <1>0, <1>1, AccountsFinite, FS_CardinalityType
        <4>2. /\ consumed[k0] = Used[k0] + spent[k0] - returned[k0]
              /\ available[k0] + consumed[k0] = Grant[k0] + Used[k0]
              /\ available[k0] >= 1
          BY <1>0, <1>1, <2>1, <2>2 DEF Books, BooksBalance, Conservation, TypeOK
        <4>3. available[k0] \in Int /\ Used[k0] \in Nat /\ Grant[k0] \in Nat
          BY <1>0, <1>1 DEF TypeOK
        <4> HIDE DEF spent, returned
        <4> QED
          BY <4>1, <4>2, <4>3
      <3>3. Quota!Spend(k0)
        BY <1>1, <2>1, <3>1, <3>2 DEF Quota!Spend
      <3> QED
        BY <1>1, <3>3 DEF Quota!Next
    <2>3. CASE c.amount = -1
      <3>1. returned' = [returned EXCEPT ![k0] = @ + 1] /\ spent' = spent
        <4>1. \A k \in Keys :
                 /\ Cardinality(Refunds(k))' =
                      IF k = k0 THEN Cardinality(Refunds(k)) + 1 ELSE Cardinality(Refunds(k))
                 /\ Cardinality(Charges(k))' = Cardinality(Charges(k))
          BY <1>0, <1>4, <1>3, <2>3, ExecuteLedger
        <4> QED
          BY <1>1, <4>1
      <3>2. spent[k0] > 0
        <4>1. c.try \in Tries /\ Issued(c.req, -1, c.try)
          <5>1. c = [req |-> c.req, amount |-> -1, try |-> c.try] /\ c.try \in Tries
            BY <1>0, <2>3 DEF TypeOK, Commands, Tries
          <5> QED
            BY <5>1 DEF Issued
        <4>2. Charges(k0) # {}
          BY <1>1, <4>1 DEF AllPaidUp, PaidUp, Charged, Charges
        <4>3. Cardinality(Charges(k0)) \in Nat /\ Cardinality(Charges(k0)) # 0
          BY <1>0, <4>2, AccountsFinite, FS_CardinalityType, FS_EmptySet
        <4> QED
          BY <1>1, <4>3
      <3>3. Quota!Return(k0)
        BY <1>1, <2>1, <3>1, <3>2 DEF Quota!Return
      <3> QED
        BY <1>1, <3>3 DEF Quota!Next
    <2> QED
      BY <1>1, <2>2, <2>3
  <1> QED
    BY <1>2, <1>4

LEMMA QuotaStep == Inv /\ AllPaidUp /\ [Next]_vars => [Quota!Next]_Quota!vars
  <1> SUFFICES ASSUME Inv, AllPaidUp, [Next]_vars PROVE [Quota!Next]_Quota!vars
    OBVIOUS
  <1>1. CASE UNCHANGED <<available, consumed, loaded, ledger>>
    BY <1>1 DEF Quota!vars, Charges, Refunds
  <1>2. ASSUME NEW c \in wire, Execute(c) PROVE [Quota!Next]_Quota!vars
    BY <1>2, QuotaExecute
  <1>3. ASSUME NEW k \in Keys, WarmUp(k) PROVE [Quota!Next]_Quota!vars
    BY <1>3 DEF WarmUp, Absent, Quota!Next, Quota!Open, Charges, Refunds
  <1> QED
    BY <1>1, <1>2, <1>3, RestUntouched

(* With retries, late executions, lost commands and crashes, the hashes in *)
(* Redis are a quota ledger: at no time are more units spent and not       *)
(* returned than were granted.                                             *)
THEOREM QuotaImplemented == Spec => ImplementsQuota
  <1>1. Spec => [](Inv /\ AllPaidUp)
    BY SpecPaid
  <1> QED
    BY <1>1, QuotaInit, QuotaStep, PTL DEF Spec, ImplementsQuota, Quota!Spec
-----------------------------------------------------------------------------
(* While no command is lost.  Each call sends its command once, waits for  *)
(* it, and gets the script's answer, unless its handler is killed.         *)

Answered(r) == conn[r] \in Statuses

OneAttempt(r) ==
    /\ pc[r] \in Calling => tries[r] = (IF conn[r] = "free" THEN 0 ELSE 1)
    /\ pc[r] = "reserving" /\ Answered(r) /\ conn[r] # "OK" => ~Charged(r)
    /\ pc[r] = "refunding" /\ Answered(r) => Refunded(r)
    /\ pc[r] = "payment_required" => conn[r] = "free" /\ ~Charged(r)

AwaitedOrKilled(c) ==
    /\ c.try = 1 /\ conn[c.req] = "waiting"
    /\ pc[c.req] = "killed" \/ (pc[c.req] \in Calling /\ c.amount = Amount(c.req))

Punctual ==
    /\ \A c \in wire : AwaitedOrKilled(c)
    /\ \A e \in ledger : e.try = 1
    /\ \A r \in Requests : OneAttempt(r)

Steady == Inv /\ AllPaidUp /\ Punctual

LEMMA PunctualInit == Init => Punctual
  BY DEF Init, Punctual, OneAttempt, Answered, Calling

(* What is on the wire has not been executed, nor been asked for before. *)
LEMMA FreshCommand ==
    ASSUME Steady, NEW c \in wire
    PROVE  /\ c.req \in Requests /\ c.amount \in {1, -1} /\ KeyOf[c.req] \in Keys
           /\ c.amount = 1 => ~Charged(c.req)
           /\ c.amount = -1 => Charged(c.req) /\ ~Refunded(c.req)
           /\ ~Refunded(c.req)
  <1>0. OnceInv /\ TypeOK /\ ExecutedOnce /\ AllPaidUp /\ Punctual
    BY DEF Steady, Inv, OnceInv, Typed
  <1>1. c = [req |-> c.req, amount |-> c.amount, try |-> c.try]
        /\ c.req \in Requests /\ c.amount \in {1, -1} /\ c.try \in Tries
    BY <1>0 DEF TypeOK, Commands, Tries
  <1>2. ~\E e \in ledger : e.req = c.req /\ e.amount = c.amount
    BY <1>0 DEF ExecutedOnce, Punctual, AwaitedOrKilled
  <1>3. c.amount = -1 => Charged(c.req)
    <2>1. c.amount = -1 => Issued(c.req, -1, c.try)
      BY <1>1 DEF Issued
    <2> QED
      BY <1>0, <1>1, <2>1 DEF AllPaidUp, PaidUp
  <1>4. c.amount = 1 => ~Charged(c.req)
    BY <1>2 DEF Charged
  <1>5. c.amount = -1 => ~Refunded(c.req)
    BY <1>2 DEF Refunded
  <1>6. Refunded(c.req) => Charged(c.req)
    BY <1>0, <1>1, RefundedIsCharged DEF RefundOnlyFailures
  <1> QED
    BY <1>1, <1>3, <1>4, <1>5, <1>6, RequestsAssumption

(* A refund is never refused: the hash of a charged request exists, and    *)
(* its balance is not below zero.                                          *)
LEMMA RefundsSucceed ==
    ASSUME Steady, NEW c \in wire, c.amount = -1
    PROVE  Status(c) = "OK"
  <1> DEFINE k == KeyOf[c.req]
  <1>0. TypeOK /\ Books
    BY DEF Steady, Inv, OnceInv, Typed
  <1>1. k \in Keys /\ Charged(c.req)
    BY FreshCommand
  <1>2. k \in loaded
    BY <1>0, <1>1 DEF Charged, Books, LedgerLoaded
  <1>3. k \in Limited => available[k] >= 0 /\ available[k] \in Int
    BY <1>0, <1>1, <1>2 DEF Books, Conservation, TypeOK
  <1> QED
    BY <1>2, <1>3 DEF Status, ScriptStatus, LimitReached

LEMMA PunctualExecute ==
    ASSUME Steady, NEW c \in wire, Execute(c)
    PROVE  Punctual'
  <1>0. TypeOK /\ Punctual /\ AwaitedOrKilled(c)
    BY DEF Steady, Punctual, Inv, OnceInv, Typed
  <1>1. /\ c.req \in Requests /\ c.amount \in {1, -1}
        /\ wire' = wire \ {c} /\ UNCHANGED <<pc, tries>>
        /\ conn' = IF pc[c.req] \in Calling THEN [conn EXCEPT ![c.req] = Status(c)] ELSE conn
    <2>1. pc[c.req] \in Calling => tries[c.req] = c.try /\ Amount(c.req) = c.amount
      BY <1>0, FreshCommand DEF Punctual, OneAttempt, AwaitedOrKilled, Calling
    <2> QED
      BY <1>0, <2>1, FreshCommand DEF Execute, Status, AwaitedOrKilled
  <1>2. Status(c) \in Statuses
    BY DEF Status, ScriptStatus, Statuses
  <1>3. \A e \in ledger' : e.try = 1
    BY <1>0, ExecuteEffect DEF Punctual, AwaitedOrKilled
  <1>4. ASSUME NEW d \in wire' PROVE AwaitedOrKilled(d)'
    <2>1. d \in wire /\ d # c /\ AwaitedOrKilled(d)
      BY <1>0, <1>1 DEF Punctual
    <2>2. CASE d.req # c.req
      BY <1>0, <1>1, <2>1, <2>2 DEF AwaitedOrKilled, Amount, TypeOK, Commands
    <2>3. CASE d.req = c.req /\ pc[c.req] \in Calling
      <3>1. d.try = c.try /\ d.amount = c.amount
        BY <1>0, <2>1, <2>3 DEF AwaitedOrKilled, Calling
      <3>2. d = c
        BY <1>0, <2>1, <2>3, <3>1 DEF TypeOK, Commands
      <3> QED
        BY <2>1, <3>2
    <2>4. CASE d.req = c.req /\ pc[c.req] \notin Calling
      BY <1>1, <2>1, <2>4 DEF AwaitedOrKilled, Amount
    <2> QED
      BY <2>2, <2>3, <2>4
  <1>5. ASSUME NEW q \in Requests PROVE OneAttempt(q)'
    <2>1. OneAttempt(q)
      BY <1>0 DEF Punctual
    <2>2. ledger \subseteq ledger' /\ ledger' \subseteq ledger \cup {c}
          /\ (Status(c) # "OK" => ledger' = ledger)
      BY ExecuteEffect
    <2>3. CASE q # c.req
      <3>1. Charged(q)' = Charged(q) /\ Refunded(q)' = Refunded(q)
        BY <2>2, <2>3 DEF Charged, Refunded
      <3>2. conn'[q] = conn[q]
        BY <1>0, <1>1, <2>3 DEF TypeOK
      <3> QED
        BY <1>1, <2>1, <3>1, <3>2 DEF OneAttempt, Answered
    <2>4. CASE q = c.req
      <3>1. conn[q] = "waiting"
            /\ (pc[q] = "killed" \/ (pc[q] \in Calling /\ c.amount = Amount(q)))
        BY <1>0, <2>4 DEF AwaitedOrKilled
      <3>2. CASE pc[q] = "killed"
        BY <1>1, <3>2 DEF OneAttempt, Calling
      <3>3. CASE pc[q] \in Calling
        <4>1. conn'[q] = Status(c) /\ tries'[q] = 1 /\ pc'[q] = pc[q]
          BY <1>0, <1>1, <2>1, <2>4, <3>1, <3>3 DEF OneAttempt, TypeOK
        <4>2. c.amount = IF pc[q] = "reserving" THEN 1 ELSE -1
          BY <3>1, <3>3, <2>4 DEF Amount, Calling
        <4>3. ASSUME pc[q] = "reserving", Status(c) # "OK" PROVE ~Charged(q)'
          BY <2>2, <2>4, <4>2, <4>3, FreshCommand DEF Charged
        <4>4. ASSUME pc[q] = "refunding" PROVE Refunded(q)'
          <5>1. c.amount = -1 /\ Status(c) = "OK"
            BY <4>2, <4>4, RefundsSucceed
          <5>2. c \in ledger'
            BY <5>1, ExecuteEffect
          <5> QED
            BY <2>4, <5>1, <5>2 DEF Refunded
        <4>5. Status(c) # "free"
          BY <1>2 DEF Statuses
        <4> QED
          BY <3>3, <4>1, <4>3, <4>4, <4>5 DEF OneAttempt, Calling
      <3> QED
        BY <3>1, <3>2, <3>3
    <2> QED
      BY <2>3, <2>4
  <1> QED
    BY <1>3, <1>4, <1>5 DEF Punctual

LEMMA PunctualSend ==
    ASSUME Steady, NEW r \in Requests, Send(r)
    PROVE  Punctual'
  <1> DEFINE c == [req |-> r, amount |-> Amount(r), try |-> 1]
  <1>0. /\ TypeOK /\ Punctual /\ OneAttempt(r) /\ pc[r] \in Calling /\ conn[r] = "free"
    BY DEF Steady, Punctual, Inv, OnceInv, Typed, Send
  <1>1. tries[r] = 0
    BY <1>0 DEF OneAttempt
  <1>2. /\ wire' = wire \cup {c} /\ ledger' = ledger /\ pc' = pc
        /\ tries' = [tries EXCEPT ![r] = 1] /\ conn' = [conn EXCEPT ![r] = "waiting"]
    BY <1>0, <1>1 DEF Send, AfterSend, redisVars, TypeOK
  <1>3. ASSUME NEW d \in wire' PROVE AwaitedOrKilled(d)'
    <2>1. CASE d = c
      BY <1>0, <1>2, <2>1 DEF AwaitedOrKilled, Amount, TypeOK
    <2>2. CASE d \in wire
      <3>1. AwaitedOrKilled(d) /\ d.req \in Requests
        BY <1>0, <2>2 DEF Punctual, TypeOK, Commands
      <3>2. d.req # r
        BY <1>0, <3>1 DEF AwaitedOrKilled
      <3> QED
        BY <1>0, <1>2, <3>1, <3>2 DEF AwaitedOrKilled, Amount, TypeOK
    <2> QED
      BY <1>2, <2>1, <2>2
  <1>4. ASSUME NEW q \in Requests PROVE OneAttempt(q)'
    <2>1. OneAttempt(q)
      BY <1>0 DEF Punctual
    <2>2. CASE q = r
      BY <1>0, <1>2, <2>2 DEF OneAttempt, Answered, Calling, Statuses, TypeOK
    <2>3. CASE q # r
      BY <1>0, <1>2, <2>1, <2>3 DEF OneAttempt, Answered, Charged, Refunded, TypeOK
    <2> QED
      BY <2>2, <2>3
  <1> QED
    BY <1>0, <1>2, <1>3, <1>4 DEF Punctual

(* A handler that has no command on the wire changes state by itself. *)
LEMMA PunctualQuiet ==
    ASSUME Steady, UNCHANGED <<wire, ledger>>,
           NEW r \in Requests, conn[r] # "waiting",
           \A q \in Requests \ {r} :
              pc'[q] = pc[q] /\ conn'[q] = conn[q] /\ tries'[q] = tries[q],
           OneAttempt(r)'
    PROVE  Punctual'
  <1>0. TypeOK /\ Punctual
    BY DEF Steady, Inv, OnceInv, Typed
  <1>1. ASSUME NEW c \in wire PROVE AwaitedOrKilled(c)'
    <2>1. AwaitedOrKilled(c) /\ c.req \in Requests
      BY <1>0 DEF Punctual, TypeOK, Commands
    <2>2. c.req # r
      BY <2>1 DEF AwaitedOrKilled
    <2> QED
      BY <2>1, <2>2 DEF AwaitedOrKilled, Amount
  <1>2. ASSUME NEW q \in Requests, q # r PROVE OneAttempt(q)'
    BY <1>0, <1>2 DEF Punctual, OneAttempt, Answered, Charged, Refunded
  <1> QED
    BY <1>0, <1>1, <1>2 DEF Punctual

LEMMA PunctualStep ==
    ASSUME "network" \notin Faults
    PROVE  Steady /\ [Next]_vars => Punctual'
  <1> SUFFICES ASSUME Steady, [Next]_vars PROVE Punctual'
    OBVIOUS
  <1> USE DEF redisVars
  <1>0. /\ TypeOK /\ Punctual /\ \A r \in Requests : OneAttempt(r) /\ PaidUp(r)
    BY DEF Steady, Punctual, Inv, OnceInv, Typed, AllPaidUp
  <1>1. ASSUME NEW r \in Requests, Arrive(r) PROVE Punctual'
    <2>1. conn[r] = "free" /\ pc[r] = "idle" /\ tries[r] = 0
      BY <1>1 DEF Arrive, Steady, Inv, OnceInv, Disciplined, Discipline, AllPaidUp, PaidUp
    <2>2. OneAttempt(r)'
      BY <1>0, <1>1, <2>1 DEF Arrive, OneAttempt, Answered, Statuses, TypeOK
    <2> QED
      BY <1>0, <1>1, <2>1, <2>2, PunctualQuiet DEF Arrive, TypeOK
  <1>2. ASSUME NEW r \in Requests, Send(r) PROVE Punctual'
    BY <1>2, PunctualSend
  <1>3. ASSUME NEW r \in Requests, Lose(r) PROVE Punctual'
    BY <1>3 DEF Lose
  <1>4. ASSUME NEW r \in Requests, CallFails(r) PROVE Punctual'
    <2>1. OneAttempt(r)'
      BY <1>0, <1>4 DEF CallFails, AfterError, Calling, OneAttempt, TypeOK
    <2> QED
      BY <1>0, <1>4, <2>1, PunctualQuiet DEF CallFails, TypeOK
  <1>5. ASSUME NEW r \in Requests, CallReturns(r) PROVE Punctual'
    <2>1. conn[r] # "waiting"
      BY <1>5 DEF CallReturns, Statuses
    <2>2. Charged(r)' = Charged(r)
      BY <1>5 DEF CallReturns, Charged
    <2>3. OneAttempt(r)'
      BY <1>0, <1>5, <2>2
      DEF CallReturns, AfterReply, Calling, OneAttempt, Answered, Statuses, TypeOK
    <2> QED
      BY <1>0, <1>5, <2>1, <2>3, PunctualQuiet DEF CallReturns, TypeOK
  <1>6. ASSUME NEW r \in Requests, NextReturns(r) PROVE Punctual'
    <2>1. conn[r] = "free" /\ tries[r] = 0
      BY <1>6 DEF NextReturns, Steady, Inv, OnceInv, Disciplined, Discipline, AllPaidUp, PaidUp
    <2>2. OneAttempt(r)'
      BY <1>0, <1>6, <2>1
      DEF NextReturns, AfterServing, Calling, OneAttempt, Answered, Statuses, TypeOK
    <2> QED
      BY <1>0, <1>6, <2>1, <2>2, PunctualQuiet DEF NextReturns, TypeOK
  <1>7. ASSUME NEW r \in Requests, Disconnect(r) PROVE Punctual'
    BY <1>0, <1>7
    DEF Disconnect, Punctual, AwaitedOrKilled, Amount, OneAttempt, Answered, Charged, Refunded
  <1>8. ASSUME NEW c \in wire, Execute(c) PROVE Punctual'
    BY <1>8, PunctualExecute
  <1>9. ASSUME NEW c \in wire, Drop(c) PROVE Punctual'
    BY <1>9 DEF Drop
  <1>10. ASSUME NEW k \in Keys, WarmUp(k) PROVE Punctual'
    BY <1>0, <1>10
    DEF WarmUp, Punctual, AwaitedOrKilled, Amount, OneAttempt, Answered, Charged, Refunded
  <1>11. ASSUME NEW k \in Keys, NEW b \in Buckets, Expire(k, b) PROVE Punctual'
    BY <1>0, <1>11
    DEF Expire, Punctual, AwaitedOrKilled, Amount, OneAttempt, Answered, Charged, Refunded
  <1>12. CASE Tick
    BY <1>0, <1>12
    DEF Tick, Punctual, AwaitedOrKilled, Amount, OneAttempt, Answered, Charged, Refunded
  <1>13. CASE Crash
    <2>1. \A r \in Requests : pc'[r] = IF Active(r) THEN "killed" ELSE pc[r]
      BY <1>0, <1>13 DEF Crash
    <2>2. UNCHANGED <<wire, ledger, conn, tries>>
      BY <1>13 DEF Crash
    <2>3. ASSUME NEW c \in wire PROVE AwaitedOrKilled(c)'
      <3>1. AwaitedOrKilled(c) /\ c.req \in Requests
        BY <1>0 DEF Punctual, TypeOK, Commands
      <3> QED
        BY <2>1, <2>2, <3>1 DEF AwaitedOrKilled, Active, Calling, Final
    <2>4. ASSUME NEW r \in Requests PROVE OneAttempt(r)'
      BY <1>0, <2>1, <2>2
      DEF OneAttempt, Answered, Active, Calling, Final, Charged, Refunded
    <2> QED
      BY <1>0, <2>2, <2>3, <2>4 DEF Punctual
  <1>14. CASE UNCHANGED vars
    BY <1>0, <1>14
    DEF vars, Punctual, AwaitedOrKilled, Amount, OneAttempt, Answered, Charged, Refunded
  <1> QED
    BY <1>1, <1>2, <1>3, <1>4, <1>5, <1>6, <1>7, <1>8, <1>9, <1>10, <1>11, <1>12,
       <1>13, <1>14 DEF Next, Step

LEMMA SpecSteady ==
    ASSUME "network" \notin Faults
    PROVE  Spec => []Steady
  <1>1. Init => Punctual
    BY PunctualInit
  <1>2. Inv /\ AllPaidUp /\ Punctual /\ [Next]_vars => Punctual'
    BY PunctualStep DEF Steady
  <1> QED
    BY <1>1, <1>2, SpecPaid, PTL DEF Spec, Steady

(* Where no command is lost, Redis charges or refunds no request behind    *)
(* the back of a handler that has answered.                                *)
THEOREM NoLateExecutionCorrect ==
    ASSUME "network" \notin Faults
    PROVE  Spec => NoLateExecution
  <1> DEFINE OnTime == \A e \in ledger' \ ledger : Active(e.req) \/ pc[e.req] = "killed"
  <1>1. Steady /\ [Next]_vars => [OnTime]_vars
    <2> SUFFICES ASSUME Steady, [Next]_vars, NEW e \in ledger' \ ledger
                 PROVE  Active(e.req) \/ pc[e.req] = "killed"
      OBVIOUS
    <2>1. PICK c \in wire : Execute(c)
      BY RestUntouched DEF WarmUp
    <2>2. e = c
      BY <2>1, ExecuteEffect
    <2> QED
      BY <2>2 DEF Steady, Punctual, AwaitedOrKilled, Active, Calling, Final
  <1>2. Spec => []Steady
    BY SpecSteady
  <1> QED
    BY <1>1, <1>2, PTL DEF Spec, NoLateExecution

(* Where no command is lost, a request refused for lack of quota has       *)
(* reserved nothing: it takes a lost reply to be charged and refused.      *)
THEOREM RefusedIsNotChargedCorrect ==
    ASSUME "network" \notin Faults
    PROVE  Spec => []RefusedIsNotCharged
  <1>1. Steady => RefusedIsNotCharged
    BY DEF Steady, Punctual, OneAttempt, RefusedIsNotCharged
  <1>2. Spec => []Steady
    BY SpecSteady
  <1> QED
    BY <1>1, <1>2, PTL

(* Where no command is lost and keys resolve, a failed request gets its    *)
(* unit back unless its client has gone.                                   *)
THEOREM RefundUnlessGoneCorrect ==
    ASSUME Faults \cap {"network", "resolve"} = {}
    PROVE  Spec => []RefundUnlessGone
  <1>1. Init => RefundUnlessGone
    BY DEF Init, RefundUnlessGone
  <1>2. Steady /\ RefundUnlessGone /\ [Next]_vars => RefundUnlessGone'
    <2> SUFFICES ASSUME Steady, RefundUnlessGone, [Next]_vars,
                        NEW r \in Requests, pc'[r] = "failed"
                 PROVE  Refunded(r)' \/ gone'[r]
      BY DEF RefundUnlessGone
    <2>0. TypeOK /\ OneAttempt(r)
      BY DEF Steady, Punctual, Inv, OnceInv, Typed
    <2>1. Refunded(r) => Refunded(r)'
      BY LedgerGrows DEF Refunded
    <2>2. gone[r] => gone'[r]
      <3>1. ASSUME NEW q \in Requests, Arrive(q) \/ Step(q) \/ Disconnect(q)
            PROVE  gone[r] => gone'[r]
        BY <2>0, <3>1 DEF Arrive, Step, Send, Lose, CallFails, CallReturns, NextReturns,
                          Disconnect, TypeOK
      <3> QED
        BY <3>1 DEF Next, vars, Execute, Drop, WarmUp, Expire, Tick, Crash
    <2>3. CASE pc[r] = "failed"
      BY <2>1, <2>2, <2>3 DEF RefundUnlessGone
    <2>4. CASE pc[r] # "failed"
      <3>1. PICK q \in Requests : Arrive(q) \/ Step(q)
        BY <2>4 DEF Next, vars, Disconnect, Execute, Drop, WarmUp, Expire, Tick, Crash
      <3>2. q = r /\ (CallFails(r) \/ CallReturns(r)) /\ pc[r] = "refunding"
        BY <2>0, <2>4, <3>1 DEF Arrive, Step, Send, AfterSend, Lose, CallFails, AfterError,
           CallReturns, AfterReply, NextReturns, AfterServing, Calling, TypeOK
      <3>3. CASE CallFails(r)
        BY <2>0, <2>2, <3>2, <3>3, BoundsAssumption DEF CallFails, CannotCall, OneAttempt, Calling
      <3>4. CASE CallReturns(r)
        BY <2>0, <2>1, <3>2, <3>4 DEF CallReturns, OneAttempt, Answered
      <3> QED
        BY <3>2, <3>3, <3>4
    <2> QED
      BY <2>3, <2>4
  <1>3. Spec => []Steady
    BY SpecSteady
  <1> QED
    BY <1>1, <1>2, <1>3, PTL DEF Spec
-----------------------------------------------------------------------------
(* While no command is lost, the tollgate implements PayPerSuccess.        *)

Refused(r) == pc[r] = "payment_required" \/ conn[r] \in {"QUOTA_EXHAUSTED", "KEY_NOT_FOUND"}

(* A step that leaves the ledger alone changes the phase of a request only *)
(* when a charged one is kept or an uncharged one refused.                 *)
LEMMA SamePhase ==
    ASSUME UNCHANGED ledger, NEW r \in Requests,
           Charged(r) => (pc'[r] = "kept" <=> pc[r] = "kept"),
           ~Charged(r) => (Refused(r)' <=> Refused(r))
    PROVE  PaymentPhase(r)' = PaymentPhase(r)
  <1>1. Charged(r)' = Charged(r) /\ Refunded(r)' = Refunded(r)
    BY DEF Charged, Refunded
  <1>2. CASE Charged(r)
    BY <1>1, <1>2 DEF PaymentPhase
  <1>3. CASE ~Charged(r)
    BY <1>1, <1>3 DEF PaymentPhase, Refused
  <1> QED
    BY <1>2, <1>3

LEMMA PaymentInit == Init => Payment!Init
  BY DEF Init, Payment!Init, PaymentPhase, Refunded, Charged

(* The abstract state keeps when no request changes its phase. *)
LEMMA PaymentStutter ==
    ASSUME UNCHANGED <<loaded, available>>,
           \A r \in Requests : PaymentPhase(r)' = PaymentPhase(r)
    PROVE  UNCHANGED Payment!vars
  BY DEF Payment!vars

(* One request moves to another phase. *)
LEMMA PhaseMoves ==
    ASSUME NEW r \in Requests, NEW p, PaymentPhase(r)' = p,
           \A q \in Requests \ {r} : PaymentPhase(q)' = PaymentPhase(q)
    PROVE  Payment!Become(r, p)
  BY DEF Payment!Become

LEMMA PaymentExecute ==
    ASSUME Steady, NEW c \in wire, Execute(c)
    PROVE  [Payment!Next]_Payment!vars
  <1> DEFINE r == c.req
             k == KeyOf[r]
  <1>0. /\ TypeOK /\ AwaitedOrKilled(c) /\ OneAttempt(r)
        /\ r \in Requests /\ k \in Keys /\ c.amount \in {1, -1}
    BY FreshCommand DEF Steady, Punctual, Inv, OnceInv, Typed
  <1>1. UNCHANGED <<loaded, pc>>
    BY ExecuteEffect
  <1>2. ~Refunded(r) /\ (Charged(r) <=> c.amount = -1) /\ ~Refused(r)
    BY <1>0, FreshCommand DEF AwaitedOrKilled, Refused, Calling
  <1>3. ASSUME NEW q \in Requests, q # r PROVE PaymentPhase(q)' = PaymentPhase(q)
    <2>1. Charged(q)' = Charged(q) /\ Refunded(q)' = Refunded(q)
      BY <1>3, ExecuteEffect DEF Charged, Refunded
    <2>2. conn'[q] = conn[q]
      BY <1>0, <1>3, ExecuteEffect DEF TypeOK
    <2> QED
      BY <1>1, <2>1, <2>2 DEF PaymentPhase
  <1>4. CASE Status(c) # "OK"
    <2>1. UNCHANGED <<available, ledger>>
      BY <1>4, ExecuteEffect
    <2>2. c.amount = 1
      BY <1>0, <1>4, RefundsSucceed
    <2>3. ~Charged(r) /\ ~Refunded(r) /\ ~Charged(r)' /\ ~Refunded(r)'
      BY <1>2, <2>1, <2>2 DEF Charged, Refunded
    <2>4. PaymentPhase(r) = "new"
      BY <1>2, <2>3 DEF PaymentPhase, Refused
    <2>5. CASE conn' = conn
      <3>1. PaymentPhase(r)' = PaymentPhase(r)
        BY <1>1, <2>3, <2>5 DEF PaymentPhase
      <3> QED
        BY <1>1, <1>3, <2>1, <3>1, PaymentStutter
    <2>6. CASE conn' = [conn EXCEPT ![r] = Status(c)]
      <3>1. conn'[r] \in {"QUOTA_EXHAUSTED", "KEY_NOT_FOUND"}
        BY <1>0, <1>4, <2>6 DEF TypeOK, Status, ScriptStatus
      <3>2. PaymentPhase(r)' = "refused"
        BY <2>3, <3>1 DEF PaymentPhase
      <3>3. k \notin loaded \/ (k \in Limited /\ ~(available[k] > 0))
        BY <1>0, <1>4, <2>2 DEF Status, ScriptStatus, LimitReached, TypeOK
      <3>4. Payment!Become(r, "refused")
        BY <1>0, <1>3, <3>2, PhaseMoves
      <3>5. Payment!Refuse(r)
        BY <1>0, <1>1, <2>1, <2>4, <3>3, <3>4 DEF Payment!Refuse, Payment!Funded
      <3> QED
        BY <1>0, <3>5 DEF Payment!Next
    <2> QED
      BY <2>5, <2>6, ExecuteEffect
  <1>5. CASE Status(c) = "OK"
    <2>1. c \in ledger' /\ Charge(k, c.amount) /\ ledger' = ledger \cup {c}
      BY <1>5, ExecuteEffect
    <2>2. k \in loaded /\ (k \in Limited => ~(available[k] < c.amount))
      BY <1>5 DEF Status, ScriptStatus, LimitReached
    <2>3. available' = IF k \in Limited
                       THEN [available EXCEPT ![k] = @ - c.amount] ELSE available
      BY <2>1 DEF Charge
    <2>4. CASE c.amount = 1
      <3>1. ~Charged(r) /\ Charged(r)' /\ ~Refunded(r)' /\ pc'[r] # "kept"
        <4>1. pc[r] # "kept"
          BY <1>0 DEF AwaitedOrKilled, Calling
        <4>2. Charged(r)'
          BY <2>1, <2>4 DEF Charged
        <4>3. ~Refunded(r)'
          BY <1>2, <2>1, <2>4 DEF Refunded
        <4> QED
          BY <1>1, <1>2, <2>4, <4>1, <4>2, <4>3
      <3>2. PaymentPhase(r) = "new" /\ PaymentPhase(r)' = "paid"
        BY <1>2, <3>1 DEF PaymentPhase, Refused
      <3>3. Payment!Become(r, "paid")
        BY <1>0, <1>3, <3>2, PhaseMoves
      <3>4. Payment!Move(k, -1)
        BY <1>0, <2>3, <2>4 DEF Payment!Move, TypeOK
      <3>5. k \in Limited => available[k] > 0
        BY <1>0, <2>2, <2>4 DEF TypeOK
      <3>6. Payment!Pay(r)
        BY <1>0, <1>1, <2>2, <3>2, <3>3, <3>4, <3>5 DEF Payment!Pay, Payment!Funded
      <3> QED
        BY <1>0, <3>6 DEF Payment!Next
    <2>5. CASE c.amount = -1
      <3>1. Charged(r) /\ Refunded(r)' /\ pc[r] # "kept"
        <4>1. pc[r] # "kept"
          BY <1>0 DEF AwaitedOrKilled, Calling
        <4> QED
          BY <1>2, <2>1, <2>5, <4>1 DEF Refunded
      <3>2. PaymentPhase(r) = "paid" /\ PaymentPhase(r)' = "returned"
        BY <1>2, <3>1 DEF PaymentPhase
      <3>3. Payment!Become(r, "returned")
        BY <1>0, <1>3, <3>2, PhaseMoves
      <3>4. Payment!Move(k, 1)
        <4>1. available[k] - c.amount = available[k] + 1
          BY <1>0, <2>5 DEF TypeOK
        <4> QED
          BY <1>0, <2>3, <4>1 DEF Payment!Move, TypeOK
      <3>5. Payment!Return(r)
        BY <1>0, <1>1, <3>2, <3>3, <3>4 DEF Payment!Return
      <3> QED
        BY <1>0, <3>5 DEF Payment!Next
    <2> QED
      BY <1>0, <2>4, <2>5
  <1> QED
    BY <1>4, <1>5

(* A step of one handler that leaves Redis and the phases alone. *)
LEMMA PaymentQuiet ==
    ASSUME UNCHANGED redisVars, NEW r \in Requests,
           \A q \in Requests \ {r} : pc'[q] = pc[q] /\ conn'[q] = conn[q],
           Charged(r) => (pc'[r] = "kept" <=> pc[r] = "kept"),
           ~Charged(r) => (Refused(r)' <=> Refused(r))
    PROVE  UNCHANGED Payment!vars
  <1>1. UNCHANGED <<ledger, loaded, available>>
    BY DEF redisVars
  <1>2. ASSUME NEW q \in Requests, q # r PROVE PaymentPhase(q)' = PaymentPhase(q)
    BY <1>1, <1>2, SamePhase DEF Refused
  <1>3. PaymentPhase(r)' = PaymentPhase(r)
    BY <1>1, SamePhase
  <1> QED
    BY <1>1, <1>2, <1>3, PaymentStutter

LEMMA PaymentNextReturns ==
    ASSUME Steady, NEW r \in Requests, NextReturns(r)
    PROVE  [Payment!Next]_Payment!vars
  <1>0. TypeOK /\ pc[r] = "serving" /\ Charged(r) /\ conn[r] = "free"
    BY DEF NextReturns, Steady, Inv, OnceInv, Typed, AllPaidUp, PaidUp, PaidPhases
  <1>1. ~Refunded(r)
    BY <1>0, RefundedIsCharged DEF Steady, Inv, RefundOnlyFailures
  <1>2. /\ UNCHANGED <<redisVars, conn>>
        /\ \A q \in Requests \ {r} : pc'[q] = pc[q] /\ conn'[q] = conn[q]
    BY <1>0 DEF NextReturns, TypeOK
  <1>3. CASE pc'[r] = "kept"
    <2>1. Charged(r)' /\ ~Refunded(r)'
      BY <1>0, <1>1, <1>2 DEF redisVars, Charged, Refunded
    <2>2. PaymentPhase(r) = "paid" /\ PaymentPhase(r)' = "kept"
      BY <1>0, <1>1, <1>3, <2>1 DEF PaymentPhase
    <2>3. ASSUME NEW q \in Requests \ {r} PROVE PaymentPhase(q)' = PaymentPhase(q)
      BY <1>2, <2>3, SamePhase DEF redisVars, Refused
    <2>4. Payment!Become(r, "kept")
      BY <2>2, <2>3, PhaseMoves
    <2>5. Payment!Keep(r)
      BY <1>2, <2>2, <2>4 DEF Payment!Keep, redisVars
    <2> QED
      BY <2>5 DEF Payment!Next
  <1>4. CASE pc'[r] # "kept"
    BY <1>0, <1>2, <1>4, PaymentQuiet
  <1> QED
    BY <1>3, <1>4

LEMMA PaymentStep ==
    ASSUME "network" \notin Faults
    PROVE  Steady /\ [Next]_vars => [Payment!Next]_Payment!vars
  <1> SUFFICES ASSUME Steady, [Next]_vars PROVE [Payment!Next]_Payment!vars
    OBVIOUS
  <1>0. /\ TypeOK
        /\ \A r \in Requests : OneAttempt(r) /\ PaidUp(r)
    BY DEF Steady, Punctual, Inv, OnceInv, Typed, AllPaidUp
  <1>1. ASSUME NEW r \in Requests, Arrive(r) PROVE UNCHANGED Payment!vars
    BY <1>0, <1>1, PaymentQuiet DEF Arrive, Refused, TypeOK
  <1>2. ASSUME NEW r \in Requests, Send(r) PROVE UNCHANGED Payment!vars
    <2>1. conn'[r] = "waiting" /\ conn[r] = "free"
      BY <1>0, <1>2 DEF Send, TypeOK
    <2> QED
      BY <1>0, <1>2, <2>1, PaymentQuiet DEF Send, AfterSend, Refused, TypeOK
  <1>3. ASSUME NEW r \in Requests, Lose(r) PROVE UNCHANGED Payment!vars
    BY <1>3 DEF Lose
  <1>4. ASSUME NEW r \in Requests, CallFails(r) PROVE UNCHANGED Payment!vars
    <2>1. pc'[r] \notin {"kept", "payment_required"} /\ pc[r] \in Calling
      BY <1>0, <1>4 DEF CallFails, AfterError, TypeOK
    <2> QED
      BY <1>0, <1>4, <2>1, PaymentQuiet DEF CallFails, Calling, Refused, TypeOK
  <1>5. ASSUME NEW r \in Requests, CallReturns(r) PROVE UNCHANGED Payment!vars
    <2>1. /\ pc[r] \in Calling /\ conn[r] \in Statuses /\ conn'[r] = "free"
          /\ pc'[r] = AfterReply(pc[r], conn[r])
      BY <1>0, <1>5 DEF CallReturns, TypeOK
    <2>2. pc'[r] # "kept" /\ pc[r] # "kept"
      BY <2>1 DEF AfterReply, Calling
    <2>3. ~Charged(r) => pc[r] = "reserving" /\ conn[r] # "OK"
      BY <1>0, <2>1 DEF PaidUp, PaidPhases, Calling
    <2>4. ~Charged(r) => Refused(r)' /\ Refused(r)
      BY <2>1, <2>3 DEF Refused, AfterReply, Statuses
    <2>5. \A q \in Requests \ {r} : pc'[q] = pc[q] /\ conn'[q] = conn[q]
      BY <1>0, <1>5 DEF CallReturns, TypeOK
    <2>6. UNCHANGED redisVars
      BY <1>5 DEF CallReturns
    <2> QED
      BY <2>2, <2>4, <2>5, <2>6, PaymentQuiet
  <1>6. ASSUME NEW r \in Requests, NextReturns(r) PROVE [Payment!Next]_Payment!vars
    BY <1>6, PaymentNextReturns
  <1>7. ASSUME NEW r \in Requests, Disconnect(r) PROVE UNCHANGED Payment!vars
    BY <1>7, SamePhase, PaymentStutter DEF Disconnect, redisVars, Refused
  <1>8. ASSUME NEW c \in wire, Execute(c) PROVE [Payment!Next]_Payment!vars
    BY <1>8, PaymentExecute
  <1>9. ASSUME NEW c \in wire, Drop(c) PROVE UNCHANGED Payment!vars
    BY <1>9 DEF Drop
  <1>10. ASSUME NEW k \in Keys, WarmUp(k) PROVE Payment!Open(k)
    <2>1. \A r \in Requests : PaymentPhase(r)' = PaymentPhase(r)
      BY <1>10, SamePhase DEF WarmUp, Refused
    <2> QED
      BY <1>10, <2>1 DEF WarmUp, Absent, Payment!Open
  <1>11. ASSUME NEW k \in Keys, NEW b \in Buckets, Expire(k, b)
         PROVE  UNCHANGED Payment!vars
    BY <1>11, SamePhase, PaymentStutter DEF Expire, Refused
  <1>12. CASE Tick
    BY <1>12, SamePhase, PaymentStutter DEF Tick, redisVars, Refused
  <1>13. CASE Crash
    <2>1. UNCHANGED <<redisVars, conn>>
          /\ \A r \in Requests : pc'[r] = IF Active(r) THEN "killed" ELSE pc[r]
      BY <1>0, <1>13 DEF Crash
    <2>2. \A r \in Requests : /\ pc'[r] = "kept" <=> pc[r] = "kept"
                              /\ pc'[r] = "payment_required" <=> pc[r] = "payment_required"
      BY <2>1 DEF Active, Final
    <2> QED
      BY <2>1, <2>2, SamePhase, PaymentStutter DEF redisVars, Refused
  <1>14. CASE UNCHANGED vars
    BY <1>14, SamePhase, PaymentStutter DEF vars, redisVars, Refused
  <1> QED
    BY <1>1, <1>2, <1>3, <1>4, <1>5, <1>6, <1>7, <1>8, <1>9, <1>10, <1>11, <1>12,
       <1>13, <1>14 DEF Next, Step, Payment!Next

(* Where no command is lost, and whatever clients, panics, crashes and the *)
(* name server do, the tollgate implements PayPerSuccess: a request pays   *)
(* at most once, is refused only for lack of quota or of an account, and   *)
(* what it paid is kept for a success or returned, never both.             *)
THEOREM PaymentImplemented ==
    ASSUME "network" \notin Faults
    PROVE  Spec => ImplementsPayment
  <1>1. Spec => []Steady
    BY SpecSteady
  <1>2. Steady /\ [Next]_vars => [Payment!Next]_Payment!vars
    BY PaymentStep
  <1> QED
    BY <1>1, <1>2, PaymentInit, PTL DEF Spec, ImplementsPayment, Payment!Spec
=============================================================================
