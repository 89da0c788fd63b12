----------------------------- MODULE AdminProofs -----------------------------
(***************************************************************************)
(* Proofs about module Admin, for any number of requests, processes and    *)
(* addresses and any faults, however the handlers of a process overlap on  *)
(* its connection.                                                         *)
(***************************************************************************)
EXTENDS Admin, TLAPS

(* The rows a request names. *)
U(r) == <<"user", r>>
K(r) == <<"key", r>>
Q(r) == <<"quota", r>>

LEMMA RowNames ==
    /\ \A r \in Requests : U(r) \in Users /\ K(r) \in Keys /\ Q(r) \in Quotas
    /\ Users \subseteq Rows /\ Keys \subseteq Rows /\ Quotas \subseteq Rows
    /\ \A r \in Requests : U(r) \in Rows /\ K(r) \in Rows /\ Q(r) \in Rows
    /\ \A i \in Users : i[2] \in Requests /\ i = U(i[2])
    /\ \A i \in Keys : i[2] \in Requests /\ i = K(i[2])
    /\ \A i \in Quotas : i[2] \in Requests /\ i = Q(i[2])
    /\ \A i \in Rows : i \in Users \/ i \in Keys \/ i \in Quotas
  BY DEF U, K, Q, Users, Keys, Quotas, Rows

LEMMA RowsDiffer ==
    /\ \A r, q \in Requests : U(r) = U(q) => r = q
    /\ \A r, q \in Requests : K(r) = K(q) => r = q
    /\ \A r, q \in Requests : Q(r) = Q(q) => r = q
    /\ \A r, q : U(r) # K(q) /\ U(r) # Q(q) /\ K(r) # Q(q)
  BY DEF U, K, Q

-----------------------------------------------------------------------------
(* What a request asks and where it stands.                                *)

Values == Emails \cup KeyRow \cup Requests \cup {None}

Typed ==
    /\ db \in [Rows -> Values]
    /\ draft \in [Conns -> [Rows -> Values]]
    /\ tx \in [Conns -> {"idle", "open", "aborted", "closed"}]
    /\ ask \in [Requests -> Ask \cup {None}]
    /\ gone \subseteq Requests
    /\ pc \in [Requests -> {"idle"} \cup Statements \cup Ends]
    /\ work \in [Requests -> {"user", "key", "quota"}]

Arrived(r) == pc[r] # "idle"

WorkFits(r) ==
    \/ work[r] = "user" /\ ask[r].kind \in {"user", "invite"}
    \/ work[r] = "key" /\ ask[r].kind \in {"key", "invite"}
    \/ work[r] = "quota" /\ ask[r].kind = "quota"

(* A handler executes the statements of its kind. *)
InPlace(r) ==
    /\ pc[r] = "list" => ask[r].kind = "list"
    /\ pc[r] = "users" => ask[r].kind = "key" /\ work[r] = "key"
    /\ pc[r] \in {"owner", "services"} => ask[r].kind = "quota" /\ work[r] = "quota"
    /\ pc[r] \in {"check", "user"} => work[r] = "user"
    /\ pc[r] \in {"key", "assign"} => work[r] = "key"
    /\ pc[r] \in {"service", "quota"} => work[r] = "quota"
    /\ pc[r] \in InTx \cup {"begin", "commit", "rollback"} => WorkFits(r)
    /\ pc[r] \in {"allow", "keys"} => ask[r].kind = "mail" /\ ask[r].key = None
    /\ pc[r] = "fetch" => ask[r].kind = "invite"

WellAsked(r) ==
    /\ ask[r] \in Ask
    /\ ask[r].email \in Emails <=> ask[r].kind \in {"user", "invite", "mail"}
    /\ ask[r].conn = StaffConn <=> ask[r].kind = "mail"
    /\ ask[r].kind \in {"key", "quota"} => ask[r].user \in Requests
    /\ ask[r].kind = "quota" => ask[r].key \in Requests

Asked ==
    /\ \A r \in Requests : Arrived(r) => WellAsked(r) /\ InPlace(r)
    /\ \A r \in Requests : ~Arrived(r) => ask[r] = None

(* What a handler does to what it asks and to where it stands.  Only the   *)
(* staff service notes the user and the key it finds.                      *)
Moves(r, p) ==
    /\ pc' = [pc EXCEPT ![r] = p]
    /\ ask' = ask /\ work' = work

LEMMA ArrivedMoves ==
    ASSUME Typed, Asked, NEW r \in Requests, NEW p \in Statements \cup Ends, Moves(r, p),
           pc[r] \in Statements, Arrived(r) => InPlace(r)'
    PROVE  Asked'
  <1>1. pc'[r] = p /\ \A q \in Requests \ {r} : pc'[q] = pc[q]
    BY DEF Typed, Moves
  <1>2. p # "idle"
    BY DEF Statements, Ends
  <1>3. Arrived(r) /\ Arrived(r)'
    BY <1>1, <1>2 DEF Arrived, Statements
  <1>4. ASSUME NEW q \in Requests, q # r, Arrived(q)' PROVE (WellAsked(q) /\ InPlace(q))'
    <2>1. pc'[q] = pc[q] /\ Arrived(q)
      BY <1>1, <1>4 DEF Arrived
    <2> QED
      BY <2>1 DEF Asked, WellAsked, InPlace, WorkFits, Moves
  <1>5. WellAsked(r)'
    BY <1>3 DEF Asked, WellAsked, Moves
  <1>6. \A q \in Requests : ~Arrived(q)' => ask'[q] = None
    BY <1>1, <1>3 DEF Asked, Arrived, Moves
  <1> QED
    BY <1>3, <1>4, <1>5, <1>6 DEF Asked


(* Every action of a handler that is just Moves: the statement that comes *)
(* next is one of the handler's kind.                                      *)
LEMMA StepsInPlace ==
    ASSUME Typed, Asked, NEW r \in Requests,
           \/ List(r) \/ FindUser(r) \/ FindKey(r) \/ FindService(r)
           \/ Begin(r) \/ CheckUser(r) \/ InsertUser(r) \/ InsertKey(r) \/ AssignKey(r)
           \/ GetService(r) \/ InitializeQuota(r) \/ Fetch(r) \/ Rollback(r)
           \/ StatementFails(r) \/ CutOff(r)
    PROVE  Asked' /\ \E p \in Statements \cup Ends : Moves(r, p)
  <1>1. /\ pc[r] \in Statements => Arrived(r) /\ WellAsked(r) /\ InPlace(r)
        /\ \A p : pc' = [pc EXCEPT ![r] = p] => pc'[r] = p
    BY DEF Asked, Arrived, Statements, Typed
  <1> DEFINE Goes(p) == /\ pc[r] \in Statements /\ p \in Statements \cup Ends /\ Moves(r, p)
                        /\ (Arrived(r) => InPlace(r)')
  <1> SUFFICES \E p : Goes(p)
    BY ArrivedMoves
  <1> USE <1>1 DEF Executes, Runs, Goto, Statements, Ends, Moves
  <1>2. CASE List(r)
    <2>1. ASSUME NEW p \in {"list", "answered"}, Goto(r, p) PROVE Goes(p)
      BY <1>2, <2>1 DEF List, InPlace, InTx
    <2> QED
      BY <1>2, <2>1 DEF List
  <1>3. CASE FindUser(r)
    <2>1. ASSUME NEW p \in {"begin", "failed"}, Goto(r, p) PROVE Goes(p)
      BY <1>3, <2>1 DEF FindUser, InPlace, InTx, WorkFits
    <2> QED
      BY <1>3, <2>1 DEF FindUser
  <1>4. CASE FindKey(r)
    <2>1. ASSUME NEW p \in {"services", "failed"}, Goto(r, p) PROVE Goes(p)
      BY <1>4, <2>1 DEF FindKey, InPlace, InTx
    <2> QED
      BY <1>4, <2>1 DEF FindKey
  <1>5. CASE FindService(r)
    <2>1. ASSUME NEW p \in {"begin", "failed"}, Goto(r, p) PROVE Goes(p)
      BY <1>5, <2>1 DEF FindService, InPlace, InTx, WorkFits
    <2> QED
      BY <1>5, <2>1 DEF FindService
  <1>6. CASE Begin(r)
    <2>1. ASSUME NEW p \in {"check", "key", "service"}, Goto(r, p), p = First[work[r]] PROVE Goes(p)
      BY <1>6, <2>1 DEF Begin, InPlace, InTx, WorkFits, First
    <2>2. First[work[r]] \in {"check", "key", "service"}
      <3>1. work[r] \in {"user", "key", "quota"}
        BY DEF Typed
      <3> QED
        BY <3>1 DEF First
    <2>3. Goto(r, First[work[r]])
      BY <1>6 DEF Begin
    <2> QED
      BY <2>1, <2>2, <2>3
  <1>7. CASE CheckUser(r)
    <2>1. ASSUME NEW p \in {"rollback", "user"}, Goto(r, p) PROVE Goes(p)
      BY <1>7, <2>1 DEF CheckUser, InPlace, InTx, WorkFits
    <2> QED
      BY <1>7, <2>1 DEF CheckUser
  <1>8. CASE InsertUser(r)
    <2>1. ASSUME NEW p \in {"rollback", "commit"}, Goto(r, p) PROVE Goes(p)
      BY <1>8, <2>1 DEF InsertUser, InPlace, InTx, WorkFits
    <2> QED
      BY <1>8, <2>1 DEF InsertUser
  <1>9. CASE InsertKey(r)
    <2>1. ASSUME NEW p \in {"rollback", "assign"}, Goto(r, p) PROVE Goes(p)
      BY <1>9, <2>1 DEF InsertKey, InPlace, InTx, WorkFits
    <2> QED
      BY <1>9, <2>1 DEF InsertKey
  <1>10. CASE AssignKey(r)
    <2>1. ASSUME NEW p \in {"rollback", "commit"}, Goto(r, p) PROVE Goes(p)
      BY <1>10, <2>1 DEF AssignKey, InPlace, InTx, WorkFits
    <2> QED
      BY <1>10, <2>1 DEF AssignKey
  <1>11. CASE GetService(r)
    <2>1. Goes("quota")
      BY <1>11 DEF GetService, InPlace, InTx, WorkFits
    <2> QED
      BY <2>1
  <1>12. CASE InitializeQuota(r)
    <2>1. ASSUME NEW p \in {"rollback", "commit"}, Goto(r, p) PROVE Goes(p)
      BY <1>12, <2>1 DEF InitializeQuota, InPlace, InTx, WorkFits
    <2> QED
      BY <1>12, <2>1 DEF InitializeQuota
  <1>13. CASE Fetch(r)
    <2>1. ASSUME NEW p \in Ends, Goto(r, p) PROVE Goes(p)
      BY <1>13, <2>1 DEF Fetch, InPlace, InTx
    <2> QED
      BY <1>13, <2>1 DEF Fetch
  <1>14. CASE Rollback(r)
    <2>1. Goes("failed")
      BY <1>14 DEF Rollback, InPlace, InTx
    <2> QED
      BY <2>1
  <1>15. ASSUME pc[r] \in Statements, Goto(r, AfterError(pc[r])), UNCHANGED <<ask, work>>
         PROVE  Goes(AfterError(pc[r]))
    <2>1. CASE pc[r] = "check"
      BY <1>15, <2>1 DEF AfterError, InPlace, InTx, WorkFits
    <2>2. CASE pc[r] \in InTx \ {"check"}
      BY <1>15, <2>2 DEF AfterError, InPlace, InTx, WorkFits
    <2>3. CASE pc[r] \notin InTx
      BY <1>15, <2>3 DEF AfterError, InPlace, InTx
    <2> QED
      BY <2>1, <2>2, <2>3
  <1>16. CASE StatementFails(r)
    BY <1>15, <1>16 DEF StatementFails
  <1>17. CASE CutOff(r)
    BY <1>15, <1>17 DEF CutOff
  <1> QED
    BY <1>2, <1>3, <1>4, <1>5, <1>6, <1>7, <1>8, <1>9, <1>10, <1>11,
       <1>12, <1>13, <1>14, <1>16, <1>17

-----------------------------------------------------------------------------
(* What the rows say, wherever they are written.                           *)

Holds(i, v) == v # None /\ (db[i] = v \/ \E c \in Conns : draft[c][i] = v)

(* A key k of user u was asked for; ... *)
KeyMade(k, u) ==
    /\ k \in Requests /\ Arrived(k)
    /\ ask[k].kind \in {"key", "invite"}
    /\ KeyUser(k) = u

UserFits(r, v) == Arrived(r) /\ ask[r].kind \in {"user", "invite"} /\ v = ask[r].email
KeyFits(k, v) == v \in KeyRow /\ KeyMade(k, v.user)
QuotaFits(k, q) ==
    /\ q \in Requests /\ Arrived(q)
    /\ ask[q].kind = "quota" /\ ask[q].key = k
    /\ KeyMade(k, ask[q].user)

(* ... each row is what the request that wrote it asked for, ... *)
RowsFit ==
    \A r \in Requests, v \in Values :
        /\ Holds(U(r), v) => UserFits(r, v)
        /\ Holds(K(r), v) => KeyFits(r, v)
        /\ Holds(Q(r), v) => QuotaFits(r, v)

(* ... no two users have an address, ... *)
OneUserEach ==
    \A r, q \in Requests, v \in Values : Holds(U(r), v) /\ Holds(U(q), v) => r = q

(* ... a quota stands where its key does, ... *)
KeysHeld ==
    \A k \in Requests :
        /\ db[Q(k)] # None => db[K(k)] # None
        /\ \A c \in Conns : draft[c][Q(k)] # None => draft[c][K(k)] # None \/ db[K(k)] # None

(* ... and only an open transaction has rows. *)
Drafted == \A c \in Conns : tx[c] # "open" => draft[c] = Blank

Stored == RowsFit /\ OneUserEach /\ KeysHeld /\ Drafted

(* What a handler of connection c does to the store: at most begin, ... *)
LooksOnly(c) == UNCHANGED <<db, draft>> /\ tx' \in {tx, [tx EXCEPT ![c] = "open"]}

(* ... end the transaction in whatever way, ... *)
EndsTx(c) ==
    /\ draft' = [draft EXCEPT ![c] = Blank]
    /\ db' \in {db, View(c)}
    /\ \E s \in {"idle", "open", "aborted", "closed"} : tx' = [tx EXCEPT ![c] = s]

(* ... or write a row that is due: a user no one has the address of, a     *)
(* key, or a quota of a key that is there.                                 *)
Due(c, row, v) ==
    \E r \in Requests :
        \/ row = U(r) /\ UserFits(r, v) /\ \A q \in Requests : ~Holds(U(q), v)
        \/ row = K(r) /\ KeyFits(r, v)
        \/ row = Q(r) /\ QuotaFits(r, v) /\ View(c)[K(r)] # None

Writes(c, row, v) == row \in Rows /\ v \in Values \ {None} /\ Write(c, row, v) /\ tx' = tx

Touches(c) ==
    \/ LooksOnly(c)
    \/ EndsTx(c)
    \/ \E row, v : Writes(c, row, v) /\ Due(c, row, v)

StoreTyped ==
    /\ db \in [Rows -> Values]
    /\ draft \in [Conns -> [Rows -> Values]]
    /\ tx \in [Conns -> {"idle", "open", "aborted", "closed"}]

LEMMA ViewRow ==
    ASSUME NEW c \in Conns, NEW i \in Rows
    PROVE  /\ View(c)[i] = IF draft[c][i] # None THEN draft[c][i] ELSE db[i]
           /\ View(c)[i] # None <=> draft[c][i] # None \/ db[i] # None
           /\ View(c)[i] # None => Holds(i, View(c)[i])
  BY DEF View, Over, Holds

LEMMA BlankRow == \A i \in Rows : Blank[i] = None
  BY DEF Blank

LEMMA StoreTypedStep ==
    ASSUME StoreTyped, NEW c \in Conns, Touches(c)
    PROVE  StoreTyped'
  <1>1. Blank \in [Rows -> Values]
    BY DEF Blank, Values
  <1>2. View(c) \in [Rows -> Values]
    BY DEF View, Over, StoreTyped
  <1>3. CASE LooksOnly(c)
    BY <1>3 DEF LooksOnly, StoreTyped
  <1>4. CASE EndsTx(c)
    BY <1>1, <1>2, <1>4 DEF EndsTx, StoreTyped
  <1>5. ASSUME NEW row, NEW v, Writes(c, row, v) PROVE StoreTyped'
    BY <1>5 DEF Writes, Write, StoreTyped
  <1> QED
    BY <1>3, <1>4, <1>5 DEF Touches

(* The rows after a step: those before it and the one it writes. *)
LEMMA EndsTxRows ==
    ASSUME StoreTyped, NEW c \in Conns, EndsTx(c)
    PROVE  /\ \A d \in Conns, i \in Rows : draft'[d][i] = IF d = c THEN None ELSE draft[d][i]
           /\ \/ \A i \in Rows : db'[i] = db[i]
              \/ \A i \in Rows : db'[i] = View(c)[i]
           /\ \A i \in Rows, v \in Values : Holds(i, v)' => Holds(i, v)
  <1>1. \A d \in Conns, i \in Rows : draft'[d][i] = IF d = c THEN None ELSE draft[d][i]
    BY BlankRow DEF EndsTx, StoreTyped
  <1>2. \/ \A i \in Rows : db'[i] = db[i]
        \/ \A i \in Rows : db'[i] = View(c)[i]
    BY DEF EndsTx
  <1>3. ASSUME NEW i \in Rows, NEW v \in Values, Holds(i, v)' PROVE Holds(i, v)
    <2>1. v # None /\ (db'[i] = v \/ \E d \in Conns : draft'[d][i] = v)
      BY <1>3 DEF Holds
    <2> QED
      BY <1>1, <1>2, <2>1, ViewRow DEF Holds
  <1> QED
    BY <1>1, <1>2, <1>3

LEMMA WritesRows ==
    ASSUME StoreTyped, Drafted, NEW c \in Conns, NEW row, NEW v, Writes(c, row, v)
    PROVE  /\ \/ /\ db' = db
                 /\ \A d \in Conns, i \in Rows :
                       draft'[d][i] = IF d = c /\ i = row THEN v ELSE draft[d][i]
              \/ /\ draft' = draft /\ draft[c] = Blank
                 /\ \A i \in Rows : db'[i] = IF i = row THEN v ELSE db[i]
           /\ \A i \in Rows, w \in Values : Holds(i, w)' => Holds(i, w) \/ (i = row /\ w = v)
  <1>1. CASE tx[c] = "open"
    <2>1. draft' = [draft EXCEPT ![c][row] = v] /\ db' = db /\ row \in Rows
      BY <1>1 DEF Writes, Write
    <2>2. \A d \in Conns : draft'[d] = IF d = c THEN [draft[c] EXCEPT ![row] = v] ELSE draft[d]
      BY <2>1 DEF StoreTyped
    <2>3. draft[c] \in [Rows -> Values]
      BY DEF StoreTyped
    <2>4. \A d \in Conns, i \in Rows :
             draft'[d][i] = IF d = c /\ i = row THEN v ELSE draft[d][i]
      BY <2>1, <2>2, <2>3
    <2> QED
      BY <2>1, <2>4 DEF Holds
  <1>2. CASE tx[c] # "open"
    <2>1. db' = [db EXCEPT ![row] = v] /\ draft' = draft /\ draft[c] = Blank
      BY <1>2 DEF Writes, Write, Drafted
    <2>2. \A i \in Rows : db'[i] = IF i = row THEN v ELSE db[i]
      BY <2>1 DEF StoreTyped
    <2> QED
      BY <2>1, <2>2 DEF Holds
  <1> QED
    BY <1>1, <1>2

LEMMA LooksOnlyRows ==
    ASSUME NEW c \in Conns, LooksOnly(c)
    PROVE  \A i \in Rows, v \in Values : Holds(i, v)' => Holds(i, v)
  BY DEF LooksOnly, Holds

(* What the rows say stays true: a request keeps what it asked, all but    *)
(* one that the staff service answers.                                     *)
Kept ==
    \A r \in Requests : Arrived(r) =>
        /\ Arrived(r)'
        /\ ask'[r] = ask[r] \/ (ask[r].kind = "mail" /\ ask'[r].kind = "mail")

LEMMA FitsKept ==
    ASSUME Kept
    PROVE  /\ \A k, u : KeyMade(k, u) => KeyMade(k, u)'
           /\ \A r \in Requests : \A v : UserFits(r, v) => UserFits(r, v)'
           /\ \A k, v : KeyFits(k, v) => KeyFits(k, v)'
           /\ \A k, q : QuotaFits(k, q) => QuotaFits(k, q)'
  <1>1. ASSUME NEW k, NEW u, KeyMade(k, u) PROVE KeyMade(k, u)'
    <2>1. k \in Requests /\ Arrived(k) /\ ask[k].kind \in {"key", "invite"}
      BY <1>1 DEF KeyMade
    <2>2. ask'[k] = ask[k] /\ Arrived(k)'
      BY <2>1 DEF Kept
    <2> QED
      BY <1>1, <2>2 DEF KeyMade, KeyUser
  <1>2. ASSUME NEW r \in Requests, NEW v, UserFits(r, v) PROVE UserFits(r, v)'
    BY <1>2 DEF Kept, UserFits
  <1>3. ASSUME NEW k, NEW v, KeyFits(k, v) PROVE KeyFits(k, v)'
    BY <1>1, <1>3 DEF KeyFits
  <1>4. ASSUME NEW k, NEW q, QuotaFits(k, q) PROVE QuotaFits(k, q)'
    <2>1. q \in Requests /\ Arrived(q) /\ ask[q].kind = "quota"
      BY <1>4 DEF QuotaFits
    <2>2. ask'[q] = ask[q] /\ Arrived(q)'
      BY <2>1 DEF Kept
    <2>3. KeyMade(k, ask[q].user)'
      BY <1>1, <1>4, <2>2 DEF QuotaFits
    <2> QED
      BY <1>4, <2>2, <2>3 DEF QuotaFits
  <1> QED
    BY <1>1, <1>2, <1>3, <1>4

LEMMA StoredStep ==
    ASSUME StoreTyped, Stored, Kept, NEW c \in Conns, Touches(c)
    PROVE  Stored'
  <1>1. CASE LooksOnly(c) \/ EndsTx(c)
    <2>1. \A i \in Rows, v \in Values : Holds(i, v)' => Holds(i, v)
      BY <1>1, EndsTxRows, LooksOnlyRows
    <2>2. RowsFit'
      <3>1. SUFFICES ASSUME NEW r \in Requests, NEW v \in Values
                     PROVE  /\ Holds(U(r), v)' => UserFits(r, v)'
                            /\ Holds(K(r), v)' => KeyFits(r, v)'
                            /\ Holds(Q(r), v)' => QuotaFits(r, v)'
        BY Zenon DEF RowsFit, U, K, Q
      <3>2. /\ Holds(U(r), v) => UserFits(r, v)
            /\ Holds(K(r), v) => KeyFits(r, v)
            /\ Holds(Q(r), v) => QuotaFits(r, v)
        BY DEF Stored, RowsFit
      <3> QED
        BY <2>1, <3>2, FitsKept, RowNames
    <2>3. OneUserEach'
      <3>1. \A r, q \in Requests, v \in Values : Holds(U(r), v)' /\ Holds(U(q), v)' => r = q
        BY <2>1, RowNames DEF Stored, OneUserEach
      <3> QED
        BY <3>1, Zenon DEF OneUserEach, U
    <2>4. KeysHeld'
      <3>1. ASSUME NEW k \in Requests
            PROVE  /\ db'[Q(k)] # None => db'[K(k)] # None
                   /\ \A d \in Conns : draft'[d][Q(k)] # None =>
                                           draft'[d][K(k)] # None \/ db'[K(k)] # None
        <4>1. K(k) \in Rows /\ Q(k) \in Rows
          BY RowNames
        <4>2. /\ db[Q(k)] # None => db[K(k)] # None
              /\ \A d \in Conns : draft[d][Q(k)] # None => draft[d][K(k)] # None \/ db[K(k)] # None
          BY DEF Stored, KeysHeld
        <4>3. CASE LooksOnly(c)
          BY <4>2, <4>3 DEF LooksOnly
        <4>4. CASE EndsTx(c)
          <5>1. \A d \in Conns, i \in Rows : draft'[d][i] = IF d = c THEN None ELSE draft[d][i]
            BY <4>4, EndsTxRows
          <5>2. CASE \A i \in Rows : db'[i] = db[i]
            BY <4>1, <4>2, <5>1, <5>2
          <5>3. CASE \A i \in Rows : db'[i] = View(c)[i]
            <6>1. /\ db'[K(k)] # None <=> draft[c][K(k)] # None \/ db[K(k)] # None
                  /\ db'[Q(k)] # None <=> draft[c][Q(k)] # None \/ db[Q(k)] # None
              BY <4>1, <5>3, ViewRow
            <6> QED
              BY <4>1, <4>2, <5>1, <6>1
          <5> QED
            BY <4>4, <5>2, <5>3, EndsTxRows
        <4> QED
          BY <1>1, <4>3, <4>4
      <3> QED
        BY <3>1 DEF KeysHeld, K, Q
    <2>5. Drafted'
      <3>1. CASE LooksOnly(c)
        BY <3>1 DEF Stored, Drafted, LooksOnly, StoreTyped
      <3>2. CASE EndsTx(c)
        BY <3>2 DEF Stored, Drafted, EndsTx, StoreTyped
      <3> QED
        BY <1>1, <3>1, <3>2
    <2> QED
      BY <2>2, <2>3, <2>4, <2>5 DEF Stored
  <1>2. ASSUME NEW row, NEW v, Writes(c, row, v), Due(c, row, v) PROVE Stored'
    <2> DEFINE InDraft == /\ db' = db
                          /\ \A d \in Conns, i \in Rows :
                                draft'[d][i] = IF d = c /\ i = row THEN v ELSE draft[d][i]
               InDb == /\ draft' = draft /\ draft[c] = Blank
                       /\ \A i \in Rows : db'[i] = IF i = row THEN v ELSE db[i]
    <2>1. /\ InDraft \/ InDb
          /\ \A i \in Rows, w \in Values : Holds(i, w)' => Holds(i, w) \/ (i = row /\ w = v)
      BY <1>2, WritesRows DEF Stored
    <2>2. RowsFit'
      <3>1. SUFFICES ASSUME NEW r \in Requests, NEW w \in Values
                     PROVE  /\ Holds(U(r), w)' => UserFits(r, w)'
                            /\ Holds(K(r), w)' => KeyFits(r, w)'
                            /\ Holds(Q(r), w)' => QuotaFits(r, w)'
        BY Zenon DEF RowsFit, U, K, Q
      <3>2. /\ Holds(U(r), w) => UserFits(r, w)
            /\ Holds(K(r), w) => KeyFits(r, w)
            /\ Holds(Q(r), w) => QuotaFits(r, w)
        BY DEF Stored, RowsFit
      <3>3. /\ U(r) = row => UserFits(r, v)
            /\ K(r) = row => KeyFits(r, v)
            /\ Q(r) = row => QuotaFits(r, v)
        BY <1>2, RowsDiffer DEF Due
      <3> QED
        BY <2>1, <3>2, <3>3, FitsKept, RowNames
    <2>3. OneUserEach'
      <3>1. ASSUME NEW r \in Requests, NEW q \in Requests, NEW w \in Values,
                   Holds(U(r), w)', Holds(U(q), w)'
            PROVE  r = q
        <4>1. /\ Holds(U(r), w) \/ (U(r) = row /\ w = v)
              /\ Holds(U(q), w) \/ (U(q) = row /\ w = v)
          <5>1. \A s \in Requests : Holds(U(s), w)' => Holds(U(s), w) \/ (U(s) = row /\ w = v)
            BY <2>1, RowNames
          <5> QED
            BY <3>1, <5>1
        <4>2. ASSUME NEW s \in Requests, U(s) = row PROVE \A p \in Requests : ~Holds(U(p), v)
          BY <1>2, <4>2, RowsDiffer DEF Due
        <4> QED
          BY <4>1, <4>2, RowsDiffer DEF Stored, OneUserEach
      <3> QED
        BY <3>1, Zenon DEF OneUserEach, U
    <2>4. KeysHeld'
      <3>1. ASSUME NEW k \in Requests
            PROVE  /\ db'[Q(k)] # None => db'[K(k)] # None
                   /\ \A d \in Conns : draft'[d][Q(k)] # None =>
                                           draft'[d][K(k)] # None \/ db'[K(k)] # None
        <4>1. K(k) \in Rows /\ Q(k) \in Rows /\ v # None
          BY <1>2, RowNames DEF Writes
        <4>2. /\ db[Q(k)] # None => db[K(k)] # None
              /\ \A d \in Conns : draft[d][Q(k)] # None => draft[d][K(k)] # None \/ db[K(k)] # None
          BY DEF Stored, KeysHeld
        <4>3. Q(k) = row => draft[c][K(k)] # None \/ db[K(k)] # None
          BY <1>2, <4>1, RowsDiffer, ViewRow DEF Due
        <4>4. CASE InDraft
          BY <4>1, <4>2, <4>3, <4>4
        <4>5. CASE InDb
          <5>1. draft[c][K(k)] = None
            BY <4>1, <4>5, BlankRow
          <5> QED
            BY <4>1, <4>2, <4>3, <4>5, <5>1
        <4> QED
          BY <2>1, <4>4, <4>5
      <3> QED
        BY <3>1 DEF KeysHeld, K, Q
    <2>5. Drafted'
      <3>1. tx' = tx /\ \A d \in Conns : tx[d] # "open" => draft'[d] = draft[d]
        BY <1>2 DEF Writes, Write, StoreTyped
      <3> QED
        BY <3>1 DEF Stored, Drafted
    <2> QED
      BY <2>2, <2>3, <2>4, <2>5 DEF Stored
  <1> QED
    BY <1>1, <1>2 DEF Touches

-----------------------------------------------------------------------------
(* The actions of the handlers.                                            *)

(* The user a quota is opened for has the key. *)
Opening == {"services", "begin", "service", "quota"}
Owned ==
    \A r \in Requests : ask[r].kind = "quota" /\ pc[r] \in Opening =>
        \A k, u : k = ask[r].key /\ u = ask[r].user => KeyMade(k, u)

Inv == Typed /\ Asked /\ Stored /\ Owned

LEMMA AtStatement ==
    ASSUME Typed, Asked, NEW r \in Requests, pc[r] \in Statements
    PROVE  Arrived(r) /\ WellAsked(r) /\ InPlace(r) /\ Conn(r) \in Conns
  <1>1. Arrived(r)
    BY DEF Arrived, Statements
  <1>2. WellAsked(r) /\ InPlace(r)
    BY <1>1 DEF Asked
  <1> QED
    BY <1>1, <1>2 DEF WellAsked, Conn, Ask

LEMMA NoneIsNoValue ==
    /\ \A e \in Emails : e \in Values \ {None}
    /\ \A r \in Requests : r \in Values \ {None}
    /\ \A k \in KeyRow : k \in Values \ {None}
  BY NoneAssumption DEF Values

LEMMA Looks ==
    ASSUME Typed, Asked, NEW r \in Requests,
           \/ List(r) \/ FindUser(r) \/ FindKey(r) \/ FindService(r) \/ Begin(r)
           \/ CheckUser(r) \/ GetService(r) \/ Fetch(r) \/ SendInstructionHandler(r)
    PROVE  LooksOnly(Conn(r)) /\ Conn(r) \in Conns /\ gone' = gone
  <1>1. pc[r] \in Statements
    BY DEF List, FindUser, FindKey, FindService, Begin, CheckUser, GetService, Fetch,
           SendInstructionHandler, AllowList, IdToKey, Executes, Runs, Statements
  <1> QED
    BY <1>1, AtStatement
    DEF List, FindUser, FindKey, FindService, Begin, CheckUser, GetService, Fetch,
        SendInstructionHandler, AllowList, IdToKey, LooksOnly

LEMMA InsertUserTouches ==
    ASSUME Inv, NEW r \in Requests, InsertUser(r)
    PROVE  Touches(Conn(r)) /\ Conn(r) \in Conns /\ gone' = gone
  <1>1. pc[r] = "user" /\ pc[r] \in Statements
    BY DEF InsertUser, Executes, Runs, Statements
  <1>2. Arrived(r) /\ WellAsked(r) /\ InPlace(r) /\ Conn(r) \in Conns
    BY <1>1, AtStatement DEF Inv
  <1> DEFINE c == Conn(r)
             e == ask[r].email
  <1>3. tx' = tx /\ gone' = gone
    BY DEF InsertUser
  <1>4. CASE Taken(c, e)
    BY <1>2, <1>3, <1>4 DEF InsertUser, Touches, LooksOnly
  <1>5. CASE ~Taken(c, e)
    <2>1. Write(c, U(r), e) /\ ~EmailLocked(c, e)
      BY <1>5 DEF InsertUser, U
    <2>2. ask[r].kind \in {"user", "invite"} /\ e \in Emails
      BY <1>1, <1>2 DEF InPlace, InTx, WorkFits, WellAsked
    <2>3. Writes(c, U(r), e)
      BY <1>3, <2>1, <2>2, RowNames, NoneIsNoValue DEF Writes
    <2>4. ASSUME NEW q \in Requests, Holds(U(q), e) PROVE FALSE
      <3>1. U(q) \in Users /\ U(q) \in Rows
        BY RowNames
      <3>2. View(c)[U(q)] # e
        BY <1>5, <3>1 DEF Taken, GetUserByEmail
      <3>3. \A d \in Conns \ {c} : draft[d][U(q)] # e
        BY <2>1, <3>1 DEF EmailLocked
      <3>4. e # None /\ (db[U(q)] = e \/ draft[c][U(q)] = e)
        BY <2>4, <3>3 DEF Holds
      <3>5. draft[c][U(q)] # None /\ draft[c][U(q)] # e
        BY <1>2, <3>1, <3>2, <3>4, ViewRow
      <3>6. draft[c][U(q)] \in Values /\ Holds(U(q), draft[c][U(q)])
        BY <1>2, <3>1, <3>5 DEF Inv, Typed, Holds
      <3>7. e = ask[q].email /\ draft[c][U(q)] = ask[q].email
        <4>1. e \in Values
          BY <2>2, NoneIsNoValue
        <4> QED
          BY <2>4, <3>6, <4>1 DEF Inv, Stored, RowsFit, UserFits
      <3> QED
        BY <3>5, <3>7
    <2>5. Due(c, U(r), e)
      BY <1>2, <2>2, <2>4 DEF Due, UserFits
    <2> QED
      BY <1>2, <1>3, <2>3, <2>5 DEF Touches
  <1> QED
    BY <1>4, <1>5

LEMMA InsertKeyTouches ==
    ASSUME Inv, NEW r \in Requests, InsertKey(r)
    PROVE  Touches(Conn(r)) /\ Conn(r) \in Conns /\ gone' = gone
  <1>1. pc[r] = "key" /\ pc[r] \in Statements
    BY DEF InsertKey, Executes, Runs, Statements
  <1>2. Arrived(r) /\ WellAsked(r) /\ InPlace(r) /\ Conn(r) \in Conns
    BY <1>1, AtStatement DEF Inv
  <1> DEFINE c == Conn(r)
             v == [user |-> KeyUser(r), status |-> "unassigned"]
  <1>3. gone' = gone
    BY DEF InsertKey
  <1>4. ask[r].kind \in {"key", "invite"} /\ KeyUser(r) \in Requests
    BY <1>1, <1>2 DEF InPlace, InTx, WorkFits, WellAsked, KeyUser
  <1>5. CASE View(c)[<<"user", KeyUser(r)>>] # None
    <2>1. Write(c, K(r), v) /\ tx' = tx
      BY <1>5 DEF InsertKey, CreateUserAPIKey, K
    <2>2. v \in KeyRow
      BY <1>4 DEF KeyRow
    <2>3. Writes(c, K(r), v)
      BY <2>1, <2>2, RowNames, NoneIsNoValue DEF Writes
    <2>4. Due(c, K(r), v)
      BY <1>2, <1>4, <2>2 DEF Due, KeyFits, KeyMade
    <2> QED
      BY <1>2, <1>3, <2>3, <2>4 DEF Touches
  <1>6. CASE ~(View(c)[<<"user", KeyUser(r)>>] # None)
    <2>1. /\ tx' = [tx EXCEPT ![c] = IF tx[c] = "open" THEN "aborted" ELSE tx[c]]
          /\ draft' = [draft EXCEPT ![c] = Blank] /\ db' = db
      BY <1>6 DEF InsertKey
    <2>2. tx[c] \in {"idle", "open", "aborted", "closed"}
      BY <1>2 DEF Inv, Typed
    <2> QED
      BY <1>2, <1>3, <2>1, <2>2 DEF Touches, EndsTx
  <1> QED
    BY <1>5, <1>6

LEMMA AssignKeyTouches ==
    ASSUME Inv, NEW r \in Requests, AssignKey(r)
    PROVE  Touches(Conn(r)) /\ Conn(r) \in Conns /\ gone' = gone
  <1>1. pc[r] = "assign" /\ pc[r] \in Statements
    BY DEF AssignKey, Executes, Runs, Statements
  <1>2. Arrived(r) /\ WellAsked(r) /\ InPlace(r) /\ Conn(r) \in Conns
    BY <1>1, AtStatement DEF Inv
  <1> DEFINE c == Conn(r)
             w == View(c)[K(r)]
             v == [w EXCEPT !.status = "assigned"]
  <1>3. tx' = tx /\ gone' = gone
    BY DEF AssignKey
  <1>4. CASE w # None
    <2>1. Write(c, K(r), v)
      BY <1>4 DEF AssignKey, UpdateAPIKeyStatus, K
    <2>2. Holds(K(r), w) /\ w \in Values
      BY <1>2, <1>4, RowNames, ViewRow DEF Inv, Typed
    <2>3. KeyFits(r, w)
      BY <2>2 DEF Inv, Stored, RowsFit
    <2>4. v \in KeyRow /\ v.user = w.user
      BY <2>3 DEF KeyFits, KeyRow
    <2>5. Writes(c, K(r), v)
      BY <1>3, <2>1, <2>4, RowNames, NoneIsNoValue DEF Writes
    <2>6. Due(c, K(r), v)
      BY <2>3, <2>4 DEF Due, KeyFits
    <2> QED
      BY <1>2, <1>3, <2>5, <2>6 DEF Touches
  <1>5. CASE w = None
    BY <1>2, <1>3, <1>5 DEF AssignKey, Touches, LooksOnly, K
  <1> QED
    BY <1>4, <1>5

LEMMA InitializeQuotaTouches ==
    ASSUME Inv, NEW r \in Requests, InitializeQuota(r)
    PROVE  Touches(Conn(r)) /\ Conn(r) \in Conns /\ gone' = gone
  <1>1. pc[r] = "quota" /\ pc[r] \in Statements
    BY DEF InitializeQuota, Executes, Runs, Statements
  <1>2. Arrived(r) /\ WellAsked(r) /\ InPlace(r) /\ Conn(r) \in Conns
    BY <1>1, AtStatement DEF Inv
  <1> DEFINE c == Conn(r)
             k == ask[r].key
  <1>3. gone' = gone
    BY DEF InitializeQuota
  <1>4. ask[r].kind = "quota" /\ k \in Requests
    BY <1>1, <1>2 DEF InPlace, InTx, WorkFits, WellAsked
  <1>5. CASE View(c)[K(k)] # None
    <2>1. Write(c, Q(k), r) /\ tx' = tx
      BY <1>5 DEF InitializeQuota, InitializeKeyServiceQuota, K, Q
    <2>2. Writes(c, Q(k), r)
      BY <1>4, <2>1, RowNames, NoneIsNoValue DEF Writes
    <2>3. QuotaFits(k, r)
      BY <1>1, <1>2, <1>4 DEF QuotaFits, Inv, Owned, Opening
    <2>4. Due(c, Q(k), r)
      BY <1>4, <1>5, <2>3 DEF Due
    <2> QED
      BY <1>2, <1>3, <2>2, <2>4 DEF Touches
  <1>6. CASE ~(View(c)[K(k)] # None)
    <2>1. /\ tx' = [tx EXCEPT ![c] = IF tx[c] = "open" THEN "aborted" ELSE tx[c]]
          /\ draft' = [draft EXCEPT ![c] = Blank] /\ db' = db
      BY <1>6 DEF InitializeQuota, K
    <2>2. tx[c] \in {"idle", "open", "aborted", "closed"}
      BY <1>2 DEF Inv, Typed
    <2> QED
      BY <1>2, <1>3, <2>1, <2>2 DEF Touches, EndsTx
  <1> QED
    BY <1>5, <1>6

LEMMA EndTouches ==
    ASSUME Typed, Asked, NEW r \in Requests,
           Commit(r) \/ Rollback(r) \/ StatementFails(r) \/ CutOff(r)
    PROVE  Touches(Conn(r)) /\ Conn(r) \in Conns /\ gone' \subseteq Requests
  <1>1. pc[r] \in Statements
    BY DEF Commit, Rollback, StatementFails, CutOff, Runs, Statements
  <1>2. Conn(r) \in Conns
    BY <1>1, AtStatement
  <1>3. CASE Commit(r)
    BY <1>2, <1>3 DEF Commit, EndTx, Touches, EndsTx, Typed
  <1>4. CASE Rollback(r)
    BY <1>2, <1>4 DEF Rollback, EndTx, Touches, EndsTx, Typed
  <1>5. CASE StatementFails(r)
    BY <1>2, <1>5 DEF StatementFails, EndTx, Touches, EndsTx, LooksOnly, Typed
  <1>6. CASE CutOff(r)
    <2>1. db' \in {db, View(Conn(r))} /\ gone' \subseteq Requests
      BY <1>6 DEF CutOff, Typed
    <2> QED
      BY <1>2, <1>6, <2>1 DEF CutOff, EndTx, Touches, EndsTx
  <1> QED
    BY <1>3, <1>4, <1>5, <1>6

(* What requests ask and where they stand, after every action. *)
AskedTyped ==
    /\ ask \in [Requests -> Ask \cup {None}]
    /\ pc \in [Requests -> {"idle"} \cup Statements \cup Ends]
    /\ work \in [Requests -> {"user", "key", "quota"}]

(* A request comes to open a quota only from finding its key. *)
OwnerKept ==
    \A r \in Requests : ask'[r].kind = "quota" /\ pc'[r] \in Opening =>
        Arrived(r) /\ (pc[r] \in Opening \/ KeyMade(ask[r].key, ask[r].user))

Answers == AskedTyped' /\ Asked' /\ Kept /\ OwnerKept

LEMMA OwnedStep ==
    ASSUME Owned, Kept, OwnerKept
    PROVE  Owned'
  <1>1. ASSUME NEW r \in Requests, ask'[r].kind = "quota", pc'[r] \in Opening
        PROVE  \A k, u : k = ask'[r].key /\ u = ask'[r].user => KeyMade(k, u)'
    <2>1. Arrived(r) /\ (pc[r] \in Opening \/ KeyMade(ask[r].key, ask[r].user))
      BY <1>1 DEF OwnerKept
    <2>2. ask'[r] = ask[r]
      BY <1>1, <2>1 DEF Kept
    <2>3. KeyMade(ask[r].key, ask[r].user)
      BY <1>1, <2>1, <2>2 DEF Owned
    <2> QED
      BY <2>2, <2>3, FitsKept
  <1> QED
    BY <1>1 DEF Owned

LEMMA MovesAnswers ==
    ASSUME Typed, Asked, NEW r \in Requests, NEW p \in Statements \cup Ends, Moves(r, p), Asked',
           \/ p \notin Opening
           \/ pc[r] \in Opening
           \/ ask[r].kind = "quota" => Arrived(r) /\ KeyMade(ask[r].key, ask[r].user)
    PROVE  Answers
  <1>1. pc'[r] = p /\ \A q \in Requests \ {r} : pc'[q] = pc[q]
    BY DEF Typed, Moves
  <1>2. p # "idle"
    BY DEF Statements, Ends
  <1>3. AskedTyped'
    BY DEF AskedTyped, Typed, Moves
  <1>4. Kept
    BY <1>1, <1>2 DEF Kept, Arrived, Moves
  <1>5. OwnerKept
    <2>1. ASSUME NEW q \in Requests, ask'[q].kind = "quota", pc'[q] \in Opening
          PROVE  Arrived(q) /\ (pc[q] \in Opening \/ KeyMade(ask[q].key, ask[q].user))
      <3>1. ask'[q] = ask[q]
        BY DEF Moves
      <3>2. CASE q # r
        BY <1>1, <2>1, <3>2 DEF Arrived, Opening
      <3>3. CASE q = r
        BY <1>1, <2>1, <3>1, <3>3 DEF Arrived, Opening
      <3> QED
        BY <3>2, <3>3
    <2> QED
      BY <2>1 DEF OwnerKept
  <1> QED
    BY <1>3, <1>4, <1>5 DEF Answers

LEMMA FindKeyFinds ==
    ASSUME Inv, NEW r \in Requests, FindKey(r), pc'[r] # "failed"
    PROVE  Arrived(r) /\ KeyMade(ask[r].key, ask[r].user)
  <1>1. pc[r] = "owner" /\ pc[r] \in Statements
    BY DEF FindKey, Executes, Runs, Statements
  <1>2. Arrived(r) /\ WellAsked(r) /\ InPlace(r) /\ Conn(r) \in Conns
    BY <1>1, AtStatement DEF Inv
  <1> DEFINE k == ask[r].key
             w == View(Conn(r))[K(k)]
  <1>3. Owns(r, w)
    BY DEF FindKey, Goto, GetAPIKeyWithUser, Inv, Typed, K
  <1>4. w # None /\ w.user = ask[r].user
    BY <1>3 DEF Owns
  <1>5. k \in Requests
    BY <1>1, <1>2 DEF InPlace, WellAsked
  <1>6. Holds(K(k), w) /\ w \in Values
    BY <1>2, <1>4, <1>5, RowNames, ViewRow DEF Inv, Typed
  <1>7. KeyFits(k, w)
    BY <1>5, <1>6 DEF Inv, Stored, RowsFit
  <1> QED
    BY <1>2, <1>4, <1>7 DEF KeyFits

LEMMA StepsAnswer ==
    ASSUME Inv, NEW r \in Requests,
           \/ List(r) \/ FindUser(r) \/ FindKey(r) \/ FindService(r)
           \/ Begin(r) \/ CheckUser(r) \/ InsertUser(r) \/ InsertKey(r) \/ AssignKey(r)
           \/ GetService(r) \/ InitializeQuota(r) \/ Fetch(r) \/ Rollback(r)
           \/ StatementFails(r) \/ CutOff(r)
    PROVE  Answers
  <1>1. PICK p \in Statements \cup Ends : Moves(r, p)
    BY StepsInPlace DEF Inv
  <1>2. Asked'
    BY StepsInPlace DEF Inv
  <1>3. pc'[r] = p
    BY <1>1 DEF Moves, Inv, Typed
  <1>4. CASE pc[r] \in Opening
    BY <1>1, <1>2, <1>4, MovesAnswers DEF Inv
  <1>5. CASE FindKey(r)
    <2>1. CASE p = "failed"
      BY <1>1, <1>2, <2>1, MovesAnswers DEF Inv, Opening
    <2>2. CASE p # "failed"
      BY <1>1, <1>2, <1>3, <1>5, <2>2, FindKeyFinds, MovesAnswers DEF Inv
    <2> QED
      BY <2>1, <2>2
  <1>6. CASE FindUser(r)
    <2>1. pc[r] = "users" /\ pc[r] \in Statements
      BY <1>6 DEF FindUser, Executes, Runs, Statements
    <2>2. ask[r].kind = "key"
      BY <2>1, AtStatement DEF Inv, InPlace
    <2> QED
      BY <1>1, <1>2, <2>2, MovesAnswers DEF Inv
  <1>7. CASE List(r) \/ CheckUser(r) \/ InsertUser(r) \/ InsertKey(r) \/ AssignKey(r) \/ Fetch(r)
             \/ Rollback(r) \/ InitializeQuota(r)
    <2>1. p \in {"list", "answered", "failed", "rollback", "user", "commit", "assign"}
      BY <1>3, <1>7
      DEF List, CheckUser, InsertUser, InsertKey, AssignKey, Fetch, Rollback, InitializeQuota,
          Goto, Inv, Typed
    <2> QED
      BY <1>1, <1>2, <2>1, MovesAnswers DEF Inv, Opening
  <1>8. CASE StatementFails(r) \/ CutOff(r)
    <2>1. p = AfterError(pc[r])
      BY <1>3, <1>8 DEF StatementFails, CutOff, Goto, Inv, Typed
    <2>2. p \notin Opening
      BY <2>1 DEF AfterError, Opening, InTx
    <2> QED
      BY <1>1, <1>2, <2>2, MovesAnswers DEF Inv
  <1>9. FindService(r) \/ Begin(r) \/ GetService(r) => pc[r] \in Opening
    BY DEF FindService, Begin, GetService, Executes, Runs, Opening
  <1> QED
    BY <1>4, <1>5, <1>6, <1>7, <1>8, <1>9

(* A handler that also notes what it finds, or goes on to another          *)
(* transaction.                                                            *)
LEMMA OtherAnswers ==
    ASSUME Inv, NEW r \in Requests, NEW p \in Statements \cup Ends, NEW a \in Ask,
           NEW w \in {"user", "key", "quota"},
           pc' = [pc EXCEPT ![r] = p],
           ask' = [ask EXCEPT ![r] = a],
           work' = [work EXCEPT ![r] = w],
           Arrived(r) => a = ask[r] \/ (ask[r].kind = "mail" /\ a.kind = "mail"),
           a.kind = "quota" => p \notin Opening,
           WellAsked(r)', InPlace(r)'
    PROVE  Answers
  <1>1. /\ pc'[r] = p /\ ask'[r] = a /\ work'[r] = w
        /\ \A q \in Requests \ {r} : pc'[q] = pc[q] /\ ask'[q] = ask[q] /\ work'[q] = work[q]
    BY DEF Inv, Typed
  <1>2. p # "idle"
    BY DEF Statements, Ends
  <1>3. AskedTyped'
    BY DEF AskedTyped, Inv, Typed
  <1>4. Kept
    BY <1>1, <1>2 DEF Kept, Arrived
  <1>5. OwnerKept
    BY <1>1 DEF OwnerKept, Arrived, Opening
  <1>6. Asked'
    <2>1. ASSUME NEW q \in Requests, Arrived(q)' PROVE (WellAsked(q) /\ InPlace(q))'
      <3>1. CASE q = r
        BY <3>1
      <3>2. CASE q # r
        <4>1. pc'[q] = pc[q] /\ ask'[q] = ask[q] /\ work'[q] = work[q] /\ Arrived(q)
          BY <1>1, <2>1, <3>2 DEF Arrived
        <4> QED
          BY <4>1 DEF Inv, Asked, WellAsked, InPlace, WorkFits
      <3> QED
        BY <3>1, <3>2
    <2>2. ASSUME NEW q \in Requests, ~Arrived(q)' PROVE ask'[q] = None
      BY <1>1, <1>2, <2>2 DEF Inv, Asked, Arrived
    <2> QED
      BY <2>1, <2>2 DEF Asked
  <1> QED
    BY <1>3, <1>4, <1>5, <1>6 DEF Answers

LEMMA ArriveAnswers ==
    ASSUME Inv, NEW r \in Requests, Arrive(r)
    PROVE  Answers
  <1> DEFINE Start(a) == CASE a.kind = "list" -> "list"
                            [] a.kind = "key" -> "users"
                            [] a.kind = "quota" -> "owner"
                            [] a.kind = "mail" -> "allow"
                            [] OTHER -> "begin"
             Work(a) == IF a.kind \in {"key", "quota"} THEN a.kind ELSE "user"
  <1>1. PICK a \in Ask :
          /\ a.email \in Emails <=> a.kind \in {"user", "invite", "mail"}
          /\ a.conn = StaffConn <=> a.kind = "mail"
          /\ a.user \in Requests <=> a.kind \in {"key", "quota"}
          /\ a.key \in Requests <=> a.kind = "quota"
          /\ ask' = [ask EXCEPT ![r] = a]
          /\ pc' = [pc EXCEPT ![r] = Start(a)]
          /\ work' = [work EXCEPT ![r] = Work(a)]
    BY DEF Arrive, Goto
  <1>2. a.kind \in Kinds /\ a.key \in Requests \cup {None}
    BY DEF Ask
  <1>3. Start(a) \in Statements /\ Work(a) \in {"user", "key", "quota"}
    BY <1>2 DEF Kinds, Statements
  <1>4. ask'[r] = a /\ pc'[r] = Start(a) /\ work'[r] = Work(a)
    BY <1>1 DEF Inv, Typed
  <1>5. ~Arrived(r)
    BY DEF Arrive, Arrived
  <1>6. WellAsked(r)'
    BY <1>1, <1>4 DEF WellAsked
  <1>7. InPlace(r)'
    <2>1. CASE a.kind \in {"user", "invite"}
      BY <1>4, <2>1 DEF InPlace, InTx, WorkFits
    <2>2. CASE a.kind = "key"
      BY <1>4, <2>2 DEF InPlace, InTx, WorkFits
    <2>3. CASE a.kind = "quota"
      BY <1>4, <2>3 DEF InPlace, InTx, WorkFits
    <2>4. CASE a.kind = "list"
      BY <1>4, <2>4 DEF InPlace, InTx
    <2>5. CASE a.kind = "mail"
      BY <1>1, <1>2, <1>4, <2>5 DEF InPlace, InTx
    <2> QED
      BY <1>2, <2>1, <2>2, <2>3, <2>4, <2>5 DEF Kinds
  <1>8. a.kind = "quota" => Start(a) \notin Opening
    BY DEF Opening
  <1> QED
    BY <1>1, <1>3, <1>5, <1>6, <1>7, <1>8, OtherAnswers

LEMMA CommitAnswers ==
    ASSUME Inv, NEW r \in Requests, Commit(r)
    PROVE  Answers
  <1>1. pc[r] = "commit" /\ pc[r] \in Statements
    BY DEF Commit, Runs, Statements
  <1>2. Arrived(r) /\ WellAsked(r) /\ InPlace(r)
    BY <1>1, AtStatement DEF Inv
  <1>3. WorkFits(r)
    BY <1>1, <1>2 DEF InPlace
  <1>4. CASE tx[Conn(r)] = "aborted"
    <2>1. Moves(r, "failed")
      BY <1>4 DEF Commit, Goto, Moves
    <2>2. InPlace(r)'
      BY <2>1 DEF Moves, InPlace, InTx, Inv, Typed
    <2>3. Asked'
      BY <1>1, <2>1, <2>2, ArrivedMoves DEF Inv, Ends
    <2> QED
      BY <2>1, <2>3, MovesAnswers DEF Inv, Ends, Opening
  <1>5. CASE tx[Conn(r)] # "aborted"
    <2> DEFINE p == AfterCommit(r)
               w == IF ask[r].kind = "invite" THEN "key" ELSE work[r]
    <2>1. pc' = [pc EXCEPT ![r] = p] /\ work' = [work EXCEPT ![r] = w]
      BY <1>5 DEF Commit, Goto
    <2>2. ask' = [ask EXCEPT ![r] = ask[r]]
      BY DEF Commit, Inv, Typed
    <2>3. /\ p \in {"begin", "fetch", "answered"} /\ w \in {"user", "key", "quota"}
          /\ p \in {"begin", "fetch"} => ask[r].kind = "invite"
      BY DEF AfterCommit, Inv, Typed
    <2>4. pc'[r] = p /\ work'[r] = w /\ ask'[r] = ask[r]
      BY <2>1, <2>2 DEF Inv, Typed
    <2>5. WellAsked(r)'
      BY <1>2, <2>4 DEF WellAsked
    <2>6. InPlace(r)'
      BY <2>3, <2>4 DEF InPlace, InTx, WorkFits
    <2>7. p \in Statements \cup Ends /\ (ask[r].kind = "quota" => p \notin Opening)
      BY <2>3 DEF Statements, Ends, Opening
    <2>8. ask[r] \in Ask
      BY <1>2 DEF WellAsked
    <2> HIDE DEF p, w
    <2> QED
      BY <2>1, <2>2, <2>3, <2>5, <2>6, <2>7, <2>8, OtherAnswers
  <1> QED
    BY <1>4, <1>5

(* What the staff service finds. *)
LEMMA AllowListAnswers ==
    ASSUME Inv, NEW r \in Requests, AllowList(r)
    PROVE  Answers
  <1>1. pc[r] = "allow" /\ pc[r] \in Statements
    BY DEF AllowList, Executes, Runs, Statements
  <1>2. Arrived(r) /\ WellAsked(r) /\ InPlace(r)
    BY <1>1, AtStatement DEF Inv
  <1> DEFINE found == GetUserByEmail(Conn(r), ask[r].email)
             u == (CHOOSE i \in found : TRUE)[2]
             a == [ask[r] EXCEPT !.user = u]
  <1>3. CASE found = {}
    <2>1. Moves(r, "failed")
      BY <1>3 DEF AllowList, Goto, Moves
    <2>2. InPlace(r)'
      BY <2>1 DEF Moves, InPlace, InTx, Inv, Typed
    <2>3. Asked'
      BY <1>1, <2>1, <2>2, ArrivedMoves DEF Inv, Ends
    <2> QED
      BY <2>1, <2>3, MovesAnswers DEF Inv, Ends, Opening
  <1>4. CASE found # {}
    <2>1. ask' = [ask EXCEPT ![r].user = u] /\ pc' = [pc EXCEPT ![r] = "keys"] /\ work' = work
      BY <1>4 DEF AllowList, Goto
    <2>2. u \in Requests
      <3>1. (CHOOSE i \in found : TRUE) \in Users
        BY <1>4 DEF GetUserByEmail
      <3> QED
        BY <3>1, RowNames
    <2>3. ask' = [ask EXCEPT ![r] = a] /\ work' = [work EXCEPT ![r] = work[r]]
      BY <2>1 DEF Inv, Typed
    <2>4. /\ a \in Ask /\ a.kind = ask[r].kind /\ a.key = ask[r].key
          /\ a.email = ask[r].email /\ a.conn = ask[r].conn
      BY <1>2, <2>2 DEF WellAsked, Ask
    <2>5. ask[r].kind = "mail" /\ ask[r].key = None
      BY <1>1, <1>2 DEF InPlace
    <2>6. ask'[r] = a /\ pc'[r] = "keys" /\ work'[r] = work[r]
      BY <2>1, <2>3 DEF Inv, Typed
    <2>7. WellAsked(r)'
      BY <1>2, <2>4, <2>5, <2>6 DEF WellAsked
    <2>8. InPlace(r)'
      BY <2>4, <2>5, <2>6 DEF InPlace, InTx
    <2>9. "keys" \in Statements /\ work[r] \in {"user", "key", "quota"}
      BY DEF Statements, Inv, Typed
    <2> HIDE DEF a
    <2> QED
      BY <2>1, <2>3, <2>4, <2>5, <2>7, <2>8, <2>9, OtherAnswers
  <1> QED
    BY <1>3, <1>4

LEMMA IdToKeyAnswers ==
    ASSUME Inv, NEW r \in Requests, IdToKey(r)
    PROVE  Answers
  <1>1. pc[r] = "keys" /\ pc[r] \in Statements
    BY DEF IdToKey, Executes, Runs, Statements
  <1>2. Arrived(r) /\ WellAsked(r) /\ InPlace(r)
    BY <1>1, AtStatement DEF Inv
  <1>3. CASE Goto(r, "failed") /\ ask' = ask
    <2>1. Moves(r, "failed")
      BY <1>3 DEF IdToKey, Goto, Moves
    <2>2. InPlace(r)'
      BY <2>1 DEF Moves, InPlace, InTx, Inv, Typed
    <2>3. Asked'
      BY <1>1, <2>1, <2>2, ArrivedMoves DEF Inv, Ends
    <2> QED
      BY <2>1, <2>3, MovesAnswers DEF Inv, Ends, Opening
  <1>4. ASSUME NEW i \in Keys, SendInstruction(r, i[2]) PROVE Answers
    <2> DEFINE a == [ask[r] EXCEPT !.key = i[2]]
    <2>1. PICK p \in Ends : pc' = [pc EXCEPT ![r] = p]
      BY <1>4 DEF SendInstruction, Goto
    <2>2. ask' = [ask EXCEPT ![r] = a] /\ work' = [work EXCEPT ![r] = work[r]]
      BY <1>4 DEF SendInstruction, IdToKey, Inv, Typed
    <2>3. /\ a \in Ask /\ a.kind = ask[r].kind /\ a.user = ask[r].user
          /\ a.email = ask[r].email /\ a.conn = ask[r].conn
      BY <1>2, RowNames DEF WellAsked, Ask
    <2>4. ask[r].kind = "mail"
      BY <1>1, <1>2 DEF InPlace
    <2>5. ask'[r] = a /\ pc'[r] = p
      BY <2>1, <2>2 DEF Inv, Typed
    <2>6. WellAsked(r)'
      BY <1>2, <2>3, <2>4, <2>5 DEF WellAsked
    <2>7. InPlace(r)'
      BY <2>5 DEF InPlace, InTx, Ends
    <2>8. p \in Statements \cup Ends /\ work[r] \in {"user", "key", "quota"}
      BY DEF Inv, Typed
    <2> HIDE DEF a
    <2> QED
      BY <2>1, <2>2, <2>3, <2>4, <2>6, <2>7, <2>8, OtherAnswers
  <1> QED
    BY <1>3, <1>4 DEF IdToKey, GetAPIKeysByUserID

LEMMA RestartAnswers ==
    ASSUME Inv, NEW c \in Conns, Restart(c)
    PROVE  Answers
  <1>1. ask' = ask /\ work' = work
    BY DEF Restart
  <1>2. /\ pc' \in [Requests -> {"idle"} \cup Statements \cup Ends]
        /\ \A r \in Requests : pc'[r] = pc[r] \/ (pc'[r] = "failed" /\ pc[r] \in Statements)
    BY DEF Restart, Active, Ends, Inv, Typed
  <1>3. \A r \in Requests : Arrived(r)' <=> Arrived(r)
    BY <1>2 DEF Arrived, Statements
  <1>4. ASSUME NEW r \in Requests, Arrived(r)' PROVE (WellAsked(r) /\ InPlace(r))'
    <2>1. WellAsked(r) /\ InPlace(r)
      BY <1>3, <1>4 DEF Inv, Asked
    <2>2. CASE pc'[r] = pc[r]
      BY <1>1, <2>1, <2>2 DEF WellAsked, InPlace, WorkFits
    <2>3. CASE pc'[r] = "failed"
      BY <1>1, <2>1, <2>3 DEF WellAsked, InPlace, InTx
    <2> QED
      BY <1>2, <2>2, <2>3
  <1>5. Asked'
    BY <1>1, <1>3, <1>4 DEF Inv, Asked
  <1>6. AskedTyped'
    BY <1>1, <1>2 DEF AskedTyped, Inv, Typed
  <1>7. Kept
    BY <1>1, <1>3 DEF Kept
  <1>8. OwnerKept
    BY <1>1, <1>2, <1>3 DEF OwnerKept, Opening, Arrived
  <1> QED
    BY <1>5, <1>6, <1>7, <1>8 DEF Answers

LEMMA StaysAnswers ==
    ASSUME Inv, UNCHANGED <<ask, pc, work>>
    PROVE  Answers
  <1>1. AskedTyped'
    BY DEF AskedTyped, Inv, Typed
  <1>2. Asked'
    BY DEF Inv, Asked, Arrived, WellAsked, InPlace, WorkFits
  <1>3. Kept /\ OwnerKept
    BY DEF Kept, OwnerKept, Opening, Arrived
  <1> QED
    BY <1>1, <1>2, <1>3 DEF Answers

-----------------------------------------------------------------------------
(* The invariant, handlers overlapping or not.                             *)

LEMMA InvInit == Init => Inv
  <1> SUFFICES ASSUME Init PROVE Inv
    OBVIOUS
  <1>1. Typed
    BY DEF Init, Typed, Blank, Values
  <1>2. Asked
    BY DEF Init, Asked, Arrived
  <1>3. \A i \in Rows : \A v : ~Holds(i, v)
    BY BlankRow DEF Init, Holds
  <1>4. Stored
    <2>1. RowsFit /\ OneUserEach
      BY <1>3, RowNames DEF RowsFit, OneUserEach
    <2>2. KeysHeld /\ Drafted
      BY BlankRow, RowNames DEF Init, KeysHeld, Drafted
    <2> QED
      BY <2>1, <2>2 DEF Stored
  <1>5. Owned
    BY DEF Init, Owned, Opening
  <1> QED
    BY <1>1, <1>2, <1>4, <1>5 DEF Inv

LEMMA NextAnswersAndTouches ==
    ASSUME Inv, Next
    PROVE  Answers /\ gone' \subseteq Requests /\ \E c \in Conns : Touches(c)
  <1> DEFINE Goal == Answers /\ gone' \subseteq Requests /\ \E c \in Conns : Touches(c)
  <1>1. gone \subseteq Requests /\ Typed /\ Asked
    BY DEF Inv, Typed
  <1>2. ASSUME NEW r \in Requests, Arrive(r) PROVE Goal
    <2>1. gone' = gone /\ LooksOnly(StaffConn) /\ StaffConn \in Conns
      BY <1>2 DEF Arrive, LooksOnly, Conns
    <2> QED
      BY <1>1, <1>2, <2>1, ArriveAnswers DEF Touches
  <1>3. ASSUME NEW r \in Requests, Step(r) PROVE Goal
    <2>1. CASE \/ List(r) \/ FindUser(r) \/ FindKey(r) \/ FindService(r) \/ Begin(r)
               \/ CheckUser(r) \/ GetService(r) \/ Fetch(r)
      BY <1>1, <2>1, Looks, StepsAnswer DEF Touches
    <2>2. CASE InsertUser(r)
      BY <1>1, <2>2, InsertUserTouches, StepsAnswer
    <2>3. CASE InsertKey(r)
      BY <1>1, <2>3, InsertKeyTouches, StepsAnswer
    <2>4. CASE AssignKey(r)
      BY <1>1, <2>4, AssignKeyTouches, StepsAnswer
    <2>5. CASE InitializeQuota(r)
      BY <1>1, <2>5, InitializeQuotaTouches, StepsAnswer
    <2>6. CASE Commit(r)
      BY <1>1, <2>6, EndTouches, CommitAnswers
    <2>7. CASE Rollback(r) \/ StatementFails(r)
      BY <1>1, <2>7, EndTouches, StepsAnswer
    <2>8. CASE SendInstructionHandler(r)
      BY <1>1, <2>8, Looks, AllowListAnswers, IdToKeyAnswers DEF SendInstructionHandler, Touches
    <2> QED
      BY <1>3, <2>1, <2>2, <2>3, <2>4, <2>5, <2>6, <2>7, <2>8 DEF Step
  <1>4. ASSUME NEW r \in Requests, Disconnect(r) PROVE Goal
    <2>1. gone' \subseteq Requests /\ LooksOnly(StaffConn) /\ StaffConn \in Conns
      BY <1>1, <1>4 DEF Disconnect, LooksOnly, Conns
    <2>2. UNCHANGED <<ask, pc, work>>
      BY <1>4 DEF Disconnect
    <2> QED
      BY <2>1, <2>2, StaysAnswers DEF Touches
  <1>5. ASSUME NEW r \in Requests, CutOff(r) PROVE Goal
    BY <1>1, <1>5, EndTouches, StepsAnswer
  <1>6. ASSUME NEW c \in Conns, Restart(c) PROVE Goal
    <2>1. EndsTx(c) /\ gone' = gone
      BY <1>6 DEF Restart, EndTx, EndsTx
    <2> QED
      BY <1>1, <1>6, <2>1, RestartAnswers DEF Touches
  <1> QED
    BY <1>2, <1>3, <1>4, <1>5, <1>6 DEF Next

LEMMA InvNext == Inv /\ [Next]_vars => Inv'
  <1> SUFFICES ASSUME Inv, [Next]_vars PROVE Inv'
    OBVIOUS
  <1>1. Answers /\ gone' \subseteq Requests /\ \E c \in Conns : Touches(c)
    <2>1. CASE Next
      BY <2>1, NextAnswersAndTouches
    <2>2. CASE UNCHANGED vars
      <3>1. LooksOnly(StaffConn) /\ StaffConn \in Conns
        BY <2>2 DEF vars, LooksOnly, Conns
      <3>2. gone' \subseteq Requests /\ UNCHANGED <<ask, pc, work>>
        BY <2>2 DEF vars, Inv, Typed
      <3> QED
        BY <3>1, <3>2, StaysAnswers DEF Touches
    <2> QED
      BY <2>1, <2>2
  <1>2. StoreTyped /\ Stored /\ Owned
    BY DEF Inv, Typed, StoreTyped
  <1>3. StoreTyped' /\ Stored'
    BY <1>1, <1>2, StoreTypedStep, StoredStep DEF Answers
  <1>4. Typed' /\ Asked'
    BY <1>1, <1>3 DEF Answers, AskedTyped, StoreTyped, Typed
  <1>5. Owned'
    BY <1>1, <1>2, OwnedStep DEF Answers
  <1> QED
    BY <1>3, <1>4, <1>5 DEF Inv

(* In every state what is asked and written fits: Inv, however handlers    *)
(* overlap.                                                                *)
THEOREM InvHolds == Spec => []Inv
  BY InvInit, InvNext, PTL DEF Spec

LEMMA Committed ==
    ASSUME Inv, NEW r \in Requests
    PROVE  /\ db[U(r)] # None => UserFits(r, db[U(r)])
           /\ db[K(r)] # None => KeyFits(r, db[K(r)])
           /\ db[Q(r)] # None => QuotaFits(r, db[Q(r)])
           /\ db[U(r)] \in Values
  BY RowNames DEF Inv, Typed, Stored, RowsFit, Holds

LEMMA JoinedTyped == Spec => [](joined \subseteq Requests)
  <1>1. Init => joined \subseteq Requests
    BY DEF Init
  <1>2. joined \subseteq Requests /\ [Next]_vars => (joined \subseteq Requests)'
    <2> SUFFICES ASSUME joined \subseteq Requests, [Next]_vars PROVE joined' \subseteq Requests
      OBVIOUS
    <2>1. ASSUME NEW r \in Requests, Begin(r) PROVE joined' \subseteq Requests
      BY <2>1 DEF Begin, Inside, Active
    <2>2. ASSUME NEW r \in Requests, Step(r), ~Begin(r) PROVE joined' = joined
      BY <2>2 DEF Step, List, FindUser, FindKey, FindService, CheckUser, InsertUser, InsertKey,
         AssignKey, GetService, InitializeQuota, Commit, Fetch, Rollback,
         SendInstructionHandler, AllowList, IdToKey, StatementFails
    <2>3. ASSUME NEW r \in Requests, Arrive(r) \/ Disconnect(r) \/ CutOff(r)
          PROVE  joined' = joined
      BY <2>3 DEF Arrive, Disconnect, CutOff
    <2>4. ASSUME NEW c \in Conns, Restart(c) PROVE joined' = joined
      BY <2>4 DEF Restart
    <2> QED
      BY <2>1, <2>2, <2>3, <2>4 DEF Next, vars
  <1> QED
    BY <1>1, <1>2, PTL DEF Spec

(* Every variable keeps its type: a user's row is an address, a key's its  *)
(* owner and status, a quota's the request that wrote it; and a connection *)
(* that is idle or closed has no uncommitted rows.                         *)
THEOREM TypeCorrect == Spec => []TypeOK
  <1>1. Inv /\ joined \subseteq Requests => TypeOK
    <2> SUFFICES ASSUME Inv, joined \subseteq Requests PROVE TypeOK
      OBVIOUS
    <2>1. ASSUME NEW r \in Requests
          PROVE  /\ db[U(r)] \in Emails \cup {None}
                 /\ db[K(r)] \in KeyRow \cup {None}
                 /\ db[Q(r)] \in Requests \cup {None}
      <3>1. db[U(r)] # None => db[U(r)] \in Emails
        BY Committed DEF UserFits, Inv, Asked, WellAsked
      <3>2. /\ db[K(r)] # None => db[K(r)] \in KeyRow
            /\ db[Q(r)] # None => db[Q(r)] \in Requests
        BY Committed DEF KeyFits, QuotaFits
      <3> QED
        BY <3>1, <3>2
    <2>2. \A c \in Conns : tx[c] \in {"idle", "closed"} => draft[c] = [i \in Rows |-> None]
      BY DEF Inv, Stored, Drafted, Blank
    <2> QED
      BY <2>1, <2>2, RowNames DEF TypeOK, Inv, Typed, Values
  <1> QED
    BY <1>1, InvHolds, JoinedTyped, PTL

(* However many processes insert a user at once, and whoever commits the   *)
(* rows, no address has two.                                               *)
THEOREM EmailsAreUniqueCorrect == Spec => []EmailsAreUnique
  <1>1. Inv => EmailsAreUnique
    <2> SUFFICES ASSUME Inv, NEW i \in Users, NEW j \in Users, db[i] # None, db[i] = db[j]
                 PROVE  i = j
      BY DEF EmailsAreUnique
    <2>1. PICK r, q \in Requests : i = U(r) /\ j = U(q)
      BY RowNames
    <2>2. Holds(U(r), db[i]) /\ Holds(U(q), db[i]) /\ db[i] \in Values
      BY <2>1, Committed DEF Holds
    <2>3. r = q
      BY <2>2 DEF Inv, Stored, OneUserEach
    <2> QED
      BY <2>1, <2>3
  <1> QED
    BY <1>1, InvHolds, PTL

(* A quota that is committed was opened by a request that named the key's  *)
(* owner, and the key is there.                                            *)
THEOREM QuotasByOwnerCorrect == Spec => []QuotasByOwner
  <1>1. Inv => QuotasByOwner
    <2> SUFFICES ASSUME Inv, NEW r \in Requests, db[Q(r)] # None
                 PROVE  ask[db[Q(r)]].user = db[K(r)].user
      BY DEF QuotasByOwner, K, Q
    <2>1. KeyUser(r) = ask[db[Q(r)]].user
      BY Committed DEF QuotaFits, KeyMade
    <2>2. db[K(r)] # None
      BY DEF Inv, Stored, KeysHeld
    <2> QED
      BY <2>1, <2>2, Committed DEF KeyFits, KeyMade
  <1> QED
    BY <1>1, InvHolds, PTL

-----------------------------------------------------------------------------
(* Requests that have never shared a transaction.                          *)

TxStatements == InTx \cup {"commit", "rollback"}

(* No one is in a transaction together with r. *)
Alone(r) ==
    pc[r] \in TxStatements =>
        \A q \in Requests : pc[q] \in TxStatements /\ Conn(q) = Conn(r) => q = r

(* What the open transaction of a handler has written so far. *)
DraftFits(r) ==
    LET d == draft[Conn(r)]
    IN /\ pc[r] \in InTx \ {"assign"} => \A i \in Rows : d[i] = None
       /\ pc[r] = "assign" => \A i \in Rows : d[i] # None => i = K(r)
       /\ pc[r] = "commit" =>
             /\ d[K(r)] # None => d[K(r)].status = "assigned"
             /\ work[r] = "user" => d[U(r)] # None
             /\ work[r] = "key" => d[K(r)] # None
             /\ work[r] = "quota" => d[Q(ask[r].key)] # None

InTxFits(r) ==
    pc[r] \in TxStatements => tx[Conn(r)] # "idle" /\ (tx[Conn(r)] = "open" => DraftFits(r))

(* The rows that bear its name are written in its own transaction, ... *)
Drawn(r) ==
    \A c \in Conns : draft[c][U(r)] # None \/ draft[c][K(r)] # None =>
        pc[r] \in TxStatements /\ Conn(r) = c

(* ... its key is committed with its assignment, ... *)
Assigned(r) == db[K(r)] # None => db[K(r)].status = "assigned"

(* ... and what it answered is committed. *)
Answered(r) ==
    pc[r] = "answered" =>
        /\ ask[r].kind \in {"user", "invite"} => db[U(r)] # None
        /\ ask[r].kind \in {"key", "invite"} => db[K(r)] # None
        /\ ask[r].kind = "quota" => db[Q(ask[r].key)] # None

Apart(r) == Alone(r) /\ InTxFits(r) /\ Drawn(r) /\ Assigned(r) /\ Answered(r)

(* Of all requests: what the staff service found is committed, ... *)
Mailed(r) ==
    Arrived(r) /\ ask[r].kind = "mail" /\ (pc[r] = "keys" \/ ask[r].key # None) =>
        /\ ask[r].user \in Requests
        /\ db[U(ask[r].user)] = ask[r].email
        /\ ask[r].key # None =>
              /\ ask[r].key \in Requests
              /\ db[K(ask[r].key)] # None /\ db[K(ask[r].key)].user = ask[r].user

(* ... and a transaction has a handler in it. *)
HasHandler ==
    \A c \in Conns : tx[c] \in {"open", "aborted"} =>
        \E q \in Requests : pc[q] \in TxStatements /\ ask[q].conn = c

Orderly ==
    /\ HasHandler
    /\ \A r \in Requests : Mailed(r)
    /\ \A r \in Requests \ joined : Apart(r)

(* The step of a handler leaves the others and their connections alone.    *)
Local(r) ==
    /\ \A q \in Requests \ {r} : pc'[q] = pc[q] /\ ask'[q] = ask[q] /\ work'[q] = work[q]
    /\ \A d \in Conns \ {Conn(r)} : tx'[d] = tx[d] /\ draft'[d] = draft[d]
    /\ pc[r] \in Statements /\ pc'[r] # "idle" /\ Conn(r) \in Conns
    /\ ask'[r].conn = Conn(r) /\ ask'[r].kind = ask[r].kind

(* It reads, and stays in its transaction or finds that it has ended, ...  *)
Reads(r) ==
    /\ db' = db /\ draft' = draft /\ tx' = tx /\ joined' = joined
    /\ pc'[r] \in TxStatements => pc[r] \in TxStatements
    /\ pc[r] \in TxStatements =>
          pc'[r] \in TxStatements \/ tx[Conn(r)] \notin {"open", "aborted"}

(* ... begins, and is alone in the transaction or has joined, ...          *)
Opens(r) ==
    /\ db' = db /\ draft' = draft /\ tx'[Conn(r)] = "open"
    /\ pc[r] \notin TxStatements /\ pc'[r] \in TxStatements
    /\ joined \subseteq joined'
    /\ \A q \in Requests : pc[q] \in TxStatements /\ Conn(q) = Conn(r) =>
          q \in joined' /\ r \in joined'

(* ... ends the transaction it is in, or the connection, ...               *)
Finishes(r) ==
    /\ draft'[Conn(r)] = Blank /\ joined' = joined
    /\ db' = db \/ (pc[r] = "commit" /\ db' = View(Conn(r)))
    /\ tx'[Conn(r)] \in {"open", "aborted"} => pc'[r] \in TxStatements
    /\ pc'[r] \in TxStatements => pc[r] \in TxStatements
    /\ tx'[Conn(r)] = "closed" \/ pc[r] \in TxStatements

(* ... or writes a row of its own, or a quota.                             *)
Puts(r) ==
    /\ tx' = tx /\ joined' = joined
    /\ pc[r] \in InTx /\ pc'[r] \in TxStatements
    /\ tx[Conn(r)] \notin {"aborted", "closed"}
    /\ \E row \in {U(r), K(r)} \cup Quotas, v \in Values \ {None} : Write(Conn(r), row, v)

Shape(r) == Reads(r) \/ Opens(r) \/ Finishes(r) \/ Puts(r)

(* Only the staff service comes to know a user or a key. *)
Finds(r) == Mailed(r)' \/ (ask'[r] = ask[r] /\ pc'[r] # "keys")

Orders(r) ==
    /\ Local(r) /\ Shape(r) /\ Finds(r)
    /\ r \notin joined' => InTxFits(r)' /\ Answered(r)'

LEMMA InsideIsTx ==
    /\ TxStatements \subseteq Statements
    /\ \A c \in Conns : Inside(c) = {q \in Requests : pc[q] \in TxStatements /\ ask[q].conn = c}
  BY DEF TxStatements, InTx, Statements, Inside, Active, Conn

CommittedFits ==
    \A r \in Requests :
        /\ db[U(r)] # None => UserFits(r, db[U(r)])
        /\ db[K(r)] # None => KeyFits(r, db[K(r)])

LEMMA CommittedThen == Inv' => CommittedFits'
  <1>1. Inv => CommittedFits
    BY Committed DEF CommittedFits
  <1> QED
    BY <1>1, PTL

(* What is committed stays so. *)
LEMMA DbKeeps ==
    ASSUME Inv, Inv', Kept, \A i \in Rows : db[i] # None => db'[i] # None
    PROVE  \A r \in Requests :
              /\ db[U(r)] # None => db'[U(r)] = db[U(r)]
              /\ db[K(r)] # None => db'[K(r)] # None /\ db'[K(r)].user = db[K(r)].user
              /\ db[Q(r)] # None => db'[Q(r)] # None
  <1> SUFFICES ASSUME NEW r \in Requests
               PROVE  /\ db[U(r)] # None => db'[U(r)] = db[U(r)]
                      /\ db[K(r)] # None => db'[K(r)] # None /\ db'[K(r)].user = db[K(r)].user
                      /\ db[Q(r)] # None => db'[Q(r)] # None
    OBVIOUS
  <1>1. /\ U(r) \in Rows /\ K(r) \in Rows /\ Q(r) \in Rows
    BY RowNames
  <1>2. /\ db[U(r)] # None => UserFits(r, db[U(r)])
        /\ db[K(r)] # None => KeyFits(r, db[K(r)])
    BY Committed
  <1>3. /\ db'[U(r)] # None => UserFits(r, db[U(r)])'
        /\ db'[K(r)] # None => KeyFits(r, db[K(r)])'
    BY CommittedThen DEF CommittedFits, U, K
  <1>4. Arrived(r) /\ ask[r].kind \in {"user", "invite", "key"} => ask'[r] = ask[r]
    BY DEF Kept
  <1>5. db[U(r)] # None => db'[U(r)] = db[U(r)]
    BY <1>1, <1>2, <1>3, <1>4 DEF UserFits
  <1>6. db[K(r)] # None => db'[K(r)] # None /\ db'[K(r)].user = db[K(r)].user
    BY <1>1, <1>2, <1>3, <1>4 DEF KeyFits, KeyMade, KeyUser
  <1> QED
    BY <1>1, <1>5, <1>6

(* Whatever the step, the others' facts stay true while rows only come. *)
Grows == \A i \in Rows : db[i] # None => db'[i] # None

LEMMA MailedKept ==
    ASSUME Inv, Inv', Kept, Grows, NEW q \in Requests, Mailed(q),
           pc'[q] = "keys" => pc[q] = "keys", ask'[q] = ask[q], Arrived(q)' => Arrived(q)
    PROVE  Mailed(q)'
  <1> SUFFICES ASSUME Arrived(q)', ask[q].kind = "mail", pc'[q] = "keys" \/ ask[q].key # None
               PROVE  /\ ask[q].user \in Requests
                      /\ db'[U(ask[q].user)] = ask[q].email
                      /\ ask[q].key # None =>
                            /\ ask[q].key \in Requests
                            /\ db'[K(ask[q].key)] # None /\ db'[K(ask[q].key)].user = ask[q].user
    BY DEF Mailed, U, K
  <1> DEFINE u == ask[q].user
             k == ask[q].key
  <1>1. /\ Arrived(q) /\ (pc[q] = "keys" \/ k # None)
    OBVIOUS
  <1>2. /\ u \in Requests /\ db[U(u)] = ask[q].email
        /\ k # None => k \in Requests /\ db[K(k)] # None /\ db[K(k)].user = u
    BY <1>1 DEF Mailed
  <1>3. ask[q].email \in Emails /\ ask[q].email # None
    BY <1>1, NoneIsNoValue DEF Inv, Asked, WellAsked
  <1>4. db'[U(u)] = ask[q].email
    BY <1>2, <1>3, DbKeeps DEF Grows
  <1>5. k # None => db'[K(k)] # None /\ db'[K(k)].user = u
    BY <1>2, DbKeeps DEF Grows
  <1> QED
    BY <1>2, <1>4, <1>5

LEMMA AnsweredKept ==
    ASSUME Inv, Grows, NEW q \in Requests, Answered(q), pc'[q] = pc[q] \/ pc'[q] = "failed",
           ask'[q] = ask[q]
    PROVE  Answered(q)'
  <1> SUFFICES ASSUME pc'[q] = "answered"
               PROVE  /\ ask[q].kind \in {"user", "invite"} => db'[U(q)] # None
                      /\ ask[q].kind \in {"key", "invite"} => db'[K(q)] # None
                      /\ ask[q].kind = "quota" => db'[Q(ask[q].key)] # None
    BY DEF Answered, U, K, Q
  <1>1. pc[q] = "answered"
    OBVIOUS
  <1>2. ask[q].kind = "quota" => ask[q].key \in Requests
    BY <1>1 DEF Inv, Asked, Arrived, WellAsked
  <1> QED
    BY <1>1, <1>2, RowNames DEF Answered, Grows


(* Where a row is written: in the open transaction, or at once.            *)
LEMMA WriteRows ==
    ASSUME Inv, NEW c \in Conns, NEW row \in Rows, NEW v, Write(c, row, v)
    PROVE  /\ tx[c] = "open" =>
                 /\ db' = db
                 /\ \A d \in Conns, i \in Rows :
                       draft'[d][i] = IF d = c /\ i = row THEN v ELSE draft[d][i]
           /\ tx[c] # "open" =>
                 /\ draft' = draft
                 /\ \A i \in Rows : db'[i] = IF i = row THEN v ELSE db[i]
  <1>1. db \in [Rows -> Values] /\ draft \in [Conns -> [Rows -> Values]]
    BY DEF Inv, Typed
  <1>2. CASE tx[c] = "open"
    <2>1. draft' = [draft EXCEPT ![c][row] = v] /\ db' = db
      BY <1>2 DEF Write
    <2>2. ASSUME NEW d \in Conns, NEW i \in Rows
          PROVE  draft'[d][i] = IF d = c /\ i = row THEN v ELSE draft[d][i]
      <3>1. draft[d] \in [Rows -> Values]
        BY <1>1
      <3> QED
        BY <1>1, <2>1, <3>1
    <2> QED
      BY <1>2, <2>1, <2>2
  <1>3. CASE tx[c] # "open"
    BY <1>1, <1>3 DEF Write
  <1> QED
    BY <1>2, <1>3

(* A write touches no other request's user or key, in whatever transaction *)
(* it ends up.                                                             *)
LEMMA PutsRows ==
    ASSUME Inv, NEW r \in Requests, Local(r), Puts(r)
    PROVE  /\ \A q \in Requests \ {r}, d \in Conns :
                 /\ draft'[d][U(q)] = draft[d][U(q)] /\ draft'[d][K(q)] = draft[d][K(q)]
                 /\ db'[K(q)] = db[K(q)]
           /\ Grows
           /\ tx[Conn(r)] = "open" => db' = db
  <1>1. PICK row \in {U(r), K(r)} \cup Quotas, v \in Values \ {None} : Write(Conn(r), row, v)
    BY DEF Puts
  <1>2. row \in Rows /\ Conn(r) \in Conns
    BY <1>1, RowNames DEF Local
  <1>3. /\ tx[Conn(r)] = "open" =>
              /\ db' = db
              /\ \A d \in Conns, i \in Rows :
                    draft'[d][i] = IF d = Conn(r) /\ i = row THEN v ELSE draft[d][i]
        /\ tx[Conn(r)] # "open" =>
              /\ draft' = draft
              /\ \A i \in Rows : db'[i] = IF i = row THEN v ELSE db[i]
    BY <1>1, <1>2, WriteRows
  <1>4. Grows
    BY <1>3 DEF Grows
  <1>5. ASSUME NEW q \in Requests \ {r}
        PROVE  row # U(q) /\ row # K(q) /\ U(q) \in Rows /\ K(q) \in Rows
    <2>1. row # U(q) /\ row # K(q)
      <3>1. CASE row \in Quotas
        <4>1. PICK k \in Requests : row = Q(k)
          BY <3>1, RowNames
        <4> QED
          BY <4>1, RowsDiffer
      <3>2. CASE row = U(r) \/ row = K(r)
        BY <3>2, RowsDiffer
      <3> QED
        BY <1>1, <3>1, <3>2
    <2> QED
      BY <2>1, RowNames
  <1> QED
    BY <1>3, <1>4, <1>5

LEMMA ShapeGrows ==
    ASSUME Inv, NEW r \in Requests, Local(r), Shape(r)
    PROVE  Grows
  <1>1. Conn(r) \in Conns
    BY DEF Local
  <1>2. CASE Reads(r) \/ Opens(r)
    BY <1>2 DEF Reads, Opens, Grows
  <1>3. CASE Finishes(r)
    <2>1. \A i \in Rows : db[i] # None => View(Conn(r))[i] # None
      BY <1>1, ViewRow
    <2> QED
      BY <1>3, <2>1 DEF Finishes, Grows
  <1>4. CASE Puts(r)
    BY <1>4, PutsRows
  <1> QED
    BY <1>2, <1>3, <1>4 DEF Shape

(* Who is in a transaction after the step was in it before, but for r.     *)
LEMMA AloneKept ==
    ASSUME Orderly, NEW r \in Requests, Local(r), Shape(r), NEW q \in Requests \ joined'
    PROVE  Alone(q)' /\ q \notin joined
  <1>1. joined \subseteq joined'
    BY DEF Shape, Reads, Opens, Finishes, Puts
  <1>2. q \notin joined /\ Alone(q)
    BY <1>1 DEF Orderly, Apart
  <1>3. \A p \in Requests : ask'[p].conn = ask[p].conn
    BY DEF Local, Conn
  <1>4. SUFFICES ASSUME NEW p \in Requests, pc'[q] \in TxStatements, pc'[p] \in TxStatements,
                        ask[p].conn = ask[q].conn, p # q
                 PROVE  FALSE
    BY <1>2, <1>3 DEF Alone, Conn
  <1>5. CASE pc[p] \in TxStatements /\ pc[q] \in TxStatements
    BY <1>2, <1>4, <1>5 DEF Alone, Conn
  <1>6. CASE ~(pc[p] \in TxStatements /\ pc[q] \in TxStatements)
    <2>1. p = r \/ q = r
      BY <1>4, <1>6 DEF Local
    <2>2. pc[r] \notin TxStatements /\ pc'[r] \in TxStatements
      BY <1>4, <1>6, <2>1 DEF Local
    <2>3. Opens(r)
      BY <2>2 DEF Shape, Reads, Finishes, Puts, TxStatements
    <2>4. CASE p = r
      BY <1>4, <2>3, <2>4 DEF Local, Opens, Conn
    <2>5. CASE q = r
      BY <1>4, <2>3, <2>5 DEF Local, Opens, Conn
    <2> QED
      BY <2>1, <2>4, <2>5
  <1> QED
    BY <1>5, <1>6

LEMMA DrawnKept ==
    ASSUME Inv, Orderly, NEW r \in Requests, Local(r), Shape(r), NEW q \in Requests \ joined'
    PROVE  Drawn(q)'
  <1> DEFINE c == Conn(r)
  <1>1. Drawn(q) /\ q \notin joined
    BY AloneKept DEF Orderly, Apart
  <1>2. /\ c \in Conns /\ ask'[q].conn = ask[q].conn
        /\ \A d \in Conns \ {c} : draft'[d] = draft[d]
        /\ q # r => pc'[q] = pc[q]
    BY DEF Local, Conn
  <1>3. U(q) \in Rows /\ K(q) \in Rows
    BY RowNames
  <1>4. SUFFICES ASSUME NEW d \in Conns, draft'[d][U(q)] # None \/ draft'[d][K(q)] # None
                 PROVE  pc'[q] \in TxStatements /\ ask[q].conn = d
    BY <1>2 DEF Drawn, Conn, U, K
  <1>5. CASE Reads(r)
    <2>1. draft' = draft /\ pc[q] \in TxStatements /\ ask[q].conn = d
      BY <1>1, <1>4, <1>5 DEF Reads, Drawn, Conn
    <2>2. CASE q = r
      <3>1. tx[d] = "open"
        <4>1. draft[d] # Blank
          BY <1>3, <1>4, <2>1, BlankRow
        <4> QED
          BY <4>1 DEF Inv, Stored, Drafted
      <3> QED
        BY <1>5, <2>1, <2>2, <3>1 DEF Reads, Conn
    <2> QED
      BY <1>2, <2>1, <2>2
  <1>6. CASE Opens(r)
    BY <1>1, <1>2, <1>4, <1>6 DEF Opens, Drawn, Conn
  <1>7. CASE Finishes(r)
    <2>1. d # c
      BY <1>3, <1>4, <1>7, BlankRow DEF Finishes
    <2>2. pc[q] \in TxStatements /\ ask[q].conn = d
      BY <1>1, <1>2, <1>4, <2>1 DEF Drawn, Conn
    <2> QED
      BY <1>2, <2>1, <2>2 DEF Conn
  <1>8. CASE Puts(r)
    <2>1. CASE q = r
      <3>1. CASE d = c
        BY <1>8, <2>1, <3>1 DEF Puts, Conn
      <3>2. CASE d # c
        BY <1>1, <1>2, <1>4, <2>1, <3>2 DEF Drawn
      <3> QED
        BY <3>1, <3>2
    <2>2. CASE q # r
      BY <1>1, <1>2, <1>4, <1>8, <2>2, PutsRows DEF Drawn, Conn
    <2> QED
      BY <2>1, <2>2
  <1> QED
    BY <1>5, <1>6, <1>7, <1>8 DEF Shape

LEMMA AssignedKept ==
    ASSUME Inv, Orderly, NEW r \in Requests, Local(r), Shape(r), NEW q \in Requests \ joined'
    PROVE  Assigned(q)'
  <1> DEFINE c == Conn(r)
  <1>1. q \notin joined /\ Assigned(q) /\ Drawn(q) /\ InTxFits(q) /\ Alone(q)
    BY AloneKept DEF Orderly, Apart
  <1>2. c \in Conns /\ K(q) \in Rows
    BY RowNames DEF Local
  <1>3. CASE db' = db
    BY <1>1, <1>3 DEF Assigned, K
  <1>4. CASE Finishes(r) /\ pc[r] = "commit" /\ db' = View(c)
    <2>1. db'[K(q)] = IF draft[c][K(q)] # None THEN draft[c][K(q)] ELSE db[K(q)]
      BY <1>2, <1>4, ViewRow
    <2>2. ASSUME draft[c][K(q)] # None PROVE draft[c][K(q)].status = "assigned"
      <3>1. tx[c] = "open"
        BY <1>2, <2>2, BlankRow DEF Inv, Stored, Drafted
      <3>2. q = r
        BY <1>1, <1>2, <1>4, <2>2 DEF Drawn, Alone, TxStatements
      <3> QED
        BY <1>1, <1>4, <2>2, <3>1, <3>2 DEF InTxFits, DraftFits, TxStatements
    <2> QED
      BY <1>1, <2>1, <2>2 DEF Assigned, K
  <1>5. CASE Puts(r)
    <2>1. CASE q = r
      <3>1. tx[c] \in {"idle", "open", "aborted", "closed"}
        BY <1>2 DEF Inv, Typed
      <3>2. tx[c] = "open"
        BY <1>1, <1>5, <2>1, <3>1 DEF Puts, InTxFits, TxStatements
      <3> QED
        BY <1>3, <1>5, <3>2, PutsRows
    <2>2. CASE q # r
      <3>1. db'[K(q)] = db[K(q)]
        BY <1>2, <1>5, <2>2, PutsRows
      <3> QED
        BY <1>1, <3>1 DEF Assigned, K
    <2> QED
      BY <2>1, <2>2
  <1> QED
    BY <1>3, <1>4, <1>5 DEF Shape, Reads, Opens, Finishes

LEMMA HasHandlerKept ==
    ASSUME Orderly, NEW r \in Requests, Local(r), Shape(r)
    PROVE  HasHandler'
  <1> SUFFICES ASSUME NEW d \in Conns, tx'[d] \in {"open", "aborted"}
               PROVE  \E q \in Requests : pc'[q] \in TxStatements /\ ask'[q].conn = d
    BY DEF HasHandler
  <1>1. /\ \A q \in Requests \ {r} : pc'[q] = pc[q] /\ ask'[q] = ask[q]
        /\ d # Conn(r) => tx'[d] = tx[d]
        /\ ask'[r].conn = Conn(r)
    BY DEF Local
  <1>2. CASE d = Conn(r) /\ pc'[r] \in TxStatements
    BY <1>1, <1>2
  <1>3. CASE d = Conn(r) /\ pc'[r] \notin TxStatements
    <2>1. Reads(r)
      BY <1>3 DEF Shape, Opens, Finishes, Puts
    <2>2. PICK q \in Requests : pc[q] \in TxStatements /\ ask[q].conn = d
      BY <2>1 DEF Reads, Orderly, HasHandler
    <2>3. q # r
      BY <1>3, <2>1, <2>2 DEF Reads
    <2> QED
      BY <1>1, <2>2, <2>3
  <1>4. CASE d # Conn(r)
    <2>1. PICK q \in Requests : pc[q] \in TxStatements /\ ask[q].conn = d
      BY <1>1, <1>4 DEF Orderly, HasHandler
    <2> QED
      BY <1>1, <1>4, <2>1 DEF Conn
  <1> QED
    BY <1>2, <1>3, <1>4

LEMMA InTxFitsKept ==
    ASSUME Inv, Orderly, NEW r \in Requests, Local(r), Shape(r),
           NEW q \in Requests \ joined', q # r
    PROVE  InTxFits(q)'
  <1> DEFINE c == Conn(r)
  <1>1. /\ pc'[q] = pc[q] /\ ask'[q] = ask[q] /\ work'[q] = work[q]
        /\ \A d \in Conns \ {c} : tx'[d] = tx[d] /\ draft'[d] = draft[d]
    BY DEF Local
  <1>2. q \notin joined /\ Alone(q) /\ InTxFits(q)
    BY AloneKept DEF Orderly, Apart
  <1>3. SUFFICES ASSUME pc[q] \in TxStatements PROVE InTxFits(q)'
    BY <1>1 DEF InTxFits
  <1>4. Conn(q) \in Conns
    BY <1>3, InsideIsTx, AtStatement DEF Inv
  <1>5. ASSUME tx'[Conn(q)] = tx[Conn(q)], draft'[Conn(q)] = draft[Conn(q)] PROVE InTxFits(q)'
    BY <1>1, <1>2, <1>5 DEF InTxFits, DraftFits, Conn, U, K, Q
  <1>6. CASE Conn(q) # c
    BY <1>1, <1>4, <1>5, <1>6
  <1>7. CASE Conn(q) = c /\ Reads(r)
    BY <1>5, <1>7 DEF Reads
  <1>8. CASE Conn(q) = c /\ ~Reads(r)
    <2>1. pc[r] \notin TxStatements
      BY <1>2, <1>3, <1>8 DEF Alone
    <2>2. ~Opens(r) /\ ~Puts(r)
      BY <1>3, <1>8, <2>1 DEF Opens, Puts, TxStatements
    <2>3. tx'[c] = "closed"
      BY <1>8, <2>1, <2>2 DEF Shape, Finishes
    <2> QED
      BY <1>1, <1>8, <2>3 DEF InTxFits, Conn
  <1> QED
    BY <1>6, <1>7, <1>8

LEMMA OrderlyStep ==
    ASSUME Inv, Inv', Kept, Orderly, NEW r \in Requests, Orders(r)
    PROVE  Orderly'
  <1>1. Local(r) /\ Shape(r) /\ Finds(r) /\ (r \notin joined' => InTxFits(r)' /\ Answered(r)')
    BY DEF Orders
  <1>2. Grows /\ HasHandler'
    BY <1>1, ShapeGrows, HasHandlerKept
  <1>3. /\ \A q \in Requests \ {r} : pc'[q] = pc[q] /\ ask'[q] = ask[q]
        /\ Arrived(r)
    BY <1>1 DEF Local, Arrived, Statements
  <1>4. ASSUME NEW q \in Requests \ joined' PROVE Apart(q)'
    <2>1. q \notin joined /\ Alone(q)' /\ Drawn(q)' /\ Assigned(q)'
      BY <1>1, AloneKept, DrawnKept, AssignedKept
    <2>2. CASE q = r
      BY <1>1, <2>1, <2>2 DEF Apart
    <2>3. CASE q # r
      <3>1. InTxFits(q)'
        BY <1>1, <2>3, InTxFitsKept
      <3>2. Answered(q)'
        BY <1>2, <1>3, <2>1, <2>3, AnsweredKept DEF Orderly, Apart
      <3> QED
        BY <2>1, <3>1, <3>2 DEF Apart
    <2> QED
      BY <2>2, <2>3
  <1>5. ASSUME NEW q \in Requests PROVE Mailed(q)'
    <2>1. CASE ask'[q] = ask[q] /\ (pc'[q] = pc[q] \/ pc'[q] # "keys") /\ (Arrived(q)' => Arrived(q))
      BY <1>2, <2>1, MailedKept DEF Orderly
    <2>2. q # r => (Arrived(q)' => Arrived(q))
      BY <1>3 DEF Arrived
    <2> QED
      BY <1>1, <1>3, <2>1, <2>2 DEF Finds
  <1> QED
    BY <1>2, <1>4, <1>5 DEF Orderly

-----------------------------------------------------------------------------
(* The statements.                                                         *)

(* Outside a transaction and alone on the connection, there is none.       *)
LEMMA NoTx ==
    ASSUME Inv, Orderly, NEW c \in Conns,
           \A q \in Requests : ~(pc[q] \in TxStatements /\ ask[q].conn = c)
    PROVE  /\ tx[c] \notin {"open", "aborted"}
           /\ \A i \in Rows : draft[c][i] = None /\ View(c)[i] = db[i]
  <1>1. tx[c] \notin {"open", "aborted"}
    BY DEF Orderly, HasHandler
  <1>2. draft[c] = Blank
    BY <1>1 DEF Inv, Stored, Drafted
  <1> QED
    BY <1>1, <1>2, BlankRow, ViewRow

(* A request that has not joined finds its transaction as it left it.      *)
LEMMA InsideTx ==
    ASSUME Inv, Orderly, NEW r \in Requests \ joined, NEW s \in InTx, Executes(r, s)
    PROVE  tx[Conn(r)] = "open" /\ DraftFits(r)
  <1>1. pc[r] = s /\ pc[r] \in Statements /\ pc[r] \in TxStatements
    BY InsideIsTx DEF Executes, Runs, TxStatements
  <1>2. Conn(r) \in Conns
    BY <1>1, AtStatement DEF Inv
  <1>3. tx[Conn(r)] \in {"idle", "open", "aborted", "closed"}
    BY <1>2 DEF Inv, Typed
  <1>4. tx[Conn(r)] = "open"
    BY <1>1, <1>3 DEF Executes, Runs, Orderly, Apart, InTxFits
  <1> QED
    BY <1>1, <1>4 DEF Orderly, Apart, InTxFits

LEMMA MovesLocal ==
    ASSUME Inv, NEW r \in Requests, pc[r] \in Statements, NEW p \in Statements \cup Ends,
           Moves(r, p), Touches(Conn(r))
    PROVE  Local(r) /\ pc'[r] = p /\ ask'[r] = ask[r] /\ work'[r] = work[r] /\ Conn(r)' = Conn(r)
  <1>1. pc'[r] = p /\ \A q \in Requests \ {r} : pc'[q] = pc[q]
    BY DEF Moves, Inv, Typed
  <1>2. ask' = ask /\ work' = work /\ p # "idle"
    BY DEF Moves, Statements, Ends
  <1> DEFINE c == Conn(r)
  <1>3. ASSUME NEW d \in Conns \ {c} PROVE tx'[d] = tx[d] /\ draft'[d] = draft[d]
    <2>1. CASE LooksOnly(c)
      BY <2>1 DEF LooksOnly, Inv, Typed
    <2>2. CASE EndsTx(c)
      BY <2>2 DEF EndsTx, Inv, Typed
    <2>3. ASSUME NEW row, NEW v, Writes(c, row, v) PROVE tx'[d] = tx[d] /\ draft'[d] = draft[d]
      BY <2>3 DEF Writes, Write, Inv, Typed
    <2> QED
      BY <2>1, <2>2, <2>3 DEF Touches
  <1>4. c \in Conns
    BY AtStatement DEF Inv
  <1> QED
    BY <1>1, <1>2, <1>3, <1>4 DEF Local, Conn

(* Statements outside a transaction that only read. *)
LEMMA ReadsOrder ==
    ASSUME Inv, Orderly, NEW r \in Requests,
           List(r) \/ FindUser(r) \/ FindKey(r) \/ FindService(r) \/ Fetch(r)
    PROVE  Orders(r)
  <1>1. /\ pc[r] \in {"list", "users", "owner", "services", "fetch"}
        /\ UNCHANGED <<db, draft, tx, ask, work, joined>>
    BY DEF List, FindUser, FindKey, FindService, Fetch, Executes, Runs
  <1>2. pc[r] \in Statements \ TxStatements
    BY <1>1 DEF Statements, TxStatements, InTx
  <1>3. PICK p \in Statements \cup Ends : Moves(r, p)
    BY StepsInPlace DEF Inv
  <1>4. Touches(Conn(r))
    BY Looks DEF Inv, Touches
  <1>5. Local(r) /\ pc'[r] = p /\ ask'[r] = ask[r] /\ work'[r] = work[r] /\ Conn(r)' = Conn(r)
    BY <1>2, <1>3, <1>4, MovesLocal
  <1>6. p \in {"list", "begin", "services", "answered", "failed"}
    BY <1>5 DEF List, FindUser, FindKey, FindService, Fetch, Goto, Inv, Typed
  <1>7. Shape(r)
    BY <1>1, <1>2, <1>5, <1>6 DEF Shape, Reads, TxStatements, InTx
  <1>8. InTxFits(r)'
    BY <1>5, <1>6 DEF InTxFits, TxStatements, InTx
  <1>9. ASSUME r \notin joined PROVE Answered(r)'
    <2>1. CASE p = "answered" /\ List(r)
      <3>1. ask[r].kind = "list"
        BY <1>2, <2>1, AtStatement DEF List, Executes, Runs, Inv, InPlace
      <3> QED
        BY <1>5, <3>1 DEF Answered
    <2>2. CASE p = "answered" /\ Fetch(r)
      <3>1. ask[r].kind = "invite"
        BY <1>2, <2>2, AtStatement DEF Fetch, Executes, Runs, Inv, InPlace
      <3>2. View(Conn(r))[U(r)] # None /\ View(Conn(r))[K(r)] # None
        BY <1>5, <2>2 DEF Fetch, Goto, U, K, Inv, Typed
      <3>3. draft[Conn(r)][U(r)] = None /\ draft[Conn(r)][K(r)] = None
        BY <1>2, <1>5, <1>9 DEF Orderly, Apart, Drawn, Local
      <3>4. db'[U(r)] # None /\ db'[K(r)] # None
        BY <1>1, <1>5, <3>2, <3>3, ViewRow, RowNames DEF Local
      <3> QED
        BY <1>5, <3>1, <3>4 DEF Answered, U, K
    <2>3. CASE p # "answered"
      BY <1>5, <2>3 DEF Answered
    <2>4. p = "answered" => List(r) \/ Fetch(r)
      BY <1>5 DEF FindUser, FindKey, FindService, Goto, Inv, Typed
    <2> QED
      BY <2>1, <2>2, <2>3, <2>4
  <1> QED
    BY <1>1, <1>5, <1>6, <1>7, <1>8, <1>9 DEF Orders, Finds

(* Begin, and what is read inside the transaction. *)
LEMMA BeginOrders ==
    ASSUME Inv, Orderly, NEW r \in Requests, Begin(r)
    PROVE  Orders(r)
  <1> DEFINE c == Conn(r)
             others == {q \in Requests : pc[q] \in TxStatements /\ ask[q].conn = c}
  <1>1. pc[r] = "begin" /\ pc[r] \in Statements \ TxStatements
    BY DEF Begin, Executes, Runs, Statements, TxStatements, InTx
  <1>2. PICK p \in Statements \cup Ends : Moves(r, p)
    BY StepsInPlace DEF Inv
  <1>3. Touches(c) /\ c \in Conns
    BY <1>1, Looks, AtStatement DEF Inv, Touches
  <1>4. Local(r) /\ pc'[r] = p /\ ask'[r] = ask[r] /\ work'[r] = work[r] /\ Conn(r)' = c
    BY <1>1, <1>2, <1>3, MovesLocal
  <1>5. p \in {"check", "key", "service"}
    <2>1. p = First[work[r]] /\ work[r] \in {"user", "key", "quota"}
      BY <1>4 DEF Begin, Goto, Inv, Typed
    <2> QED
      BY <2>1 DEF First
  <1>6. db' = db /\ draft' = draft /\ tx'[c] = "open"
    BY <1>3 DEF Begin, Inv, Typed
  <1>7. joined' = joined \cup (IF others = {} THEN {} ELSE others \cup {r})
    <2>1. Inside(c) = others
      BY <1>3, InsideIsTx
    <2> QED
      BY <2>1 DEF Begin
  <1>8. Shape(r)
    BY <1>1, <1>4, <1>5, <1>6, <1>7 DEF Shape, Opens, TxStatements, InTx, Conn
  <1>9. ASSUME r \notin joined' PROVE InTxFits(r)' /\ Answered(r)'
    <2>1. others = {}
      BY <1>7, <1>9
    <2>2. \A i \in Rows : draft'[c][i] = None
      BY <1>3, <1>6, <2>1, NoTx
    <2>3. InTxFits(r)'
      BY <1>4, <1>5, <1>6, <2>2 DEF InTxFits, DraftFits, TxStatements, InTx
    <2> QED
      BY <1>4, <1>5, <2>3 DEF Answered
  <1> QED
    BY <1>4, <1>5, <1>8, <1>9 DEF Orders, Finds

LEMMA ReadsInsideOrder ==
    ASSUME Inv, Orderly, NEW r \in Requests, CheckUser(r) \/ GetService(r)
    PROVE  Orders(r)
  <1>1. PICK s \in InTx \ {"assign"} : Executes(r, s)
    BY DEF CheckUser, GetService, InTx
  <1>2. pc[r] = s /\ pc[r] \in Statements /\ pc[r] \in TxStatements
    BY <1>1, InsideIsTx DEF Executes, Runs, TxStatements
  <1>3. PICK p \in Statements \cup Ends : Moves(r, p)
    BY StepsInPlace DEF Inv
  <1>4. Touches(Conn(r))
    BY Looks DEF Inv, Touches
  <1>5. Local(r) /\ pc'[r] = p /\ ask'[r] = ask[r] /\ work'[r] = work[r] /\ Conn(r)' = Conn(r)
    BY <1>2, <1>3, <1>4, MovesLocal
  <1>6. p \in {"rollback", "user", "quota"}
    BY <1>5 DEF CheckUser, GetService, Goto, Inv, Typed
  <1>7. db' = db /\ draft' = draft /\ tx' = tx /\ joined' = joined
    BY DEF CheckUser, GetService
  <1>8. Shape(r)
    BY <1>2, <1>5, <1>6, <1>7 DEF Shape, Reads, TxStatements, InTx
  <1>9. ASSUME r \notin joined PROVE InTxFits(r)'
    <2>1. tx[Conn(r)] = "open" /\ DraftFits(r)
      BY <1>1, <1>9, InsideTx
    <2>2. \A i \in Rows : draft'[Conn(r)][i] = None
      BY <1>1, <1>2, <1>7, <2>1 DEF DraftFits
    <2> QED
      BY <1>5, <1>6, <1>7, <2>1, <2>2 DEF InTxFits, DraftFits, TxStatements, InTx
  <1> QED
    BY <1>5, <1>6, <1>7, <1>8, <1>9 DEF Orders, Finds, Answered

(* What every writing statement of a transaction has in common. *)
LEMMA InsideMoves ==
    ASSUME Inv, Orderly, NEW r \in Requests,
           InsertUser(r) \/ InsertKey(r) \/ AssignKey(r) \/ InitializeQuota(r)
    PROVE  /\ Local(r) /\ ask'[r] = ask[r] /\ work'[r] = work[r] /\ Conn(r)' = Conn(r)
           /\ pc'[r] \in {"rollback", "commit", "assign"} /\ joined' = joined
           /\ Conn(r) \in Conns /\ tx[Conn(r)] \notin {"aborted", "closed"}
           /\ r \notin joined => tx[Conn(r)] = "open" /\ DraftFits(r)
           /\ pc[r] \in InTx /\ WellAsked(r) /\ InPlace(r)
  <1>1. PICK s \in InTx : Executes(r, s)
    BY DEF InsertUser, InsertKey, AssignKey, InitializeQuota, InTx
  <1>2. pc[r] = s /\ pc[r] \in Statements /\ tx[Conn(r)] \notin {"aborted", "closed"}
    BY <1>1, InsideIsTx DEF Executes, Runs, TxStatements
  <1>3. PICK p \in Statements \cup Ends : Moves(r, p)
    BY StepsInPlace DEF Inv
  <1>4. Touches(Conn(r))
    BY InsertUserTouches, InsertKeyTouches, AssignKeyTouches, InitializeQuotaTouches
  <1>5. Local(r) /\ pc'[r] = p /\ ask'[r] = ask[r] /\ work'[r] = work[r] /\ Conn(r)' = Conn(r)
    BY <1>2, <1>3, <1>4, MovesLocal
  <1>6. p \in {"rollback", "commit", "assign"}
    BY <1>5 DEF InsertUser, InsertKey, AssignKey, InitializeQuota, Goto, Inv, Typed
  <1>7. joined' = joined
    BY DEF InsertUser, InsertKey, AssignKey, InitializeQuota
  <1>8. r \notin joined => tx[Conn(r)] = "open" /\ DraftFits(r)
    BY <1>1, InsideTx
  <1> QED
    BY <1>1, <1>2, <1>5, <1>6, <1>7, <1>8, AtStatement DEF Inv, Local

(* A statement that writes nothing goes to the rollback, and keeps the     *)
(* transaction or, refused by Postgres, aborts it.                         *)
LEMMA RollbackOrders ==
    ASSUME NEW r \in Requests, Local(r), ask'[r] = ask[r], pc'[r] = "rollback",
           pc[r] \in InTx, db' = db, joined' = joined,
           \/ draft' = draft /\ tx' = tx
           \/ draft'[Conn(r)] = Blank,
           r \notin joined => tx'[Conn(r)] # "idle"
    PROVE  Orders(r)
  <1>1. Conn(r)' = Conn(r)
    BY DEF Conn
  <1>2. Shape(r)
    BY DEF Shape, Reads, Finishes, TxStatements
  <1>3. r \notin joined => InTxFits(r)'
    BY <1>1 DEF InTxFits, DraftFits, InTx
  <1> QED
    BY <1>2, <1>3 DEF Orders, Answered, Finds

(* A statement that writes the row of v, and goes on.                      *)
LEMMA PutOrders ==
    ASSUME Inv, NEW r \in Requests, Local(r), ask'[r] = ask[r], pc'[r] \in {"commit", "assign"},
           pc[r] \in InTx, tx' = tx, joined' = joined, tx[Conn(r)] \notin {"aborted", "closed"},
           NEW row \in {U(r), K(r)} \cup Quotas, NEW v \in Values \ {None},
           Write(Conn(r), row, v),
           r \notin joined => tx[Conn(r)] = "open" /\ DraftFits(r)'
    PROVE  Orders(r)
  <1>1. Conn(r)' = Conn(r)
    BY DEF Conn
  <1>2. Puts(r)
    BY DEF Puts, TxStatements, InTx
  <1>3. r \notin joined => InTxFits(r)'
    BY <1>1 DEF InTxFits
  <1> QED
    BY <1>2, <1>3 DEF Orders, Shape, Answered, Finds

LEMMA InsertUserOrders ==
    ASSUME Inv, Orderly, NEW r \in Requests, InsertUser(r)
    PROVE  Orders(r)
  <1> DEFINE c == Conn(r)
             e == ask[r].email
  <1>1. /\ Local(r) /\ ask'[r] = ask[r] /\ work'[r] = work[r] /\ Conn(r)' = c
        /\ joined' = joined /\ c \in Conns /\ tx[c] \notin {"aborted", "closed"}
        /\ r \notin joined => tx[c] = "open" /\ DraftFits(r)
        /\ pc[r] \in InTx /\ WellAsked(r) /\ InPlace(r)
    BY InsideMoves
  <1>2. pc[r] = "user" /\ tx' = tx
    BY DEF InsertUser, Executes, Runs
  <1>3. CASE Taken(c, e)
    <2>1. pc'[r] = "rollback" /\ db' = db /\ draft' = draft
      BY <1>3 DEF InsertUser, Goto, Inv, Typed
    <2> QED
      BY <1>1, <1>2, <2>1, RollbackOrders
  <1>4. CASE ~Taken(c, e)
    <2>1. pc'[r] = "commit" /\ Write(c, U(r), e)
      BY <1>4 DEF InsertUser, Goto, Inv, Typed, U
    <2>2. work[r] = "user" /\ e # None /\ e \in Values
      BY <1>1, <1>2, NoneIsNoValue DEF InPlace, InTx, WorkFits, WellAsked, Values
    <2>3. ASSUME r \notin joined PROVE DraftFits(r)'
      <3>1. \A i \in Rows : draft'[c][i] = IF i = U(r) THEN e ELSE draft[c][i]
        BY <1>1, <2>1, <2>3, WriteRows, RowNames
      <3>2. \A i \in Rows : draft[c][i] = None
        BY <1>1, <1>2, <2>3 DEF DraftFits, InTx
      <3>3. draft'[c][U(r)] # None /\ draft'[c][K(r)] = None
        BY <2>2, <3>1, <3>2, RowNames, RowsDiffer
      <3> QED
        BY <1>1, <2>1, <2>2, <3>3 DEF DraftFits, InTx, U, K, Q
    <2> QED
      BY <1>1, <1>2, <2>1, <2>2, <2>3, PutOrders
  <1> QED
    BY <1>3, <1>4

LEMMA InsertKeyOrders ==
    ASSUME Inv, Orderly, NEW r \in Requests, InsertKey(r)
    PROVE  Orders(r)
  <1> DEFINE c == Conn(r)
  <1>1. /\ Local(r) /\ ask'[r] = ask[r] /\ work'[r] = work[r] /\ Conn(r)' = c
        /\ joined' = joined /\ c \in Conns /\ tx[c] \notin {"aborted", "closed"}
        /\ r \notin joined => tx[c] = "open" /\ DraftFits(r)
        /\ pc[r] \in InTx /\ WellAsked(r) /\ InPlace(r)
    BY InsideMoves
  <1>2. pc[r] = "key"
    BY DEF InsertKey, Executes, Runs
  <1>3. CASE View(c)[<<"user", KeyUser(r)>>] # None
    <2> DEFINE v == [user |-> KeyUser(r), status |-> "unassigned"]
    <2>1. pc'[r] = "assign" /\ Write(c, K(r), v) /\ tx' = tx
      BY <1>3 DEF InsertKey, CreateUserAPIKey, Goto, Inv, Typed, K
    <2>2. v \in Values \ {None}
      <3>1. KeyUser(r) \in Requests
        BY <1>1, <1>2 DEF InPlace, InTx, WorkFits, WellAsked, KeyUser
      <3> QED
        BY <3>1, NoneIsNoValue DEF KeyRow, Values
    <2>3. ASSUME r \notin joined PROVE DraftFits(r)'
      <3>1. \A i \in Rows : draft'[c][i] = IF i = K(r) THEN v ELSE draft[c][i]
        BY <1>1, <2>1, <2>3, WriteRows, RowNames
      <3>2. \A i \in Rows : draft[c][i] = None
        BY <1>1, <1>2, <2>3 DEF DraftFits, InTx
      <3>3. \A i \in Rows : draft'[c][i] # None => i = K(r)
        BY <3>1, <3>2
      <3> QED
        BY <1>1, <2>1, <3>3 DEF DraftFits, InTx, K
    <2> HIDE DEF v
    <2> QED
      BY <1>1, <2>1, <2>2, <2>3, PutOrders
  <1>4. CASE ~(View(c)[<<"user", KeyUser(r)>>] # None)
    <2>1. /\ pc'[r] = "rollback" /\ db' = db /\ draft'[c] = Blank
          /\ tx[c] = "open" => tx'[c] = "aborted"
      BY <1>1, <1>4 DEF InsertKey, Goto, Inv, Typed
    <2> QED
      BY <1>1, <2>1, RollbackOrders
  <1> QED
    BY <1>3, <1>4

LEMMA AssignKeyOrders ==
    ASSUME Inv, Orderly, NEW r \in Requests, AssignKey(r)
    PROVE  Orders(r)
  <1> DEFINE c == Conn(r)
             w == View(c)[K(r)]
             v == [w EXCEPT !.status = "assigned"]
  <1>1. /\ Local(r) /\ ask'[r] = ask[r] /\ work'[r] = work[r] /\ Conn(r)' = c
        /\ joined' = joined /\ c \in Conns /\ tx[c] \notin {"aborted", "closed"}
        /\ r \notin joined => tx[c] = "open" /\ DraftFits(r)
        /\ pc[r] \in InTx /\ WellAsked(r) /\ InPlace(r)
    BY InsideMoves
  <1>2. pc[r] = "assign" /\ tx' = tx
    BY DEF AssignKey, Executes, Runs
  <1>3. CASE w = None
    <2>1. pc'[r] = "rollback" /\ db' = db /\ draft' = draft
      BY <1>3 DEF AssignKey, Goto, Inv, Typed, K
    <2> QED
      BY <1>1, <1>2, <2>1, RollbackOrders
  <1>4. CASE w # None
    <2>1. pc'[r] = "commit" /\ Write(c, K(r), v)
      BY <1>4 DEF AssignKey, UpdateAPIKeyStatus, Goto, Inv, Typed, K
    <2>2. v \in Values /\ v # None /\ v.status = "assigned"
      <3>1. Holds(K(r), w) /\ w \in Values
        BY <1>1, <1>4, RowNames, ViewRow DEF Inv, Typed
      <3>2. w \in KeyRow
        BY <3>1 DEF Inv, Stored, RowsFit, KeyFits
      <3>3. v \in KeyRow /\ v.status = "assigned"
        BY <3>2 DEF KeyRow
      <3> QED
        BY <3>3, NoneIsNoValue DEF Values
    <2> HIDE DEF v
    <2>3. ASSUME r \notin joined PROVE DraftFits(r)'
      <3>1. \A i \in Rows : draft'[c][i] = IF i = K(r) THEN v ELSE draft[c][i]
        BY <1>1, <2>1, <2>3, WriteRows, RowNames
      <3>2. draft'[c][K(r)] # None /\ draft'[c][K(r)].status = "assigned"
        BY <2>2, <3>1, RowNames
      <3>3. work[r] = "key"
        BY <1>1, <1>2 DEF InPlace
      <3> QED
        BY <1>1, <2>1, <3>2, <3>3 DEF DraftFits, InTx, U, K, Q
    <2> QED
      BY <1>1, <1>2, <2>1, <2>2, <2>3, PutOrders
  <1> QED
    BY <1>3, <1>4

LEMMA InitializeQuotaOrders ==
    ASSUME Inv, Orderly, NEW r \in Requests, InitializeQuota(r)
    PROVE  Orders(r)
  <1> DEFINE c == Conn(r)
             k == ask[r].key
  <1>1. /\ Local(r) /\ ask'[r] = ask[r] /\ work'[r] = work[r] /\ Conn(r)' = c
        /\ joined' = joined /\ c \in Conns /\ tx[c] \notin {"aborted", "closed"}
        /\ r \notin joined => tx[c] = "open" /\ DraftFits(r)
        /\ pc[r] \in InTx /\ WellAsked(r) /\ InPlace(r)
    BY InsideMoves
  <1>2. pc[r] = "quota"
    BY DEF InitializeQuota, Executes, Runs
  <1>3. CASE View(c)[K(k)] # None
    <2>1. pc'[r] = "commit" /\ Write(c, Q(k), r) /\ tx' = tx
      BY <1>3 DEF InitializeQuota, InitializeKeyServiceQuota, Goto, Inv, Typed, K, Q
    <2>2. work[r] = "quota" /\ k \in Requests /\ Q(k) \in Quotas /\ r \in Values \ {None}
      BY <1>1, <1>2, RowNames, NoneIsNoValue DEF InPlace, InTx, WorkFits, WellAsked, Values
    <2>3. ASSUME r \notin joined PROVE DraftFits(r)'
      <3>1. \A i \in Rows : draft'[c][i] = IF i = Q(k) THEN r ELSE draft[c][i]
        BY <1>1, <2>1, <2>2, <2>3, WriteRows, RowNames
      <3>2. \A i \in Rows : draft[c][i] = None
        BY <1>1, <1>2, <2>3 DEF DraftFits, InTx
      <3>3. draft'[c][Q(k)] # None /\ draft'[c][K(r)] = None
        BY <2>2, <3>1, <3>2, RowNames, RowsDiffer
      <3> QED
        BY <1>1, <2>1, <2>2, <3>3 DEF DraftFits, InTx, U, K, Q
    <2> QED
      BY <1>1, <2>1, <2>2, <2>3, PutOrders
  <1>4. CASE ~(View(c)[K(k)] # None)
    <2>1. /\ pc'[r] = "rollback" /\ db' = db /\ draft'[c] = Blank
          /\ tx[c] = "open" => tx'[c] = "aborted"
      BY <1>1, <1>4 DEF InitializeQuota, Goto, Inv, Typed, K
    <2> QED
      BY <1>1, <2>1, RollbackOrders
  <1> QED
    BY <1>3, <1>4

(* What ends a transaction or fails. *)
LEMMA EndingLocal ==
    ASSUME Inv, NEW r \in Requests, Commit(r) \/ Rollback(r) \/ StatementFails(r) \/ CutOff(r)
    PROVE  /\ Local(r) /\ ask'[r] = ask[r] /\ Conn(r)' = Conn(r) /\ joined' = joined
           /\ Conn(r) \in Conns /\ pc[r] \in Statements /\ WellAsked(r) /\ InPlace(r)
           /\ tx[Conn(r)] \in {"idle", "open", "aborted", "closed"}
           /\ ~Commit(r) => work'[r] = work[r]
  <1>1. pc[r] \in Statements
    BY DEF Commit, Rollback, StatementFails, CutOff, Runs, Statements
  <1>2. Conn(r) \in Conns /\ WellAsked(r) /\ InPlace(r)
    BY <1>1, AtStatement DEF Inv
  <1>3. \A d \in Conns \ {Conn(r)} : tx'[d] = tx[d] /\ draft'[d] = draft[d]
    BY DEF Commit, Rollback, StatementFails, CutOff, EndTx, Inv, Typed
  <1>4. ask' = ask /\ Conn(r)' = Conn(r) /\ joined' = joined
    BY DEF Commit, Rollback, StatementFails, CutOff, Conn
  <1>5. PICK p \in Statements \cup Ends : pc' = [pc EXCEPT ![r] = p]
    <2>1. AfterCommit(r) \in Statements \cup Ends
      BY DEF AfterCommit, Statements, Ends
    <2>2. AfterError(pc[r]) \in Statements \cup Ends
      BY DEF AfterError, Statements, Ends
    <2> QED
      BY <2>1, <2>2 DEF Commit, Rollback, StatementFails, CutOff, Goto, Ends
  <1>6. pc'[r] # "idle" /\ \A q \in Requests \ {r} : pc'[q] = pc[q]
    BY <1>5 DEF Inv, Typed, Statements, Ends
  <1>7. /\ \A q \in Requests \ {r} : work'[q] = work[q]
        /\ ~Commit(r) => work'[r] = work[r]
    BY DEF Commit, Rollback, StatementFails, CutOff, Inv, Typed
  <1>8. tx[Conn(r)] \in {"idle", "open", "aborted", "closed"}
    BY <1>2 DEF Inv, Typed
  <1>9. Local(r)
    BY <1>1, <1>2, <1>3, <1>4, <1>6, <1>7 DEF Local, Conn
  <1> QED
    BY <1>1, <1>2, <1>4, <1>7, <1>8, <1>9

LEMMA CommitOrders ==
    ASSUME Inv, Orderly, NEW r \in Requests, Commit(r)
    PROVE  Orders(r)
  <1> DEFINE c == Conn(r)
  <1>1. /\ Local(r) /\ ask'[r] = ask[r] /\ Conn(r)' = c /\ joined' = joined
        /\ c \in Conns /\ pc[r] \in Statements /\ WellAsked(r) /\ InPlace(r)
        /\ tx[c] \in {"idle", "open", "aborted", "closed"}
    BY EndingLocal
  <1>2. pc[r] = "commit" /\ tx[c] # "closed" /\ tx'[c] = "idle" /\ draft'[c] = Blank
    BY <1>1 DEF Commit, Runs, EndTx, Inv, Typed
  <1>3. CASE tx[c] = "aborted"
    <2>1. pc'[r] = "failed" /\ db' = db
      BY <1>3 DEF Commit, Goto, Inv, Typed
    <2> QED
      BY <1>1, <1>2, <2>1
      DEF Orders, Shape, Finishes, InTxFits, Answered, Finds, TxStatements, InTx
  <1>4. CASE tx[c] # "aborted"
    <2>1. db' = View(c) /\ pc'[r] = AfterCommit(r)
      BY <1>4 DEF Commit, Goto, Inv, Typed
    <2>2. AfterCommit(r) \in {"begin", "fetch", "answered"}
      BY DEF AfterCommit
    <2>3. Shape(r)
      BY <1>1, <1>2, <2>1, <2>2 DEF Shape, Finishes, TxStatements, InTx
    <2>4. InTxFits(r)' /\ Finds(r)
      BY <1>1, <2>1, <2>2 DEF InTxFits, Finds, TxStatements, InTx
    <2>5. ASSUME r \notin joined, AfterCommit(r) = "answered"
          PROVE  /\ ask[r].kind \in {"user", "invite"} => db'[U(r)] # None
                 /\ ask[r].kind \in {"key", "invite"} => db'[K(r)] # None
                 /\ ask[r].kind = "quota" => db'[Q(ask[r].key)] # None
      <3>1. ask[r].kind # "invite"
        BY <2>5 DEF AfterCommit
      <3>2. tx[c] = "open" /\ DraftFits(r)
        BY <1>1, <1>2, <1>4, <2>5 DEF Orderly, Apart, InTxFits, TxStatements
      <3>3. WorkFits(r)
        BY <1>1, <1>2 DEF InPlace
      <3>4. \A i \in Rows : draft[c][i] # None => db'[i] # None
        BY <1>1, <2>1, ViewRow
      <3>5. U(r) \in Rows /\ K(r) \in Rows /\ (ask[r].kind = "quota" => Q(ask[r].key) \in Rows)
        BY <1>1, RowNames DEF WellAsked
      <3> QED
        BY <1>2, <3>1, <3>2, <3>3, <3>4, <3>5 DEF WorkFits, DraftFits
    <2>6. r \notin joined => Answered(r)'
      BY <1>1, <2>1, <2>5 DEF Answered, U, K, Q
    <2> QED
      BY <1>1, <2>3, <2>4, <2>6 DEF Orders
  <1> QED
    BY <1>3, <1>4

LEMMA RollbackEnds ==
    ASSUME Inv, Orderly, NEW r \in Requests, Rollback(r)
    PROVE  Orders(r)
  <1>1. Local(r) /\ ask'[r] = ask[r] /\ joined' = joined /\ Conn(r) \in Conns
    BY EndingLocal
  <1>2. /\ pc[r] = "rollback" /\ pc'[r] = "failed" /\ db' = db
        /\ tx'[Conn(r)] = "idle" /\ draft'[Conn(r)] = Blank
    BY <1>1 DEF Rollback, Runs, EndTx, Goto, Inv, Typed
  <1> QED
    BY <1>1, <1>2
    DEF Orders, Shape, Finishes, InTxFits, Answered, Finds, TxStatements, InTx

LEMMA CutOffOrders ==
    ASSUME Inv, Orderly, NEW r \in Requests, CutOff(r)
    PROVE  Orders(r)
  <1> DEFINE c == Conn(r)
  <1>1. /\ Local(r) /\ ask'[r] = ask[r] /\ Conn(r)' = c /\ joined' = joined
        /\ c \in Conns /\ pc[r] \in Statements
    BY EndingLocal
  <1>2. /\ pc'[r] = AfterError(pc[r]) /\ tx'[c] = "closed" /\ draft'[c] = Blank
        /\ db' = db \/ (pc[r] = "commit" /\ db' = View(c))
    BY <1>1 DEF CutOff, EndTx, Goto, Inv, Typed
  <1>3. /\ AfterError(pc[r]) \in {"user", "rollback", "failed"}
        /\ AfterError(pc[r]) \in TxStatements => pc[r] \in TxStatements
    BY DEF AfterError, TxStatements, InTx
  <1>4. Shape(r)
    BY <1>1, <1>2, <1>3 DEF Shape, Finishes
  <1>5. InTxFits(r)' /\ Answered(r)' /\ Finds(r)
    BY <1>1, <1>2, <1>3 DEF InTxFits, Answered, Finds
  <1> QED
    BY <1>1, <1>4, <1>5 DEF Orders

(* An error before or after a transaction closes the connection or finds   *)
(* the transaction ended; one within leads on to the rollback.             *)
LEMMA StatementFailsOrders ==
    ASSUME Inv, Orderly, NEW r \in Requests, StatementFails(r)
    PROVE  Orders(r)
  <1> DEFINE c == Conn(r)
  <1>1. /\ Local(r) /\ ask'[r] = ask[r] /\ Conn(r)' = c /\ c \in Conns /\ pc[r] \in Statements
        /\ joined' = joined /\ work'[r] = work[r]
        /\ tx[c] \in {"idle", "open", "aborted", "closed"}
    BY EndingLocal DEF Commit, StatementFails
  <1>2. /\ pc'[r] = AfterError(pc[r]) /\ db' = db
        /\ Closes(r) => tx'[c] = "closed" /\ draft'[c] = Blank
        /\ ~Closes(r) => tx' = tx /\ draft' = draft
    BY <1>1 DEF StatementFails, EndTx, Goto, Inv, Typed
  <1>3. ASSUME r \notin joined, pc[r] \in TxStatements
        PROVE  tx[c] # "idle" /\ (tx[c] = "open" => DraftFits(r))
    BY <1>3 DEF Orderly, Apart, InTxFits
  <1>4. CASE pc[r] \in InTx \ {"check"}
    <2>1. pc'[r] = "rollback" /\ ~Closes(r)
      BY <1>2, <1>4 DEF AfterError, Closes, InTx
    <2> QED
      BY <1>1, <1>2, <1>3, <1>4, <2>1, RollbackOrders DEF TxStatements
  <1>5. CASE pc[r] = "check"
    <2>1. pc'[r] = "user" /\ tx' = tx /\ draft' = draft
      BY <1>2, <1>5 DEF AfterError, Closes
    <2>2. Shape(r)
      BY <1>1, <1>2, <1>5, <2>1 DEF Shape, Reads, TxStatements, InTx
    <2>3. ASSUME r \notin joined PROVE InTxFits(r)'
      <3>1. tx[c] # "idle"
        BY <1>3, <1>5, <2>3 DEF TxStatements, InTx
      <3>2. tx[c] = "open" => \A i \in Rows : draft[c][i] = None
        BY <1>3, <1>5, <2>3 DEF TxStatements, InTx, DraftFits
      <3> QED
        BY <1>1, <2>1, <3>1, <3>2 DEF InTxFits, DraftFits
    <2> QED
      BY <1>1, <2>1, <2>2, <2>3 DEF Orders, Answered, Finds
  <1>6. CASE pc[r] \notin InTx
    <2>1. pc'[r] = "failed"
      BY <1>2, <1>6 DEF AfterError, InTx
    <2>2. Shape(r)
      <3>1. CASE Closes(r)
        BY <1>1, <1>2, <2>1, <3>1 DEF Shape, Finishes, TxStatements, InTx
      <3>2. CASE ~Closes(r)
        <4>1. pc[r] \in TxStatements => tx[c] = "idle"
          BY <1>6, <3>2 DEF Closes, TxStatements
        <4> QED
          BY <1>1, <1>2, <2>1, <3>2, <4>1 DEF Shape, Reads, TxStatements, InTx
      <3> QED
        BY <3>1, <3>2
    <2> QED
      BY <1>1, <2>1, <2>2 DEF Orders, InTxFits, Answered, Finds, TxStatements, InTx
  <1> QED
    BY <1>4, <1>5, <1>6

(* The staff service, whose connection never has a transaction. *)
LEMMA StaffView ==
    ASSUME Inv, Orderly
    PROVE  \A i \in Rows : View(StaffConn)[i] = db[i]
  <1>1. StaffConn \in Conns
    BY DEF Conns
  <1>2. ASSUME NEW q \in Requests, pc[q] \in TxStatements, ask[q].conn = StaffConn PROVE FALSE
    <2>1. WellAsked(q) /\ InPlace(q)
      BY <1>2, InsideIsTx, AtStatement DEF Inv
    <2>2. ask[q].kind = "mail"
      BY <1>2, <2>1 DEF WellAsked
    <2> QED
      BY <1>2, <2>1, <2>2 DEF InPlace, WorkFits, TxStatements
  <1> QED
    BY <1>1, <1>2, NoTx

LEMMA StaffLocal ==
    ASSUME Inv, Orderly, NEW r \in Requests, SendInstructionHandler(r), Answers
    PROVE  /\ Local(r) /\ joined' = joined /\ db' = db
           /\ pc'[r] \notin TxStatements => Shape(r)
           /\ \A i \in Rows : View(Conn(r))[i] = db[i]
           /\ pc[r] \in Statements /\ WellAsked(r) /\ InPlace(r)
           /\ ask[r].kind = "mail" /\ ask'[r].kind = "mail"
  <1>1. pc[r] \in {"allow", "keys"} /\ pc[r] \in Statements \ TxStatements
    BY DEF SendInstructionHandler, AllowList, IdToKey, Executes, Runs, Statements,
           TxStatements, InTx
  <1>2. Arrived(r) /\ WellAsked(r) /\ InPlace(r) /\ Conn(r) \in Conns
    BY <1>1, AtStatement DEF Inv
  <1>3. ask[r].kind = "mail" /\ ask[r].conn = StaffConn
    BY <1>1, <1>2 DEF InPlace, WellAsked
  <1>4. UNCHANGED <<db, draft, tx, work, joined>>
    BY DEF SendInstructionHandler, AllowList, IdToKey
  <1>5. \A q \in Requests \ {r} : pc'[q] = pc[q] /\ ask'[q] = ask[q]
    BY DEF SendInstructionHandler, AllowList, IdToKey, SendInstruction, Goto, Inv, Typed
  <1>6. Arrived(r)' /\ ask'[r].kind = "mail"
    BY <1>2, <1>3 DEF Answers, Kept
  <1>7. ask'[r].conn = StaffConn
    BY <1>6 DEF Answers, Asked, WellAsked
  <1>8. Local(r)
    BY <1>1, <1>2, <1>3, <1>4, <1>5, <1>6, <1>7 DEF Local, Conn, Arrived
  <1>9. pc'[r] \notin TxStatements => Shape(r)
    BY <1>1, <1>4 DEF Shape, Reads
  <1>10. \A i \in Rows : View(Conn(r))[i] = db[i]
    BY <1>3, StaffView DEF Conn
  <1> QED
    BY <1>1, <1>2, <1>3, <1>4, <1>6, <1>8, <1>9, <1>10

LEMMA AllowListOrders ==
    ASSUME Inv, Orderly, NEW r \in Requests, AllowList(r)
    PROVE  Orders(r)
  <1>1. /\ Local(r) /\ (pc'[r] \notin TxStatements => Shape(r))
        /\ \A i \in Rows : View(Conn(r))[i] = db[i]
        /\ WellAsked(r) /\ InPlace(r) /\ db' = db /\ ask'[r].kind = "mail"
    BY StaffLocal, AllowListAnswers DEF SendInstructionHandler
  <1> DEFINE found == GetUserByEmail(Conn(r), ask[r].email)
             i == CHOOSE x \in found : TRUE
  <1>2. pc[r] = "allow"
    BY DEF AllowList, Executes, Runs
  <1>3. pc'[r] \in {"failed", "keys"}
    BY DEF AllowList, Goto, Inv, Typed
  <1>4. Shape(r) /\ InTxFits(r)' /\ Answered(r)'
    BY <1>1, <1>3 DEF InTxFits, Answered, TxStatements, InTx
  <1>5. CASE found = {}
    <2>1. ask'[r] = ask[r] /\ pc'[r] = "failed"
      BY <1>5 DEF AllowList, Goto, Inv, Typed
    <2> QED
      BY <1>1, <1>4, <2>1 DEF Orders, Finds
  <1>6. CASE found # {}
    <2>1. ask'[r] = [ask[r] EXCEPT !.user = i[2]]
      BY <1>6 DEF AllowList, Inv, Typed
    <2>2. i \in Users /\ View(Conn(r))[i] = ask[r].email
      BY <1>6 DEF GetUserByEmail
    <2>3. i[2] \in Requests /\ i = U(i[2]) /\ db'[i] = ask[r].email
      BY <1>1, <2>2, RowNames
    <2> HIDE DEF i
    <2>4. ask'[r].user = i[2] /\ ask'[r].key = ask[r].key /\ ask'[r].email = ask[r].email
      BY <1>1, <2>1 DEF WellAsked, Ask
    <2>5. ask[r].key = None
      BY <1>1, <1>2 DEF InPlace
    <2>6. Mailed(r)'
      BY <2>3, <2>4, <2>5 DEF Mailed, U, K
    <2> QED
      BY <1>1, <1>4, <2>6 DEF Orders, Finds
  <1> QED
    BY <1>5, <1>6

LEMMA IdToKeyOrders ==
    ASSUME Inv, Orderly, NEW r \in Requests, IdToKey(r)
    PROVE  Orders(r)
  <1>1. /\ Local(r) /\ (pc'[r] \notin TxStatements => Shape(r))
        /\ \A i \in Rows : View(Conn(r))[i] = db[i]
        /\ WellAsked(r) /\ InPlace(r) /\ db' = db /\ ask[r].kind = "mail" /\ ask'[r].kind = "mail"
        /\ pc[r] \in Statements
    BY StaffLocal, IdToKeyAnswers DEF SendInstructionHandler
  <1>2. pc[r] = "keys"
    BY DEF IdToKey, Executes, Runs
  <1>3. pc'[r] \in Ends
    BY DEF IdToKey, SendInstruction, Goto, Inv, Typed, Ends
  <1>4. Shape(r) /\ InTxFits(r)' /\ (r \notin joined' => Answered(r)')
    BY <1>1, <1>3 DEF InTxFits, Answered, TxStatements, InTx, Ends
  <1>5. CASE ask' = ask
    BY <1>1, <1>3, <1>4, <1>5 DEF Orders, Finds, Ends
  <1>6. ASSUME NEW i \in GetAPIKeysByUserID(Conn(r), ask[r].user), SendInstruction(r, i[2])
        PROVE  Mailed(r)'
    <2>1. /\ i \in Keys /\ View(Conn(r))[i] # None /\ View(Conn(r))[i].user = ask[r].user
      BY DEF GetAPIKeysByUserID
    <2>2. i[2] \in Requests /\ i = K(i[2]) /\ i \in Rows
      BY <2>1, RowNames
    <2>3. db[i] # None /\ db[i].user = ask[r].user
      BY <1>1, <2>1, <2>2
    <2>4. ask'[r] = [ask[r] EXCEPT !.key = i[2]]
      BY <1>6 DEF SendInstruction, Inv, Typed
    <2>5. ask'[r].user = ask[r].user /\ ask'[r].key = i[2] /\ ask'[r].email = ask[r].email
      BY <1>1, <2>4 DEF WellAsked, Ask
    <2>6. ask[r].user \in Requests /\ db[U(ask[r].user)] = ask[r].email
      BY <1>1, <1>2 DEF Orderly, Mailed, Arrived
    <2> QED
      BY <1>1, <2>2, <2>3, <2>5, <2>6 DEF Mailed, U, K
  <1>7. CASE \E i \in GetAPIKeysByUserID(Conn(r), ask[r].user) : SendInstruction(r, i[2])
    BY <1>1, <1>4, <1>6, <1>7 DEF Orders, Finds
  <1> QED
    BY <1>5, <1>7 DEF IdToKey

-----------------------------------------------------------------------------
(* The other steps.                                                        *)

LEMMA StaysOrderly ==
    ASSUME Orderly, UNCHANGED <<db, draft, tx, ask, pc, work, joined>>
    PROVE  Orderly'
  <1>1. HasHandler'
    BY DEF Orderly, HasHandler
  <1>2. \A r \in Requests : Mailed(r)'
    BY DEF Orderly, Mailed, Arrived, U, K
  <1>3. \A r \in Requests \ joined' : Alone(r)' /\ InTxFits(r)'
    BY DEF Orderly, Apart, Alone, InTxFits, DraftFits, Conn, U, K, Q
  <1>4. \A r \in Requests \ joined' : Drawn(r)' /\ Assigned(r)' /\ Answered(r)'
    BY DEF Orderly, Apart, Drawn, Assigned, Answered, Conn, U, K, Q
  <1> QED
    BY <1>1, <1>2, <1>3, <1>4 DEF Orderly, Apart

LEMMA ArriveOrderly ==
    ASSUME Inv, Orderly, NEW r \in Requests, Arrive(r)
    PROVE  Orderly'
  <1>1. PICK a \in Ask :
          /\ a.key \in Requests <=> a.kind = "quota"
          /\ ask' = [ask EXCEPT ![r] = a]
    BY DEF Arrive
  <1>2. /\ pc'[r] \in {"list", "users", "owner", "allow", "begin"}
        /\ \A q \in Requests \ {r} : pc'[q] = pc[q]
    BY DEF Arrive, Goto, Inv, Typed
  <1>3. ask'[r] = a /\ \A q \in Requests \ {r} : ask'[q] = ask[q]
    BY <1>1 DEF Inv, Typed
  <1>4. /\ db' = db /\ draft' = draft /\ tx' = tx /\ joined' = joined
        /\ \A q \in Requests \ {r} : work'[q] = work[q]
    BY DEF Arrive, Inv, Typed
  <1>5. pc[r] \notin TxStatements /\ pc'[r] \notin TxStatements
    BY <1>2 DEF Arrive, TxStatements, InTx
  <1>6. HasHandler'
    <2>1. ASSUME NEW c \in Conns, tx[c] \in {"open", "aborted"}
          PROVE  \E q \in Requests : pc'[q] \in TxStatements /\ ask'[q].conn = c
      <3>1. PICK q \in Requests : pc[q] \in TxStatements /\ ask[q].conn = c
        BY <2>1 DEF Orderly, HasHandler
      <3>2. q # r
        BY <1>5, <3>1
      <3> QED
        BY <1>2, <1>3, <3>1, <3>2
    <2> QED
      BY <1>4, <2>1 DEF HasHandler
  <1>7. ASSUME NEW q \in Requests \ joined, q # r PROVE Apart(q)'
    <2>1. /\ pc'[q] = pc[q] /\ ask'[q] = ask[q] /\ work'[q] = work[q]
          /\ db' = db /\ draft' = draft /\ tx' = tx
      BY <1>2, <1>3, <1>4, <1>7
    <2>2. Alone(q) /\ InTxFits(q) /\ Drawn(q) /\ Assigned(q) /\ Answered(q)
      BY <1>7 DEF Orderly, Apart
    <2>3. Alone(q)'
      BY <1>2, <1>3, <1>5, <2>1, <2>2 DEF Alone, Conn
    <2>4. InTxFits(q)'
      BY <2>1, <2>2 DEF InTxFits, DraftFits, Conn, U, K, Q
    <2>5. Drawn(q)' /\ Assigned(q)' /\ Answered(q)'
      BY <2>1, <2>2 DEF Drawn, Assigned, Answered, Conn, U, K, Q
    <2> QED
      BY <2>3, <2>4, <2>5 DEF Apart
  <1>8. ASSUME r \notin joined PROVE Apart(r)'
    <2>1. Drawn(r) /\ Assigned(r)
      BY <1>8 DEF Orderly, Apart
    <2>2. Drawn(r)' /\ Assigned(r)'
      BY <1>4, <1>5, <2>1 DEF Drawn, Assigned, U, K
    <2>3. Alone(r)' /\ InTxFits(r)' /\ Answered(r)'
      BY <1>2, <1>5 DEF Alone, InTxFits, Answered
    <2> QED
      BY <2>2, <2>3 DEF Apart
  <1>9. ASSUME NEW q \in Requests, q # r PROVE Mailed(q)'
    <2>1. pc'[q] = pc[q] /\ ask'[q] = ask[q] /\ db' = db /\ Mailed(q)
      BY <1>2, <1>3, <1>4, <1>9 DEF Orderly
    <2> QED
      BY <2>1 DEF Mailed, Arrived, U, K
  <1>10. Mailed(r)'
    <2>1. a.kind = "mail" => a.key = None
      BY <1>1 DEF Ask
    <2> QED
      BY <1>2, <1>3, <2>1 DEF Mailed
  <1> QED
    BY <1>4, <1>6, <1>7, <1>8, <1>9, <1>10 DEF Orderly

LEMMA RestartOrderly ==
    ASSUME Inv, Orderly, NEW c \in Conns, Restart(c)
    PROVE  Orderly'
  <1>1. /\ \A q \in Active(c) : pc'[q] = "failed" /\ pc[q] \in Statements
        /\ \A q \in Requests \ Active(c) : pc'[q] = pc[q]
    BY DEF Restart, Active
  <1>2. ask' = ask /\ work' = work /\ db' = db /\ joined' = joined
    BY DEF Restart
  <1>3. /\ \A d \in Conns \ {c} : tx'[d] = tx[d] /\ draft'[d] = draft[d]
        /\ tx'[c] = "idle" /\ draft'[c] = Blank
    BY DEF Restart, EndTx, Inv, Typed
  <1>4. "failed" \notin TxStatements
    BY DEF TxStatements, InTx
  <1>5. \A q \in Requests : pc'[q] \in TxStatements =>
           pc'[q] = pc[q] /\ pc[q] \in TxStatements /\ Conn(q) \in Conns \ {c}
    <2>1. ASSUME NEW q \in Requests, pc'[q] \in TxStatements
          PROVE  pc'[q] = pc[q] /\ pc[q] \in TxStatements /\ Conn(q) \in Conns \ {c}
      <3>1. q \notin Active(c) /\ pc'[q] = pc[q] /\ pc[q] \in Statements
        BY <1>1, <1>4, <2>1, InsideIsTx
      <3> QED
        BY <2>1, <3>1, AtStatement DEF Active, Inv
    <2> QED
      BY <2>1
  <1>6. \A q \in Requests : pc[q] \in TxStatements /\ ask[q].conn # c => pc'[q] = pc[q]
    BY <1>1 DEF Active, Conn
  <1>7. HasHandler'
    BY <1>2, <1>3, <1>6 DEF Orderly, HasHandler
  <1>8. ASSUME NEW q \in Requests \ joined PROVE Apart(q)'
    <2>1. Alone(q) /\ InTxFits(q) /\ Drawn(q) /\ Assigned(q) /\ Answered(q)
      BY DEF Orderly, Apart
    <2>2. Alone(q)'
      BY <1>2, <1>5, <2>1 DEF Alone, Conn
    <2>3. InTxFits(q)'
      <3>1. SUFFICES ASSUME pc'[q] \in TxStatements PROVE InTxFits(q)'
        BY DEF InTxFits
      <3>2. /\ pc'[q] = pc[q] /\ pc[q] \in TxStatements
            /\ tx'[Conn(q)] = tx[Conn(q)] /\ draft'[Conn(q)] = draft[Conn(q)]
        BY <1>3, <1>5, <3>1
      <3> QED
        BY <1>2, <2>1, <3>2 DEF InTxFits, DraftFits, Conn, U, K, Q
    <2>4. Drawn(q)'
      <3>1. ASSUME NEW d \in Conns, draft'[d][U(q)] # None \/ draft'[d][K(q)] # None
            PROVE  pc'[q] \in TxStatements /\ ask[q].conn = d
        <4>1. d # c
          BY <1>3, <3>1, BlankRow, RowNames
        <4>2. pc[q] \in TxStatements /\ ask[q].conn = d
          BY <1>3, <2>1, <3>1, <4>1 DEF Drawn, Conn
        <4> QED
          BY <1>6, <4>1, <4>2
      <3> QED
        BY <1>2, <3>1 DEF Drawn, Conn, U, K
    <2>5. pc'[q] = pc[q] \/ pc'[q] = "failed"
      BY <1>1
    <2>6. Assigned(q)' /\ Answered(q)'
      BY <1>2, <2>1, <2>5 DEF Assigned, Answered, U, K, Q
    <2> QED
      BY <2>2, <2>3, <2>4, <2>6 DEF Apart
  <1>9. ASSUME NEW q \in Requests PROVE Mailed(q)'
    <2>1. pc'[q] = pc[q] \/ (pc'[q] = "failed" /\ pc[q] \in Statements)
      BY <1>1
    <2>2. Arrived(q)' => Arrived(q)
      BY <2>1 DEF Arrived, Statements
    <2>3. Mailed(q)
      BY DEF Orderly
    <2> QED
      BY <1>2, <2>1, <2>2, <2>3 DEF Mailed, U, K
  <1> QED
    BY <1>2, <1>7, <1>8, <1>9 DEF Orderly

LEMMA OrderlyInit == Init => Orderly
  <1> SUFFICES ASSUME Init PROVE Orderly
    OBVIOUS
  <1>1. "idle" \notin TxStatements
    BY DEF TxStatements, InTx
  <1>2. HasHandler /\ \A r \in Requests : Mailed(r)
    BY DEF Init, HasHandler, Mailed, Arrived
  <1>3. ASSUME NEW r \in Requests PROVE Apart(r)
    <2>1. \A i \in Rows : db[i] = None /\ \A c \in Conns : draft[c][i] = None
      BY BlankRow DEF Init
    <2>2. Drawn(r) /\ Assigned(r)
      <3>1. U(r) \in Rows /\ K(r) \in Rows
        BY RowNames
      <3>2. db[K(r)] = None /\ \A c \in Conns : draft[c][U(r)] = None /\ draft[c][K(r)] = None
        BY <2>1, <3>1
      <3> QED
        BY <3>2 DEF Drawn, Assigned
    <2>3. Alone(r) /\ InTxFits(r) /\ Answered(r)
      BY <1>1 DEF Init, Alone, InTxFits, Answered
    <2> QED
      BY <2>2, <2>3 DEF Apart
  <1> QED
    BY <1>2, <1>3 DEF Orderly

LEMMA OrderlyNext == Inv /\ Inv' /\ Orderly /\ [Next]_vars => Orderly'
  <1> SUFFICES ASSUME Inv, Inv', Orderly, [Next]_vars PROVE Orderly'
    OBVIOUS
  <1>1. CASE UNCHANGED vars
    BY <1>1, StaysOrderly DEF vars
  <1>2. CASE Next
    <2>1. Kept
      BY <1>2, NextAnswersAndTouches DEF Answers
    <2>2. ASSUME NEW r \in Requests, Arrive(r) PROVE Orderly'
      BY <2>2, ArriveOrderly
    <2>3. ASSUME NEW r \in Requests, Step(r) PROVE Orders(r)
      BY <2>3, ReadsOrder, BeginOrders, ReadsInsideOrder, InsertUserOrders, InsertKeyOrders,
         AssignKeyOrders, InitializeQuotaOrders, CommitOrders, RollbackEnds, AllowListOrders,
         IdToKeyOrders, StatementFailsOrders
      DEF Step, SendInstructionHandler
    <2>4. ASSUME NEW r \in Requests, Disconnect(r) PROVE Orderly'
      BY <2>4, StaysOrderly DEF Disconnect
    <2>5. ASSUME NEW r \in Requests, CutOff(r) PROVE Orders(r)
      BY <2>5, CutOffOrders
    <2>6. ASSUME NEW c \in Conns, Restart(c) PROVE Orderly'
      BY <2>6, RestartOrderly
    <2> QED
      BY <1>2, <2>1, <2>2, <2>3, <2>4, <2>5, <2>6, OrderlyStep DEF Next
  <1> QED
    BY <1>1, <1>2

(* Requests that have not shared a transaction leave each other alone,     *)
(* whatever the others do on the same connection: Orderly.                 *)
THEOREM OrderlyHolds == Spec => [](Inv /\ Orderly)
  BY OrderlyNext, InvHolds, OrderlyInit, PTL DEF Spec

(* No transaction outlives its handlers: one that is open or aborted has a *)
(* handler in it, whoever left, closed or crashed.                         *)
THEOREM TransactionsEndCorrect == Spec => []TransactionsEnd
  <1>1. Orderly => TransactionsEnd
    BY InsideIsTx DEF Orderly, HasHandler, TransactionsEnd
  <1> QED
    BY <1>1, OrderlyHolds, PTL

(* The insertion and the assignment of a key are committed together, and   *)
(* what an error leaves is never committed by the next handler, unless     *)
(* another handler was in the transaction too (which commits it:           *)
(* Admin_unassigned.cfg).                                                  *)
THEOREM KeysAreAssignedCorrect == Spec => []KeysAreAssigned
  <1>1. Orderly => KeysAreAssigned
    BY DEF Orderly, Apart, Assigned, KeysAreAssigned, K
  <1> QED
    BY <1>1, OrderlyHolds, PTL

(* What was answered 201 is committed, and stays so, unless another        *)
(* handler was in the transaction too (which loses it: Admin_overlap.cfg). *)
THEOREM AnsweredIsStoredCorrect == Spec => []AnsweredIsStored
  <1>1. Inv /\ Orderly => AnsweredIsStored
    <2> SUFFICES ASSUME Inv, Orderly, NEW r \in Requests \ joined, pc[r] = "answered"
                 PROVE  /\ ask[r].kind \in {"user", "invite"} => db[U(r)] = ask[r].email
                        /\ ask[r].kind \in {"key", "invite"} => db[K(r)] # None
                        /\ ask[r].kind = "quota" => db[Q(ask[r].key)] # None
      BY DEF AnsweredIsStored, U, K, Q
    <2>1. /\ ask[r].kind \in {"user", "invite"} => db[U(r)] # None
          /\ ask[r].kind \in {"key", "invite"} => db[K(r)] # None
          /\ ask[r].kind = "quota" => db[Q(ask[r].key)] # None
      BY DEF Orderly, Apart, Answered
    <2> QED
      BY <2>1, Committed DEF UserFits
  <1> QED
    BY <1>1, OrderlyHolds, PTL

(* The staff service mails a key only to the address of the user it        *)
(* belongs to, whatever admins do between its statements and afterwards,   *)
(* in transactions of their own or shared.                                 *)
THEOREM KeysGoToTheirUsersCorrect == Spec => []KeysGoToTheirUsers
  <1>1. Inv /\ Orderly => KeysGoToTheirUsers
    <2> SUFFICES ASSUME Inv, Orderly, NEW r \in Requests, ask[r] # None,
                        ask[r].kind = "mail", ask[r].key # None
                 PROVE  /\ db[K(ask[r].key)] # None
                        /\ db[K(ask[r].key)].user = ask[r].user
                        /\ db[U(ask[r].user)] = ask[r].email
      BY DEF KeysGoToTheirUsers, U, K
    <2>1. Arrived(r)
      BY DEF Inv, Asked
    <2> QED
      BY <2>1 DEF Orderly, Mailed
  <1> QED
    BY <1>1, OrderlyHolds, PTL
=============================================================================
