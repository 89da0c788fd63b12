------------------------------- MODULE Admin -------------------------------
(***************************************************************************)
(* The admin API: every handler of a process works on the one pgx.Conn of  *)
(* that process, in transactions of several statements.  One step is one   *)
(* statement.  Handlers that overlap share the connection's transaction: a *)
(* second BEGIN only warns, and any COMMIT or ROLLBACK ends the work of    *)
(* all.  pgx closes a connection it no longer trusts and never reopens it. *)
(* A statement finds the connection free or busy; that two pass its        *)
(* unlocked flag at once, which NameServer models, is left out.            *)
(*                                                                         *)
(* The staff service, a process with a connection of its own, reads the    *)
(* same tables to mail a user a key.                                       *)
(***************************************************************************)
CONSTANTS
    Requests,   \* requests; each names the rows it inserts
    AdminConns, \* processes of the admin API, each with its connection
    StaffConn,  \* the connection of the staff service
    Emails,
    None,
    Faults      \* "disconnect": clients leave; "crash": processes restart

ASSUME FaultsAssumption == Faults \subseteq {"disconnect", "crash"}
ASSUME StaffAssumption == StaffConn \notin AdminConns

Conns == AdminConns \cup {StaffConn}

Users == {"user"} \X Requests
Keys == {"key"} \X Requests
Quotas == {"quota"} \X Requests   \* named by the request that made the key
Rows == Users \cup Keys \cup Quotas
KeyRow == [user : Requests, status : {"unassigned", "assigned"}]

VARIABLES
    db,     \* committed rows: a user's address, a key, who last wrote a quota
    draft,  \* rows written by the open transaction of each connection
    tx,     \* status of each connection: idle, in a transaction, in one that
            \* is aborted, or closed
    ask,    \* what each request asks, of which process
    gone,   \* requests whose context is cancelled
    pc,     \* the next statement of each request, or how it ended
    work,   \* the transaction it is in: a user, a key or a quota
    joined  \* history: requests whose transaction was another's at the same time

vars == <<db, draft, tx, ask, gone, pc, work, joined>>

Kinds == {"user", "invite", "key", "quota", "list", "mail"}
Ask == [kind : Kinds, conn : Conns, email : Emails \cup {None},
        user : Requests \cup {None}, key : Requests \cup {None}]

ASSUME NoneAssumption ==
    /\ None \notin Requests \cup AdminConns \cup {StaffConn} \cup Emails
    /\ None \notin KeyRow /\ None \notin Ask

Statements == {"list", "users", "owner", "services", "begin", "check", "user", "key", "assign",
               "service", "quota", "commit", "rollback", "fetch", "allow", "keys"}
Ends == {"answered", "failed"}   \* failed: by an error, or with its process

TypeOK ==
    /\ \A i \in Users : db[i] \in Emails \cup {None}
    /\ \A i \in Keys : db[i] \in KeyRow \cup {None}
    /\ \A i \in Quotas : db[i] \in Requests \cup {None}
    /\ draft \in [Conns -> [Rows -> Emails \cup KeyRow \cup Requests \cup {None}]]
    /\ tx \in [Conns -> {"idle", "open", "aborted", "closed"}]
    /\ ask \in [Requests -> Ask \cup {None}]
    /\ gone \subseteq Requests
    /\ pc \in [Requests -> {"idle"} \cup Statements \cup Ends]
    /\ work \in [Requests -> {"user", "key", "quota"}]
    /\ joined \subseteq Requests
    /\ \A c \in Conns : tx[c] \in {"idle", "closed"} => draft[c] = [i \in Rows |-> None]

Blank == [i \in Rows |-> None]

Init ==
    /\ db = Blank
    /\ draft = [c \in Conns |-> Blank]
    /\ tx = [c \in Conns |-> "idle"]
    /\ ask = [r \in Requests |-> None]
    /\ gone = {}
    /\ pc = [r \in Requests |-> "idle"]
    /\ work = [r \in Requests |-> "user"]
    /\ joined = {}

Conn(r) == ask[r].conn
Active(c) == {r \in Requests : pc[r] \in Statements /\ Conn(r) = c}

InTx == {"check", "user", "key", "assign", "service", "quota"}
Inside(c) == {r \in Active(c) : pc[r] \in InTx \cup {"commit", "rollback"}}

Over(d, base) == [i \in Rows |-> IF d[i] # None THEN d[i] ELSE base[i]]
View(c) == Over(draft[c], db)
Goto(r, p) == pc' = [pc EXCEPT ![r] = p]

-----------------------------------------------------------------------------
(* The connection.                                                         *)

(* A row is written in the open transaction, or at once without one. *)
Write(c, row, value) ==
    IF tx[c] = "open"
    THEN /\ draft' = [draft EXCEPT ![c][row] = value]
         /\ UNCHANGED db
    ELSE /\ db' = [db EXCEPT ![row] = value]
         /\ UNCHANGED draft

EndTxKeepingWrites(c, status) ==
    /\ tx' = [tx EXCEPT ![c] = status]
    /\ UNCHANGED draft
EndTx(c, status) ==
    /\ tx' = [tx EXCEPT ![c] = status]
    /\ draft' = [draft EXCEPT ![c] = Blank]

(* A row that another connection has written and not committed is locked.  *)
Locked(c, row) == \E d \in Conns \ {c} : draft[d][row] # None
EmailLocked(c, e) == \E d \in Conns \ {c}, i \in Users : draft[d][i] = e

(* The queries. *)
GetUserByEmail(c, e) == {i \in Users : View(c)[i] = e}
GetAPIKeyWithUser(c, key) == View(c)[<<"key", key>>]
GetAllAPIKeys(c, user) == {i \in Keys : View(c)[i] # None}
GetAPIKeysByUserID(c, user) == {i \in Keys : View(c)[i] # None /\ View(c)[i].user = user}
CreateUserAPIKey(c, key, user) ==
    Write(c, <<"key", key>>, [user |-> user, status |-> "unassigned"])
UpdateAPIKeyStatus(c, key, status) ==
    Write(c, <<"key", key>>, [View(c)[<<"key", key>>] EXCEPT !.status = status])
InitializeKeyServiceQuota(c, key, r) == Write(c, <<"quota", key>>, r)

(* The statement of r is sent and answered. *)
Runs(r, statement) ==
    /\ pc[r] = statement
    /\ r \notin gone
    /\ tx[Conn(r)] # "closed"

(* ... and Postgres executes it, which it refuses in an aborted transaction. *)
Executes(r, statement) == Runs(r, statement) /\ tx[Conn(r)] # "aborted"

-----------------------------------------------------------------------------
(* Handlers.                                                               *)

(* The ids a client may have seen: rows committed or in a transaction. *)
Known(table) ==
    {q \in Requests : db[<<table, q>>] # None \/ \E c \in Conns : draft[c][<<table, q>>] # None}

(* A request names rows it knows, or ones that do not exist, like its own. *)
Arrive(r) ==
    /\ pc[r] = "idle"
    /\ \E a \in Ask :
          /\ a.email \in Emails <=> a.kind \in {"user", "invite", "mail"}
          /\ a.conn = StaffConn <=> a.kind = "mail"
          /\ a.user \in Requests <=> a.kind \in {"key", "quota"}
          /\ a.key \in Requests <=> a.kind = "quota"
          /\ a.user \in Known("user") \cup {r, None}
          /\ a.key \in Known("key") \cup {r, None}
          /\ ask' = [ask EXCEPT ![r] = a]
          /\ Goto(r, CASE a.kind = "list" -> "list"
                       [] a.kind = "key" -> "users"
                       [] a.kind = "quota" -> "owner"
                       [] a.kind = "mail" -> "allow"
                       [] OTHER -> "begin")
          /\ work' = [work EXCEPT ![r] = IF a.kind \in {"key", "quota"} THEN a.kind ELSE "user"]
    /\ UNCHANGED <<db, draft, tx, gone, joined>>

(* ListUsers, ListUserApiKeys, ListKeyServices: statements that only read. *)
List(r) ==
    /\ Executes(r, "list")
    /\ Goto(r, "list") \/ Goto(r, "answered")
    /\ UNCHANGED <<db, draft, tx, ask, gone, work, joined>>

(* CreateUserApiKey looks for the user among all users. *)
FindUser(r) ==
    /\ Executes(r, "users")
    /\ Goto(r, IF View(Conn(r))[<<"user", ask[r].user>>] # None THEN "begin" ELSE "failed")
    /\ UNCHANGED <<db, draft, tx, ask, gone, work, joined>>

AnyOwner(r, key) == key # None
Owns(r, key) == key # None /\ key.user = ask[r].user

(* AssociateKeyService reads the key and compares its owner. *)
FindKey(r) ==
    /\ Executes(r, "owner")
    /\ Goto(r, IF Owns(r, GetAPIKeyWithUser(Conn(r), ask[r].key)) THEN "services" ELSE "failed")
    /\ UNCHANGED <<db, draft, tx, ask, gone, work, joined>>

(* It then looks for the service, which may be unknown. *)
FindService(r) ==
    /\ Executes(r, "services")
    /\ Goto(r, "begin") \/ Goto(r, "failed")
    /\ UNCHANGED <<db, draft, tx, ask, gone, work, joined>>

First == [user |-> "check", key |-> "key", quota |-> "service"]

(* Begin; a transaction that is open already is joined. *)
Begin(r) ==
    LET others == Inside(Conn(r))
    IN /\ Executes(r, "begin")
       /\ tx' = [tx EXCEPT ![Conn(r)] = "open"]
       /\ Goto(r, First[work[r]])
       /\ joined' = joined \cup (IF others = {} THEN {} ELSE others \cup {r})
       /\ UNCHANGED <<db, draft, ask, gone, work>>

(* CreateNewUser refuses an address that it finds. *)
CheckUser(r) ==
    /\ Executes(r, "check")
    /\ Goto(r, IF GetUserByEmail(Conn(r), ask[r].email) # {} THEN "rollback" ELSE "user")
    /\ UNCHANGED <<db, draft, tx, ask, gone, work, joined>>

TakenNever(c, e) == FALSE
Taken(c, e) == GetUserByEmail(c, e) # {}

(* CreateUser waits for a transaction that inserts the same address, and   *)
(* returns no row when the address is taken by then.                       *)
InsertUser(r) ==
    /\ Executes(r, "user")
    /\ ~EmailLocked(Conn(r), ask[r].email)
    /\ IF Taken(Conn(r), ask[r].email)
       THEN Goto(r, "rollback") /\ UNCHANGED <<db, draft>>
       ELSE Goto(r, "commit") /\ Write(Conn(r), <<"user", r>>, ask[r].email)
    /\ UNCHANGED <<tx, ask, gone, work, joined>>

(* The user of a new key, which an invitation has just inserted. *)
KeyUser(r) == IF ask[r].kind = "invite" THEN r ELSE ask[r].user

(* CreateUserAPIKey violates the foreign key if the user is not there. *)
InsertKey(r) ==
    LET c == Conn(r)
    IN /\ Executes(r, "key")
       /\ IF View(c)[<<"user", KeyUser(r)>>] # None
          THEN /\ Goto(r, "assign")
               /\ CreateUserAPIKey(c, r, KeyUser(r))
               /\ UNCHANGED tx
          ELSE /\ Goto(r, "rollback")
               /\ tx' = [tx EXCEPT ![c] = IF @ = "open" THEN "aborted" ELSE @]
               /\ draft' = [draft EXCEPT ![c] = Blank]
               /\ UNCHANGED db
       /\ UNCHANGED <<ask, gone, work, joined>>

(* UpdateAPIKeyStatus returns no row if the key is not there. *)
AssignKey(r) ==
    LET c == Conn(r)
    IN /\ Executes(r, "assign")
       /\ IF View(c)[<<"key", r>>] # None
          THEN Goto(r, "commit") /\ UpdateAPIKeyStatus(c, r, "assigned")
          ELSE Goto(r, "rollback") /\ UNCHANGED <<db, draft>>
       /\ UNCHANGED <<tx, ask, gone, work, joined>>

(* OpenServiceForKey reads the service once more. *)
GetService(r) ==
    /\ Executes(r, "service")
    /\ Goto(r, "quota")
    /\ UNCHANGED <<db, draft, tx, ask, gone, work, joined>>

(* InitializeKeyServiceQuota inserts the quota or sets it anew. *)
InitializeQuota(r) ==
    LET c == Conn(r) k == ask[r].key
    IN /\ Executes(r, "quota")
       /\ ~Locked(c, <<"quota", k>>)
       /\ IF View(c)[<<"key", k>>] # None
          THEN Goto(r, "commit") /\ InitializeKeyServiceQuota(c, k, r) /\ UNCHANGED tx
          ELSE /\ Goto(r, "rollback")
               /\ tx' = [tx EXCEPT ![c] = IF @ = "open" THEN "aborted" ELSE @]
               /\ draft' = [draft EXCEPT ![c] = Blank]
               /\ UNCHANGED db
       /\ UNCHANGED <<ask, gone, work, joined>>

(* After the user, an invitation makes the key; at last it reads it all.   *)
AfterCommit(r) ==
    CASE ask[r].kind = "invite" /\ work[r] = "user" -> "begin"
      [] ask[r].kind = "invite" -> "fetch"
      [] OTHER -> "answered"

(* Commit of an aborted transaction rolls it back, which pgx reports.      *)
Commit(r) ==
    LET c == Conn(r)
    IN /\ Runs(r, "commit")
       /\ EndTx(c, "idle")
       /\ IF tx[c] = "aborted"
          THEN Goto(r, "failed") /\ UNCHANGED <<db, work>>
          ELSE /\ db' = View(c)
               /\ Goto(r, AfterCommit(r))
               /\ work' = [work EXCEPT ![r] = IF ask[r].kind = "invite" THEN "key" ELSE @]
       /\ UNCHANGED <<ask, gone, joined>>

(* InviteNewUser reads the user and the key it answers with. *)
Fetch(r) ==
    /\ Executes(r, "fetch")
    /\ Goto(r, IF \A t \in {"user", "key"} : View(Conn(r))[<<t, r>>] # None
               THEN "answered" ELSE "failed")
    /\ UNCHANGED <<db, draft, tx, ask, gone, work, joined>>

(* The deferred Rollback of a handler that returns an error. *)
Rollback(r) ==
    /\ Runs(r, "rollback")
    /\ EndTx(Conn(r), "idle")
    /\ Goto(r, "failed")
    /\ UNCHANGED <<db, ask, gone, work, joined>>

-----------------------------------------------------------------------------
(* The staff service: SendInstructionHandler.                              *)

(* allowList: the user of the address, which anyone may have typed. *)
AllowList(r) ==
    /\ Executes(r, "allow")
    /\ LET found == GetUserByEmail(Conn(r), ask[r].email)
       IN IF found = {}
          THEN Goto(r, "failed") /\ UNCHANGED ask
          ELSE /\ Goto(r, "keys")
               /\ ask' = [ask EXCEPT ![r].user = (CHOOSE i \in found : TRUE)[2]]
    /\ UNCHANGED <<db, draft, tx, gone, work, joined>>

(* sendInstruction; an error of Resend may come after the mail has gone    *)
(* out.                                                                    *)
SendInstruction(r, key) ==
    /\ ask' = [ask EXCEPT ![r].key = key]
    /\ \E end \in Ends : Goto(r, end)

(* idToKey takes the user's newest key, here any. *)
IdToKey(r) ==
    /\ Executes(r, "keys")
    /\ LET found == GetAPIKeysByUserID(Conn(r), ask[r].user)
       IN \/ found = {} /\ Goto(r, "failed") /\ UNCHANGED ask
          \/ \E i \in found : SendInstruction(r, i[2])
    /\ UNCHANGED <<db, draft, tx, gone, work, joined>>

SendInstructionHandler(r) == AllowList(r) \/ IdToKey(r)

-----------------------------------------------------------------------------
(* Failures.                                                               *)

AfterErrorNoRollback(statement) == "failed"
AfterErrorCommitting(statement) ==
    CASE statement = "commit" -> "answered" [] statement \in InTx -> "rollback" [] OTHER -> "failed"

(* CreateNewUser takes any error of its check for an address not found.    *)
AfterError(statement) ==
    CASE statement = "check" -> "user"
      [] statement \in InTx \ {"check"} -> "rollback"
      [] OTHER -> "failed"

(* pgx closes a connection when Begin or Rollback fails on it, and when    *)
(* Commit fails with a transaction open.                                   *)
Closes(r) ==
    \/ pc[r] \in {"begin", "rollback"}
    \/ pc[r] = "commit" /\ tx[Conn(r)] # "idle"

Busy(r) == Active(Conn(r)) # {r}

(* A statement is not sent: its context is cancelled, the connection is    *)
(* closed or, with other handlers on it, busy; or Postgres refuses it.     *)
StatementFails(r) ==
    LET c == Conn(r)
    IN /\ pc[r] \in Statements
       /\ \/ r \in gone \/ tx[c] = "closed" \/ Busy(r)
          \/ tx[c] = "aborted" /\ pc[r] \notin {"commit", "rollback"}
       /\ Goto(r, AfterError(pc[r]))
       /\ IF Closes(r) THEN EndTx(c, "closed") ELSE UNCHANGED <<tx, draft>>
       /\ UNCHANGED <<db, ask, gone, work, joined>>

(* The client leaves between two statements ... *)
Disconnect(r) ==
    /\ "disconnect" \in Faults
    /\ pc[r] \in Statements /\ r \notin gone
    /\ gone' = gone \cup {r}
    /\ UNCHANGED <<db, draft, tx, ask, pc, work, joined>>

(* ... or while one runs: pgx closes the connection.  A commit may have    *)
(* been executed.                                                          *)
CutOff(r) ==
    LET c == Conn(r)
    IN /\ "disconnect" \in Faults
       /\ \E s \in Statements : Runs(r, s)
       /\ gone' = gone \cup {r}
       /\ EndTx(c, "closed")
       /\ db' \in {db} \cup (IF pc[r] = "commit" THEN {View(c)} ELSE {})
       /\ Goto(r, AfterError(pc[r]))
       /\ UNCHANGED <<ask, work, joined>>

(* The process dies and a new one connects. *)
Restart(c) ==
    /\ "crash" \in Faults
    /\ EndTx(c, "idle")
    /\ pc' = [r \in Requests |-> IF r \in Active(c) THEN "failed" ELSE pc[r]]
    /\ UNCHANGED <<db, ask, gone, work, joined>>

-----------------------------------------------------------------------------
Step(r) ==
    \/ List(r) \/ FindUser(r) \/ FindKey(r) \/ FindService(r)
    \/ Begin(r) \/ CheckUser(r) \/ InsertUser(r) \/ InsertKey(r) \/ AssignKey(r)
    \/ GetService(r) \/ InitializeQuota(r) \/ Commit(r) \/ Fetch(r) \/ Rollback(r)
    \/ SendInstructionHandler(r)
    \/ StatementFails(r)

Next ==
    \/ \E r \in Requests : Arrive(r) \/ Step(r) \/ Disconnect(r) \/ CutOff(r)
    \/ \E c \in Conns : Restart(c)

Spec == Init /\ [][Next]_vars

-----------------------------------------------------------------------------
(* Properties.                                                             *)

(* What a request was answered 201 for is committed: its user, its key, a  *)
(* quota of the key it named; unless another handler was in a transaction  *)
(* on the connection together with it (create_new_user.go:12).             *)
AnsweredIsStored ==
    \A r \in Requests \ joined : pc[r] = "answered" =>
        /\ ask[r].kind \in {"user", "invite"} => db[<<"user", r>>] = ask[r].email
        /\ ask[r].kind \in {"key", "invite"} => db[<<"key", r>>] # None
        /\ ask[r].kind = "quota" => db[<<"quota", ask[r].key>>] # None

(* AddKeyToUser inserts and assigns in one transaction: whatever fails and *)
(* whoever uses the connection next, its key is never committed unassigned *)
(* unless another handler was in that transaction too, whose COMMIT then   *)
(* commits the key as it stands.                                           *)
KeysAreAssigned ==
    \A r \in Requests \ joined :
        db[<<"key", r>>] # None => db[<<"key", r>>].status = "assigned"

(* However many processes create a user at once, an address has one. *)
EmailsAreUnique ==
    \A i, j \in Users : db[i] # None /\ db[i] = db[j] => i = j

(* A quota is only ever opened through the owner of its key. *)
QuotasByOwner ==
    \A r \in Requests : db[<<"quota", r>>] # None =>
        ask[db[<<"quota", r>>]].user = db[<<"key", r>>].user

(* Whatever admins do meanwhile, overlapping or not, a key is mailed only  *)
(* to the address of the user it belongs to (send_instruction.go:37-58).   *)
(* It need not be assigned: nothing reads its status.                      *)
KeysGoToTheirUsers ==
    \A r \in Requests : ask[r] # None /\ ask[r].kind = "mail" /\ ask[r].key # None =>
        /\ db[<<"key", ask[r].key>>] # None
        /\ db[<<"key", ask[r].key>>].user = ask[r].user
        /\ db[<<"user", ask[r].user>>] = ask[r].email

(* No transaction outlives its handlers: rows written and locked by a      *)
(* request are committed or dropped before the last handler that is in the *)
(* transaction ends, so that no other process waits for them for ever and  *)
(* no later request commits them.                                          *)
TransactionsEnd ==
    \A c \in Conns : tx[c] \in {"open", "aborted"} => Inside(c) # {}

(* A user whose creation was answered exists (api.yaml, POST /admin/users: *)
(* "User created successfully"); stated of all requests.                   *)
CreatedUsersExist ==
    \A r \in Requests : pc[r] = "answered" /\ ask[r].kind = "user" => db[<<"user", r>>] # None
=============================================================================
