----------------------------- MODULE StaffLogin -----------------------------
(***************************************************************************)
(* pkg/staff: login by a link sent to an e-mail address.  The session of a *)
(* browser is one value in Redis under a token kept in a cookie.  The      *)
(* middleware LoadAndSave reads the whole session before a handler runs    *)
(* and, if the handler changed it, writes the whole session back with the  *)
(* first byte of the answer, so concurrent requests of one browser work on *)
(* copies of their own.                                                    *)
(***************************************************************************)
EXTENDS TLC

CONSTANTS
    Requests,  \* requests; each names the token and the link it generates
    Browsers,
    Emails,    \* addresses on the allow list
    None,
    Faults     \* commands of the session store that may fail

ASSUME FaultsAssumption == Faults \subseteq {"find", "commit", "delete"}
ASSUME NoneAssumption == None \notin Requests \cup Emails

VARIABLES
    store,     \* the sessions in Redis, by token
    cookie,    \* the token in each browser's cookie
    mailed,    \* links that were sent
    pc,        \* where each request stands
    kind,      \* what it asks for
    from,      \* the browser it came from
    arg,       \* the address or the link it carries
    token,     \* the token of its session
    data,      \* its copy of the session
    spent,     \* history: links of answered logins
    loggedOut  \* history: tokens of answered logouts

asked == <<kind, from, arg>>
vars == <<store, cookie, mailed, pc, asked, token, data, spent, loggedOut>>

Kinds == {"request", "verify", "logout"}
Session == [link : Requests \cup {None}, email : Emails \cup {None}, login : Requests \cup {None}]
Empty == [link |-> None, email |-> None, login |-> None]

TypeOK ==
    /\ store \in [Requests -> Session \cup {None}]
    /\ cookie \in [Browsers -> Requests \cup {None}]
    /\ mailed \subseteq Requests
    /\ pc \in [Requests -> {"idle", "arrived", "handle", "mail", "renew", "commit", "done"}]
    /\ kind \in [Requests -> Kinds \cup {None}]
    /\ from \in [Requests -> Browsers \cup {None}]
    /\ arg \in [Requests -> Requests \cup Emails \cup {None}]
    /\ token \in [Requests -> Requests \cup {None}]
    /\ data \in [Requests -> Session]
    /\ spent \subseteq Requests /\ loggedOut \subseteq Requests

Init ==
    /\ store = [t \in Requests |-> None]
    /\ cookie = [b \in Browsers |-> None]
    /\ mailed = {} /\ spent = {} /\ loggedOut = {}
    /\ pc = [r \in Requests |-> "idle"]
    /\ kind = [r \in Requests |-> None]
    /\ from = [r \in Requests |-> None]
    /\ arg = [r \in Requests |-> None]
    /\ token = [r \in Requests |-> None]
    /\ data = [r \in Requests |-> Empty]

Goto(r, p) == pc' = [pc EXCEPT ![r] = p]

-----------------------------------------------------------------------------
(* A browser sends a request with its cookie: an address to log in with, a *)
(* link (one that was mailed, or None for any other string), or a logout.  *)
Arrive(r, b) ==
    /\ pc[r] = "idle" /\ Goto(r, "arrived")
    /\ \E k \in Kinds, a \in Emails \cup mailed \cup {None} :
          /\ (k = "request") <=> (a \in Emails)
          /\ (k = "logout") => (a = None)
          /\ kind' = [kind EXCEPT ![r] = k]
          /\ arg' = [arg EXCEPT ![r] = a]
    /\ from' = [from EXCEPT ![r] = b]
    /\ token' = [token EXCEPT ![r] = cookie[b]]
    /\ UNCHANGED <<store, cookie, mailed, data, spent, loggedOut>>

(* SessionManager.Load: a token that is not found gives an empty session,  *)
(* which gets a new token when it is committed.                            *)
Load(r) ==
    /\ pc[r] = "arrived"
    /\ LET found == token[r] # None /\ store[token[r]] # None
       IN /\ data' = [data EXCEPT ![r] = IF found THEN store[token[r]] ELSE Empty]
          /\ token' = [token EXCEPT ![r] = IF found THEN @ ELSE None]
    /\ Goto(r, "handle")
    /\ UNCHANGED <<store, cookie, mailed, asked, spent, loggedOut>>

LoadFails(r) ==
    /\ "find" \in Faults
    /\ pc[r] = "arrived" /\ Goto(r, "done")
    /\ UNCHANGED <<store, cookie, mailed, asked, token, data, spent, loggedOut>>

AuthorizedNever(s) == FALSE
Authorized(s) == s.login # None

-----------------------------------------------------------------------------
(* RequestVerificationHandler                                              *)

(* Nothing is changed when the user is logged in or may not log in.        *)
Refuse(r) ==
    /\ pc[r] = "handle" /\ kind[r] = "request"
    /\ Goto(r, "done")
    /\ UNCHANGED <<store, cookie, mailed, asked, token, data, spent, loggedOut>>

PutLinkSwapped(s, r) == [s EXCEPT !.link = arg[r], !.email = r]
PutLinkOnly(s, r) == [s EXCEPT !.link = r]
PutLink(s, r) == [s EXCEPT !.link = r, !.email = arg[r]]

Prepare(r) ==
    /\ pc[r] = "handle" /\ kind[r] = "request" /\ ~Authorized(data[r])
    /\ data' = [data EXCEPT ![r] = PutLink(@, r)]
    /\ Goto(r, "mail")
    /\ UNCHANGED <<store, cookie, mailed, asked, token, spent, loggedOut>>

(* sendMail: its error may come before or after the mail has gone out. *)
SendMail(r) == mailed' \in {mailed, mailed \cup {r}}

(* The mail leaves before the session is written; the changed session is   *)
(* written all the same when it failed.                                    *)
Mail(r) ==
    /\ pc[r] = "mail"
    /\ SendMail(r)
    /\ Goto(r, "commit")
    /\ UNCHANGED <<store, cookie, asked, token, data, spent, loggedOut>>

-----------------------------------------------------------------------------
(* CompleteVerificationHandler                                             *)

Greet(r) ==
    /\ pc[r] = "handle" /\ kind[r] = "verify" /\ Authorized(data[r])
    /\ Goto(r, "done")
    /\ UNCHANGED <<store, cookie, mailed, asked, token, data, spent, loggedOut>>

NotPopped(s) == s
Popped(s) == [s EXCEPT !.link = None]

Matches(s, link) == link # None /\ s.link = link

(* The link stored is taken out, whether or not it is the one presented.   *)
(* PopString of a session without a link changes nothing.                  *)
Verify(r) ==
    /\ pc[r] = "handle" /\ kind[r] = "verify" /\ ~Authorized(data[r])
    /\ IF Matches(data[r], arg[r])
       THEN /\ data' = [data EXCEPT ![r] = [Popped(@) EXCEPT !.login = arg[r]]]
            /\ Goto(r, "renew")
       ELSE /\ data' = [data EXCEPT ![r] = Popped(@)]
            /\ Goto(r, IF data[r].link = None THEN "done" ELSE "commit")
    /\ UNCHANGED <<store, cookie, mailed, asked, token, spent, loggedOut>>

(* RenewToken deletes the old session and draws a new token; its error is  *)
(* ignored, and leaves the old token.                                      *)
Renew(r) ==
    /\ pc[r] = "renew" /\ Goto(r, "commit")
    /\ \/ /\ store' = [store EXCEPT ![token[r]] = None]
          /\ token' = [token EXCEPT ![r] = r]
       \/ "delete" \in Faults /\ UNCHANGED <<store, token>>
    /\ UNCHANGED <<cookie, mailed, asked, data, spent, loggedOut>>

-----------------------------------------------------------------------------
(* LogoutHandler: Destroy deletes the session and clears the cookie; its   *)
(* error is ignored, and leaves both.                                      *)
Logout(r) ==
    /\ pc[r] = "handle" /\ kind[r] = "logout"
    /\ Goto(r, "done")
    /\ \/ /\ store' = [t \in Requests |-> IF t = token[r] THEN None ELSE store[t]]
          /\ cookie' = [cookie EXCEPT ![from[r]] = None]
          /\ loggedOut' = loggedOut \cup ({token[r]} \ {None})
       \/ "delete" \in Faults /\ UNCHANGED <<store, cookie, loggedOut>>
    /\ UNCHANGED <<mailed, asked, token, data, spent>>

-----------------------------------------------------------------------------
(* LoadAndSave writes the changed session and sets the cookie.             *)
Commit(r) ==
    LET t == IF token[r] = None THEN r ELSE token[r]
    IN /\ pc[r] = "commit" /\ Goto(r, "done")
       /\ store' = [store EXCEPT ![t] = data[r]]
       /\ cookie' = [cookie EXCEPT ![from[r]] = t]
       /\ spent' = spent \cup ({data[r].login} \ {None})
       /\ UNCHANGED <<mailed, asked, token, data, loggedOut>>

CommitFails(r) ==
    /\ "commit" \in Faults
    /\ pc[r] = "commit" /\ Goto(r, "done")
    /\ UNCHANGED <<store, cookie, mailed, asked, token, data, spent, loggedOut>>

(* Redis drops a session after its lifetime. *)
Expire(t) ==
    /\ store[t] # None
    /\ store' = [store EXCEPT ![t] = None]
    /\ UNCHANGED <<cookie, mailed, pc, asked, token, data, spent, loggedOut>>

Next ==
    \/ \E r \in Requests :
          \/ \E b \in Browsers : Arrive(r, b)
          \/ Load(r) \/ LoadFails(r) \/ Refuse(r) \/ Prepare(r) \/ Mail(r)
          \/ Greet(r) \/ Verify(r) \/ Renew(r) \/ Logout(r) \/ Commit(r) \/ CommitFails(r)
    \/ \E t \in Requests : Expire(t)

Spec == Init /\ [][Next]_vars

-----------------------------------------------------------------------------
(* Properties.                                                             *)

(* Whoever is logged in as an address presented a link mailed to that very *)
(* address, though requests for several addresses write one session.       *)
LoginProvesAddress ==
    \A t \in Requests :
        store[t] # None /\ store[t].login # None =>
            store[t].login \in mailed /\ arg[store[t].login] = store[t].email

(* Once a login has been answered, no session, whichever request writes it *)
(* late, holds its link again.                                             *)
SpentLinksStayDead ==
    \A t \in Requests : store[t] # None => store[t].link \notin spent

(* A session with a renewed token that was logged out is never back.       *)
LogoutIsFinal ==
    \A t \in loggedOut : kind[t] = "verify" => store[t] = None
=============================================================================
