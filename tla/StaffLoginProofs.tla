-------------------------- MODULE StaffLoginProofs --------------------------
(***************************************************************************)
(* Proofs about module StaffLogin, for any number of requests, browsers    *)
(* and addresses and any failures of the session store.                    *)
(***************************************************************************)
EXTENDS StaffLogin, TLAPS

(* The token under which a request writes its session. *)
Home(r) == IF token[r] = None THEN r ELSE token[r]

(* A session, stored or copied: its link was generated for its address,    *)
(* and the link it was logged in with was mailed to that address.          *)
Honest(s) ==
    /\ s.link # None => pc[s.link] # "idle" /\ arg[s.link] = s.email
    /\ s.login # None => s.login \in mailed /\ arg[s.login] = s.email

Addresses ==
    /\ \A t \in Requests : store[t] # None => Honest(store[t])
    /\ \A r \in Requests : Honest(data[r])
    /\ \A r \in mailed : pc[r] # "idle"
    /\ \A r \in Requests :
          pc[r] # "idle" =>
             /\ kind[r] = "request" => arg[r] \in Emails
             /\ kind[r] = "verify" => arg[r] \in mailed \cup {None}

(* Where a request stands tells what its copy of the session holds. *)
Copies ==
    \A r \in Requests :
        /\ pc[r] \in {"idle", "arrived"} => data[r] = Empty
        /\ pc[r] = "mail" => kind[r] = "request"
        /\ pc[r] = "renew" => kind[r] = "verify" /\ data[r].login # None
        /\ pc[r] = "commit" => kind[r] \in {"request", "verify"}
        /\ pc[r] \in {"mail", "commit"} /\ kind[r] = "request" =>
              data[r].link = r /\ data[r].login = None
        /\ pc[r] \in {"renew", "commit"} /\ kind[r] = "verify" => data[r].link = None

(* A link is stored under its own token only, and once it is spent not     *)
(* even there; a copy with a link or a login knows where that token was.   *)
Cleared(link) == store[Home(link)] = None \/ store[Home(link)].link # link

LinkInStore(t) ==
    LET link == store[t].link
    IN link # None => pc[link] = "done" /\ t = Home(link) /\ link \notin spent

LinkInCopy(r) ==
    LET link == data[r].link
    IN link # None =>
          \/ r = link /\ pc[r] \in {"mail", "commit", "done"}
          \/ pc[link] = "done" /\ token[r] = Home(link)

LoginInCopy(r) ==
    LET link == data[r].login
    IN link # None =>
          /\ pc[link] = "done"
          /\ link \in spent \/ token[r] = Home(link) \/ Cleared(link)

Links ==
    /\ \A t \in Requests : store[t] # None => LinkInStore(t)
    /\ \A t \in Requests : store[t] # None /\ store[t].login # None => store[t].login \in spent
    /\ \A r \in Requests : LinkInCopy(r) /\ LoginInCopy(r)
    /\ \A r \in spent : pc[r] = "done"

(* A token is the name of a request that has written its session; the      *)
(* session under a renewed one is logged in, so nobody writes it again.    *)
Tokens ==
    /\ \A t \in Requests : store[t] # None => pc[t] = "done"
    /\ \A b \in Browsers : cookie[b] # None => pc[cookie[b]] = "done"
    /\ \A t \in loggedOut : pc[t] = "done"
    /\ \A t \in Requests :
          store[t] # None /\ kind[t] = "verify" => store[t].login # None
    /\ \A r \in Requests :
          /\ token[r] # None /\ token[r] # r => pc[token[r]] = "done"
          /\ token[r] = r => pc[r] \in {"commit", "done"} /\ data[r].login # None
          /\ pc[r] = "handle" /\ token[r] # None /\ kind[token[r]] = "verify" =>
                data[r].login # None
          /\ pc[r] \in {"mail", "renew", "commit"} /\ token[r] \notin {None, r} =>
                kind[token[r]] # "verify"
          /\ pc[r] \in {"renew", "commit"} /\ kind[r] = "verify" => token[r] # None

IInv == TypeOK /\ Addresses /\ Copies /\ Links /\ Tokens /\ LogoutIsFinal

-----------------------------------------------------------------------------
(* The operations on a session. *)
LEMMA PutLinkFields ==
    ASSUME NEW s \in Session, NEW r \in Requests, arg[r] \in Emails
    PROVE  /\ PutLink(s, r) \in Session /\ PutLink(s, r).link = r
           /\ PutLink(s, r).email = arg[r] /\ PutLink(s, r).login = s.login
  BY DEF PutLink, Session

LEMMA PoppedFields ==
    ASSUME NEW s \in Session
    PROVE  /\ Popped(s) \in Session /\ Popped(s).link = None
           /\ Popped(s).email = s.email /\ Popped(s).login = s.login
  BY DEF Popped, Session

LEMMA LoggedInFields ==
    ASSUME NEW s \in Session, NEW l \in Requests
    PROVE  LET n == [s EXCEPT !.login = l]
           IN n \in Session /\ n.link = s.link /\ n.email = s.email /\ n.login = l
  BY DEF Session

LEMMA InvInit == Init => IInv
  <1> SUFFICES ASSUME Init PROVE IInv
    OBVIOUS
  <1> USE NoneAssumption DEF Init
  <1>1. TypeOK
    BY DEF TypeOK, Session, Empty
  <1>2. Addresses
    BY DEF Addresses, Honest, Empty
  <1>3. Copies
    BY DEF Copies
  <1>4. Links
    BY DEF Links, LinkInCopy, LoginInCopy, Empty
  <1>5. Tokens
    BY DEF Tokens
  <1>6. LogoutIsFinal
    BY DEF LogoutIsFinal
  <1> QED
    BY <1>1, <1>2, <1>3, <1>4, <1>5, <1>6 DEF IInv

(* While sessions only disappear and finished requests stay as they are,   *)
(* what Links says of a session, and of a copy left alone, still holds.    *)
Kept(q) ==
    /\ data'[q] = data[q] /\ token'[q] = token[q]
    /\ pc[q] \in {"mail", "commit", "done"} => pc'[q] \in {"mail", "commit", "done"}

LEMMA LinksKept ==
    ASSUME IInv, spent' = spent,
           \A t \in Requests : store'[t] \in {store[t], None},
           \A l \in Requests : pc[l] = "done" => pc'[l] = "done" /\ token'[l] = token[l]
    PROVE  /\ \A t \in Requests : store'[t] # None =>
                 LinkInStore(t)' /\ (store'[t].login # None => store'[t].login \in spent')
           /\ \A q \in Requests : Kept(q) => LinkInCopy(q)' /\ LoginInCopy(q)'
           /\ \A q \in spent' : pc'[q] = "done"
  <1> USE NoneAssumption DEF IInv, TypeOK
  <1>1. ASSUME NEW l \in Requests, pc[l] = "done"
        PROVE  Home(l)' = Home(l) /\ Home(l) \in Requests /\ pc'[l] = "done"
    BY <1>1 DEF Home
  <1>2. ASSUME NEW t \in Requests, store'[t] # None
        PROVE  LinkInStore(t)' /\ (store'[t].login # None => store'[t].login \in spent')
    <2>1. store'[t] = store[t] /\ store[t] \in Session /\ LinkInStore(t)
      BY <1>2 DEF Links
    <2>2. LinkInStore(t)'
      BY <1>1, <2>1 DEF LinkInStore, Session
    <2> QED
      BY <1>2, <2>1, <2>2 DEF Links
  <1>3. ASSUME NEW q \in Requests, Kept(q)
        PROVE  LinkInCopy(q)' /\ LoginInCopy(q)'
    <2>1. LinkInCopy(q) /\ LoginInCopy(q) /\ data[q] \in Session
      BY DEF Links
    <2>2. LinkInCopy(q)'
      BY <1>1, <1>3, <2>1 DEF LinkInCopy, Kept, Session
    <2>3. \A l \in Requests : pc[l] = "done" /\ Cleared(l) => Cleared(l)'
      BY <1>1 DEF Cleared
    <2>4. LoginInCopy(q)'
      BY <1>1, <1>3, <2>1, <2>3 DEF LoginInCopy, Kept, Session
    <2> QED
      BY <2>2, <2>4
  <1>4. \A q \in spent' : pc'[q] = "done"
    BY DEF Links
  <1> QED
    BY <1>2, <1>3, <1>4

LEMMA ArriveKeepsInv ==
    ASSUME IInv, NEW r \in Requests, NEW b \in Browsers, Arrive(r, b)
    PROVE  IInv'
  <1> USE NoneAssumption DEF IInv, TypeOK, Arrive, Goto, asked
  <1>1. TypeOK'
    BY DEF Addresses, Session, Empty, Kinds
  <1>2. Addresses'
    BY DEF Addresses, Honest, Copies, Session, Empty
  <1>3. Copies'
    BY DEF Copies, Session, Empty
  <1>4. Links'
    <2>1. LinkInCopy(r)' /\ LoginInCopy(r)'
      BY DEF Copies, LinkInCopy, LoginInCopy, Empty
    <2>2. \A q \in Requests \ {r} : Kept(q)
      BY DEF Kept
    <2> QED
      BY <2>1, <2>2, LinksKept DEF Links
  <1>5. Tokens'
    BY DEF Tokens, Copies, Links, LinkInCopy, Session, Empty, Home
  <1>6. LogoutIsFinal'
    BY DEF LogoutIsFinal, Tokens, Copies
  <1> QED
    BY <1>1, <1>2, <1>3, <1>4, <1>5, <1>6 DEF IInv

LEMMA LoadKeepsInv ==
    ASSUME IInv, NEW r \in Requests, Load(r)
    PROVE  IInv'
  <1> USE NoneAssumption DEF IInv, TypeOK, Load, Goto, asked
  <1>1. TypeOK'
    BY DEF Addresses, Session, Empty, Kinds
  <1>2. Addresses'
    BY DEF Addresses, Honest, Copies, Session, Empty
  <1>3. Copies'
    BY DEF Copies, Session, Empty
  <1>4. Links'
    <2>1. \A q \in Requests \ {r} : Kept(q)
      BY DEF Kept
    <2>2. LinkInCopy(r)' /\ LoginInCopy(r)'
      <3>1. CASE token[r] # None /\ store[token[r]] # None
        <4> DEFINE s == store[token[r]]
        <4>1. data'[r] = s /\ token'[r] = token[r] /\ s \in Session
          BY <3>1
        <4>2. LinkInStore(token[r]) /\ (s.login # None => s.login \in spent)
          BY <3>1 DEF Links
        <4>3. LinkInCopy(r)'
          BY <4>1, <4>2 DEF LinkInStore, LinkInCopy, Home, Session
        <4>4. s.login # None => pc[s.login] = "done" /\ pc'[s.login] = "done"
          BY <4>1, <4>2 DEF Links
        <4>5. LoginInCopy(r)'
          BY <4>1, <4>2, <4>4 DEF LoginInCopy
        <4> QED
          BY <4>3, <4>5
      <3>2. CASE ~(token[r] # None /\ store[token[r]] # None)
        BY <3>2 DEF LinkInCopy, LoginInCopy, Empty
      <3> QED
        BY <3>1, <3>2
    <2> QED
      BY <2>1, <2>2, LinksKept DEF Links
  <1>5. Tokens'
    BY DEF Tokens, Copies, Links, LinkInCopy, Session, Empty, Home
  <1>6. LogoutIsFinal'
    BY DEF LogoutIsFinal, Tokens, Copies
  <1> QED
    BY <1>1, <1>2, <1>3, <1>4, <1>5, <1>6 DEF IInv

(* A request that ends without having done anything. *)
Ends(r) ==
    /\ pc[r] \in {"arrived", "handle", "commit"} /\ Goto(r, "done")
    /\ UNCHANGED <<store, cookie, mailed, asked, token, data, spent, loggedOut>>

LEMMA EndsKeepsInv ==
    ASSUME IInv, NEW r \in Requests, Ends(r)
    PROVE  IInv'
  <1> USE NoneAssumption DEF IInv, TypeOK, Ends, Goto, asked
  <1>1. TypeOK'
    OBVIOUS
  <1>2. Addresses'
    BY DEF Addresses, Honest, Session
  <1>3. Copies'
    BY DEF Copies
  <1>4. Links'
    <2>1. \A q \in Requests : Kept(q)
      BY DEF Kept
    <2> QED
      BY <2>1, LinksKept DEF Links
  <1>5. Tokens'
    BY DEF Tokens, Copies
  <1>6. LogoutIsFinal'
    BY DEF LogoutIsFinal
  <1> QED
    BY <1>1, <1>2, <1>3, <1>4, <1>5, <1>6 DEF IInv

LEMMA PrepareKeepsInv ==
    ASSUME IInv, NEW r \in Requests, Prepare(r)
    PROVE  IInv'
  <1> USE NoneAssumption DEF IInv, TypeOK, Prepare, Goto, asked
  <1>1. arg[r] \in Emails /\ data[r].login = None
    BY DEF Addresses, Authorized
  <1>2. /\ data'[r] \in Session /\ data'[r].link = r
        /\ data'[r].email = arg[r] /\ data'[r].login = None
    BY <1>1, PutLinkFields
  <1>3. \A q \in Requests \ {r} : data'[q] = data[q]
    OBVIOUS
  <1>4. data' \in [Requests -> Session]
    BY <1>2
  <1>5. TypeOK'
    BY <1>4
  <1>6. Addresses'
    BY <1>2, <1>3 DEF Addresses, Honest
  <1>7. Copies'
    BY <1>2, <1>3 DEF Copies
  <1>8. Links'
    <2>1. LinkInCopy(r)' /\ LoginInCopy(r)'
      BY <1>2 DEF LinkInCopy, LoginInCopy
    <2>2. \A q \in Requests \ {r} : Kept(q)
      BY <1>3 DEF Kept
    <2> QED
      BY <2>1, <2>2, LinksKept DEF Links
  <1>9. Tokens'
    BY <1>1, <1>3 DEF Tokens
  <1>10. LogoutIsFinal'
    BY DEF LogoutIsFinal
  <1> QED
    BY <1>5, <1>6, <1>7, <1>8, <1>9, <1>10 DEF IInv

LEMMA MailKeepsInv ==
    ASSUME IInv, NEW r \in Requests, Mail(r)
    PROVE  IInv'
  <1> USE NoneAssumption DEF IInv, TypeOK, Mail, Goto, asked, SendMail
  <1>1. TypeOK'
    BY DEF Addresses, Session, Empty, Kinds
  <1>2. Addresses'
    BY DEF Addresses, Honest, Copies, Session, Empty
  <1>3. Copies'
    BY DEF Copies, Session, Empty
  <1>4. Links'
    <2>1. \A q \in Requests : Kept(q)
      BY DEF Kept
    <2> QED
      BY <2>1, LinksKept DEF Links
  <1>5. Tokens'
    BY DEF Tokens, Copies, Links, LinkInCopy, Session, Empty, Home
  <1>6. LogoutIsFinal'
    BY DEF LogoutIsFinal, Tokens, Copies
  <1> QED
    BY <1>1, <1>2, <1>3, <1>4, <1>5, <1>6 DEF IInv

(* The copy has no link any more; if it is logged in now, its link was the *)
(* one presented, and its own token was the only place that had it.        *)
LEMMA VerifyKeepsInv ==
    ASSUME IInv, NEW r \in Requests, Verify(r)
    PROVE  IInv'
  <1> USE NoneAssumption DEF IInv, TypeOK
  <1> DEFINE fits == Matches(data[r], arg[r])
  <1>1. data[r] \in Session /\ data[r].login = None /\ pc[r] = "handle" /\ kind[r] = "verify"
    BY DEF Authorized, Verify
  <1>2. /\ store' = store /\ cookie' = cookie /\ mailed' = mailed /\ token' = token
        /\ spent' = spent /\ loggedOut' = loggedOut
        /\ kind' = kind /\ from' = from /\ arg' = arg
    BY DEF Verify, asked
  <1>3. /\ \A q \in Requests \ {r} : data'[q] = data[q] /\ pc'[q] = pc[q]
        /\ pc'[r] \in {"renew", "commit", "done"}
        /\ pc' = [pc EXCEPT ![r] = pc'[r]]
        /\ data' = [data EXCEPT ![r] = data'[r]]
    BY DEF Verify, Goto
  <1>4. fits => arg[r] = data[r].link /\ arg[r] \in mailed /\ arg[r] # None
    BY <1>1 DEF Matches, Addresses
  <1>5. fits => arg[arg[r]] = data[r].email /\ pc[arg[r]] = "done" /\ token[r] = Home(arg[r])
    BY <1>1, <1>4 DEF Addresses, Honest, Links, LinkInCopy
  <1>6. /\ data'[r].link = None /\ data'[r].email = data[r].email
        /\ data'[r].login = IF fits THEN arg[r] ELSE None
        /\ data'[r] \in Session
    <2>1. CASE fits
      <3>1. data'[r] = [Popped(data[r]) EXCEPT !.login = arg[r]]
        BY <2>1 DEF Verify
      <3>2. Popped(data[r]) \in Session /\ arg[r] \in Requests
        BY <1>1, <1>4, <2>1, PoppedFields
      <3> QED
        BY <1>1, <2>1, <3>1, <3>2, PoppedFields, LoggedInFields
    <2>2. CASE ~fits
      <3>1. data'[r] = Popped(data[r])
        BY <2>2 DEF Verify
      <3> QED
        BY <1>1, <2>2, <3>1, PoppedFields
    <2> QED
      BY <2>1, <2>2
  <1>7. pc'[r] # "done" => token[r] \notin {None, r}
    <2>1. pc'[r] # "done" => data[r].link # None
      BY <1>4 DEF Verify, Goto
    <2>2. data[r].link # None => token[r] = Home(data[r].link)
      BY <1>1 DEF Links, LinkInCopy
    <2>3. data[r].link # None => token[r] # None
      BY <1>1, <2>2 DEF Home, Session
    <2>4. token[r] # r
      BY <1>1 DEF Tokens
    <2> QED
      BY <2>1, <2>3, <2>4
  <1>8. TypeOK'
    BY <1>2, <1>3, <1>6
  <1>9. Addresses'
    <2>1. Honest(data[r]) /\ Honest(data[r])'
      BY <1>1, <1>2, <1>3, <1>4, <1>5, <1>6 DEF Honest, Addresses
    <2>2. ASSUME NEW q \in Requests \ {r}
          PROVE  Honest(data[q])'
      <3>1. Honest(data[q]) /\ data[q] \in Session
        BY DEF Addresses
      <3> QED
        BY <1>2, <1>3, <3>1 DEF Honest, Session
    <2>3. ASSUME NEW t \in Requests, store[t] # None
          PROVE  Honest(store[t])'
      <3>1. Honest(store[t]) /\ store[t] \in Session
        BY <2>3 DEF Addresses
      <3> QED
        BY <1>2, <1>3, <3>1 DEF Honest, Session
    <2> QED
      BY <1>1, <1>2, <1>3, <2>1, <2>2, <2>3 DEF Addresses
  <1>10. Copies'
    <2>1. pc'[r] = "renew" => data'[r].login # None
      BY <1>1, <1>4, <1>6 DEF Verify, Goto
    <2> QED
      BY <1>1, <1>2, <1>3, <1>6, <2>1 DEF Copies
  <1>11. Links'
    <2>1. LinkInCopy(r)'
      BY <1>6 DEF LinkInCopy
    <2>2. LoginInCopy(r)'
      BY <1>1, <1>2, <1>3, <1>4, <1>5, <1>6 DEF LoginInCopy, Home
    <2>3. \A q \in Requests \ {r} : Kept(q)
      BY <1>2, <1>3 DEF Kept
    <2> QED
      BY <1>1, <1>2, <1>3, <2>1, <2>2, <2>3, LinksKept DEF Links
  <1>12. Tokens'
    BY <1>1, <1>2, <1>3, <1>7 DEF Tokens
  <1>13. LogoutIsFinal'
    BY <1>2 DEF LogoutIsFinal
  <1> QED
    BY <1>8, <1>9, <1>10, <1>11, <1>12, <1>13 DEF IInv

(* The session the copy came from is gone, or keeps its token. *)
LEMMA RenewKeepsInv ==
    ASSUME IInv, NEW r \in Requests, Renew(r)
    PROVE  IInv'
  <1> USE NoneAssumption DEF IInv, TypeOK
  <1>1. /\ cookie' = cookie /\ mailed' = mailed /\ data' = data
        /\ spent' = spent /\ loggedOut' = loggedOut
        /\ kind' = kind /\ from' = from /\ arg' = arg
    BY DEF Renew, asked
  <1>2. /\ pc[r] = "renew" /\ pc' = [pc EXCEPT ![r] = "commit"]
        /\ \A q \in Requests \ {r} : token'[q] = token[q]
        /\ token' \in [Requests -> Requests \cup {None}]
    BY DEF Renew, Goto
  <1>3. /\ kind[r] = "verify" /\ data[r].login # None /\ data[r].link = None
        /\ token[r] \in Requests \ {r} /\ pc[token[r]] = "done"
        /\ kind[token[r]] # "verify"
    BY <1>2 DEF Copies, Tokens
  <1>4. /\ \/ token'[r] = r /\ store'[token[r]] = None
           \/ token'[r] = token[r]
        /\ \A t \in Requests : store'[t] \in {store[t], None}
        /\ store' \in [Requests -> Session \cup {None}]
    BY <1>3 DEF Renew
  <1>5. TypeOK'
    BY <1>1, <1>2, <1>4
  <1>6. Addresses'
    BY <1>1, <1>2, <1>4 DEF Addresses, Honest, Session
  <1>7. Copies'
    BY <1>1, <1>2, <1>3 DEF Copies
  <1>8. Links'
    <2>1. ASSUME NEW l \in Requests, pc[l] = "done"
          PROVE  Home(l)' = Home(l) /\ pc'[l] = "done" /\ Home(l) \in Requests
      BY <1>2, <2>1 DEF Home
    <2>2. ASSUME NEW q \in Requests
          PROVE  LinkInCopy(q)'
      <3>1. LinkInCopy(q) /\ data[q] \in Session
        BY DEF Links
      <3> QED
        BY <1>1, <1>2, <1>3, <2>1, <3>1 DEF LinkInCopy, Session
    <2>3. ASSUME NEW q \in Requests
          PROVE  LoginInCopy(q)'
      <3>1. data[q].login \in Requests \cup {None}
        BY DEF Session
      <3>2. ASSUME NEW l \in Requests, l = data[q].login
            PROVE  pc'[l] = "done" /\ (l \in spent \/ token'[q] = Home(l)' \/ Cleared(l)')
        <4>1. pc[l] = "done" /\ (l \in spent \/ token[q] = Home(l) \/ Cleared(l))
          BY <3>2, NoneAssumption DEF Links, LoginInCopy
        <4>2. Home(l)' = Home(l) /\ Home(l) \in Requests
          BY <2>1, <4>1
        <4>3. Cleared(l) => Cleared(l)'
          BY <1>4, <4>2 DEF Cleared
        <4>4. token[q] = Home(l) => token'[q] = Home(l)' \/ Cleared(l)'
          BY <1>2, <1>4, <4>2 DEF Cleared
        <4> QED
          BY <2>1, <4>1, <4>3, <4>4
      <3> QED
        BY <1>1, <3>1, <3>2 DEF LoginInCopy
    <2>4. ASSUME NEW t \in Requests, store'[t] # None
          PROVE  LinkInStore(t)'
      <3>1. store'[t] = store[t] /\ LinkInStore(t) /\ store[t] \in Session
        BY <1>4, <2>4 DEF Links
      <3> QED
        BY <1>1, <2>1, <3>1 DEF LinkInStore, Session
    <2> QED
      BY <1>1, <1>2, <1>4, <2>2, <2>3, <2>4 DEF Links
  <1>9. Tokens'
    BY <1>1, <1>2, <1>3, <1>4 DEF Tokens
  <1>10. LogoutIsFinal'
    BY <1>1, <1>4 DEF LogoutIsFinal
  <1> QED
    BY <1>5, <1>6, <1>7, <1>8, <1>9, <1>10 DEF IInv

LEMMA LogoutKeepsInv ==
    ASSUME IInv, NEW r \in Requests, Logout(r)
    PROVE  IInv'
  <1> USE NoneAssumption DEF IInv, TypeOK, Logout, Goto, asked
  <1>1. TypeOK'
    BY DEF Addresses, Session, Empty, Kinds
  <1>2. Addresses'
    BY DEF Addresses, Honest, Copies, Session, Empty
  <1>3. Copies'
    BY DEF Copies, Session, Empty
  <1>4. Links'
    <2>1. \A q \in Requests : Kept(q)
      BY DEF Kept
    <2> QED
      BY <2>1, LinksKept DEF Links
  <1>5. Tokens'
    BY DEF Tokens, Copies, Links, LinkInCopy, Session, Empty, Home
  <1>6. LogoutIsFinal'
    BY DEF LogoutIsFinal, Tokens, Copies
  <1> QED
    BY <1>1, <1>2, <1>3, <1>4, <1>5, <1>6 DEF IInv

(* The session is written where its copy came from, or under a name that   *)
(* nobody else has: any older copy of its link is overwritten.             *)
LEMMA CommitKeepsInv ==
    ASSUME IInv, NEW r \in Requests, Commit(r)
    PROVE  IInv'
  <1> USE NoneAssumption DEF IInv, TypeOK
  <1>1. /\ mailed' = mailed /\ data' = data /\ token' = token /\ loggedOut' = loggedOut
        /\ kind' = kind /\ from' = from /\ arg' = arg
    BY DEF Commit, asked
  <1>2. /\ pc[r] = "commit" /\ pc' = [pc EXCEPT ![r] = "done"]
        /\ Home(r) \in Requests /\ data[r] \in Session
        /\ store' = [store EXCEPT ![Home(r)] = data[r]]
        /\ cookie' = [cookie EXCEPT ![from[r]] = Home(r)]
        /\ spent' = spent \cup ({data[r].login} \ {None})
    BY DEF Commit, Goto, Home
  <1>3. /\ kind[r] \in {"request", "verify"}
        /\ kind[r] = "request" => data[r].link = r /\ data[r].login = None
        /\ kind[r] = "verify" => data[r].link = None
    BY <1>2 DEF Copies
  <1>4. /\ Home(r) # r => pc[Home(r)] = "done" /\ kind[Home(r)] # "verify"
        /\ kind[r] = "verify" /\ Home(r) = r => data[r].login # None
    BY <1>2 DEF Home, Tokens
  <1>5. \A l \in Requests : /\ Home(l)' = Home(l) /\ Home(l) \in Requests
                            /\ pc[l] = "done" => pc'[l] = "done" /\ l # r
    BY <1>1, <1>2 DEF Home
  <1>6. TypeOK'
    BY <1>1, <1>2 DEF Session
  <1>7. Addresses'
    BY <1>1, <1>2 DEF Addresses, Honest, Session
  <1>8. Copies'
    BY <1>1, <1>2 DEF Copies
  <1>9. Links'
    <2>1. ASSUME NEW l \in Requests, pc[l] = "done", Cleared(l)
          PROVE  Cleared(l)'
      BY <1>1, <1>2, <1>3, <1>5, <2>1 DEF Cleared
    <2>2. ASSUME NEW q \in Requests
          PROVE  LinkInCopy(q)' /\ LoginInCopy(q)'
      <3>1. LinkInCopy(q) /\ LoginInCopy(q) /\ data[q] \in Session
        BY DEF Links
      <3>2. LinkInCopy(q)'
        BY <1>1, <1>2, <1>5, <3>1 DEF LinkInCopy, Session
      <3>3. LoginInCopy(q)'
        BY <1>1, <1>2, <1>5, <2>1, <3>1 DEF LoginInCopy, Session
      <3> QED
        BY <3>2, <3>3
    <2>3. ASSUME NEW t \in Requests, store'[t] # None
          PROVE  LinkInStore(t)'
      <3>1. CASE t = Home(r)
        <4>1. store'[t] = data[r] /\ pc'[r] = "done"
          BY <1>2, <3>1
        <4>2. r \notin spent'
          <5>1. r \notin spent
            BY <1>2 DEF Links
          <5>2. data[r].login # r
            BY <1>2 DEF Links, LoginInCopy
          <5> QED
            BY <1>2, <5>1, <5>2
        <4> QED
          BY <1>3, <1>5, <3>1, <4>1, <4>2 DEF LinkInStore
      <3>2. CASE t # Home(r)
        <4>1. store'[t] = store[t] /\ store[t] \in Session /\ LinkInStore(t)
          BY <1>2, <2>3, <3>2 DEF Links
        <4> DEFINE l == store[t].link
        <4>2. l # None => l \in Requests /\ pc[l] = "done" /\ t = Home(l) /\ l \notin spent
          BY <4>1 DEF LinkInStore, Session
        <4>3. l # None => l # data[r].login
          <5>1. SUFFICES ASSUME l # None, l = data[r].login
                         PROVE  FALSE
            OBVIOUS
          <5>2. l \in spent \/ token[r] = Home(l) \/ Cleared(l)
            BY <5>1 DEF Links, LoginInCopy
          <5>3. ~Cleared(l)
            BY <4>2, <5>1, <2>3, <4>1 DEF Cleared
          <5>4. token[r] = t
            BY <4>2, <5>1, <5>2, <5>3
          <5> QED
            BY <3>2, <5>4 DEF Home
        <4> QED
          BY <1>2, <1>5, <4>1, <4>2, <4>3 DEF LinkInStore
      <3> QED
        BY <3>1, <3>2
    <2>4. ASSUME NEW t \in Requests, store'[t] # None, store'[t].login # None
          PROVE  store'[t].login \in spent'
      BY <1>2, <2>4 DEF Links
    <2>5. \A q \in spent' : pc'[q] = "done"
      <3>1. data[r].login # None => pc[data[r].login] = "done"
        BY DEF Links, LoginInCopy
      <3> QED
        BY <1>2, <3>1 DEF Links, Session
    <2> QED
      BY <2>2, <2>3, <2>4, <2>5 DEF Links
  <1>10. Tokens'
    BY <1>1, <1>2, <1>4 DEF Tokens
  <1>11. LogoutIsFinal'
    BY <1>1, <1>2, <1>4 DEF LogoutIsFinal, Tokens
  <1> QED
    BY <1>6, <1>7, <1>8, <1>9, <1>10, <1>11 DEF IInv

LEMMA ExpireKeepsInv ==
    ASSUME IInv, NEW t \in Requests, Expire(t)
    PROVE  IInv'
  <1> USE NoneAssumption DEF IInv, TypeOK, Expire, Goto, asked
  <1>1. TypeOK'
    BY DEF Addresses, Session, Empty, Kinds
  <1>2. Addresses'
    BY DEF Addresses, Honest, Copies, Session, Empty
  <1>3. Copies'
    BY DEF Copies, Session, Empty
  <1>4. Links'
    <2>1. \A q \in Requests : Kept(q)
      BY DEF Kept
    <2> QED
      BY <2>1, LinksKept DEF Links
  <1>5. Tokens'
    BY DEF Tokens, Copies, Links, LinkInCopy, Session, Empty, Home
  <1>6. LogoutIsFinal'
    BY DEF LogoutIsFinal, Tokens, Copies
  <1> QED
    BY <1>1, <1>2, <1>3, <1>4, <1>5, <1>6 DEF IInv

LEMMA InvInductive == IInv /\ [Next]_vars => IInv'
  <1> SUFFICES ASSUME IInv, [Next]_vars PROVE IInv'
    OBVIOUS
  <1>1. ASSUME NEW r \in Requests,
               LoadFails(r) \/ Refuse(r) \/ Greet(r) \/ CommitFails(r)
        PROVE  Ends(r)
    BY <1>1 DEF LoadFails, Refuse, Greet, CommitFails, Ends
  <1>2. CASE UNCHANGED vars
    BY <1>2
    DEF vars, asked, IInv, TypeOK, Addresses, Honest, Copies, Links, LinkInStore, LinkInCopy,
        LoginInCopy, Cleared, Home, Tokens, LogoutIsFinal
  <1> QED
    BY <1>1, <1>2, ArriveKeepsInv, LoadKeepsInv, EndsKeepsInv, PrepareKeepsInv, MailKeepsInv,
       VerifyKeepsInv, RenewKeepsInv, LogoutKeepsInv, CommitKeepsInv, ExpireKeepsInv
    DEF Next

LEMMA InvCorrect == Spec => []IInv
  BY InvInit, InvInductive, PTL DEF Spec

-----------------------------------------------------------------------------
(* The theorems. *)

(* Every variable keeps its type, whatever the constants and the failures  *)
(* of the session store; a login is by a link, never by None.              *)
THEOREM TypeCorrect == Spec => []TypeOK
  <1>1. IInv => TypeOK
    BY DEF IInv
  <1> QED
    BY <1>1, InvCorrect, PTL

(* Whoever is logged in as an address presented a link mailed to it,       *)
(* however requests for several addresses overwrite one session            *)
(* (complete_verification.go).                                             *)
THEOREM LoginCorrect == Spec => []LoginProvesAddress
  <1>1. IInv => LoginProvesAddress
    BY DEF IInv, Addresses, Honest, LoginProvesAddress
  <1> QED
    BY <1>1, InvCorrect, PTL

(* Once a login is answered its link is in no session again, however late  *)
(* a copy of the session is written back and whichever command fails.      *)
THEOREM SpentLinksCorrect == Spec => []SpentLinksStayDead
  <1>1. IInv => SpentLinksStayDead
    <2> SUFFICES ASSUME IInv, NEW t \in Requests, store[t] # None
                 PROVE  store[t].link \notin spent
      BY DEF SpentLinksStayDead
    <2>1. LinkInStore(t) /\ None \notin spent
      BY NoneAssumption DEF IInv, TypeOK, Links
    <2> QED
      BY <2>1 DEF LinkInStore
  <1> QED
    BY <1>1, InvCorrect, PTL

(* A session that was logged out under its renewed token is never back:    *)
(* a request that still holds a copy of it has no reason to write it.      *)
THEOREM LogoutCorrect == Spec => []LogoutIsFinal
  <1>1. IInv => LogoutIsFinal
    BY DEF IInv
  <1> QED
    BY <1>1, InvCorrect, PTL
=============================================================================
