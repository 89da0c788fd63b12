--------------------------- MODULE PayPerSuccess ---------------------------
(***************************************************************************)
(* What the tollgate promises a client while no command to Redis is lost:  *)
(* a request pays at most once, is refused only when its key has no unit   *)
(* left (or no account), and a unit it paid is either kept for a           *)
(* successful answer or returned, never both.                              *)
(***************************************************************************)
EXTENDS Integers

CONSTANTS Requests, Keys, KeyOf, Limited, Grant

VARIABLES open, balance, phase

vars == <<open, balance, phase>>

Init ==
    /\ open = {}
    /\ balance = [k \in Keys |-> 0]
    /\ phase = [r \in Requests |-> "new"]

Funded(k) == k \in open /\ (k \in Limited => balance[k] > 0)

Move(k, amount) ==
    balance' = IF k \in Limited THEN [balance EXCEPT ![k] = @ + amount] ELSE balance

Become(r, p) == phase' = [phase EXCEPT ![r] = p]

Open(k) ==
    /\ k \notin open
    /\ open' = open \cup {k}
    /\ balance' = [balance EXCEPT ![k] = Grant[k]]
    /\ UNCHANGED phase

Pay(r) ==
    /\ phase[r] = "new" /\ Funded(KeyOf[r])
    /\ Become(r, "paid") /\ Move(KeyOf[r], -1)
    /\ UNCHANGED open

Refuse(r) ==
    /\ phase[r] = "new" /\ ~Funded(KeyOf[r])
    /\ Become(r, "refused")
    /\ UNCHANGED <<open, balance>>

Keep(r) ==
    /\ phase[r] = "paid"
    /\ Become(r, "kept")
    /\ UNCHANGED <<open, balance>>

Return(r) ==
    /\ phase[r] = "paid"
    /\ Become(r, "returned") /\ Move(KeyOf[r], 1)
    /\ UNCHANGED open

Next ==
    \/ \E k \in Keys : Open(k)
    \/ \E r \in Requests : Pay(r) \/ Refuse(r) \/ Keep(r) \/ Return(r)

Spec == Init /\ [][Next]_vars
=============================================================================
