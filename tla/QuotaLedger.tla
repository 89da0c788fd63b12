---------------------------- MODULE QuotaLedger ----------------------------
(***************************************************************************)
(* What the quota store of pkg/tollgate promises whatever fails around it: *)
(* an account opens once with its grant; a unit is spent only while the    *)
(* units spent and not returned are fewer than the grant; a unit comes     *)
(* back only to an account something was spent from.                       *)
(***************************************************************************)
EXTENDS Integers

CONSTANTS Keys, Limited, Grant

VARIABLES open, spent, returned

vars == <<open, spent, returned>>

Init ==
    /\ open = {}
    /\ spent = [k \in Keys |-> 0]
    /\ returned = [k \in Keys |-> 0]

Open(k) ==
    /\ k \notin open
    /\ open' = open \cup {k}
    /\ UNCHANGED <<spent, returned>>

Spend(k) ==
    /\ k \in open
    /\ k \in Limited => spent[k] - returned[k] < Grant[k]
    /\ spent' = [spent EXCEPT ![k] = @ + 1]
    /\ UNCHANGED <<open, returned>>

Return(k) ==
    /\ k \in open /\ spent[k] > 0
    /\ returned' = [returned EXCEPT ![k] = @ + 1]
    /\ UNCHANGED <<open, spent>>

Next == \E k \in Keys : Open(k) \/ Spend(k) \/ Return(k)

Spec == Init /\ [][Next]_vars
=============================================================================
