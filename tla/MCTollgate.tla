----------------------------- MODULE MCTollgate -----------------------------
(* Tollgate on small instances: r3 presents the unlimited key k2, every    *)
(* other request the limited key k1, which has a single unit.              *)
EXTENDS Tollgate

CONSTANTS r1, r2, r3, k1, k2

MCKeyOf == [r \in Requests |-> IF r = r3 THEN k2 ELSE k1]
MCGrant == [k \in Keys |-> 1]
MCUsed == [k \in Keys |-> 2]
=============================================================================
