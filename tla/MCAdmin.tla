------------------------------ MODULE MCAdmin ------------------------------
(* Admin on a small instance.                                              *)
EXTENDS Admin, TLC

MCSymmetry == Permutations(Requests) \cup Permutations(AdminConns) \cup Permutations(Emails)

(* Bounds: one client leaves, and one request is an invitation, which runs *)
(* the statements of a new user and then those of a new key.               *)
MCOneLeaves == \A r, q \in gone : r = q
MCOneInvites ==
    LET invites == {r \in Requests : ask[r] # None /\ ask[r].kind = "invite"}
    IN  \A r, q \in invites : r = q
=============================================================================
