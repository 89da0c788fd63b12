---------------------------- MODULE MCStaffLogin ----------------------------
(* StaffLogin on a small instance whose requests, browsers and addresses    *)
(* are alike.                                                               *)
EXTENDS StaffLogin

MCSymmetry == Permutations(Requests) \cup Permutations(Browsers) \cup Permutations(Emails)
=============================================================================
