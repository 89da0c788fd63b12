-------------------------- MODULE MCRefreshHistory --------------------------
(* Three POSTs with the same URL and body, one of them a refresh, all sent  *)
(* to one gateway.                                                          *)
EXTENDS RefreshHistory

MCBytes == {"/u", "x"}
MCAt == [r \in Requests |-> "g1"]
MCMethod == [r \in Requests |-> "POST"]
MCUrl == [r \in Requests |-> <<"/u">>]
MCBody == [r \in Requests |-> <<"x">>]
MCLeftovers == CacheKeys
=============================================================================
