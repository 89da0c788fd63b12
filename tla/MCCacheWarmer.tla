---------------------------- MODULE MCCacheWarmer ----------------------------
(* CacheWarmer on a small instance: three quota rows.                       *)
EXTENDS CacheWarmer

CONSTANTS w1, w2

MCRows == 1..3
=============================================================================
