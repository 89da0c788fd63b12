----------------------------- MODULE CacheWarmer -----------------------------
(***************************************************************************)
(* pkg/cw.go: CacheWarmer.Do copies the quota rows of Postgres into Redis, *)
(* page by page, before a gateway starts (cmd/cachev2) or on demand        *)
(* (cmd/cachewarmer).  Several warm-ups may run at once, next to gateways  *)
(* that charge the hashes already there and to administrators who open     *)
(* services and top keys up.                                               *)
(*                                                                         *)
(* Both callers pass context.Background(), so the check of ctx.Done never  *)
(* ends the loop, and both ignore what Do returns.                         *)
(***************************************************************************)
EXTENDS Naturals, FiniteSets

CONSTANTS
    Rows,       \* ids of quota rows, one per (api_key_id, service_id)
    Warmers,    \* processes that call Do
    BatchSize,
    Default     \* default_quota of the service

ASSUME RowsAssumption == Rows \subseteq Nat /\ IsFiniteSet(Rows)
ASSUME SizesAssumption == BatchSize \in Nat \ {0} /\ Default \in Nat

VARIABLES
    visible,   \* committed quota rows whose key is assigned
    loaded,    \* rows whose quota hash exists in Redis
    available, \* field "available" of each hash
    charges,   \* history: units charged to each hash
    pc, offset, batch, errs,  \* locals of each Do; batch: records to write
    broken,    \* warm-ups whose pgx.Conn is closed
    seen       \* history: the rows visible when Do started

hashes == <<loaded, available, charges>>
locals == <<pc, offset, batch, errs, broken, seen>>
vars == <<visible, hashes, locals>>

Least(S) == CHOOSE r \in S : \A q \in S : r <= q

(* Every page from here on is empty, so no offset beyond it is needed.     *)
End == Cardinality(Rows)

TypeOK ==
    /\ visible \subseteq Rows /\ loaded \subseteq Rows
    /\ available \in [Rows -> 0..Default]
    /\ charges \in [Rows -> Nat]
    /\ pc \in [Warmers -> {"idle", "reading", "writing", "done"}]
    /\ offset \in [Warmers -> 0..End]
    /\ batch \in [Warmers -> SUBSET Rows] /\ seen \in [Warmers -> SUBSET Rows]
    /\ errs \in [Warmers -> BOOLEAN]
    /\ broken \subseteq Warmers

Init ==
    /\ visible \in SUBSET Rows
    /\ loaded = {}
    /\ available = [r \in Rows |-> 0]
    /\ charges = [r \in Rows |-> 0]
    /\ pc = [w \in Warmers |-> "idle"]
    /\ offset = [w \in Warmers |-> 0]
    /\ batch = [w \in Warmers |-> {}] /\ seen = [w \in Warmers |-> {}]
    /\ errs = [w \in Warmers |-> FALSE]
    /\ broken = {}

-----------------------------------------------------------------------------
(* Administrators and gateways.                                            *)

(* OpenServiceForKey: the upsert of InitializeKeyServiceQuota inserts the  *)
(* row, or sets available to the default again, which it was already.      *)
(* The id is drawn at the insertion, so rows may be committed in an order  *)
(* that is not theirs.                                                     *)
OpenServiceForKey(r) ==
    /\ visible' = visible \cup {r}
    /\ UNCHANGED <<hashes, locals>>

CanChargeOverdrawing(r) == r \in loaded
CanCharge(r) == r \in loaded /\ available[r] >= 1

(* Tollgate's script reserves one unit of a key that has_quota.  Refunds,  *)
(* which Tollgate models, are left out here.                               *)
Charge(r) ==
    /\ CanCharge(r)
    /\ available' = [available EXCEPT ![r] = @ - 1]
    /\ charges' = [charges EXCEPT ![r] = @ + 1]
    /\ UNCHANGED <<visible, loaded, locals>>

-----------------------------------------------------------------------------
(* CacheWarmer.Do                                                          *)

Start(w) ==
    /\ pc[w] = "idle"
    /\ pc' = [pc EXCEPT ![w] = "reading"]
    /\ seen' = [seen EXCEPT ![w] = visible]
    /\ UNCHANGED <<visible, hashes, offset, batch, errs, broken>>

(* GetAllQuotas: ORDER BY id LIMIT BatchSize OFFSET o. *)
Page(o) ==
    {r \in visible : Cardinality({q \in visible : q < r}) \in o..(o + BatchSize - 1)}

NextOffsetStuck(o) == o
NextOffset(o) == o + BatchSize

Advance(w) ==
    offset' = [offset EXCEPT ![w] = IF NextOffset(@) < End THEN NextOffset(@) ELSE End]

(* A page is read from a snapshot of its own; an empty one ends the loop.  *)
ReadPage(w) ==
    /\ pc[w] = "reading" /\ w \notin broken
    /\ batch' = [batch EXCEPT ![w] = Page(offset[w])]
    /\ pc' = [pc EXCEPT ![w] = IF Page(offset[w]) = {} THEN "done" ELSE "writing"]
    /\ UNCHANGED <<visible, hashes, offset, errs, broken, seen>>

AfterQueryErrorSilent(e) == e
AfterQueryError(e) == TRUE

(* A failed query is noted and its page skipped.  The connection may be    *)
(* closed by the failure; a pgx.Conn does not come back.                   *)
QueryFails(w) ==
    /\ pc[w] = "reading"
    /\ errs' = [errs EXCEPT ![w] = AfterQueryError(@)]
    /\ Advance(w)
    /\ broken' \in {broken, broken \cup {w}}
    /\ UNCHANGED <<visible, hashes, pc, batch, seen>>

AbsentIgnored(r) == TRUE
Absent(r) == r \notin loaded

(* writeQuotaAndMetric: a hash is written only when there is none.  (The   *)
(* rows read a moment ago all hold the default as available.)              *)
WriteHash(r) ==
    IF Absent(r)
    THEN /\ loaded' = loaded \cup {r}
         /\ available' = [available EXCEPT ![r] = Default]
         /\ UNCHANGED charges
    ELSE UNCHANGED hashes

(* BatchDo's next record is taken off the batch; after the last one the    *)
(* loop goes on with the next page.                                        *)
NextRecord(w) ==
    LET rest == batch[w] \ {Least(batch[w])}
    IN /\ batch' = [batch EXCEPT ![w] = rest]
       /\ IF rest = {}
          THEN pc' = [pc EXCEPT ![w] = "reading"] /\ Advance(w)
          ELSE UNCHANGED <<pc, offset>>

WriteRecord(w) ==
    /\ pc[w] = "writing"
    /\ WriteHash(Least(batch[w]))
    /\ NextRecord(w)
    /\ UNCHANGED <<visible, errs, broken, seen>>

(* The command fails, before or after Redis executed the script.           *)
WriteFails(w) ==
    /\ pc[w] = "writing"
    /\ WriteHash(Least(batch[w])) \/ UNCHANGED hashes
    /\ NextRecord(w)
    /\ errs' = [errs EXCEPT ![w] = TRUE]
    /\ UNCHANGED <<visible, broken, seen>>

(* The process ends, done or not, and may be started again.                *)
Restart(w) ==
    /\ pc[w] # "idle"
    /\ pc' = [pc EXCEPT ![w] = "idle"]
    /\ offset' = [offset EXCEPT ![w] = 0]
    /\ batch' = [batch EXCEPT ![w] = {}]
    /\ errs' = [errs EXCEPT ![w] = FALSE]
    /\ broken' = broken \ {w}
    /\ seen' = [seen EXCEPT ![w] = {}]
    /\ UNCHANGED <<visible, hashes>>

Next ==
    \/ \E r \in Rows : OpenServiceForKey(r) \/ Charge(r)
    \/ \E w \in Warmers :
          \/ Start(w) \/ ReadPage(w) \/ QueryFails(w)
          \/ WriteRecord(w) \/ WriteFails(w) \/ Restart(w)

Spec == Init /\ [][Next]_vars

(* A running warm-up goes on, and a database that is asked again and again *)
(* over an open connection does not fail every time.                       *)
FairSpec ==
    /\ Spec
    /\ \A w \in Warmers :
          /\ WF_vars(ReadPage(w))
          /\ WF_vars(WriteRecord(w) \/ WriteFails(w))

-----------------------------------------------------------------------------
(* Properties.                                                             *)

(* A warm-up that reports no error has left a hash for every row there was *)
(* when it started, though rows committed meanwhile shift its pages.       *)
CleanWarmUpIsComplete ==
    \A w \in Warmers : pc[w] = "done" /\ ~errs[w] => seen[w] \subseteq loaded

(* However many warm-ups run, and whenever they restart, no charge made to *)
(* a hash is forgotten.                                                    *)
NoChargeForgotten ==
    \A r \in loaded : available[r] + charges[r] = Default

(* A warm-up comes to an end, through any number of failed queries and     *)
(* rows committed while it runs, unless its connection is closed: then the *)
(* loop of Do spins for ever.                                              *)
WarmUpEnds ==
    \A w \in Warmers :
        pc[w] = "reading" ~> pc[w] \in {"done", "idle"} \/ w \in broken
=============================================================================
