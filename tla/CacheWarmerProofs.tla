------------------------- MODULE CacheWarmerProofs -------------------------
(***************************************************************************)
(* Proofs about module CacheWarmer, for any finite set of rows, any size   *)
(* of a page, any default and any number of warm-ups.                      *)
(***************************************************************************)
EXTENDS CacheWarmer, FiniteSetTheorems, WellFoundedInduction, TLAPS

(* The position of a row in ORDER BY id, from 0, when V is visible. *)
Below(r, V) == {q \in V : q < r}
Rank(r, V) == Cardinality(Below(r, V))

(* What a warm-up without an error has still before it: the rows at or     *)
(* after the offset of the page it reads next.                             *)
Pending(w, o) == {r \in seen[w] : Rank(r, visible) >= o}

Complete(w) ==
    /\ pc[w] = "reading" => seen[w] \subseteq loaded \cup Pending(w, offset[w])
    /\ pc[w] = "writing" =>
          seen[w] \subseteq loaded \cup batch[w] \cup Pending(w, offset[w] + BatchSize)
    /\ pc[w] = "done" => seen[w] \subseteq loaded

Warm ==
    \A w \in Warmers :
        /\ seen[w] \subseteq visible
        /\ pc[w] = "writing" => batch[w] # {}
        /\ pc[w] = "idle" => offset[w] = 0
        /\ ~errs[w] => Complete(w)

(* No hash, no charge: what a warm-up finds absent was never charged. *)
Books ==
    /\ NoChargeForgotten
    /\ \A r \in Rows \ loaded : charges[r] = 0

IInv ==
    /\ TypeOK
    /\ Books
    /\ Warm

-----------------------------------------------------------------------------
(* Rows in the order of their ids. *)

LEMMA LeastIsLeast ==
    ASSUME NEW S \in SUBSET Nat, S # {}
    PROVE  Least(S) \in S /\ \A q \in S : Least(S) <= q
  <1>1. \E r \in S : \A q \in S : r <= q
    <2> DEFINE R == OpToRel(<, Nat)
    <2>1. PICK r \in S : \A q \in S : <<q, r>> \notin R
      <3> HIDE DEF R
      <3>1. IsWellFoundedOn(R, Nat)
        BY NatLessThanWellFounded, Zenon DEF R
      <3> QED
        BY <3>1, WFMin
    <2>2. ASSUME NEW q \in Nat, NEW n \in Nat, q < n
          PROVE  <<q, n>> \in R
      BY <2>2, Zenon DEF OpToRel
    <2> HIDE DEF R
    <2>3. \A q \in S : ~(q < r)
      BY <2>1, <2>2
    <2>4. \A q \in S : q \in Nat /\ r \in Nat
      OBVIOUS
    <2> QED
      BY <2>3, <2>4
  <1> QED
    BY <1>1 DEF Least

LEMMA RankFacts ==
    ASSUME NEW V \in SUBSET Rows, NEW r \in Rows
    PROVE  /\ IsFiniteSet(Below(r, V)) /\ Rank(r, V) \in 0..(End - 1) /\ End \in Nat
           /\ \A U \in SUBSET V : Rank(r, U) <= Rank(r, V)
  <1> USE RowsAssumption
  <1>1. Below(r, V) \subseteq Rows \ {r}
    <2>1. ASSUME NEW q \in V, q < r
          PROVE  q \in Rows /\ q # r
      <3>1. q \in Nat /\ r \in Nat
        OBVIOUS
      <3> QED
        BY <2>1, <3>1
    <2> QED
      BY <2>1 DEF Below
  <1>2. /\ IsFiniteSet(Rows \ {r}) /\ Cardinality(Rows \ {r}) = End - 1 /\ End \in Nat
    BY FS_RemoveElement, FS_CardinalityType DEF End
  <1>3. IsFiniteSet(Below(r, V)) /\ Rank(r, V) \in 0..(End - 1)
    BY <1>1, <1>2, FS_Subset, FS_CardinalityType DEF Rank
  <1>4. ASSUME NEW U \in SUBSET V PROVE Rank(r, U) <= Rank(r, V)
    BY <1>3, FS_Subset DEF Rank, Below
  <1> QED
    BY <1>2, <1>3, <1>4

(* Ranks have no gaps: a row that is not the first comes right after one. *)
LEMMA RowBefore ==
    ASSUME NEW V \in SUBSET Rows, NEW r \in Rows, Rank(r, V) > 0
    PROVE  \E p \in V : p < r /\ Rank(r, V) = Rank(p, V) + 1
  <1> USE RowsAssumption
  <1>1. Below(r, V) # {}
    BY FS_EmptySet DEF Rank
  <1> DEFINE Bounds == {n \in Nat : \A q \in Below(r, V) : q <= n}
  <1>2. r \in Bounds
    BY DEF Below
  <1>3. PICK p \in Bounds : \A n \in Bounds : p <= n
    BY <1>2, LeastIsLeast
  <1>4. p \in Below(r, V)
    <2>1. SUFFICES ASSUME p \notin Below(r, V) PROVE FALSE
      OBVIOUS
    <2>2. \A q \in Below(r, V) : q \in Nat /\ q < p
      BY <1>3, <2>1 DEF Below
    <2>3. p # 0
      BY <1>1, <2>2
    <2>4. p - 1 \in Bounds
      BY <1>3, <2>2, <2>3
    <2> QED
      BY <1>3, <2>4
  <1>5. Below(r, V) = Below(p, V) \cup {p} /\ p \notin Below(p, V)
    <2>1. p \in V /\ p < r /\ p \in Nat /\ r \in Nat
      BY <1>4 DEF Below
    <2>2. \A q \in V : q \in Nat /\ (q < r => q <= p)
      BY <1>3 DEF Below
    <2>3. \A q \in V : q < r <=> q < p \/ q = p
      BY <2>1, <2>2
    <2>4. ~(p < p)
      BY <2>1
    <2> QED
      BY <2>1, <2>3, <2>4 DEF Below
  <1>6. Rank(r, V) = Rank(p, V) + 1
    <2>1. p \in Rows
      BY <1>4 DEF Below
    <2>2. IsFiniteSet(Below(p, V))
      BY <2>1, RankFacts
    <2> QED
      BY <1>5, <2>2, FS_AddElement DEF Rank
  <1> QED
    BY <1>4, <1>6 DEF Below

(* A page is empty only when no row is left at or after its offset. *)
LEMMA EmptyPageIsLast ==
    ASSUME TypeOK, NEW o \in Nat, Page(o) = {}, NEW r \in visible
    PROVE  Rank(r, visible) < o
  <1> USE RowsAssumption, SizesAssumption DEF TypeOK
  <1> DEFINE Late == {q \in visible : Rank(q, visible) >= o}
  <1>1. SUFFICES ASSUME Late # {} PROVE FALSE
    BY RankFacts
  <1>2. PICK m \in Late : \A q \in Late : m <= q
    BY <1>1, LeastIsLeast
  <1>3. \A q \in visible : Rank(q, visible) \in Nat /\ Rank(q, visible) \notin o..(o + BatchSize - 1)
    <2>1. ASSUME NEW q \in visible
          PROVE  Rank(q, visible) \in Nat
      <3>1. Rank(q, visible) \in 0..(End - 1) /\ End \in Nat
        BY RankFacts
      <3> QED
        BY <3>1
    <2>2. \A q \in visible : Rank(q, visible) \notin o..(o + BatchSize - 1)
      BY Zenon DEF Page, Rank, Below
    <2> QED
      BY <2>1, <2>2
  <1>4. Rank(m, visible) >= o + BatchSize
    BY <1>2, <1>3
  <1>5. PICK p \in visible : p < m /\ Rank(m, visible) = Rank(p, visible) + 1
    <2>1. m \in Rows /\ visible \in SUBSET Rows /\ Rank(m, visible) > 0
      BY <1>2, <1>3, <1>4
    <2> QED
      BY <2>1, RowBefore
  <1>6. p \in Late
    BY <1>3, <1>4, <1>5
  <1> QED
    BY <1>2, <1>5, <1>6

-----------------------------------------------------------------------------
(* The invariant. *)

LEMMA EndIsNat == End \in Nat
  BY RowsAssumption, FS_CardinalityType DEF End

LEMMA InvInit == Init => IInv
  BY EndIsNat, SizesAssumption DEF Init, IInv, TypeOK, Books, NoChargeForgotten, Warm, Complete

(* A row committed meanwhile moves others to later pages, never to earlier *)
(* ones.                                                                   *)
LEMMA OpenKeepsInv ==
    ASSUME IInv, NEW r \in Rows, OpenServiceForKey(r)
    PROVE  IInv'
  <1> USE DEF IInv, TypeOK, OpenServiceForKey, hashes, locals
  <1>1. TypeOK' /\ Books'
    BY DEF Books, NoChargeForgotten
  <1>2. ASSUME NEW w \in Warmers, NEW o \in Nat
        PROVE  Pending(w, o) \subseteq Pending(w, o)'
    <2>1. ASSUME NEW q \in seen[w], Rank(q, visible) >= o
          PROVE  Rank(q, visible') >= o
      <3>1. q \in Rows /\ visible' \in SUBSET Rows /\ visible \in SUBSET visible'
        OBVIOUS
      <3>2. Rank(q, visible) <= Rank(q, visible')
        BY <3>1, RankFacts
      <3>3. Rank(q, visible) \in Nat /\ Rank(q, visible') \in Nat
        BY <3>1, RankFacts, EndIsNat
      <3> QED
        BY <2>1, <3>2, <3>3
    <2> QED
      BY <2>1 DEF Pending
  <1>3. ASSUME NEW w \in Warmers, Complete(w)
        PROVE  Complete(w)'
    <2>1. offset[w] \in Nat /\ offset[w] + BatchSize \in Nat
      BY SizesAssumption, EndIsNat
    <2> QED
      BY <1>2, <1>3, <2>1 DEF Complete
  <1> QED
    BY <1>1, <1>3 DEF Warm

LEMMA ChargeKeepsInv ==
    ASSUME IInv, NEW r \in Rows, Charge(r)
    PROVE  IInv'
  <1> USE SizesAssumption DEF IInv, TypeOK, Charge, CanCharge, locals
  <1>1. TypeOK'
    OBVIOUS
  <1>2. Books'
    BY DEF Books, NoChargeForgotten
  <1>3. Warm'
    BY DEF Warm, Complete, Pending
  <1> QED
    BY <1>1, <1>2, <1>3

LEMMA StartKeepsInv ==
    ASSUME IInv, NEW w \in Warmers, Start(w)
    PROVE  IInv'
  <1> USE DEF IInv, TypeOK, Start, hashes
  <1>1. TypeOK' /\ Books'
    BY DEF Books, NoChargeForgotten
  <1>2. Complete(w)'
    <2>1. offset'[w] = 0 /\ seen'[w] = visible /\ visible' = visible /\ pc'[w] = "reading"
      BY DEF Warm
    <2>2. \A q \in visible : Rank(q, visible) >= 0
      BY RankFacts, EndIsNat
    <2> QED
      BY <2>1, <2>2 DEF Complete, Pending
  <1>3. Warm'
    BY <1>2 DEF Warm, Complete, Pending
  <1> QED
    BY <1>1, <1>3

(* The page read holds what is due before the next one; an empty page      *)
(* leaves nothing due.                                                     *)
LEMMA ReadKeepsInv ==
    ASSUME IInv, NEW w \in Warmers, ReadPage(w)
    PROVE  IInv'
  <1> USE SizesAssumption DEF IInv, TypeOK, ReadPage, hashes
  <1> DEFINE o == offset[w]
  <1>1. o \in Nat /\ Page(o) \subseteq visible
    BY EndIsNat DEF Page
  <1>2. TypeOK' /\ Books'
    BY <1>1 DEF Books, NoChargeForgotten
  <1>3. ASSUME Complete(w)
        PROVE  Complete(w)'
    <2>1. seen[w] \subseteq loaded \cup Pending(w, o) /\ seen[w] \subseteq visible
      BY <1>3 DEF Complete, Warm
    <2>2. CASE Page(o) = {}
      <3>1. \A q \in visible : Rank(q, visible) < o /\ Rank(q, visible) \in Nat
        BY <1>1, <2>2, EmptyPageIsLast, RankFacts, EndIsNat
      <3>2. Pending(w, o) = {}
        BY <1>1, <2>1, <3>1 DEF Pending
      <3> QED
        BY <2>1, <2>2, <3>2 DEF Complete
    <2>3. CASE Page(o) # {}
      <3>1. ASSUME NEW q \in Pending(w, o)
            PROVE  q \in Page(o) \/ q \in Pending(w, o + BatchSize)
        <4>1. q \in visible /\ q \in seen[w] /\ Rank(q, visible) >= o
          BY <2>1 DEF Pending
        <4>2. Rank(q, visible) \in Nat
          BY <4>1, RankFacts, EndIsNat
        <4>3. Rank(q, visible) \in o..(o + BatchSize - 1) \/ Rank(q, visible) >= o + BatchSize
          BY <1>1, <4>1, <4>2
        <4> QED
          BY <4>1, <4>3 DEF Page, Pending, Rank, Below
      <3>2. Pending(w, o + BatchSize)' = Pending(w, o + BatchSize)
        BY DEF Pending
      <3> QED
        BY <2>1, <2>3, <3>1, <3>2 DEF Complete
    <2> QED
      BY <2>2, <2>3
  <1>4. Warm'
    BY <1>3 DEF Warm, Complete, Pending
  <1> QED
    BY <1>2, <1>4

LEMMA AdvanceTyped ==
    ASSUME TypeOK, NEW w \in Warmers, Advance(w)
    PROVE  offset' \in [Warmers -> 0..End]
  BY SizesAssumption, EndIsNat DEF TypeOK, Advance, NextOffset

LEMMA QueryFailsKeepsInv ==
    ASSUME IInv, NEW w \in Warmers, QueryFails(w)
    PROVE  IInv'
  <1> USE DEF IInv, TypeOK, QueryFails, AfterQueryError, hashes
  <1>1. TypeOK' /\ Books'
    BY AdvanceTyped DEF Books, NoChargeForgotten
  <1>2. \A v \in Warmers \ {w} : offset'[v] = offset[v]
    BY DEF Advance
  <1>3. Warm'
    BY <1>2 DEF Warm, Complete, Pending
  <1> QED
    BY <1>1, <1>3

LEMMA HashEffect ==
    ASSUME IInv, NEW r \in Rows, WriteHash(r) \/ UNCHANGED hashes
    PROVE  /\ loaded' \in SUBSET Rows /\ loaded \subseteq loaded' /\ charges' = charges
           /\ available' \in [Rows -> 0..Default] /\ Books'
           /\ WriteHash(r) => r \in loaded'
  <1> USE SizesAssumption DEF IInv, TypeOK, Books, NoChargeForgotten
  <1>1. CASE WriteHash(r) /\ Absent(r)
    BY <1>1 DEF WriteHash, Absent
  <1>2. CASE UNCHANGED hashes
    BY <1>2 DEF hashes, WriteHash, Absent
  <1> QED
    BY <1>1, <1>2 DEF WriteHash

(* The record written leaves the batch; with the last one, the rows still  *)
(* pending are those of the next page, unless there is none.               *)
LEMMA WriteKeepsInv ==
    ASSUME IInv, NEW w \in Warmers, WriteRecord(w) \/ WriteFails(w)
    PROVE  IInv'
  <1> USE SizesAssumption DEF IInv, TypeOK
  <1> DEFINE x == Least(batch[w])
             rest == batch[w] \ {x}
  <1>1. /\ pc[w] = "writing" /\ NextRecord(w)
        /\ visible' = visible /\ seen' = seen /\ broken' = broken
        /\ errs' \in [Warmers -> BOOLEAN] /\ \A v \in Warmers \ {w} : errs'[v] = errs[v]
        /\ \/ WriteHash(x) /\ errs' = errs
           \/ (WriteHash(x) \/ UNCHANGED hashes) /\ errs'[w] = TRUE
    BY DEF WriteRecord, WriteFails
  <1>2. batch[w] # {} /\ batch[w] \subseteq Rows
    BY <1>1 DEF Warm
  <1>3. x \in batch[w] /\ x \in Rows
    BY <1>2, RowsAssumption, LeastIsLeast
  <1> HIDE DEF x
  <1>4. /\ loaded' \in SUBSET Rows /\ loaded \subseteq loaded' /\ charges' = charges
        /\ available' \in [Rows -> 0..Default] /\ Books'
        /\ WriteHash(x) => x \in loaded'
    BY <1>1, <1>3, HashEffect
  <1>5. /\ batch' = [batch EXCEPT ![w] = rest]
        /\ rest # {} => pc' = pc /\ offset' = offset
        /\ rest = {} => pc' = [pc EXCEPT ![w] = "reading"] /\ Advance(w)
    BY <1>1 DEF NextRecord, x
  <1>6. TypeOK'
    <2>1. offset' \in [Warmers -> 0..End]
      BY <1>5, AdvanceTyped
    <2> QED
      BY <1>1, <1>2, <1>4, <1>5, <2>1
  <1>7. ASSUME Complete(w), WriteHash(x)
        PROVE  Complete(w)'
    <2>1. seen[w] \subseteq loaded \cup batch[w] \cup Pending(w, offset[w] + BatchSize)
      BY <1>1, <1>7 DEF Complete
    <2>2. seen[w] \subseteq loaded' \cup rest \cup Pending(w, offset[w] + BatchSize)
      BY <1>4, <1>7, <2>1
    <2>3. \A n \in Nat : Pending(w, n)' = Pending(w, n)
      BY <1>1 DEF Pending
    <2>4. offset[w] \in Nat /\ offset[w] + BatchSize \in Nat
      BY EndIsNat
    <2>5. CASE rest # {}
      BY <1>1, <1>5, <2>2, <2>3, <2>4, <2>5 DEF Complete
    <2>6. CASE rest = {}
      <3>1. /\ pc'[w] = "reading"
            /\ offset'[w] = IF offset[w] + BatchSize < End THEN offset[w] + BatchSize ELSE End
        BY <1>5, <2>6 DEF Advance, NextOffset
      <3>2. ASSUME NEW q \in Pending(w, offset[w] + BatchSize)
            PROVE  offset'[w] = offset[w] + BatchSize
        <4>1. Rank(q, visible) >= offset[w] + BatchSize /\ q \in Rows
          BY DEF Pending
        <4>2. Rank(q, visible) \in 0..(End - 1)
          BY <4>1, RankFacts
        <4> QED
          BY <2>4, <3>1, <4>1, <4>2, EndIsNat
      <3>3. seen[w] \subseteq loaded' \cup Pending(w, offset'[w])
        BY <2>2, <2>6, <3>2
      <3>4. seen'[w] \subseteq loaded' \cup Pending(w, offset[w])'
        BY <1>1, <3>3 DEF Pending
      <3> QED
        BY <3>1, <3>4 DEF Complete
    <2> QED
      BY <2>5, <2>6
  <1>8. Warm'
    <2>1. ~errs'[w] => Complete(w)'
      BY <1>1, <1>7 DEF Warm
    <2>2. ASSUME NEW v \in Warmers \ {w}
          PROVE  /\ pc'[v] = pc[v] /\ offset'[v] = offset[v] /\ batch'[v] = batch[v]
                 /\ errs'[v] = errs[v] /\ seen'[v] = seen[v]
      BY <1>1, <1>5 DEF Advance
    <2>3. ASSUME NEW v \in Warmers \ {w}, Complete(v)
          PROVE  Complete(v)'
      BY <1>1, <1>4, <2>2, <2>3 DEF Complete, Pending
    <2>4. /\ pc'[w] \in {"reading", "writing"}
          /\ pc'[w] = "writing" => batch'[w] # {}
      BY <1>1, <1>5
    <2> QED
      BY <1>1, <2>1, <2>2, <2>3, <2>4 DEF Warm
  <1> QED
    BY <1>4, <1>6, <1>8

LEMMA RestartKeepsInv ==
    ASSUME IInv, NEW w \in Warmers, Restart(w)
    PROVE  IInv'
  <1> USE DEF IInv, TypeOK, Restart, hashes
  <1>1. TypeOK' /\ Books'
    BY EndIsNat DEF Books, NoChargeForgotten
  <1>2. Warm'
    BY DEF Warm, Complete, Pending
  <1> QED
    BY <1>1, <1>2

LEMMA InvInductive == IInv /\ [Next]_vars => IInv'
  <1> SUFFICES ASSUME IInv, [Next]_vars PROVE IInv'
    OBVIOUS
  <1>1. CASE UNCHANGED vars
    BY <1>1
    DEF vars, hashes, locals, IInv, TypeOK, Books, NoChargeForgotten, Warm, Complete, Pending
  <1> QED
    BY <1>1, OpenKeepsInv, ChargeKeepsInv, StartKeepsInv, ReadKeepsInv, QueryFailsKeepsInv,
       WriteKeepsInv, RestartKeepsInv
    DEF Next

LEMMA InvCorrect == Spec => []IInv
  BY InvInit, InvInductive, PTL DEF Spec

-----------------------------------------------------------------------------
(* The theorems. *)

(* Every variable keeps its type: an available quota is never negative nor *)
(* above the default, and no offset is past the end.                       *)
THEOREM TypeCorrect == Spec => []TypeOK
  <1>1. IInv => TypeOK
    BY DEF IInv
  <1> QED
    BY <1>1, InvCorrect, PTL

(* However many warm-ups run and restart, a hash that was charged is never *)
(* written over (writeQuotaAndMetric, cw.go:28).                           *)
THEOREM ChargesCorrect == Spec => []NoChargeForgotten
  <1>1. IInv => NoChargeForgotten
    BY DEF IInv, Books
  <1> QED
    BY <1>1, InvCorrect, PTL

(* A warm-up that ends without an error has left a hash for every row that *)
(* was there when it started, although every page is read from a snapshot  *)
(* of its own: rows inserted meanwhile only ever move others to later      *)
(* pages (GetAllQuotas, CacheWarmer.Do).                                   *)
THEOREM CompletenessCorrect == Spec => []CleanWarmUpIsComplete
  <1>1. IInv => CleanWarmUpIsComplete
    BY DEF IInv, Warm, Complete, CleanWarmUpIsComplete
  <1> QED
    BY <1>1, InvCorrect, PTL
=============================================================================
