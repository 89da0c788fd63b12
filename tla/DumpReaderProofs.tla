--------------------------- MODULE DumpReaderProofs ---------------------------
(***************************************************************************)
(* Proofs about module DumpReader, for dumps and channels of every size:   *)
(* whatever the records turn out to be and wherever parser, decoder or     *)
(* disk stop, a file called good is whole.                                 *)
(***************************************************************************)
EXTENDS DumpReader, TLAPS

Stages == 1..5

LEMMA StageNumbers ==
    /\ Parse = 1 /\ Filter = 2 /\ Transform = 3 /\ Decode = 4 /\ Write = 5
    /\ Senders = 1..4 /\ Receivers = 2..5 /\ Senders \cup Receivers = Stages
  BY DEF Parse, Filter, Transform, Decode, Write, Senders, Receivers, Stages

-----------------------------------------------------------------------------
(* Queues of objects.                                                      *)

Elems(q) == {q[p] : p \in 1..Len(q)}

Ascending(q) == \A m, n \in 1..Len(q) : m < n => q[m] < q[n]

(* Taking the first element of an ascending queue leaves an ascending one, *)
(* and every element left is greater.                                      *)
LEMMA TakeFirst ==
    ASSUME NEW S, S \subseteq Nat, NEW q \in Seq(S), q # <<>>, Ascending(q)
    PROVE  /\ Head(q) \in S /\ Head(q) \in Elems(q)
           /\ Tail(q) \in Seq(S) /\ Len(Tail(q)) < Len(q)
           /\ Elems(Tail(q)) = Elems(q) \ {Head(q)}
           /\ \A i \in Elems(q) : i = Head(q) \/ Head(q) < i
           /\ Ascending(Tail(q))
  <1>1. Len(q) \in Nat /\ Len(q) > 0 /\ Head(q) = q[1] /\ \A n \in 1..Len(q) : q[n] \in S
    OBVIOUS
  <1>2. /\ Tail(q) \in Seq(S) /\ Len(Tail(q)) = Len(q) - 1
        /\ \A n \in 1..Len(Tail(q)) : Tail(q)[n] = q[n + 1]
    OBVIOUS
  <1>3. \A n \in 1..Len(q) : n = 1 \/ q[1] < q[n]
    BY <1>1 DEF Ascending
  <1>4. \A n \in 2..Len(q) : n - 1 \in 1..Len(Tail(q)) /\ Tail(q)[n - 1] = q[n]
    BY <1>1, <1>2
  <1>5. ASSUME NEW i \in Elems(q) PROVE i = Head(q) \/ Head(q) < i
    BY <1>1, <1>3, <1>5 DEF Elems
  <1>6. ASSUME NEW i \in Elems(Tail(q)) PROVE i \in Elems(q) \ {Head(q)}
    <2>1. PICK n \in 1..Len(Tail(q)) : i = q[n + 1]
      BY <1>2, <1>6 DEF Elems
    <2>2. n + 1 \in 1..Len(q) /\ n + 1 # 1
      BY <1>1, <1>2
    <2>3. q[1] < q[n + 1]
      BY <1>3, <2>2
    <2>4. q[1] \in S /\ q[n + 1] \in S
      BY <1>1, <2>2
    <2>5. q[n + 1] # q[1]
      <3> DEFINE a == q[1]
                 b == q[n + 1]
      <3>1. a \in Nat /\ b \in Nat /\ a < b
        BY <2>3, <2>4
      <3> HIDE DEF a, b
      <3>2. a # b
        BY <3>1
      <3> QED
        BY <3>2 DEF a, b
    <2>6. i # Head(q)
      BY <1>1, <2>1, <2>5
    <2> QED
      BY <2>1, <2>2, <2>6 DEF Elems
  <1>7. ASSUME NEW i \in Elems(q), i # Head(q) PROVE i \in Elems(Tail(q))
    <2>1. PICK n \in 1..Len(q) : i = q[n]
      BY <1>7 DEF Elems
    <2>2. n \in 2..Len(q)
      BY <1>1, <1>7, <2>1
    <2> QED
      BY <1>4, <2>1, <2>2 DEF Elems
  <1>8. Ascending(Tail(q))
    <2> SUFFICES ASSUME NEW m \in 1..Len(Tail(q)), NEW n \in 1..Len(Tail(q)), m < n
                 PROVE  Tail(q)[m] < Tail(q)[n]
      BY DEF Ascending
    <2>1. m + 1 \in 1..Len(q) /\ n + 1 \in 1..Len(q) /\ m + 1 < n + 1
      BY <1>1, <1>2
    <2>2. q[m + 1] < q[n + 1]
      BY <2>1 DEF Ascending
    <2> QED
      BY <1>2, <2>2
  <1>9. Head(q) \in Elems(q)
    BY <1>1 DEF Elems
  <1> QED
    BY <1>1, <1>2, <1>5, <1>6, <1>7, <1>8, <1>9

LEMMA AddLast ==
    ASSUME NEW S, NEW q \in Seq(S), NEW i \in S
    PROVE  /\ Append(q, i) \in Seq(S) /\ Len(Append(q, i)) = Len(q) + 1
           /\ \A n \in 1..Len(q) : Append(q, i)[n] = q[n]
           /\ Append(q, i)[Len(q) + 1] = i
           /\ Elems(Append(q, i)) = Elems(q) \cup {i}
  <1>1. /\ Append(q, i) \in Seq(S) /\ Len(Append(q, i)) = Len(q) + 1 /\ Len(q) \in Nat
        /\ \A n \in 1..Len(q) : Append(q, i)[n] = q[n]
        /\ Append(q, i)[Len(q) + 1] = i
    OBVIOUS
  <1> DEFINE r == Append(q, i)
  <1> HIDE DEF r
  <1>2. \A n \in 1..(Len(q) + 1) : n \in 1..Len(q) \/ n = Len(q) + 1
    BY <1>1
  <1>3. Elems(r) \subseteq Elems(q) \cup {i}
    BY <1>1, <1>2 DEF Elems, r
  <1>4. Elems(q) \cup {i} \subseteq Elems(r)
    <2>1. Len(q) + 1 \in 1..Len(r) /\ \A n \in 1..Len(q) : n \in 1..Len(r)
      BY <1>1 DEF r
    <2> QED
      BY <1>1, <2>1 DEF Elems, r
  <1> QED
    BY <1>1, <1>3, <1>4 DEF r

LEMMA AddGreatest ==
    ASSUME NEW S, S \subseteq Nat, NEW q \in Seq(S), NEW i \in S, Ascending(q),
           \A j \in Elems(q) : j < i
    PROVE  Ascending(Append(q, i))
  <1> SUFFICES ASSUME NEW m \in 1..Len(Append(q, i)), NEW n \in 1..Len(Append(q, i)), m < n
               PROVE  Append(q, i)[m] < Append(q, i)[n]
    BY DEF Ascending
  <1>1. m \in 1..Len(q) /\ (n \in 1..Len(q) \/ n = Len(q) + 1) /\ Len(q) \in Nat
    BY AddLast
  <1>2. Append(q, i)[m] = q[m]
    BY <1>1, AddLast
  <1>3. CASE n \in 1..Len(q)
    BY <1>1, <1>2, <1>3, AddLast DEF Ascending
  <1>4. CASE n = Len(q) + 1
    <2>1. q[m] < i
      BY <1>1 DEF Elems
    <2>2. Append(q, i)[n] = i
      BY <1>4, AddLast
    <2> QED
      BY <1>2, <2>1, <2>2
  <1> QED
    BY <1>1, <1>3, <1>4

-----------------------------------------------------------------------------
(* Types.                                                                  *)

Queues == \A s \in Senders : Ascending(chan[s])

Typed == TypeOK /\ Queues

LEMMA TypedInit == Init => TypeOK
  <1> SUFFICES ASSUME Init PROVE TypeOK
    OBVIOUS
  <1>1. <<>> \in Seq(Objects) /\ <<>> \in Seq(0..(Size + 1)) /\ Len(<<>>) = 0
    OBVIOUS
  <1>2. /\ chan \in [Senders -> Seq(Objects)]
        /\ \A s \in Senders : Len(chan[s]) <= Capacity
    BY <1>1, SizesAssumption DEF Init
  <1>3. /\ hold \in [Senders \cup Receivers -> Objects \cup {None}]
        /\ record \in [Objects -> Kinds] /\ next \in 1..(Size + 1)
    BY SizesAssumption DEF Init
  <1> QED
    BY <1>1, <1>2, <1>3 DEF Init, TypeOK

(* What goes through the channels. *)
LEMMA ReceiveEffect ==
    ASSUME TypeOK, Queues, NEW s \in Receivers, Receive(s)
    PROVE  /\ chan[s - 1] # <<>> /\ Head(chan[s - 1]) \in Objects
           /\ chan' = [chan EXCEPT ![s - 1] = Tail(chan[s - 1])]
           /\ chan' \in [Senders -> Seq(Objects)]
           /\ hold' = [hold EXCEPT ![s] = Head(chan[s - 1])]
           /\ hold[s] = None /\ Running /\ s \in open \cup {Write}
           /\ (s = Write => pc = "loop")
           /\ UNCHANGED <<record, next, open, writer>>
  <1>1. s - 1 \in Senders
    BY StageNumbers
  <1>2. chan[s - 1] \in Seq(Objects) /\ chan[s - 1] # <<>> /\ Objects \subseteq Nat
    BY <1>1 DEF TypeOK, Receive, Objects
  <1>3. Head(chan[s - 1]) \in Objects /\ Tail(chan[s - 1]) \in Seq(Objects)
    BY <1>1, <1>2, TakeFirst DEF Queues
  <1> QED
    BY <1>1, <1>2, <1>3 DEF Receive, TypeOK

LEMMA SendEffect ==
    ASSUME TypeOK, NEW s \in Senders, Send(s)
    PROVE  /\ hold[s] \in Objects /\ Running /\ s \in open
           /\ Passes(s, record[hold[s]])
           /\ Len(chan[s]) < Capacity
           /\ chan' = [chan EXCEPT ![s] = Append(chan[s], hold[s])]
           /\ chan' \in [Senders -> Seq(Objects)]
           /\ hold' = [hold EXCEPT ![s] = None]
           /\ UNCHANGED <<record, next, open, writer>>
  <1>1. hold[s] \in Objects
    BY StageNumbers DEF Send, TypeOK
  <1>2. Append(chan[s], hold[s]) \in Seq(Objects)
    BY <1>1, AddLast DEF TypeOK
  <1> QED
    BY <1>1, <1>2 DEF Send, Room, TypeOK

LEMMA TypedReceive ==
    ASSUME Typed, NEW s \in Receivers, Receive(s)
    PROVE  Typed'
  <1>0. TypeOK /\ Queues
    BY DEF Typed
  <1>1. s - 1 \in Senders /\ s \in Senders \cup Receivers /\ Objects \subseteq Nat
    BY StageNumbers DEF Objects
  <1>2. /\ chan[s - 1] \in Seq(Objects) /\ Len(Tail(chan[s - 1])) < Len(chan[s - 1])
        /\ Ascending(Tail(chan[s - 1]))
    <2>1. chan[s - 1] \in Seq(Objects) /\ chan[s - 1] # <<>> /\ Ascending(chan[s - 1])
      BY <1>0, <1>1, ReceiveEffect DEF TypeOK, Queues
    <2> QED
      BY <1>1, <2>1, TakeFirst
  <1>3. Len(Tail(chan[s - 1])) <= Capacity
    BY <1>0, <1>1, <1>2, ReceiveEffect, SizesAssumption DEF TypeOK
  <1>4. ASSUME NEW t \in Senders PROVE Len(chan'[t]) <= Capacity /\ Ascending(chan'[t])
    <2>1. CASE t = s - 1
      BY <1>0, <1>2, <1>3, <2>1, ReceiveEffect DEF TypeOK
    <2>2. CASE t # s - 1
      BY <1>0, <2>2, ReceiveEffect DEF TypeOK, Queues
    <2> QED
      BY <2>1, <2>2
  <1>5. hold' \in [Senders \cup Receivers -> Objects \cup {None}]
    BY <1>0, <1>1, ReceiveEffect DEF TypeOK
  <1>6. Queues'
    BY <1>4 DEF Queues
  <1>7. TypeOK'
    BY <1>0, <1>4, <1>5, ReceiveEffect DEF TypeOK, writer
  <1> QED
    BY <1>6, <1>7 DEF Typed


-----------------------------------------------------------------------------
(* The eleven places of an object: not delivered yet, held by a goroutine  *)
(* or in a channel, and in the file.  It passes them in this order.        *)

Held(s) == IF hold[s] = None \/ (s = Write /\ pc = "newline") THEN {} ELSE {hold[s]}
Queued(s) == Elems(chan[s])
Undelivered == {i \in Objects : next <= i}
Recorded == Elems(file) \cap Objects

Places == 0..10

Place(p) ==
    CASE p = 0 -> Undelivered
      [] p = 1 -> Held(Parse)
      [] p = 2 -> Queued(Parse)
      [] p = 3 -> Held(Filter)
      [] p = 4 -> Queued(Filter)
      [] p = 5 -> Held(Transform)
      [] p = 6 -> Queued(Transform)
      [] p = 7 -> Held(Decode)
      [] p = 8 -> Queued(Decode)
      [] p = 9 -> Held(Write)
      [] p = 10 -> Recorded

(* An object further on comes earlier in the dump. *)
InOrder ==
    \A p, q \in Places : p < q => \A i \in Place(p), j \in Place(q) : j < i

(* What each place has been screened from. *)
Screened ==
    \A p \in Places : \A i \in Place(p) :
       /\ p >= 4 => record[i] # "other"
       /\ p >= 6 => record[i] # "undecodable"
       /\ p >= 8 => record[i] # "badgzip"

(* A response is somewhere unless a write failed, and what cannot be       *)
(* decoded never gets past transformStream.                                *)
Accounted ==
    \A i \in Objects :
       /\ record[i] = "undecodable" => \E p \in 0..5 : i \in Place(p)
       /\ record[i] = "response" /\ ~errs => \E p \in Places : i \in Place(p)

Flow == InOrder /\ Screened /\ Accounted

LEMMA PlaceTyped ==
    ASSUME TypeOK, NEW p \in Places
    PROVE  Place(p) \subseteq Objects
  <1>1. \A s \in Stages : Held(s) \subseteq Objects
    BY StageNumbers DEF TypeOK, Held
  <1>2. \A s \in Senders : Queued(s) \subseteq Objects
    BY DEF TypeOK, Queued, Elems
  <1> QED
    BY <1>1, <1>2, StageNumbers DEF Place, Places, Stages, Undelivered, Recorded

LEMMA Screens ==
    ASSUME NEW kind
    PROVE  /\ Passes(Filter, kind) <=> kind # "other"
           /\ Passes(Transform, kind) <=> kind # "undecodable"
           /\ Passes(Decode, kind) <=> kind # "badgzip"
  <1>1. Parse # Filter /\ Parse # Transform /\ Parse # Decode
    BY StageNumbers
  <1>2. Filter # Transform /\ Filter # Decode /\ Transform # Decode
    BY StageNumbers
  <1>3. Passes(Filter, kind) <=> kind # "other"
    BY <1>1, <1>2 DEF Passes
  <1>4. Passes(Transform, kind) <=> kind # "undecodable"
    BY <1>1, <1>2 DEF Passes
  <1>5. Passes(Decode, kind) <=> kind # "badgzip"
    BY <1>1, <1>2 DEF Passes
  <1> QED
    BY <1>3, <1>4, <1>5

LEMMA FlowMoves ==
    ASSUME TypeOK, Flow, NEW p \in 0..9, NEW i \in Place(p),
           \A j \in Place(p) : j = i \/ i < j,
           \A q \in Places : Place(q)' = IF q = p THEN Place(q) \ {i}
                                         ELSE IF q = p + 1 THEN Place(q) \cup {i}
                                         ELSE Place(q),
           p = 3 => record[i] # "other",
           p = 5 => record[i] # "undecodable",
           p = 7 => record[i] # "badgzip",
           record' = record, errs => errs'
    PROVE  Flow'
  <1>0. p \in Places /\ p + 1 \in Places /\ p \in Nat
    BY DEF Places
  <1>1. i \in Nat /\ \A q \in Places : Place(q) \subseteq Nat
    BY <1>0, PlaceTyped DEF Objects
  <1>2. InOrder'
    <2> SUFFICES ASSUME NEW q \in Places, NEW r \in Places, q < r,
                        NEW a \in Place(q)', NEW b \in Place(r)'
                 PROVE  b < a
      BY DEF InOrder
    <2>1. CASE a \in Place(q) /\ b \in Place(r)
      BY <2>1 DEF Flow, InOrder
    <2>2. CASE a \notin Place(q)
      <3>1. a = i /\ q = p + 1 /\ p < r /\ b \in Place(r)
        BY <1>0, <2>2 DEF Places
      <3> QED
        BY <1>0, <3>1 DEF Flow, InOrder
    <2>3. CASE b \notin Place(r)
      <3>1. b = i /\ r = p + 1 /\ q <= p /\ a \in Place(q) /\ (q = p => a # i)
        BY <1>0, <2>3 DEF Places
      <3>2. CASE q = p
        BY <3>1, <3>2
      <3>3. CASE q < p
        BY <1>0, <3>1, <3>3 DEF Flow, InOrder
      <3> QED
        BY <1>0, <3>1, <3>2, <3>3 DEF Places
    <2> QED
      BY <2>1, <2>2, <2>3
  <1>3. Screened'
    <2> SUFFICES ASSUME NEW q \in Places, NEW a \in Place(q)'
                 PROVE  /\ q >= 4 => record[a] # "other"
                        /\ q >= 6 => record[a] # "undecodable"
                        /\ q >= 8 => record[a] # "badgzip"
      BY DEF Screened
    <2>1. CASE a \in Place(q)
      BY <2>1 DEF Flow, Screened
    <2>2. CASE a \notin Place(q)
      <3>1. a = i /\ q = p + 1
        BY <2>2
      <3> QED
        BY <1>0, <3>1 DEF Flow, Screened
    <2> QED
      BY <2>1, <2>2
  <1>4. \A a \in Objects : \A q \in Places : a \in Place(q) => a \in Place(q)' \/ a = i
    OBVIOUS
  <1>5. i \in Place(p + 1)'
    BY <1>0
  <1>6. record[i] = "undecodable" => p + 1 \in 0..5
    BY <1>0 DEF Flow, Screened
  <1>7. \A q \in 0..5 : q \in Places
    BY DEF Places
  <1>8. Accounted'
    BY <1>0, <1>4, <1>5, <1>6, <1>7 DEF Flow, Accounted
  <1> QED
    BY <1>2, <1>3, <1>8 DEF Flow

LEMMA FlowDrops ==
    ASSUME Flow, NEW p \in Places, NEW i \in Place(p),
           \A q \in Places : Place(q)' = IF q = p THEN Place(q) \ {i} ELSE Place(q),
           record[i] # "undecodable", record[i] = "response" => errs',
           record' = record, errs => errs'
    PROVE  Flow'
  <1>1. \A q \in Places : Place(q)' \subseteq Place(q)
    OBVIOUS
  <1>2. InOrder'
    BY <1>1 DEF Flow, InOrder
  <1>3. Screened'
    BY <1>1 DEF Flow, Screened
  <1>4. \A a \in Objects : \A q \in Places : a \in Place(q) => a \in Place(q)' \/ a = i
    OBVIOUS
  <1>5. \A q \in 0..5 : q \in Places
    BY DEF Places
  <1>6. Accounted'
    BY <1>4, <1>5 DEF Flow, Accounted
  <1> QED
    BY <1>2, <1>3, <1>6 DEF Flow

LEMMA FlowSame ==
    ASSUME Flow, \A q \in Places : Place(q)' = Place(q), record' = record, errs => errs'
    PROVE  Flow'
  <1>1. \A q \in 0..5 : q \in Places
    BY DEF Places
  <1> QED
    BY <1>1 DEF Flow, InOrder, Screened, Accounted

(* The steps of a goroutine in the middle: from the channel before it, and *)
(* to its own.                                                             *)
LEMMA FlowReceive ==
    ASSUME Typed, Flow, NEW s \in Receivers, Receive(s)
    PROVE  Flow'
  <1> DEFINE h == Head(chan[s - 1])
             p == 2 * (s - 1)
  <1>0. TypeOK /\ Queues /\ s \in 2..5 /\ s - 1 \in Senders /\ s \in Stages
    BY StageNumbers DEF Typed, Stages
  <1>1. /\ chan[s - 1] \in Seq(Objects) /\ chan[s - 1] # <<>> /\ Ascending(chan[s - 1])
        /\ Objects \subseteq Nat
    BY <1>0, ReceiveEffect DEF TypeOK, Queues, Objects
  <1>2. /\ h \in Objects /\ h \in Queued(s - 1)
        /\ Elems(Tail(chan[s - 1])) = Queued(s - 1) \ {h}
        /\ \A i \in Queued(s - 1) : i = h \/ h < i
    BY <1>1, TakeFirst DEF Queued
  <1>3. \A t \in Senders : Queued(t)' = IF t = s - 1 THEN Queued(t) \ {h} ELSE Queued(t)
    <2>1. \A t \in Senders : chan'[t] = IF t = s - 1 THEN Tail(chan[t]) ELSE chan[t]
      BY <1>0, ReceiveEffect DEF TypeOK
    <2> QED
      BY <1>2, <2>1 DEF Queued
  <1>4. /\ h # None /\ (s = Write => pc' # "newline")
        /\ pc' = pc /\ file' = file /\ errs' = errs /\ next' = next /\ record' = record
    BY <1>0, <1>2, ReceiveEffect DEF Objects, None, writer
  <1>5. \A t \in Stages : Held(t)' = IF t = s THEN {h} ELSE Held(t)
    <2>1. /\ hold \in [Stages -> Objects \cup {None}]
          /\ hold' = [hold EXCEPT ![s] = h]
      BY <1>0, StageNumbers, ReceiveEffect DEF TypeOK
    <2>2. \A t \in Stages : hold'[t] = IF t = s THEN h ELSE hold[t]
      BY <1>0, <2>1
    <2> QED
      BY <1>4, <2>2 DEF Held
  <1>6. Held(s) = {}
    BY <1>0, ReceiveEffect DEF Held
  <1>7. Undelivered' = Undelivered /\ Recorded' = Recorded
    BY <1>4 DEF Undelivered, Recorded
  <1> HIDE DEF h
  <1>8. Place(p) = Queued(s - 1) /\ p \in 0..9 /\ p \notin {1, 3, 5, 7, 9}
    BY <1>0, StageNumbers DEF Place
  <1>9. ASSUME NEW q \in Places
        PROVE  Place(q)' = IF q = p THEN Place(q) \ {h}
                           ELSE IF q = p + 1 THEN Place(q) \cup {h} ELSE Place(q)
    <2>1. /\ \A t \in 1..5 : Held(t)' = IF t = s THEN Held(t) \cup {h} ELSE Held(t)
          /\ \A t \in 1..4 : Queued(t)' = IF t = s - 1 THEN Queued(t) \ {h} ELSE Queued(t)
      BY <1>3, <1>5, <1>6, StageNumbers DEF Stages
    <2> HIDE DEF p
    <2>2. CASE s = 2
      BY <1>7, <2>1, <2>2, StageNumbers DEF Place, Places, p
    <2>3. CASE s = 3
      BY <1>7, <2>1, <2>3, StageNumbers DEF Place, Places, p
    <2>4. CASE s = 4
      BY <1>7, <2>1, <2>4, StageNumbers DEF Place, Places, p
    <2>5. CASE s = 5
      BY <1>7, <2>1, <2>5, StageNumbers DEF Place, Places, p
    <2> QED
      BY <1>0, <2>2, <2>3, <2>4, <2>5
  <1> QED
    BY <1>0, <1>2, <1>4, <1>8, <1>9, FlowMoves

LEMMA SendMoves ==
    ASSUME Typed, Flow, NEW s \in Senders, Send(s)
    PROVE  Flow' /\ Ascending(chan'[s])
  <1> DEFINE h == hold[s]
             p == 2 * s - 1
  <1>0. TypeOK /\ Queues /\ s \in 1..4 /\ s \in Stages /\ s # Write
    BY StageNumbers DEF Typed, Stages
  <1>1. /\ h \in Objects /\ h # None /\ chan[s] \in Seq(Objects) /\ Objects \subseteq Nat
        /\ Passes(s, record[h])
    BY <1>0, SendEffect DEF TypeOK, Objects, None
  <1>2. /\ chan \in [Senders -> Seq(Objects)]
        /\ chan' = [chan EXCEPT ![s] = Append(chan[s], h)]
        /\ hold \in [Stages -> Objects \cup {None}]
        /\ hold' = [hold EXCEPT ![s] = None]
    BY <1>0, StageNumbers, SendEffect DEF TypeOK
  <1>3. pc' = pc /\ file' = file /\ errs' = errs /\ next' = next /\ record' = record
    BY <1>0, SendEffect DEF writer
  <1> HIDE DEF h, p
  <1>4. \A t \in Senders : Queued(t)' = IF t = s THEN Queued(t) \cup {h} ELSE Queued(t)
    <2>1. \A t \in Senders : chan'[t] = IF t = s THEN Append(chan[s], h) ELSE chan[t]
      BY <1>2
    <2>2. Elems(Append(chan[s], h)) = Elems(chan[s]) \cup {h}
      BY <1>1, AddLast
    <2> QED
      BY <2>1, <2>2 DEF Queued
  <1>5. \A t \in Stages : Held(t)' = IF t = s THEN {} ELSE Held(t)
    <2>1. \A t \in Stages : hold'[t] = IF t = s THEN None ELSE hold[t]
      BY <1>0, <1>2
    <2> QED
      BY <1>3, <2>1 DEF Held
  <1>6. Held(s) = {h}
    BY <1>0, <1>1 DEF Held, h
  <1>7. Undelivered' = Undelivered /\ Recorded' = Recorded
    BY <1>3 DEF Undelivered, Recorded
  <1>8. /\ Place(p) = {h} /\ Place(p + 1) = Queued(s)
        /\ p \in 0..9 /\ p \in Places /\ p + 1 \in Places /\ p < p + 1
        /\ (p = 3 => s = Filter) /\ (p = 5 => s = Transform) /\ (p = 7 => s = Decode)
    BY <1>0, <1>6, StageNumbers DEF Place, Places, p
  <1>9. ASSUME NEW q \in Places
        PROVE  Place(q)' = IF q = p THEN Place(q) \ {h}
                           ELSE IF q = p + 1 THEN Place(q) \cup {h} ELSE Place(q)
    <2>1. /\ \A t \in 1..5 : Held(t)' = IF t = s THEN Held(t) \ {h} ELSE Held(t)
          /\ \A t \in 1..4 : Queued(t)' = IF t = s THEN Queued(t) \cup {h} ELSE Queued(t)
      BY <1>4, <1>5, <1>6, StageNumbers DEF Stages
    <2>2. CASE s = 1
      BY <1>7, <2>1, <2>2, StageNumbers DEF Place, Places, p
    <2>3. CASE s = 2
      BY <1>7, <2>1, <2>3, StageNumbers DEF Place, Places, p
    <2>4. CASE s = 3
      BY <1>7, <2>1, <2>4, StageNumbers DEF Place, Places, p
    <2>5. CASE s = 4
      BY <1>7, <2>1, <2>5, StageNumbers DEF Place, Places, p
    <2> QED
      BY <1>0, <2>2, <2>3, <2>4, <2>5
  <1>10. /\ p = 3 => record[h] # "other"
         /\ p = 5 => record[h] # "undecodable"
         /\ p = 7 => record[h] # "badgzip"
    BY <1>1, <1>8, Screens
  <1>11. Flow'
    BY <1>0, <1>3, <1>8, <1>9, <1>10, FlowMoves
  <1>12. Ascending(chan'[s])
    <2>1. \A j \in Elems(chan[s]) : j < h
      BY <1>8 DEF Flow, InOrder, Queued
    <2>2. Ascending(chan[s])
      BY <1>0 DEF Queues
    <2>3. chan'[s] = Append(chan[s], h)
      BY <1>2
    <2> QED
      BY <1>1, <2>1, <2>2, <2>3, AddGreatest
  <1> QED
    BY <1>11, <1>12

LEMMA TypedSend ==
    ASSUME Typed, Flow, NEW s \in Senders, Send(s)
    PROVE  Typed'
  <1>0. TypeOK /\ Queues /\ s \in Senders \cup Receivers
    BY DEF Typed
  <1>1. /\ chan[s] \in Seq(Objects) /\ Len(chan[s]) < Capacity /\ hold[s] \in Objects
        /\ chan'[s] = Append(chan[s], hold[s])
    BY <1>0, SendEffect DEF TypeOK
  <1>2. Len(chan'[s]) <= Capacity
    BY <1>1, AddLast, SizesAssumption
  <1>3. ASSUME NEW t \in Senders PROVE Len(chan'[t]) <= Capacity /\ Ascending(chan'[t])
    <2>1. CASE t = s
      BY <1>2, <2>1, SendMoves
    <2>2. CASE t # s
      BY <1>0, <2>2, SendEffect DEF TypeOK, Queues
    <2> QED
      BY <2>1, <2>2
  <1>4. hold' \in [Senders \cup Receivers -> Objects \cup {None}]
    BY <1>0, SendEffect DEF TypeOK
  <1>5. Queues'
    BY <1>3 DEF Queues
  <1>6. TypeOK'
    BY <1>0, <1>3, <1>4, SendEffect DEF TypeOK, writer
  <1> QED
    BY <1>5, <1>6 DEF Typed

(* A goroutine that holds an object lets it go. *)
LEMMA FlowDrop ==
    ASSUME Typed, Flow, NEW s \in {Filter, Decode}, Drop(s)
    PROVE  Flow'
  <1> DEFINE h == hold[s]
             p == 2 * s - 1
  <1>0. TypeOK /\ s \in Senders /\ s \in Stages /\ s # Write /\ (s = 2 \/ s = 4)
    BY StageNumbers DEF Typed, Stages
  <1>1. /\ h # None /\ ~Passes(s, record[h])
        /\ hold \in [Stages -> Objects \cup {None}]
        /\ hold' = [hold EXCEPT ![s] = None]
        /\ UNCHANGED <<record, next, chan, file, pc, errs>>
    BY <1>0, StageNumbers DEF TypeOK, Drop, writer
  <1> HIDE DEF h, p
  <1>2. \A t \in Stages : Held(t)' = IF t = s THEN {} ELSE Held(t)
    <2>1. \A t \in Stages : hold'[t] = IF t = s THEN None ELSE hold[t]
      BY <1>0, <1>1
    <2> QED
      BY <1>1, <2>1 DEF Held
  <1>3. /\ \A t \in Senders : Queued(t)' = Queued(t)
        /\ Undelivered' = Undelivered /\ Recorded' = Recorded
    BY <1>1 DEF Queued, Undelivered, Recorded
  <1>4. Held(s) = {h}
    BY <1>0, <1>1 DEF Held, h
  <1>5. p \in Places /\ Place(p) = {h}
    BY <1>0, <1>4, StageNumbers DEF Place, Places, p
  <1>6. ASSUME NEW q \in Places
        PROVE  Place(q)' = IF q = p THEN Place(q) \ {h} ELSE Place(q)
    <2>1. /\ \A t \in 1..5 : Held(t)' = IF t = s THEN Held(t) \ {h} ELSE Held(t)
          /\ \A t \in 1..4 : Queued(t)' = Queued(t)
      BY <1>2, <1>3, <1>4, StageNumbers DEF Stages
    <2>2. CASE s = 2
      BY <1>3, <2>1, <2>2, StageNumbers DEF Place, Places, p
    <2>3. CASE s = 4
      BY <1>3, <2>1, <2>3, StageNumbers DEF Place, Places, p
    <2> QED
      BY <1>0, <2>2, <2>3
  <1>7. record[h] \in {"other", "badgzip"}
    BY <1>0, <1>1, StageNumbers, Screens
  <1> QED
    BY <1>1, <1>5, <1>6, <1>7, FlowDrops

LEMMA FlowDeliver ==
    ASSUME Typed, Flow, Deliver
    PROVE  Flow'
  <1>0. /\ TypeOK /\ next \in Objects /\ next # None /\ next \in Nat /\ Parse \in Stages
        /\ Parse # Write /\ Objects \subseteq Nat
    <2>1. TypeOK /\ next \in 1..(Size + 1) /\ next <= Size
      BY DEF Typed, TypeOK, Deliver
    <2>2. next \in Objects /\ next # None /\ next \in Nat
      BY <2>1, SizesAssumption DEF Objects, None
    <2>3. Parse \in Stages /\ Parse # Write /\ Objects \subseteq Nat
      BY StageNumbers DEF Stages, Objects
    <2> QED
      BY <2>1, <2>2, <2>3
  <1>1. /\ hold[Parse] = None
        /\ hold \in [Stages -> Objects \cup {None}]
        /\ hold' = [hold EXCEPT ![Parse] = next]
        /\ next' = next + 1
        /\ UNCHANGED <<record, chan, file, pc, errs>>
    BY <1>0, StageNumbers DEF TypeOK, Deliver, writer
  <1>2. \A t \in Stages : Held(t)' = IF t = Parse THEN {next} ELSE Held(t)
    <2>1. \A t \in Stages : hold'[t] = IF t = Parse THEN next ELSE hold[t]
      BY <1>0, <1>1
    <2> QED
      BY <1>0, <1>1, <2>1 DEF Held
  <1>3. Held(Parse) = {}
    BY <1>1 DEF Held
  <1>4. Undelivered' = Undelivered \ {next} /\ next \in Undelivered
    <2>1. \A i \in Objects : next + 1 <= i <=> next <= i /\ i # next
      BY <1>0
    <2>2. next <= next
      BY <1>0
    <2> QED
      BY <1>0, <1>1, <2>1, <2>2 DEF Undelivered
  <1>5. (\A t \in Senders : Queued(t)' = Queued(t)) /\ Recorded' = Recorded
    BY <1>1 DEF Queued, Recorded
  <1>6. \A q \in Places : Place(q)' = IF q = 0 THEN Place(q) \ {next}
                                      ELSE IF q = 0 + 1 THEN Place(q) \cup {next}
                                      ELSE Place(q)
    <2>1. /\ Held(1)' = {next} /\ Held(1) = {}
          /\ \A t \in 2..5 : Held(t)' = Held(t)
          /\ \A t \in 1..4 : Queued(t)' = Queued(t)
      BY <1>2, <1>3, <1>5, StageNumbers DEF Stages
    <2> QED
      BY <1>4, <1>5, <2>1, StageNumbers DEF Place, Places
  <1>7. next \in Place(0) /\ (\A i \in Place(0) : i = next \/ next < i)
    BY <1>0, <1>4 DEF Place, Undelivered
  <1> QED
    BY <1>0, <1>1, <1>6, <1>7, FlowMoves

(* writeResponse: the record, the newline, and their failures. *)
LEMMA FileGrows ==
    ASSUME TypeOK, NEW b \in 0..(Size + 1)
    PROVE  /\ Elems(Append(file, b)) = Elems(file) \cup {b}
           /\ Append(file, b) \in Seq(0..(Size + 1))
           /\ Len(Append(file, b)) = Len(file) + 1 /\ Len(file) \in Nat
           /\ \A p \in 1..Len(file) : Append(file, b)[p] = file[p]
           /\ Append(file, b)[Len(file) + 1] = b
  <1> DEFINE S == 0..(Size + 1)
  <1>1. file \in Seq(S) /\ b \in S
    BY DEF TypeOK
  <1> HIDE DEF S
  <1>2. /\ Append(file, b) \in Seq(S) /\ Len(Append(file, b)) = Len(file) + 1
        /\ \A p \in 1..Len(file) : Append(file, b)[p] = file[p]
        /\ Append(file, b)[Len(file) + 1] = b
        /\ Elems(Append(file, b)) = Elems(file) \cup {b}
    BY <1>1, AddLast
  <1>3. Len(file) \in Nat
    BY <1>1
  <1> QED
    BY <1>2, <1>3 DEF S

LEMMA FlowWriteData ==
    ASSUME Typed, Flow, WriteData
    PROVE  /\ Flow'
           /\ errs' \/ \E i \in Objects : /\ file' = Append(file, i) /\ errs' = errs
                                          /\ pc' = "newline"
                                          /\ \A j \in Recorded : j < i
  <1> DEFINE h == hold[Write]
  <1>0. /\ TypeOK /\ h \in Objects /\ h # None /\ pc = "loop" /\ Objects \subseteq Nat
        /\ file \in Seq(0..(Size + 1)) /\ hold \in [Stages -> Objects \cup {None}]
        /\ 9 \in Places /\ 10 \in Places /\ 9 \in 0..9 /\ Write \in Stages
    BY StageNumbers DEF Typed, TypeOK, WriteData, Objects, None, Places, Stages
  <1>1. UNCHANGED <<record, next, chan>>
    BY DEF WriteData
  <1>2. /\ Held(Write) = {h} /\ Held(Write)' = {}
        /\ \A t \in 1..4 : Held(t)' = Held(t)
    <2>1. \A t \in Stages : hold'[t] = hold[t] \/ (t = Write /\ hold'[t] = None)
      BY <1>0 DEF WriteData
    <2>2. hold'[Write] = None \/ pc' = "newline"
      BY <1>0 DEF WriteData
    <2>3. Held(Write) = {h}
      BY <1>0 DEF Held
    <2>4. Held(Write)' = {}
      BY <2>2 DEF Held
    <2>5. \A t \in 1..4 : t \in Stages /\ t # Write
      BY StageNumbers DEF Stages
    <2> QED
      BY <2>1, <2>3, <2>4, <2>5 DEF Held
  <1>3. Undelivered' = Undelivered /\ (\A t \in 1..4 : Queued(t)' = Queued(t))
    BY <1>1 DEF Undelivered, Queued
  <1>4. Place(9) = {h} /\ Place(10) = Recorded
    BY <1>2, StageNumbers DEF Place
  <1>5. \A j \in Recorded : j < h
    <2>1. h \in Place(9) /\ 9 < 10
      BY <1>4
    <2> QED
      BY <1>0, <1>4, <2>1 DEF Flow, InOrder
  <1> HIDE DEF h
  <1>6. CASE file' = Append(file, h) /\ pc' = "newline" /\ errs' = errs
    <2>1. Recorded' = Recorded \cup {h}
      <3>1. h \in 0..(Size + 1)
        BY <1>0, SizesAssumption DEF Objects
      <3>2. Elems(Append(file, h)) = Elems(file) \cup {h}
        BY <1>0, <3>1, FileGrows
      <3> QED
        BY <1>0, <1>6, <3>2 DEF Recorded
    <2>2. \A q \in Places : Place(q)' = IF q = 9 THEN Place(q) \ {h}
                                        ELSE IF q = 9 + 1 THEN Place(q) \cup {h}
                                        ELSE Place(q)
      BY <1>2, <1>3, <2>1, StageNumbers DEF Place, Places
    <2>3. h \in Place(9) /\ (\A j \in Place(9) : j = h \/ h < j)
      BY <1>4
    <2>4. TypeOK /\ record' = record /\ (errs => errs') /\ 9 \in 0..9
      BY <1>0, <1>1, <1>6
    <2>5. Flow'
      BY <2>2, <2>3, <2>4, FlowMoves
    <2> QED
      BY <1>0, <1>5, <1>6, <2>5
  <1>7. CASE file' \in {file, Append(file, Part)} /\ errs' = TRUE
    <2>1. Recorded' = Recorded
      <3>1. Part \in 0..(Size + 1) /\ Part \notin Objects
        BY SizesAssumption DEF Part, Objects
      <3>2. Elems(Append(file, Part)) = Elems(file) \cup {Part}
        BY <1>0, <3>1, FileGrows
      <3> QED
        BY <1>7, <3>1, <3>2 DEF Recorded
    <2>2. \A q \in Places : Place(q)' = IF q = 9 THEN Place(q) \ {h} ELSE Place(q)
      BY <1>2, <1>3, <2>1, StageNumbers DEF Place, Places
    <2>3. record[h] # "undecodable"
      BY <1>0, <1>4 DEF Flow, Screened
    <2> QED
      BY <1>0, <1>1, <1>4, <1>7, <2>2, <2>3, FlowDrops
  <1> QED
    BY <1>6, <1>7 DEF WriteData, h

(* Steps that move no object. *)
LEMMA FlowRest ==
    ASSUME Flow, UNCHANGED <<record, next, chan>>, errs => errs',
           \A t \in Stages : Held(t)' = Held(t), Recorded' = Recorded
    PROVE  Flow'
  <1>1. /\ \A t \in 1..5 : Held(t)' = Held(t)
        /\ \A t \in 1..4 : Queued(t)' = Queued(t)
        /\ Undelivered' = Undelivered
    BY DEF Queued, Undelivered, Stages
  <1>2. \A q \in Places : Place(q)' = Place(q)
    BY <1>1, StageNumbers DEF Place, Places
  <1> QED
    BY <1>2, FlowSame

LEMMA FlowWriteNewline ==
    ASSUME Typed, Flow, WriteNewline
    PROVE  Flow' /\ (errs' \/ (file' = Append(file, Newline) /\ errs' = errs))
  <1>0. /\ TypeOK /\ pc = "newline" /\ pc' = "loop" /\ file \in Seq(0..(Size + 1))
        /\ hold \in [Stages -> Objects \cup {None}] /\ Write \in Stages
        /\ hold' = [hold EXCEPT ![Write] = None]
        /\ UNCHANGED <<record, next, chan>>
        /\ \/ file' = Append(file, Newline) /\ errs' = errs
           \/ file' = file /\ errs'
    BY StageNumbers DEF Typed, TypeOK, WriteNewline, ErrorNoted, Stages
  <1>1. \A t \in Stages : Held(t)' = Held(t)
    BY <1>0 DEF Held
  <1>2. Recorded' = Recorded
    <2>1. Newline \in 0..(Size + 1) /\ Newline \notin Objects
      BY SizesAssumption DEF Newline, Objects
    <2>2. Elems(Append(file, Newline)) = Elems(file) \cup {Newline}
      BY <1>0, <2>1, FileGrows
    <2> QED
      BY <1>0, <2>1, <2>2 DEF Recorded
  <1> QED
    BY <1>0, <1>1, <1>2, FlowRest

-----------------------------------------------------------------------------
(* The invariant.                                                          *)

(* A goroutine returned because the one before it had and left nothing, or *)
(* because it is transformStream and could not decode what it holds.       *)
Closed ==
    \A s \in Senders \ open :
       \/ hold[s] = None /\ (s # Parse => Drained(s))
       \/ s = Transform /\ hold[s] # None /\ record[hold[s]] = "undecodable"

WholeSoFar ==
    ~errs =>
       /\ Len(file) % 2 = IF pc = "newline" THEN 1 ELSE 0
       /\ \A p \in 1..Len(file) :
             file[p] \in Objects \cup {Newline} /\ (file[p] = Newline <=> p % 2 = 0)
       /\ \A p, q \in 1..Len(file) :
             p < q /\ file[p] # Newline /\ file[q] # Newline => file[p] < file[q]

Ending ==
    /\ pc # "returned" => result = "none"
    /\ result = "ok" => pc = "returned" /\ hold[Write] = None /\ Drained(Write) /\ ~errs

IInv == Typed /\ Flow /\ Closed /\ WholeSoFar /\ Ending

LEMMA InvInit == Init => IInv
  <1> SUFFICES ASSUME Init PROVE IInv
    OBVIOUS
  <1>0. TypeOK
    BY TypedInit
  <1>1. (\A s \in Senders : chan[s] = <<>>) /\ file = <<>> /\ Len(<<>>) = 0
    BY DEF Init
  <1>2. Queues
    BY <1>1 DEF Queues, Ascending
  <1>3. Flow
    <2>1. \A t \in 1..5 : Held(t) = {}
      BY StageNumbers DEF Init, Held, Stages
    <2>2. (\A t \in 1..4 : Queued(t) = {}) /\ Recorded = {} /\ Undelivered = Objects
      BY <1>1, StageNumbers DEF Init, Queued, Recorded, Elems, Undelivered, Objects
    <2>3. \A q \in Places : Place(q) = IF q = 0 THEN Objects ELSE {}
      BY <2>1, <2>2, StageNumbers DEF Place, Places
    <2>4. \A q \in Places : q < 0 => FALSE
      BY DEF Places
    <2>5. 0 \in Places /\ 0 \in 0..5
      BY DEF Places
    <2> QED
      BY <2>3, <2>4, <2>5 DEF Flow, InOrder, Screened, Accounted, Places
  <1>4. Closed /\ WholeSoFar /\ Ending
    BY <1>1 DEF Init, Closed, WholeSoFar, Ending
  <1> QED
    BY <1>0, <1>2, <1>3, <1>4 DEF IInv, Typed

(* Closed and Ending depend on the goroutines alone. *)
LEMMA StillDrained ==
    ASSUME Closed, UNCHANGED <<record, pc, errs, result>>,
           pc # "returned", Ending,
           NEW s \in Stages,
           \A t \in Stages \ {s} : hold'[t] = hold[t],
           \A t \in Senders : t \in open \/ chan[t] # <<>> \/ chan'[t] = <<>>,
           open' \subseteq open, open \ {s} \subseteq open',
           s \in Senders \ open' => \/ hold'[s] = None /\ (s # Parse => Drained(s)')
                                    \/ /\ s = Transform /\ hold'[s] # None
                                       /\ record[hold'[s]] = "undecodable"
    PROVE  Closed' /\ Ending'
  <1>1. ASSUME NEW t \in Senders \ open', t # s
        PROVE  \/ hold'[t] = None /\ (t # Parse => Drained(t)')
               \/ t = Transform /\ hold'[t] # None /\ record[hold'[t]] = "undecodable"
    <2>1. t \in Senders \ open /\ t \in Stages
      BY <1>1, StageNumbers DEF Stages
    <2>2. t # Parse => t - 1 \in Senders
      BY StageNumbers
    <2> QED
      BY <1>1, <2>1, <2>2 DEF Closed, Drained
  <1>2. Closed'
    BY <1>1 DEF Closed
  <1> QED
    BY <1>2 DEF Ending

LEMMA ClosedReceive ==
    ASSUME IInv, NEW s \in Receivers, Receive(s)
    PROVE  Closed' /\ Ending'
  <1>0. TypeOK /\ Queues /\ Closed /\ Ending /\ s \in Stages
    BY StageNumbers DEF IInv, Typed, Stages
  <1>1. /\ s \in open \cup {Write} /\ chan[s - 1] # <<>> /\ pc # "returned"
        /\ hold \in [Stages -> Objects \cup {None}]
        /\ hold' = [hold EXCEPT ![s] = Head(chan[s - 1])]
        /\ chan' = [chan EXCEPT ![s - 1] = Tail(chan[s - 1])]
        /\ chan \in [Senders -> Seq(Objects)]
        /\ UNCHANGED <<record, open, pc, errs, result>>
    BY <1>0, StageNumbers, ReceiveEffect DEF TypeOK, writer, Running
  <1>2. \A t \in Stages \ {s} : hold'[t] = hold[t]
    BY <1>1
  <1>3. \A t \in Senders : chan[t] # <<>> \/ chan'[t] = <<>>
    BY <1>1
  <1>4. s \notin Senders \ open'
    BY <1>1, StageNumbers
  <1> QED
    BY <1>0, <1>1, <1>2, <1>3, <1>4, StillDrained

LEMMA ClosedSender ==
    ASSUME IInv, NEW s \in Senders, Step(s)
    PROVE  Closed' /\ Ending'
  <1>0. /\ TypeOK /\ Queues /\ Closed /\ Ending /\ s \in Stages
        /\ hold \in [Stages -> Objects \cup {None}]
    BY StageNumbers DEF IInv, Typed, TypeOK, Stages
  <1>1. CASE s # Parse /\ Receive(s)
    BY <1>1, StageNumbers, ClosedReceive
  <1>2. CASE Send(s)
    <2>1. /\ s \in open /\ pc # "returned"
          /\ hold' = [hold EXCEPT ![s] = None]
          /\ chan' = [chan EXCEPT ![s] = Append(chan[s], hold[s])]
          /\ chan \in [Senders -> Seq(Objects)]
          /\ UNCHANGED <<record, open, pc, errs, result>>
      BY <1>0, <1>2, SendEffect DEF TypeOK, writer, Running
    <2>2. \A t \in Stages \ {s} : hold'[t] = hold[t]
      BY <1>0, <2>1
    <2>3. \A t \in Senders : t \in open \/ chan[t] # <<>> \/ chan'[t] = <<>>
      BY <2>1
    <2> QED
      BY <1>0, <2>1, <2>2, <2>3, StillDrained
  <1>3. CASE Drop(s) \/ (s = Parse /\ Deliver)
    <2>1. /\ s \in open /\ pc # "returned" /\ chan' = chan
          /\ \A t \in Stages \ {s} : hold'[t] = hold[t]
          /\ UNCHANGED <<record, open, pc, errs, result>>
      BY <1>0, <1>3 DEF Drop, Deliver, writer, Running
    <2> QED
      BY <1>0, <2>1, StillDrained
  <1>4. CASE s # Parse /\ Finish(s)
    <2>1. /\ pc # "returned" /\ chan' = chan /\ hold' = hold /\ open' = open \ {s}
          /\ hold[s] = None /\ Drained(s) /\ s - 1 # s
          /\ UNCHANGED <<record, pc, errs, result>>
      BY <1>4, StageNumbers DEF Finish, writer, Running
    <2>2. Drained(s)'
      BY <2>1 DEF Drained
    <2> QED
      BY <1>0, <2>1, <2>2, StillDrained
  <1>5. CASE s = Parse /\ ParseEnds
    <2>1. /\ pc # "returned" /\ chan' = chan /\ hold' = hold /\ open' = open \ {s}
          /\ hold[s] = None
          /\ UNCHANGED <<record, pc, errs, result>>
      BY <1>5 DEF ParseEnds, writer, Running
    <2> QED
      BY <1>0, <1>5, <2>1, StillDrained
  <1>6. CASE s = Transform /\ GiveUp
    <2>1. /\ pc # "returned" /\ chan' = chan /\ hold' = hold /\ open' = open \ {s}
          /\ hold[s] # None /\ ~Passes(Transform, record[hold[s]])
          /\ UNCHANGED <<record, pc, errs, result>>
      BY <1>6 DEF GiveUp, ClosedByTransform, writer, Running
    <2>2. record[hold[s]] = "undecodable"
      BY <2>1, Screens
    <2> QED
      BY <1>0, <1>6, <2>1, <2>2, StillDrained
  <1> QED
    BY <1>1, <1>2, <1>3, <1>4, <1>5, <1>6 DEF Step

LEMMA ClosedWriter ==
    ASSUME IInv, WriterStep
    PROVE  Closed' /\ Ending'
  <1>0. TypeOK /\ Closed /\ Ending /\ Write \in Stages /\ Write \notin Senders
        /\ hold \in [Stages -> Objects \cup {None}]
    BY StageNumbers DEF IInv, Typed, TypeOK, Stages
  <1>1. CASE Receive(Write)
    BY <1>1, StageNumbers, ClosedReceive
  <1>2. CASE Main \/ Create \/ WriteData \/ WriteNewline \/ Return
    <2>1. /\ UNCHANGED <<record, open, chan>>
          /\ \A t \in Stages \ {Write} : hold'[t] = hold[t]
      BY <1>0, <1>2 DEF Main, Create, WriteData, WriteNewline, Return, streams
    <2>2. Closed'
      <3>1. \A t \in Senders : t \in Stages \ {Write} /\ (t # Parse => t - 1 \in Senders)
        BY StageNumbers DEF Stages
      <3> QED
        BY <1>0, <2>1, <3>1 DEF Closed, Drained
    <2>3. Ending'
      <3>1. CASE Main \/ Create \/ WriteData \/ WriteNewline
        BY <1>0, <3>1 DEF Main, Create, WriteData, WriteNewline, Ending
      <3>2. CASE Return
        BY <3>2 DEF Return, Ending, Drained, streams
      <3> QED
        BY <1>2, <3>1, <3>2
    <2> QED
      BY <2>2, <2>3
  <1> QED
    BY <1>1, <1>2 DEF WriterStep

(* The file grows by records and newlines in turn. *)
LEMMA WholeWriter ==
    ASSUME IInv, WriterStep, Flow'
    PROVE  WholeSoFar'
  <1>0. TypeOK /\ WholeSoFar /\ Typed /\ Flow
    BY DEF IInv, Typed
  <1>1. CASE Receive(Write) \/ Main \/ Create \/ Return
    <2>1. file' = file /\ errs' = errs /\ pc # "newline" /\ pc' # "newline"
      BY <1>1 DEF Receive, Main, Create, Return, writer
    <2> QED
      BY <1>0, <2>1 DEF WholeSoFar
  <1>2. CASE WriteData /\ ~errs'
    <2>1. PICK i \in Objects : /\ file' = Append(file, i) /\ errs' = errs
                               /\ pc' = "newline" /\ \A j \in Recorded : j < i
      BY <1>0, <1>2, FlowWriteData
    <2>2. pc = "loop" /\ i \in 0..(Size + 1) /\ i # Newline
      BY <1>2, SizesAssumption DEF WriteData, Objects, Newline
    <2>3. /\ Len(file) \in Nat /\ Len(file') = Len(file) + 1
          /\ \A p \in 1..Len(file) : file'[p] = file[p]
          /\ file'[Len(file) + 1] = i
      BY <1>0, <2>1, <2>2, FileGrows
    <2>4. \A p \in 1..Len(file') : p \in 1..Len(file) \/ p = Len(file) + 1
      BY <2>3
    <2>5. /\ Len(file) % 2 = 0
          /\ \A p \in 1..Len(file) :
                file[p] \in Objects \cup {Newline} /\ (file[p] = Newline <=> p % 2 = 0)
          /\ \A p, q \in 1..Len(file) :
                p < q /\ file[p] # Newline /\ file[q] # Newline => file[p] < file[q]
      BY <1>0, <1>2, <2>1, <2>2 DEF WholeSoFar
    <2>6. \A p \in 1..Len(file) : file[p] # Newline => file[p] < i
      BY <2>1, <2>5 DEF Recorded, Elems
    <2>7. (Len(file) + 1) % 2 = 1
      BY <2>3, <2>5
    <2>8. \A p \in 1..Len(file') :
             file'[p] \in Objects \cup {Newline} /\ (file'[p] = Newline <=> p % 2 = 0)
      BY <2>2, <2>3, <2>4, <2>5, <2>7
    <2>9. ASSUME NEW p \in 1..Len(file'), NEW q \in 1..Len(file'), p < q,
                 file'[p] # Newline, file'[q] # Newline
          PROVE  file'[p] < file'[q]
      <3>1. p \in 1..Len(file)
        BY <2>3, <2>9
      <3>2. CASE q \in 1..Len(file)
        BY <2>3, <2>5, <2>9, <3>1, <3>2
      <3>3. CASE q = Len(file) + 1
        BY <2>3, <2>6, <2>9, <3>1, <3>3
      <3> QED
        BY <2>4, <3>2, <3>3
    <2> QED
      BY <2>1, <2>3, <2>7, <2>8, <2>9 DEF WholeSoFar
  <1>3. CASE WriteNewline /\ ~errs'
    <2>1. file' = Append(file, Newline) /\ errs' = errs /\ pc = "newline" /\ pc' = "loop"
      BY <1>0, <1>3, FlowWriteNewline DEF WriteNewline
    <2>2. Newline \in 0..(Size + 1)
      BY SizesAssumption DEF Newline
    <2>3. /\ Len(file) \in Nat /\ Len(file') = Len(file) + 1
          /\ \A p \in 1..Len(file) : file'[p] = file[p]
          /\ file'[Len(file) + 1] = Newline
      BY <1>0, <2>1, <2>2, FileGrows
    <2>4. \A p \in 1..Len(file') : p \in 1..Len(file) \/ p = Len(file) + 1
      BY <2>3
    <2>5. /\ Len(file) % 2 = 1
          /\ \A p \in 1..Len(file) :
                file[p] \in Objects \cup {Newline} /\ (file[p] = Newline <=> p % 2 = 0)
          /\ \A p, q \in 1..Len(file) :
                p < q /\ file[p] # Newline /\ file[q] # Newline => file[p] < file[q]
      BY <1>0, <1>3, <2>1 DEF WholeSoFar
    <2>6. (Len(file) + 1) % 2 = 0
      BY <2>3, <2>5
    <2>7. \A p \in 1..Len(file') :
             file'[p] \in Objects \cup {Newline} /\ (file'[p] = Newline <=> p % 2 = 0)
      BY <2>3, <2>4, <2>5, <2>6
    <2>8. ASSUME NEW p \in 1..Len(file'), NEW q \in 1..Len(file'), p < q,
                 file'[p] # Newline, file'[q] # Newline
          PROVE  file'[p] < file'[q]
      <3>1. p \in 1..Len(file) /\ q \in 1..Len(file)
        BY <2>3, <2>4, <2>8
      <3> QED
        BY <2>3, <2>5, <2>8, <3>1
    <2> QED
      BY <2>1, <2>3, <2>6, <2>7, <2>8 DEF WholeSoFar
  <1>4. CASE errs'
    BY <1>4 DEF WholeSoFar
  <1> QED
    BY <1>1, <1>2, <1>3, <1>4 DEF WriterStep

LEMMA TypedFlowSender ==
    ASSUME IInv, NEW s \in Senders, Step(s)
    PROVE  Typed' /\ Flow'
  <1>0. /\ Typed /\ Flow /\ TypeOK /\ Queues /\ s \in Stages /\ s # Write
        /\ hold \in [Stages -> Objects \cup {None}] /\ Stages = Senders \cup Receivers
    BY StageNumbers DEF IInv, Typed, TypeOK, Stages
  <1>1. CASE s # Parse /\ Receive(s)
    BY <1>0, <1>1, StageNumbers, TypedReceive, FlowReceive
  <1>2. CASE Send(s)
    BY <1>0, <1>2, TypedSend, SendMoves
  <1>3. CASE s \in {Filter, Decode} /\ Drop(s)
    <2>1. hold' \in [Stages -> Objects \cup {None}]
      BY <1>0, <1>3 DEF Drop
    <2> QED
      BY <1>0, <1>3, <2>1, FlowDrop DEF Drop, Typed, TypeOK, Queues, writer
  <1>4. CASE s = Parse /\ Deliver
    <2>1. next \in Objects /\ next + 1 \in 1..(Size + 1)
      BY <1>0, <1>4, SizesAssumption DEF Deliver, TypeOK, Objects
    <2>2. hold' \in [Stages -> Objects \cup {None}]
      BY <1>0, <1>4, <2>1 DEF Deliver
    <2> QED
      BY <1>0, <1>4, <2>1, <2>2, FlowDeliver DEF Deliver, Typed, TypeOK, Queues, writer
  <1>5. CASE Finish(s) \/ ParseEnds \/ GiveUp
    <2>1. open' \subseteq open /\ UNCHANGED <<record, next, chan, hold, writer>>
      BY <1>5 DEF Finish, ParseEnds, GiveUp, ClosedByTransform
    <2>2. (\A t \in Stages : Held(t)' = Held(t)) /\ Recorded' = Recorded /\ errs' = errs
      BY <2>1 DEF Held, Recorded, writer
    <2>3. Flow'
      BY <1>0, <2>1, <2>2, FlowRest
    <2> QED
      BY <1>0, <2>1, <2>3 DEF Typed, TypeOK, Queues, writer
  <1> QED
    BY <1>1, <1>2, <1>3, <1>4, <1>5 DEF Step

LEMMA TypedFlowWriter ==
    ASSUME IInv, WriterStep
    PROVE  Typed' /\ Flow'
  <1>0. /\ Typed /\ Flow /\ TypeOK /\ Queues /\ Write \in Stages
        /\ hold \in [Stages -> Objects \cup {None}] /\ Stages = Senders \cup Receivers
    BY StageNumbers DEF IInv, Typed, TypeOK, Stages
  <1>1. CASE Receive(Write)
    BY <1>0, <1>1, StageNumbers, TypedReceive, FlowReceive
  <1>2. CASE Main \/ Create \/ Return
    <2>1. /\ UNCHANGED <<record, streams, file, errs>> /\ pc # "newline" /\ pc' # "newline"
          /\ pc' \in {"create", "loop", "returned"} /\ result' \in {result, "error", "ok"}
      BY <1>2 DEF Main, Create, Return
    <2>2. (\A t \in Stages : Held(t)' = Held(t)) /\ Recorded' = Recorded
      BY <2>1 DEF Held, Recorded, streams
    <2>3. Flow'
      BY <1>0, <2>1, <2>2, FlowRest DEF streams
    <2> QED
      BY <1>0, <2>1, <2>3 DEF Typed, TypeOK, Queues, streams
  <1>3. CASE WriteData \/ WriteNewline
    <2>1. /\ UNCHANGED <<record, next, chan, open, result>>
          /\ errs' \in BOOLEAN /\ pc' \in {"loop", "newline"}
      BY <1>0, <1>3 DEF WriteData, WriteNewline, ErrorNoted, TypeOK
    <2>2. hold' \in [Stages -> Objects \cup {None}]
      BY <1>0, <1>3 DEF WriteData, WriteNewline
    <2>3. ASSUME NEW b \in 0..(Size + 1) PROVE Append(file, b) \in Seq(0..(Size + 1))
      BY <1>0, FileGrows
    <2>4. file' = file \/ \E b \in 0..(Size + 1) : file' = Append(file, b)
      <3>1. hold[Write] # None => hold[Write] \in 0..(Size + 1)
        BY <1>0, SizesAssumption DEF Objects
      <3>2. Newline \in 0..(Size + 1) /\ Part \in 0..(Size + 1)
        BY SizesAssumption DEF Newline, Part
      <3> QED
        BY <1>3, <3>1, <3>2 DEF WriteData, WriteNewline
    <2>5. file' \in Seq(0..(Size + 1))
      BY <1>0, <2>3, <2>4 DEF TypeOK
    <2>6. Flow'
      BY <1>0, <1>3, FlowWriteData, FlowWriteNewline
    <2> QED
      BY <1>0, <2>1, <2>2, <2>5, <2>6 DEF Typed, TypeOK, Queues
  <1> QED
    BY <1>1, <1>2, <1>3 DEF WriterStep

LEMMA InvStep == IInv /\ [Next]_vars => IInv'
  <1> SUFFICES ASSUME IInv, [Next]_vars PROVE IInv'
    OBVIOUS
  <1>1. CASE WriterStep
    BY <1>1, TypedFlowWriter, ClosedWriter, WholeWriter DEF IInv
  <1>2. ASSUME NEW s \in Senders, Step(s) PROVE IInv'
    <2>1. file' = file /\ errs' = errs /\ pc' = pc
      BY <1>2 DEF Step, Receive, Finish, Send, Drop, Deliver, ParseEnds, GiveUp, writer
    <2>2. WholeSoFar'
      BY <2>1 DEF IInv, WholeSoFar
    <2> QED
      BY <1>2, <2>2, TypedFlowSender, ClosedSender DEF IInv
  <1>3. CASE UNCHANGED vars
    <2>1. UNCHANGED <<record, next, chan, open, hold, file, pc, errs, result>>
      BY <1>3 DEF vars, streams, writer
    <2>2. \A t \in Stages : Held(t)' = Held(t)
      BY <2>1 DEF Held
    <2>3. Flow'
      BY <2>1, <2>2, FlowRest DEF IInv, Recorded
    <2>4. Typed'
      BY <2>1 DEF IInv, Typed, TypeOK, Queues
    <2> QED
      BY <2>1, <2>3, <2>4 DEF IInv, Closed, Drained, WholeSoFar, Ending
  <1> QED
    BY <1>1, <1>2, <1>3 DEF Next

LEMMA SpecInv == Spec => []IInv
  BY InvInit, InvStep, PTL DEF Spec

(* Every variable of the dump reader keeps its type: no channel holds more *)
(* than its capacity.                                                      *)
THEOREM TypeCorrect == Spec => []TypeOK
  BY SpecInv, PTL DEF IInv, Typed

(* When ToJSONLine has returned without an error, either every goroutine   *)
(* has returned and every channel is empty, or transformStream holds an    *)
(* object it could not decode, and what it left behind comes after that.   *)
LEMMA AtTheEnd ==
    ASSUME IInv, result = "ok"
    PROVE  /\ Place(9) = {} /\ Place(8) = {} /\ Place(7) = {} /\ Place(6) = {}
           /\ \/ open = {} /\ \A p \in 1..5 : Place(p) = {}
              \/ /\ Transform \notin open /\ hold[Transform] \in Objects
                 /\ record[hold[Transform]] = "undecodable"
                 /\ Place(5) = {hold[Transform]}
  <1>0. /\ TypeOK /\ Closed /\ Elems(<<>>) = {} /\ open \subseteq Senders
        /\ hold \in [Stages -> Objects \cup {None}]
    <2>1. Elems(<<>>) = {}
      BY DEF Elems
    <2> QED
      BY <2>1, StageNumbers DEF IInv, Typed, TypeOK
  <1>1. hold[Write] = None /\ Drained(Write)
    BY DEF IInv, Ending
  <1>2. Place(9) = {} /\ Place(8) = {} /\ Decode \notin open
    BY <1>0, <1>1, StageNumbers DEF Place, Held, Queued, Drained
  <1>3. hold[Decode] = None /\ Drained(Decode)
    BY <1>0, <1>2, StageNumbers DEF Closed
  <1>4. Place(7) = {} /\ Place(6) = {} /\ Transform \notin open
    BY <1>0, <1>3, StageNumbers DEF Place, Held, Queued, Drained
  <1>5. CASE hold[Transform] # None
    <2>1. record[hold[Transform]] = "undecodable" /\ hold[Transform] \in Objects
      BY <1>0, <1>4, <1>5, StageNumbers DEF Closed, Stages
    <2>2. Place(5) = {hold[Transform]}
      BY <1>5, StageNumbers DEF Place, Held
    <2> QED
      BY <1>2, <1>4, <2>1, <2>2
  <1>6. CASE hold[Transform] = None
    <2>1. Drained(Transform)
      BY <1>0, <1>4, <1>6, StageNumbers DEF Closed
    <2>2. Place(5) = {} /\ Place(4) = {} /\ Filter \notin open
      BY <1>0, <1>6, <2>1, StageNumbers DEF Place, Held, Queued, Drained
    <2>3. hold[Filter] = None /\ Drained(Filter)
      BY <1>0, <2>2, StageNumbers DEF Closed
    <2>4. Place(3) = {} /\ Place(2) = {} /\ Parse \notin open
      BY <1>0, <2>3, StageNumbers DEF Place, Held, Queued, Drained
    <2>5. hold[Parse] = None
      BY <1>0, <2>4, StageNumbers DEF Closed
    <2>6. Place(1) = {}
      BY <2>5 DEF Place, Held
    <2>7. open = {}
      BY <1>0, <1>2, <1>4, <2>2, <2>4, StageNumbers
    <2> QED
      BY <1>2, <1>4, <2>2, <2>4, <2>6, <2>7
  <1> QED
    BY <1>5, <1>6

(* A file called good holds every response up to the first object that     *)
(* could not be decoded, and nothing else.                                 *)
LEMMA RecordedIsReached ==
    ASSUME IInv, result = "ok"
    PROVE  Recorded = {i \in Reached : record[i] = "response"}
  <1>0. TypeOK /\ Flow /\ ~errs /\ next \in 1..(Size + 1) /\ Objects \subseteq Nat
    BY DEF IInv, Typed, TypeOK, Ending, Objects
  <1>1. Place(10) = Recorded /\ Place(0) = Undelivered
    BY DEF Place
  <1>2. \A p \in 0..5 : p \in Places /\ p < 10
    BY DEF Places
  <1>3. 10 \in Places /\ 0 \in Places /\ 5 \in Places /\ Recorded \subseteq Objects
    BY DEF Places, Recorded
  <1>4. ASSUME NEW i \in Recorded PROVE i \in Reached /\ record[i] = "response"
    <2>1. i \in Objects /\ record[i] \in Kinds /\ i \in Place(10)
      BY <1>0, <1>1, <1>3 DEF TypeOK
    <2>2. record[i] = "response"
      BY <1>0, <1>3, <2>1 DEF Flow, Screened, Kinds
    <2>3. i < next
      <3>1. i \notin Undelivered
        <4>1. i \in Undelivered => i < i
          BY <1>0, <1>1, <1>2, <1>3, <2>1 DEF Flow, InOrder
        <4> QED
          BY <1>0, <2>1, <4>1
      <3> QED
        BY <1>0, <2>1, <3>1, SizesAssumption DEF Undelivered
    <2>4. ASSUME NEW j \in 1..i, record[j] = "undecodable" PROVE FALSE
      <3>1. j \in Objects /\ j <= i
        BY <1>0, <2>1, <2>4, SizesAssumption DEF Objects
      <3>2. PICK p \in 0..5 : j \in Place(p)
        BY <1>0, <2>4, <3>1 DEF Flow, Accounted
      <3>3. i < j
        BY <1>0, <1>2, <1>3, <2>1, <3>2 DEF Flow, InOrder
      <3> QED
        BY <1>0, <2>1, <3>1, <3>3
    <2>5. i \in 1..(next - 1)
      BY <1>0, <2>1, <2>3, SizesAssumption DEF Objects
    <2> QED
      BY <2>2, <2>4, <2>5 DEF Reached
  <1>5. ASSUME NEW i \in Reached, record[i] = "response" PROVE i \in Recorded
    <2>1. /\ i \in Objects /\ i < next /\ i \in Nat
          /\ \A j \in 1..i : record[j] # "undecodable"
      BY <1>0, <1>5, SizesAssumption DEF Reached, Objects
    <2>2. PICK p \in Places : i \in Place(p)
      BY <1>0, <1>5, <2>1 DEF Flow, Accounted
    <2>3. p # 0
      BY <1>0, <1>1, <2>1, <2>2 DEF Undelivered
    <2>4. p \notin {6, 7, 8, 9}
      BY <2>2, AtTheEnd
    <2>5. p \notin 1..5
      <3> SUFFICES ASSUME p \in 1..5 PROVE FALSE
        OBVIOUS
      <3>1. /\ hold[Transform] \in Objects /\ record[hold[Transform]] = "undecodable"
            /\ Place(5) = {hold[Transform]}
        BY <2>2, AtTheEnd
      <3>2. hold[Transform] <= i
        <4>1. CASE p = 5
          BY <1>0, <2>1, <2>2, <3>1, <4>1
        <4>2. CASE p < 5
          <5>1. hold[Transform] < i
            BY <1>0, <1>3, <2>2, <3>1, <4>2 DEF Flow, InOrder
          <5>2. hold[Transform] \in Nat
            BY <1>0, <3>1
          <5> QED
            BY <2>1, <5>1, <5>2
        <4> QED
          BY <4>1, <4>2
      <3>3. hold[Transform] \in 1..i
        BY <1>0, <2>1, <3>1, <3>2 DEF Objects
      <3> QED
        BY <2>1, <3>1, <3>3
    <2> QED
      BY <1>1, <2>2, <2>3, <2>4, <2>5 DEF Places
  <1> QED
    BY <1>4, <1>5

(* However large the dump and the channels are, whatever its records turn  *)
(* out to be and whenever the parser ends, a file called good has one      *)
(* whole line for each response of the dump up to there, in their order.   *)
THEOREM WholeFileCorrect == Spec => []OkFileIsWhole
  <1>1. IInv => OkFileIsWhole
    <2> SUFFICES ASSUME IInv, result = "ok"
                 PROVE  Lines({i \in Reached : record[i] = "response"})
      BY DEF OkFileIsWhole
    <2>1. ~errs /\ pc # "newline" /\ WholeSoFar
      BY DEF IInv, Ending
    <2>2. file \in Seq(0..(Size + 1)) /\ DOMAIN file = 1..Len(file)
      BY DEF IInv, Typed, TypeOK
    <2>3. /\ Len(file) % 2 = 0
          /\ \A p \in DOMAIN file :
                file[p] \in Objects \cup {Newline} /\ (file[p] = Newline <=> p % 2 = 0)
          /\ \A p, q \in DOMAIN file :
                p < q /\ file[p] # Newline /\ file[q] # Newline => file[p] < file[q]
      BY <2>1, <2>2 DEF WholeSoFar
    <2>4. Newline \notin Objects
      BY DEF Newline, Objects
    <2>5. {file[p] : p \in DOMAIN file} \ {Newline} = Recorded
      BY <2>2, <2>3, <2>4 DEF Recorded, Elems
    <2> QED
      BY <2>3, <2>5, RecordedIsReached DEF Lines
  <1> QED
    BY <1>1, SpecInv, PTL

(* When the file is good and the decoder met nothing it could not decode,  *)
(* no goroutine is left behind on its channel.                             *)
THEOREM NobodyLeftBehindCorrect == Spec => []NobodyLeftBehind
  <1>1. IInv => NobodyLeftBehind
    <2> SUFFICES ASSUME IInv, result = "ok", \A i \in 1..(next - 1) : record[i] # "undecodable"
                 PROVE  open = {}
      BY DEF NobodyLeftBehind
    <2>1. /\ TypeOK /\ InOrder /\ next \in 1..(Size + 1)
          /\ 0 \in Places /\ 5 \in Places /\ Place(0) = Undelivered
      BY DEF IInv, Typed, TypeOK, Flow, Places, Place
    <2>2. SUFFICES ASSUME /\ hold[Transform] \in Objects
                          /\ record[hold[Transform]] = "undecodable"
                          /\ Place(5) = {hold[Transform]}
                   PROVE  FALSE
      BY AtTheEnd
    <2>3. hold[Transform] \notin Undelivered
      <3>1. hold[Transform] \in Undelivered => hold[Transform] < hold[Transform]
        BY <2>1, <2>2 DEF InOrder
      <3> QED
        BY <2>2, <3>1 DEF Objects
    <2>4. hold[Transform] \in 1..(next - 1)
      BY <2>1, <2>2, <2>3, SizesAssumption DEF Undelivered, Objects
    <2> QED
      BY <2>2, <2>4
  <1> QED
    BY <1>1, SpecInv, PTL
=============================================================================
