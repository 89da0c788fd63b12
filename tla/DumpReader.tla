------------------------------ MODULE DumpReader ------------------------------
(***************************************************************************)
(* cmd/rdb: "rdb -c jsonl" turns a Redis dump into a file with one JSON    *)
(* line per cached response.  Goroutines joined by bounded channels read   *)
(* the dump, keep the strings, decode the stored response, unzip its body  *)
(* and write the line.  Each but the last closes its output when it        *)
(* returns, for whatever reason; nobody tells the goroutines before it,    *)
(* which then block on a full channel until the process ends.              *)
(***************************************************************************)
EXTENDS Naturals, Sequences

CONSTANTS
    Size,      \* objects in the dump; an object is named by its position
    Capacity   \* of each channel; 1000 in the code

ASSUME SizesAssumption == Size \in Nat /\ Capacity \in Nat \ {0}

VARIABLES
    record,  \* what each object turns out to be
    next,    \* the object the parser delivers next
    chan,    \* the channel each goroutine but the last sends to
    open,    \* goroutines that have not closed their channel
    hold,    \* the object a goroutine received and has not passed on, or None
    file,    \* what was written
    pc,      \* where main and writeResponse stand
    errs,    \* whether writeResponse collected an error
    result   \* what ToJSONLine returned

streams == <<next, chan, open, hold>>
writer == <<file, pc, errs, result>>
vars == <<record, streams, writer>>

(* The goroutines in the order the objects pass them. *)
Parse == 1
Filter == 2
Transform == 3
Decode == 4
Write == 5
Senders == Parse..Decode
Receivers == Filter..Write

(* An object of another type than string, a string that is no response of  *)
(* the cache, a response whose body does not unzip, and a good one.        *)
Kinds == {"other", "undecodable", "badgzip", "response"}

Objects == 1..Size
None == 0
Newline == 0
Part == Size + 1  \* what a failed write leaves of a record

TypeOK ==
    /\ record \in [Objects -> Kinds]
    /\ next \in 1..(Size + 1)
    /\ chan \in [Senders -> Seq(Objects)]
    /\ \A s \in Senders : Len(chan[s]) <= Capacity
    /\ open \subseteq Senders
    /\ hold \in [Senders \cup Receivers -> Objects \cup {None}]
    /\ file \in Seq(0..(Size + 1))
    /\ pc \in {"main", "create", "loop", "newline", "returned"}
    /\ errs \in BOOLEAN
    /\ result \in {"none", "ok", "error"}

Init ==
    /\ record \in [Objects -> Kinds]
    /\ next = 1
    /\ chan = [s \in Senders |-> <<>>]
    /\ open = Senders
    /\ hold = [s \in Senders \cup Receivers |-> None]
    /\ file = <<>> /\ pc = "main" /\ errs = FALSE /\ result = "none"

(* The goroutines run from the call of ToJSONLine until the process ends,  *)
(* as soon as it has returned.                                             *)
Running == pc \notin {"main", "returned"}

-----------------------------------------------------------------------------
(* Channels.                                                               *)

RoomForOneMore(s) == Len(chan[s]) <= Capacity
Room(s) == Len(chan[s]) < Capacity

Receive(s) ==
    /\ Running /\ s \in open \cup {Write} /\ hold[s] = None
    /\ s = Write => pc = "loop"
    /\ chan[s - 1] # <<>>
    /\ hold' = [hold EXCEPT ![s] = Head(chan[s - 1])]
    /\ chan' = [chan EXCEPT ![s - 1] = Tail(@)]
    /\ UNCHANGED <<record, next, open, writer>>

(* What each goroutine makes of an object it holds. *)
Passes(s, kind) ==
    CASE s = Parse -> TRUE
      [] s = Filter -> kind # "other"
      [] s = Transform -> kind # "undecodable"
      [] s = Decode -> kind # "badgzip"

Send(s) ==
    /\ Running /\ s \in open /\ hold[s] # None /\ Passes(s, record[hold[s]])
    /\ Room(s)
    /\ chan' = [chan EXCEPT ![s] = Append(@, hold[s])]
    /\ hold' = [hold EXCEPT ![s] = None]
    /\ UNCHANGED <<record, next, open, writer>>

(* The loop goes on without the object. *)
Drop(s) ==
    /\ Running /\ s \in open /\ hold[s] # None /\ ~Passes(s, record[hold[s]])
    /\ hold' = [hold EXCEPT ![s] = None]
    /\ UNCHANGED <<record, next, chan, open, writer>>

(* "for range" ends when the channel is empty and closed. *)
Emptied(s) == chan[s - 1] = <<>>
Drained(s) == chan[s - 1] = <<>> /\ s - 1 \notin open

Finish(s) ==
    /\ Running /\ s \in open /\ hold[s] = None
    /\ Drained(s)
    /\ open' = open \ {s}
    /\ UNCHANGED <<record, next, chan, hold, writer>>

-----------------------------------------------------------------------------
(* redisObjectStream: dec.Parse calls back with one object after another.  *)
(* Its error is ignored: it looks like the end of the dump, and so does a  *)
(* file that cannot be opened.                                             *)

Deliver ==
    /\ Running /\ Parse \in open /\ hold[Parse] = None
    /\ next <= Size
    /\ hold' = [hold EXCEPT ![Parse] = next]
    /\ next' = next + 1
    /\ UNCHANGED <<record, chan, open, writer>>

ParseEnds ==
    /\ Running /\ Parse \in open /\ hold[Parse] = None
    /\ open' = open \ {Parse}
    /\ UNCHANGED <<record, next, chan, hold, writer>>

(* transformStream returns at the first object it cannot decode. *)
LeftOpen == open
ClosedByTransform == open \ {Transform}

GiveUp ==
    /\ Running /\ Transform \in open /\ hold[Transform] # None
    /\ ~Passes(Transform, record[hold[Transform]])
    /\ open' = ClosedByTransform
    /\ UNCHANGED <<record, next, chan, hold, writer>>

-----------------------------------------------------------------------------
(* main, ToJSONLine and writeResponse.                                     *)

(* main creates the output file and goes on if it cannot; ToJSONLine       *)
(* refuses an empty name of a file.                                        *)
Main ==
    /\ pc = "main"
    /\ \/ pc' = "create" /\ UNCHANGED result
       \/ pc' = "returned" /\ result' = "error"
    /\ UNCHANGED <<record, streams, file, errs>>

Create ==
    /\ pc = "create"
    /\ \/ pc' = "loop" /\ UNCHANGED result
       \/ pc' = "returned" /\ result' = "error"
    /\ UNCHANGED <<record, streams, file, errs>>

(* Marshal and Write; a write that fails may have written a part. *)
WriteData ==
    /\ pc = "loop" /\ hold[Write] # None
    /\ \/ /\ file' = Append(file, hold[Write])
          /\ pc' = "newline"
          /\ UNCHANGED <<hold, errs>>
       \/ /\ file' \in {file, Append(file, Part)}
          /\ errs' = TRUE
          /\ hold' = [hold EXCEPT ![Write] = None]
          /\ UNCHANGED pc
    /\ UNCHANGED <<record, next, chan, open, result>>

ErrorDropped == errs
ErrorNoted == TRUE

WriteNewline ==
    /\ pc = "newline" /\ pc' = "loop"
    /\ \/ file' = Append(file, Newline) /\ UNCHANGED errs
       \/ errs' = ErrorNoted /\ UNCHANGED file
    /\ hold' = [hold EXCEPT ![Write] = None]
    /\ UNCHANGED <<record, next, chan, open, result>>

Return ==
    /\ pc = "loop" /\ hold[Write] = None
    /\ Drained(Write)
    /\ pc' = "returned"
    /\ result' = IF errs THEN "error" ELSE "ok"
    /\ UNCHANGED <<record, streams, file, errs>>

-----------------------------------------------------------------------------
WriterStep == Receive(Write) \/ Main \/ Create \/ WriteData \/ WriteNewline \/ Return
Step(s) ==
    \/ s # Parse /\ (Receive(s) \/ Finish(s))
    \/ Send(s)
    \/ s \in {Filter, Decode} /\ Drop(s)
    \/ s = Parse /\ (Deliver \/ ParseEnds)
    \/ s = Transform /\ GiveUp

Next == WriterStep \/ \E s \in Senders : Step(s)

(* A goroutine that can run runs, and the parser and the disk answer. *)
Spec == Init /\ [][Next]_vars /\ WF_vars(WriterStep) /\ \A s \in Senders : WF_vars(Step(s))

-----------------------------------------------------------------------------
(* Properties.                                                             *)

(* The objects the parser delivered before the first that transformStream  *)
(* gives up on.                                                            *)
Reached == {i \in 1..(next - 1) : \A j \in 1..i : record[j] # "undecodable"}

(* The file has one whole line for each object of S, in their order: each  *)
(* record is followed by a newline, and by a greater one.                  *)
Lines(S) ==
    /\ Len(file) % 2 = 0
    /\ \A p \in DOMAIN file : file[p] = Newline <=> p % 2 = 0
    /\ {file[p] : p \in DOMAIN file} \ {Newline} = S
    /\ \A p, q \in DOMAIN file :
          p < q /\ file[p] # Newline /\ file[q] # Newline => file[p] < file[q]

(* A file ToJSONLine calls good has one whole line for each response of    *)
(* the dump, in its order and none twice, up to the point where parser or  *)
(* decoder ended; a failed write is never forgotten (jsonl.go:198).        *)
OkFileIsWhole ==
    result = "ok" => Lines({i \in Reached : record[i] = "response"})

(* When the file is good, every goroutine has returned, unless             *)
(* transformStream gave up: only then are some left behind, blocked on     *)
(* their channels (jsonl.go:91).                                           *)
NobodyLeftBehind ==
    result = "ok" /\ (\A i \in 1..(next - 1) : record[i] # "undecodable") => open = {}

(* ToJSONLine returns: a goroutine that stops early, or is blocked behind  *)
(* one that did, never keeps the writer waiting.                           *)
AlwaysReturns == <>(result # "none")
=============================================================================
