--------------------------- MODULE RefreshHistory ---------------------------
(***************************************************************************)
(* ResponseCache with a record of which requests had been answered when    *)
(* one arrived, to state what a refresh request is for.                    *)
(***************************************************************************)
EXTENDS ResponseCache

VARIABLE earlier  \* history: the requests answered before this one arrived

HistoryInit == Init /\ earlier = [r \in Requests |-> {}]

HistoryNext ==
    /\ Next
    /\ earlier' = [r \in Requests |->
                     IF pc[r] = "idle" /\ pc'[r] # "idle"
                     THEN {q \in Requests : pc[q] = "answered"} ELSE earlier[r]]

HistorySpec == HistoryInit /\ [][HistoryNext]_<<vars, earlier>>

(* option.go:63: the refresh parameter is "used to free a request cached   *)
(* response".  Once a refresh of a request has stored its new response, no *)
(* later request of the same kind gets a response from before it.          *)
RefreshFrees ==
    \A r, f \in Requests :
        /\ pc[r] = "setLocal" /\ f \in earlier[r] \cap Refresh \cap succeeded
        /\ Identity(f) = Identity(r)
        => hold[r].by \notin earlier[f]
=============================================================================
