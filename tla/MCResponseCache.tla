--------------------------- MODULE MCResponseCache ---------------------------
(* ResponseCache on a small instance.  The name of a request says what it   *)
(* carries and which gateway it goes to.  The bytes of a POST of x to /u    *)
(* are those of a GET of /ux, and of the bare URL of a refreshing POST of x *)
(* to /ux: three requests share one key, so an entry is stored, hit and     *)
(* written back, and hit again.                                             *)
EXTENDS ResponseCache

u == <<"/", "u">>
x == <<"x">>
y == <<"y">>

MCRequest ==
    [getUX2  |-> [at |-> "g2", method |-> "GET",  url |-> u \o x, body |-> <<>>],
     freshX1 |-> [at |-> "g1", method |-> "POST", url |-> u \o x, body |-> x],
     postX1  |-> [at |-> "g1", method |-> "POST", url |-> u,      body |-> x],
     postY1  |-> [at |-> "g1", method |-> "POST", url |-> u,      body |-> y]]

MCBytes == {"/", "u", "x", "y"}
MCAt == [r \in Requests |-> MCRequest[r].at]
MCMethod == [r \in Requests |-> MCRequest[r].method]
MCUrl == [r \in Requests |-> MCRequest[r].url]
MCBody == [r \in Requests |-> MCRequest[r].body]
MCTransport == Requests \cap {"getUX2"}
MCRefresh == Requests \cap {"freshX1"}
MCLeftovers == {u \o x}
=============================================================================
