------------------------------ MODULE MCGateway ------------------------------
(* Gateway on a small instance: two requests to one service with the same   *)
(* key or with different ones, of which one has the name of the service.    *)
EXTENDS Gateway

MCService == <<"service", "jina">>
MCKey1 == <<"api_key", "k">>
MCKey2 == <<"api_key", "jina">>
MCNames == {MCService, MCKey1, MCKey2}
MCOneKey == {MCService, MCKey2}
MCId == [n \in MCNames |-> IF n = MCKey2 THEN 2 ELSE 1]
MCOneKeyId == [n \in MCOneKey |-> MCId[n]]
=============================================================================
