-------------------------- MODULE MCClientRequests --------------------------
(* The client's first start: the server's public key, then the login.      *)
EXTENDS ClientRequests

MCReqs == <<"key", "login">>
MCTimeout == [r \in {"key", "login"} |-> IF r = "key" THEN 1 ELSE 2]
MCMax == [r \in {"key", "login"} |-> IF r = "key" THEN 1 ELSE 2]
=============================================================================
