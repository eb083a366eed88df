--------------------------- MODULE MCServerPipeline -------------------------
(* A registration and its retry, which are long enough to come in boxes, a *)
(* request for the public key, and a login to the account registered.      *)
EXTENDS ServerPipeline

MCClass == [d \in Datagrams |->
  CASE d = "reg" -> "private" [] d = "retry" -> "private" [] d = "login" -> "login"
    [] d = "key" -> "public" [] d = "junk" -> "junk"
    [] OTHER -> "unknown"]
MCRid == [d \in Datagrams |-> IF d \in {"reg", "retry"} THEN "r1" ELSE "r2"]
MCAccount == [d \in Datagrams |-> "r1"]
=============================================================================
