--------------------------- MODULE MCMessageParser ---------------------------
(* A body that could be mistaken for a head, and a plain one.              *)
EXTENDS MessageParser

MCBodies == {<<Char.M, Char.S>>, <<Char.quote>>}
=============================================================================
