--------------------------- MODULE MCBoxReassembly --------------------------
(* Two messages in flight together: a of three boxes, sent in full, and b     *)
(* that announces two boxes and is sent in one (a multiple of 256 bytes).   *)
EXTENDS BoxReassembly

MCMsgs == {"a", "b"}
MCCnt == [m \in MCMsgs |-> IF m = "a" THEN 3 ELSE 2]
MCSent == [m \in MCMsgs |-> IF m = "a" THEN 3 ELSE 1]
=============================================================================
