----------------------------- MODULE MCTransport -----------------------------
(* What a client that registers gets from the server: first the answer to   *)
(* its request, by UDP and in boxes (ProcessSendPackets); 64 ticks of the   *)
(* clock later clientWaitDeamon connects to it by TCP.  Nothing is sent to  *)
(* it by UDP from then on.                                                  *)
EXTENDS MCFragmentSender, TcpConnection

TransportInit == Init /\ ConnInit

Answers == ConnInit /\ Next /\ UNCHANGED connvars
Connects == pc = "idle" /\ ConnNext /\ UNCHANGED vars

TransportSpec ==
  /\ TransportInit /\ [][Answers \/ Connects]_<<vars, connvars>>
  /\ WF_connvars(Server) /\ WF_connvars(Beat) /\ WF_connvars(Client)
=============================================================================
