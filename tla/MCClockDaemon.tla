---------------------------- MODULE MCClockDaemon ----------------------------
(* A daemon started at every tick, and two clocks filed by threads, one of  *)
(* them for the tick after the next.                                       *)
EXTENDS ClockDaemon

MCFirstClick == [c \in Clocks |-> IF c = "wait2" THEN 1 ELSE 0]
MCRaw == [c \in Clocks |-> 0]
MCStart == <<"daemon">>
=============================================================================
