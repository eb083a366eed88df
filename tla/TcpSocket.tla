------------------------------ MODULE TcpSocket ------------------------------
(***************************************************************************)
(* What SocketTCPClient and SocketTCPCServer (socket.cpp) make of the      *)
(* bytes of a TCP stream.  A stream is a sequence of four-byte marks (NETC,*)
(* CTEN, DSAT, DGET, ...); the tag of a message stands for its data too.   *)
(* TCP may hand over less or more than one send at a time, but is taken not*)
(* to cut a mark in two.                                                   *)
(***************************************************************************)
EXTENDS Integers, SequencesExt

Mark(name) == [is |-> name]
Hole == Mark("unset")  \* memory that was allocated and not written

\* What one recv may return of a stream.
Received(stream) == {SubSeq(stream, 1, n) : n \in 1 .. Len(stream)}
Rest(stream, got) == SubSeq(stream, Len(got) + 1, Len(stream))

\* SignedRawdata: head, tag with data, and tail.
Signed(info) == <<Mark("NETC"), Mark(info), Mark("CTEN")>>

-----------------------------------------------------------------------------
(* RecvRAW and RecvRAW_SM of the accepting side: the locals of a call are   *)
(* the block *p_rdt with its contents, bdtas, dsat and dfsh.                *)

Fresh == [data |-> <<>>, null |-> TRUE, bdtas |-> 0, dsat |-> FALSE, dfsh |-> FALSE]

\* Fault: a signal does not end the call.
StepEndless(call, got) ==
  LET signal == got[1] = Mark("NETC")
  IN [data |-> IF signal /\ call.null THEN got ELSE call.data,
      null |-> call.null /\ ~signal, bdtas |-> call.bdtas + Len(got),
      dsat |-> call.dsat \/ signal, dfsh |-> Last(got) = Mark("DFSH")]

\* Fault: a signal loses its first and its last element, as a chunk does.
StepStripped(call, got) ==
  LET signal == got[1] = Mark("NETC")
  IN [data |-> IF signal THEN SubSeq(got, 2, Len(got) - 1) ELSE call.data,
      null |-> call.null /\ ~signal, bdtas |-> call.bdtas + Len(got),
      dsat |-> call.dsat \/ signal, dfsh |-> signal]

\* One round of RecvRAW_SM.  A signal is kept whole and ends the call.  A chunk
\* loses its marks, but bdtas counts them, and the next one is stored at bdtas.
\* Before a signal or a DSAT nothing is stored, only counted.
Step(call, got) ==
  LET signal == got[1] = Mark("NETC")
      started == call.dsat \/ signal \/ got[1] = Mark("DSAT")
      inner == SubSeq(got, 2, Len(got) - 1)
      holes == [i \in 1 .. call.bdtas - Len(call.data) |-> Hole]
  IN [data |-> CASE ~started -> call.data
                 [] started /\ call.null /\ signal -> got
                 [] started /\ call.null /\ ~signal -> inner
                 [] started /\ ~call.null -> call.data \o holes \o inner,
      null |-> call.null /\ ~started,
      bdtas |-> call.bdtas + Len(got),
      dsat |-> started,
      dfsh |-> signal \/ Last(got) = Mark("DFSH")]

\* One round of RecvRAW: everything is kept.
Store(call, got) == [call EXCEPT !.data = @ \o got, !.null = FALSE, !.bdtas = @ + Len(got)]

-----------------------------------------------------------------------------
\* Fault: the tail is not looked at.
CheckHead(data, size) == size > 1 /\ data[1] = Mark("NETC")

\* CheckRawMsg, of a block that holds size elements.
CheckRawMsg(data, size) ==
  /\ size > 0
  /\ data[1] = Mark("NETC") /\ data[size] = Mark("CTEN")

\* What a call has returned holds fewer elements than it says, or is NULL: whoever
\* looks at its last element reads what is not there.
Unreadable(call) == call.null \/ call.bdtas > Len(call.data)
=============================================================================
