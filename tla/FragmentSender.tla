--------------------------- MODULE FragmentSender ---------------------------
(***************************************************************************)
(* How a signed datagram leaves the program: Server::SentRawdata (and its  *)
(* twin Client::SendRawData) sends a message of at most 256 bytes in one   *)
(* datagram and cuts a longer one into numbered boxes (net_box).  The loop *)
(* is modelled iteration by iteration with the code's own local variables; *)
(* a box is the record of the fields that build() puts on the wire, its    *)
(* payload being the byte range [from, to] of the message.                 *)
(***************************************************************************)
EXTENDS Integers, Sequences

CONSTANT Sizes \* the message sizes (raw_data.msg_size) a caller may send

\* A box carries its number and its count in 16 bits each (net_box.idx and
\* net_box.cnt), so messages are taken below 2^24 bytes.  A signed message is
\* never empty: its head and tail tags alone are eight bytes.
Short == 256 * 256

ASSUME SizesAssumption == Sizes \subseteq 1 .. (256 * Short - 1)

BoxSize == 256

VARIABLES
  pc,      \* "idle" between two calls, "cutting" in the loop, "sent" on return
  size,    \* trdt->msg_size
  alls,    \* bytes not yet accounted for
  aidx,    \* first byte of the box being built
  bidx,    \* last byte of the box being built
  tmp_idx, \* number of the box being built
  wire     \* the datagrams this call has handed to the socket, in order

vars == <<pc, size, alls, aidx, bidx, tmp_idx, wire>>

U16(n) == n % Short

tmp_cnt == size \div BoxSize

WholeMessage == [kind |-> "NETC", from |-> 0, to |-> size - 1]

NetBox(idx, cnt, from, to) ==
  [kind |-> "NETB", idx |-> U16(idx), cnt |-> U16(cnt), from |-> from, to |-> to]

Init ==
  /\ pc = "idle"
  /\ size = 0 /\ alls = 0 /\ aidx = 0 /\ bidx = 0 /\ tmp_idx = 0
  /\ wire = <<>>

-----------------------------------------------------------------------------
\* A call with a new message: the locals are initialised.
Begin(s) ==
  /\ pc = "idle"
  /\ pc' = "cutting"
  /\ size' = s /\ alls' = s
  /\ aidx' = 0 /\ bidx' = 0 /\ tmp_idx' = 0
  /\ wire' = <<>>

\* The else branch: a message that fits one datagram goes out as it is.
SendWhole ==
  /\ pc = "cutting" /\ size <= BoxSize
  /\ wire' = Append(wire, WholeMessage)
  /\ pc' = "sent"
  /\ UNCHANGED <<size, alls, aidx, bidx, tmp_idx>>

\* Faults: the rest taken for the size, and a last box of full length.
LastByteOfRest(left) == IF left > BoxSize THEN aidx + 255 ELSE left - 1
LastByteFull(left) == aidx + 255

\* The end of the box under construction, from the bytes that remain.
LastByte(left) == IF left > BoxSize THEN aidx + 255 ELSE size - 1

\* Fault: the next box starts on the last byte of this one.
SendBoxOverlap ==
  /\ pc = "cutting" /\ size > BoxSize
  /\ bidx < size - 1
  /\ alls' = alls - BoxSize
  /\ bidx' = LastByte(alls')
  /\ wire' = Append(wire, NetBox(tmp_idx, tmp_cnt, aidx, bidx'))
  /\ aidx' = bidx'
  /\ tmp_idx' = tmp_idx + 1
  /\ UNCHANGED <<pc, size>>

\* One iteration of the while loop.
SendBox ==
  /\ pc = "cutting" /\ size > BoxSize
  /\ bidx < size - 1
  /\ alls' = alls - BoxSize
  /\ bidx' = LastByte(alls')
  /\ wire' = Append(wire, NetBox(tmp_idx, tmp_cnt, aidx, bidx'))
  /\ aidx' = bidx' + 1
  /\ tmp_idx' = tmp_idx + 1
  /\ UNCHANGED <<pc, size>>

\* The loop condition fails.
EndLoop ==
  /\ pc = "cutting" /\ size > BoxSize
  /\ bidx >= size - 1
  /\ pc' = "sent"
  /\ UNCHANGED <<size, alls, aidx, bidx, tmp_idx, wire>>

\* The caller frees the message and comes back with another one.
Return ==
  /\ pc = "sent"
  /\ pc' = "idle"
  /\ size' = 0 /\ alls' = 0 /\ aidx' = 0 /\ bidx' = 0 /\ tmp_idx' = 0
  /\ wire' = <<>>

Next ==
  \/ \E s \in Sizes : Begin(s)
  \/ SendWhole
  \/ SendBox
  \/ EndLoop
  \/ Return

Spec == Init /\ [][Next]_vars

-----------------------------------------------------------------------------
Datagram ==
  [kind : {"NETC"}, from : {0}, to : Nat]
    \union [kind : {"NETB"}, idx : 0 .. Short - 1, cnt : 0 .. Short - 1, from : Nat, to : Nat]

\* The locals of the loop keep their types: no index goes negative.
TypeOK ==
  /\ pc \in {"idle", "cutting", "sent"}
  /\ size \in Sizes \union {0}
  /\ alls \in Int
  /\ aidx \in Nat /\ bidx \in Nat /\ tmp_idx \in Nat
  /\ wire \in Seq(Datagram)

\* The boxes on the wire are numbered in order from zero and lie end to end:
\* each starts where its predecessor stopped, so the receiver, who glues the
\* payloads in box order (TogtRawData), gets back the bytes in order.  None carries a
\* number beyond the count it announces: the receiver puts it at boxs[idx] of an array
\* of cnt entries (serverDeamon).
Tiling ==
  size > BoxSize =>
    \A i \in DOMAIN wire :
      /\ wire[i].kind = "NETB"
      /\ wire[i].idx = i - 1 /\ wire[i].idx < wire[i].cnt
      /\ wire[i].from = IF i = 1 THEN 0 ELSE wire[i - 1].to + 1
      /\ wire[i].from <= wire[i].to

\* When the call returns, every byte of the message is on the wire: the first
\* datagram starts at byte 0 and the last one ends at the last byte.
Covering ==
  pc = "sent" =>
    /\ wire # <<>>
    /\ wire[1].from = 0
    /\ wire[Len(wire)].to = size - 1

\* A call sends as many boxes as it announces: cnt is the number of boxes the receiver
\* should get ("应该接收的分包数量", server.h:193), which it waits for before it hands
\* the message over.  The code does not keep to it: alls > 256 is strict, so the last
\* iteration takes the final 512 bytes of a multiple of 256 at once.
AsAnnounced == (pc = "sent" /\ size > BoxSize) => Len(wire) = tmp_cnt

=============================================================================
