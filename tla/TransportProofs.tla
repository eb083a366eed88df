--------------------------- MODULE TransportProofs ---------------------------
(***************************************************************************)
(* What becomes of messages on their way.  Over UDP: the boxes of a        *)
(* message of any size below 2^24 bytes lie end to end, cover it, fit      *)
(* their numbers, and are as many as announced unless the size is a        *)
(* multiple of 256.  Over TCP: of a connection of any kind, with buffers   *)
(* of any size, and however the stream is cut and glued, only whole        *)
(* messages are accepted, an account alone, and the client reads where     *)
(* there is nothing only after a message was cut or a recv timed out.      *)
(***************************************************************************)
EXTENDS FragmentSender, TcpConnection, SequenceTheorems, TLAPS

-----------------------------------------------------------------------------
(* UDP: FragmentSender.                                                    *)

\* Where the loop stands after n boxes.  While it still has bytes to cut, all
\* boxes so far are exactly 256 bytes and more than 256 bytes remain; once it
\* has reached the last byte, the boxes before the last one left between 257
\* and 512 bytes for it.
Cutting(n) ==
  /\ tmp_idx = n
  /\ n > 0 => wire[n].to = bidx
  /\ \/ /\ bidx < size - 1
        /\ aidx = 256 * n /\ alls = size - 256 * n
        /\ bidx = IF n = 0 THEN 0 ELSE aidx - 1
        /\ alls > 256
     \/ /\ bidx = size - 1
        /\ n > 0
        /\ 256 * n < size /\ size <= 256 * n + 256

\* What is known of a box whatever the loop does next.
BoxOK(i) ==
  /\ wire[i].kind = "NETB"
  /\ wire[i].idx = i - 1
  /\ wire[i].cnt = tmp_cnt
  /\ wire[i].from = 256 * (i - 1)
  /\ wire[i].to \in Nat
  /\ wire[i].from <= wire[i].to
  /\ wire[i].to - wire[i].from + 1 \in 1 .. 512
  /\ i < Len(wire) => wire[i].to = 256 * i - 1
  /\ i <= tmp_cnt

\* The strengthening that is inductive: the position of the loop determines
\* the shape of everything it has sent.
LoopInv ==
  /\ pc # "idle" => size \in Sizes
  /\ (pc # "idle" /\ size > 256) =>
        /\ Cutting(Len(wire))
        /\ \A i \in 1 .. Len(wire) : BoxOK(i)
        /\ pc = "sent" => bidx = size - 1
  /\ (pc # "idle" /\ size <= 256) =>
        wire = IF pc = "sent" THEN <<WholeMessage>> ELSE <<>>
  /\ pc = "idle" => wire = <<>> /\ size = 0

\* The arithmetic of the announced count.
LEMMA CountBounds ==
  ASSUME NEW s \in Nat
  PROVE  /\ s \div 256 \in Nat
         /\ 256 * (s \div 256) <= s /\ s < 256 * (s \div 256) + 256
         /\ s % 256 = s - 256 * (s \div 256)
  OBVIOUS

LEMMA ShortIsNat == Short \in Nat
  BY DEF Short

\* A number below 2^16 goes through a 16-bit field unchanged.
LEMMA ShortNumber ==
  ASSUME NEW n \in Nat, n < Short PROVE U16(n) = n
  BY DEF U16, Short

LEMMA SizeBounds ==
  ASSUME NEW s \in Sizes PROVE s \in Nat /\ 0 < s /\ s < 256 * Short
  BY SizesAssumption, ShortIsNat

\* The loop invariant is established by a call and kept by every iteration.
LEMMA LoopInvariant == Spec => [](TypeOK /\ LoopInv)
<1> USE ShortIsNat DEF BoxSize
<1>1. Init => TypeOK /\ LoopInv
  BY DEF Init, TypeOK, LoopInv
<1>2. ASSUME TypeOK, LoopInv, [Next]_vars
      PROVE  TypeOK' /\ LoopInv'
  <2> USE <1>2
  <2>1. ASSUME NEW s \in Sizes, Begin(s)
        PROVE  TypeOK' /\ LoopInv'
    <3>1. s \in Nat /\ 0 < s
      BY SizeBounds
    <3>2. TypeOK'
      BY <2>1, <3>1 DEF Begin, TypeOK
    <3>3. LoopInv'
      BY <2>1, <3>1 DEF Begin, LoopInv, Cutting
    <3> QED BY <3>2, <3>3
  <2>2. CASE SendWhole
    <3>1. size \in Nat /\ 0 < size /\ size <= 256 /\ size \in Sizes
      BY <2>2, SizeBounds DEF SendWhole, TypeOK, LoopInv
    <3>2. WholeMessage \in Datagram
      BY <3>1 DEF WholeMessage, Datagram
    <3>3. TypeOK'
      BY <2>2, <3>2 DEF SendWhole, TypeOK
    <3>4. LoopInv'
      BY <2>2, <3>1 DEF SendWhole, TypeOK, LoopInv, WholeMessage
    <3> QED BY <3>3, <3>4
  <2>3. CASE SendBox
    <3> DEFINE n == Len(wire)
               box == NetBox(n, tmp_cnt, aidx, bidx')
    <3>1. /\ size \in Nat /\ 256 < size /\ size < 256 * Short
          /\ size \in Sizes /\ n \in Nat
          /\ pc = "cutting" /\ pc' = "cutting" /\ size' = size
      BY <2>3, SizeBounds DEF SendBox, LoopInv, TypeOK
    <3>2. /\ tmp_idx = n /\ aidx = 256 * n /\ alls = size - 256 * n /\ alls > 256
          /\ n > 0 => wire[n].to = 256 * n - 1
      <4>1. Cutting(n) /\ bidx < size - 1 /\ \A i \in 1 .. n : BoxOK(i)
        BY <2>3, <3>1 DEF SendBox, LoopInv
      <4> HIDE DEF n
      <4> QED BY <4>1, <3>1 DEF Cutting, TypeOK
    <3>3. /\ tmp_cnt \in Nat /\ 0 < tmp_cnt /\ tmp_cnt < Short /\ tmp_cnt' = tmp_cnt
          /\ 256 * tmp_cnt <= size /\ size < 256 * tmp_cnt + 256
      BY <3>1, CountBounds DEF tmp_cnt
    <3>4. n < Short /\ n + 1 <= tmp_cnt
      BY <3>1, <3>2, <3>3
    <3>5. /\ alls' = alls - 256 /\ tmp_idx' = n + 1 /\ bidx' + 1 = aidx'
          /\ bidx' = IF alls' > 256 THEN aidx + 255 ELSE size - 1
          /\ wire' = Append(wire, box)
      BY <2>3, <3>2 DEF SendBox, LastByte
    <3>6. /\ bidx' \in Nat /\ aidx <= bidx'
          /\ bidx' - aidx + 1 \in 1 .. 512
          /\ \/ /\ bidx' < size - 1 /\ bidx' = 256 * n + 255 /\ alls' > 256
             \/ /\ bidx' = size - 1
                /\ 256 * (n + 1) < size /\ size <= 256 * (n + 1) + 256
      <4> HIDE DEF n
      <4>1. CASE alls' > 256
        BY <4>1, <3>1, <3>2, <3>5
      <4>2. CASE ~(alls' > 256)
        <5>1. bidx' = size - 1
          BY <4>2, <3>5
        <5>2. 256 * n + 256 < size /\ size <= 256 * n + 512
          <6>1. n \in Nat /\ size \in Nat /\ alls = size - 256 * n /\ alls > 256
            BY <3>1, <3>2
          <6>2. alls' = alls - 256
            BY <3>5
          <6> QED BY ONLY <4>2, <6>1, <6>2
        <5> QED BY <5>1, <5>2, <3>1, <3>2
      <4> QED BY <4>1, <4>2
    <3>7. box = [kind |-> "NETB", idx |-> n, cnt |-> tmp_cnt, from |-> aidx, to |-> bidx']
      BY <3>1, <3>2, <3>3, <3>4, ShortNumber DEF NetBox
    <3>8. box \in Datagram
      <4>1. /\ n \in 0 .. Short - 1 /\ tmp_cnt \in 0 .. Short - 1
            /\ aidx \in Nat /\ bidx' \in Nat
        BY <3>1, <3>2, <3>3, <3>4, <3>6
      <4> HIDE DEF n
      <4> QED BY <3>7, <4>1 DEF Datagram
    <3> HIDE DEF box
    <3>9. /\ Len(wire') = n + 1 /\ wire'[n + 1] = box
          /\ \A i \in 1 .. n : wire'[i] = wire[i]
          /\ wire' \in Seq(Datagram)
      BY <3>5, <3>8 DEF TypeOK
    <3>10. TypeOK'
      <4>1. /\ size' \in Sizes /\ pc' = "cutting" /\ size \in Int /\ aidx' \in Nat /\ bidx' \in Nat
            /\ tmp_idx' \in Nat /\ alls' \in Int
        BY <3>1, <3>2, <3>5, <3>6
      <4> QED BY <4>1, <3>9 DEF TypeOK
    <3>11. Cutting(Len(wire))'
      <4>1. bidx' < size - 1 => aidx' = 256 * (n + 1) /\ alls' = size - 256 * (n + 1)
        BY <3>1, <3>2, <3>5, <3>6
      <4>2. wire'[n + 1].to = bidx'
        BY <3>7, <3>9
      <4>3. Len(wire') = n + 1 /\ tmp_idx' = n + 1 /\ size' = size /\ bidx' + 1 = aidx'
        BY <3>1, <3>5, <3>9
      <4>4. wire'[Len(wire')].to = bidx'
        BY <4>2, <4>3
      <4> HIDE DEF n
      <4>5. CASE bidx' < size - 1
        <5>1. bidx' = aidx' - 1 /\ n + 1 # 0 /\ alls' > 256
          BY <3>1, <3>6, <4>3, <4>5
        <5> QED BY <4>1, <4>3, <4>4, <4>5, <5>1 DEF Cutting
      <4>6. CASE bidx' = size - 1 /\ 256 * (n + 1) < size /\ size <= 256 * (n + 1) + 256
        BY <3>1, <4>3, <4>4, <4>6 DEF Cutting
      <4> QED
        BY <3>6, <4>5, <4>6
    <3>12. ASSUME NEW i \in 1 .. n + 1
           PROVE  BoxOK(i)'
      <4>1. CASE i = n + 1
        BY <4>1, <3>2, <3>3, <3>4, <3>6, <3>7, <3>9 DEF BoxOK
      <4>2. CASE i <= n
        <5>1. BoxOK(i) /\ wire'[i] = wire[i]
          BY <4>2, <3>1, <3>9 DEF LoopInv
        <5>2. wire[i].to = 256 * i - 1
          <6>1. CASE i < n
            BY <5>1, <6>1 DEF BoxOK
          <6>2. CASE i = n
            BY <6>2, <3>2
          <6> QED BY <4>2, <6>1, <6>2, <3>1
        <5> QED
          BY <4>2, <5>1, <5>2, <3>1, <3>3, <3>9, ZenonT(60) DEF BoxOK
      <4> QED BY <4>1, <4>2, <3>1
    <3>13. LoopInv'
      BY <3>1, <3>9, <3>11, <3>12 DEF LoopInv
    <3> QED BY <3>10, <3>13
  <2>4. CASE EndLoop
    <3>1. TypeOK'
      BY <2>4 DEF EndLoop, TypeOK
    <3>2. Len(wire) \in Nat /\ size \in Nat /\ bidx \in Nat
      BY <2>4, SizeBounds DEF TypeOK
    <3>3. bidx = size - 1
      BY <2>4, <3>2 DEF EndLoop, LoopInv, Cutting
    <3>4. UNCHANGED <<size, alls, aidx, bidx, tmp_idx, wire>> /\ pc' = "sent" /\ pc = "cutting"
          /\ size > 256
      BY <2>4 DEF EndLoop
    <3>5. (Cutting(Len(wire))' <=> Cutting(Len(wire))) /\ \A i : BoxOK(i)' <=> BoxOK(i)
      BY <3>4 DEF Cutting, BoxOK, tmp_cnt
    <3>6. size \in Sizes /\ Cutting(Len(wire))' /\ \A i \in 1 .. Len(wire) : BoxOK(i)'
      BY <3>4, <3>5 DEF LoopInv
    <3>7. ~(size <= 256)
      BY <3>2, <3>4
    <3>8. LoopInv'
      BY <3>3, <3>4, <3>6, <3>7 DEF LoopInv
    <3> QED BY <3>1, <3>8
  <2>5. CASE Return
    BY <2>5 DEF Return, TypeOK, LoopInv
  <2>6. CASE UNCHANGED vars
    <3>1. UNCHANGED <<pc, size, alls, aidx, bidx, tmp_idx, wire>>
      BY <2>6 DEF vars
    <3>2. TypeOK'
      BY <3>1 DEF TypeOK
    <3>3. /\ Cutting(Len(wire))' <=> Cutting(Len(wire))
          /\ \A i : BoxOK(i)' <=> BoxOK(i)
          /\ WholeMessage' = WholeMessage
      BY <3>1 DEF Cutting, BoxOK, tmp_cnt, WholeMessage
    <3>4. LoopInv'
      BY <3>1, <3>3 DEF LoopInv
    <3> QED BY <3>2, <3>4
  <2> QED
    BY <2>1, <2>2, <2>3, <2>4, <2>5, <2>6 DEF Next
<1> QED
  BY <1>1, <1>2, PTL DEF Spec

\* Type correctness of the loop, for every set of sizes.
THEOREM TypeCorrect == Spec => []TypeOK
  BY LoopInvariant, PTL

\* The boxes lie end to end and are numbered in order, within the count announced
\* (what the receiver depends on, who puts them in an array of that many entries and
\* glues the payloads in its order, TogtRawData).
THEOREM BoxesTile == Spec => []Tiling
<1>1. TypeOK /\ LoopInv => Tiling
  <2> SUFFICES ASSUME TypeOK, LoopInv, size > BoxSize, NEW i \in DOMAIN wire
               PROVE  /\ wire[i].kind = "NETB"
                      /\ wire[i].idx = i - 1 /\ wire[i].idx < wire[i].cnt
                      /\ wire[i].from = IF i = 1 THEN 0 ELSE wire[i - 1].to + 1
                      /\ wire[i].from <= wire[i].to
    BY DEF Tiling
  <2>1. wire \in Seq(Datagram) /\ i \in 1 .. Len(wire) /\ Len(wire) \in Nat
    BY DEF TypeOK
  <2>2. pc # "idle"
    BY DEF LoopInv, BoxSize
  <2>3. \A j \in 1 .. Len(wire) : BoxOK(j)
    BY <2>2 DEF LoopInv, BoxSize
  <2>4. wire[i].from = 256 * (i - 1)
    BY <2>1, <2>3 DEF BoxOK
  <2>5. ASSUME i # 1
        PROVE  wire[i - 1].to = 256 * (i - 1) - 1
    <3>1. i - 1 \in 1 .. Len(wire) /\ i - 1 < Len(wire)
      BY <2>1, <2>5
    <3>2. BoxOK(i - 1)
      BY <2>3, <3>1
    <3> QED BY <3>1, <3>2 DEF BoxOK
  <2>6. tmp_cnt \in Nat
    BY SizeBounds, CountBounds DEF TypeOK, tmp_cnt, BoxSize
  <2>7. wire[i].idx < wire[i].cnt
    BY <2>1, <2>3, <2>6 DEF BoxOK
  <2> QED
    BY <2>1, <2>3, <2>4, <2>5, <2>7 DEF BoxOK, TypeOK
<1> QED
  BY LoopInvariant, <1>1, PTL

\* A call that returns has put every byte of its message on the wire.
THEOREM MessageCovered == Spec => []Covering
<1>1. TypeOK /\ LoopInv => Covering
  <2> SUFFICES ASSUME TypeOK, LoopInv, pc = "sent"
               PROVE  /\ wire # <<>>
                      /\ wire[1].from = 0
                      /\ wire[Len(wire)].to = size - 1
    BY DEF Covering
  <2>1. size \in Nat /\ Len(wire) \in Nat
    BY SizeBounds DEF LoopInv, TypeOK
  <2>2. CASE size <= 256
    <3>1. wire = <<WholeMessage>>
      BY <2>2 DEF LoopInv
    <3> QED BY <3>1 DEF WholeMessage
  <2>3. CASE size > 256
    <3>1. /\ Cutting(Len(wire)) /\ bidx = size - 1
          /\ \A j \in 1 .. Len(wire) : BoxOK(j)
      BY <2>3 DEF LoopInv
    <3>2. Len(wire) > 0 /\ wire[Len(wire)].to = size - 1
      BY <2>1, <3>1 DEF Cutting
    <3>3. wire[1].from = 0
      BY <2>1, <3>1, <3>2 DEF BoxOK
    <3> QED BY <3>2, <3>3
  <2> QED BY <2>1, <2>2, <2>3
<1> QED
  BY LoopInvariant, <1>1, PTL

\* How many boxes a call really sends.
BoxesSent ==
  (pc = "sent" /\ size > BoxSize) =>
    Len(wire) = IF size % BoxSize = 0 THEN tmp_cnt - 1 ELSE tmp_cnt

\* Where a call breaks its announcement (AsAnnounced): it sends one box less exactly
\* for the multiples of 256.
THEOREM CountOfBoxes == Spec => []BoxesSent
<1>1. TypeOK /\ LoopInv => BoxesSent
  <2> SUFFICES ASSUME TypeOK, LoopInv, pc = "sent", size > 256
               PROVE  Len(wire) = IF size % 256 = 0 THEN tmp_cnt - 1 ELSE tmp_cnt
    BY DEF BoxesSent, BoxSize
  <2>1. size \in Nat /\ Len(wire) \in Nat
    BY SizeBounds DEF LoopInv, TypeOK
  <2>2. 256 * Len(wire) < size /\ size <= 256 * Len(wire) + 256
    BY <2>1 DEF LoopInv, Cutting
  <2>3. /\ tmp_cnt \in Nat /\ size % 256 = size - 256 * tmp_cnt
        /\ 256 * tmp_cnt <= size /\ size < 256 * tmp_cnt + 256
    BY <2>1, CountBounds DEF tmp_cnt, BoxSize
  <2> QED BY <2>1, <2>2, <2>3
<1> QED
  BY LoopInvariant, <1>1, PTL

-----------------------------------------------------------------------------
(* Streams of marks: what the sends put together, and the recvs cut.       *)

Names == {"NETC", "CTEN", "DGET", "SCNT", "LCNT", "CNTL", "ECYP", "BEAT", "PING"}
Marks == {Mark(m) : m \in Names}

\* A message ends where the next one begins ...
Sound(s) == \A i \in 2 .. Len(s) : Begins(s[i]) <=> Ends(s[i - 1])

\* ... and none is without its end.
Whole(s) == s \in Seq(Marks) /\ Sound(s) /\ (s # <<>> => Ends(s[Len(s)]))

LEMMA MarksDiffer == \A m, n : Mark(m) = Mark(n) <=> m = n
<1> SUFFICES ASSUME NEW m, NEW n, Mark(m) = Mark(n) PROVE m = n
  OBVIOUS
<1>1. Mark(m).is = m /\ Mark(n).is = n
  BY DEF Mark
<1> QED BY <1>1

\* SignedRawdata makes a whole message.
LEMMA SignedWhole ==
  ASSUME NEW m \in Names \ {"NETC", "CTEN", "DGET"}
  PROVE  /\ Whole(Signed(m)) /\ Len(Signed(m)) = 3 /\ DOMAIN Signed(m) = 1 .. 3
         /\ Signed(m)[1] = Mark("NETC") /\ Signed(m)[2] = Mark(m) /\ Signed(m)[3] = Mark("CTEN")
         /\ Signed(m) # <<>>
<1> PICK a, b, c, s : a = Mark("NETC") /\ b = Mark(m) /\ c = Mark("CTEN") /\ s = Signed(m)
  OBVIOUS
<1>1. a \in Marks /\ b \in Marks /\ c \in Marks
  BY DEF Marks, Names
<1>2. s = <<a, b, c>>
  BY DEF Signed
<1>3. /\ s \in Seq(Marks) /\ Len(s) = 3 /\ DOMAIN s = 1 .. 3
      /\ s[1] = a /\ s[2] = b /\ s[3] = c /\ s # <<>>
  BY <1>1, <1>2
<1>4. Begins(a) /\ ~Ends(a) /\ ~Begins(b) /\ ~Ends(b) /\ ~Begins(c) /\ Ends(c)
  BY MarksDiffer DEF Begins, Ends
<1>5. Sound(s)
  <2>1. \A i \in 2 .. Len(s) : i = 2 \/ i = 3
    BY <1>3
  <2> QED BY <2>1, <1>3, <1>4 DEF Sound
<1> QED BY <1>3, <1>4, <1>5 DEF Whole

LEMMA DGETWhole == Whole(DGET) /\ Len(DGET) = 1 /\ DGET[1] = Mark("DGET") /\ DGET # <<>>
<1> PICK a, s : a = Mark("DGET") /\ s = DGET
  OBVIOUS
<1>1. a \in Marks /\ Ends(a)
  BY DEF Marks, Names, Ends
<1>2. s = <<a>>
  BY DEF DGET
<1>3. s \in Seq(Marks) /\ Len(s) = 1 /\ s[1] = a /\ s # <<>>
  BY <1>1, <1>2
<1> QED BY <1>1, <1>3 DEF Whole, Sound

\* What two sequences make together.
LEMMA Glued ==
  ASSUME NEW S, NEW s \in Seq(S), NEW t \in Seq(S), NEW st, st = s \o t
  PROVE  /\ st \in Seq(S) /\ Len(s) \in Nat /\ Len(t) \in Nat /\ Len(st) = Len(s) + Len(t)
         /\ DOMAIN s = 1 .. Len(s) /\ DOMAIN t = 1 .. Len(t) /\ DOMAIN st = 1 .. Len(s) + Len(t)
         /\ \A i \in 1 .. Len(s) : st[i] = s[i]
         /\ \A i \in 1 .. Len(t) : st[Len(s) + i] = t[i]
<1>1. Len(s) \in Nat /\ Len(t) \in Nat /\ DOMAIN s = 1 .. Len(s) /\ DOMAIN t = 1 .. Len(t)
  BY LenProperties
<1>2. /\ st \in Seq(S) /\ Len(st) = Len(s) + Len(t)
      /\ \A i \in 1 .. Len(s) + Len(t) : st[i] = IF i <= Len(s) THEN s[i] ELSE t[i - Len(s)]
  BY ConcatProperties
<1>3. DOMAIN st = 1 .. Len(s) + Len(t)
  BY <1>2, LenProperties
<1>4. \A i \in 1 .. Len(s) : st[i] = s[i]
  BY <1>1, <1>2
<1>5. ASSUME NEW i \in 1 .. Len(t) PROVE st[Len(s) + i] = t[i]
  <2>1. Len(s) + i \in 1 .. Len(s) + Len(t) /\ ~(Len(s) + i <= Len(s)) /\ Len(s) + i - Len(s) = i
    BY <1>1
  <2> QED BY <2>1, <1>2
<1> QED BY <1>1, <1>2, <1>3, <1>4, <1>5

\* A message sent behind others: the boundary between them is one.
LEMMA SentWhole ==
  ASSUME NEW s, NEW t, Whole(s), Whole(t), t # <<>>, Begins(t[1]), NEW st, st = s \o t
  PROVE  Whole(st)
<1>1. /\ s \in Seq(Marks) /\ t \in Seq(Marks) /\ Sound(s) /\ Sound(t)
      /\ s # <<>> => Ends(s[Len(s)])
      /\ Ends(t[Len(t)])
  BY DEF Whole
<1>2. /\ st \in Seq(Marks) /\ Len(s) \in Nat /\ Len(t) \in Nat /\ Len(st) = Len(s) + Len(t)
      /\ \A i \in 1 .. Len(s) : st[i] = s[i]
      /\ \A i \in 1 .. Len(t) : st[Len(s) + i] = t[i]
  BY <1>1, Glued
<1>3. Len(t) > 0 /\ (s = <<>> => Len(s) = 0) /\ (s # <<>> => Len(s) > 0)
  BY <1>1, <1>2, EmptySeq
<1>4. st # <<>> /\ Ends(st[Len(st)])
  <2>1. Len(t) \in 1 .. Len(t)
    BY <1>2, <1>3
  <2>2. st[Len(st)] = t[Len(t)]
    BY <2>1, <1>2
  <2>3. Len(st) > 0
    BY <1>2, <1>3
  <2> QED BY <2>2, <2>3, <1>1
<1>5. ASSUME NEW i \in 2 .. Len(st) PROVE Begins(st[i]) <=> Ends(st[i - 1])
  <2>1. CASE i <= Len(s)
    <3>1. i \in 2 .. Len(s) /\ i \in 1 .. Len(s) /\ i - 1 \in 1 .. Len(s)
      BY <2>1, <1>2
    <3> QED BY <3>1, <1>1, <1>2 DEF Sound
  <2>2. CASE i = Len(s) + 1
    <3>1. 1 \in 1 .. Len(t) /\ i - 1 = Len(s) /\ Len(s) \in 1 .. Len(s) /\ s # <<>>
      BY <2>2, <1>2, <1>3
    <3>2. st[i] = t[1] /\ st[i - 1] = s[Len(s)]
      BY <3>1, <2>2, <1>2
    <3> QED BY <3>1, <3>2, <1>1
  <2>3. CASE i > Len(s) + 1
    <3> PICK j : j = i - Len(s)
      OBVIOUS
    <3>1. j \in 2 .. Len(t) /\ j \in 1 .. Len(t) /\ j - 1 \in 1 .. Len(t)
          /\ i = Len(s) + j /\ i - 1 = Len(s) + (j - 1)
      BY <2>3, <1>2
    <3>2. st[i] = t[j] /\ st[i - 1] = t[j - 1]
      BY <3>1, <1>2
    <3> QED BY <3>1, <3>2, <1>1 DEF Sound
  <2> QED BY <2>1, <2>2, <2>3, <1>2
<1> QED BY <1>2, <1>4, <1>5 DEF Whole, Sound

\* What one recv takes of a stream, and what it leaves.
LEMMA Cut ==
  ASSUME NEW s, Whole(s), NEW got \in Received(s), NEW r, r = Rest(s, got)
  PROVE  /\ got \in Seq(Marks) /\ Len(got) \in Nat /\ Len(got) > 0 /\ got # <<>> /\ Sound(got)
         /\ DOMAIN got = 1 .. Len(got) /\ \A i \in DOMAIN got : i \in DOMAIN s /\ got[i] = s[i]
         /\ Whole(r) /\ Len(s) \in Nat /\ Len(r) = Len(s) - Len(got)
         /\ DOMAIN s = 1 .. Len(s) /\ DOMAIN r = 1 .. Len(r)
         /\ \A i \in DOMAIN r : Len(got) + i \in DOMAIN s /\ r[i] = s[Len(got) + i]
         /\ got \o r = s
<1>1. /\ s \in Seq(Marks) /\ Sound(s) /\ Len(s) \in Nat /\ DOMAIN s = 1 .. Len(s)
      /\ s # <<>> => Ends(s[Len(s)])
      /\ \A i \in 1 .. Len(s) : s[i] \in Marks
  BY LenProperties, ElementOfSeq DEF Whole
<1>2. PICK n \in 1 .. Len(s) : got = SubSeq(s, 1, n)
  BY DEF Received
<1>3. n \in Nat /\ n > 0 /\ n <= Len(s) /\ n \in Int /\ Len(s) \in Int /\ n + 1 \in Int
  BY <1>1
<1>4. got \in Seq(Marks) /\ Len(got) = n /\ \A i \in 1 .. n : got[i] = s[i]
  <2>1. \A i \in 1 .. n : s[i] \in Marks
    BY <1>1, <1>3
  <2>2. /\ got \in Seq(Marks) /\ Len(got) = IF 1 <= n THEN n - 1 + 1 ELSE 0
        /\ \A i \in 1 .. n - 1 + 1 : got[i] = s[1 + i - 1]
    BY <1>2, <1>3, <2>1, SubSeqProperties, 1 \in Int
  <2>3. n - 1 + 1 = n /\ 1 <= n /\ \A i \in 1 .. n : 1 + i - 1 = i
    BY <1>3
  <2> QED BY <2>2, <2>3
<1>5. DOMAIN got = 1 .. n /\ got # <<>>
  BY <1>3, <1>4, LenProperties, EmptySeq
<1>6. r \in Seq(Marks) /\ Len(r) = Len(s) - n /\ \A i \in 1 .. Len(s) - n : r[i] = s[n + i]
  <2>1. \A i \in n + 1 .. Len(s) : s[i] \in Marks
    BY <1>1, <1>3
  <2>2. r = SubSeq(s, n + 1, Len(s))
    BY <1>4 DEF Rest
  <2>3. /\ r \in Seq(Marks) /\ Len(r) = IF n + 1 <= Len(s) THEN Len(s) - (n + 1) + 1 ELSE 0
        /\ \A i \in 1 .. Len(s) - (n + 1) + 1 : r[i] = s[n + 1 + i - 1]
    BY <2>1, <2>2, <1>3, SubSeqProperties
  <2>4. /\ Len(s) - (n + 1) + 1 = Len(s) - n /\ \A i \in 1 .. Len(s) - n : n + 1 + i - 1 = n + i
        /\ ~(n + 1 <= Len(s)) => Len(s) - n = 0
    BY <1>3
  <2> QED BY <2>3, <2>4
<1>7. DOMAIN r = 1 .. Len(r)
  BY <1>6, LenProperties
<1>8. Sound(got)
  <2> SUFFICES ASSUME NEW i \in 2 .. n PROVE Begins(got[i]) <=> Ends(got[i - 1])
    BY <1>4 DEF Sound
  <2>1. i \in 1 .. n /\ i - 1 \in 1 .. n /\ i \in 2 .. Len(s)
    BY <1>3
  <2> QED BY <2>1, <1>1, <1>4 DEF Sound
<1>9. Sound(r)
  <2> SUFFICES ASSUME NEW i \in 2 .. Len(s) - n PROVE Begins(r[i]) <=> Ends(r[i - 1])
    BY <1>6 DEF Sound
  <2>1. i \in 1 .. Len(s) - n /\ i - 1 \in 1 .. Len(s) - n /\ n + i \in 2 .. Len(s)
        /\ n + (i - 1) = n + i - 1
    BY <1>3
  <2>2. r[i] = s[n + i] /\ r[i - 1] = s[n + i - 1]
    BY <2>1, <1>6
  <2> QED BY <2>1, <2>2, <1>1 DEF Sound
<1>10. r # <<>> => Ends(r[Len(r)])
  <2> SUFFICES ASSUME r # <<>> PROVE Ends(r[Len(r)])
    OBVIOUS
  <2>1. Len(r) > 0 /\ Len(r) \in 1 .. Len(s) - n /\ n + Len(r) = Len(s) /\ Len(s) > 0
    BY <1>3, <1>6, EmptySeq
  <2>2. s # <<>> /\ r[Len(r)] = s[Len(s)]
    BY <2>1, <1>1, <1>6, EmptySeq
  <2> QED BY <2>2, <1>1
<1>11. got \o r = s
  <2> PICK t : t = got \o r
    OBVIOUS
  <2>1. /\ t \in Seq(Marks) /\ Len(t) = Len(s) /\ DOMAIN t = 1 .. Len(s)
        /\ \A i \in 1 .. n : t[i] = got[i]
        /\ \A i \in 1 .. Len(s) - n : t[n + i] = r[i]
    <3>1. /\ t \in Seq(Marks) /\ Len(t) = Len(got) + Len(r) /\ DOMAIN t = 1 .. Len(got) + Len(r)
          /\ \A i \in 1 .. Len(got) : t[i] = got[i]
          /\ \A i \in 1 .. Len(r) : t[Len(got) + i] = r[i]
      <4>1. got \in Seq(Marks) /\ r \in Seq(Marks)
        BY <1>4, <1>6
      <4> QED BY ONLY <4>1, t = got \o r, Glued
    <3>2. Len(got) = n /\ Len(r) = Len(s) - n /\ n + (Len(s) - n) = Len(s)
      BY <1>3, <1>4, <1>6
    <3> QED BY <3>1, <3>2
  <2>2. ASSUME NEW i \in 1 .. Len(s) PROVE t[i] = s[i]
    <3>1. CASE i <= n
      <4>1. i \in 1 .. n
        BY <3>1, <1>3
      <4> QED BY <4>1, <2>1, <1>4
    <3>2. CASE i > n
      <4> PICK j : j = i - n
        OBVIOUS
      <4>1. j \in 1 .. Len(s) - n /\ n + j = i
        BY <3>2, <1>3
      <4>2. t[n + j] = r[j]
        BY <4>1, <2>1
      <4>3. r[j] = s[n + j]
        BY <4>1, <1>6
      <4> QED BY <4>1, <4>2, <4>3
    <3>3. i <= n \/ i > n
      BY <1>3
    <3> QED BY <3>1, <3>2, <3>3
  <2> QED BY <2>1, <2>2, <1>1, SeqEqual
<1>12. \A i \in 1 .. n : i \in 1 .. Len(s)
  BY <1>3
<1>13. \A i \in 1 .. Len(r) : n + i \in 1 .. Len(s)
  BY <1>3, <1>6
<1> QED BY <1>1, <1>3, <1>4, <1>5, <1>6, <1>7, <1>8, <1>9, <1>10, <1>11, <1>12, <1>13 DEF Whole

-----------------------------------------------------------------------------
\* What never goes down: DGET, and SCNT on a connection of another kind.
Plain(s, k) == \A i \in DOMAIN s : s[i] # Mark("DGET") /\ (s[i] = Mark("SCNT") => k = "SCNT")

LEMMA PlainGlued ==
  ASSUME NEW k, NEW s \in Seq(Marks), NEW t \in Seq(Marks), Plain(s, k), Plain(t, k),
         NEW st, st = s \o t
  PROVE  Plain(st, k)
<1>1. /\ Len(s) \in Nat /\ Len(t) \in Nat
      /\ DOMAIN s = 1 .. Len(s) /\ DOMAIN t = 1 .. Len(t) /\ DOMAIN st = 1 .. Len(s) + Len(t)
      /\ \A i \in 1 .. Len(s) : st[i] = s[i]
      /\ \A i \in 1 .. Len(t) : st[Len(s) + i] = t[i]
  BY Glued
<1> SUFFICES ASSUME NEW i \in 1 .. Len(s) + Len(t)
             PROVE  st[i] # Mark("DGET") /\ (st[i] = Mark("SCNT") => k = "SCNT")
  BY <1>1 DEF Plain
<1>2. CASE i <= Len(s)
  <2>1. i \in 1 .. Len(s)
    BY <1>1, <1>2
  <2> QED BY <2>1, <1>1 DEF Plain
<1>3. CASE i > Len(s)
  <2> PICK j : j = i - Len(s)
    OBVIOUS
  <2>1. j \in 1 .. Len(t) /\ Len(s) + j = i
    BY <1>1, <1>3
  <2>2. st[Len(s) + j] = t[j]
    BY <2>1, <1>1
  <2> QED BY <2>1, <2>2, <1>1 DEF Plain
<1>4. i <= Len(s) \/ i > Len(s)
  BY <1>1
<1> QED BY <1>2, <1>3, <1>4

LEMMA PlainCut ==
  ASSUME NEW k, NEW s, Whole(s), Plain(s, k), NEW got \in Received(s), NEW r, r = Rest(s, got)
  PROVE  Plain(got, k) /\ Plain(r, k)
<1>1. /\ \A i \in DOMAIN got : i \in DOMAIN s /\ got[i] = s[i]
      /\ \A i \in DOMAIN r : Len(got) + i \in DOMAIN s /\ r[i] = s[Len(got) + i]
  BY Cut
<1> QED BY <1>1 DEF Plain

LEMMA PlainSigned ==
  ASSUME NEW k \in {"SCNT", "LCNT", "CNTL"}, NEW m \in {"ECYP", "BEAT", k}
  PROVE  Plain(Signed(m), k)
<1>1. m \in Names \ {"NETC", "CTEN", "DGET"}
  BY DEF Names
<1>2. /\ DOMAIN Signed(m) = 1 .. 3
      /\ Signed(m)[1] = Mark("NETC") /\ Signed(m)[2] = Mark(m) /\ Signed(m)[3] = Mark("CTEN")
  BY <1>1, SignedWhole
<1>3. \A i \in 1 .. 3 : i = 1 \/ i = 2 \/ i = 3
  OBVIOUS
<1>4. m # "DGET" /\ (m = "SCNT" => k = "SCNT")
  OBVIOUS
<1> QED BY <1>2, <1>3, <1>4, MarksDiffer DEF Plain

\* What of a talk is still to come, and how a talk goes on.
IsTail(s, t) == \E p \in Seq(Marks) : p \o s = t

LEMMA TailGlued ==
  ASSUME NEW s \in Seq(Marks), NEW t, IsTail(s, t), NEW u \in Seq(Marks)
  PROVE  IsTail(s \o u, t \o u)
<1>1. PICK p \in Seq(Marks) : p \o s = t
  BY DEF IsTail
<1>2. (p \o s) \o u = p \o (s \o u)
  BY ConcatAssociative
<1> QED BY <1>1, <1>2 DEF IsTail

LEMMA TailCut ==
  ASSUME NEW s \in Seq(Marks), NEW r \in Seq(Marks), NEW t, IsTail(s \o r, t)
  PROVE  IsTail(r, t)
<1>1. PICK p \in Seq(Marks) : p \o (s \o r) = t
  BY DEF IsTail
<1>2. (p \o s) \o r = p \o (s \o r) /\ p \o s \in Seq(Marks)
  BY ConcatAssociative, ConcatProperties
<1> QED BY <1>1, <1>2 DEF IsTail

\* What the server of a short connection has said by then.
Said(where) ==
  CASE where = "hello" -> <<>>
    [] where = "closed" -> Signed("SCNT") \o Signed("ECYP")
    [] OTHER -> Signed("SCNT")

\* The two messages of a short connection, mark by mark.
LEMMA SaidMarks ==
  ASSUME NEW where, NEW t, t = Said(where)
  PROVE  /\ t \in Seq(Marks) /\ Len(t) \in {0, 3, 6}
         /\ Len(t) > 0 => t[1] = Mark("NETC") /\ t[2] = Mark("SCNT") /\ t[3] = Mark("CTEN")
         /\ Len(t) > 3 => t[4] = Mark("NETC") /\ t[5] = Mark("ECYP") /\ t[6] = Mark("CTEN")
<1> PICK a, b : a = Signed("SCNT") /\ b = Signed("ECYP")
  OBVIOUS
<1>1. "SCNT" \in Names \ {"NETC", "CTEN", "DGET"} /\ "ECYP" \in Names \ {"NETC", "CTEN", "DGET"}
  BY DEF Names
<1>2. /\ a \in Seq(Marks) /\ Len(a) = 3
      /\ a[1] = Mark("NETC") /\ a[2] = Mark("SCNT") /\ a[3] = Mark("CTEN")
  BY <1>1, SignedWhole DEF Whole
<1>3. /\ b \in Seq(Marks) /\ Len(b) = 3
      /\ b[1] = Mark("NETC") /\ b[2] = Mark("ECYP") /\ b[3] = Mark("CTEN")
  BY <1>1, SignedWhole DEF Whole
<1>4. CASE where = "hello"
  <2>1. t = <<>>
    BY <1>4 DEF Said
  <2> QED BY <2>1, EmptySeq
<1>5. CASE where = "closed"
  <2>1. t = a \o b
    BY <1>5 DEF Said
  <2>2. /\ t \in Seq(Marks) /\ Len(t) = 3 + 3
        /\ \A i \in 1 .. 3 : t[i] = a[i]
        /\ \A i \in 1 .. 3 : t[3 + i] = b[i]
    <3>1. /\ t \in Seq(Marks) /\ Len(t) = Len(a) + Len(b)
          /\ \A i \in 1 .. Len(a) : t[i] = a[i]
          /\ \A i \in 1 .. Len(b) : t[Len(a) + i] = b[i]
      <4>1. a \in Seq(Marks) /\ b \in Seq(Marks)
        BY <1>2, <1>3
      <4> QED BY ONLY <4>1, <2>1, Glued
    <3> QED BY <3>1, <1>2, <1>3
  <2>3. t[1] = a[1] /\ t[2] = a[2] /\ t[3] = a[3]
    BY <2>2
  <2>4. t[3 + 1] = b[1] /\ t[3 + 2] = b[2] /\ t[3 + 3] = b[3]
    BY <2>2
  <2>5. t[4] = b[1] /\ t[5] = b[2] /\ t[6] = b[3]
    BY <2>4
  <2> QED BY <2>2, <2>3, <2>5, <1>2, <1>3
<1>6. CASE where # "hello" /\ where # "closed"
  <2>1. t = a
    BY <1>6 DEF Said
  <2>2. t \in Seq(Marks) /\ Len(t) = 3
    BY <2>1, <1>2
  <2>3. t[1] = Mark("NETC") /\ t[2] = Mark("SCNT") /\ t[3] = Mark("CTEN")
    BY <2>1, <1>2
  <2> QED BY <2>2, <2>3
<1> QED BY <1>4, <1>5, <1>6

\* Wherever the stream of a short connection was cut and glued: a block of it that
\* CheckRawMsg lets through and whose second mark is ECYP is the account, alone.
LEMMA AccountAlone ==
  ASSUME NEW where, NEW data \in Seq(Marks), NEW rest \in Seq(Marks),
         IsTail(data \o rest, Said(where)), Len(data) > 0,
         data[1] = Mark("NETC"), data[2] = Mark("ECYP"), data[Len(data)] = Mark("CTEN")
  PROVE  data = Signed("ECYP")
<1> PICK t, x : t = Said(where) /\ x = data \o rest
  OBVIOUS
<1>1. PICK p \in Seq(Marks) : p \o x = t
  BY DEF IsTail
<1>2. /\ t \in Seq(Marks) /\ Len(t) \in Nat /\ Len(t) <= 6 /\ Len(t) \in {0, 3, 6}
      /\ Len(t) > 0 => t[1] = Mark("NETC") /\ t[2] = Mark("SCNT") /\ t[3] = Mark("CTEN")
      /\ Len(t) > 3 => t[4] = Mark("NETC") /\ t[5] = Mark("ECYP") /\ t[6] = Mark("CTEN")
  <2>1. t \in Seq(Marks) /\ Len(t) \in {0, 3, 6}
    BY SaidMarks
  <2>2. Len(t) \in Nat /\ Len(t) <= 6
    <3> PICK k : k = Len(t)
      OBVIOUS
    <3>1. k \in {0, 3, 6}
      BY <2>1
    <3>2. k \in Nat /\ k <= 6
      BY ONLY <3>1
    <3> QED BY <3>2
  <2> QED BY <2>1, <2>2, SaidMarks
<1>3. /\ x \in Seq(Marks) /\ Len(data) \in Nat /\ Len(rest) \in Nat /\ Len(x) = Len(data) + Len(rest)
      /\ \A i \in 1 .. Len(data) : x[i] = data[i]
  BY ONLY x = data \o rest, data \in Seq(Marks), rest \in Seq(Marks), Glued
<1>4. /\ Len(p) \in Nat /\ Len(x) \in Nat /\ Len(t) = Len(p) + Len(x)
      /\ \A i \in 1 .. Len(x) : t[Len(p) + i] = x[i]
  <2>1. t = p \o x /\ x \in Seq(Marks) /\ p \in Seq(Marks)
    BY <1>1, <1>3
  <2> QED BY ONLY <2>1, Glued
<1> PICK n, m : n = Len(p) /\ m = Len(data)
  OBVIOUS
<1>5. n \in Nat /\ m \in Nat /\ m > 0 /\ n + m <= Len(t) /\ \A i \in 1 .. m : t[n + i] = data[i]
  <2>1. n \in Nat /\ m \in Nat /\ m > 0 /\ n + m <= Len(t) /\ m <= Len(x)
    BY <1>3, <1>4
  <2>2. ASSUME NEW i \in 1 .. m PROVE t[n + i] = data[i]
    <3>1. i \in 1 .. Len(x) /\ i \in 1 .. Len(data)
      BY <2>1, <1>3
    <3>2. t[n + i] = x[i]
      BY <3>1, <1>4
    <3>3. x[i] = data[i]
      BY <3>1, <1>3
    <3> QED BY <3>2, <3>3
  <2> QED BY <2>1, <2>2
<1> PICK ne, sc, ct, ec : ne = Mark("NETC") /\ sc = Mark("SCNT") /\ ct = Mark("CTEN") /\ ec = Mark("ECYP")
  OBVIOUS
<1>6. ne # sc /\ ne # ct /\ ne # ec /\ sc # ct /\ sc # ec /\ ct # ec
  BY MarksDiffer
<1>7. data[1] = ne /\ data[2] = ec /\ data[m] = ct
  OBVIOUS
<1>8. n = 3 /\ m = 3
  <2>1. /\ Len(t) = 0 \/ Len(t) = 3 \/ Len(t) = 6
        /\ Len(t) > 0 => t[1] = ne /\ t[2] = sc /\ t[3] = ct
        /\ Len(t) > 3 => t[4] = ne /\ t[5] = ec /\ t[6] = ct
    BY <1>2
  <2>2. m # 1
    BY <1>6, <1>7
  <2>3. 1 \in 1 .. m /\ 2 \in 1 .. m /\ m \in 1 .. m
    BY <2>2, <1>5
  <2>4. t[n + 1] = ne /\ t[n + 2] = ec /\ t[n + m] = ct
    <3>1. t[n + 1] = data[1]
      BY <2>3, <1>5
    <3>2. t[n + 2] = data[2]
      BY <2>3, <1>5
    <3>3. t[n + m] = data[m]
      BY <2>3, <1>5
    <3> QED BY <3>1, <3>2, <3>3, <1>7
  <2>5. n = 0 \/ n = 1 \/ n = 2 \/ n = 3 \/ n = 4
    <3>1. n \in Nat /\ m \in Nat /\ m > 1 /\ n + m <= 6
      <4>1. Len(t) \in Nat /\ Len(t) <= 6
        BY <1>2
      <4>2. n \in Nat /\ m \in Nat /\ m > 0 /\ n + m <= Len(t)
        BY <1>5
      <4> QED BY ONLY <4>1, <4>2, <2>2
    <3> QED BY ONLY <3>1
  <2>6. n # 0
    <3> SUFFICES ASSUME n = 0 PROVE FALSE
      OBVIOUS
    <3>1. n + 2 = 2 /\ Len(t) > 0
      BY <1>5
    <3> QED BY <3>1, <2>1, <2>4, <1>6
  <2>7. n # 1
    <3> SUFFICES ASSUME n = 1 PROVE FALSE
      OBVIOUS
    <3>1. n + 1 = 2 /\ Len(t) > 0
      BY <1>5
    <3> QED BY <3>1, <2>1, <2>4, <1>6
  <2>8. n # 2
    <3> SUFFICES ASSUME n = 2 PROVE FALSE
      OBVIOUS
    <3>1. n + 1 = 3 /\ Len(t) > 0
      BY <1>5
    <3> QED BY <3>1, <2>1, <2>4, <1>6
  <2>9. n # 4
    <3> SUFFICES ASSUME n = 4 PROVE FALSE
      OBVIOUS
    <3>1. n + 1 = 5 /\ Len(t) > 3
      BY <2>2, <1>5
    <3> QED BY <3>1, <2>1, <2>4, <1>6
  <2>10. n = 3
    BY <2>5, <2>6, <2>7, <2>8, <2>9
  <2>11. m = 2 \/ m = 3
    <3>1. Len(t) \in Nat /\ Len(t) <= 6
      BY <1>2
    <3>2. m \in Nat /\ m > 0 /\ 3 + m <= Len(t)
      BY <2>10, <1>5
    <3> QED BY ONLY <3>1, <3>2, <2>2
  <2>12. m # 2
    BY <1>6, <1>7
  <2> QED BY <2>10, <2>11, <2>12
<1>9. data[1] = Mark("NETC") /\ data[2] = Mark("ECYP") /\ data[3] = Mark("CTEN")
  BY <1>7, <1>8
<1>10. "ECYP" \in Names \ {"NETC", "CTEN", "DGET"}
  BY DEF Names
<1> PICK a : a = Signed("ECYP")
  OBVIOUS
<1>11. /\ a \in Seq(Marks) /\ Len(a) = 3
       /\ a[1] = Mark("NETC") /\ a[2] = Mark("ECYP") /\ a[3] = Mark("CTEN")
  BY <1>10, SignedWhole DEF Whole
<1>12. \A i \in 1 .. 3 : i = 1 \/ i = 2 \/ i = 3
  OBVIOUS
<1>13. Len(data) = Len(a) /\ \A i \in 1 .. Len(data) : data[i] = a[i]
  BY <1>8, <1>9, <1>11, <1>12
<1> QED BY <1>11, <1>13, SeqEqual

-----------------------------------------------------------------------------
(* The locals of a call.                                                   *)

Calls == [data: Seq(Marks), null: BOOLEAN, bdtas: Nat, dsat: BOOLEAN, dfsh: BOOLEAN]

LEMMA FreshCall ==
  /\ Fresh \in Calls /\ Fresh.data = <<>> /\ Fresh.null = TRUE /\ Fresh.bdtas = 0
  /\ Fresh.dsat = FALSE
BY EmptySeq DEF Fresh, Calls

\* A round of RecvRAW_SM of a call that has nothing: a message that begins with its
\* head is kept whole and ends the call, anything else is counted and lost.
Idle(c) == c.data = <<>> /\ c.null = TRUE /\ c.dsat = FALSE
Holds(c, got) == c.data = got /\ c.null = FALSE /\ c.dsat = TRUE

LEMMA Round ==
  ASSUME NEW c \in Calls, Idle(c), NEW got \in Seq(Marks), Len(got) > 0, NEW d, d = Step(c, got)
  PROVE  /\ d \in Calls /\ d.bdtas = c.bdtas + Len(got)
         /\ got[1] = Mark("NETC") => Holds(d, got) /\ d.dfsh = TRUE
         /\ got[1] # Mark("NETC") => Idle(d) /\ d.dfsh = FALSE
<1>0. c.dsat = FALSE /\ c.null = TRUE /\ c.data = <<>>
  BY DEF Idle
<1>1. Len(got) \in Nat /\ c.bdtas \in Nat /\ got[1] \in Marks /\ got[Len(got)] \in Marks
  <2>1. Len(got) \in Nat /\ 1 \in 1 .. Len(got) /\ Len(got) \in 1 .. Len(got)
    BY LenProperties
  <2> QED BY <2>1, ElementOfSeq DEF Calls
<1>2. \A e \in Marks : e # Mark("DSAT") /\ e # Mark("DFSH")
  BY MarksDiffer DEF Marks, Names
<1>3. Last(got) = got[Len(got)]
  BY DEF Last
<1>4. c.bdtas + Len(got) \in Nat /\ <<>> \in Seq(Marks)
  BY <1>1, EmptySeq
<1>5. CASE got[1] = Mark("NETC")
  <2>1. d = [data |-> got, null |-> FALSE, bdtas |-> c.bdtas + Len(got), dsat |-> TRUE, dfsh |-> TRUE]
    BY <1>0, <1>5 DEF Step
  <2> QED BY <2>1, <1>4, <1>5 DEF Calls, Holds
<1>6. CASE got[1] # Mark("NETC")
  <2>1. got[1] # Mark("DSAT") /\ Last(got) # Mark("DFSH")
    BY <1>1, <1>2, <1>3
  <2>2. d = [data |-> <<>>, null |-> TRUE, bdtas |-> c.bdtas + Len(got), dsat |-> FALSE, dfsh |-> FALSE]
    BY <1>0, <1>6, <2>1 DEF Step
  <2> QED BY <2>2, <1>4, <1>6 DEF Calls, Idle
<1> QED BY <1>5, <1>6

\* A round of RecvRAW keeps everything.
LEMMA Kept ==
  ASSUME NEW c \in Calls, NEW got \in Seq(Marks), NEW d, d = Store(c, got)
  PROVE  /\ d \in Calls /\ d.data = c.data \o got /\ d.bdtas = c.bdtas + Len(got)
         /\ Len(d.data) = Len(c.data) + Len(got)
<1>1. c.data \in Seq(Marks) /\ c.bdtas \in Nat /\ Len(got) \in Nat
  BY LenProperties DEF Calls
<1> PICK x : x = c.data \o got
  OBVIOUS
<1>2. x \in Seq(Marks) /\ Len(x) = Len(c.data) + Len(got)
  BY <1>1, Glued
<1>3. d = [c EXCEPT !.data = x, !.null = FALSE, !.bdtas = c.bdtas + Len(got)]
  BY DEF Store
<1>4. c.bdtas + Len(got) \in Nat
  BY <1>1
<1>5. d \in Calls /\ d.data = x /\ d.bdtas = c.bdtas + Len(got)
  BY <1>2, <1>3, <1>4 DEF Calls
<1> QED BY <1>2, <1>5

\* What CheckRawMsg lets through of a sound stream is one or more whole messages.
LEMMA LetThrough ==
  ASSUME NEW data \in Seq(Marks), NEW n, n = Len(data), CheckRawMsg(data, n)
  PROVE  /\ data # <<>> /\ Begins(data[1]) /\ Ends(Last(data)) /\ 2 \in DOMAIN data
         /\ Len(data) > 0 /\ data[1] = Mark("NETC") /\ data[Len(data)] = Mark("CTEN")
<1>1. n > 0 /\ data[1] = Mark("NETC") /\ data[n] = Mark("CTEN") /\ n \in Nat /\ DOMAIN data = 1 .. n
  BY LenProperties DEF CheckRawMsg
<1>2. n # 1
  BY <1>1, MarksDiffer
<1>3. 2 \in 1 .. n /\ data # <<>>
  BY <1>1, <1>2, EmptySeq
<1>4. Last(data) = data[n]
  BY DEF Last
<1> QED BY <1>1, <1>3, <1>4 DEF Begins, Ends

-----------------------------------------------------------------------------
(* What the sends and the recvs leave of the streams.                      *)

LEMMA SentDown ==
  ASSUME NEW k \in {"SCNT", "LCNT", "CNTL"}, NEW m \in {"ECYP", "BEAT", k},
         NEW s, Whole(s), Plain(s, k), NEW st, st = s \o Signed(m)
  PROVE  Whole(st) /\ Plain(st, k) /\ st \in Seq(Marks)
<1> PICK t : t = Signed(m)
  OBVIOUS
<1>1. m \in Names \ {"NETC", "CTEN", "DGET"}
  BY DEF Names
<1>2. Whole(t) /\ t # <<>> /\ Begins(t[1])
  BY <1>1, SignedWhole DEF Begins
<1>3. Whole(st)
  BY <1>2, SentWhole
<1>4. s \in Seq(Marks) /\ t \in Seq(Marks) /\ Plain(t, k) /\ st = s \o t
  BY <1>2, PlainSigned DEF Whole
<1>5. Plain(st, k)
  BY ONLY <1>4, Plain(s, k), PlainGlued
<1> QED BY <1>3, <1>5 DEF Whole

LEMMA SentUp ==
  ASSUME NEW s, Whole(s), NEW st, st = s \o DGET \/ st = s \o Signed("PING")
  PROVE  Whole(st)
<1>1. "PING" \in Names \ {"NETC", "CTEN", "DGET"}
  BY DEF Names
<1>2. CASE st = s \o DGET
  <2> PICK t : t = DGET
    OBVIOUS
  <2>1. Whole(t) /\ t # <<>> /\ Begins(t[1]) /\ st = s \o t
    BY <1>2, DGETWhole DEF Begins
  <2> QED BY <2>1, SentWhole
<1>3. CASE st = s \o Signed("PING")
  <2> PICK t : t = Signed("PING")
    OBVIOUS
  <2>1. Whole(t) /\ t # <<>> /\ Begins(t[1]) /\ st = s \o t
    BY <1>1, <1>3, SignedWhole DEF Begins
  <2> QED BY <2>1, SentWhole
<1> QED BY <1>2, <1>3

\* Nothing is received of an empty stream.
LEMMA NothingToReceive ==
  ASSUME NEW s, s = <<>>, NEW got \in Received(s)
  PROVE  FALSE
BY DEF Received

-----------------------------------------------------------------------------
(* The inductive invariant of a connection.                                *)

ConnTyped == kind \in {"SCNT", "LCNT", "CNTL"} /\ call \in Calls

Streams == Whole(down) /\ Whole(up) /\ Plain(down, kind)

\* A thread of the server goes through the states of its kind of connection only.
Where == (server = "beat" => kind = "LCNT") /\ (server = "listen" => kind = "CNTL")

\* A call of RecvRAW_SM that has not seen the head of a message has nothing to show.
Blank ==
  InSM /\ ~call.dsat =>
    call.null = TRUE /\ call.data = <<>> /\ (torn \/ call.bdtas = 0)

\* One that has is over, and counts more than it holds only if TCP cut a message.
Block ==
  InSM /\ call.dsat =>
    /\ returned /\ call.null = FALSE /\ Sound(call.data) /\ Plain(call.data, kind)
    /\ Len(call.data) <= call.bdtas /\ (torn \/ call.bdtas = Len(call.data))

Raw == client = "short" => kind = "SCNT" /\ call.bdtas = Len(call.data)

\* Until the client has seen a message nobody has closed the connection on it.
Waits ==
  client = "first" /\ ~call.dsat =>
    up = <<>> /\ server # "closed" /\ (returned => expired)

\* What connectionDeamon has not dealt with yet is the end of what was said to it.
Unread == IF client = "short" THEN call.data \o down ELSE down
Account == kind = "SCNT" => IsTail(Unread, Said(server))

Calling == Blank /\ Block /\ Raw /\ Waits
Outcome == AcceptedWhole /\ (registered => client = "short") /\ ReadableUnlessCut
ConnInv == ConnTyped /\ Streams /\ Where /\ Calling /\ Account /\ Outcome

LEMMA ConnInitially == ConnSpec => ConnInv
<1> SUFFICES ASSUME ConnInit PROVE ConnInv
  BY DEF ConnSpec
<1>1. ConnTyped
  BY ConnectionAssumption, FreshCall DEF ConnInit, ConnTyped
<1>2. Streams
  <2>1. \A s : s = <<>> => s \in Seq(Marks) /\ Len(s) = 0 /\ DOMAIN s = {}
    BY EmptySeq
  <2>2. \A s : s = <<>> => Whole(s) /\ Plain(s, kind)
    BY <2>1 DEF Whole, Sound, Plain
  <2> QED BY <2>2 DEF ConnInit, Streams
<1>3. Where
  BY DEF ConnInit, Where
<1>4. Calling
  BY FreshCall DEF ConnInit, Calling, Blank, Block, Raw, Waits, InSM
<1>5. Account
  <2> PICK e : e = <<>>
    OBVIOUS
  <2>1. e \in Seq(Marks) /\ e \o e = e
    BY EmptySeq, ConcatEmptySeq
  <2>2. IsTail(e, e)
    BY <2>1 DEF IsTail
  <2>3. Unread = e /\ Said(server) = e
    BY DEF ConnInit, Unread, Said
  <2> QED BY <2>2, <2>3 DEF Account
<1>6. Outcome
  BY DEF ConnInit, Outcome, AcceptedWhole, ReadableUnlessCut
<1> QED BY <1>1, <1>2, <1>3, <1>4, <1>5, <1>6 DEF ConnInv

\* The next call begins with nothing.
LEMMA CallsAfresh ==
  NextCall /\ (client' = "short" => kind' = "SCNT") => call' \in Calls /\ Blank' /\ Block' /\ Raw'
<1> SUFFICES ASSUME NextCall, client' = "short" => kind' = "SCNT"
             PROVE  call' \in Calls /\ Blank' /\ Block' /\ Raw'
  OBVIOUS
<1>1. call' \in Calls /\ call'.data = <<>> /\ call'.null = TRUE /\ call'.bdtas = 0 /\ call'.dsat = FALSE
  BY FreshCall DEF NextCall
<1>2. Len(<<>>) = 0
  OBVIOUS
<1> QED BY <1>1, <1>2 DEF Blank, Block, Raw, InSM

\* The server of a short connection adds to what it has said: what its client has not
\* dealt with yet goes on to be the end of it.
LEMMA AccountGoesOn ==
  ASSUME ConnTyped, Streams, Account,
         NEW t \in Seq(Marks), down' = down \o t, UNCHANGED <<kind, client, call>>,
         kind = "SCNT" => Said(server)' = Said(server) \o t
  PROVE  Account'
<1> SUFFICES ASSUME kind = "SCNT" PROVE IsTail(Unread', Said(server)')
  BY DEF Account
<1> PICK d, s, w : d = call.data /\ s = down /\ w = Said(server)
  OBVIOUS
<1>1. d \in Seq(Marks) /\ s \in Seq(Marks)
  BY DEF ConnTyped, Calls, Streams, Whole
<1>2. CASE client = "short"
  <2> PICK u : u = d \o s
    OBVIOUS
  <2>1. u \in Seq(Marks) /\ IsTail(u, w)
    BY <1>1, <1>2, ConcatProperties DEF Account, Unread
  <2>2. IsTail(u \o t, w \o t)
    BY ONLY <2>1, t \in Seq(Marks), TailGlued
  <2>3. (d \o s) \o t = d \o (s \o t)
    BY ONLY <1>1, t \in Seq(Marks), ConcatAssociative
  <2>4. Unread' = d \o (s \o t)
    BY <1>2 DEF Unread
  <2>5. u \o t = d \o (s \o t)
    BY <2>3
  <2> QED BY <2>2, <2>4, <2>5
<1>3. CASE client # "short"
  <2>1. IsTail(s, w)
    BY <1>3 DEF Account, Unread
  <2>2. IsTail(s \o t, w \o t)
    BY ONLY <1>1, <2>1, t \in Seq(Marks), TailGlued
  <2>3. Unread' = s \o t
    BY <1>3 DEF Unread
  <2> QED BY <2>2, <2>3
<1> QED BY <1>2, <1>3

-----------------------------------------------------------------------------
(* Every step keeps it.  First the steps of the server.                    *)

LEMMA KeptByHello == ConnInv /\ Hello => ConnInv'
<1> SUFFICES ASSUME ConnInv, Hello PROVE ConnInv'
  OBVIOUS
<1>0. ConnTyped /\ Streams /\ Where /\ Calling /\ Account /\ Outcome
  BY DEF ConnInv
<1>1. /\ server = "hello" /\ down' = down \o Signed(kind)
      /\ server' = CASE kind = "SCNT" -> "reply" [] kind = "LCNT" -> "beat" [] kind = "CNTL" -> "listen"
      /\ UNCHANGED <<kind, up, client, call, returned, registered, if_beat, pinged, posts, taken, torn, merged, expired>>
  BY DEF Hello, reading, outcome, network
<1>2. kind \in {"SCNT", "LCNT", "CNTL"}
  BY <1>0 DEF ConnTyped
<1>3. Streams'
  <2> PICK k, s, st : k = kind /\ s = down /\ st = down'
    OBVIOUS
  <2>1. k \in {"SCNT", "LCNT", "CNTL"} /\ k \in {"ECYP", "BEAT", k} /\ Whole(s) /\ Plain(s, k) /\ st = s \o Signed(k)
    BY <1>0, <1>1, <1>2 DEF Streams
  <2>2. Whole(st) /\ Plain(st, k)
    BY ONLY <2>1, SentDown
  <2> QED BY <2>2, <1>0, <1>1 DEF Streams
<1>4. Where'
  BY <1>1, <1>2 DEF Where
<1>5. Calling'
  <2>1. server' # "closed"
    BY <1>1, <1>2
  <2> QED BY <2>1, <1>0, <1>1 DEF Calling, Blank, Block, Raw, Waits, InSM
<1>6. Account'
  <2> PICK t : t = Signed(kind)
    OBVIOUS
  <2>1. t \in Seq(Marks)
    BY <1>2, SignedWhole DEF Names, Whole
  <2>2. kind = "SCNT" => Said(server) = <<>> /\ Said(server)' = t
    BY <1>1 DEF Said
  <2>3. <<>> \o t = t
    BY <2>1, ConcatEmptySeq
  <2> QED BY <1>0, <1>1, <2>1, <2>2, <2>3, AccountGoesOn
<1>7. Outcome'
  BY <1>0, <1>1 DEF Outcome, AcceptedWhole, ReadableUnlessCut
<1> QED BY <1>0, <1>1, <1>3, <1>4, <1>5, <1>6, <1>7 DEF ConnInv, ConnTyped

\* What Boundaries says of the marks a recv returns.
LEMMA Marked ==
  ASSUME NEW got, Boundaries(got)
  PROVE  (torn => torn') /\ (Begins(got[1]) \/ torn') /\ expired' = expired
BY DEF Boundaries

LEMMA KeptByReply == ConnInv /\ Reply => ConnInv'
<1> SUFFICES ASSUME ConnInv, Reply PROVE ConnInv'
  OBVIOUS
<1>0. ConnTyped /\ Streams /\ Where /\ Calling /\ Account /\ Outcome
  BY DEF ConnInv
<1>1. /\ server = "reply" /\ down' = down \o Signed("ECYP") /\ server' = "closed"
      /\ UNCHANGED <<kind, client, call, returned, registered, if_beat, pinged, posts, taken>>
  BY DEF Reply, reading, outcome
<1>2. PICK got \in Received(up) : up' = Rest(up, got) /\ Boundaries(got)
  BY DEF Reply
<1>3. (torn => torn') /\ expired' = expired
  BY <1>2, Marked
<1>4. up # <<>>
  BY NothingToReceive
<1>5. kind \in {"SCNT", "LCNT", "CNTL"}
  BY <1>0 DEF ConnTyped
<1>6. Streams'
  <2> PICK k, m, s, st, u, g, ur :
        k = kind /\ m = "ECYP" /\ s = down /\ st = down' /\ u = up /\ g = got /\ ur = up'
    OBVIOUS
  <2>1. k \in {"SCNT", "LCNT", "CNTL"} /\ m \in {"ECYP", "BEAT", k} /\ Whole(s) /\ Plain(s, k) /\ st = s \o Signed(m)
    BY <1>0, <1>1, <1>5 DEF Streams
  <2>2. Whole(st) /\ Plain(st, k)
    BY ONLY <2>1, SentDown
  <2>3. Whole(u) /\ g \in Received(u) /\ ur = Rest(u, g)
    BY <1>0, <1>2 DEF Streams
  <2>4. Whole(ur)
    BY ONLY <2>3, Cut
  <2> QED BY <2>2, <2>4, <1>1 DEF Streams
<1>7. Where'
  BY <1>1 DEF Where
<1>8. Calling'
  BY <1>0, <1>1, <1>3, <1>4 DEF Calling, Blank, Block, Raw, Waits, InSM
<1>9. Account'
  <2> PICK t : t = Signed("ECYP")
    OBVIOUS
  <2>1. t \in Seq(Marks)
    BY SignedWhole DEF Names, Whole
  <2>2. Said(server) = Signed("SCNT") /\ Said(server)' = Signed("SCNT") \o t
    BY <1>1 DEF Said
  <2> QED BY <1>0, <1>1, <2>1, <2>2, AccountGoesOn
<1>10. Outcome'
  BY <1>0, <1>1, <1>3 DEF Outcome, AcceptedWhole, ReadableUnlessCut
<1> QED BY <1>0, <1>1, <1>6, <1>7, <1>8, <1>9, <1>10 DEF ConnInv, ConnTyped

LEMMA KeptByNoReply == ConnInv /\ NoReply => ConnInv'
<1> SUFFICES ASSUME ConnInv, NoReply PROVE ConnInv'
  OBVIOUS
<1>0. ConnTyped /\ Streams /\ Where /\ Calling /\ Account /\ Outcome
  BY DEF ConnInv
<1>1. /\ server = "reply" /\ server' = "failed" /\ expired' = TRUE
      /\ UNCHANGED <<kind, down, up, client, call, returned, registered, if_beat, pinged, posts, taken, torn, merged>>
  BY DEF NoReply, sockets, reading, outcome
<1>2. Where'
  BY <1>1 DEF Where
<1>3. Calling'
  BY <1>0, <1>1 DEF Calling, Blank, Block, Raw, Waits, InSM
<1>4. Account'
  <2>1. Said(server)' = Said(server) /\ Unread' = Unread
    BY <1>1 DEF Said, Unread
  <2> QED BY <2>1, <1>0, <1>1 DEF Account
<1>5. Outcome'
  BY <1>0, <1>1 DEF Outcome, AcceptedWhole, ReadableUnlessCut
<1> QED BY <1>0, <1>1, <1>2, <1>3, <1>4, <1>5 DEF ConnInv, ConnTyped, Streams

\* What a reset drops stays unread.
LEMMA KeptByReset == ConnInv /\ Reset => ConnInv'
<1> SUFFICES ASSUME ConnInv, Reset PROVE ConnInv'
  OBVIOUS
<1>1. UNCHANGED <<kind, down, up, server, client, call, returned, registered, taken, torn, expired>>
  BY DEF Reset, sockets, reading, outcome
<1>2. ConnTyped' /\ Streams' /\ Where'
  BY <1>1 DEF ConnInv, ConnTyped, Streams, Where
<1>3. Calling'
  BY <1>1 DEF ConnInv, Calling, Blank, Block, Raw, Waits, InSM
<1>4. Account'
  BY <1>1 DEF ConnInv, Account, Unread, Said
<1>5. Outcome'
  BY <1>1 DEF ConnInv, Outcome, AcceptedWhole, ReadableUnlessCut
<1> QED BY <1>2, <1>3, <1>4, <1>5 DEF ConnInv

LEMMA KeptByBeat == ConnInv /\ Beat => ConnInv'
<1> SUFFICES ASSUME ConnInv, Beat PROVE ConnInv'
  OBVIOUS
<1>0. ConnTyped /\ Streams /\ Where /\ Calling /\ Account /\ Outcome
  BY DEF ConnInv
<1>1. /\ server = "beat" /\ down' = down \o Signed("BEAT")
      /\ UNCHANGED <<kind, up, server, client, call, returned, registered, if_beat, pinged, posts, taken, torn, merged, expired>>
  BY DEF Beat, reading, outcome, network
<1>2. kind \in {"SCNT", "LCNT", "CNTL"} /\ kind # "SCNT"
  BY <1>0, <1>1 DEF ConnTyped, Where
<1>3. Streams'
  <2> PICK k, m, s, st : k = kind /\ m = "BEAT" /\ s = down /\ st = down'
    OBVIOUS
  <2>1. k \in {"SCNT", "LCNT", "CNTL"} /\ m \in {"ECYP", "BEAT", k} /\ Whole(s) /\ Plain(s, k) /\ st = s \o Signed(m)
    BY <1>0, <1>1, <1>2 DEF Streams
  <2>2. Whole(st) /\ Plain(st, k)
    BY ONLY <2>1, SentDown
  <2> QED BY <2>2, <1>0, <1>1 DEF Streams
<1>4. Calling' /\ Where' /\ Account' /\ Outcome'
  <2>1. Calling'
    BY <1>0, <1>1 DEF Calling, Blank, Block, Raw, Waits, InSM
  <2>2. Where' /\ Account'
    BY <1>0, <1>1, <1>2 DEF Where, Account
  <2>3. Outcome'
    BY <1>0, <1>1 DEF Outcome, AcceptedWhole, ReadableUnlessCut
  <2> QED BY <2>1, <2>2, <2>3
<1> QED BY <1>0, <1>1, <1>3, <1>4 DEF ConnInv, ConnTyped

LEMMA KeptByListen == ConnInv /\ Listen => ConnInv'
<1> SUFFICES ASSUME ConnInv, Listen PROVE ConnInv'
  OBVIOUS
<1>0. ConnTyped /\ Streams /\ Where /\ Calling /\ Account /\ Outcome
  BY DEF ConnInv
<1>1. /\ server = "listen"
      /\ UNCHANGED <<kind, down, server, client, call, returned, registered, if_beat, posts>>
  BY DEF Listen, reading
<1>2. PICK got \in Received(up) :
        /\ up' = Rest(up, got) /\ Boundaries(got)
        /\ (CheckRawMsg(got, Len(got)) /\ taken' = got) \/ taken' = taken
  BY DEF Listen
<1>3. (torn => torn') /\ expired' = expired
  BY <1>2, Marked
<1>4. up # <<>>
  BY NothingToReceive
<1>5. kind # "SCNT" /\ ~registered
  BY <1>0, <1>1 DEF Where, Calling, Raw, Outcome
<1>6. /\ Whole(up') /\ got \in Seq(Marks) /\ Sound(got)
  <2> PICK u, g, ur : u = up /\ g = got /\ ur = up'
    OBVIOUS
  <2>1. Whole(u) /\ g \in Received(u) /\ ur = Rest(u, g)
    BY <1>0, <1>2 DEF Streams
  <2>2. Whole(ur) /\ g \in Seq(Marks) /\ Sound(g)
    BY ONLY <2>1, Cut
  <2> QED BY <2>2
<1>7. Streams' /\ Where' /\ Account'
  BY <1>0, <1>1, <1>5, <1>6 DEF Streams, Where, Account
<1>8. Calling'
  BY <1>0, <1>1, <1>3, <1>4 DEF Calling, Blank, Block, Raw, Waits, InSM
<1>9. Outcome'
  <2>1. CASE taken' = taken
    BY <2>1, <1>0, <1>1, <1>3 DEF Outcome, AcceptedWhole, ReadableUnlessCut
  <2>2. CASE CheckRawMsg(got, Len(got)) /\ taken' = got
    <3>1. Begins(got[1]) /\ Ends(Last(got))
      BY <2>2, <1>6, LetThrough
    <3>2. AcceptedWhole'
      BY <2>2, <3>1, <1>1, <1>5, <1>6 DEF AcceptedWhole, Sound
    <3> QED BY <3>2, <1>0, <1>1, <1>3 DEF Outcome, ReadableUnlessCut
  <2> QED BY <2>1, <2>2, <1>2
<1> QED BY <1>0, <1>1, <1>7, <1>8, <1>9 DEF ConnInv, ConnTyped

-----------------------------------------------------------------------------
(* The steps of the client.                                                *)

\* What a recv of the client takes and leaves.
LEMMA TakenDown ==
  ASSUME Streams, NEW got \in Received(down), down' = Rest(down, got)
  PROVE  /\ got \in Seq(Marks) /\ Len(got) > 0 /\ Len(got) \in Nat /\ Sound(got) /\ Plain(got, kind)
         /\ got[1] # Mark("DGET")
         /\ Whole(down') /\ down' \in Seq(Marks) /\ Plain(down', kind) /\ got \o down' = down
<1> PICK k, s, g, r : k = kind /\ s = down /\ g = got /\ r = down'
  OBVIOUS
<1>1. Whole(s) /\ g \in Received(s) /\ r = Rest(s, g) /\ Plain(s, k)
  BY DEF Streams
<1>2. /\ g \in Seq(Marks) /\ Len(g) > 0 /\ Len(g) \in Nat /\ Sound(g) /\ DOMAIN g = 1 .. Len(g)
      /\ Whole(r) /\ g \o r = s
  BY ONLY <1>1, Cut
<1>3. Plain(g, k) /\ Plain(r, k)
  BY ONLY <1>1, PlainCut
<1>4. g[1] # Mark("DGET")
  <2>1. 1 \in DOMAIN g
    BY <1>2
  <2> QED BY <2>1, <1>3 DEF Plain
<1> QED BY <1>2, <1>3, <1>4 DEF Whole

LEMMA KeptByRecvRAW_SM == ConnInv /\ RecvRAW_SM => ConnInv'
<1> SUFFICES ASSUME ConnInv, RecvRAW_SM PROVE ConnInv'
  OBVIOUS
<1>0. ConnTyped /\ Streams /\ Where /\ Calling /\ Account /\ Outcome
  BY DEF ConnInv
<1>1. /\ InSM /\ ~returned /\ returned' = call'.dfsh
      /\ UNCHANGED <<kind, server, client, registered, if_beat, pinged, posts, taken>>
  BY DEF RecvRAW_SM, outcome
<1>2. PICK got \in Received(down) :
        /\ down' = Rest(down, got) /\ call' = Step(call, got) /\ Boundaries(got)
        /\ \/ call'.dsat /\ up' = up \o DGET
           \/ ~call'.dsat /\ up' = up
  BY DEF RecvRAW_SM
<1>3. (torn => torn') /\ (Begins(got[1]) \/ torn') /\ expired' = expired
  BY <1>2, Marked
<1>4. /\ got \in Seq(Marks) /\ Len(got) > 0 /\ Len(got) \in Nat /\ Sound(got) /\ Plain(got, kind)
      /\ got[1] # Mark("DGET")
      /\ Whole(down') /\ down' \in Seq(Marks) /\ Plain(down', kind) /\ got \o down' = down
  BY <1>0, <1>2, TakenDown
<1>5. ~call.dsat
  BY <1>0, <1>1 DEF Calling, Block
<1>6. call \in Calls /\ call.dsat = FALSE /\ call.null = TRUE /\ call.data = <<>> /\ call.bdtas \in Nat
      /\ (torn \/ call.bdtas = 0)
  BY <1>0, <1>1, <1>5 DEF Calling, Blank, ConnTyped, Calls
<1>7. /\ call' \in Calls /\ call'.bdtas = call.bdtas + Len(got)
      /\ got[1] = Mark("NETC") =>
           call'.data = got /\ call'.null = FALSE /\ call'.dsat = TRUE /\ call'.dfsh = TRUE
      /\ got[1] # Mark("NETC") =>
           call'.data = <<>> /\ call'.null = TRUE /\ call'.dsat = FALSE /\ call'.dfsh = FALSE
  <2> PICK c, d, g : c = call /\ d = call' /\ g = got
    OBVIOUS
  <2>1. c \in Calls /\ Idle(c) /\ g \in Seq(Marks) /\ Len(g) > 0 /\ d = Step(c, g)
    BY <1>2, <1>4, <1>6 DEF Idle
  <2>2. /\ d \in Calls /\ d.bdtas = c.bdtas + Len(g)
        /\ g[1] = Mark("NETC") => Holds(d, g) /\ d.dfsh = TRUE
        /\ g[1] # Mark("NETC") => Idle(d) /\ d.dfsh = FALSE
    BY ONLY <2>1, Round
  <2> QED BY <2>2 DEF Holds, Idle
<1>8. Streams'
  <2>1. Whole(up')
    <3> PICK u, ut : u = up /\ ut = up'
      OBVIOUS
    <3>1. Whole(u) /\ (ut = u \o DGET \/ ut = u)
      BY <1>0, <1>2 DEF Streams
    <3>2. Whole(ut)
      BY ONLY <3>1, SentUp
    <3> QED BY <3>2
  <2> QED BY <2>1, <1>1, <1>4 DEF Streams
<1>9. Calling'
  <2>1. CASE got[1] = Mark("NETC")
    <3>1. torn' \/ call'.bdtas = Len(got)
      BY <1>3, <1>4, <1>6, <1>7
    <3>2. Len(got) <= call'.bdtas
      BY <1>4, <1>6, <1>7
    <3>3. Blank' /\ Waits'
      BY <2>1, <1>7 DEF Blank, Waits
    <3>4. Block'
      BY <2>1, <3>1, <3>2, <1>1, <1>4, <1>7 DEF Block
    <3>5. Raw'
      BY <1>1 DEF Raw, InSM
    <3> QED BY <3>3, <3>4, <3>5 DEF Calling
  <2>2. CASE got[1] # Mark("NETC")
    <3>1. torn'
      BY <2>2, <1>3, <1>4 DEF Begins
    <3>2. up' = up /\ ~returned'
      BY <2>2, <1>1, <1>2, <1>7
    <3>3. Blank'
      BY <2>2, <3>1, <1>7 DEF Blank
    <3>4. Block'
      BY <2>2, <1>7 DEF Block
    <3>5. Raw'
      BY <1>1 DEF Raw, InSM
    <3>6. Waits'
      BY <3>2, <1>0, <1>1, <1>5 DEF Calling, Waits
    <3> QED BY <3>3, <3>4, <3>5, <3>6 DEF Calling
  <2> QED BY <2>1, <2>2
<1>10. Account'
  <2> SUFFICES ASSUME kind = "SCNT" PROVE IsTail(Unread', Said(server)')
    BY <1>1 DEF Account
  <2> PICK g, r, w : g = got /\ r = down' /\ w = Said(server)
    OBVIOUS
  <2>1. Unread = g \o r /\ Unread' = r /\ Said(server)' = w
    BY <1>1, <1>4 DEF Unread, InSM, Said
  <2>2. IsTail(g \o r, w) /\ g \in Seq(Marks) /\ r \in Seq(Marks)
    BY <2>1, <1>0, <1>4 DEF Account
  <2>3. IsTail(r, w)
    BY ONLY <2>2, TailCut
  <2> QED BY <2>1, <2>3
<1>11. Outcome'
  BY <1>0, <1>1, <1>3 DEF Outcome, AcceptedWhole, ReadableUnlessCut
<1>12. Where'
  BY <1>0, <1>1 DEF Where
<1> QED BY <1>0, <1>1, <1>7, <1>8, <1>9, <1>10, <1>11, <1>12 DEF ConnInv, ConnTyped

LEMMA KeptByRecvRAW == ConnInv /\ RecvRAW => ConnInv'
<1> SUFFICES ASSUME ConnInv, RecvRAW PROVE ConnInv'
  OBVIOUS
<1>0. ConnTyped /\ Streams /\ Where /\ Calling /\ Account /\ Outcome
  BY DEF ConnInv
<1>1. /\ client = "short"
      /\ UNCHANGED <<kind, up, server, client, returned, registered, if_beat, pinged, posts, taken>>
  BY DEF RecvRAW, outcome
<1>2. PICK got \in Received(down) : down' = Rest(down, got) /\ call' = Store(call, got) /\ Boundaries(got)
  BY DEF RecvRAW
<1>3. (torn => torn') /\ expired' = expired
  BY <1>2, Marked
<1>4. /\ got \in Seq(Marks) /\ Len(got) \in Nat
      /\ Whole(down') /\ down' \in Seq(Marks) /\ Plain(down', kind) /\ got \o down' = down
  BY <1>0, <1>2, TakenDown
<1>5. call \in Calls /\ call.data \in Seq(Marks) /\ kind = "SCNT" /\ call.bdtas = Len(call.data)
  BY <1>0, <1>1 DEF Calling, Raw, ConnTyped, Calls
<1>6. /\ call' \in Calls /\ call'.data = call.data \o got /\ call'.bdtas = call.bdtas + Len(got)
      /\ Len(call'.data) = Len(call.data) + Len(got)
  <2> PICK c, d, g : c = call /\ d = call' /\ g = got
    OBVIOUS
  <2>1. c \in Calls /\ g \in Seq(Marks) /\ d = Store(c, g)
    BY <1>2, <1>4, <1>5
  <2>2. /\ d \in Calls /\ d.data = c.data \o g /\ d.bdtas = c.bdtas + Len(g)
        /\ Len(d.data) = Len(c.data) + Len(g)
    BY ONLY <2>1, Kept
  <2> QED BY <2>2
<1>7. Streams' /\ Where'
  BY <1>0, <1>1, <1>4 DEF Streams, Where
<1>8. Calling'
  <2>1. call'.bdtas = Len(call'.data)
    BY <1>5, <1>6
  <2> QED BY <2>1, <1>1, <1>5 DEF Calling, Blank, Block, Raw, Waits, InSM
<1>9. Account'
  <2> PICK d, g, r : d = call.data /\ g = got /\ r = down'
    OBVIOUS
  <2>1. d \in Seq(Marks) /\ g \in Seq(Marks) /\ r \in Seq(Marks)
    BY <1>4, <1>5
  <2>2. (d \o g) \o r = d \o (g \o r)
    BY ONLY <2>1, ConcatAssociative
  <2>3. Unread = d \o (g \o r) /\ Unread' = (d \o g) \o r /\ Said(server)' = Said(server)
    BY <1>1, <1>4, <1>6 DEF Unread, Said
  <2> QED BY <2>2, <2>3, <1>0, <1>1 DEF Account
<1>10. Outcome'
  BY <1>0, <1>1, <1>3 DEF Outcome, AcceptedWhole, ReadableUnlessCut
<1> QED BY <1>0, <1>1, <1>6, <1>7, <1>8, <1>9, <1>10 DEF ConnInv, ConnTyped

LEMMA KeptByRecvEnds == ConnInv /\ RecvEnds => ConnInv'
<1> SUFFICES ASSUME ConnInv, RecvEnds PROVE ConnInv'
  OBVIOUS
<1>0. ConnTyped /\ Streams /\ Where /\ Calling /\ Account /\ Outcome
  BY DEF ConnInv
<1>1. /\ returned' = TRUE /\ expired' = (expired \/ server # "closed")
      /\ UNCHANGED <<kind, down, up, server, client, call, registered, if_beat, pinged, posts, taken, torn>>
  BY DEF RecvEnds, sockets, outcome
<1>2. Calling'
  BY <1>0, <1>1 DEF Calling, Blank, Block, Raw, Waits, InSM
<1>3. Account'
  <2>1. Unread' = Unread /\ Said(server)' = Said(server)
    BY <1>1 DEF Unread, Said
  <2> QED BY <2>1, <1>0, <1>1 DEF Account
<1>4. Outcome'
  BY <1>0, <1>1 DEF Outcome, AcceptedWhole, ReadableUnlessCut
<1> QED BY <1>0, <1>1, <1>2, <1>3, <1>4 DEF ConnInv, ConnTyped, Streams, Where

\* A block without its end is one that TCP cut, or none within three seconds.
LEMMA KeptByUndefined == ConnInv /\ Undefined => ConnInv'
<1> SUFFICES ASSUME ConnInv, Undefined PROVE ConnInv'
  OBVIOUS
<1>0. ConnTyped /\ Streams /\ Where /\ Calling /\ Account /\ Outcome
  BY DEF ConnInv
<1>1. /\ returned /\ Unreadable(call) /\ client' = "undefined"
      /\ client = "first" \/ (client = "long" /\ call.bdtas > 0)
      /\ UNCHANGED <<kind, down, up, server, call, returned, registered, if_beat, pinged, posts, taken, torn, merged, expired>>
  BY DEF Undefined, sockets, reading, outcome, network
<1>2. torn \/ expired
  <2>1. CASE call.dsat
    <3>1. call.null = FALSE /\ (torn \/ call.bdtas = Len(call.data))
      BY <2>1, <1>0, <1>1 DEF Calling, Block, InSM
    <3>2. call.bdtas > Len(call.data)
      BY <3>1, <1>1 DEF Unreadable
    <3>3. call.data \in Seq(Marks)
      BY <1>0 DEF ConnTyped, Calls
    <3>4. Len(call.data) \in Nat
      BY <3>3
    <3> QED BY <3>1, <3>2, <3>4
  <2>2. CASE ~call.dsat
    <3>1. CASE client = "first"
      BY <2>2, <3>1, <1>0, <1>1 DEF Calling, Waits
    <3>2. CASE client = "long"
      BY <2>2, <3>2, <1>0, <1>1 DEF Calling, Blank, InSM
    <3> QED BY <3>1, <3>2, <1>1
  <2> QED BY <2>1, <2>2
<1>3. Calling'
  BY <1>1 DEF Calling, Blank, Block, Raw, Waits, InSM
<1>4. Account'
  <2>1. Unread' = Unread /\ Said(server)' = Said(server)
    BY <1>1 DEF Unread, Said
  <2> QED BY <2>1, <1>0, <1>1 DEF Account
<1>5. Outcome'
  BY <1>0, <1>1, <1>2 DEF Outcome, AcceptedWhole, ReadableUnlessCut
<1> QED BY <1>0, <1>1, <1>3, <1>4, <1>5 DEF ConnInv, ConnTyped, Streams, Where

LEMMA KeptByIllegal == ConnInv /\ Illegal => ConnInv'
<1> SUFFICES ASSUME ConnInv, Illegal PROVE ConnInv'
  OBVIOUS
<1>0. ConnTyped /\ Streams /\ Where /\ Calling /\ Account /\ Outcome
  BY DEF ConnInv
<1>1. /\ client = "first" /\ client' = "gone" /\ NextCall
      /\ UNCHANGED <<kind, down, up, server, registered, if_beat, pinged, posts, taken, torn, merged, expired>>
  BY DEF Illegal, sockets, outcome, network
<1>2. call' \in Calls /\ Blank' /\ Block' /\ Raw'
  BY <1>1, CallsAfresh
<1>3. Waits'
  BY <1>1 DEF Waits
<1>4. Account'
  <2>1. Unread' = Unread /\ Said(server)' = Said(server)
    BY <1>1 DEF Unread, Said
  <2> QED BY <2>1, <1>0, <1>1 DEF Account
<1>5. Outcome'
  BY <1>0, <1>1 DEF Outcome, AcceptedWhole, ReadableUnlessCut
<1> QED BY <1>0, <1>1, <1>2, <1>3, <1>4, <1>5 DEF ConnInv, ConnTyped, Streams, Where, Calling

\* A block RecvRAW_SM gives back and CheckRawMsg lets through.
LEMMA BlockAccepted ==
  ASSUME ConnInv, InSM, ~Unreadable(call), CheckRawMsg(call.data, call.bdtas)
  PROVE  /\ call.data # <<>> /\ Begins(call.data[1]) /\ Ends(Last(call.data)) /\ Sound(call.data)
         /\ call.data[2] = Mark("SCNT") => kind = "SCNT"
<1>1. call.data \in Seq(Marks) /\ call.bdtas \in Nat
  BY DEF ConnInv, ConnTyped, Calls
<1>2. call.dsat
  BY DEF Unreadable, ConnInv, Calling, Blank
<1>3. Sound(call.data) /\ Plain(call.data, kind) /\ Len(call.data) <= call.bdtas
  BY <1>2 DEF ConnInv, Calling, Block
<1>4. Len(call.data) \in Nat /\ ~(call.bdtas > Len(call.data))
  BY <1>1 DEF Unreadable
<1>5. call.bdtas = Len(call.data)
  BY <1>1, <1>3, <1>4
<1> PICK d, n : d = call.data /\ n = call.bdtas
  OBVIOUS
<1>6. d \in Seq(Marks) /\ n = Len(d) /\ CheckRawMsg(d, n)
  BY <1>1, <1>5
<1>7. d # <<>> /\ Begins(d[1]) /\ Ends(Last(d)) /\ 2 \in DOMAIN d
  BY ONLY <1>6, LetThrough
<1> QED BY <1>3, <1>7 DEF Plain

LEMMA KeptByRecognise == ConnInv /\ Recognise => ConnInv'
<1> SUFFICES ASSUME ConnInv, Recognise PROVE ConnInv'
  OBVIOUS
<1>0. ConnTyped /\ Streams /\ Where /\ Calling /\ Account /\ Outcome
  BY DEF ConnInv
<1>1. /\ client = "first" /\ ~Unreadable(call) /\ CheckRawMsg(call.data, call.bdtas)
      /\ taken' = call.data /\ NextCall
      /\ \/ call.data[2] = Mark("SCNT") /\ client' = "short" /\ up' = up \o DGET
         \/ client' \in {"long", "send"} /\ up' = up
      /\ UNCHANGED <<kind, down, server, registered, if_beat, pinged, posts, torn, merged, expired>>
  BY DEF Recognise, network
<1>2. /\ call.data # <<>> /\ Begins(call.data[1]) /\ Ends(Last(call.data)) /\ Sound(call.data)
      /\ call.data[2] = Mark("SCNT") => kind = "SCNT"
  BY <1>1, BlockAccepted DEF InSM
<1>3. call' \in Calls /\ Blank' /\ Block' /\ Raw'
  BY <1>1, <1>2, CallsAfresh
<1>4. Waits'
  BY <1>1 DEF Waits
<1>5. Streams'
  <2> PICK u, ut : u = up /\ ut = up'
    OBVIOUS
  <2>1. Whole(u) /\ (ut = u \o DGET \/ ut = u)
    BY <1>0, <1>1 DEF Streams
  <2>2. Whole(ut)
    BY ONLY <2>1, SentUp
  <2> QED BY <2>2, <1>0, <1>1 DEF Streams
<1>6. Account'
  <2> PICK s : s = down
    OBVIOUS
  <2>1. s \in Seq(Marks)
    BY <1>0 DEF Streams, Whole
  <2>2. <<>> \o s = s
    BY ONLY <2>1, ConcatEmptySeq
  <2>3. call'.data = <<>>
    BY <1>1, FreshCall DEF NextCall
  <2>4. Unread' = Unread /\ Said(server)' = Said(server)
    BY <2>2, <2>3, <1>1 DEF Unread, Said
  <2> QED BY <2>4, <1>0, <1>1 DEF Account
<1>7. Outcome'
  <2>1. ~registered
    BY <1>0, <1>1 DEF Outcome
  <2>2. AcceptedWhole'
    BY <2>1, <1>1, <1>2 DEF AcceptedWhole, Sound
  <2> QED BY <2>1, <2>2, <1>1 DEF Outcome, ReadableUnlessCut
<1> QED BY <1>0, <1>1, <1>3, <1>4, <1>5, <1>6, <1>7 DEF ConnInv, ConnTyped, Where, Calling

\* A call whose block is dealt with: what is left of the talk is what is in the stream.
LEMMA AccountMovesOn ==
  ASSUME ConnTyped, Streams, Account, NextCall, UNCHANGED <<kind, server, client, down>>
  PROVE  Account'
<1> PICK d, s, w : d = call.data /\ s = down /\ w = Said(server)
  OBVIOUS
<1>1. d \in Seq(Marks) /\ s \in Seq(Marks)
  BY DEF ConnTyped, Calls, Streams, Whole
<1>2. Said(server)' = w
  BY DEF Said
<1>3. CASE client = "short"
  <2>1. call'.data = <<>>
    BY FreshCall DEF NextCall
  <2>2. <<>> \o s = s
    BY ONLY <1>1, ConcatEmptySeq
  <2>3. Unread = d \o s /\ Unread' = s
    BY <2>1, <2>2, <1>3 DEF Unread
  <2>4. IsTail(d \o s, w) => IsTail(s, w)
    BY ONLY <1>1, TailCut
  <2> QED BY <2>3, <2>4, <1>2 DEF Account
<1>4. CASE client # "short"
  <2>1. Unread' = Unread
    BY <1>4 DEF Unread
  <2> QED BY <2>1, <1>2 DEF Account
<1> QED BY <1>3, <1>4

LEMMA KeptByDropped == ConnInv /\ Dropped => ConnInv'
<1> SUFFICES ASSUME ConnInv, Dropped PROVE ConnInv'
  OBVIOUS
<1>0. ConnTyped /\ Streams /\ Where /\ Calling /\ Account /\ Outcome
  BY DEF ConnInv
<1>1. /\ client \in {"short", "long"} /\ NextCall
      /\ UNCHANGED <<kind, down, up, server, client, registered, if_beat, pinged, posts, taken, torn, merged, expired>>
  BY DEF Dropped, sockets, outcome, network
<1>2. client' = "short" => kind' = "SCNT"
  BY <1>0, <1>1 DEF Calling, Raw
<1>3. call' \in Calls /\ Blank' /\ Block' /\ Raw'
  BY <1>1, <1>2, CallsAfresh
<1>4. Waits' /\ Account'
  BY <1>0, <1>1, AccountMovesOn DEF Waits
<1>5. Outcome'
  BY <1>0, <1>1 DEF Outcome, AcceptedWhole, ReadableUnlessCut
<1> QED BY <1>0, <1>1, <1>3, <1>4, <1>5 DEF ConnInv, ConnTyped, Streams, Where, Calling

LEMMA KeptByRegistered == ConnInv /\ Registered => ConnInv'
<1> SUFFICES ASSUME ConnInv, Registered PROVE ConnInv'
  OBVIOUS
<1>0. ConnTyped /\ Streams /\ Where /\ Calling /\ Account /\ Outcome
  BY DEF ConnInv
<1>1. /\ client = "short" /\ NextCall /\ taken' = call.data /\ registered' = TRUE
      /\ CheckRawMsg(call.data, call.bdtas) /\ call.data[2] = Mark("ECYP")
      /\ UNCHANGED <<kind, down, up, server, client, if_beat, pinged, posts, torn, merged, expired>>
  BY DEF Registered, sockets, network
<1>2. kind = "SCNT" /\ call.bdtas = Len(call.data)
  BY <1>0, <1>1 DEF Calling, Raw
<1>3. call' \in Calls /\ Blank' /\ Block' /\ Raw'
  BY <1>1, <1>2, CallsAfresh
<1>4. Waits' /\ Account'
  BY <1>0, <1>1, AccountMovesOn DEF Waits
<1>5. taken' = Signed("ECYP")
  <2> PICK d, n, s, v : d = call.data /\ n = call.bdtas /\ s = down /\ v = server
    OBVIOUS
  <2>1. d \in Seq(Marks) /\ s \in Seq(Marks) /\ n = Len(d) /\ CheckRawMsg(d, n)
    BY <1>0, <1>1, <1>2 DEF ConnTyped, Calls, Streams, Whole
  <2>2. Len(d) > 0 /\ d[1] = Mark("NETC") /\ d[Len(d)] = Mark("CTEN")
    BY ONLY <2>1, LetThrough
  <2>3. IsTail(d \o s, Said(v)) /\ d[2] = Mark("ECYP")
    BY <1>0, <1>1, <1>2 DEF Account, Unread
  <2>4. d = Signed("ECYP")
    BY ONLY <2>1, <2>2, <2>3, AccountAlone
  <2> QED BY <2>4, <1>1
<1>6. Outcome'
  <2> PICK a : a = Signed("ECYP")
    OBVIOUS
  <2>1. Whole(a) /\ a # <<>> /\ Begins(a[1])
    BY SignedWhole DEF Names, Begins
  <2>2. Ends(Last(a)) /\ Sound(a)
    BY <2>1 DEF Whole, Last
  <2>3. AcceptedWhole'
    BY <2>1, <2>2, <1>5 DEF AcceptedWhole, Sound
  <2> QED BY <2>3, <1>0, <1>1 DEF Outcome, ReadableUnlessCut
<1> QED BY <1>0, <1>1, <1>3, <1>4, <1>6 DEF ConnInv, ConnTyped, Streams, Where, Calling

LEMMA KeptByBeaten == ConnInv /\ Beaten => ConnInv'
<1> SUFFICES ASSUME ConnInv, Beaten PROVE ConnInv'
  OBVIOUS
<1>0. ConnTyped /\ Streams /\ Where /\ Calling /\ Account /\ Outcome
  BY DEF ConnInv
<1>1. /\ client = "long" /\ ~Unreadable(call) /\ CheckRawMsg(call.data, call.bdtas)
      /\ taken' = call.data /\ NextCall
      /\ UNCHANGED <<kind, down, up, server, client, registered, pinged, posts, torn, merged, expired>>
  BY DEF Beaten, Readable, sockets, network
<1>2. call.data # <<>> /\ Begins(call.data[1]) /\ Ends(Last(call.data)) /\ Sound(call.data)
  BY <1>1, BlockAccepted DEF InSM
<1>3. call' \in Calls /\ Blank' /\ Block' /\ Raw'
  BY <1>1, CallsAfresh
<1>4. Waits' /\ Account'
  BY <1>0, <1>1, AccountMovesOn DEF Waits
<1>5. Outcome'
  <2>1. ~registered
    BY <1>0, <1>1 DEF Outcome
  <2>2. AcceptedWhole'
    BY <2>1, <1>1, <1>2 DEF AcceptedWhole, Sound
  <2> QED BY <2>1, <2>2, <1>1 DEF Outcome, ReadableUnlessCut
<1> QED BY <1>0, <1>1, <1>3, <1>4, <1>5 DEF ConnInv, ConnTyped, Streams, Where, Calling

LEMMA KeptByPost == ConnInv /\ Post => ConnInv'
<1> SUFFICES ASSUME ConnInv, Post PROVE ConnInv'
  OBVIOUS
<1>0. ConnTyped /\ Streams /\ Where /\ Calling /\ Account /\ Outcome
  BY DEF ConnInv
<1>1. /\ client = "send" /\ up' = up \o Signed("PING")
      /\ UNCHANGED <<kind, down, server, client, call, returned, registered, if_beat, pinged, taken, torn, merged, expired>>
  BY DEF Post, reading, network
<1>2. Streams'
  <2> PICK u, ut : u = up /\ ut = up'
    OBVIOUS
  <2>1. Whole(u) /\ ut = u \o Signed("PING")
    BY <1>0, <1>1 DEF Streams
  <2>2. Whole(ut)
    BY ONLY <2>1, SentUp
  <2> QED BY <2>2, <1>0, <1>1 DEF Streams
<1>3. Calling'
  BY <1>1 DEF Calling, Blank, Block, Raw, Waits, InSM
<1>4. Account'
  <2>1. Unread' = Unread /\ Said(server)' = Said(server)
    BY <1>1 DEF Unread, Said
  <2> QED BY <2>1, <1>0, <1>1 DEF Account
<1>5. Outcome'
  BY <1>0, <1>1 DEF Outcome, AcceptedWhole, ReadableUnlessCut
<1> QED BY <1>0, <1>1, <1>2, <1>3, <1>4, <1>5 DEF ConnInv, ConnTyped, Where

-----------------------------------------------------------------------------
\* Of every connection, however TCP cuts and glues what is sent and whenever a recv
\* times out, the inductive invariant holds: the streams are whole messages, a block
\* of RecvRAW_SM is what one recv returned, and what connectionDeamon has not dealt
\* with yet is the end of what the server said.
THEOREM ConnInvariant == ConnSpec => []ConnInv
<1>1. ConnSpec => ConnInv
  BY ConnInitially
<1>2. ConnInv /\ [ConnNext]_connvars => ConnInv'
  <2> SUFFICES ASSUME ConnInv, [ConnNext]_connvars PROVE ConnInv'
    OBVIOUS
  <2>1. CASE Hello
    BY <2>1, KeptByHello
  <2>2. CASE Reply
    BY <2>2, KeptByReply
  <2>3. CASE NoReply
    BY <2>3, KeptByNoReply
  <2>4. CASE Beat
    BY <2>4, KeptByBeat
  <2>5. CASE Listen
    BY <2>5, KeptByListen
  <2>6. CASE RecvRAW_SM
    BY <2>6, KeptByRecvRAW_SM
  <2>7. CASE RecvRAW
    BY <2>7, KeptByRecvRAW
  <2>8. CASE RecvEnds
    BY <2>8, KeptByRecvEnds
  <2>9. CASE Undefined
    BY <2>9, KeptByUndefined
  <2>10. CASE Illegal
    BY <2>10, KeptByIllegal
  <2>11. CASE Recognise
    BY <2>11, KeptByRecognise
  <2>12. CASE Dropped
    BY <2>12, KeptByDropped
  <2>13. CASE Registered
    BY <2>13, KeptByRegistered
  <2>14. CASE Beaten
    BY <2>14, KeptByBeaten
  <2>15. CASE Post
    BY <2>15, KeptByPost
  <2>17. CASE Reset
    BY <2>17, KeptByReset
  <2>16. CASE UNCHANGED connvars
    <3>1. UNCHANGED <<kind, down, up, server, client, call, returned, registered, taken, torn, expired>>
      BY <2>16 DEF connvars, sockets, reading, outcome, network
    <3>2. ConnTyped' /\ Streams' /\ Where'
      BY <3>1 DEF ConnInv, ConnTyped, Streams, Where
    <3>3. Calling'
      BY <3>1 DEF ConnInv, Calling, Blank, Block, Raw, Waits, InSM
    <3>4. Account'
      BY <3>1 DEF ConnInv, Account, Unread, Said
    <3>5. Outcome'
      BY <3>1 DEF ConnInv, Outcome, AcceptedWhole, ReadableUnlessCut
    <3> QED BY <3>2, <3>3, <3>4, <3>5 DEF ConnInv
  <2> QED BY <2>1, <2>2, <2>3, <2>4, <2>5, <2>6, <2>7, <2>8, <2>9, <2>10, <2>11, <2>12, <2>13,
             <2>14, <2>15, <2>16, <2>17 DEF ConnNext
<1> QED BY <1>1, <1>2, PTL DEF ConnSpec

\* What CheckRawMsg lets through is one or more whole messages, and an account is let
\* through alone, whatever TCP makes of the boundaries: neither resFromClient's one
\* recv, nor RecvRAW_SM's, nor RecvRAW's many, checks for them.
THEOREM AcceptsWholeMessages == ConnSpec => []AcceptedWhole
<1>1. ConnInv => AcceptedWhole
  BY DEF ConnInv, Outcome
<1> QED BY <1>1, ConnInvariant, PTL

\* connectionDeamon looks for a tail where there is none, or at NULL, only after TCP has
\* cut a message or the server has said nothing for three seconds.
THEOREM ReadsWhatIsThere == ConnSpec => []ReadableUnlessCut
<1>1. ConnInv => ReadableUnlessCut
  BY DEF ConnInv, Outcome
<1> QED BY <1>1, ConnInvariant, PTL
=============================================================================
