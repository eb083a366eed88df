---------------------------- MODULE MessageParser ----------------------------
(***************************************************************************)
(* The messages of src/communicate: MessageFactory writes one as a head,   *)
(* options with a check sum, a body and a tail; MessageParser reads them   *)
(* from a stream, byte by byte, in four little state machines, and hands   *)
(* each part to the factory to be decoded.                                 *)
(*                                                                         *)
(* A byte is a character and the number it adds to the check sum; the text *)
(* of a head, of an option, and a number each stand as one such byte.      *)
(***************************************************************************)
EXTENDS Integers, SequencesExt

CONSTANTS
  Bodies,  \* what a message may carry: sequences of bytes
  HeadSum, \* sum of the text of a head (version, type, tid)
  TextSum, \* sum of the text of an option line
  MaxSent  \* bound: messages written to the stream

Byte(ch, n) == [ch |-> ch, n |-> n]
Char == [M |-> Byte("M", 77), S |-> Byte("S", 83), G |-> Byte("G", 71),
         cr |-> Byte("cr", 13), lf |-> Byte("lf", 10), quote |-> Byte("quote", 34)]

VARIABLES
  buffer,       \* bytes received and not yet looked at
  temp_buffer,  \* bytes of the part being located
  size,         \* option "size" of temp_msg: -1 if it has none
  head_state, option_state, body_state, tail_state,
  msgs,         \* messages parsed
  sent          \* history: the messages written to the stream

states == <<head_state, option_state, body_state, tail_state>>
vars == <<buffer, temp_buffer, size, states, msgs, sent>>

Init ==
  /\ buffer = <<>> /\ temp_buffer = <<>> /\ size = -1
  /\ head_state = -5 /\ option_state = -4 /\ body_state = -1 /\ tail_state = -4
  /\ msgs = <<>> /\ sent = <<>>

-----------------------------------------------------------------------------
(* MessageFactory.                                                         *)

\* calculate_options_hash: a sum in an int16_t.
Hash(bytes) ==
  LET sum == FoldSeq(LAMBDA b, total : b.n + total, 0, bytes) % 65536
  IN IF sum < 32768 THEN sum ELSE sum - 65536

EndOfLine == <<Char.cr, Char.lf>>
EncodedHead == <<Char.M, Char.S, Char.G, Byte("text", HeadSum)>> \o EndOfLine

\* The option line that matters gives the size of the body.
EncodedOption(b) == <<Char.quote, Byte("text", TextSum + Len(b))>> \o EndOfLine

\* encodeMessage: the sum is taken over all that has been written before it.
Encode(b) ==
  LET before == EncodedHead \o EncodedOption(b)
  IN before \o <<Byte("digit", Hash(before))>> \o EndOfLine \o EndOfLine
       \o b \o EndOfLine \o <<Char.G, Char.S, Char.M>>

DecodedHead(bytes) == bytes = EncodedHead

\* decode_options: the options up to the check sum, which is compared with the sum
\* over the bytes given from the first one on.
DecodedOptions(bytes) ==
  \E i \in DOMAIN bytes :
    /\ bytes[i].ch = "digit"
    /\ bytes[i].n = Hash(SubSeq(bytes, 1, i - 1))
    /\ SubSeq(bytes, i + 1, Len(bytes)) = EndOfLine \o EndOfLine

DecodedSize(bytes) == bytes[2].n - TextSum

-----------------------------------------------------------------------------
(* MessageParser.                                                          *)

\* The peer writes a message, and parse pushes it on buffer.
Send(b) ==
  /\ Len(sent) < MaxSent
  /\ sent' = Append(sent, b)
  /\ buffer' = buffer \o Encode(b)
  /\ UNCHANGED <<temp_buffer, size, states, msgs>>

\* The next byte goes from buffer to temp_buffer.
Next1(kept) ==
  /\ buffer # <<>>
  /\ buffer' = Tail(buffer)
  /\ temp_buffer' = IF kept THEN Append(temp_buffer, Head(buffer)) ELSE <<>>
  /\ UNCHANGED sent

Reset ==
  /\ Next1(FALSE)
  /\ size' = -1
  /\ head_state' = -5 /\ option_state' = -4 /\ body_state' = -1 /\ tail_state' = -4
  /\ UNCHANGED msgs

ch == Head(buffer).ch
Located == Append(temp_buffer, Head(buffer))

HeadState(s) ==
  /\ Next1(s # 0)
  /\ head_state' = s
  /\ UNCHANGED <<size, option_state, body_state, tail_state, msgs>>

\* temp_buffer is cleared after the head.  (A head with a number that is none makes
\* std::stoi throw, past the parser; encodeMessage writes no such head.)
LocateHead ==
  /\ buffer # <<>> /\ head_state < 0
  /\ \/ head_state = -5 /\ HeadState(IF ch = "M" THEN -4 ELSE -5)
     \/ head_state = -4 /\ ch = "S" /\ HeadState(-3)
     \/ head_state = -3 /\ ch = "G" /\ HeadState(-2)
     \/ head_state = -2 /\ HeadState(IF ch = "cr" THEN -1 ELSE -2)
     \/ head_state = -1 /\ ch = "lf" /\ DecodedHead(Located) /\ HeadState(0)
     \/ head_state = -4 /\ ch # "S" /\ Reset
     \/ head_state = -3 /\ ch # "G" /\ Reset
     \/ head_state = -1 /\ ~(ch = "lf" /\ DecodedHead(Located)) /\ Reset

OptionState(s) ==
  /\ Next1(s # 0)
  /\ option_state' = s
  /\ size' = IF s = 0 THEN DecodedSize(temp_buffer) ELSE size
  /\ UNCHANGED <<head_state, body_state, tail_state, msgs>>

LocateOption ==
  /\ buffer # <<>> /\ head_state = 0 /\ option_state < 0
  /\ \/ option_state = -4 /\ ch \in {"quote", "digit"} /\ OptionState(-3)
     \/ option_state = -4 /\ ch = "cr" /\ OptionState(-1)
     \/ option_state = -4 /\ ch \notin {"quote", "digit", "cr"} /\ OptionState(-4)
     \/ option_state = -3 /\ OptionState(IF ch = "cr" THEN -2 ELSE -3)
     \/ option_state = -2 /\ ch = "lf" /\ OptionState(-4)
     \/ option_state = -1 /\ ch = "lf" /\ DecodedOptions(Located) /\ OptionState(0)
     \/ option_state = -2 /\ ch # "lf" /\ Reset
     \/ option_state = -1 /\ ~(ch = "lf" /\ DecodedOptions(Located)) /\ Reset

\* The size and two bytes are counted down; only the last byte is looked at.
Left == IF body_state = -1 THEN size + 2 ELSE body_state

BodyState(s) ==
  /\ Next1(s # 0)
  /\ body_state' = s
  /\ UNCHANGED <<size, head_state, option_state, tail_state, msgs>>

LocateBody ==
  /\ buffer # <<>> /\ head_state = 0 /\ option_state = 0 /\ body_state # 0
  /\ \/ Left > 1 /\ BodyState(Left - 1)
     \/ Left = 1 /\ ch = "lf" /\ BodyState(0)
     \/ Left = 1 /\ ch # "lf" /\ Reset

TailState(s) ==
  /\ Next1(TRUE)
  /\ tail_state' = s
  /\ UNCHANGED <<size, head_state, option_state, body_state, msgs>>

\* The message is pushed, and the parser starts over.
Parsed ==
  /\ Next1(FALSE)
  /\ size' = -1
  /\ head_state' = -5 /\ option_state' = -4 /\ body_state' = -1 /\ tail_state' = -4
  /\ msgs' = Append(msgs, size)

LocateTail ==
  /\ buffer # <<>> /\ head_state = 0 /\ option_state = 0 /\ body_state = 0
  /\ \/ tail_state = -4 /\ ch = "G" /\ TailState(-3)
     \/ tail_state = -3 /\ ch = "S" /\ TailState(-2)
     \/ tail_state = -2 /\ ch = "M" /\ Parsed
     \/ tail_state = -4 /\ ch # "G" /\ Reset
     \/ tail_state = -3 /\ ch # "S" /\ Reset
     \/ tail_state = -2 /\ ch # "M" /\ Reset

Next ==
  \/ \E b \in Bodies : Send(b)
  \/ LocateHead \/ LocateOption \/ LocateBody \/ LocateTail

Spec == Init /\ [][Next]_vars

\* "ASSERT_EQ(mp.getMessageCount(), 1)" (test_message.cpp:63, after one message was
\* parsed): when the stream is used up, every message written has been parsed.
AllParsed == buffer = <<>> => Len(msgs) = Len(sent)
=============================================================================
