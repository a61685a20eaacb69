------------------------------- MODULE Frames -------------------------------
(***************************************************************************)
(* From the bytes of a connection to packets: the buffer of                *)
(* inverter_periodic_reader, the decoder that cuts frames from its front   *)
(* (PacketDecoder::decode) and the parser of one frame (Parser::parse).    *)
(* TCP keeps the order of the bytes and nothing of the frames' limits: a   *)
(* read returns any number of bytes.                                       *)
(*                                                                         *)
(* Bytes are counted, not kept: a frame is what the decoder and the parser *)
(* look at, and lies at an offset of the stream.  A frame is as long as it *)
(* says, and the two bytes of a header occur at a frame's beginning only.  *)
(***************************************************************************)
EXTENDS Integers, Sequences

CONSTANTS
  Traffic,       \* the frames the data logger may send
  MaxRegisters,  \* registers a read may ask for (40 in a block of the bridge's own)
  Chunks,        \* bound: the numbers of bytes a read may return
  MaxFrames      \* bound: frames sent

\* fn: byte 7, "unknown" for a TCP or device function of no enum.  len: the length
\* field.  magic: the header is there.  sum: the checksum is right.  counted: the
\* number of value bytes is in the frame, as `count` (for a heartbeat: byte 18).
Functions == {"Heartbeat", "TranslatedData", "ReadParam", "WriteParam", "unknown"}
Lengths == 0..(256 * 256 - 1)
Frame == [fn : Functions, len : Lengths, magic : BOOLEAN, sum : BOOLEAN,
          counted : BOOLEAN, count : Nat]

ASSUME FramesAssumption ==
  /\ Traffic \subseteq Frame
  /\ MaxRegisters \in 1..109
  /\ Chunks \subseteq Nat \ {0}
  /\ MaxFrames \in Nat

\* HEADER, MIN_PACKET_SIZE, MAX_PACKET_SIZE, MAX_BUFFER_SIZE.
HeaderSize    == 6
MinPacketSize == 20
MaxPacketSize == 1024
MaxBufferSize == 65536

Size(f) == HeaderSize + f.len
Byte(n) == n % 256
------------------------------------------------------------------------------
(***************************************************************************)
(* What an inverter answers.                                               *)
(***************************************************************************)

Message(fn, len, counted, count) ==
  [fn |-> fn, len |-> len, magic |-> TRUE, sum |-> TRUE, counted |-> counted, count |-> count]

\* A read of n registers (127: all inputs at once); a write; a parameter read and written; a heartbeat.
ReadReply(n) == Message("TranslatedData", 31 + 2 * n, TRUE, 2 * n)
WriteReply   == Message("TranslatedData", 32, FALSE, 0)
ReadParamReply  == Message("ReadParam", 18, TRUE, 2)
WriteParamReply == Message("WriteParam", 15, FALSE, 0)
Heartbeat       == Message("Heartbeat", 13, FALSE, 0)

Regular ==
  {ReadReply(n) : n \in 1..MaxRegisters \cup {127}} \cup {WriteReply, ReadParamReply, WriteParamReply}

(***************************************************************************)
(* What the decoder and the parser make of a frame.                        *)
(***************************************************************************)

\* Mutant: a frame of any size is waited for.
AdmittedAnySize(f) == f.magic /\ Size(f) >= MinPacketSize

\* decode, as soon as the header is there.
Admitted(f) == f.magic /\ Size(f) >= MinPacketSize /\ f.len <= MaxPacketSize

\* verify_checksum.
Intact(f) == f.fn = "TranslatedData" => Size(f) >= 22 /\ f.sum

\* Mutant: the length is not looked at before it is counted down.
TooShortNever(f) == FALSE

\* Parser::parse: `input.len() as u8` below 18; the u8 subtraction input[4] - 6 and
\* the comparison with it.
TooShort(f)   == Byte(Size(f)) < 18
Underflows(f) == ~TooShort(f) /\ Byte(f.len) < 6
Mismatch(f)   == Byte(Size(f)) < Byte(f.len) - 6

\* The bytes behind the fixed fields of a packet.
Rest(f) ==
  CASE f.fn = "TranslatedData" -> Size(f) - 36 - (IF f.counted THEN 1 ELSE 0)
    [] f.fn = "ReadParam"      -> Size(f) - 20 - (IF f.counted THEN 2 ELSE 0)
    [] OTHER                   -> Size(f) - 19

\* The four decode functions: a heartbeat's last byte is zero; values are as many
\* bytes as the frame says, or two.
Decodes(f) ==
  \/ f.fn = "Heartbeat" /\ Size(f) >= 19 /\ f.count = 0
  \/ /\ \/ f.fn = "TranslatedData" /\ Size(f) >= 38
        \/ f.fn = "ReadParam" /\ Size(f) >= 24
        \/ f.fn = "WriteParam" /\ Size(f) >= 21
     /\ Rest(f) = IF f.counted /\ f.fn # "WriteParam" THEN f.count ELSE 2

Readable(f) ==
  Admitted(f) /\ Intact(f) /\ ~TooShort(f) /\ ~Underflows(f) /\ ~Mismatch(f) /\ Decodes(f)
------------------------------------------------------------------------------
VARIABLES
  sent,      \* the frames sent, each with its offset in the stream
  arrived,   \* bytes read from the socket
  consumed,  \* bytes split off the buffer's front
  decoded,   \* the frames decoded, by their number in `sent`
  reader     \* what the reader is doing, or why it has ended

Items == [frame : Traffic, at : Nat]

vars == <<sent, arrived, consumed, decoded, reader>>

\* "closing": the socket is at its end, decode_eof drains the buffer.  "torn": that
\* left bytes over.  "failed": a read error, a timeout, a silence.
Ended   == {"closed", "torn", "error", "panicked", "overflow", "failed"}
Readers == {"reading", "decoding", "closing"} \cup Ended

End(n)   == IF n = 0 THEN 0 ELSE sent[n].at + Size(sent[n].frame)
Total    == End(Len(sent))
Buffered == arrived - consumed

\* The frame that begins at the buffer's front, if one does.
First == {n \in DOMAIN sent : sent[n].at = consumed}
N     == CHOOSE n \in First : TRUE
F     == sent[N].frame

CanAdmit == First # {} /\ Admitted(F)
CanRead  == First # {} /\ Readable(F)

Init ==
  /\ sent = <<>> /\ arrived = 0 /\ consumed = 0 /\ decoded = <<>>
  /\ reader = "reading"

\* The data logger sends a frame.
Send(f) ==
  /\ reader \notin Ended /\ Len(sent) < MaxFrames
  /\ sent' = Append(sent, [frame |-> f, at |-> Total])
  /\ UNCHANGED <<arrived, consumed, decoded, reader>>

\* The reader looks at the buffer's size, and reads up to k bytes more.
Read(k) ==
  /\ reader = "reading" /\ arrived < Total
  /\ IF Buffered >= MaxBufferSize
     THEN reader' = "overflow" /\ UNCHANGED arrived
     ELSE /\ arrived' = IF arrived + k < Total THEN arrived + k ELSE Total
          /\ reader' = "decoding"
  /\ UNCHANGED <<sent, consumed, decoded>>

\* The read returns no bytes, or fails.
Close ==
  /\ reader = "reading"
  /\ reader' \in {"closing", "failed"}
  /\ UNCHANGED <<sent, arrived, consumed, decoded>>

\* Mutant: the length is not compared with what is there.
WaitsForHeader == Buffered < HeaderSize

\* decode has too few bytes of a frame that it would take.
Waits ==
  \/ Buffered < HeaderSize
  \/ CanAdmit /\ Buffered < Size(F)

\* Mutants: the frame stays in the buffer; its length is taken for its size; one
\* frame is decoded for a read.
DecodeAndKeep ==
  /\ reader \in {"decoding", "closing"} /\ ~Waits /\ CanRead
  /\ decoded' = Append(decoded, N)
  /\ UNCHANGED <<sent, arrived, consumed, reader>>
DecodeLength ==
  /\ reader \in {"decoding", "closing"} /\ ~Waits /\ CanRead
  /\ consumed' = consumed + F.len
  /\ decoded' = Append(decoded, N)
  /\ UNCHANGED <<sent, arrived, reader>>
DecodeOne ==
  /\ reader \in {"decoding", "closing"} /\ ~Waits /\ CanRead
  /\ consumed' = consumed + Size(F)
  /\ decoded' = Append(decoded, N)
  /\ reader' = IF reader = "decoding" THEN "reading" ELSE reader
  /\ UNCHANGED <<sent, arrived>>

\* decode returns a packet, which goes to from_inverter.
Decode ==
  /\ reader \in {"decoding", "closing"} /\ ~Waits /\ CanRead
  /\ consumed' = consumed + Size(F)
  /\ decoded' = Append(decoded, N)
  /\ UNCHANGED <<sent, arrived, reader>>

\* decode returns an error, which ends the reader, or its subtraction underflows.
Refuse ==
  /\ reader \in {"decoding", "closing"} /\ ~Waits /\ ~CanRead
  /\ reader' = IF CanAdmit /\ Intact(F) /\ Underflows(F)
               THEN "panicked" ELSE "error"
  /\ UNCHANGED <<sent, arrived, consumed, decoded>>

\* decode returns None: the reader reads on, or decode_eof is done.
Wait ==
  /\ Waits
  /\ \/ reader = "decoding" /\ reader' = "reading"
     \/ reader = "closing" /\ reader' = IF Buffered = 0 THEN "closed" ELSE "torn"
  /\ UNCHANGED <<sent, arrived, consumed, decoded>>

Next ==
  \/ \E f \in Traffic : Send(f)
  \/ \E k \in Chunks : Read(k)
  \/ Close \/ Decode \/ Refuse \/ Wait

Spec == Init /\ [][Next]_vars
------------------------------------------------------------------------------
(***************************************************************************)
(* Properties.                                                             *)
(***************************************************************************)

\* Every variable has its type, and no more is taken from the buffer than is in it.
TypeOK ==
  /\ sent \in Seq(Items)
  /\ arrived \in 0..Total /\ consumed \in 0..arrived
  /\ decoded \in Seq(DOMAIN sent) /\ reader \in Readers

\* When the reader waits for the socket, every frame that has arrived to its last
\* byte has been decoded, however the bytes were cut: no packet waits for the next.
NothingLeftBehind ==
  reader = "reading" =>
    \A n \in DOMAIN sent : End(n) <= arrived => n <= Len(decoded)

\* Only a frame that is not among those an inverter answers with (a heartbeat, which
\* is shorter than the decoder's minimum, a reply about too many registers, a broken
\* frame) ends the reader with an error, whatever came before it and however cut.
RegularFramesAreRead ==
  reader = "error" => \E n \in First : sent[n].frame \notin Regular

\* Between two reads the buffer holds less than one frame of the largest size, so
\* the reader never gives up for a full buffer.
BufferHoldsOneFrame ==
  /\ reader = "reading" => Buffered < HeaderSize + MaxPacketSize
  /\ reader # "overflow"

\* The parser's subtraction of two u8 is never below zero, whatever frame arrives,
\* though nothing near it looks at the number: where it would be, the length modulo
\* 256 is below 18 and the frame has been refused before.
NoUnderflow == reader # "panicked"

\* At the end of the socket no packet is left to decode: the drain, which neither
\* renews the timestamps nor compares serials, never delivers one.
ClosingDecodesNothing == [][reader = "closing" => UNCHANGED decoded]_vars

\* The frames are decoded in order, none twice and none left out: module Delivery.
Stream == INSTANCE Delivery WITH
            Copies <- 1, MayDrop <- FALSE, sent <- Len(sent), delivered <- decoded

DecoderDelivers == Stream!Spec
==============================================================================
