------------------------------ MODULE MCFrames ------------------------------
(***************************************************************************)
(* A small instance of Frames: regular frames of several sizes, and frames *)
(* that are refused at every test of the decoder and the parser.           *)
(***************************************************************************)
EXTENDS Frames

\* Block reads, the smallest read, the reply with all input registers.
Replies == {ReadReply(1), ReadReply(40), WriteReply, ReadParamReply, WriteParamReply}

\* Heartbeats of both sizes; replies about 109, 110, 113 and 127 registers; a wrong
\* header, checksum, function and number of values; sizes at both limits.
Others ==
  {Heartbeat, [Heartbeat EXCEPT !.len = 14],
   ReadReply(109), ReadReply(110), ReadReply(113), ReadReply(127),
   [WriteReply EXCEPT !.magic = FALSE], [WriteReply EXCEPT !.sum = FALSE],
   [WriteReply EXCEPT !.fn = "unknown"], [ReadReply(1) EXCEPT !.count = 4],
   [Heartbeat EXCEPT !.len = 1024], [Heartbeat EXCEPT !.len = 2000]}

RepliesAndOthers == Replies \cup Others
==============================================================================
