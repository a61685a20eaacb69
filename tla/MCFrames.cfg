\* Three frames of any kind, read 17 or 300 bytes at a time.
CONSTANTS
  Traffic <- RepliesAndOthers
  MaxRegisters = 109
  Chunks = {17, 300}
  MaxFrames = 3
SPECIFICATION Spec
INVARIANTS TypeOK NothingLeftBehind RegularFramesAreRead BufferHoldsOneFrame NoUnderflow
PROPERTIES DecoderDelivers
CHECK_DEADLOCK FALSE
