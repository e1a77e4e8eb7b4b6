\* Responses of up to three words and some longer, cut everywhere, on every adapter.
SPECIFICATION Spec
CONSTANTS
  Setups <- Every
  MaxPiece = 4
  MaxReasoning = 1
  MaxArgs = 2
  MaxFrames = 2
INVARIANTS
  TypeOK
  BlockProtocol
  AsWritten
  ArgumentsReachTheirCall
CHECK_DEADLOCK FALSE
