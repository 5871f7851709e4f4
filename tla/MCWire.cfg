SPECIFICATION Spec
\* A stream ends.
CHECK_DEADLOCK FALSE
CONSTANTS
  SignatureSize = 64
  PubkeySize = 32
  MaxSignatures = 256
  Streams <- MCStreams
INVARIANTS
  TransactionsDecoded
  WithinReceived
  NumbersReadBack
PROPERTIES
  DecisionsStand
