SPECIFICATION FairSpec
CONSTANTS
  maxEntryCount = 9
  CellBytes = 10
  Malformed = {99}
  NoSig = 98
  Ledger <- MCLedger
  FecLayout <- MCFecLayout
  RawLens <- MCRawLens
  CodeLens <- MCCodeLens
  DataHeaderSize = 2
  CodeHeaderSize = 3
  DataShredPayloadLen = 9
  ShardEnd = 8
  CodeShardEnd = 9
  MaxTotalShards = 8
  MaxFECSetsPerSlot = 2
  StuckBatchTimeout = 1
  disableSalvageDelivery = FALSE
  MaxU32 = 15
PROPERTY StuckBatchFinalized
CHECK_DEADLOCK FALSE
