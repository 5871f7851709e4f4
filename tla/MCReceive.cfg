SPECIFICATION Spec
CONSTANTS
  r1 = r1
  r2 = r2
  capacity = 2
  BufferSize = 2048
  Readers <- MCReaders
  Arriving <- MCArriving
  enableFEC = TRUE
  MaxReads = 3
SYMMETRY Symmetry
INVARIANTS
  FreelistSound
  BytesAsReceived
  PayloadInBuffer
  EveryDatagramCounted
  SumWithinCall
  LeadersShredsParse
  ShardsFitDatagrams
