SPECIFICATION Spec
CONSTANTS
  Buffers = {b1, b2, b3}
  Readers = {g1, g2}
  ShredReaders = {}
  SlotNumbers = {0, 1, 3, 5}
  maxAge = 2
  enableFEC = TRUE
  disableSalvageDelivery = FALSE
  maxLiveSlots = 2
  completedRetentionSlots = 1
  blacklistExtraSlots = 0
  maxPlausibleSlot = 4
  maxBootstrapSlot = 2
  maxSlotJumpForward = 2
  MaxU64 = 7
  MaxPending = 1
  Injects = TRUE
  NoBuffer = NoBuffer
  NoPacket = NoPacket
SYMMETRY Symmetric
INVARIANTS TypeOK BufferOwnership EvictedStaysClosed LastSlotNewest LiveSlotsBounded
PROPERTY EvictsOnlyOld
