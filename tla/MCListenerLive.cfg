SPECIFICATION FairSpec
CONSTANTS
  Buffers = {b1}
  Readers = {g1, g2}
  ShredReaders = {h1}
  SlotNumbers = {0, 1, 3}
  maxAge = 2
  enableFEC = TRUE
  disableSalvageDelivery = FALSE
  maxLiveSlots = 2
  completedRetentionSlots = 1
  blacklistExtraSlots = 0
  maxPlausibleSlot = 4
  maxBootstrapSlot = 2
  maxSlotJumpForward = 2
  MaxU64 = 7
  MaxPending = 1
  Injects = FALSE
  NoBuffer = NoBuffer
  NoPacket = NoPacket
PROPERTIES CloseEndsIterators CancelEndsIterators TailsDelivered
