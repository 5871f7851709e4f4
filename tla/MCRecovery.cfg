SPECIFICATION RecoverySpec
CONSTANTS
  Leader <- MCLeader
  Layouts <- MCLayouts
  Build <- MCBuild
  NoCode <- BuildError
  LargeCases <- MCLargeCases
  cacheCapacity = 2
INVARIANTS
  CacheInStep
  CacheHoldsLastUsed
  RecoversWhatWasSent
  EnoughShardsSuffice
  TablesGiveTheField
  LargeLayoutsRecover
