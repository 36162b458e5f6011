SPECIFICATION FairSpec
CONSTANTS
  Monitor = Monitor
  Backfill = Backfill
  Api = Api
  Free = Free
  MaxTime = 2
  Packages = {1, 2, 11}
  Reported = {"working", "error", "zeros", "PVS"}
INVARIANTS
  TypeOK
  AppliedOnce
  NoDuplicateMigration
  ServesReadySchema
  NothingLost
  ComputedFromAll
PROPERTIES
  ImplementsUpgrade
  UpgradeCompletes
  ApiComesUp
