SPECIFICATION Spec
CONSTANTS
  Monitor = Monitor
  Backfill = Backfill
  Api = Api
  Free = Free
  MaxTime = 0
  Packages = {2, 11}
  Reported = {}
PROPERTY SoleMigrator
