SPECIFICATION FairSpec
CONSTANTS
  Syncers = {timer}
  Checkers = {daily}
  Nobody = Nobody
  NoFile = NoFile
  Damaged = Damaged
  KeyFromEnv = FALSE
  MaxNow = 2
  MaxHurt <- AnyHurt
PROPERTIES StatusNeverRollsBack MigrationLosesNothing StatusRegenerates
