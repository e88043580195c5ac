SPECIFICATION FairSpec
CONSTANTS
  Jobs = {timer}
  Loop = Loop
  Batches = {b1}
  Nobody = Nobody
  KeyFromEnv = FALSE
  MaxHurt <- AnyHurt
INVARIANT GateHonest
PROPERTIES RebuiltNotMerged UpcomingConverges
