SPECIFICATION FairSpec
CONSTANTS
  MAX_NUM_TAPS = 1
  NumBatches = 2
  NumExts = 2
  MaxRev = 2
  BatchStatuses = {"completed"}
  FetchOrder <- Completed
  ManualBeers = {}
  NoFile = NoFile
  Damaged = Damaged
  NotText = NotText
  MaxHurt <- AnyHurt
  MaxKinds = 1
INVARIANTS OnePhotoPerTap OwnPhoto CurrentPhoto
PROPERTIES SyncLeavesTapsCurrent TapsConverge
