SPECIFICATION SnapshotSpec
CONSTANTS
  MAX_NUM_TAPS = 1
  NumBatches = 1
  NumExts = 2
  MaxRev = 1
  BatchStatuses = {"conditioning"}
  FetchOrder <- Conditioning
  ManualBeers = {m1}
  m1 = m1
  NoFile = NoFile
  Damaged = Damaged
  NotText = NotText
  MaxHurt <- Hurt
  MaxKinds = 1
  Uploads <- MCUploads
  Browsers = {b1, b2}
  NoZip = NoZip
INVARIANT AskedAboutWhatIsThere
PROPERTIES ImportIsARestore ArchivedBeforeRemoved SyncNeverShowsThroughOverride
SYMMETRY Symmetry
