SPECIFICATION FairSpec
CONSTANTS
  NumPlaces = 3
  Album <- TwoAlbums
  c1 = c1
  c2 = c2
  Contents = {c1, c2}
  Unreadable = {c2}
  Keys = {k1, k2}
  DefaultKey = k1
  Tokens = {t1}
  None = None
  Nobody = Nobody
  StartDisks <- SomeDisks
  MaxDone <- Once
  MaxKinds = 2
INVARIANTS BinRecorded NoStrayCopies KickNotLost
PROPERTIES OriginalsKept NoSecondUpload PhotosGetReady
