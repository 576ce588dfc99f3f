SPECIFICATION FairSpec
CONSTANTS
  Segments = {s1}
  Occludable = {}
  Creators = {c1, c2}
  Pose <- MCOnePose
  Identity = 0
  Compose <- MCCompose
  Inverse <- MCInverse
  NaN = NaN
  Torn = Torn
  None = None
  BroadcastTf = TRUE
  MaxSamples = 2
  MaxRestarts = 1
PROPERTIES SegmentsArePublished CallsReturn
