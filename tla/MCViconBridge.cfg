SPECIFICATION Spec
CONSTANTS
  Segments = {s1}
  Occludable = {s1}
  Creators = {c1, c2}
  Pose <- MCPose
  Identity = 0
  Compose <- MCCompose
  Inverse <- MCInverse
  NaN = NaN
  Torn = Torn
  None = None
  BroadcastTf = TRUE
  MaxSamples = 1
  MaxRestarts = 1
SYMMETRY MCSymmetry
INVARIANTS CalibrationMatchesStore SettledMeasuresRaw
