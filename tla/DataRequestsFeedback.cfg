SPECIFICATION Spec
CONSTANTS
  Routes = {r1}
  Kinds = {}
  Tracked = {"Contents"}
  Offers <- FullOffer
  Subjects = {}
  Cameras = {}
  Devices = {d1}
  None = None
  r1 = r1
  d1 = d1
INVARIANT FeedbackInStep
