SPECIFICATION Spec
CONSTANTS
  Routes = {r1, r2}
  Kinds = {"Segment", "Lightweight"}
  Tracked = {"Contents", "SubjectTopology", "LightweightSegments"}
  Offers <- BothOffers
  Subjects = {}
  Cameras = {}
  Devices = {}
  None = None
  r1 = r1
  r2 = r2
INVARIANTS NothingUnasked ServerInStep
PROPERTY LightweightIsAlone
