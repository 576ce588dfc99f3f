SPECIFICATION FairSpec
CONSTANTS
  Routes = {r1}
  Kinds = {}
  Tracked = {"Contents"}
  Offers <- FullOffer
  Subjects = {1}
  Cameras = {7}
  Devices = {d1}
  None = None
  r1 = r1
  d1 = d1
PROPERTY ChangesReachServer
