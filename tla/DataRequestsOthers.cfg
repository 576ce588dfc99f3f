SPECIFICATION Spec
CONSTANTS
  Routes = {r1}
  Kinds = {"Centroid", "Video"}
  Tracked = {"Contents", "CameraInfo", "Centroids", "VideoFrame"}
  Offers <- FullOffer
  Subjects = {}
  Cameras = {}
  Devices = {}
  None = None
  r1 = r1
PROPERTY DisableKeepsOthers
