--------------------------- MODULE CameraQueries ---------------------------
(* What VClient answers about the cameras of the frame it holds: their names *)
(* and properties, and the centroids, greyscale blobs and video image that   *)
(* each of them saw.  Cameras are asked for by name; their data comes in     *)
(* sets that carry the id of the camera.                                     *)
(*                                                                           *)
(* A frame has the lists cameras, sensors, centroids, weights, subsampled    *)
(* and full greyscale blobs, and video frames.                               *)
EXTENDS FrameQueries

-----------------------------------------------------------------------------
(* Cameras *)

\* What the server keeps to: an id is one camera's, and a camera has one set of
\* centroids.
HasCameras(f) ==
    /\ {"cameras", "centroids", "subsampled", "blobs"} \subseteq DOMAIN f
    /\ IsList(f.cameras) /\ Distinct(f.cameras, Id)
    /\ IsList(f.centroids) /\ Distinct(f.centroids, LAMBDA x : x.camera)
    /\ IsList(f.subsampled) /\ IsList(f.blobs)
    /\ \A x \in Range(f.subsampled) \cup Range(f.blobs) : IsList(x.blobs)

ASSUME CamerasAssumption == \A f \in Frames : HasCameras(f)

\* What a camera is called: its name, or its type when it has none.
LabelOf(c) == IF c.name = "" THEN c.type ELSE c.name

\* Variant for mutation testing: the id is left out.
AdaptCameraName_NoID(c) == <<LabelOf(c)>>

\* Two cameras may have one name or none: the id makes the key unique.  It is
\* the label and, behind it in parentheses, the id, which can be read back.
AdaptCameraName(c) == <<LabelOf(c), c.id>>

GetCamera(camera, Query(_)) ==
    FirstOf(heldFrame.cameras, LAMBDA c : AdaptCameraName(c) = camera,
            Query, Fail("InvalidCameraName"))
InCamera(camera, Query(_)) == InitGet(GetCamera(camera, Query))

GetCameraCount == InitGet(Answer(Len(heldFrame.cameras)))
GetCameraName(i) == InitGet(At(heldFrame.cameras, i, AdaptCameraName))

\* GetCameraID, GetCameraUserID, GetCameraType and GetCameraDisplayName do not
\* ask whether the client is connected: they answer from a frame that is held.
OfHeldCamera(camera, Value(_)) ==
    IF HasData THEN GetCamera(camera, LAMBDA c : Answer(Value(c))) ELSE Fail("InvalidCameraName")
GetCameraID(camera) == OfHeldCamera(camera, LAMBDA c : c.id)
GetCameraUserID(camera) == OfHeldCamera(camera, LAMBDA c : c.userID)
GetCameraType(camera) == OfHeldCamera(camera, LAMBDA c : c.type)
GetCameraDisplayName(camera) == OfHeldCamera(camera, Name)

GetCameraResolution(camera) == InCamera(camera, LAMBDA c : Answer(c.resolution))
GetIsVideoCamera(camera) == InCamera(camera, LAMBDA c : Answer(c.video))

-----------------------------------------------------------------------------
(* What a camera saw *)

\* GetCentroidSet, GetCentroidWeightSet, GetCameraSensorInfo, GetVideoFrame
SetOf(list, camera, Query(_), missing) ==
    InCamera(camera, LAMBDA c :
        FirstOf(list, LAMBDA x : x.camera = c.id, Query, Fail(missing)))

GetCameraSensorMode(camera) ==
    SetOf(heldFrame.sensors, camera, LAMBDA x : Answer(x.mode), "NotPresent")
GetCameraWindowSize(camera) ==
    SetOf(heldFrame.sensors, camera, LAMBDA x : Answer(x.window), "NotPresent")

GetCentroidCount(camera) ==
    SetOf(heldFrame.centroids, camera, LAMBDA x : Answer(Len(x.centroids)), "InvalidIndex")
GetCentroidPosition(camera, i) ==
    SetOf(heldFrame.centroids, camera, LAMBDA x : At(x.centroids, i, LAMBDA p : p), "InvalidIndex")
GetCentroidWeight(camera, i) ==
    SetOf(heldFrame.weights, camera, LAMBDA x : At(x.weights, i, LAMBDA w : w), "InvalidIndex")

\* Subsampled blobs are looked for first, then the full ones.
GetGreyscaleBlobs(camera, Query(_)) ==
    SetOf(heldFrame.subsampled \o heldFrame.blobs, camera, Query, "InvalidIndex")

GetGreyscaleBlobCount(camera) == GetGreyscaleBlobs(camera, LAMBDA x : Answer(Len(x.blobs)))
GetGreyscaleBlobSubsampleInfo(camera) == GetGreyscaleBlobs(camera, LAMBDA x : Answer(x.scale))
GetGreyscaleBlob(camera, i) == GetGreyscaleBlobs(camera, LAMBDA x : At(x.blobs, i, LAMBDA b : b))

GetVideoFrame(camera) ==
    SetOf(heldFrame.videos, camera, LAMBDA x : Answer(x.image), "InvalidIndex")
-----------------------------------------------------------------------------
\* Cameras that share a name, or have none, are told apart: each name listed
\* leads back to the camera listed and to the centroids that carry its id.  The
\* blobs of a camera, their number and their scale come of one set, also when the
\* server sent subsampled and full blobs of it and each query searches anew.
CamerasAreToldApart ==
    Reading => \A i \in DOMAIN heldFrame.cameras :
        LET c == heldFrame.cameras[i]
            name == GetCameraName(i - 1).value
            seen == {x \in Range(heldFrame.centroids) : x.camera = c.id}
            blobs == {x \in Range(heldFrame.subsampled \o heldFrame.blobs) : x.camera = c.id}
        IN /\ GetCameraID(name) = Answer(c.id)
           /\ IF seen = {} THEN GetCentroidCount(name) = Fail("InvalidIndex")
              ELSE \A x \in seen : GetCentroidCount(name) = Answer(Len(x.centroids))
           /\ Succeeds(GetGreyscaleBlobCount(name)) => \E x \in blobs :
                /\ x.scale = GetGreyscaleBlobSubsampleInfo(name).value
                /\ Len(x.blobs) = GetGreyscaleBlobCount(name).value
                /\ \A k \in DOMAIN x.blobs : GetGreyscaleBlob(name, k - 1) = Answer(x.blobs[k])
=============================================================================
