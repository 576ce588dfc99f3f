----------------------------- MODULE ViconBridge -----------------------------
(***************************************************************************)
(* The ROS node vicon_bridge (class ViconReceiver): the registry of        *)
(* segment publishers and the life cycle of their origin calibration.      *)
(*                                                                         *)
(* Four kinds of threads share the registry:                               *)
(*   - the grab thread (the main thread inside grabThread) processes the   *)
(*     frames of the Vicon server one after the other; it looks a segment  *)
(*     up under scoped_try_lock and starts a detached creator thread for a *)
(*     segment that it does not find;                                      *)
(*   - a creator thread inserts the segment under the lock and fills the   *)
(*     entry in after it has released the lock;                            *)
(*   - the spinner thread runs the two services, one call at a time, and   *)
(*     reads and writes the entry without the lock;                        *)
(*   - the tf listener that a service call creates receives what the grab  *)
(*     thread broadcasts.                                                  *)
(* The ROS parameter server keeps zero_pose over a restart of the node.    *)
(*                                                                         *)
(* Poses are the elements of a group: Compose is the product of two rigid  *)
(* transforms.  Translation and rotation are told apart only where they    *)
(* are stored separately, on the parameter server.  z_offset is 0, and     *)
(* the subjects of a frame are visited in any order.                       *)
(***************************************************************************)
EXTENDS Integers, FiniteSets

CONSTANTS
  Segments,        \* the names "subject/segment" that the server streams
  Occludable,      \* the segments that may be missing from a frame
  Creators,        \* ids of creator threads; bounds how many live at once
  Pose,            \* the rigid transforms
  Identity,        \* the neutral element of Pose
  Compose(_, _),   \* the product of two poses
  Inverse(_),      \* the inverse of a pose
  NaN,             \* the pose whose numbers are not a number
  Torn,            \* a pose made of parts of different poses
  None,            \* no value
  BroadcastTf,     \* the parameter ~broadcast_transform
  MaxSamples,      \* bounds n_measurements of a request
  MaxRestarts      \* bounds how often the node is killed and restarted

ASSUME PoseAssumption ==
  /\ Identity \in Pose
  /\ \A p, q \in Pose : Compose(p, q) \in Pose
  /\ \A p \in Pose : Inverse(p) \in Pose
  /\ \A p \in Pose : Compose(p, Identity) = p /\ Compose(p, Inverse(p)) = Identity

\* the service call that the spinner thread works on
Request == [kind : {"grab", "calibrate"}, seg : Segments]

ASSUME ValueAssumption ==
  /\ NaN \notin Pose /\ Torn \notin Pose /\ None \notin Pose
  /\ NaN # Torn /\ NaN # None /\ Torn # None
  /\ None \notin Segments /\ None \notin Request

ASSUME BoundAssumption ==
  /\ Occludable \subseteq Segments
  /\ BroadcastTf \in BOOLEAN
  /\ MaxSamples \in Nat
  /\ MaxRestarts \in Nat

VARIABLES
  \* the SegmentMap and the fields of its entries
  segment_publishers, \* the keys of the map
  is_ready,           \* the segments whose entry has is_ready
  calibration_pose,   \* the pose that a published pose is multiplied with
  calibrated,         \* the segments whose entry has calibrated
  \* the creator threads
  creator_pc, creator_seg, creator_zero,
  \* the grab thread
  grab_pc, todo, frame, transforms, after,
  \* the spinner thread and the tf listener of its call
  svc_pc, req, left, measured, latest, fresh,
  \* outside the process
  zero_pose,          \* the parameter server
  raw,                \* where the vehicles stand
  restarts,
  \* history variables: read by no action, only by the properties
  spawned,            \* how many creators the segment has had, 2 for more
  early,              \* the segments that were calibrated before is_ready
  settled             \* the call found its segment with no offset to undo

entry_vars   == <<segment_publishers, is_ready, calibration_pose, calibrated>>
creator_vars == <<creator_pc, creator_seg, creator_zero>>
grab_vars    == <<grab_pc, todo, frame, transforms, after>>
svc_vars     == <<svc_pc, req, left, measured, latest, fresh>>
env_vars     == <<zero_pose, raw, restarts>>
hist_vars    == <<spawned, early, settled>>
vars == <<entry_vars, creator_vars, grab_vars, svc_vars, env_vars, hist_vars>>

-----------------------------------------------------------------------------
(* Arithmetic on poses: a NaN or a torn operand spoils the result.         *)

Value == Pose \cup {NaN, Torn}

Mul(p, q) ==
  IF p \in Pose /\ q \in Pose THEN Compose(p, q)
  ELSE IF NaN \in {p, q} THEN NaN ELSE Torn

Inv(p) == IF p \in Pose THEN Inverse(p) ELSE p

\* orientation and position of a stored pose, put together again
Join(z) == IF z.orientation = z.position THEN z.orientation ELSE Torn

HaveParams(z) == z.orientation # None /\ z.position # None

\* the calibration that a node restores from the stored zero pose z
Restored(z) == IF HaveParams(z) THEN Inv(Join(z)) ELSE Identity

\* the average over the measured poses: of none it is 0/0, of different
\* poses it is none of them
Average(S) == IF S = {} THEN NaN
              ELSE IF \E v \in Value : S = {v} THEN CHOOSE v \in S : TRUE
              ELSE Torn

-----------------------------------------------------------------------------
NoZeroPose == [orientation |-> None, position |-> None]

Init ==
  /\ segment_publishers = {}
  /\ is_ready = {}
  /\ calibration_pose = [s \in Segments |-> Identity]
  /\ calibrated = {}
  /\ creator_pc = [c \in Creators |-> "idle"]
  /\ creator_seg = [c \in Creators |-> None]
  /\ creator_zero = [c \in Creators |-> NoZeroPose]
  /\ grab_pc = "getFrame"
  /\ todo = {}
  /\ frame = [s \in Segments |-> Identity]
  /\ transforms = [s \in Segments |-> None]
  /\ after = FALSE
  /\ svc_pc = "idle"
  /\ req = None
  /\ left = 0
  /\ measured = {}
  /\ latest = None
  /\ fresh = FALSE
  /\ spawned = [s \in Segments |-> 0]
  /\ early = {}
  /\ settled = FALSE
  /\ zero_pose = [s \in Segments |-> NoZeroPose]
  /\ raw \in [Segments -> Pose]
  /\ restarts = 0

\* The node is killed at any point and started again.
Restart ==
  /\ restarts < MaxRestarts
  /\ restarts' = restarts + 1
  /\ segment_publishers' = {}
  /\ is_ready' = {}
  /\ calibration_pose' = [s \in Segments |-> Identity]
  /\ calibrated' = {}
  /\ creator_pc' = [c \in Creators |-> "idle"]
  /\ creator_seg' = [c \in Creators |-> None]
  /\ creator_zero' = [c \in Creators |-> NoZeroPose]
  /\ grab_pc' = "getFrame"
  /\ todo' = {}
  /\ frame' = [s \in Segments |-> Identity]
  /\ transforms' = [s \in Segments |-> None]
  /\ after' = FALSE
  /\ svc_pc' = "idle"
  /\ req' = None
  /\ left' = 0
  /\ measured' = {}
  /\ latest' = None
  /\ fresh' = FALSE
  /\ spawned' = [s \in Segments |-> 0]
  /\ early' = {}
  /\ settled' = FALSE
  /\ UNCHANGED <<zero_pose, raw>>

\* A vehicle is carried elsewhere.  The README asks for it to stand still
\* while its origin is calibrated.
Move(s) ==
  /\ ~ (svc_pc # "idle" /\ req.seg = s)
  /\ \E p \in Pose : raw' = [raw EXCEPT ![s] = p]
  /\ UNCHANGED <<entry_vars, creator_vars, grab_vars, svc_vars, hist_vars,
                 zero_pose, restarts>>

-----------------------------------------------------------------------------
(* The grab thread: grabThread, process_frame and process_subjects.        *)

\* The creators that are alive, those of a segment, and whether one of them
\* is between the lock and the unlock of segments_mutex_.
Alive == {c \in Creators : creator_pc[c] # "idle"}
CreatorsOf(s) == {c \in Alive : creator_seg[c] = s}
Locked == \E c \in Creators : creator_pc[c] = "insert"

\* GetFrame delivers a frame in which the segments of S are not occluded; its
\* time stamp is taken now.
GetFrame(S) ==
  /\ grab_pc = "getFrame"
  /\ Segments \ Occludable \subseteq S
  /\ grab_pc' = "subjects"
  /\ todo' = S
  /\ frame' = raw
  /\ after' = TRUE
  /\ UNCHANGED <<entry_vars, creator_vars, transforms, svc_vars, env_vars, hist_vars>>

\* scoped_try_lock does not wait: the segment is left out of this frame.
TryLockFails(s) ==
  /\ grab_pc = "subjects"
  /\ s \in todo
  /\ Locked
  /\ todo' = todo \ {s}
  /\ UNCHANGED <<entry_vars, creator_vars, grab_pc, frame, transforms, after,
                 svc_vars, env_vars, hist_vars>>

\* The entry exists: its pose is published once is_ready is set.  Nobody who
\* changes is_ready or calibration_pose takes the lock, so the lock only
\* keeps the lookup apart from the insertion.
ProcessSegment(s) ==
  /\ grab_pc = "subjects"
  /\ s \in todo
  /\ ~ Locked
  /\ s \in segment_publishers
  /\ todo' = todo \ {s}
  /\ transforms' = IF s \in is_ready
                   THEN [transforms EXCEPT ![s] = Mul(frame[s], calibration_pose[s])]
                   ELSE transforms
  /\ UNCHANGED <<entry_vars, creator_vars, grab_pc, frame, after, svc_vars,
                 env_vars, hist_vars>>

\* The entry does not exist: a detached thread will create it.  The grab
\* thread waits when all ids of creators are taken; the code has no bound.
CreateSegment(s) ==
  /\ grab_pc = "subjects"
  /\ s \in todo
  /\ ~ Locked
  /\ s \notin segment_publishers
  /\ todo' = todo \ {s}
  /\ \E c \in Creators :
       /\ creator_pc[c] = "idle"
       /\ creator_pc' = [creator_pc EXCEPT ![c] = "lock"]
       /\ creator_seg' = [creator_seg EXCEPT ![c] = s]
  /\ spawned' = [spawned EXCEPT ![s] = IF @ = 0 THEN 1 ELSE 2]
  /\ UNCHANGED <<entry_vars, creator_zero, grab_pc, frame, transforms, after,
                 svc_vars, env_vars, early, settled>>

\* Variant for mutation testing: any transform will do, however old.
SendTransforms_AnyTime ==
  /\ grab_pc = "subjects"
  /\ todo = {}
  /\ grab_pc' = "getFrame"
  /\ IF BroadcastTf /\ svc_pc = "sample" /\ transforms[req.seg] \notin {None, NaN}
     THEN /\ latest' = transforms[req.seg]
          /\ fresh' = TRUE
     ELSE UNCHANGED <<latest, fresh>>
  /\ frame' = [s \in Segments |-> Identity]
  /\ transforms' = [s \in Segments |-> None]
  /\ after' = FALSE
  /\ UNCHANGED <<entry_vars, creator_vars, todo, svc_pc, req, left, measured,
                 env_vars, hist_vars>>

\* All segments are done: tf_broadcaster_.sendTransform.  The listener of a
\* running service call receives the pose of its segment; tf refuses a
\* transform that is not a number.
SendTransforms ==
  /\ grab_pc = "subjects"
  /\ todo = {}
  /\ grab_pc' = "getFrame"
  /\ IF BroadcastTf /\ svc_pc = "sample" /\ transforms[req.seg] \notin {None, NaN}
     THEN /\ latest' = transforms[req.seg]
          /\ fresh' = (fresh \/ after)
     ELSE UNCHANGED <<latest, fresh>>
  /\ frame' = [s \in Segments |-> Identity]
  /\ transforms' = [s \in Segments |-> None]
  /\ after' = FALSE
  /\ UNCHANGED <<entry_vars, creator_vars, todo, svc_pc, req, left, measured,
                 env_vars, hist_vars>>

-----------------------------------------------------------------------------
(* A creator thread: createSegmentThread.                                  *)

CreatorStep(c, from, to) ==
  /\ creator_pc[c] = from
  /\ creator_pc' = [creator_pc EXCEPT ![c] = to]

Lock(c) ==
  /\ CreatorStep(c, "lock", "insert")
  /\ ~ Locked
  /\ UNCHANGED <<entry_vars, creator_seg, creator_zero, grab_vars, svc_vars,
                 env_vars, hist_vars>>

\* segment_publishers_[key] makes the entry, or finds the one that another
\* creator has made; then the lock is released.
Insert(c) ==
  /\ CreatorStep(c, "insert", "orientation")
  /\ segment_publishers' = segment_publishers \cup {creator_seg[c]}
  /\ UNCHANGED <<is_ready, calibration_pose, calibrated, creator_seg,
                 creator_zero, grab_vars, svc_vars, env_vars, hist_vars>>

\* The seven getParam calls, one for each part of the zero pose.
GetOrientation(c) ==
  /\ CreatorStep(c, "orientation", "position")
  /\ creator_zero' = [creator_zero EXCEPT
       ![c].orientation = zero_pose[creator_seg[c]].orientation]
  /\ UNCHANGED <<entry_vars, creator_seg, grab_vars, svc_vars, env_vars, hist_vars>>

GetPosition(c) ==
  /\ CreatorStep(c, "position", "store")
  /\ creator_zero' = [creator_zero EXCEPT
       ![c].position = zero_pose[creator_seg[c]].position]
  /\ UNCHANGED <<entry_vars, creator_seg, grab_vars, svc_vars, env_vars, hist_vars>>

\* Variant for mutation testing: the loaded zero pose is not inverted.
StoreZeroPose_NotInverted(c) ==
  /\ HaveParams(creator_zero[c])
  /\ CreatorStep(c, "store", "ready")
  /\ calibration_pose' = [calibration_pose EXCEPT
       ![creator_seg[c]] = Join(creator_zero[c])]
  /\ UNCHANGED <<segment_publishers, is_ready, calibrated, creator_seg,
                 creator_zero, grab_vars, svc_vars, env_vars, hist_vars>>

\* calibration_pose is set to the zero pose, to be inverted in place, or to
\* the identity.
StoreZeroPose(c) ==
  /\ HaveParams(creator_zero[c])
  /\ CreatorStep(c, "store", "invert")
  /\ calibration_pose' = [calibration_pose EXCEPT
       ![creator_seg[c]] = Join(creator_zero[c])]
  /\ UNCHANGED <<segment_publishers, is_ready, calibrated, creator_seg,
                 creator_zero, grab_vars, svc_vars, env_vars, hist_vars>>

StoreIdentity(c) ==
  /\ ~ HaveParams(creator_zero[c])
  /\ CreatorStep(c, "store", "ready")
  /\ calibration_pose' = [calibration_pose EXCEPT ![creator_seg[c]] = Identity]
  /\ UNCHANGED <<segment_publishers, is_ready, calibrated, creator_seg,
                 creator_zero, grab_vars, svc_vars, env_vars, hist_vars>>

InvertInPlace(c) ==
  /\ CreatorStep(c, "invert", "ready")
  /\ calibration_pose' = [calibration_pose EXCEPT ![creator_seg[c]] = Inv(@)]
  /\ UNCHANGED <<segment_publishers, is_ready, calibrated, creator_seg,
                 creator_zero, grab_vars, svc_vars, env_vars, hist_vars>>

\* Variant for mutation testing: is_ready is not set.
MarkReady_Forgotten(c) ==
  /\ CreatorStep(c, "ready", "idle")
  /\ UNCHANGED is_ready
  /\ creator_seg' = [creator_seg EXCEPT ![c] = None]
  /\ creator_zero' = [creator_zero EXCEPT ![c] = NoZeroPose]
  /\ UNCHANGED <<segment_publishers, calibration_pose, calibrated, grab_vars,
                 svc_vars, env_vars, hist_vars>>

\* is_ready is set and the thread ends.
MarkReady(c) ==
  /\ CreatorStep(c, "ready", "idle")
  /\ is_ready' = is_ready \cup {creator_seg[c]}
  /\ creator_seg' = [creator_seg EXCEPT ![c] = None]
  /\ creator_zero' = [creator_zero EXCEPT ![c] = NoZeroPose]
  /\ UNCHANGED <<segment_publishers, calibration_pose, calibrated, grab_vars,
                 svc_vars, env_vars, hist_vars>>

CreateSegmentThread(c) ==
  \/ Lock(c) \/ Insert(c)
  \/ GetOrientation(c) \/ GetPosition(c)
  \/ StoreZeroPose(c) \/ StoreIdentity(c) \/ InvertInPlace(c)
  \/ MarkReady(c)

-----------------------------------------------------------------------------
(* The spinner thread: grabPoseCallback and calibrateSegmentCallback.      *)

\* A new listener has received nothing yet.
StartSampling ==
  /\ measured' = {}
  /\ latest' = None
  /\ fresh' = FALSE
  /\ after' = FALSE

\* The callback returns; its variables and its listener are gone.
Return ==
  /\ svc_pc' = "idle"
  /\ req' = None
  /\ left' = 0
  /\ measured' = {}
  /\ latest' = None
  /\ fresh' = FALSE

\* grab_vicon_pose takes any name, known or not.
CallGrabPose(s, n) ==
  /\ svc_pc = "idle"
  /\ req' = [kind |-> "grab", seg |-> s]
  /\ svc_pc' = "sample"
  /\ left' = n
  /\ StartSampling
  /\ settled' = FALSE
  /\ UNCHANGED <<entry_vars, creator_vars, grab_pc, todo, frame, transforms,
                 env_vars, spawned, early>>

\* calibrate_segment looks the name up without the lock.  A name that is not
\* found - or that the lookup misses because a creator is rearranging the map
\* at this moment - fails the call, which then changes nothing: no step.
CallCalibrate(s, n) ==
  /\ svc_pc = "idle"
  /\ s \in segment_publishers
  /\ req' = [kind |-> "calibrate", seg |-> s]
  /\ svc_pc' = "reset"
  /\ left' = n
  /\ settled' = (CreatorsOf(s) = {} /\
                 (s \in calibrated \/ calibration_pose[s] = Identity))
  /\ early' = IF s \in is_ready THEN early ELSE early \cup {s}
  /\ UNCHANGED <<entry_vars, creator_vars, grab_vars, measured, latest, fresh,
                 env_vars, spawned>>

\* "already calibrated, deleting old calibration", then grabPoseCallback.
DeleteOldCalibration ==
  /\ svc_pc = "reset"
  /\ calibration_pose' = IF req.seg \in calibrated
                         THEN [calibration_pose EXCEPT ![req.seg] = Identity]
                         ELSE calibration_pose
  /\ svc_pc' = "sample"
  /\ StartSampling
  /\ UNCHANGED <<segment_publishers, is_ready, calibrated, creator_vars,
                 grab_pc, todo, frame, transforms, req, left, env_vars, hist_vars>>

\* waitForTransform(now) has seen a transform that is newer than the start of
\* this measurement; lookupTransform returns the latest.  The next
\* measurement starts: whatever has been grabbed before it is old.
MeasurementSucceeds ==
  /\ svc_pc = "sample"
  /\ left > 0
  /\ fresh
  /\ left' = left - 1
  /\ measured' = measured \cup {latest}
  /\ fresh' = FALSE
  /\ after' = FALSE
  /\ UNCHANGED <<entry_vars, creator_vars, grab_pc, todo, frame, transforms,
                 svc_pc, req, latest, env_vars, hist_vars>>

\* Variant for mutation testing: a timed out measurement is repeated.
MeasurementTimesOut_Retries ==
  /\ svc_pc = "sample"
  /\ left > 0
  /\ UNCHANGED left
  /\ fresh' = FALSE
  /\ after' = FALSE
  /\ UNCHANGED <<entry_vars, creator_vars, grab_pc, todo, frame, transforms,
                 svc_pc, req, measured, latest, env_vars, hist_vars>>

\* waitForTransform gives up after 0.1 s.
MeasurementTimesOut ==
  /\ svc_pc = "sample"
  /\ left > 0
  /\ left' = left - 1
  /\ fresh' = FALSE
  /\ after' = FALSE
  /\ UNCHANGED <<entry_vars, creator_vars, grab_pc, todo, frame, transforms,
                 svc_pc, req, measured, latest, env_vars, hist_vars>>

\* grab_vicon_pose answers success with the average.
AnswerGrabPose ==
  /\ svc_pc = "sample"
  /\ left = 0
  /\ req.kind = "grab"
  /\ Return
  /\ UNCHANGED <<entry_vars, creator_vars, grab_vars, env_vars, hist_vars>>

\* calibrate_segment makes the average the new origin.
SetCalibration ==
  /\ svc_pc = "sample"
  /\ left = 0
  /\ req.kind = "calibrate"
  /\ calibration_pose' = [calibration_pose EXCEPT ![req.seg] = Inv(Average(measured))]
  /\ svc_pc' = "orientation"
  /\ UNCHANGED <<segment_publishers, is_ready, calibrated, creator_vars,
                 grab_vars, req, left, measured, latest, fresh, env_vars, hist_vars>>

\* The seven setParam calls.
SetOrientation ==
  /\ svc_pc = "orientation"
  /\ zero_pose' = [zero_pose EXCEPT ![req.seg].orientation = Average(measured)]
  /\ svc_pc' = "position"
  /\ UNCHANGED <<entry_vars, creator_vars, grab_vars, req, left, measured,
                 latest, fresh, raw, restarts, hist_vars>>

SetPosition ==
  /\ svc_pc = "position"
  /\ zero_pose' = [zero_pose EXCEPT ![req.seg].position = Average(measured)]
  /\ svc_pc' = "answer"
  /\ UNCHANGED <<entry_vars, creator_vars, grab_vars, req, left, measured,
                 latest, fresh, raw, restarts, hist_vars>>

\* "calibration successful"
AnswerCalibrate ==
  /\ svc_pc = "answer"
  /\ calibrated' = calibrated \cup {req.seg}
  /\ Return
  /\ UNCHANGED <<segment_publishers, is_ready, calibration_pose, creator_vars,
                 grab_vars, env_vars, hist_vars>>

ServiceStep ==
  \/ DeleteOldCalibration
  \/ MeasurementSucceeds \/ MeasurementTimesOut
  \/ AnswerGrabPose
  \/ SetCalibration \/ SetOrientation \/ SetPosition \/ AnswerCalibrate

-----------------------------------------------------------------------------
GrabStep ==
  \/ \E S \in SUBSET Segments : GetFrame(S)
  \/ \E s \in Segments : TryLockFails(s) \/ ProcessSegment(s) \/ CreateSegment(s)
  \/ SendTransforms

Call ==
  \E s \in Segments, n \in 1 .. MaxSamples :
    CallGrabPose(s, n) \/ CallCalibrate(s, n)

Next ==
  \/ GrabStep
  \/ \E c \in Creators : CreateSegmentThread(c)
  \/ Call
  \/ ServiceStep
  \/ \E s \in Segments : Move(s)
  \/ Restart

Spec == Init /\ [][Next]_vars

\* The operating system keeps running the threads, and the server keeps
\* sending frames.  Nobody has to call a service, and the node need not be
\* restarted.
FairSpec ==
  /\ Spec
  /\ WF_vars(GrabStep)
  /\ WF_vars(ServiceStep)
  /\ \A c \in Creators : WF_vars(CreateSegmentThread(c))

-----------------------------------------------------------------------------
Stored == Value \cup {None}
ZeroPose == [orientation : Stored, position : Stored]

CreatorPCs == {"idle", "lock", "insert", "orientation", "position", "store",
               "invert", "ready"}
ServicePCs == {"idle", "reset", "sample", "orientation", "position", "answer"}

\* Every variable holds what its declaration in ViconReceiver can hold, and a
\* variable that a thread is about to use has been set.
TypeOK ==
  /\ segment_publishers \subseteq Segments
  /\ is_ready \subseteq Segments
  /\ calibration_pose \in [Segments -> Value]
  /\ calibrated \subseteq Segments
  /\ creator_pc \in [Creators -> CreatorPCs]
  /\ creator_seg \in [Creators -> Segments \cup {None}]
  /\ \A c \in Creators : creator_pc[c] # "idle" => creator_seg[c] # None
  /\ creator_zero \in [Creators -> ZeroPose]
  /\ grab_pc \in {"getFrame", "subjects"}
  /\ todo \subseteq Segments
  /\ frame \in [Segments -> Pose]
  /\ transforms \in [Segments -> Stored]
  /\ after \in BOOLEAN
  /\ svc_pc \in ServicePCs
  /\ req \in Request \cup {None}
  /\ svc_pc # "idle" => req # None
  /\ left \in 0 .. MaxSamples
  /\ measured \subseteq Value
  /\ latest \in Stored
  /\ fresh \in BOOLEAN
  /\ fresh => latest # None
  /\ zero_pose \in [Segments -> ZeroPose]
  /\ raw \in [Segments -> Pose]
  /\ restarts \in 0 .. MaxRestarts
  /\ spawned \in [Segments -> 0 .. 2]
  /\ early \subseteq Segments
  /\ settled \in BOOLEAN

\* The segment whose calibration the spinner thread is changing.
Calibrating(s) == svc_pc # "idle" /\ req.kind = "calibrate" /\ req.seg = s

\* A segment that one creator has made ready, and that no service call
\* touched before it was, is published with exactly the calibration that a
\* restarted node restores from the parameter server: across loading,
\* calibrating again and being killed at any point in between, the entry and
\* the stored zero pose do not drift apart.
CalibrationMatchesStore ==
  \A s \in is_ready :
    (spawned[s] = 1 /\ s \notin early /\ ~ Calibrating(s))
      => calibration_pose[s] = Restored(zero_pose[s])

\* A calibration that starts from a segment without an offset, or with one
\* that it deletes, measures where the vehicle stands: no pose that the grab
\* thread computed with the old offset is averaged, whatever frame was being
\* processed or delivered while the offset was deleted.
SettledMeasuresRaw ==
  (svc_pc # "idle" /\ req.kind = "calibrate" /\ settled)
    => measured \subseteq {raw[req.seg]}

\* What the comment in createSegmentThread says: after the unlock, the rest
\* of the entry is protected by is_ready, so no creator changes the
\* calibration of an entry that is ready.
ReadyProtects ==
  [][\A c \in Creators :
       (CreateSegmentThread(c) /\ creator_seg[c] \in is_ready)
         => calibration_pose'[creator_seg[c]] = calibration_pose[creator_seg[c]]]_vars

\* What the README says of the origin calibration: the poses are grabbed,
\* averaged, and the vehicle is placed in the origin.  The service is about
\* to answer "calibration successful", it has measured, and one creator alone
\* has made the entry: the standing vehicle is published at the origin.
CalibratedSitsAtOrigin ==
  (svc_pc = "answer" /\ measured # {} /\ req.seg \notin early /\ spawned[req.seg] = 1)
    => Mul(raw[req.seg], calibration_pose[req.seg]) = Identity

\* "All available subjects and segments are recognized automatically and
\* published": a segment that is never occluded is broadcast again and again,
\* whoever holds the lock when it is looked up and however often the node is
\* restarted.
SegmentsArePublished ==
  \A s \in Segments \ Occludable :
    []<>(grab_pc = "subjects" /\ todo = {} /\ transforms[s] # None)

\* A service call comes to its end, even when tf delivers nothing.
CallsReturn == (svc_pc # "idle") ~> (svc_pc = "idle")

-----------------------------------------------------------------------------
(* The inductive invariant behind the two safety invariants.               *)

\* What the program counters of the grab and the spinner thread imply.
ControlInv ==
  /\ grab_pc = "getFrame" => transforms = [s \in Segments |-> None]
  /\ (grab_pc = "subjects" /\ fresh) => after
  /\ svc_pc = "idle" => measured = {}
  /\ svc_pc = "reset" => measured = {}
  /\ svc_pc \in {"reset", "orientation", "position", "answer"} => req.kind = "calibrate"

\* Where the creators of a segment are, and what they leave behind.
CreatorInv ==
  /\ is_ready \subseteq segment_publishers
  /\ \A c \in Alive :
       /\ creator_pc[c] \notin {"lock", "insert"} => creator_seg[c] \in segment_publishers
       /\ spawned[creator_seg[c]] # 0
       /\ spawned[creator_seg[c]] = 1 => creator_seg[c] \notin is_ready
  /\ \A c, d \in Alive :
       (creator_seg[c] = creator_seg[d] /\ spawned[creator_seg[c]] = 1) => c = d
  /\ \A s \in segment_publishers : spawned[s] # 0
  /\ \A s \in Segments : Calibrating(s) => s \in is_ready \cup early

\* A lone creator works on the zero pose that is on the parameter server.
LoadInv ==
  \A c \in Alive :
    (spawned[creator_seg[c]] = 1 /\ creator_seg[c] \notin early)
      => LET s == creator_seg[c] IN
         /\ creator_pc[c] = "position"
              => creator_zero[c].orientation = zero_pose[s].orientation
         /\ creator_pc[c] \in {"store", "invert"} => creator_zero[c] = zero_pose[s]
         /\ creator_pc[c] = "invert" => /\ HaveParams(zero_pose[s])
                                        /\ calibration_pose[s] = Join(zero_pose[s])
         /\ creator_pc[c] = "ready" => calibration_pose[s] = Restored(zero_pose[s])

\* How far a calibration has written its result.
StoreInv ==
  (svc_pc \in {"orientation", "position", "answer"}
     /\ spawned[req.seg] = 1 /\ req.seg \notin early)
    => /\ calibration_pose[req.seg] = Inv(Average(measured))
       /\ svc_pc \in {"position", "answer"}
            => zero_pose[req.seg].orientation = Average(measured)
       /\ svc_pc = "answer" => zero_pose[req.seg].position = Average(measured)

\* Everything newer than the start of a measurement is the raw pose.
SampleInv ==
  (svc_pc # "idle" /\ req.kind = "calibrate" /\ settled)
    => /\ CreatorsOf(req.seg) = {}
       /\ req.seg \in segment_publishers
       /\ svc_pc = "reset" => \/ req.seg \in calibrated
                              \/ calibration_pose[req.seg] = Identity
       /\ svc_pc = "sample" =>
            /\ calibration_pose[req.seg] = Identity
            /\ after => /\ frame[req.seg] = raw[req.seg]
                        /\ transforms[req.seg] \in {None, raw[req.seg]}
            /\ fresh => latest = raw[req.seg]

IInv ==
  /\ TypeOK
  /\ ControlInv
  /\ CreatorInv
  /\ LoadInv
  /\ StoreInv
  /\ SampleInv
  /\ CalibrationMatchesStore
  /\ SettledMeasuresRaw

=============================================================================
