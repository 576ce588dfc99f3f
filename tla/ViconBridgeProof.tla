--------------------------- MODULE ViconBridgeProof ---------------------------
(***************************************************************************)
(* Proofs that the type invariant, CalibrationMatchesStore and             *)
(* SettledMeasuresRaw hold in every state of ViconBridge, for any set of   *)
(* segments and of creators, any group of poses and any bounds.            *)
(*                                                                         *)
(* The inductive invariant is IInv.  CalibrationMatchesStore needs to know *)
(* what a lone creator has loaded (LoadInv) and how far a service call has *)
(* written its result (StoreInv); SettledMeasuresRaw needs to know that    *)
(* whatever is newer than the start of a measurement is the raw pose       *)
(* (SampleInv).  Both rest on CreatorInv: a creator of a segment that has  *)
(* one creator only is gone once the segment is ready.                     *)
(***************************************************************************)
EXTENDS ViconBridge, TLAPS

(* The operations on poses stay within Value, and the identity is neutral. *)
LEMMA PoseArithmetic ==
  /\ Identity \in Value
  /\ \A p, q \in Value : Mul(p, q) \in Value
  /\ \A p \in Value : Inv(p) \in Value
  /\ \A p \in Pose : Mul(p, Identity) = p
  BY PoseAssumption, ValueAssumption DEF Value, Mul, Inv

(* What is read back from the parameter server is a pose when all of it is
   there. *)
LEMMA StoredPoses ==
  /\ NoZeroPose \in ZeroPose
  /\ \A z \in ZeroPose : HaveParams(z) => Join(z) \in Value
  BY ValueAssumption DEF Value, Stored, ZeroPose, NoZeroPose, HaveParams, Join

(* The average of measured poses is a pose, possibly NaN or torn. *)
LEMMA AverageValue ==
  ASSUME NEW S \in SUBSET Value
  PROVE  Average(S) \in Value
  BY DEF Average, Value

(* Every step of the node keeps the types. *)
LEMMA TypeInvariance ==
  ASSUME TypeOK, [Next]_vars
  PROVE  TypeOK'
<1> USE DEF entry_vars, creator_vars, grab_vars, svc_vars, env_vars, hist_vars, TypeOK, Stored, Request, CreatorPCs, ServicePCs
<1>1. ASSUME NEW S \in SUBSET Segments, GetFrame(S) PROVE TypeOK'
  BY <1>1 DEF GetFrame
<1>2. ASSUME NEW s \in Segments, TryLockFails(s) PROVE TypeOK'
  BY <1>2 DEF TryLockFails
<1>3. ASSUME NEW s \in Segments, ProcessSegment(s) PROVE TypeOK'
  BY <1>3, PoseArithmetic DEF ProcessSegment, Value
<1>4. ASSUME NEW s \in Segments, CreateSegment(s) PROVE TypeOK'
  BY <1>4, ValueAssumption DEF CreateSegment
<1>5. ASSUME SendTransforms PROVE TypeOK'
  BY <1>5, PoseAssumption DEF SendTransforms
<1>6. ASSUME NEW c \in Creators, Lock(c) PROVE TypeOK'
  BY <1>6 DEF Lock, CreatorStep
<1>7. ASSUME NEW c \in Creators, Insert(c) PROVE TypeOK'
  BY <1>7 DEF Insert, CreatorStep
<1>8. ASSUME NEW c \in Creators, GetOrientation(c) PROVE TypeOK'
  BY <1>8 DEF GetOrientation, CreatorStep, ZeroPose
<1>9. ASSUME NEW c \in Creators, GetPosition(c) PROVE TypeOK'
  BY <1>9 DEF GetPosition, CreatorStep, ZeroPose
<1>10. ASSUME NEW c \in Creators, StoreZeroPose(c) PROVE TypeOK'
  BY <1>10, StoredPoses DEF StoreZeroPose, CreatorStep
<1>11. ASSUME NEW c \in Creators, StoreIdentity(c) PROVE TypeOK'
  BY <1>11, PoseArithmetic DEF StoreIdentity, CreatorStep
<1>12. ASSUME NEW c \in Creators, InvertInPlace(c) PROVE TypeOK'
  BY <1>12, PoseArithmetic DEF InvertInPlace, CreatorStep
<1>13. ASSUME NEW c \in Creators, MarkReady(c) PROVE TypeOK'
  BY <1>13, StoredPoses DEF MarkReady, CreatorStep
<1>14. ASSUME NEW s \in Segments, NEW n \in 1 .. MaxSamples, CallGrabPose(s, n) PROVE TypeOK'
  <2>1. left' \in 0 .. MaxSamples
    BY <1>14, BoundAssumption DEF CallGrabPose
  <2>2. req' \in Request /\ req' # None
    BY <1>14, ValueAssumption DEF CallGrabPose
  <2>3. QED
    BY <1>14, <2>1, <2>2 DEF CallGrabPose, StartSampling
<1>15. ASSUME NEW s \in Segments, NEW n \in 1 .. MaxSamples, CallCalibrate(s, n) PROVE TypeOK'
  BY <1>15, BoundAssumption,ValueAssumption DEF CallCalibrate
<1>16. ASSUME DeleteOldCalibration PROVE TypeOK'
  BY <1>16, PoseArithmetic DEF DeleteOldCalibration, StartSampling
<1>17. ASSUME MeasurementSucceeds PROVE TypeOK'
  <2>1. left' \in 0 .. MaxSamples
    BY <1>17, BoundAssumption DEF MeasurementSucceeds
  <2>2. measured' \subseteq Value
    BY <1>17 DEF MeasurementSucceeds
  <2>3. QED
    BY <1>17, <2>1, <2>2 DEF MeasurementSucceeds
<1>18. ASSUME MeasurementTimesOut PROVE TypeOK'
  <2>1. left' \in 0 .. MaxSamples
    BY <1>18, BoundAssumption DEF MeasurementTimesOut
  <2>2. QED
    BY <1>18, <2>1 DEF MeasurementTimesOut
<1>19. ASSUME AnswerGrabPose PROVE TypeOK'
  BY <1>19, BoundAssumption DEF AnswerGrabPose, Return
<1>20. ASSUME SetCalibration PROVE TypeOK'
  BY <1>20, AverageValue, PoseArithmetic DEF SetCalibration
<1>21. ASSUME SetOrientation PROVE TypeOK'
  <2>1. Average(measured) \in Value
    BY AverageValue
  <2>2. zero_pose' \in [Segments -> ZeroPose]
    <3>1. zero_pose \in [Segments -> ZeroPose]
          /\ zero_pose' = [zero_pose EXCEPT ![req.seg].orientation = Average(measured)]
      BY <1>21 DEF SetOrientation
    <3>2. \A s \in Segments : [zero_pose[s] EXCEPT !.orientation = Average(measured)] \in ZeroPose
      BY <2>1, <3>1 DEF ZeroPose
    <3>3. QED
      BY <3>1, <3>2
  <2>3. QED
    BY <1>21, <2>2 DEF SetOrientation
<1>22. ASSUME SetPosition PROVE TypeOK'
  <2>1. Average(measured) \in Value
    BY AverageValue
  <2>2. zero_pose' \in [Segments -> ZeroPose]
    <3>1. zero_pose \in [Segments -> ZeroPose]
          /\ zero_pose' = [zero_pose EXCEPT ![req.seg].position = Average(measured)]
      BY <1>22 DEF SetPosition
    <3>2. \A s \in Segments : [zero_pose[s] EXCEPT !.position = Average(measured)] \in ZeroPose
      BY <2>1, <3>1 DEF ZeroPose
    <3>3. QED
      BY <3>1, <3>2
  <2>3. QED
    BY <1>22, <2>2 DEF SetPosition
<1>23. ASSUME AnswerCalibrate PROVE TypeOK'
  <2>1. req.seg \in Segments
    BY <1>23 DEF AnswerCalibrate
  <2>2. left' \in 0 .. MaxSamples
    BY <1>23, BoundAssumption DEF AnswerCalibrate, Return
  <2>3. QED
    BY <1>23, <2>1, <2>2 DEF AnswerCalibrate, Return
<1>24. ASSUME NEW s \in Segments, Move(s) PROVE TypeOK'
  BY <1>24 DEF Move
<1>25. ASSUME Restart PROVE TypeOK'
  <2>1. /\ calibration_pose' \in [Segments -> Value]
        /\ creator_zero' \in [Creators -> ZeroPose]
        /\ frame' \in [Segments -> Pose]
    BY <1>25, PoseArithmetic, StoredPoses, PoseAssumption DEF Restart
  <2>2. /\ left' \in 0 .. MaxSamples
        /\ restarts' \in 0 .. MaxRestarts
    BY <1>25, BoundAssumption DEF Restart
  <2>3. /\ creator_pc' \in [Creators -> CreatorPCs]
        /\ creator_seg' \in [Creators -> Segments \cup {None}]
        /\ \A c \in Creators : creator_pc'[c] = "idle"
        /\ transforms' \in [Segments -> Stored]
        /\ spawned' \in [Segments -> 0 .. 2]
    BY <1>25 DEF Restart
  <2>4. QED
    BY <1>25, <2>1, <2>2, <2>3 DEF Restart
<1>26. CASE UNCHANGED vars
  BY <1>26 DEF vars
<1>27. QED
  BY <1>1, <1>2, <1>3, <1>4, <1>5, <1>6, <1>7, <1>8, <1>9, <1>10, <1>11, <1>12, <1>13, <1>14, <1>15, <1>16, <1>17, <1>18, <1>19, <1>20, <1>21, <1>22, <1>23, <1>24, <1>25, <1>26
  DEF Next, GrabStep, CreateSegmentThread, Call, ServiceStep

(* While its only creator is at work, a segment is not ready, and no
   calibration of it goes on unless it started too early. *)
LEMMA LoneCreator ==
  ASSUME TypeOK, CreatorInv, NEW c \in Alive,
         spawned[creator_seg[c]] = 1, creator_seg[c] \notin early
  PROVE  creator_seg[c] \notin is_ready /\ ~ Calibrating(creator_seg[c])
  BY DEF TypeOK, CreatorInv, Alive

(* The program counters of the grab thread and of the spinner thread. *)
LEMMA ControlStep ==
  ASSUME TypeOK, ControlInv, [Next]_vars
  PROVE  ControlInv'
<1> USE DEF entry_vars, creator_vars, grab_vars, svc_vars, env_vars, hist_vars, ControlInv
<1>1. ASSUME NEW S \in SUBSET Segments, GetFrame(S) PROVE ControlInv'
  BY <1>1 DEF GetFrame
<1>2. ASSUME NEW s \in Segments, TryLockFails(s) PROVE ControlInv'
  BY <1>2 DEF TryLockFails
<1>3. ASSUME NEW s \in Segments, ProcessSegment(s) PROVE ControlInv'
  BY <1>3 DEF ProcessSegment
<1>4. ASSUME NEW s \in Segments, CreateSegment(s) PROVE ControlInv'
  BY <1>4 DEF CreateSegment
<1>5. ASSUME SendTransforms PROVE ControlInv'
  BY <1>5 DEF SendTransforms
<1>6. ASSUME NEW c \in Creators, Lock(c) PROVE ControlInv'
  BY <1>6 DEF Lock, CreatorStep
<1>7. ASSUME NEW c \in Creators, Insert(c) PROVE ControlInv'
  BY <1>7 DEF Insert, CreatorStep
<1>8. ASSUME NEW c \in Creators, GetOrientation(c) PROVE ControlInv'
  BY <1>8 DEF GetOrientation, CreatorStep
<1>9. ASSUME NEW c \in Creators, GetPosition(c) PROVE ControlInv'
  BY <1>9 DEF GetPosition, CreatorStep
<1>10. ASSUME NEW c \in Creators, StoreZeroPose(c) PROVE ControlInv'
  BY <1>10 DEF StoreZeroPose, CreatorStep
<1>11. ASSUME NEW c \in Creators, StoreIdentity(c) PROVE ControlInv'
  BY <1>11 DEF StoreIdentity, CreatorStep
<1>12. ASSUME NEW c \in Creators, InvertInPlace(c) PROVE ControlInv'
  BY <1>12 DEF InvertInPlace, CreatorStep
<1>13. ASSUME NEW c \in Creators, MarkReady(c) PROVE ControlInv'
  BY <1>13 DEF MarkReady, CreatorStep
<1>14. ASSUME NEW s \in Segments, NEW n \in 1 .. MaxSamples, CallGrabPose(s, n) PROVE ControlInv'
  BY <1>14 DEF CallGrabPose, StartSampling
<1>15. ASSUME NEW s \in Segments, NEW n \in 1 .. MaxSamples, CallCalibrate(s, n) PROVE ControlInv'
  BY <1>15 DEF CallCalibrate
<1>16. ASSUME DeleteOldCalibration PROVE ControlInv'
  BY <1>16 DEF DeleteOldCalibration, StartSampling
<1>17. ASSUME MeasurementSucceeds PROVE ControlInv'
  BY <1>17 DEF MeasurementSucceeds
<1>18. ASSUME MeasurementTimesOut PROVE ControlInv'
  BY <1>18 DEF MeasurementTimesOut
<1>19. ASSUME AnswerGrabPose PROVE ControlInv'
  BY <1>19 DEF AnswerGrabPose, Return
<1>20. ASSUME SetCalibration PROVE ControlInv'
  BY <1>20 DEF SetCalibration
<1>21. ASSUME SetOrientation PROVE ControlInv'
  BY <1>21 DEF SetOrientation
<1>22. ASSUME SetPosition PROVE ControlInv'
  BY <1>22 DEF SetPosition
<1>23. ASSUME AnswerCalibrate PROVE ControlInv'
  BY <1>23 DEF AnswerCalibrate, Return
<1>24. ASSUME NEW s \in Segments, Move(s) PROVE ControlInv'
  BY <1>24 DEF Move
<1>25. ASSUME Restart PROVE ControlInv'
  BY <1>25 DEF Restart
<1>26. CASE UNCHANGED vars
  BY <1>26 DEF vars
<1>27. QED
  BY <1>1, <1>2, <1>3, <1>4, <1>5, <1>6, <1>7, <1>8, <1>9, <1>10, <1>11, <1>12, <1>13, <1>14, <1>15, <1>16, <1>17, <1>18, <1>19, <1>20, <1>21, <1>22, <1>23, <1>24, <1>25, <1>26
  DEF Next, GrabStep, CreateSegmentThread, Call, ServiceStep

(* Where the creators of a segment are. *)
LEMMA CreatorStepInv ==
  ASSUME TypeOK, CreatorInv, [Next]_vars
  PROVE  CreatorInv'
<1> USE DEF entry_vars, creator_vars, grab_vars, svc_vars, env_vars, hist_vars, CreatorInv, Alive, Calibrating
<1>1. ASSUME NEW S \in SUBSET Segments, GetFrame(S) PROVE CreatorInv'
  BY <1>1 DEF GetFrame
<1>2. ASSUME NEW s \in Segments, TryLockFails(s) PROVE CreatorInv'
  BY <1>2 DEF TryLockFails
<1>3. ASSUME NEW s \in Segments, ProcessSegment(s) PROVE CreatorInv'
  BY <1>3 DEF ProcessSegment
<1>4. ASSUME NEW s \in Segments, CreateSegment(s) PROVE CreatorInv'
  BY <1>4 DEF CreateSegment, TypeOK, Request
<1>5. ASSUME SendTransforms PROVE CreatorInv'
  BY <1>5 DEF SendTransforms
<1>6. ASSUME NEW c \in Creators, Lock(c) PROVE CreatorInv'
  BY <1>6 DEF Lock, CreatorStep
<1>7. ASSUME NEW c \in Creators, Insert(c) PROVE CreatorInv'
  BY <1>7 DEF Insert, CreatorStep
<1>8. ASSUME NEW c \in Creators, GetOrientation(c) PROVE CreatorInv'
  BY <1>8 DEF GetOrientation, CreatorStep
<1>9. ASSUME NEW c \in Creators, GetPosition(c) PROVE CreatorInv'
  BY <1>9 DEF GetPosition, CreatorStep
<1>10. ASSUME NEW c \in Creators, StoreZeroPose(c) PROVE CreatorInv'
  BY <1>10 DEF StoreZeroPose, CreatorStep
<1>11. ASSUME NEW c \in Creators, StoreIdentity(c) PROVE CreatorInv'
  BY <1>11 DEF StoreIdentity, CreatorStep
<1>12. ASSUME NEW c \in Creators, InvertInPlace(c) PROVE CreatorInv'
  BY <1>12 DEF InvertInPlace, CreatorStep
<1>13. ASSUME NEW c \in Creators, MarkReady(c) PROVE CreatorInv'
  BY <1>13 DEF MarkReady, CreatorStep, TypeOK, Request
<1>14. ASSUME NEW s \in Segments, NEW n \in 1 .. MaxSamples, CallGrabPose(s, n) PROVE CreatorInv'
  BY <1>14 DEF CallGrabPose, StartSampling
<1>15. ASSUME NEW s \in Segments, NEW n \in 1 .. MaxSamples, CallCalibrate(s, n) PROVE CreatorInv'
  BY <1>15 DEF CallCalibrate
<1>16. ASSUME DeleteOldCalibration PROVE CreatorInv'
  BY <1>16 DEF DeleteOldCalibration, StartSampling
<1>17. ASSUME MeasurementSucceeds PROVE CreatorInv'
  BY <1>17 DEF MeasurementSucceeds
<1>18. ASSUME MeasurementTimesOut PROVE CreatorInv'
  BY <1>18 DEF MeasurementTimesOut
<1>19. ASSUME AnswerGrabPose PROVE CreatorInv'
  BY <1>19 DEF AnswerGrabPose, Return
<1>20. ASSUME SetCalibration PROVE CreatorInv'
  BY <1>20 DEF SetCalibration
<1>21. ASSUME SetOrientation PROVE CreatorInv'
  BY <1>21 DEF SetOrientation
<1>22. ASSUME SetPosition PROVE CreatorInv'
  BY <1>22 DEF SetPosition
<1>23. ASSUME AnswerCalibrate PROVE CreatorInv'
  BY <1>23 DEF AnswerCalibrate, Return
<1>24. ASSUME NEW s \in Segments, Move(s) PROVE CreatorInv'
  BY <1>24 DEF Move
<1>25. ASSUME Restart PROVE CreatorInv'
  BY <1>25 DEF Restart
<1>26. CASE UNCHANGED vars
  BY <1>26 DEF vars
<1>27. QED
  BY <1>1, <1>2, <1>3, <1>4, <1>5, <1>6, <1>7, <1>8, <1>9, <1>10, <1>11, <1>12, <1>13, <1>14, <1>15, <1>16, <1>17, <1>18, <1>19, <1>20, <1>21, <1>22, <1>23, <1>24, <1>25, <1>26
  DEF Next, GrabStep, CreateSegmentThread, Call, ServiceStep

(* A lone creator loads what is on the parameter server: nobody writes there
   before the segment is ready. *)
LEMMA LoadStep ==
  ASSUME TypeOK, ControlInv, CreatorInv, LoadInv, [Next]_vars
  PROVE  LoadInv'
<1> USE DEF entry_vars, creator_vars, grab_vars, svc_vars, env_vars, hist_vars, LoadInv, Alive, Calibrating
<1>1. ASSUME NEW S \in SUBSET Segments, GetFrame(S) PROVE LoadInv'
  BY <1>1 DEF GetFrame
<1>2. ASSUME NEW s \in Segments, TryLockFails(s) PROVE LoadInv'
  BY <1>2 DEF TryLockFails
<1>3. ASSUME NEW s \in Segments, ProcessSegment(s) PROVE LoadInv'
  BY <1>3 DEF ProcessSegment
<1>4. ASSUME NEW s \in Segments, CreateSegment(s) PROVE LoadInv'
  BY <1>4 DEF CreateSegment, TypeOK, CreatorInv, ZeroPose, Request
<1>5. ASSUME SendTransforms PROVE LoadInv'
  BY <1>5 DEF SendTransforms
<1>6. ASSUME NEW c \in Creators, Lock(c) PROVE LoadInv'
  BY <1>6 DEF Lock, CreatorStep
<1>7. ASSUME NEW c \in Creators, Insert(c) PROVE LoadInv'
  BY <1>7 DEF Insert, CreatorStep
<1>8. ASSUME NEW c \in Creators, GetOrientation(c) PROVE LoadInv'
  BY <1>8 DEF GetOrientation, CreatorStep, TypeOK, CreatorInv, ZeroPose, Request
<1>9. ASSUME NEW c \in Creators, GetPosition(c) PROVE LoadInv'
  BY <1>9 DEF GetPosition, CreatorStep, TypeOK, CreatorInv, ZeroPose, Request
<1>10. ASSUME NEW c \in Creators, StoreZeroPose(c) PROVE LoadInv'
  BY <1>10 DEF StoreZeroPose, CreatorStep, TypeOK, CreatorInv, ZeroPose, Restored, HaveParams
<1>11. ASSUME NEW c \in Creators, StoreIdentity(c) PROVE LoadInv'
  BY <1>11 DEF StoreIdentity, CreatorStep, TypeOK, CreatorInv, ZeroPose, Restored, HaveParams
<1>12. ASSUME NEW c \in Creators, InvertInPlace(c) PROVE LoadInv'
  BY <1>12 DEF InvertInPlace, CreatorStep, TypeOK, CreatorInv, ZeroPose, Restored, HaveParams
<1>13. ASSUME NEW c \in Creators, MarkReady(c) PROVE LoadInv'
  BY <1>13 DEF MarkReady, CreatorStep, TypeOK, CreatorInv, ZeroPose, Request
<1>14. ASSUME NEW s \in Segments, NEW n \in 1 .. MaxSamples, CallGrabPose(s, n) PROVE LoadInv'
  BY <1>14 DEF CallGrabPose, StartSampling
<1>15. ASSUME NEW s \in Segments, NEW n \in 1 .. MaxSamples, CallCalibrate(s, n) PROVE LoadInv'
  BY <1>15 DEF CallCalibrate
<1>16. ASSUME DeleteOldCalibration PROVE LoadInv'
  BY <1>16, LoneCreator DEF DeleteOldCalibration, StartSampling, TypeOK, ControlInv, ZeroPose, Request
<1>17. ASSUME MeasurementSucceeds PROVE LoadInv'
  BY <1>17 DEF MeasurementSucceeds
<1>18. ASSUME MeasurementTimesOut PROVE LoadInv'
  BY <1>18 DEF MeasurementTimesOut
<1>19. ASSUME AnswerGrabPose PROVE LoadInv'
  BY <1>19 DEF AnswerGrabPose, Return
<1>20. ASSUME SetCalibration PROVE LoadInv'
  BY <1>20 DEF SetCalibration, TypeOK, CreatorInv, ZeroPose, Request
<1>21. ASSUME SetOrientation PROVE LoadInv'
  BY <1>21, LoneCreator DEF SetOrientation, TypeOK, ControlInv, ZeroPose, Request
<1>22. ASSUME SetPosition PROVE LoadInv'
  BY <1>22, LoneCreator DEF SetPosition, TypeOK, ControlInv, ZeroPose, Request
<1>23. ASSUME AnswerCalibrate PROVE LoadInv'
  BY <1>23 DEF AnswerCalibrate, Return
<1>24. ASSUME NEW s \in Segments, Move(s) PROVE LoadInv'
  BY <1>24 DEF Move
<1>25. ASSUME Restart PROVE LoadInv'
  BY <1>25 DEF Restart
<1>26. CASE UNCHANGED vars
  BY <1>26 DEF vars
<1>27. QED
  BY <1>1, <1>2, <1>3, <1>4, <1>5, <1>6, <1>7, <1>8, <1>9, <1>10, <1>11, <1>12, <1>13, <1>14, <1>15, <1>16, <1>17, <1>18, <1>19, <1>20, <1>21, <1>22, <1>23, <1>24, <1>25, <1>26
  DEF Next, GrabStep, CreateSegmentThread, Call, ServiceStep

(* While the spinner thread writes its result, no creator of that segment is
   left to overwrite it. *)
LEMMA StoreStep ==
  ASSUME TypeOK, ControlInv, CreatorInv, StoreInv, [Next]_vars
  PROVE  StoreInv'
<1> USE DEF entry_vars, creator_vars, grab_vars, svc_vars, env_vars, hist_vars, StoreInv
<1>1. ASSUME NEW S \in SUBSET Segments, GetFrame(S) PROVE StoreInv'
  BY <1>1 DEF GetFrame
<1>2. ASSUME NEW s \in Segments, TryLockFails(s) PROVE StoreInv'
  BY <1>2 DEF TryLockFails
<1>3. ASSUME NEW s \in Segments, ProcessSegment(s) PROVE StoreInv'
  BY <1>3 DEF ProcessSegment
<1>4. ASSUME NEW s \in Segments, CreateSegment(s) PROVE StoreInv'
  BY <1>4 DEF CreateSegment, TypeOK, ControlInv, CreatorInv, Calibrating, Request
<1>5. ASSUME SendTransforms PROVE StoreInv'
  BY <1>5 DEF SendTransforms
<1>6. ASSUME NEW c \in Creators, Lock(c) PROVE StoreInv'
  BY <1>6 DEF Lock, CreatorStep
<1>7. ASSUME NEW c \in Creators, Insert(c) PROVE StoreInv'
  BY <1>7 DEF Insert, CreatorStep
<1>8. ASSUME NEW c \in Creators, GetOrientation(c) PROVE StoreInv'
  BY <1>8 DEF GetOrientation, CreatorStep
<1>9. ASSUME NEW c \in Creators, GetPosition(c) PROVE StoreInv'
  BY <1>9 DEF GetPosition, CreatorStep
<1>10. ASSUME NEW c \in Creators, StoreZeroPose(c) PROVE StoreInv'
  BY <1>10, LoneCreator DEF StoreZeroPose, CreatorStep, TypeOK, ControlInv, Alive, Calibrating, Request
<1>11. ASSUME NEW c \in Creators, StoreIdentity(c) PROVE StoreInv'
  BY <1>11, LoneCreator DEF StoreIdentity, CreatorStep, TypeOK, ControlInv, Alive, Calibrating, Request
<1>12. ASSUME NEW c \in Creators, InvertInPlace(c) PROVE StoreInv'
  BY <1>12, LoneCreator DEF InvertInPlace, CreatorStep, TypeOK, ControlInv, Alive, Calibrating, Request
<1>13. ASSUME NEW c \in Creators, MarkReady(c) PROVE StoreInv'
  BY <1>13 DEF MarkReady, CreatorStep
<1>14. ASSUME NEW s \in Segments, NEW n \in 1 .. MaxSamples, CallGrabPose(s, n) PROVE StoreInv'
  BY <1>14 DEF CallGrabPose, StartSampling
<1>15. ASSUME NEW s \in Segments, NEW n \in 1 .. MaxSamples, CallCalibrate(s, n) PROVE StoreInv'
  BY <1>15 DEF CallCalibrate
<1>16. ASSUME DeleteOldCalibration PROVE StoreInv'
  BY <1>16 DEF DeleteOldCalibration, StartSampling
<1>17. ASSUME MeasurementSucceeds PROVE StoreInv'
  BY <1>17 DEF MeasurementSucceeds
<1>18. ASSUME MeasurementTimesOut PROVE StoreInv'
  BY <1>18 DEF MeasurementTimesOut
<1>19. ASSUME AnswerGrabPose PROVE StoreInv'
  BY <1>19 DEF AnswerGrabPose, Return
<1>20. ASSUME SetCalibration PROVE StoreInv'
  BY <1>20 DEF SetCalibration, TypeOK, CreatorInv, Alive, Request
<1>21. ASSUME SetOrientation PROVE StoreInv'
  BY <1>21 DEF SetOrientation, TypeOK, CreatorInv, Alive, Request
<1>22. ASSUME SetPosition PROVE StoreInv'
  BY <1>22 DEF SetPosition, TypeOK, CreatorInv, Alive, Request
<1>23. ASSUME AnswerCalibrate PROVE StoreInv'
  BY <1>23 DEF AnswerCalibrate, Return
<1>24. ASSUME NEW s \in Segments, Move(s) PROVE StoreInv'
  BY <1>24 DEF Move
<1>25. ASSUME Restart PROVE StoreInv'
  BY <1>25 DEF Restart
<1>26. CASE UNCHANGED vars
  BY <1>26 DEF vars
<1>27. QED
  BY <1>1, <1>2, <1>3, <1>4, <1>5, <1>6, <1>7, <1>8, <1>9, <1>10, <1>11, <1>12, <1>13, <1>14, <1>15, <1>16, <1>17, <1>18, <1>19, <1>20, <1>21, <1>22, <1>23, <1>24, <1>25, <1>26
  DEF Next, GrabStep, CreateSegmentThread, Call, ServiceStep

(* What is newer than the start of a measurement is the raw pose. *)
LEMMA SampleStep ==
  ASSUME TypeOK, ControlInv, CreatorInv, SampleInv, [Next]_vars
  PROVE  SampleInv'
<1> USE DEF entry_vars, creator_vars, grab_vars, svc_vars, env_vars, hist_vars, SampleInv, CreatorsOf, Alive
<1>1. ASSUME NEW S \in SUBSET Segments, GetFrame(S) PROVE SampleInv'
  BY <1>1 DEF GetFrame, TypeOK, CreatorInv, ControlInv, Request
<1>2. ASSUME NEW s \in Segments, TryLockFails(s) PROVE SampleInv'
  BY <1>2 DEF TryLockFails
<1>3. ASSUME NEW s \in Segments, ProcessSegment(s) PROVE SampleInv'
  BY <1>3, PoseArithmetic DEF ProcessSegment, TypeOK, Request, Stored
<1>4. ASSUME NEW s \in Segments, CreateSegment(s) PROVE SampleInv'
  BY <1>4 DEF CreateSegment, TypeOK, CreatorInv, ControlInv, Request
<1>5. ASSUME SendTransforms PROVE SampleInv'
  BY <1>5 DEF SendTransforms, TypeOK, ControlInv, Request, Stored
<1>6. ASSUME NEW c \in Creators, Lock(c) PROVE SampleInv'
  BY <1>6 DEF Lock, CreatorStep
<1>7. ASSUME NEW c \in Creators, Insert(c) PROVE SampleInv'
  BY <1>7 DEF Insert, CreatorStep
<1>8. ASSUME NEW c \in Creators, GetOrientation(c) PROVE SampleInv'
  BY <1>8 DEF GetOrientation, CreatorStep
<1>9. ASSUME NEW c \in Creators, GetPosition(c) PROVE SampleInv'
  BY <1>9 DEF GetPosition, CreatorStep
<1>10. ASSUME NEW c \in Creators, StoreZeroPose(c) PROVE SampleInv'
  BY <1>10 DEF StoreZeroPose, CreatorStep
<1>11. ASSUME NEW c \in Creators, StoreIdentity(c) PROVE SampleInv'
  BY <1>11 DEF StoreIdentity, CreatorStep
<1>12. ASSUME NEW c \in Creators, InvertInPlace(c) PROVE SampleInv'
  BY <1>12 DEF InvertInPlace, CreatorStep
<1>13. ASSUME NEW c \in Creators, MarkReady(c) PROVE SampleInv'
  BY <1>13 DEF MarkReady, CreatorStep, TypeOK, CreatorInv, ControlInv, Request
<1>14. ASSUME NEW s \in Segments, NEW n \in 1 .. MaxSamples, CallGrabPose(s, n) PROVE SampleInv'
  BY <1>14 DEF CallGrabPose, StartSampling
<1>15. ASSUME NEW s \in Segments, NEW n \in 1 .. MaxSamples, CallCalibrate(s, n) PROVE SampleInv'
  BY <1>15 DEF CallCalibrate
<1>16. ASSUME DeleteOldCalibration PROVE SampleInv'
  BY <1>16 DEF DeleteOldCalibration, StartSampling, TypeOK, CreatorInv, ControlInv, Request
<1>17. ASSUME MeasurementSucceeds PROVE SampleInv'
  BY <1>17 DEF MeasurementSucceeds
<1>18. ASSUME MeasurementTimesOut PROVE SampleInv'
  BY <1>18 DEF MeasurementTimesOut
<1>19. ASSUME AnswerGrabPose PROVE SampleInv'
  BY <1>19 DEF AnswerGrabPose, Return
<1>20. ASSUME SetCalibration PROVE SampleInv'
  BY <1>20 DEF SetCalibration
<1>21. ASSUME SetOrientation PROVE SampleInv'
  BY <1>21 DEF SetOrientation
<1>22. ASSUME SetPosition PROVE SampleInv'
  BY <1>22 DEF SetPosition
<1>23. ASSUME AnswerCalibrate PROVE SampleInv'
  BY <1>23 DEF AnswerCalibrate, Return
<1>24. ASSUME NEW s \in Segments, Move(s) PROVE SampleInv'
  BY <1>24 DEF Move
<1>25. ASSUME Restart PROVE SampleInv'
  BY <1>25 DEF Restart
<1>26. CASE UNCHANGED vars
  BY <1>26 DEF vars
<1>27. QED
  BY <1>1, <1>2, <1>3, <1>4, <1>5, <1>6, <1>7, <1>8, <1>9, <1>10, <1>11, <1>12, <1>13, <1>14, <1>15, <1>16, <1>17, <1>18, <1>19, <1>20, <1>21, <1>22, <1>23, <1>24, <1>25, <1>26
  DEF Next, GrabStep, CreateSegmentThread, Call, ServiceStep

(* The entry of a ready segment keeps to the stored zero pose. *)
LEMMA MatchStep ==
  ASSUME TypeOK, ControlInv, CreatorInv, LoadInv, StoreInv, CalibrationMatchesStore, [Next]_vars
  PROVE  CalibrationMatchesStore'
<1> USE DEF entry_vars, creator_vars, grab_vars, svc_vars, env_vars, hist_vars, CalibrationMatchesStore, Calibrating
<1>1. ASSUME NEW S \in SUBSET Segments, GetFrame(S) PROVE CalibrationMatchesStore'
  BY <1>1 DEF GetFrame
<1>2. ASSUME NEW s \in Segments, TryLockFails(s) PROVE CalibrationMatchesStore'
  BY <1>2 DEF TryLockFails
<1>3. ASSUME NEW s \in Segments, ProcessSegment(s) PROVE CalibrationMatchesStore'
  BY <1>3 DEF ProcessSegment
<1>4. ASSUME NEW s \in Segments, CreateSegment(s) PROVE CalibrationMatchesStore'
  BY <1>4 DEF CreateSegment, TypeOK, CreatorInv, Alive, LoadInv, StoreInv, Request
<1>5. ASSUME SendTransforms PROVE CalibrationMatchesStore'
  BY <1>5 DEF SendTransforms
<1>6. ASSUME NEW c \in Creators, Lock(c) PROVE CalibrationMatchesStore'
  BY <1>6 DEF Lock, CreatorStep
<1>7. ASSUME NEW c \in Creators, Insert(c) PROVE CalibrationMatchesStore'
  BY <1>7 DEF Insert, CreatorStep
<1>8. ASSUME NEW c \in Creators, GetOrientation(c) PROVE CalibrationMatchesStore'
  BY <1>8 DEF GetOrientation, CreatorStep
<1>9. ASSUME NEW c \in Creators, GetPosition(c) PROVE CalibrationMatchesStore'
  BY <1>9 DEF GetPosition, CreatorStep
<1>10. ASSUME NEW c \in Creators, StoreZeroPose(c) PROVE CalibrationMatchesStore'
  BY <1>10 DEF StoreZeroPose, CreatorStep, TypeOK, CreatorInv, Alive, LoadInv, StoreInv, Request
<1>11. ASSUME NEW c \in Creators, StoreIdentity(c) PROVE CalibrationMatchesStore'
  BY <1>11 DEF StoreIdentity, CreatorStep, TypeOK, CreatorInv, Alive, LoadInv, StoreInv, Request
<1>12. ASSUME NEW c \in Creators, InvertInPlace(c) PROVE CalibrationMatchesStore'
  BY <1>12 DEF InvertInPlace, CreatorStep, TypeOK, CreatorInv, Alive, LoadInv, StoreInv, Request
<1>13. ASSUME NEW c \in Creators, MarkReady(c) PROVE CalibrationMatchesStore'
  BY <1>13 DEF MarkReady, CreatorStep, TypeOK, CreatorInv, Alive, LoadInv, StoreInv, Request
<1>14. ASSUME NEW s \in Segments, NEW n \in 1 .. MaxSamples, CallGrabPose(s, n) PROVE CalibrationMatchesStore'
  BY <1>14 DEF CallGrabPose, StartSampling
<1>15. ASSUME NEW s \in Segments, NEW n \in 1 .. MaxSamples, CallCalibrate(s, n) PROVE CalibrationMatchesStore'
  BY <1>15 DEF CallCalibrate
<1>16. ASSUME DeleteOldCalibration PROVE CalibrationMatchesStore'
  BY <1>16 DEF DeleteOldCalibration, StartSampling, TypeOK, ControlInv, Request
<1>17. ASSUME MeasurementSucceeds PROVE CalibrationMatchesStore'
  BY <1>17 DEF MeasurementSucceeds
<1>18. ASSUME MeasurementTimesOut PROVE CalibrationMatchesStore'
  BY <1>18 DEF MeasurementTimesOut
<1>19. ASSUME AnswerGrabPose PROVE CalibrationMatchesStore'
  BY <1>19 DEF AnswerGrabPose, Return
<1>20. ASSUME SetCalibration PROVE CalibrationMatchesStore'
  BY <1>20 DEF SetCalibration
<1>21. ASSUME SetOrientation PROVE CalibrationMatchesStore'
  BY <1>21 DEF SetOrientation, TypeOK, ControlInv, Request
<1>22. ASSUME SetPosition PROVE CalibrationMatchesStore'
  BY <1>22 DEF SetPosition, TypeOK, ControlInv, Request
<1>23. ASSUME AnswerCalibrate PROVE CalibrationMatchesStore'
  BY <1>23, AverageValue, ValueAssumption DEF AnswerCalibrate, Return, TypeOK, ControlInv, StoreInv, Restored, HaveParams, Join, Value, ZeroPose, Stored, Request, Return
<1>24. ASSUME NEW s \in Segments, Move(s) PROVE CalibrationMatchesStore'
  BY <1>24 DEF Move
<1>25. ASSUME Restart PROVE CalibrationMatchesStore'
  BY <1>25 DEF Restart
<1>26. CASE UNCHANGED vars
  BY <1>26 DEF vars
<1>27. QED
  BY <1>1, <1>2, <1>3, <1>4, <1>5, <1>6, <1>7, <1>8, <1>9, <1>10, <1>11, <1>12, <1>13, <1>14, <1>15, <1>16, <1>17, <1>18, <1>19, <1>20, <1>21, <1>22, <1>23, <1>24, <1>25, <1>26
  DEF Next, GrabStep, CreateSegmentThread, Call, ServiceStep

(* A settled calibration measures the raw pose. *)
LEMMA MeasureStep ==
  ASSUME TypeOK, ControlInv, SampleInv, SettledMeasuresRaw, [Next]_vars
  PROVE  SettledMeasuresRaw'
<1> USE DEF entry_vars, creator_vars, grab_vars, svc_vars, env_vars, hist_vars, SettledMeasuresRaw
<1>1. ASSUME NEW S \in SUBSET Segments, GetFrame(S) PROVE SettledMeasuresRaw'
  BY <1>1 DEF GetFrame
<1>2. ASSUME NEW s \in Segments, TryLockFails(s) PROVE SettledMeasuresRaw'
  BY <1>2 DEF TryLockFails
<1>3. ASSUME NEW s \in Segments, ProcessSegment(s) PROVE SettledMeasuresRaw'
  BY <1>3 DEF ProcessSegment
<1>4. ASSUME NEW s \in Segments, CreateSegment(s) PROVE SettledMeasuresRaw'
  BY <1>4 DEF CreateSegment
<1>5. ASSUME SendTransforms PROVE SettledMeasuresRaw'
  BY <1>5 DEF SendTransforms
<1>6. ASSUME NEW c \in Creators, Lock(c) PROVE SettledMeasuresRaw'
  BY <1>6 DEF Lock, CreatorStep
<1>7. ASSUME NEW c \in Creators, Insert(c) PROVE SettledMeasuresRaw'
  BY <1>7 DEF Insert, CreatorStep
<1>8. ASSUME NEW c \in Creators, GetOrientation(c) PROVE SettledMeasuresRaw'
  BY <1>8 DEF GetOrientation, CreatorStep
<1>9. ASSUME NEW c \in Creators, GetPosition(c) PROVE SettledMeasuresRaw'
  BY <1>9 DEF GetPosition, CreatorStep
<1>10. ASSUME NEW c \in Creators, StoreZeroPose(c) PROVE SettledMeasuresRaw'
  BY <1>10 DEF StoreZeroPose, CreatorStep
<1>11. ASSUME NEW c \in Creators, StoreIdentity(c) PROVE SettledMeasuresRaw'
  BY <1>11 DEF StoreIdentity, CreatorStep
<1>12. ASSUME NEW c \in Creators, InvertInPlace(c) PROVE SettledMeasuresRaw'
  BY <1>12 DEF InvertInPlace, CreatorStep
<1>13. ASSUME NEW c \in Creators, MarkReady(c) PROVE SettledMeasuresRaw'
  BY <1>13 DEF MarkReady, CreatorStep
<1>14. ASSUME NEW s \in Segments, NEW n \in 1 .. MaxSamples, CallGrabPose(s, n) PROVE SettledMeasuresRaw'
  BY <1>14 DEF CallGrabPose, StartSampling
<1>15. ASSUME NEW s \in Segments, NEW n \in 1 .. MaxSamples, CallCalibrate(s, n) PROVE SettledMeasuresRaw'
  BY <1>15 DEF CallCalibrate, TypeOK, ControlInv, SampleInv, Request
<1>16. ASSUME DeleteOldCalibration PROVE SettledMeasuresRaw'
  BY <1>16 DEF DeleteOldCalibration, StartSampling
<1>17. ASSUME MeasurementSucceeds PROVE SettledMeasuresRaw'
  BY <1>17 DEF MeasurementSucceeds, TypeOK, ControlInv, SampleInv, Request
<1>18. ASSUME MeasurementTimesOut PROVE SettledMeasuresRaw'
  BY <1>18 DEF MeasurementTimesOut
<1>19. ASSUME AnswerGrabPose PROVE SettledMeasuresRaw'
  BY <1>19 DEF AnswerGrabPose, Return
<1>20. ASSUME SetCalibration PROVE SettledMeasuresRaw'
  BY <1>20 DEF SetCalibration
<1>21. ASSUME SetOrientation PROVE SettledMeasuresRaw'
  BY <1>21 DEF SetOrientation
<1>22. ASSUME SetPosition PROVE SettledMeasuresRaw'
  BY <1>22 DEF SetPosition
<1>23. ASSUME AnswerCalibrate PROVE SettledMeasuresRaw'
  BY <1>23 DEF AnswerCalibrate, Return
<1>24. ASSUME NEW s \in Segments, Move(s) PROVE SettledMeasuresRaw'
  BY <1>24 DEF Move
<1>25. ASSUME Restart PROVE SettledMeasuresRaw'
  BY <1>25 DEF Restart
<1>26. CASE UNCHANGED vars
  BY <1>26 DEF vars
<1>27. QED
  BY <1>1, <1>2, <1>3, <1>4, <1>5, <1>6, <1>7, <1>8, <1>9, <1>10, <1>11, <1>12, <1>13, <1>14, <1>15, <1>16, <1>17, <1>18, <1>19, <1>20, <1>21, <1>22, <1>23, <1>24, <1>25, <1>26
  DEF Next, GrabStep, CreateSegmentThread, Call, ServiceStep

-----------------------------------------------------------------------------
(* A node that has just been started has no segment and no call. *)
LEMMA InitIInv == Init => IInv
<1> SUFFICES ASSUME Init PROVE IInv
  OBVIOUS
<1>1. TypeOK
  <2>1. /\ calibration_pose \in [Segments -> Value]
        /\ creator_zero \in [Creators -> ZeroPose]
        /\ zero_pose \in [Segments -> ZeroPose]
        /\ frame \in [Segments -> Pose]
    BY PoseArithmetic, StoredPoses, PoseAssumption DEF Init
  <2>2. /\ left \in 0 .. MaxSamples
        /\ restarts \in 0 .. MaxRestarts
    BY BoundAssumption DEF Init
  <2>3. /\ creator_pc \in [Creators -> CreatorPCs]
        /\ creator_seg \in [Creators -> Segments \cup {None}]
        /\ \A c \in Creators : creator_pc[c] = "idle"
        /\ transforms \in [Segments -> Stored]
        /\ spawned \in [Segments -> 0 .. 2]
    BY DEF Init, CreatorPCs, Stored
  <2>4. QED
    BY <2>1, <2>2, <2>3 DEF Init, TypeOK, ServicePCs, Stored
<1>2. Alive = {}
  BY DEF Init, Alive
<1>3. ControlInv /\ CreatorInv /\ LoadInv
  BY <1>2 DEF Init, ControlInv, CreatorInv, LoadInv, Calibrating
<1>4. StoreInv /\ SampleInv /\ CalibrationMatchesStore /\ SettledMeasuresRaw
  BY DEF Init, StoreInv, SampleInv, CalibrationMatchesStore, SettledMeasuresRaw
<1>5. QED
  BY <1>1, <1>3, <1>4 DEF IInv

(* The invariant is inductive. *)
LEMMA StepIInv == IInv /\ [Next]_vars => IInv'
<1> SUFFICES ASSUME IInv, [Next]_vars PROVE IInv'
  OBVIOUS
<1> USE DEF IInv
<1>1. TypeOK'
  BY TypeInvariance
<1>2. ControlInv' /\ CreatorInv'
  BY ControlStep, CreatorStepInv
<1>3. LoadInv' /\ StoreInv' /\ SampleInv'
  BY LoadStep, StoreStep, SampleStep
<1>4. CalibrationMatchesStore' /\ SettledMeasuresRaw'
  BY MatchStep, MeasureStep
<1>5. QED
  BY <1>1, <1>2, <1>3, <1>4

(* IInv is an invariant of the node. *)
THEOREM InductiveInvariant == Spec => []IInv
  BY InitIInv, StepIInv, PTL DEF Spec

(* Type correctness: whatever the threads do and whenever the node is killed,
   no thread uses a variable that has not been set. *)
THEOREM TypeCorrect == Spec => []TypeOK
<1>1. IInv => TypeOK
  BY DEF IInv
<1>2. QED
  BY InductiveInvariant, <1>1, PTL

(* The calibration that createSegmentThread and calibrateSegmentCallback
   leave in the entry of a ready segment is the one that the node would
   restore from the parameter server. *)
THEOREM EntryMatchesStore == Spec => []CalibrationMatchesStore
<1>1. IInv => CalibrationMatchesStore
  BY DEF IInv
<1>2. QED
  BY InductiveInvariant, <1>1, PTL

(* calibrateSegmentCallback averages raw poses only, if the old calibration
   was deleted or there was none. *)
THEOREM MeasuresRaw == Spec => []SettledMeasuresRaw
<1>1. IInv => SettledMeasuresRaw
  BY DEF IInv
<1>2. QED
  BY InductiveInvariant, <1>1, PTL

=============================================================================
