----------------------------- MODULE RetimingCore -----------------------------
(* VRetimingCore and the queries of VRetimingClient.  The poses of the last  *)
(* two good frames of each subject are kept; UpdateFrame predicts from them  *)
(* the pose of each subject at the time the program wants, and the queries   *)
(* answer from the predicted poses, or, what does not move, from the newest  *)
(* frame.                                                                    *)
(*                                                                           *)
(* Time is counted in ticks of the wall clock, which hrc reads, so it may be *)
(* set back.  A segment moves along one axis and turns about one axis: its   *)
(* rotation is an angle in FullTurn-ths of a turn.  Turns about one axis     *)
(* commute, so the model does not tell in which order PredictRotation        *)
(* multiplies the predicted turn and the first rotation.  A predicted number *)
(* is the quotient of num and den, and no number when den is 0.              *)
EXTENDS Answers, FiniteSets, Functions

CONSTANTS ReceivedFrames, \* frames of the server: by subject, its names and segments
          MaxClock, MaxClockSteps, \* the clock's last tick; how often it is set back
          Predictions     \* what SetMaximumPrediction is called with

FullTurn == 8
BufSize == 2
NullPose == [result |-> "NullPose"]

\* The poses of a subject as the queries of VClient answer: its root, the names of
\* its segments, which have names of their own, and of each segment its parent, its
\* children, the number of its place and its angle, and whether it is occluded.
IsReceived(pose) ==
    /\ DOMAIN pose = {"root", "names", "segments"}
    /\ pose.names \in Seq(DOMAIN pose.segments)
    /\ \A g \in DOMAIN pose.segments :
         /\ pose.segments[g].t \in Int /\ pose.segments[g].r \in 0 .. FullTurn - 1
         /\ pose.segments[g].occluded \in BOOLEAN
         /\ pose.segments[g].children \in Seq(DOMAIN pose.segments)
         /\ \A c \in DOMAIN pose.segments[g].children :
              pose.segments[pose.segments[g].children[c]].parent = g

ASSUME RetimingCoreAssumption ==
    /\ {MaxClock, MaxClockSteps} \subseteq Nat /\ Predictions \subseteq Nat
    /\ \A frame \in ReceivedFrames :
         IsFiniteSet(DOMAIN frame) /\ \A s \in DOMAIN frame : IsReceived(frame[s])

VARIABLES linked,        \* m_pClient->IsConnected
          now, stepped,  \* the clock, and how often it was set back
          goodPoses,     \* m_Data: the last good poses of each subject
          predicted,     \* m_LatestOutputPoses
          maxPrediction, \* m_MaxPredictionTime
          seen           \* when each subject was last received with no segment occluded

coreVars == <<linked, now, stepped, goodPoses, predicted, maxPrediction, seen>>

-----------------------------------------------------------------------------
(* Prediction (RetimerUtils.cpp, VRetimingCore::Predict) *)

PredictVal(d1, t1, d2, t2, t) ==
    [num |-> d1 * (t2 - t1) + (d2 - d1) * (t - t1), den |-> t2 - t1]

\* Variant for mutation testing: the long way round is not looked for.
PredictRotation_AnyWay(r1, t1, r2, t2, t) ==
    [num |-> (r1 * (t2 - t1) + ((r2 - r1) % FullTurn) * (t - t1)) % (FullTurn * (t2 - t1)),
     den |-> t2 - t1]

\* The turn from r1 to r2, the shorter way round, goes on at the same speed.  The
\* quaternion of no turn has no axis: r1 is the answer, whatever the times.
PredictRotation(r1, t1, r2, t2, t) ==
    LET turn == (r2 - r1) % FullTurn
        angle == IF 2 * turn > FullTurn THEN turn - FullTurn ELSE turn
    IN IF turn = 0 THEN [num |-> r1, den |-> 1]
       ELSE IF t2 = t1 THEN [num |-> 0, den |-> 0]
       ELSE [num |-> (r1 * (t2 - t1) + angle * (t - t1)) % (FullTurn * (t2 - t1)), den |-> t2 - t1]

PredictSegment(p1, p2, segment, t) ==
    LET s1 == p1.segments[segment]
        s2 == p2.segments[segment]
    IN [ t        |-> PredictVal(s1.t, p1.time, s2.t, p2.time, t),
         r        |-> PredictRotation(s1.r, p1.time, s2.r, p2.time, t),
         occluded |-> s1.occluded \/ s2.occluded ]

\* Variant for mutation testing: the gap between the samples is added to the limit.
Predict_Unlimited(p1, p2, t) ==
    IF p2.time < p1.time THEN [result |-> "Invalid"]
    ELSE IF t < p1.time THEN [result |-> "Early"]
    ELSE IF t - p2.time > maxPrediction + (p2.time - p1.time) THEN [result |-> "Late"]
    ELSE [ result |-> "Success", time |-> t, root |-> p1.root,
           segments |-> [g \in DOMAIN p1.segments \cap DOMAIN p2.segments |->
                            PredictSegment(p1, p2, g, t)] ]

Predict(p1, p2, t) ==
    IF p2.time < p1.time THEN [result |-> "Invalid"]
    ELSE IF t < p1.time THEN [result |-> "Early"]
    ELSE IF t - p2.time > maxPrediction THEN [result |-> "Late"]
    ELSE [ result   |-> "Success",
           time     |-> t,
           root     |-> p1.root,
           segments |-> [g \in DOMAIN p1.segments \cap DOMAIN p2.segments |->
                            PredictSegment(p1, p2, g, t)] ]

-----------------------------------------------------------------------------
(* The actions *)

CoreInit ==
    /\ linked = TRUE /\ now = 0 /\ stepped = 0
    /\ goodPoses = <<>> /\ predicted = <<>>
    /\ maxPrediction \in Predictions
    /\ seen = <<>>

IsOccluded(pose) == \E g \in DOMAIN pose.segments : pose.segments[g].occluded
GoodIn(frame) == {s \in DOMAIN frame : ~IsOccluded(frame[s])}
Stamped(pose) ==
    [time |-> now, root |-> pose.root, names |-> pose.names, segments |-> pose.segments]
Newest(all) == SubSeq(all, IF Len(all) > BufSize THEN 2 ELSE 1, Len(all))
Known(f, s) == IF s \in DOMAIN f THEN f[s] ELSE <<>>

\* Variant for mutation testing: an occluded subject is forgotten.
AddData_Forgets(frame) ==
    goodPoses' = [s \in (DOMAIN goodPoses \ DOMAIN frame) \cup GoodIn(frame) |->
        IF s \in GoodIn(frame)
        THEN Newest(Append(Known(goodPoses, s), Stamped(frame[s])))
        ELSE goodPoses[s]]

\* Subjects with an occluded segment are passed over, so that a gap is bridged.
AddData(frame) ==
    goodPoses' = [s \in DOMAIN goodPoses \cup GoodIn(frame) |->
        IF s \in GoodIn(frame)
        THEN Newest(Append(Known(goodPoses, s), Stamped(frame[s])))
        ELSE goodPoses[s]]

\* The input thread reads the poses of a frame by the queries of VClient and
\* adds them with the time of the clock.
ReceiveFrame(frame) ==
    /\ linked /\ now < MaxClock
    /\ now' = now + 1
    /\ AddData(frame)
    /\ seen' = [s \in DOMAIN seen \cup GoodIn(frame) |-> IF s \in GoodIn(frame) THEN now ELSE seen[s]]
    /\ UNCHANGED <<linked, stepped, predicted, maxPrediction>>

PredictedAt(s, t) == IF Len(goodPoses[s]) < 2 THEN NullPose ELSE Predict(goodPoses[s][1], goodPoses[s][2], t)

\* UpdateFrame of the program with an offset, or of the output thread with the
\* negated latency.
UpdateFrameAtTime(offset) ==
    /\ predicted' = [s \in DOMAIN goodPoses |-> PredictedAt(s, now + offset)]
    /\ UNCHANGED <<linked, now, stepped, goodPoses, maxPrediction, seen>>
UpdateFrameResult ==
    IF \E s \in DOMAIN predicted : predicted[s].result = "Success" THEN "Success" ELSE "NoFrame"

SetMaximumPrediction(m) ==
    /\ maxPrediction' = m
    /\ UNCHANGED <<linked, now, stepped, goodPoses, predicted, seen>>

PassTime == now < MaxClock /\ now' = now + 1
            /\ UNCHANGED <<linked, stepped, goodPoses, predicted, maxPrediction, seen>>
SetClockBack == /\ stepped < MaxClockSteps /\ stepped' = stepped + 1
                /\ now' \in 0 .. now - 1
                /\ UNCHANGED <<linked, goodPoses, predicted, maxPrediction, seen>>
LinkChanges == linked' = ~linked
               /\ UNCHANGED <<now, stepped, goodPoses, predicted, maxPrediction, seen>>

CoreNext ==
    \/ \E frame \in ReceivedFrames : ReceiveFrame(frame)
    \/ \E offset \in {-2, 0, 1} : UpdateFrameAtTime(offset)
    \/ \E m \in Predictions : SetMaximumPrediction(m)
    \/ PassTime \/ SetClockBack \/ LinkChanges

CoreSpec == CoreInit /\ [][CoreNext]_coreVars

-----------------------------------------------------------------------------
(* The queries *)

\* Results of the retimer in those of the client.
AdaptResult(r) ==
    CASE r = "Success" -> "Success"
      [] r \in {"NoData", "NullPose"} -> "NoFrame"
      [] r = "UnknownSubject" -> "InvalidSubjectName"
      [] r = "Early" -> "EarlyDataRequested"
      [] r = "Late" -> "LateDataRequested"
      [] r = "Invalid" -> "InvalidOperation"

InitRetimed(answer) ==
    IF ~linked THEN Fail("NotConnected")
    ELSE IF DOMAIN goodPoses = {} THEN Fail("NoFrame") ELSE answer

\* GetSubjectStatic and GetSubject of the retimer
OfNewest(subject, Query(_)) ==
    IF subject \notin DOMAIN goodPoses THEN Fail(AdaptResult("UnknownSubject"))
    ELSE Query(Last(goodPoses[subject]))
OfPredicted(subject, Query(_)) ==
    IF subject \notin DOMAIN predicted THEN Fail(AdaptResult("UnknownSubject"))
    ELSE IF predicted[subject].result # "Success" THEN Fail(AdaptResult(predicted[subject].result))
    ELSE Query(predicted[subject])

Subjects == SetToSeq(DOMAIN predicted)
RetimedSubjectCount == IF DOMAIN goodPoses = {} THEN Fail("NoFrame") ELSE Answer(Len(Subjects))
RetimedSubjectName(i) ==
    IF i >= Len(Subjects) THEN Fail(AdaptResult("UnknownSubject")) ELSE Answer(Subjects[i + 1])

\* Names of segments: a segment that is not known is an error ...
OfKnownSegment(pose, segment, Value(_)) ==
    IF segment \in DOMAIN pose.segments THEN Answer(Value(pose.segments[segment]))
    ELSE Fail("InvalidSegmentName")
RetimedRootName(subject) == OfNewest(subject, LAMBDA p : Answer(p.root))
RetimedSegmentCount(subject) == OfNewest(subject, LAMBDA p : Answer(Len(p.names)))
RetimedSegmentName(subject, i) == OfNewest(subject, LAMBDA p : At(p.names, i, LAMBDA n : n))
RetimedParentName(subject, segment) ==
    OfNewest(subject, LAMBDA p : OfKnownSegment(p, segment, LAMBDA g : g.parent))
RetimedChildCount(subject, segment) ==
    OfNewest(subject, LAMBDA p : OfKnownSegment(p, segment, LAMBDA g : Len(g.children)))
RetimedChildName(subject, segment, i) ==
    OfNewest(subject, LAMBDA p :
        IF segment \notin DOMAIN p.segments THEN Fail("InvalidSegmentName")
        ELSE At(p.segments[segment].children, i, LAMBDA n : n))

\* ... while its poses are zeros, and Success.
RetimedStatic(subject, segment) ==
    InitRetimed(OfNewest(subject, LAMBDA p :
        IF segment \notin DOMAIN p.segments THEN Answer("Zeros")
        ELSE Answer(p.segments[segment].static)))
RetimedStaticScale(subject, segment) ==
    InitRetimed(OfNewest(subject, LAMBDA p :
        IF segment \notin DOMAIN p.segments THEN Answer("Zeros")
        ELSE IF p.segments[segment].scale = 0 THEN Fail("NotPresent")
        ELSE Answer(p.segments[segment].scale)))

\* The four forms of a rotation, and the translation; globally and in the parent.
RetimedPose(subject, segment) ==
    InitRetimed(OfPredicted(subject, LAMBDA p :
        IF segment \notin DOMAIN p.segments THEN Answer("Zeros")
        ELSE IF p.segments[segment].occluded THEN Occluded
        ELSE Answer(p.segments[segment])))

-----------------------------------------------------------------------------
\* A prediction joins the samples it is made from: at the time of a sample it
\* is that sample, and between the two it stays between them, turning at most
\* half a turn, whichever way the angles wrap.
Same(quotient, value) == quotient.num = value * quotient.den
SameTurn(quotient, angle) == quotient.num = (angle * quotient.den) % (FullTurn * quotient.den)
PredictionJoinsSamples ==
    \A s \in DOMAIN goodPoses : Len(goodPoses[s]) = 2 =>
        LET p1 == goodPoses[s][1]
            p2 == goodPoses[s][2]
        IN p1.time < p2.time =>
           \A g \in DOMAIN p1.segments \cap DOMAIN p2.segments :
             LET From(t) == PredictSegment(p1, p2, g, t)
                 Turned(t) == LET d == (From(t).r.num - p1.segments[g].r * From(t).r.den)
                                        % (FullTurn * From(t).r.den)
                              IN 2 * Min({d, FullTurn * From(t).r.den - d})
                 limit(t) == LET d == (p2.segments[g].r - p1.segments[g].r) % FullTurn
                             IN 2 * Min({d, FullTurn - d}) * From(t).r.den
             IN /\ Same(From(p1.time).t, p1.segments[g].t) /\ Same(From(p2.time).t, p2.segments[g].t)
                /\ SameTurn(From(p1.time).r, p1.segments[g].r) /\ SameTurn(From(p2.time).r, p2.segments[g].r)
                /\ \A t \in p1.time .. p2.time : Turned(t) <= limit(t)

\* What UpdateFrame predicts with Success is at most the maximum prediction
\* ahead of the last frame in which the whole subject was seen, however long it
\* has been occluded since, and whether or not the clock was set back before.
RetimedIsRecent ==
    [][\A s \in DOMAIN predicted' :
          (predicted' # predicted /\ predicted'[s].result = "Success") =>
              predicted'[s].time <= seen[s] + maxPrediction]_coreVars

\* What is handed out hangs together: no pose is marked occluded, for a segment
\* that is, the root or another, keeps the frame of its subject out; every
\* subject that is listed has what does not move, a root, names of its segments
\* and their tree, also while no pose of it can be predicted.
RetimedAnswersAgree ==
    /\ \A s \in DOMAIN predicted : predicted[s].result = "Success" =>
           \A g \in DOMAIN predicted[s].segments : RetimedPose(s, g) # Occluded
    /\ \A i \in 0 .. Len(Subjects) - 1 :
           LET s == RetimedSubjectName(i).value
           IN /\ RetimedSubjectCount = Answer(Len(Subjects))
              /\ Succeeds(RetimedRootName(s))
              /\ \A k \in 0 .. RetimedSegmentCount(s).value - 1 :
                   LET g == RetimedSegmentName(s, k).value
                   IN /\ Succeeds(RetimedParentName(s, g))
                      /\ \A c \in 0 .. RetimedChildCount(s, g).value - 1 :
                           LET child == RetimedChildName(s, g, c).value
                           IN RetimedParentName(s, child) = Answer(g)
                      /\ linked => Succeeds(RetimedStatic(s, g))

-----------------------------------------------------------------------------
\* The inductive invariant from which these three follow.  A subject has one or
\* two samples, the last of them from when it was last seen whole; a sample is
\* what was received of a subject with no segment occluded; and so is what was
\* predicted from two samples of a subject that is still known.
SamplesEndWhenSeen ==
    /\ DOMAIN seen = DOMAIN goodPoses /\ IsFiniteSet(DOMAIN goodPoses)
    /\ \A s \in DOMAIN goodPoses :
         /\ goodPoses[s] \in Seq(Range(goodPoses[s])) /\ Len(goodPoses[s]) \in 1 .. BufSize
         /\ Last(goodPoses[s]).time = seen[s]
IsGood(pose) ==
    /\ pose.time \in Int /\ ~IsOccluded(pose)
    /\ IsReceived([root |-> pose.root, names |-> pose.names, segments |-> pose.segments])
SamplesAreGood == \A s \in DOMAIN goodPoses : \A p \in Range(goodPoses[s]) : IsGood(p)
PredictedIsKnown ==
    /\ DOMAIN predicted \subseteq DOMAIN goodPoses
    /\ \A s \in DOMAIN predicted : predicted[s].result = "Success" => ~IsOccluded(predicted[s])
CoreInv == now \in Nat /\ maxPrediction \in Predictions /\ SamplesEndWhenSeen /\ SamplesAreGood /\ PredictedIsKnown
=============================================================================
