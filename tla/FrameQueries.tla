---------------------------- MODULE FrameQueries ----------------------------
(* What VClient answers about the frame it holds: its number, rate, timecode *)
(* and latency, its subjects, their segments and markers.  A query is a pure *)
(* function of m_LatestFrame; every one holds m_FrameMutex throughout.       *)
(*                                                                           *)
(* GetFrame, with lightweight segment data, first completes the frame: the   *)
(* server sends the pose of each segment in its parent as a helical vector,  *)
(* and CalculateGlobalsFromLocals adds the matrices and the global poses.    *)
(*                                                                           *)
(* A frame is a record of lists as the server sends them.  Poses of a        *)
(* subject's segments are sets, and positions and rotations are those of     *)
(* Geometry.  IsFrame says what the server keeps to: names and ids are       *)
(* unique within the list they belong to, although the ids of two subjects'  *)
(* segments and markers overlap, and the segments of a subject form a tree.  *)
EXTENDS Answers, AxisMapping

CONSTANT Frames   \* the frames that a server may send

VARIABLES online,      \* IsConnected
          heldFrame,   \* m_LatestFrame, or NoData before the first GetFrame
          lightweight  \* m_bLightweightSegmentDataEnabled

queryVars == <<online, heldFrame, lightweight>>

NoData == [id |-> -1]
HasData == heldFrame # NoData

Triples == [Index -> Int]

\* Segments point to their parents, and only the root to none.
IsTree(segments) ==
    LET ids == {g.id : g \in Range(segments)}
    IN /\ \A g \in Range(segments) : g.id # 0 /\ g.parent \in ids \cup {0}
       /\ \A g, h \in Range(segments) : g.parent = 0 /\ h.parent = 0 => g = h
       /\ \E depth \in [ids -> 0 .. Len(segments)] : \A g, h \in Range(segments) :
             /\ g.parent = 0 => depth[g.id] = 0
             /\ g.parent = h.id => depth[g.id] = depth[h.id] + 1

IsSubject(s) ==
    /\ \A list \in {s.segments, s.markers} :
          IsList(list) /\ Distinct(list, Name) /\ \A x \in Range(list) : x.name # ""
    /\ Distinct(s.segments, Id) /\ IsTree(s.segments)

HasSubjects(f) ==
    /\ IsList(f.subjects) /\ Distinct(f.subjects, Name) /\ Distinct(f.subjects, Id)
    /\ \A s \in Range(f.subjects) : s.name # "" /\ IsSubject(s)

\* Poses come for all subjects that are seen, or as lightweight data.
HasPoses(f) ==
    /\ \A list \in {f.globals, f.locals} :
          /\ IsList(list)
          /\ \A x \in Range(list) : \A p \in x.segments : p.t \in Triples /\ p.r \in Rotations
    /\ f.lightweights # <<>> => f.globals = <<>> /\ f.locals = <<>>
    /\ IsList(f.lightweights) /\ Distinct(f.lightweights, LAMBDA x : x.subject)
    /\ \A x \in Range(f.lightweights) :
          /\ \A l, m \in x.segments : l.id = m.id => l = m
          /\ \A l \in x.segments :
                /\ l.t \in Triples /\ l.axis \in UnitVectors /\ l.turns \in 0 .. 3
                /\ \A s \in Range(f.subjects) :
                      s.id = x.subject => \E g \in Range(s.segments) : g.id = l.id

\* The lists that the queries of this module search for names and poses.
IsFrame(f) ==
    /\ {"id", "latencies", "subjects", "globals", "locals", "lightweights", "labeled"} \subseteq DOMAIN f
    /\ f.id \in Nat
    /\ IsList(f.latencies) /\ Distinct(f.latencies, Name)
    /\ IsList(f.labeled)
    /\ HasSubjects(f) /\ HasPoses(f)

ASSUME FramesAssumption == \A f \in Frames : IsFrame(f)

InitGet(answer) ==
    IF ~online THEN Fail("NotConnected") ELSE IF ~HasData THEN Fail("NoFrame") ELSE answer

-----------------------------------------------------------------------------
(* The frame itself *)

TicksPerSecond == 135000000
GetFrameNumber == InitGet(Answer(heldFrame.id + 1))
GetFrameRate ==
    InitGet(Answer(IF heldFrame.period = 0 THEN 0 ELSE TicksPerSecond \div heldFrame.period))

Standards == {"PAL", "NTSC", "NTSCDrop", "Film", "NTSCFilm", "ATSC"}
GetTimecode ==
    InitGet(Answer([heldFrame.timecode EXCEPT
        !.fieldFlag = (@ # 0), !.standard = IF @ \in Standards THEN @ ELSE "None"]))

Total(numbers) ==
    LET sum[n \in 0 .. Len(numbers)] == IF n = 0 THEN 0 ELSE sum[n - 1] + numbers[n]
    IN sum[Len(numbers)]
GetLatencyTotal ==
    InitGet(Answer(Total([i \in DOMAIN heldFrame.latencies |-> heldFrame.latencies[i].latency])))
GetLatencySampleCount == InitGet(Answer(Len(heldFrame.latencies)))
GetLatencySampleName(i) == InitGet(At(heldFrame.latencies, i, Name))
GetLatencySampleValue(name) ==
    InitGet(FirstOf(heldFrame.latencies, LAMBDA s : s.name = name,
                    LAMBDA s : Answer(s.latency), Fail("InvalidLatencySampleName")))

GetHardwareFrameNumber == InitGet(Answer(heldFrame.hardwareFrame))

\* The frame rates are a map by name; the index counts its names in their order.
RateNames == SetToSortSeq(DOMAIN heldFrame.rates, LAMBDA a, b : a < b)
GetFrameRateCount == InitGet(Answer(Cardinality(DOMAIN heldFrame.rates)))
GetFrameRateName(i) == InitGet(At(RateNames, i, LAMBDA n : n))
GetFrameRateValue(name) ==
    InitGet(IF name \in DOMAIN heldFrame.rates THEN Answer(heldFrame.rates[name])
            ELSE Fail("InvalidFrameRateName"))

-----------------------------------------------------------------------------
(* Subjects and the tree of their segments *)

InSubject(name, Query(_)) ==
    InitGet(FirstOf(heldFrame.subjects, LAMBDA s : name # "" /\ s.name = name,
                    Query, Fail("InvalidSubjectName")))

\* GetSubjectAndSegmentID, GetSubjectAndMarkerID
InSegment(subject, segment, Query(_, _)) ==
    InSubject(subject, LAMBDA s :
        FirstOf(s.segments, LAMBDA g : segment # "" /\ g.name = segment,
                LAMBDA g : Query(s, g), Fail("InvalidSegmentName")))
InMarker(subject, marker, Query(_, _)) ==
    InSubject(subject, LAMBDA s :
        FirstOf(s.markers, LAMBDA k : marker # "" /\ k.name = marker,
                LAMBDA k : Query(s, k), Fail("InvalidMarkerName")))

GetSubjectCount == InitGet(Answer(Len(heldFrame.subjects)))
GetSubjectName(i) == InitGet(At(heldFrame.subjects, i, Name))

RootOf(s) == Those(s.segments, LAMBDA g : g.parent = 0)
GetSubjectRootSegmentName(subject) ==
    InSubject(subject, LAMBDA s :
        IF RootOf(s) = <<>> THEN Fail("Unknown") ELSE Answer(RootOf(s)[1].name))

GetSegmentCount(subject) == InSubject(subject, LAMBDA s : Answer(Len(s.segments)))
GetSegmentName(subject, i) == InSubject(subject, LAMBDA s : At(s.segments, i, Name))

Children(s, g) == Those(s.segments, LAMBDA c : c.parent = g.id)

GetSegmentChildCount(subject, segment) ==
    InSegment(subject, segment, LAMBDA s, g : Answer(Len(Children(s, g))))
GetSegmentChildName(subject, segment, i) ==
    InSegment(subject, segment, LAMBDA s, g : At(Children(s, g), i, Name))
GetSegmentParentName(subject, segment) ==
    InSegment(subject, segment, LAMBDA s, g :
        FirstOf(s.segments, LAMBDA p : p.id = g.parent,
                LAMBDA p : Answer(p.name), Fail("Unknown")))

\* GetSubjectTopology, GetSubjectScale, GetObjectQuality: an item of a subject's.
OfSubject(list, s, Found(_), missing) ==
    FirstOf(list, LAMBDA x : x.subject = s.id, Found, Fail(missing))
OfSegment(x, g, Value(_), missing) ==
    FirstOf(x.segments, LAMBDA y : y.id = g.id, LAMBDA y : Answer(Value(y)), Fail(missing))

MappedT(t) == CopyAndTransformT(axes, yUp, t)
MappedR(r) == CopyAndTransformR(axes, yUp, r)

GetSegmentStaticTranslation(subject, segment) ==
    InSegment(subject, segment, LAMBDA s, g :
        OfSubject(heldFrame.topologies, s, LAMBDA x :
            OfSegment(x, g, LAMBDA y : MappedT(y.t), "InvalidSegmentName"), "InvalidSubjectName"))
GetSegmentStaticRotationMatrix(subject, segment) ==
    InSegment(subject, segment, LAMBDA s, g :
        OfSubject(heldFrame.topologies, s, LAMBDA x :
            OfSegment(x, g, LAMBDA y : MappedR(y.r), "Unknown"), "InvalidSubjectName"))

\* ...Helical, ...Quaternion and ...EulerXYZ of a rotation that is there.
InForm(Form(_), rotationAnswer) ==
    IF Succeeds(rotationAnswer) THEN Answer(Form(rotationAnswer.value)) ELSE rotationAnswer

GetSegmentStaticRotationHelical(subject, segment) ==
    InForm(MatrixToHelical, GetSegmentStaticRotationMatrix(subject, segment))
GetSegmentStaticRotationQuaternion(subject, segment) ==
    InForm(MatrixToQuaternion, GetSegmentStaticRotationMatrix(subject, segment))
GetSegmentStaticRotationEulerXYZ(subject, segment) ==
    InForm(MatrixToEulerXYZ, GetSegmentStaticRotationMatrix(subject, segment))

\* Scale data is refused when segment data is on and the server has no scales;
\* a scale is handed out without a change of axes.
GetSegmentStaticScale(segmentData, scaleData, subject, segment) ==
    IF segmentData /\ ~scaleData THEN Fail("NotSupported")
    ELSE InSegment(subject, segment, LAMBDA s, g :
            OfSubject(heldFrame.scales, s, LAMBDA x :
                OfSegment(x, g, LAMBDA y : y.scale, "Unknown"), "NotPresent"))

GetObjectQuality(subject) ==
    InSubject(subject, LAMBDA s :
        OfSubject(heldFrame.qualities, s, LAMBDA q : Answer(q.quality), "NotImplemented"))

-----------------------------------------------------------------------------
(* Poses of segments *)

\* The pose of a segment of a subject: lists of several subjects, in which the
\* segments of a subject have ids of their own.  Absent data is occluded.
\* Variant for mutation testing: the lists of all subjects are searched.
Pose_AnySubject(lists, s, g) ==
    {p \in UNION {lists[i].segments : i \in DOMAIN lists} : p.id = g.id}

Pose(lists, s, g) ==
    {p \in UNION {lists[i].segments : i \in {j \in DOMAIN lists : lists[j].subject = s.id}} :
        p.id = g.id}

PoseAnswer(lists, subject, segment, Value(_)) ==
    InSegment(subject, segment, LAMBDA s, g :
        LET hits == Pose(lists, s, g)
        IN IF hits = {} THEN Occluded ELSE Answer(Value(CHOOSE p \in hits : TRUE)))

GetSegmentGlobalTranslation(subject, segment) ==
    PoseAnswer(heldFrame.globals, subject, segment, LAMBDA p : MappedT(p.t))
GetSegmentGlobalRotationMatrix(subject, segment) ==
    PoseAnswer(heldFrame.globals, subject, segment, LAMBDA p : MappedR(p.r))
GetSegmentLocalTranslation(subject, segment) ==
    PoseAnswer(heldFrame.locals, subject, segment, LAMBDA p : MappedT(p.t))
GetSegmentLocalRotationMatrix(subject, segment) ==
    PoseAnswer(heldFrame.locals, subject, segment, LAMBDA p : MappedR(p.r))

GetSegmentGlobalRotationHelical(subject, segment) ==
    InForm(MatrixToHelical, GetSegmentGlobalRotationMatrix(subject, segment))
GetSegmentGlobalRotationQuaternion(subject, segment) ==
    InForm(MatrixToQuaternion, GetSegmentGlobalRotationMatrix(subject, segment))
GetSegmentGlobalRotationEulerXYZ(subject, segment) ==
    InForm(MatrixToEulerXYZ, GetSegmentGlobalRotationMatrix(subject, segment))
GetSegmentLocalRotationHelical(subject, segment) ==
    InForm(MatrixToHelical, GetSegmentLocalRotationMatrix(subject, segment))
GetSegmentLocalRotationQuaternion(subject, segment) ==
    InForm(MatrixToQuaternion, GetSegmentLocalRotationMatrix(subject, segment))
GetSegmentLocalRotationEulerXYZ(subject, segment) ==
    InForm(MatrixToEulerXYZ, GetSegmentLocalRotationMatrix(subject, segment))

\* The local and the global pose of a segment, given the pose of its parent.
\* Variant for mutation testing: the rotations are multiplied the other way.
PoseBelow_Swapped(parentT, parentR, l) ==
    LET r == HelicalToMatrix(l.axis, l.turns)
    IN [ id |-> l.id, localT |-> l.t, localR |-> r,
         t |-> Plus(parentT, TimesVector(parentR, l.t)), r |-> Times(r, parentR) ]

PoseBelow(parentT, parentR, l) ==
    LET r == HelicalToMatrix(l.axis, l.turns)
    IN [ id |-> l.id, localT |-> l.t, localR |-> r,
         t |-> Plus(parentT, TimesVector(parentR, l.t)), r |-> Times(parentR, r) ]

\* The poses of a subject, from the root down: at each depth those below the
\* poses at the last one.  None when a segment has a pose, and the lightweight
\* data of one below it is missing.
CalculateSegmentGlobalFromLocal(s, root, light) ==
    LET DataOf(ids) == {l \in light : l.id \in ids}
        Below(p) == {c.id : c \in Range(Children(s, p))}
        placed[depth \in 0 .. Len(s.segments)] ==
            IF depth = 0 THEN {PoseBelow(<<0, 0, 0>>, NoRotation, l) : l \in DataOf({root.id})}
            ELSE UNION {{PoseBelow(p.t, p.r, l) : l \in DataOf(Below(p))} : p \in placed[depth - 1]}
        poses == UNION {placed[depth] : depth \in DOMAIN placed}
    IN IF \A p \in poses : Below(p) \subseteq {l.id : l \in light} THEN poses ELSE {}

PosesOf(f, s) ==
    FirstOf(f.lightweights, LAMBDA x : x.subject = s.id,
            LAMBDA x : CalculateSegmentGlobalFromLocal(s, RootOf(s)[1], x.segments), {})

\* The subjects are taken in turn, up to the first one without a root.
BeforeRootless(subjects) ==
    SubSeq(subjects, 1, First({i \in DOMAIN subjects : RootOf(subjects[i]) = <<>>}
                                  \cup {Len(subjects) + 1}) - 1)

\* The frame with the poses of the subjects that have them.  A server that has
\* been asked for lightweight data sends no other poses.
CalculateGlobalsFromLocals(f) ==
    LET posed == Those(BeforeRootless(f.subjects), LAMBDA s : PosesOf(f, s) # {})
        Of(T(_), R(_)) == [i \in DOMAIN posed |->
            [ subject  |-> posed[i].id,
              segments |-> {[id |-> p.id, t |-> T(p), r |-> R(p)] : p \in PosesOf(f, posed[i])} ]]
    IN [f EXCEPT !.globals = @ \o Of(LAMBDA p : p.t, LAMBDA p : p.r),
                 !.locals  = @ \o Of(LAMBDA p : p.localT, LAMBDA p : p.localR)]

-----------------------------------------------------------------------------
(* Markers *)

GetMarkerCount(subject) == InSubject(subject, LAMBDA s : Answer(Len(s.markers)))
GetMarkerName(subject, i) == InSubject(subject, LAMBDA s : At(s.markers, i, Name))

\* The segment that the marker is first attached to; id 0 is no segment's.
GetMarkerParentName(subject, marker) ==
    InMarker(subject, marker, LAMBDA s, k :
        LET segment == FirstOf(s.attachments, LAMBDA a : a.marker = k.id, LAMBDA a : a.segment, 0)
        IN FirstOf(s.segments, LAMBDA g : g.id = segment,
                   LAMBDA g : Answer(g.name), Fail("InvalidMarkerName")))

OfMarker(list, s, k) == Those(list, LAMBDA x : x.subject = s.id /\ x.marker = k.id)

GetMarkerGlobalTranslation(subject, marker) ==
    InMarker(subject, marker, LAMBDA s, k :
        FirstOf(OfMarker(heldFrame.labeled, s, k), LAMBDA x : TRUE,
                LAMBDA x : Answer(MappedT(x.t)), Occluded))

GetReconRayAssignments(subject, marker) ==
    InMarker(subject, marker, LAMBDA s, k :
        Answer(FlattenSeq([i \in DOMAIN OfMarker(heldFrame.rays, s, k) |->
                               OfMarker(heldFrame.rays, s, k)[i].rays])))
GetMarkerRayAssignmentCount(subject, marker) ==
    LET rays == GetReconRayAssignments(subject, marker)
    IN IF Succeeds(rays) THEN Answer(Len(rays.value)) ELSE rays
GetMarkerRayAssignment(subject, marker, i) ==
    LET rays == GetReconRayAssignments(subject, marker)
    IN IF Succeeds(rays) THEN At(rays.value, i, LAMBDA r : r) ELSE rays

Position(x) == [t |-> MappedT(x.t), trajectory |-> x.trajectory]
GetUnlabeledMarkerCount == InitGet(Answer(Len(heldFrame.unlabeled)))
GetUnlabeledMarkerGlobalTranslation(i) == InitGet(At(heldFrame.unlabeled, i, Position))
GetLabeledMarkerCount == InitGet(Answer(Len(heldFrame.labeled)))
GetLabeledMarkerGlobalTranslation(i) == InitGet(At(heldFrame.labeled, i, Position))

-----------------------------------------------------------------------------
QueryInit == online = FALSE /\ heldFrame = NoData /\ lightweight = FALSE

GoOnline(light) == ~online /\ online' = TRUE /\ lightweight' = light /\ UNCHANGED heldFrame
GoOffline == online /\ online' = FALSE /\ UNCHANGED <<heldFrame, lightweight>>

\* A successful GetFrame; lightweight data comes when it is enabled.
HoldFrame(f) ==
    /\ online
    /\ (f.lightweights # <<>>) = lightweight
    /\ heldFrame' = IF lightweight THEN CalculateGlobalsFromLocals(f) ELSE f
    /\ UNCHANGED <<online, lightweight>>

QueryNext ==
    \/ \E light \in BOOLEAN : GoOnline(light)
    \/ GoOffline
    \/ \E f \in Frames : HoldFrame(f)

\* The queries and the axes that they use.
QuerySpec ==
    /\ QueryInit /\ AxisInit
    /\ [][(QueryNext /\ UNCHANGED axisVars) \/ (AxisNext /\ UNCHANGED queryVars)]_<<queryVars, axisVars>>
-----------------------------------------------------------------------------
SubjectNames == {GetSubjectName(i).value : i \in 0 .. GetSubjectCount.value - 1}
SegmentNames(s) == {GetSegmentName(s, i).value : i \in 0 .. GetSegmentCount(s).value - 1}
ChildNames(s, g) ==
    {GetSegmentChildName(s, g, i).value : i \in 0 .. GetSegmentChildCount(s, g).value - 1}
Reading == online /\ HasData

\* The tree of segments is the same read downwards and upwards: a segment is a
\* child of exactly the one that it names its parent, and only the root segment
\* has none (three searches of the code that must agree).
SegmentTreeAgrees ==
    Reading => \A s \in SubjectNames : \A c \in SegmentNames(s) :
        LET parents == {g \in SegmentNames(s) : c \in ChildNames(s, g)}
        IN IF parents = {}
           THEN /\ GetSubjectRootSegmentName(s) = Answer(c)
                /\ GetSegmentParentName(s, c) = Fail("Unknown")
           ELSE parents = {GetSegmentParentName(s, c).value}

\* Every pose and every marker the server sent is found under the names of its
\* subject and segment or marker, and what it did not send is occluded.  A
\* rotation is handed out as a matrix and a quaternion that names it, or neither.
DataIsFoundByName ==
    Reading => \A i \in DOMAIN heldFrame.subjects :
        LET s == heldFrame.subjects[i]
            Sent(lists, g) == {p.t : p \in {q \in UNION {x.segments :
                x \in {y \in Range(lists) : y.subject = s.id}} : q.id = g.id}}
            Found(answer, sent) ==
                IF sent = {} THEN answer = Occluded
                             ELSE answer \in {Answer(MappedT(t)) : t \in sent}
            BothForms(q, r) ==
                IF Succeeds(r) THEN QuaternionNames(q.value, r.value) ELSE q = r
        IN /\ \A g \in Range(s.segments) :
                /\ Found(GetSegmentGlobalTranslation(s.name, g.name), Sent(heldFrame.globals, g))
                /\ Found(GetSegmentLocalTranslation(s.name, g.name), Sent(heldFrame.locals, g))
                /\ BothForms(GetSegmentGlobalRotationQuaternion(s.name, g.name),
                             GetSegmentGlobalRotationMatrix(s.name, g.name))
                /\ BothForms(GetSegmentLocalRotationQuaternion(s.name, g.name),
                             GetSegmentLocalRotationMatrix(s.name, g.name))
           /\ \A k \in Range(s.markers) :
                Found(GetMarkerGlobalTranslation(s.name, k.name),
                      {x.t : x \in Range(OfMarker(heldFrame.labeled, s, k))})

\* The total latency is the sum of the samples that can be listed and read by
\* name, the one for the network included that the client has added.
LatencyAddsUp ==
    Reading =>
        LET count == GetLatencySampleCount.value
            Value(i) == GetLatencySampleValue(GetLatencySampleName(i).value).value
        IN /\ GetLatencyTotal.value = Total([i \in 1 .. count |-> Value(i - 1)])
           /\ GetLatencySampleName(count) = Fail("InvalidIndex")

\* What is listed leads to what was sent: names to the one tree of segments, to
\* every pose and marker, although subjects share the ids of segments and of
\* markers, and to all latencies of the sum.
NamesLeadToData == SegmentTreeAgrees /\ DataIsFoundByName /\ LatencyAddsUp

\* With lightweight data the client hands out the poses that the server would
\* have sent: the global pose of a segment is its parent's, turned and moved by
\* its local one, in the axes of the client.  A subject of which the data of
\* one segment is missing has no pose at all, and the others keep theirs.
LightweightPosesCompose ==
    Reading /\ heldFrame.lightweights # <<>> =>
        \A i \in DOMAIN BeforeRootless(heldFrame.subjects) :
            LET s == heldFrame.subjects[i]
                complete == \E x \in Range(heldFrame.lightweights) :
                    x.subject = s.id /\ {g.id : g \in Range(s.segments)} = {l.id : l \in x.segments}
            IN \A g \in Range(s.segments) :
                LET t == GetSegmentGlobalTranslation(s.name, g.name)
                    r == GetSegmentGlobalRotationMatrix(s.name, g.name)
                    lt == GetSegmentLocalTranslation(s.name, g.name)
                    lr == GetSegmentLocalRotationMatrix(s.name, g.name)
                    p == GetSegmentParentName(s.name, g.name)
                    pt == GetSegmentGlobalTranslation(s.name, p.value)
                    pr == GetSegmentGlobalRotationMatrix(s.name, p.value)
                IN CASE ~complete    -> {t, r, lt, lr} = {Occluded}
                     [] ~Succeeds(p) -> t = lt /\ r = lr
                     [] OTHER        -> /\ t = Answer(Plus(pt.value, TimesVector(pr.value, lt.value)))
                                        /\ r = Answer(Times(pr.value, lr.value))
=============================================================================
