--------------------------- MODULE MCClientLibrary ---------------------------
(* The instance of the client_library run: what the client makes of a frame, *)
(* AxisMapping, FrameQueries, DeviceQueries, CameraQueries, RetimingCore,    *)
(* CGStream and VideoDecoding.  A behaviour exercises one of them, the       *)
(* focus, and the others stay as they began; the queries and the axes, which *)
(* they use, are one focus.                                                  *)
EXTENDS DeviceQueries, CameraQueries, RetimingCore, CGStream, VideoDecoding

VARIABLE focus

modelVars == <<queryVars, axisVars, coreVars, objectVars, videoVars>>

-----------------------------------------------------------------------------
(* Frames for the queries.  Subjects: a chain of segments listed out of      *)
(* order with a marker attached to a segment that is not there, a second one *)
(* with the ids and names of the first, and one without segments.            *)

Seg(id, name, parent) == [id |-> id, name |-> name, parent |-> parent]
Marker(id, name) == [id |-> id, name |-> name]
Ann == [ id |-> 1, name |-> "ann",
         segments |-> << Seg(2, "hip", 0), Seg(1, "knee", 2), Seg(3, "toe", 1) >>,
         markers |-> << Marker(1, "a"), Marker(2, "b") >>,
         attachments |-> << [marker |-> 1, segment |-> 3], [marker |-> 2, segment |-> 9] >> ]
Bob == [ id |-> 2, name |-> "bob",
         segments |-> << Seg(1, "hip", 0), Seg(2, "knee", 1) >>,
         markers |-> << Marker(2, "a") >>, attachments |-> <<>> ]
Cup == [ id |-> 3, name |-> "cup", segments |-> <<>>, markers |-> << Marker(1, "a") >>,
         attachments |-> <<>> ]
SubjectLists == { <<Ann, Bob>>, <<Bob, Ann>>, <<Bob, Cup, Ann>> }

Turn == << <<0, -1, 0>>, <<1, 0, 0>>, <<0, 0, 1>> >>
Tip == << <<1, 0, 0>>, <<0, 0, -1>>, <<0, 1, 0>> >>
GlobalPose(id, n) == [id |-> id, t |-> <<n, id, 0>>, r |-> Turn]
Light(id, axis, turns) == [id |-> id, t |-> <<id, 0, 1>>, axis |-> axis, turns |-> turns]
AnnLight == { Light(1, <<1, 0, 0>>, 1), Light(2, <<0, 0, 1>>, 3), Light(3, <<0, 1, 0>>, 2) }
BobLight == { Light(1, <<0, 1, 0>>, 1), Light(2, <<0, 0, 1>>, 0) }
OfOne(subject, segments) == [subject |-> subject, segments |-> segments]

\* A frame has everything; a list that is not given is empty.
FrameWith(given) ==
    given @@ [ id |-> 4, period |-> 1350000,
        timecode |-> [standard |-> "PAL", fieldFlag |-> 1], hardwareFrame |-> 7,
        latencies |-> << [name |-> "Processing", latency |-> 3],
                         [name |-> "Network Transmission", latency |-> 2] >>,
        rates |-> (1 :> 100 @@ 2 :> 50),
        subjects |-> <<Ann, Bob>>, topologies |-> <<>>, scales |-> <<>>, qualities |-> <<>>,
        globals |-> <<>>, locals |-> <<>>, lightweights |-> <<>>, labeled |-> <<>>,
        rays |-> <<>>, unlabeled |-> <<>>,
        devices |-> <<>>, starts |-> <<>>, channels |-> <<>>, units |-> <<>>, plates |-> <<>>,
        trackers |-> <<>>, tracks |-> <<>>,
        samples |-> [Forces |-> <<>>, Moments |-> <<>>, CentresOfPressure |-> <<>>, Voltages |-> <<>>],
        cameras |-> <<>>, sensors |-> <<>>, centroids |-> <<>>, weights |-> <<>>,
        subsampled |-> <<>>, blobs |-> <<>>, videos |-> <<>> ]

LightFrames ==
    { FrameWith([subjects |-> s, lightweights |-> <<OfOne(2, b), OfOne(1, a)>>]) :
        s \in SubjectLists, a \in SUBSET AnnLight, b \in SUBSET BobLight }
PosedFrames ==
    { FrameWith([ subjects |-> s,
          globals |-> <<OfOne(1, {GlobalPose(i, 5) : i \in a}), OfOne(2, {GlobalPose(i, 6) : i \in b})>>,
          locals |-> <<OfOne(2, {GlobalPose(i, 7) : i \in b})>>,
          labeled |-> <<[subject |-> 2, marker |-> 2, t |-> <<1, 2, 3>>, trajectory |-> 1]>>,
          rays |-> << [subject |-> 2, marker |-> 2, rays |-> <<5, 6>>] >> ]) :
        s \in SubjectLists, a \in SUBSET (1 .. 3), b \in SUBSET (1 .. 2) }

\* Devices: a force plate, and one without a name; samples of the frames given,
\* told apart by their component and by their place in time.
RecordOf(device, channel, n, stride, f) ==
    [ device |-> device, channel |-> channel, frame |-> f,
      samples |-> [j \in 1 .. n * stride |-> 100 * (f * stride + ((j - 1) % stride)) + ((j - 1) \div stride)] ]
SampledRecords(channel, n, stride, sampled) ==
    [i \in DOMAIN sampled |-> RecordOf(1, channel, n, stride, sampled[i])]
ChannelOf(device, id, name, components) ==
    [device |-> device, id |-> id, name |-> name, components |-> components]
DeviceFrames ==
    { FrameWith([ id |-> id, period |-> 4,
          globals |-> <<OfOne(1, {GlobalPose(1, 6)}), OfOne(2, {GlobalPose(1, 8)})>>,
          devices |-> << [id |-> 2, name |-> "", period |-> 6], [id |-> 1, name |-> "plate", period |-> 6] >>,
          starts |-> << [id |-> 1, tick |-> start], [id |-> 2, tick |-> start] >>,
          channels |-> << ChannelOf(1, 1, "Force", <<"Fx", "Fy", "Fz">>),
                          ChannelOf(1, 2, "Moment", <<"Mx", "My", "Mz">>),
                          ChannelOf(1, 3, "CoP", <<"Cx", "Cy", "Cz">>),
                          ChannelOf(1, 4, "Volts", <<"", "v">>), ChannelOf(2, 1, "Volts", <<"", "w">>) >>,
          units |-> << [device |-> 2, channel |-> 1, unit |-> "volt"] >>,
          plates |-> << [id |-> 1, r |-> Tip, t |-> <<1000, 2000, 0>>] >>,
          trackers |-> << [id |-> 3, subject |-> worn, segment |-> 1, t |-> <<1, 2, 3>>, r |-> Tip] >>,
          tracks |-> << [id |-> 3, gaze |-> <<0, 1, 0>>] >>,
          samples |-> [ Forces |-> SampledRecords(1, 3, stride, sampled),
                        Moments |-> SampledRecords(2, 3, stride, sampled),
                        CentresOfPressure |-> SampledRecords(3, 3, stride, sampled),
                        Voltages |-> SampledRecords(4, 2, 3, sampled) \o << RecordOf(2, 1, 2, 3, 0) >> ] ]) :
        id \in {0, 1, 2, 4}, start \in {0, 1, 5}, stride \in {1, 3},
        sampled \in {<<0, 1>>, <<1, 2>>, <<2, 3>>}, worn \in 1 .. 2 }

\* Cameras of one name, without a name, or named like the type of another.
CameraFrames ==
    { FrameWith([
          cameras |-> [i \in 1 .. 2 |-> [ id |-> i, userID |-> i, type |-> "Vero", name |-> names[i],
                                          resolution |-> 100, video |-> FALSE ]],
          sensors |-> << [camera |-> 2, mode |-> "Low", window |-> 7] >>,
          centroids |-> [i \in DOMAIN seenBy |->
                            [camera |-> seenBy[i], centroids |-> [k \in 1 .. seenBy[i] |-> k]]],
          weights |-> << [camera |-> 1, weights |-> <<5>>] >>,
          subsampled |-> [i \in DOMAIN low |-> [camera |-> low[i], scale |-> 2, blobs |-> <<21, 22>>]],
          blobs |-> [i \in DOMAIN full |-> [camera |-> full[i], scale |-> 1, blobs |-> <<11>>]] ]) :
        names \in {<<"a", "a">>, <<"", "">>, <<"a", "">>, <<"", "Vero">>},
        seenBy \in {<<>>, <<2>>, <<2, 1>>}, low \in {<<>>, <<1>>, <<2, 1>>}, full \in {<<>>, <<1>>, <<2>>} }

MCFrames == LightFrames \cup PosedFrames \cup DeviceFrames \cup CameraFrames

\* The axes as they are by default, and those with Y up.
MCAxes == {<<"Forward", "Left", "Up">>, <<"Right", "Up", "Backward">>}

-----------------------------------------------------------------------------
(* Poses for the retimer: a subject of two segments that is turned by more   *)
(* than half a turn and then has its lower or both segments occluded, and    *)
(* another subject that comes later.                                         *)

Part(parent, children, x, turn, hidden) ==
    [ parent |-> parent, children |-> children, t |-> x, r |-> turn, occluded |-> hidden,
      static |-> x, scale |-> turn ]
Body(x, turn, hipHidden, toeHidden) ==
    [ root |-> "hip", names |-> <<"toe", "hip">>,
      segments |-> [ hip |-> Part("", <<"toe">>, x, turn, hipHidden),
                     toe |-> Part("hip", <<>>, x + 1, turn + 1, toeHidden) ] ]
Single(x) == [root |-> "cup", names |-> <<"cup">>, segments |-> [cup |-> Part("", <<>>, x, 0, FALSE)]]
MCReceivedFrames ==
    { [ann |-> Body(0, 0, FALSE, FALSE)], [ann |-> Body(3, 6, FALSE, FALSE), cup |-> Single(2)],
      [ann |-> Body(4, 3, FALSE, TRUE)], [ann |-> Body(4, 3, TRUE, TRUE), cup |-> Single(1)] }

-----------------------------------------------------------------------------
(* Packets: every kind of object the client knows, some that it does not,    *)
(* with values told apart by s, of the length it expects, longer or shorter. *)

RECURSIVE SampleOf(_, _)
SampleOf(type, s) ==
    CASE type.is = "pod"    -> [i \in 1 .. type.size |-> IF i = 1 THEN s ELSE 0]
      [] type.is = "array"  -> [i \in 1 .. type.size |-> SampleOf(type.of, s + i)]
      [] type.is = "vector" -> [i \in 1 .. s % 3 |-> SampleOf(type.of, s + i)]
      [] type.is = "set"    -> {SampleOf(type.of, s + i) : i \in 1 .. s % 3}
      [] type.is = "map"    -> [k \in {SampleOf(type.key, s + i) : i \in 1 .. 2} |-> SampleOf(type.of, s)]
      [] type.is = "class"  -> [i \in DOMAIN type.members |-> SampleOf(type.members[i], s + i)]
SampleItem(class, s, form) ==
    [class |-> class, value |-> SampleOf(Class(class.members), s), form |-> form]

VUnknown == Item(99, 0, <<UInt32, UInt32>>)
SentKinds == Listing(Statics \cup Dynamics
                     \cup {VCameraTimingInfo, VUnlabeledReconRayAssignments, VKeepAlive, VUnknown})
KindAt(i) == SentKinds[((i - 1) % Len(SentKinds)) + 1]
MCDeliveries ==
    { << SampleItem(KindAt(i), i % 5, "whole"), SampleItem(KindAt(i + 1), i % 3, "longer"),
         SampleItem(KindAt(i + 2), i % 4, "whole") >> : i \in {3 * j + 1 : j \in 0 .. 14} }
    \cup
    { << SampleItem(KindAt(i), 1, IF KindAt(i).members = <<>> THEN "whole" ELSE "shorter"),
         SampleItem(KindAt(i + 7), 2, "whole") >> : i \in {4 * j + 2 : j \in 0 .. 9} }
    \cup
    { << SampleItem(VSubjectScale, 1, "whole"), SampleItem(VObjectQuality, 1, "whole") >>,
      << SampleItem(VObjectQuality, 2, "whole") >> }

\* No filter, and one that allows the object quality of subject 3 only.
MCFilters == { <<>>, UInt32Bytes(VObjectQuality.enum) :> {<<3, 0, 0, 0>>} }

-----------------------------------------------------------------------------
LibraryInit ==
    /\ focus \in {"axes", "queries", "retiming", "packets", "video"}
    /\ QueryInit /\ AxisInit /\ CoreInit /\ CGStreamInit /\ VideoInit
    /\ focus # "retiming" => maxPrediction = 0
    /\ focus # "packets" => servedFilter = <<>>

LibraryNext ==
    \/ focus = "axes" /\ AxisNext
       /\ UNCHANGED <<focus, queryVars, coreVars, objectVars, videoVars>>
    \/ focus = "queries" /\ QueryNext
       /\ UNCHANGED <<focus, axisVars, coreVars, objectVars, videoVars>>
    \/ focus = "queries" /\ (\E a \in MCAxes : SetAxisMapping(a[1], a[2], a[3]))
       /\ UNCHANGED <<focus, queryVars, coreVars, objectVars, videoVars>>
    \/ focus = "retiming" /\ CoreNext
       /\ UNCHANGED <<focus, queryVars, axisVars, objectVars, videoVars>>
    \/ focus = "packets" /\ CGStreamNext
       /\ UNCHANGED <<focus, queryVars, axisVars, coreVars, videoVars>>
    \/ focus = "video" /\ VideoNext
       /\ UNCHANGED <<focus, queryVars, axisVars, coreVars, objectVars>>

LibrarySpec == LibraryInit /\ [][LibraryNext]_<<focus, modelVars>>
=============================================================================
