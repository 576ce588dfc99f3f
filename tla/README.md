# Verification of vicon_bridge

The repository has a ROS node, `vicon_bridge`, that publishes what a Vicon
motion capture system sees, a second node, `tf_distort`, that publishes a
disturbed copy of a transform, and the Vicon DataStream SDK, the C++ library
that both the node and other programs use to talk to the Vicon server. This
directory has TLA+ models of the nodes and of the library from its bytes on the
wire to the answers of its queries, TLC configurations for small instances, and
proofs for all instances that TLAPS checks.

Paths below are relative to the root of the repository; `SDK` is
`vicon_sdk/DataStream`.

## 1. The system

### Components

| component | source | state | operations |
|---|---|---|---|
| bridge: segments and calibration | `src/vicon_bridge.cpp` | `segment_publishers` (a map from names to entries with `is_ready`, `calibration_pose`, `calibrated`), `zero_pose` on the parameter server | grab thread, creator threads, services `grab_vicon_pose` and `calibrate_segment`, restart |
| bridge: frames and markers | `src/vicon_bridge.cpp` | `lastFrameNumber`, `frameCount`, `droppedFrameCount`, marker data enabled | `init_vicon`, `grabThread`, `process_frame`, `process_markers`, `shutdown_vicon` |
| frame buffer, `VCGClient` | `SDK/ViconCGStreamClientSDK/CGClient.cpp` | `m_FrameDeque`, `m_LastFrameIDs`, `m_pLastStaticObjects`, `m_Connected` | callbacks of the stream threads, poll, wait, buffer size |
| connection, `VViconCGStreamClient` | `SDK/ViconCGStreamClient/ViconCGStreamClient.cpp` | what the server offers, what it shall send, marks for what has changed, the objects it holds, pings | connect, read and write packets, video |
| client, `VClient` | `SDK/ViconDataStreamSDKCore/CoreClient.cpp` | flags of the enabled kinds of data, filters, `m_LatestFrame`, `m_CachedFrame`, stream mode | connect, enable and disable, filter, get a frame, query it |
| axes and rotations | `SDK/ViconDataStreamSDKCoreUtils` | `m_pAxisMapping` | choose axes, map poses, convert rotations |
| retiming client | `SDK/ViconDataStreamSDKCore/RetimingClient.cpp`, `RetimingCore.cpp` | input and output thread, recent poses of each subject | connect, start, stop, wait, predict, query |
| `tf_distort` | `src/tf_distort.cpp` | queue of delayed transforms, configuration, publishing thread | transform callback, reconfigure, publish |
| timing log | `SDK/ViconCGStreamClient/CGStreamPostalService.h`, `SDK/ViconDataStreamSDKCore/CoreClientTimingLog.cpp` | queue of log entries, a thread | open, close, log |
| wire items and buffers | `SDK/ViconCGStream`, `vicon_sdk/StreamCommon` | bytes | read, write |
| C and C++ interfaces | `SDK/ViconDataStreamSDK_C`, `_CPP` | none | one call each |

### How they interact

    Vicon server ==TCP==> stream thread of a route   (VViconCGStreamClient, one per host)
                              | OnStaticObjects, OnDynamicObjects, OnDisconnect
                              v            (under m_ClientMutex)
                          VCGClient: m_FrameDeque ---WaitFrame--> VClient::GetFrame
                              ^ SetRequestTypes, SetFilter            |
                              +------- VClient::Set...DataEnabled     +--> queries
                                                                      +--> timing log
            VRetimingClient: input thread, output thread <------------+
                                                                      v
                                                            grab thread of the bridge
                                                              |  try_lock, lookup
       creator threads ---insert (lock), fill in (no lock)--> segment_publishers
       spinner thread  ---calibrate (no lock)-------------------^   |
             ^   \----> parameter server (survives a restart)       v
             +------------- tf listener <------------------ tf broadcast

### What is hard

- Three threads of the bridge use an entry of `segment_publishers`; the mutex
  guards only the lookup and the insertion. The rest is meant to be protected
  by the flag `is_ready`.
- A calibration measures through tf what the grab thread broadcasts, and so
  races with frames that were processed with the old offset.
- The zero pose is on the parameter server in seven pieces, and a node that is
  killed loses `calibrated`, but not the zero pose.
- Several routes deliver the same frames of the server, each at its own pace;
  several threads wait for them on one condition variable.
- The program changes what it asks for, and in what mode it gets frames, while
  the thread of each route reads the server's declaration, writes, waits or
  ends, and while answers to older requests are on their way.
- Threads are stopped and joined by the program at any time: those of the
  retiming client, of `tf_distort` and of the timing log.
- The library computes with clocks that do not divide each other, with axes that
  both ends choose, with rotations in four forms, and with packets of servers of
  other versions. What it answers must hang together all the same.

`PROJECT.json` lists these and further hazards with their lines, and the
properties that would be violated if the code went wrong there. Where it does go
wrong, a run shows it if the documentation promises otherwise (see Findings);
else the hazard's note says which part of it no property covers, and "Seen in the
same code" describes what happens.

## 2. The modules

| module | what it is |
|---|---|
| `ViconBridge`, `ViconBridgeProof`, `MCViconBridge` | the node's registry, its creators, its services, restarts; theorems; poses for the model checker |
| `FrameGrabbing` | the node's main thread: connecting, frames and their accounts, markers, the end |
| `FrameFeed`, `FrameFeedProof` | abstract: what a caller of the SDK may rely on; its order, for all behaviours |
| `CGClient`, `CGClientProof`, `MCCGClient` | the buffer of `VCGClient` with the stream threads and callers; theorems, among them that it implements `FrameFeed` |
| `DataRequests`, `DataRequestsProof`, `MCDataRequests` | enabling, disabling, filters and feedback down to the server; theorems about the calls and about the servers |
| `StreamModes` | connections, stream modes and `GetFrame` against a server that answers late |
| `RetimingClient` | the threads of the retiming client |
| `RetimingCore` | what it predicts and answers |
| `TfDistort` | the queue of `tf_distort`, its publishing thread, reconfiguration |
| `TimingLog` | the log's queue, thread, headings and end |
| `PingLatency` | pings and their round trips |
| `ThreadsProof` | theorems about `RetimingClient`, `TfDistort`, `PingLatency`, `FrameGrabbing`, `TimingLog` and `StreamModes` |
| `Answers`, `FrameQueries`, `DeviceQueries`, `CameraQueries` | the queries of a frame |
| `Geometry`, `AxisMapping` | positions and rotations in the axes of the client |
| `SampleIndex` | which samples of a device belong to a frame |
| `WireFormat`, `WireItems`, `CGStream` | bytes, the classes of items, packets |
| `VideoDecoding` | the decoders of colour cameras |
| `QueriesProof` | theorems about the queries, `AxisMapping` and `SampleIndex` |
| `LibraryProof` | theorems about `VideoDecoding` and `RetimingCore` |
| `Counting` | lemmas on numbers and on functions that are defined by recursion, for the proofs |
| `MCThreads` | instance of `StreamModes`, `RetimingClient`, `TfDistort`, `TimingLog`, `PingLatency`, `FrameGrabbing` |
| `MCClientLibrary` | instance of the queries, axes, `RetimingCore`, `CGStream`, `VideoDecoding` |

The modules of `MCThreads`, and those of `MCClientLibrary`, share no state but
what `DeviceQueries` and `CameraQueries` take from `FrameQueries` and that from
`AxisMapping`. The two instances therefore put them side by side: the variable
`focus` picks the one that a behaviour exercises, and the others stay as they
began. The reachable states are the sum of those of the parts, not their
product. Where components do interact within a module, the module has both
sides: `StreamModes` has `VClient`, `VCGClient`, the stream client and the
server; `DataRequests` as well; `RetimingClient` has its client.

### ViconBridge

| code | model |
|---|---|
| keys of the map `segment_publishers` | `segment_publishers` |
| fields of an entry | `is_ready`, `calibrated` (sets of segments), `calibration_pose` |
| `segments_mutex_` | `Locked`: held by a creator between `Lock` and `Insert`; the grab thread's `scoped_try_lock` is within one step |
| `grabThread`, `process_frame`, `process_subjects` | `GetFrame`, then per segment `TryLockFails`, `ProcessSegment` or `CreateSegment`, then `SendTransforms` |
| `createSegmentThread` | `Lock`, `Insert`, `GetOrientation`, `GetPosition`, `StoreZeroPose` and `InvertInPlace` or `StoreIdentity`, `MarkReady` |
| `grabPoseCallback` | `CallGrabPose`, `MeasurementSucceeds`, `MeasurementTimesOut`, `AnswerGrabPose` |
| `calibrateSegmentCallback` | `CallCalibrate`, `DeleteOldCalibration`, the measurements, `SetCalibration`, `SetOrientation`, `SetPosition`, `AnswerCalibrate` |
| parameter server | `zero_pose`, kept by `Restart` |

A rigid transform is an element of a group: `Compose` and `Inverse` are
constants about which only the group laws that the proof needs are assumed
(`PoseAssumption`). Orientation and position are told apart where they are
stored separately; a pose put together from parts of two poses is `Torn`, the
average of no pose is `NaN`, and both spoil what is computed from them. The
four `getParam` and `setParam` calls of the orientation are one step, and so
are the three of the position: the split between them is enough to tear a
pose. `z_offset` is 0. Time stamps are reduced to what a measurement compares:
`after` (the frame was grabbed after the measurement started) and `fresh` (the
listener has a transform of such a frame).

Each field is written and read in one step. In C++ the unlocked accesses are
data races; `Torn` stands for a pose of which one half is old only where the
halves are stored apart, on the parameter server.

`spawned`, `early` and `settled` are history variables, which no action reads.
They say for which entries a guarantee is stated: an entry with one creator,
not calibrated before it was ready; a calibration that found an offset it
could delete or none.

### FrameGrabbing

`at` is where the main thread stands: `TryConnect` until connected, `InitVicon`,
then `GrabThread`, `GetFrameSucceeds` or `GetFrameFails`, `ProcessFrame` (the
counters, in unsigned and signed arithmetic modulo `Word`), `ProcessMarkers`
(the only place where marker data is switched on, in the middle of a frame), and
`ShutdownVicon`. A frame is its number and the run of the count it belongs to;
`taken` and `posed` are history. The server loses the connection, skips frames
and may set its count back once.

### FrameFeed and CGClient

`FrameFeed` has a queue of samples, the highest number that entered and the
last one handed out. A sample enters only if it is newer than all before.

| code | model |
|---|---|
| `m_ClientMutex` | each callback and each call is one step |
| `OnStaticObjects`, then `OnDynamicObjects` for one packet | `OnStaticObjects` or `NoStaticObjects`, then `OnDynamicObjects`: two steps between which other threads run |
| the test "already been received" | `Received` |
| `push_back`, `pop_front`, `notify_all` | `TakeFrame` |
| `PollFrame(s)`, `WaitFrame(s)` | `PollFrame`, `WaitFrame`, `WakeUp`, `TimedOut` |
| `m_NewFramesCondition` | `waiting` and `notified` |
| -1 as an unsigned number in `m_LastFrameIDs` | `MaxUInt32`, greater than every frame |

The server counts its frames upwards; a route may skip frames and lag behind.
`FeedSpec` is `FrameFeed!Spec` with `m_FrameDeque` for the queue and the two
history variables `newest` and `seen`.

### DataRequests

| code | model |
|---|---|
| `m_b...DataEnabled` | `enabled` |
| a `Set...DataEnabled` call | `SetDataEnabled`, then one step for each `SetRequestTypes`, nested `Disable...Data` and flag, in the order of the code (`AllSteps`) |
| `VCGClient::m_RequestedObjects` | `m_RequestedObjects` |
| `VViconCGStreamClient::m_RequiredObjects`, `m_bEnumsChanged`, ... | functions of the route, of the same names |
| `m_Mutex` of a route | held while `stream_pc` is `"writing"` |
| the thread: declaration, `WriteObjects`, `ReadObjects` | `ReadObjectEnums`, `DeclarationRead`, `WriteObjects`, `Flush`, `ReadObjects`, `OnDisconnect` |
| the server | `offer`, `server_enums`, `server_filter`, `server_devices` |

The item types of a configuration are those of `Tracked`; requests for other
types are left out of the calls. The program calls from one thread. Each
subject has one id; the camera filters are sets of camera ids.

The declaration of the server is read without the mutex: `ReadObjectEnums`
leaves any part of it in `m_ServerObjects`, so that a type may be taken to be
unsupported and is then never requested, as in the code.

### StreamModes

| code | model |
|---|---|
| `m_pClient`, its connection, its thread | `link` (`"none"`, `"up"`, `"lost"`), `conn` |
| `m_bPreFetch`, `m_BufferSize`, `m_bMulticastController`, `m_bStreaming` | variables of the same names |
| `VCGClient::m_FrameDeque`, `m_LatestFrame` | `frames`, `latest` |
| `Connect`, `ConnectToMulticast`, `Disconnect` | actions of the same names; the old client goes first |
| `StartTransmittingMulticast`, `StopTransmittingMulticast`, `SetBufferSize`, `SetStreamMode` | actions of the same names |
| `GetFrame` with `FetchNextFrame` | `GetFrameNotConnected`, `GetFrameAtOnce`, or `GetFrameWaits` and then `GetFrameArrives` or `GetFrameTimesOut` |
| bytes written and not yet read by the server | `unread` |
| the server (external) | `ServerReads`, `ServerCaptures`, `LoseConnection` |

One route; the feed over several is `CGClient`. `modeOf` is history: on which
connection `SetStreamMode` was last called.

### RetimingClient and RetimingCore

`RetimingClient` has the input thread (`InputTest`, `InputFetch`,
`InputNumber`, `InputAdd`), the output threads by the order in which they were
started (`OutputTest`, `OutputUpdate`), the thread of the program that connects,
starts and stops (`BeginCall`, `RunInGetFrame`, `StartOutputThread`,
`StopOutput`, `StopInput`) and the thread in `WaitForFrame` and `Wait`.
`m_OutputMutex` is `outputMutex`; the flags keep their names. The number of a
frame and its poses are read in two steps, as in `InputThread`.

`RetimingCore` has what both threads share under `m_FrameMutex`, so that each
call is one step: `AddData`, `UpdateFrameAtTime` with `Predict`,
`SetMaximumPrediction`, and all queries of `VRetimingClient` as operators. A
segment moves along one axis and turns about one, in eighths of a turn, so that
the order in which `PredictRotation` multiplies two turns makes no difference; a
prediction is a fraction whose denominator may be 0. `hrc` reads the wall
clock, so `now` may be set back. The frames it receives are answers of `VClient`:
`IsReceived` assumes of them that the segments of a subject have names of their
own and that a segment that is listed as a child names the other as its parent,
as in the topology that the server sends.

### TfDistort

A pose in the queue is a stamp and a time to publish. `tfCb` pushes in two
steps, since the statement that should hold the lock (`tf_distort.cpp:201`)
declares a variable instead: a push that moves the blocks of the deque may
write back a beginning that the publishing thread has since popped. The other
steps are the publishing thread's (`PubStep`, `PubEnds`) and `reconfCb`'s up to
its join and after it (`ReconfJoin`). Noise and scale are left out.

### TimingLog and PingLatency

`TimingLog` has the mail of `VCGStreamPostalService`, the item that its thread
has in hand while it waits for `m_LogMutex`, the preamble, the headings and the
lines of the file. A preamble in which no frame has latencies yields no
headings; in the code, as in the model, another preamble then follows with a
heading of its own, and each heading takes the place of the frame that completed
its preamble. `PingLatency` has `SendPing` in its two steps (the count,
then the flag; no lock), the packet that carries a ping, the answer, and the
mean of the last `s_MaxPings` round trips.

### Queries of a frame

`FrameQueries`, `DeviceQueries` and `CameraQueries` hold the queries of `VClient`
as operators on `heldFrame`, each with the results in the order in which the code
tests for them; `Answers` has the shapes of answers and of searches.
`CalculateGlobalsFromLocals` takes the subjects in the order of the frame, and the
segments of each from the root down: the code calls itself for the children of a
segment, the model collects the poses at each depth of the tree, with the same
poses in the end, and none when the recursion finds data missing. `SampleIndex` is
the arithmetic of ticks by which samples are dealt out to frames; it has no
state, so that theorems about it hold for all numbers.

The constant `Frames` has the frames that a server may send. What the queries
rely on is an assumption about them, stated where the lists are searched:

- `IsFrame`: subjects have names and ids of their own, and so have the segments
  and markers of one subject (two subjects may share them); the segments are a
  tree with at most one root; poses are triples and rotations; lightweight data is
  of segments that the subject has, once each, and comes in place of poses.
- `HasCameras`: cameras have ids of their own (not names), and centroids come once
  for a camera.
- `HasDevices`, `HasSamples`, `HasPlates`: devices have ids, names and periods; the
  records of a channel have one size, whose stride divides the period, as the code
  asserts (`CoreClient.cpp:3747`); a force plate names its channels of forces,
  moments and centres of pressure, once each, and sends as many forces as others.

TLC evaluates them for the frames of `MCClientLibrary`; the proofs use nothing else.
A server that broke one of them would get a list searched for what is not there,
or there twice; the queries then return the first.

`Geometry` has matrices with entries -1, 0 and 1, on which the code's floating
point is exact: the 24 rotations of the cube. Angles are quarter turns;
quaternions keep the common factor by which the code divides at its end.
`AxisMapping` is `SetAxisMapping` together with the orientation that comes with
each frame.

### Wire format and packets

`WireFormat` reads and writes the bytes of a type, `WireItems` lists the types
of the members of each class in the order in which it writes them, and
`CGStream` has packets of such items from servers of the same, an older or a
newer version, `ReadObjects`, and what is taken over when the server calls it
unchanged, over TCP or in datagrams. `VideoDecoding` says of each decoder which
pixels of the sensor make a pixel of the picture.

## 3. What TLC checks

`expect: violation` runs show where the program does not do what its
documentation says.

| run | bounds | properties |
|---|---|---|
| `vicon_bridge` | 1 segment, 2 creators, poses modulo 3, 1 measurement, 1 restart; creators are interchangeable | `CalibrationMatchesStore`, `SettledMeasuresRaw` |
| `bridge_progress` | 1 segment, 2 creators, one pose, 2 measurements, 1 restart | `SegmentsArePublished`, `CallsReturn` |
| `ready_protects` | as the first, no restart | `ReadyProtects` violated |
| `recalibrate_after_restart` | as the first | `CalibratedSitsAtOrigin` violated |
| `cg_client` | 2 routes, 2 callers, frames 0 to 4 with one change of the static objects, buffer up to 3 | `NoLostWakeup`, `FeedSpec` |
| `one_route_samples` | 1 route, otherwise the same | `SampleIsWhole`, `SamplesReachWaiters` |
| `data_requests` | 2 routes, segment and lightweight data, servers with and without lightweight segments | `NothingUnasked`, `ServerInStep`, `LightweightIsAlone` |
| `settings_reach_server` | 1 route, a subject, a camera, a device | `ChangesReachServer` |
| `disable_takes_from_others` | 1 route, centroid and video data | `DisableKeepsOthers` violated |
| `feedback_lost` | 1 route, a device | `FeedbackInStep` violated |
| `threads` | below | of `StreamModes`: `ServerModeAgrees`, `PreFetchIsAhead`, `NeverBackwards`, `GetFrameKeepsSucceeding`; of `RetimingClient`: `OneOutputThread`, `FramesAddedOnce`, `RetimingCallsReturn`; of `TfDistort`: `OrderIsKept`, `ReconfigurationIsSafe`; of `TimingLog`: `LogIsFaithful`, `CloseReturns`; of `PingLatency`: `RoundTripsAreMeasured`; of `FrameGrabbing`: `AccountsAddUp`, `NodeProgresses` |
| `client_library` | below | of `AxisMapping` and `Geometry`: `AxesKeepTheWorld`, `RotationsAreNamed`; of the queries: `NamesLeadToData`, `LightweightPosesCompose`, `SamplesOfTheFrame`, `PlatesTellTheSame`, `EyeGoesWithSegment`, `CamerasAreToldApart`; of `RetimingCore`: `PredictionJoinsSamples`, `RetimedAnswersAgree`, `RetimedIsRecent`; of `CGStream`: `ItemsArrive`, `UnchangedIsKept`; of `VideoDecoding`: `SceneKeepsColour` |

The runs take from seconds to a few minutes. The inductive invariants of
section 4, and the type invariants in them, were model-checked on the same
instances before they were proved; since they are proved, they are no longer
properties of the runs.

### Why these bounds

Bridge. Two creators are the fewest that can meet at an entry; a third repeats
what the second does, and `spawned` counts 0, 1, 2 or more. Segments share only
the lock and the spinner thread, so that a second segment adds no interference
with the calibration of the first. With three poses (an abelian group in which a
pose differs from its inverse) a pose that is not inverted, twice inverted or
old differs from the right one. One restart is enough to load what another run
of the node has stored, in whole or in part.

Feed and requests. Five frames let two routes overtake each other twice and
exceed the buffer. Segment and lightweight data share types (`SubjectTopology`,
`SubjectScale`) and disable each other, which no other pair of kinds does;
centroid and video data stand for the camera kinds that share `CameraInfo`.

`threads`, by component:

- `StreamModes`: two connections (`MaxConnections`), so that a mode set on the
  first meets the second; three frames of the server (`MaxServerFrame` 2), so
  that a late answer is older than the next one; two unread requests
  (`MaxUnread`), so that an answer can be late while another is asked for. The
  deque holds at most as many frames as the server has.
- `RetimingClient`: three frames, so that one is taken by `StartOutput`, one by
  the input thread, and one by either; two output threads, the fewest that can
  overlap; `RunIn` 1 instead of 20 calls, which are all alike.
- `TfDistort`: delays 0 and 2 and three ticks let a pose with a short delay come
  behind one with a long delay; three reconfigurations switch off, to another
  topic, and back.
- `TimingLog`: six frames with one latency, with three or with none, and
  preambles of two: the second of a preamble may have more or other names than
  the first, and a preamble without latencies leaves room for another one.
- `PingLatency`: two round trips kept of four, so that the oldest is dropped.
- `FrameGrabbing`: frame numbers up to 3 with a gap and one step back; counters
  modulo 8, so that an unsigned difference of numbers that went back wraps.

`client_library`, by component: all 24 rotations and all triples of directions;
frames of up to three subjects that share ids and names, with any subset of the
data of each segment; device periods and starts that do not divide each other
and one to three samples per record; cameras with equal, empty and clashing
names; a clock of four ticks that is set back once, predictions of none and one
tick; packets of up to three items, of the expected length, longer and shorter,
which between them have the kinds of objects the client knows and some that it
does not, two packets in a row; a sensor of 4 by 4 pixels, the smallest with
an inner pixel of each colour.

`CHECK_DEADLOCK FALSE` is set where the system may stop: for `CGClient` the
server may send its last frame of the model and all threads may be asleep or
ended; in `threads` the node ends, the log's closing may hang (see below), and
the bounded servers send no more; in `client_library` the bounded clock and the
bounded packets run out.

### Fairness

- `ViconBridge!FairSpec`: weak fairness of the grab thread, of the spinner
  thread in a call, and of each creator. The operating system keeps running
  them, and the server keeps sending. Nobody need call a service or restart.
- `CGClient!FairSpec`: a notified thread runs, and a stream thread that has
  begun the callbacks of a packet completes them. The server may stop.
- `DataRequests!FairSpec`: weak fairness of the call that runs and of each
  route's thread. Strong fairness of `GetFrame`: a program that uses the SDK
  calls it for every frame, although not within another call. Without that a
  changed filter would indeed not be sent; see `GetFrame_NoPing`.
- `StreamFairness`: the program calls `GetFrame` again and again, the wait ends
  (it has a deadline), the server reads what it is sent and captures frames. No
  fairness of connecting, of changing modes or of losing the connection.
- `RetimingFairness`: both threads and the calling thread run, a thread that
  waits wakes. Neither the server nor the program has to do anything.
- `DistortFairness`: time passes, the callback that pushes ends, the publishing
  thread runs, and `reconfCb` goes on once the thread it joins has ended.
- `LogFairness`: the service's thread runs and the one that closes the log.
- `BridgeFairness`: the node's main thread runs, and `GetFrame` does not fail
  for ever while the server is there, which `GetFrameKeepsSucceeding` shows of
  `StreamModes`.

### Findings

- `ready_protects`: a segment that is in two frames before its creator has
  inserted it gets two creators. The second one may run after the segment is
  ready and calibrated, and sets the pose back to the stored one, without the
  lock that it is said not to need.
- `recalibrate_after_restart`: a restarted node has the offset but not
  `calibrated`; the next calibration measures the pose with the offset
  applied and stores that.
- `disable_takes_from_others`: disabling video data stops the camera
  information that centroid data needs, while centroid data stays enabled.
- `feedback_lost`: the new list of devices is marked before it is stored; if
  the thread writes in between, the mark is gone and the list is never sent.

### Seen in the same code

The models have the following behaviour too, as the code does. The properties
are stated so that they say what does hold beside it.

Bridge and `tf_distort`:

- If every measurement times out, 0/0 is stored as calibration and success is
  answered (`src/vicon_bridge.cpp:659`).
- The second creator of a segment replaces a publisher that the grab thread may
  be using (340); the services look segments up without the lock (685).
- The node aborts on an assert when it loses the connection between a frame and
  its markers (549); after a loss it may process an old frame, or number 0.
- The frames dropped in a gap are counted together with the frame that ended
  it (423).
- A rate of 0 is allowed by `cfg/tf_distort.cfg:18`.

Frames and connections:

- A route that has not delivered anything counts as one that has delivered the
  greatest frame number: until all routes of a call to `Connect` have delivered,
  nothing is buffered (`CGClient.cpp:286`).
- With several routes a frame may be paired with static objects of another one
  (`CGClient.cpp:523`), which is why `SampleIsWhole` is checked of one route.
- `ConnectToMulticast` does not succeed with the client that the interface
  hands to it, which has no stream clients yet (`CGClient.cpp:290`,
  `DataStreamClient.h:225`).
- A `Connect` that fails has dropped the old connection already
  (`CoreClient.cpp:210`); after a second `Connect` the flags of the first are
  still set although nothing is requested (245), and the frame of the first is
  still the latest (534), which is why `NeverBackwards` speaks of one connection.
- `ClearSubjectFilter` leaves the filter of `ObjectQuality`, which
  `AddToSubjectFilter` sets (4881, 4904).
- `SendPing` takes no lock (`ViconCGStreamClient.cpp:592`): a packet written
  within it makes an answer be measured from another ping.
- What `CopyObjects` is not told of (`CentroidTracks`, `ForceFrame`,
  `MomentFrame`, `CentreOfPressureFrame`, `VoltageFrame`) is not kept when the
  server calls it unchanged, and nothing of a group is when the packet has no
  object of that group (950, 1488).
- `CloseLog` holds the mutex while it joins the thread, which waits for the
  mutex if it has an item in hand (`CoreClientTimingLog.cpp:235`). The frame
  that completes a preamble is not written (142), and there is a preamble again
  and again until a frame in one has latencies.

Queries and retiming:

- Euler angles of a rotation by -90 degrees about Y do not name it
  (`ClientUtils.cpp:294`).
- A subject without a root stops the computation of the global poses of the
  subjects behind it (`CoreClient.cpp:1790`).
- Orientation is read from `m_CachedFrame`, poses from `m_LatestFrame` (3626,
  1188); between the two the model has no step, as `GetFrame` sets both.
- The number of samples of a force plate is divided by the device's period,
  which may be zero (2962). A voltage is looked for by the id of its channel
  alone (3365), and the index of the analog channel is not checked (3391): the
  model says nothing of the answer to one that is too great.
- `Disconnect` of the retiming client waits for a thread that does not look at
  its flag while the server is silent (`RetimingClient.cpp:814`). The number of
  a frame may be that of another than its poses (845), and `StartOutput` takes
  frames away from the input thread (143).
- A clock that is set back gives poses that are invalid, or a quotient by zero
  (`RetimingCore.cpp:160`); a segment of only one of two frames is predicted at
  zero, with `Success` (207). A subject that has left is never removed.

## 4. What is proved

All proofs hold for any values of the constants, within the assumptions named
in the modules: any number of routes, threads, segments, creators, samples,
restarts, connections and frames. A theorem is about the specification of one
component, its own `Spec`; `MCThreads` and `MCClientLibrary` run several of these
specifications side by side, and `focus` adds nothing to any of them.

**`ViconBridgeProof`**: `TypeCorrect`, `EntryMatchesStore`, `MeasuresRaw`,
`InductiveInvariant`. Neither safety property is inductive. `IInv` adds
`ControlInv` (what the program counters imply), `CreatorInv` (a segment with
one creator has no other, and is not ready while that one lives), `LoadInv`
(what a lone creator has read is what is stored; this needs that no service
writes the store meanwhile, which holds unless the segment is `early`),
`StoreInv` (how far a calibration has written its average) and `SampleInv`
(while an offset-free segment is measured, whatever is newer than the start of
the measurement is the raw pose). Each part has a lemma, with a step for each
action. From the group, only `PoseAssumption` is used.

**`FrameFeedProof`**: `FeedInOrder` and `FeedNeverBack`, under the hypothesis
that samples are numbered (`Numbered`).

**`CGClientProof`**: `TypeCorrect`, `WakeupsReachAll` (`NoLostWakeup`),
`InductiveInvariant`, `ImplementsFeed` (`Spec => FeedSpec`), and `DequeInOrder`,
which carries the theorem of the feed over. The refinement needs that a frame
that `Received` lets pass is newer than all that was buffered: `NewestInv` says
that some route has delivered a frame at least as new as `newest`, and
`RouteInv` that a route's next frame is newer than its last; so either the
route itself or another one, to which `Received` compares, is ahead of
`newest`. A route that has delivered nothing has `MaxUInt32` and lets nothing
pass, which is unfortunate for its program and helps the proof.

`OneRouteIsWhole` says that with one route `SampleIsWhole` holds. Its invariant
adds `StaticsInv`: while the thread of a route is between the two callbacks of a
packet, the static objects that `VCGClient` has are those of that packet. This
is just what a second route breaks, so the hypothesis `Routes = {r}` cannot be
dropped.

**`DataRequestsProof`**: `InductiveInvariant` and `ServersFollow`
(`ServerInStep`). `RoutesKnow` says that all stream clients have the set of
`VCGClient`, `ServersKnow` that a thread past the declaration knows the whole
offer and that an unmarked server has been told, `FiltersKnow` the same of
filters. The lock of the route in `SetRequiredObjects` is not needed for it,
because `Flush` reads and unmarks in one step, which is what the lock ensures.

`CallsAreAccountedFor` has the invariant of the calls, `CallInv`, which relates
what has been done of a call to the steps that are left of it: `OffBeforeFlag` (a
kind does not lose its flag before its types are given up), `OnHasFlag` (a type
that is requested, or will be, belongs to an enabled kind, or the flag of its kind
is still to come), `LightweightFirst` (the request that a server may refuse is
the first step, so a refused call has changed nothing) and `OthersGoFirst` (a call
enables one kind, and for lightweight data each enabled kind is still to be
disabled). The steps of a call are lists put together per kind, and a nested
call puts more in front; lemmas say of each list what it requests, gives up and
flags, and in which order. From the invariant follow `OnlyEnabledIsRequested`
(`NothingUnasked`), also after calls that ended early, and
`LightweightRulesOutOthers` (`LightweightIsAlone`).

**`ThreadsProof`**, a part for each component:

- Retiming client: `SingleOutput` (`OneOutputThread`), from `OutputInv`, which
  relates the flag, the handle and the place of the calling thread to the threads
  that live; `AddedOnce` (`FramesAddedOnce`), from `InputInv`, which bounds the
  number that the input thread has read by the frame held.
- `tf_distort`: `PosesKeepOrder` (`OrderIsKept`). `DistortInv` has the queue in the
  order of its stamps, and `PushInv` for a push under way: what its thread has
  read of the queue is either still there or published. A push may therefore bring
  back poses that were published before, but none that was not and is older than
  one that was.
- Pings: `RoundTripsMeasured` (`RoundTripsAreMeasured`). `PingInv` says, for as
  long as no packet was written within `SendPing`, that no ping under way has the
  number of one still to be written (`PingsAreOwn`); so an answer finds the time of
  its own ping, whatever was written since.
- Node: `DiagnosticsAddUp` (`AccountsAddUp`). `BridgeInv` adds `FramesInOrder` (the
  frame last counted is the newest one taken) and `ZeroIsLast` (number 0, which
  the code takes for "no frame yet", is only a frame's where no other follows:
  without this the account would be wrong by a frame). The counters are
  remainders; the lemmas on them say that an unsigned difference is right modulo
  `Word`.
- Timing log: `LogKeepsFrames` (`LogIsFaithful`). `LogInv` follows each frame
  through the mail, the hand of the service, the preamble and the file
  (`FramesKept`), and adds `OpenWhileInHand` (the log does not close under the
  service, so no item is thrown away), `LinesNumbered` and `LinesFilled`. Lemmas
  about `Matched`, `HeadingsOf` and `Filled` say that the columns of a line are its
  latencies in order, each under a heading of its name.
- Stream modes: `StreamInvariant`, `ServerFollowsMode` (`ServerModeAgrees`),
  `PreFetchAhead` (`PreFetchIsAhead`) and `LatestNeverBack` (`NeverBackwards`).
  `StreamInv` is `StreamTypeOK` with three parts. `ModeInv`: what the server does,
  corrected by what it has not read yet, is what `m_bStreaming` says. `PreFetchInv`:
  a client that pre-fetches on the connection on which it was told to has, outside
  of `GetFrame`, a frame buffered, asked for or streamed. `OrderInv` puts all frames
  in one order: the latest, those buffered, and the next that the server can send.

**`QueriesProof`**: the ten theorems below, for all frames that keep to the
assumptions above, all trees of segments and all rates. No action but the fetching
of a frame and `SetAxisMapping` changes what the queries read, so the inductive part
is short: `QueryInv` says that the held frame is one of `Frames`, completed by
`CalculateGlobalsFromLocals` if it has lightweight data, and that the axes are
accepted ones (`AxesInv`). The work is in showing that it implies what is claimed.

- Axes: `WorldIsNoMirrorImage` (`AxesKeepTheWorld`) and `RotationsKeepTheirNames`
  (`RotationsAreNamed`). `UnitVectors` are shown to be six (`SixUnitVectors`) and
  `Rotations` a group of 24 (`TwentyFour`, `ProductOfRotations`, `InverseRotation`).
  `ChangeOfAxes` is the lemma that the other parts need as well: both branches of
  `AxisMapping.cpp`, for a server with Y up and with Z up, are one rotation C, with
  positions told as C t and rotations as C R C'.
- Cameras: `CamerasKeepApart` (`CamerasAreToldApart`). A display name has the id
  in it, so the first camera found is the one that was listed.
- Samples: `NextIsFirst`, that `GetNextSampleIndex` is the first sample not before
  a tick; from it `SamplesAreTakenInTheFrame` and `NoSampleInTwoFrames`, for all
  periods and starts. `TakenSamples` adds that the indices of a frame are an
  interval with as many elements as `GetSamplesInFrame` counts, and `OneRecordHasIt`
  that an index is in one record only: `SamplesKeepToTheirFrame`
  (`SamplesOfTheFrame`).
- Poses: `LightweightPosesAreComposed` (`LightweightPosesCompose`). `LevelsOf` turns
  the walk into one set of poses for each depth; in a tree the poses of a segment
  are all at its depth (`LevelsByDepth`), there is one at most (`OneInLevel`), and
  when no pose has data missing below it, all segments have one (`AllReached`).
  `PoseOfChild` is the composition, and `ChangeKeepsPoses` takes it through the
  change of axes.
- Eye trackers: `EyeStaysOnItsSegment` (`EyeGoesWithSegment`), by the same lemma.
- Names: `NamesLeadThere` (`NamesLeadToData`). Each list of names is shown to be
  that of the frame and each query to search for one place; so parents and children
  agree, poses and markers are those sent, and latencies add up to their total.
- Force plates: `PlatesTellOneStory` (`PlatesTellTheSame`). The search by number goes
  over records, the one by name over the outputs of the device; `OnlyChannel` and
  `CoreOutput` show that the latter ends at the channel that the former has.

**`LibraryProof`**:

- Video: `DecodingKeepsColour` (`SceneKeepsColour`), for every even size of the
  sensor. `PixelPlaces` recovers row and column from the index of a pixel, and
  `DecodedPixel` has the twelve cases of three formats and four places in a square
  of sensor pixels.
- Retimer: `PredictionsAreRecent` (`RetimedIsRecent`) and `AnswersHangTogether`
  (`RetimedAnswersAgree`), from `CoreInv`: of each subject that was ever whole one
  or two poses are kept, the last of which is from when it was last seen
  (`SamplesEndWhenSeen`); none of them has an occluded segment and their parents and
  children agree (`SamplesAreGood`); what is predicted is of such a subject
  (`PredictedIsKnown`). `PredictionsJoin` (`PredictionJoinsSamples`) is arithmetic:
  `PartOfTurn` is the way round the circle, in whichever direction is shorter,
  and its part is bounded by the whole.

**`Counting`** makes proofs about recursive functions possible. The library's
theorems on recursion and induction take operators, which the provers here do
not instantiate. `LeastNumber` is proved instead from well-foundedness of the
finite subsets of the numbers; `CountingUp` is induction over a set in place of
a predicate, and `StepwiseFunction` gives the function that a first value and a
step for each number define. They are needed for the columns and headings of
`TimingLog`, for the steps of a call of `DataRequests`, which are selected from a
list, for the least frame number in the account of `FrameGrabbing`, and for the
searches and levels of the queries.

### What is only model-checked

- All liveness properties, as fairness and `ENABLED` are outside of what TLAPS
  handles: `SegmentsArePublished`, `CallsReturn`, `SamplesReachWaiters`,
  `ChangesReachServer`, `GetFrameKeepsSucceeding`, `RetimingCallsReturn`,
  `CloseReturns`, `NodeProgresses`, and `ReconfigurationIsSafe`, which is in part
  one.
- `ItemsArrive` and `UnchangedIsKept`: the wire format is defined by recursive
  operators, which follow items into their members. The provers take none, and
  a proof would be an induction over the types of data, which they lack as well.

## 5. What is not modelled

- The C and C++ interfaces: they pass each call on and convert types one for
  one, without state.
- `calibrate_segment`, a program of one service call; the SDK's test program;
  the segment pose reader and the Windows WLAN interface, which nothing in the
  repository's own programs uses.
- The noise and the scale of `tf_distort`, the messages of markers, the log of
  `VViconCGStreamClient` (a simpler one of the same shape as `TimingLog`, with the
  same join under a mutex, `ViconCGStreamClient.cpp:718`), the debug logs of the
  retimer.
- Multicast sockets and the waiting of readers and writers for a socket: a packet
  is read or written at once, or the connection is lost.
- Floating-point arithmetic but for where it is exact.
- Packets that no server sends: one that ends within the head of a block, at
  which `ReadObjects` goes round for ever (`ViconCGStreamClient.cpp:1046`), is
  unreadable in the model, and the length of a string, which the code adds to an
  offset in 32 bits (`BufferDetail.h:191`), is added exactly.
- The destruction of objects while threads still use them: of the receiver of
  the node under its detached creators (`src/vicon_bridge.cpp:375`), of `VCGClient`
  under its stream threads (`CGClient.cpp:92`).
- A server that restarts and counts its frames from zero, over several routes
  (`CGClient.cpp:541`); the node's side of a count set back is in `FrameGrabbing`.
