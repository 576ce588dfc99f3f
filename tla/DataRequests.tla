---------------------------- MODULE DataRequests ----------------------------
(***************************************************************************)
(* What the program asks the Vicon server for, and what the server hears   *)
(* of it.                                                                  *)
(*                                                                         *)
(* The program enables and disables kinds of data (VClient), each of which *)
(* is a list of item types; VCGClient collects the types in one set and    *)
(* hands the set to the stream client of every route                       *)
(* (VViconCGStreamClient), whose thread sends it to the server.  Filters   *)
(* and the list of buzzing Apex devices go the same way.                   *)
(*                                                                         *)
(* The thread of a route first reads what the server offers, and then in   *)
(* turn writes what has changed (WriteObjects, holding m_Mutex) and waits  *)
(* for a packet.  The program calls VClient from one thread, whose calls   *)
(* are interleaved with the stream threads one SetRequestTypes at a time.  *)
(* TCP delivers what is written, in order: what has been written is what   *)
(* the server knows.                                                       *)
(***************************************************************************)
EXTENDS Integers, Sequences, FiniteSets

CONSTANTS
  Routes,   \* the hosts of one call to Connect
  Kinds,    \* the kinds of data that the program enables and disables
  Tracked,  \* the item types that the model follows; others are left out
  Offers,   \* the sets of item types that a server may offer
  Subjects, \* the subjects that the program may select by AddToSubjectFilter
  Cameras,  \* the cameras that it may select by SetCameraFilter
  Devices,  \* the Apex devices whose feedback it turns on and off
  None

-----------------------------------------------------------------------------
(* The item types of each kind of data, in the order of the requests.      *)

BaseTypes ==
  << "Contents", "StreamInfo", "SubjectInfo", "FrameInfo", "Timecode",
     "LatencyInfo", "ApplicationInfo", "SubjectHealth", "ObjectQuality",
     "FrameRateInfo" >>

CameraTypes == << "CameraInfo", "CameraSensorInfo" >>

TypesOf ==
  [ Segment     |-> << "LocalSegments", "GlobalSegments", "SubjectTopology",
                       "SubjectScale" >>,
    Lightweight |-> << "LightweightSegments", "SubjectTopology", "SubjectScale" >>,
    Marker      |-> << "LabeledRecons" >>,
    Unlabeled   |-> << "UnlabeledRecons" >>,
    MarkerRay   |-> << "LabeledReconRayAssignments" >>,
    Device      |-> << "DeviceInfo", "DeviceInfoExtra", "ChannelInfo",
                       "ChannelInfoExtra", "ForcePlateInfo", "EyeTrackerInfo",
                       "ForceFrame", "MomentFrame", "CentreOfPressureFrame",
                       "VoltageFrame", "EyeTrackerFrame" >>,
    Centroid    |-> CameraTypes \o << "Centroids", "CentroidWeights" >>,
    Greyscale   |-> CameraTypes \o << "GreyscaleBlobs", "GreyscaleSubsampledBlobs" >>,
    Debug       |-> << "HardwareFrameInfo" >>,
    Wand2d      |-> CameraTypes \o << "CameraWand2d" >>,
    Video       |-> CameraTypes \o << "VideoFrame" >> ]

\* None stands for no call, and is not one.
ASSUME DataRequestsAssumption ==
  /\ Kinds \subseteq DOMAIN TypesOf
  /\ \A k \in Kinds \cup {"Connect"}, on \in BOOLEAN : None # [kind |-> k, on |-> on]

\* The types of a kind, and of several, as sets.
Needs(k) == {TypesOf[k][i] : i \in DOMAIN TypesOf[k]} \cap Tracked
Base == {BaseTypes[i] : i \in DOMAIN BaseTypes} \cap Tracked

(* A call of VClient is a list of steps: a request for one type to be sent *)
(* or not, the flag of a kind that is set, a Disable call for a kind.      *)
Request(t, on) == [do |-> "request", what |-> t, on |-> on]
Flag(k, on)    == [do |-> "flag", what |-> k, on |-> on]
Disable(k)     == [do |-> "disable", what |-> k, on |-> FALSE]

\* Variant for mutation testing: only the first type is turned off.
Requests_FirstOff(types, on) ==
  IF on THEN [i \in DOMAIN types |-> Request(types[i], TRUE)]
        ELSE << Request(types[1], FALSE) >>

Requests(types, on) == [i \in DOMAIN types |-> Request(types[i], on)]
Disables(kinds) == [i \in DOMAIN kinds |-> Disable(kinds[i])]

\* Variant for mutation testing: segment data is not disabled.
OtherKinds_ButSegment ==
  << "Marker", "Unlabeled", "MarkerRay", "Device", "Centroid", "Greyscale",
     "Debug", "Wand2d", "Video" >>

\* The kinds that SetLightweightSegmentDataEnabled disables.
OtherKinds ==
  << "Segment", "Marker", "Unlabeled", "MarkerRay", "Device", "Centroid",
     "Greyscale", "Debug", "Wand2d", "Video" >>

\* The steps of Set...DataEnabled for each kind.
AllSteps(k, on) ==
  CASE k = "Segment" ->
         Requests(TypesOf[k], on)
           \o (IF on THEN << Request("LightweightSegments", FALSE) >> ELSE <<>>)
           \o << Flag(k, on) >>
    [] k = "Lightweight" ->
         << Request("LightweightSegments", on) >>
           \o (IF on THEN Disables(OtherKinds) ELSE <<>>)
           \o Requests(Tail(TypesOf[k]), on)
           \o << Flag(k, on) >>
    [] OTHER ->
         Requests(TypesOf[k], on) \o << Flag(k, on) >>

\* What is left of them when the model follows only some types and kinds.
IsFollowed(step) == /\ step.do = "request" => step.what \in Tracked
                    /\ step.do = "disable" => step.what \in Kinds
Followed(steps) ==
  LET kept[i \in 0 .. Len(steps)] ==
        IF i = 0 THEN <<>>
        ELSE IF IsFollowed(steps[i]) THEN Append(kept[i - 1], steps[i]) ELSE kept[i - 1]
  IN kept[Len(steps)]

Steps(k, on) == Followed(AllSteps(k, on))

-----------------------------------------------------------------------------
VARIABLES
  \* VClient
  enabled,            \* the kinds whose m_b...DataEnabled is set
  m_Filter,           \* the filters of the program: pairs of a type and an id
  m_pClient,          \* whether there is a VCGClient
  m_LatestFrame,      \* whether there is a frame to read from (HasData)
  setting,            \* the Set...DataEnabled call that runs, Connecting or None
  calls,              \* its remaining steps
  \* VCGClient
  m_RequestedObjects, \* the types to be sent
  m_FrameDeque,       \* whether a frame is buffered
  m_HapticDeviceOnList,
  apex,               \* how far SetApexDeviceFeedback has come with each route
  \* VViconCGStreamClient, for each route
  m_ServerObjects,    \* the types that the server has declared
  m_RequiredObjects,
  m_bEnumsChanged,
  filter,             \* its m_Filter
  m_bFilterChanged,
  m_OnDeviceList,
  m_bHapticChanged,
  m_bPingChanged,
  stream_pc,          \* where its thread is
  \* the server, for each route
  offer,              \* the types that it offers
  server_enums,       \* the types that it has been asked for
  server_filter,
  server_devices

setup_vars  == <<enabled, setting, calls, m_RequestedObjects, m_RequiredObjects,
                 m_bEnumsChanged>>
filter_vars == <<m_Filter, filter, m_bFilterChanged>>
apex_vars   == <<m_HapticDeviceOnList, apex, m_OnDeviceList, m_bHapticChanged>>
frame_vars  == <<m_LatestFrame, m_FrameDeque, m_bPingChanged>>
server_vars == <<server_enums, server_filter, server_devices>>
conn_vars   == <<m_pClient, m_ServerObjects, stream_pc, offer>>
vars == <<setup_vars, filter_vars, apex_vars, frame_vars, server_vars, conn_vars>>

Connecting == [kind |-> "Connect", on |-> TRUE]

Connected == \E r \in Routes : stream_pc[r] # "ended"

\* The program is not within a call.
Idle == setting = None /\ \A r \in Routes : apex[r] = "done"

\* m_Mutex of a route is free.
Unlocked(r) == stream_pc[r] # "writing"

Init ==
  /\ enabled = {}
  /\ m_Filter = {}
  /\ m_pClient = FALSE
  /\ m_LatestFrame = FALSE
  /\ setting = None
  /\ calls = <<>>
  /\ stream_pc = [r \in Routes |-> "ended"]
  /\ offer = [r \in Routes |-> {}]
  /\ m_RequestedObjects = {}
  /\ m_FrameDeque = FALSE
  /\ m_HapticDeviceOnList = {}
  /\ apex = [r \in Routes |-> "done"]
  /\ m_ServerObjects = [r \in Routes |-> {}]
  /\ m_RequiredObjects = [r \in Routes |-> {"Contents"}]
  /\ m_bEnumsChanged = [r \in Routes |-> TRUE]
  /\ filter = [r \in Routes |-> {}]
  /\ m_bFilterChanged = [r \in Routes |-> FALSE]
  /\ m_OnDeviceList = [r \in Routes |-> {}]
  /\ m_bHapticChanged = [r \in Routes |-> FALSE]
  /\ m_bPingChanged = [r \in Routes |-> FALSE]
  /\ server_enums = [r \in Routes |-> {}]
  /\ server_filter = [r \in Routes |-> {}]
  /\ server_devices = [r \in Routes |-> {}]

-----------------------------------------------------------------------------
(* Connections.                                                            *)

\* What a new VCGClient and its stream clients start from.
NewConnection ==
  /\ m_RequestedObjects' = {}
  /\ m_FrameDeque' = FALSE
  /\ m_HapticDeviceOnList' = {}
  /\ apex' = [r \in Routes |-> "done"]
  /\ m_ServerObjects' = [r \in Routes |-> {}]
  /\ m_RequiredObjects' = [r \in Routes |-> {"Contents"}]
  /\ m_bEnumsChanged' = [r \in Routes |-> TRUE]
  /\ filter' = [r \in Routes |-> {}]
  /\ m_bFilterChanged' = [r \in Routes |-> FALSE]
  /\ m_OnDeviceList' = [r \in Routes |-> {}]
  /\ m_bHapticChanged' = [r \in Routes |-> FALSE]
  /\ m_bPingChanged' = [r \in Routes |-> FALSE]
  /\ server_enums' = [r \in Routes |-> {}]
  /\ server_filter' = [r \in Routes |-> {}]
  /\ server_devices' = [r \in Routes |-> {}]

\* Connect drops the old client and reaches the routes of R; if there is one,
\* the base types are requested.  The requests that then turn off the other
\* types change nothing: a new client requests none.  The flags of VClient
\* and its filters stay as they are.
Connect(R) ==
  /\ Idle
  /\ NewConnection
  /\ m_pClient' = (R # {})
  /\ stream_pc' = [r \in Routes |-> IF r \in R THEN "connecting" ELSE "ended"]
  /\ offer' \in [Routes -> Offers]
  /\ calls' = IF R = {} THEN <<>> ELSE Followed(Requests(BaseTypes, TRUE))
  /\ setting' = IF calls' = <<>> THEN None ELSE Connecting
  /\ UNCHANGED <<enabled, m_Filter, m_LatestFrame>>

\* Disconnect destroys the client and joins its threads.
Disconnect ==
  /\ Idle
  /\ Connected
  /\ NewConnection
  /\ m_pClient' = FALSE
  /\ stream_pc' = [r \in Routes |-> "ended"]
  /\ UNCHANGED <<enabled, m_Filter, m_LatestFrame, setting, calls, offer>>

-----------------------------------------------------------------------------
(* Set...DataEnabled.                                                      *)

SetDataEnabled(k, on) ==
  /\ Idle
  /\ Connected
  /\ setting' = [kind |-> k, on |-> on]
  /\ calls' = Steps(k, on)
  /\ UNCHANGED <<enabled, m_RequestedObjects, m_RequiredObjects, m_bEnumsChanged,
                 filter_vars, apex_vars, frame_vars, server_vars, conn_vars>>

\* The call goes on with the steps of rest, or returns.
Continue(rest) ==
  /\ calls' = rest
  /\ setting' = IF rest = <<>> THEN None ELSE setting

\* While a server has declared nothing, everything is taken to be supported.
\* The set is read while the stream thread may be filling it.
ObjectIsSupported(t) ==
  \A r \in Routes : m_ServerObjects[r] # {} => t \in m_ServerObjects[r]

\* Variant for mutation testing: only what is added is passed on.
SetRequiredObjects_OnEnable(types, on) ==
  /\ \A r \in Routes : Unlocked(r)
  /\ m_RequestedObjects' = types
  /\ m_RequiredObjects' =
       [r \in Routes |-> IF on THEN types \cup {"Contents"} ELSE m_RequiredObjects[r]]
  /\ m_bEnumsChanged' = [r \in Routes |-> on \/ m_bEnumsChanged[r]]

\* Every route is told the new set, whether or not it has changed.
SetRequiredObjects(types, on) ==
  /\ \A r \in Routes : Unlocked(r)
  /\ m_RequestedObjects' = types
  /\ m_RequiredObjects' = [r \in Routes |-> types \cup {"Contents"}]
  /\ m_bEnumsChanged' = [r \in Routes |-> TRUE]

\* A type that a server does not support is not requested; only the first
\* step of SetLightweightSegmentDataEnabled looks at the result, and returns.
SetRequestTypes ==
  /\ calls # <<>>
  /\ Head(calls).do = "request"
  /\ LET t  == Head(calls).what
         on == Head(calls).on
     IN \/ /\ on /\ ObjectIsSupported(t)
           /\ SetRequiredObjects(m_RequestedObjects \cup {t}, on)
           /\ Continue(Tail(calls))
        \/ /\ ~ on
           /\ SetRequiredObjects(m_RequestedObjects \ {t}, on)
           /\ Continue(Tail(calls))
        \/ /\ on /\ ~ ObjectIsSupported(t)
           /\ Continue(IF setting.kind = "Lightweight" /\ t = "LightweightSegments"
                       THEN <<>> ELSE Tail(calls))
           /\ UNCHANGED <<m_RequestedObjects, m_RequiredObjects, m_bEnumsChanged>>
  /\ UNCHANGED <<enabled, filter_vars, apex_vars, frame_vars, server_vars, conn_vars>>

\* Disable...Data, called by SetLightweightSegmentDataEnabled, does nothing
\* when the connection has been lost meanwhile.
DisableData ==
  /\ calls # <<>>
  /\ Head(calls).do = "disable"
  /\ Continue((IF Connected THEN Steps(Head(calls).what, FALSE) ELSE <<>>) \o Tail(calls))
  /\ UNCHANGED <<enabled, m_RequestedObjects, m_RequiredObjects, m_bEnumsChanged,
                 filter_vars, apex_vars, frame_vars, server_vars, conn_vars>>

SetFlag ==
  /\ calls # <<>>
  /\ Head(calls).do = "flag"
  /\ enabled' = IF Head(calls).on THEN enabled \cup {Head(calls).what}
                                  ELSE enabled \ {Head(calls).what}
  /\ Continue(Tail(calls))
  /\ UNCHANGED <<m_RequestedObjects, m_RequiredObjects, m_bEnumsChanged,
                 filter_vars, apex_vars, frame_vars, server_vars, conn_vars>>

-----------------------------------------------------------------------------
(* Frames, filters and feedback.                                           *)

\* Variant for mutation testing: no ping.
GetFrame_NoPing ==
  /\ Idle
  /\ Connected
  /\ m_FrameDeque
  /\ m_FrameDeque' = FALSE
  /\ m_LatestFrame' = TRUE
  /\ UNCHANGED <<m_bPingChanged, setup_vars, filter_vars, apex_vars, server_vars,
                 conn_vars>>

\* GetFrame takes the frame and pings the servers (without m_Mutex).
GetFrame ==
  /\ Idle
  /\ Connected
  /\ m_FrameDeque
  /\ m_FrameDeque' = FALSE
  /\ m_LatestFrame' = TRUE
  /\ m_bPingChanged' = [r \in Routes |-> TRUE]
  /\ UNCHANGED <<setup_vars, filter_vars, apex_vars, server_vars, conn_vars>>

SetFilter(f) ==
  /\ \A r \in Routes : Unlocked(r)
  /\ m_Filter' = f
  /\ filter' = [r \in Routes |-> f]
  /\ m_bFilterChanged' = [r \in Routes |-> TRUE]

Cleared(types) == {p \in m_Filter : p[1] \notin types}

\* The filters of the camera data are replaced; -1 is no camera, so that an
\* empty selection lets nothing pass.
SetCameraFilter(centroids, blobs, video) ==
  /\ Idle
  /\ Connected
  /\ SetFilter(Cleared({"Centroids", "GreyscaleBlobs", "VideoFrame"})
                 \cup ({"Centroids"} \X (centroids \cup {-1}))
                 \cup ({"GreyscaleBlobs"} \X (blobs \cup {-1}))
                 \cup ({"VideoFrame"} \X (video \cup {-1})))
  /\ UNCHANGED <<setup_vars, apex_vars, frame_vars, server_vars, conn_vars>>

\* ClearSubjectFilter does not ask whether there is a connection, but it
\* needs a client.
ClearSubjectFilter ==
  /\ Idle
  /\ m_pClient
  /\ SetFilter(Cleared({"SubjectInfo", "GlobalSegments", "LocalSegments",
                        "LightweightSegments", "SubjectScale", "SubjectTopology"}))
  /\ UNCHANGED <<setup_vars, apex_vars, frame_vars, server_vars, conn_vars>>

AddToSubjectFilter(s) ==
  /\ Idle
  /\ Connected
  /\ m_LatestFrame
  /\ SetFilter(m_Filter \cup ({"GlobalSegments", "LocalSegments",
                               "LightweightSegments", "ObjectQuality"} \X {s}))
  /\ UNCHANGED <<setup_vars, apex_vars, frame_vars, server_vars, conn_vars>>

\* SetApexDeviceFeedback changes the list of VCGClient ...
SetApexDeviceFeedback(d, on) ==
  /\ Idle
  /\ Connected
  /\ m_LatestFrame
  /\ on = (d \notin m_HapticDeviceOnList)
  /\ m_HapticDeviceOnList' = IF on THEN m_HapticDeviceOnList \cup {d}
                                   ELSE m_HapticDeviceOnList \ {d}
  /\ apex' = [r \in Routes |-> "called"]
  /\ UNCHANGED <<m_OnDeviceList, m_bHapticChanged, setup_vars, filter_vars,
                 frame_vars, server_vars, conn_vars>>

\* ... and in each stream client, without its mutex, first the flag ...
RaiseHapticChanged(r) ==
  /\ apex[r] = "called"
  /\ IF m_OnDeviceList[r] = m_HapticDeviceOnList
     THEN /\ apex' = [apex EXCEPT ![r] = "done"]
          /\ UNCHANGED m_bHapticChanged
     ELSE /\ apex' = [apex EXCEPT ![r] = "raised"]
          /\ m_bHapticChanged' = [m_bHapticChanged EXCEPT ![r] = TRUE]
  /\ UNCHANGED <<m_HapticDeviceOnList, m_OnDeviceList, setup_vars, filter_vars,
                 frame_vars, server_vars, conn_vars>>

\* ... then the list.
StoreOnDeviceList(r) ==
  /\ apex[r] = "raised"
  /\ apex' = [apex EXCEPT ![r] = "done"]
  /\ m_OnDeviceList' = [m_OnDeviceList EXCEPT ![r] = m_HapticDeviceOnList]
  /\ UNCHANGED <<m_HapticDeviceOnList, m_bHapticChanged, setup_vars, filter_vars,
                 frame_vars, server_vars, conn_vars>>

-----------------------------------------------------------------------------
(* The thread of a route.                                                  *)

\* The declaration of the server is read without m_Mutex, type by type: until
\* it is complete, the set holds some of its types.
ReadObjectEnums(r) ==
  /\ stream_pc[r] = "connecting"
  /\ \E part \in SUBSET offer[r] :
       m_ServerObjects' = [m_ServerObjects EXCEPT ![r] = part]
  /\ stream_pc' = [stream_pc EXCEPT ![r] = "declaring"]
  /\ UNCHANGED <<m_pClient, offer, setup_vars, filter_vars, apex_vars, frame_vars,
                 server_vars>>

DeclarationRead(r) ==
  /\ stream_pc[r] = "declaring"
  /\ m_ServerObjects' = [m_ServerObjects EXCEPT ![r] = offer[r]]
  /\ m_bEnumsChanged' = [m_bEnumsChanged EXCEPT ![r] = TRUE]
  /\ stream_pc' = [stream_pc EXCEPT ![r] = "write"]
  /\ UNCHANGED <<enabled, setting, calls, m_RequestedObjects, m_RequiredObjects,
                 m_pClient, offer, filter_vars, apex_vars, frame_vars, server_vars>>

\* WriteObjects takes m_Mutex and looks whether there is something to write.
\* A filter alone is not reason enough.
WriteObjects(r) ==
  /\ stream_pc[r] = "write"
  /\ stream_pc' = [stream_pc EXCEPT ![r] =
       IF m_bEnumsChanged[r] \/ m_bHapticChanged[r] \/ m_bPingChanged[r]
       THEN "writing" ELSE "reading"]
  /\ UNCHANGED <<m_pClient, m_ServerObjects, offer, setup_vars, filter_vars,
                 apex_vars, frame_vars, server_vars>>

\* It writes everything that has changed, and the connection takes it.
Flush(r) ==
  /\ stream_pc[r] = "writing"
  /\ m_bEnumsChanged' = [m_bEnumsChanged EXCEPT ![r] = FALSE]
  /\ m_bHapticChanged' = [m_bHapticChanged EXCEPT ![r] = FALSE]
  /\ m_bFilterChanged' = [m_bFilterChanged EXCEPT ![r] = FALSE]
  /\ m_bPingChanged' = [m_bPingChanged EXCEPT ![r] = FALSE]
  /\ server_enums' = IF m_bEnumsChanged[r]
                     THEN [server_enums EXCEPT ![r] =
                             m_ServerObjects[r] \cap m_RequiredObjects[r]]
                     ELSE server_enums
  /\ server_devices' = IF m_bHapticChanged[r]
                       THEN [server_devices EXCEPT ![r] = m_OnDeviceList[r]]
                       ELSE server_devices
  /\ server_filter' = IF m_bFilterChanged[r]
                      THEN [server_filter EXCEPT ![r] = filter[r]]
                      ELSE server_filter
  /\ stream_pc' = [stream_pc EXCEPT ![r] = "reading"]
  /\ UNCHANGED <<enabled, setting, calls, m_RequestedObjects, m_RequiredObjects,
                 m_Filter, filter, m_HapticDeviceOnList, apex, m_OnDeviceList,
                 m_LatestFrame, m_FrameDeque, m_pClient, m_ServerObjects, offer>>

\* A packet comes; its frame is buffered.
ReadObjects(r) ==
  /\ stream_pc[r] = "reading"
  /\ m_FrameDeque' = TRUE
  /\ stream_pc' = [stream_pc EXCEPT ![r] = "write"]
  /\ UNCHANGED <<m_LatestFrame, m_bPingChanged, m_pClient, m_ServerObjects, offer,
                 setup_vars, filter_vars, apex_vars, server_vars>>

\* The connection breaks; the thread notices when it reads or flushes.
OnDisconnect(r) ==
  /\ stream_pc[r] \in {"connecting", "declaring", "writing", "reading"}
  /\ stream_pc' = [stream_pc EXCEPT ![r] = "ended"]
  /\ UNCHANGED <<m_pClient, m_ServerObjects, offer, setup_vars, filter_vars,
                 apex_vars, frame_vars, server_vars>>

-----------------------------------------------------------------------------
StreamThread(r) ==
  \/ ReadObjectEnums(r)
  \/ DeclarationRead(r)
  \/ WriteObjects(r)
  \/ Flush(r)
  \/ ReadObjects(r)

CallSteps == SetRequestTypes \/ DisableData \/ SetFlag

ApexSteps(r) == RaiseHapticChanged(r) \/ StoreOnDeviceList(r)

Next ==
  \/ \E R \in SUBSET Routes : Connect(R)
  \/ Disconnect
  \/ \E k \in Kinds, on \in BOOLEAN : SetDataEnabled(k, on)
  \/ CallSteps
  \/ GetFrame
  \/ \E centroids, blobs, video \in SUBSET Cameras :
       Cameras # {} /\ SetCameraFilter(centroids, blobs, video)
  \/ Subjects # {} /\ ClearSubjectFilter
  \/ \E s \in Subjects : AddToSubjectFilter(s)
  \/ \E d \in Devices, on \in BOOLEAN : SetApexDeviceFeedback(d, on)
  \/ \E r \in Routes : StreamThread(r) \/ ApexSteps(r) \/ OnDisconnect(r)

Spec == Init /\ [][Next]_vars

\* The threads run, the server keeps sending, and the program calls GetFrame
\* again and again, whatever else it calls in between.
FairSpec ==
  /\ Spec
  /\ WF_vars(CallSteps)
  /\ SF_vars(GetFrame)
  /\ \A r \in Routes : WF_vars(StreamThread(r)) /\ WF_vars(ApexSteps(r))

-----------------------------------------------------------------------------
\* Every variable holds what the program and its threads can hold, and a call
\* that runs has steps left.
TypeOK ==
  /\ enabled \subseteq Kinds
  /\ m_pClient \in BOOLEAN
  /\ m_LatestFrame \in BOOLEAN
  /\ m_FrameDeque \in BOOLEAN
  /\ setting \in {None, Connecting} \cup [kind : Kinds, on : BOOLEAN]
  /\ setting = None <=> calls = <<>>
  /\ m_RequestedObjects \subseteq Tracked
  /\ m_HapticDeviceOnList \subseteq Devices
  /\ apex \in [Routes -> {"done", "called", "raised"}]
  /\ \A r \in Routes :
       /\ m_ServerObjects[r] \subseteq offer[r]
       /\ m_RequiredObjects[r] \subseteq Tracked \cup {"Contents"}
       /\ m_OnDeviceList[r] \subseteq Devices
       /\ stream_pc[r] # "ended" => m_pClient
  /\ stream_pc \in [Routes -> {"connecting", "declaring", "write", "writing",
                               "reading", "ended"}]

\* The inductive invariant behind ServerInStep: the stream clients have the
\* set of VCGClient, and a thread that is past the declaration knows the
\* whole offer; a filter that has not been sent is marked, from the start.
RoutesKnow ==
  \A r \in Routes : m_RequiredObjects[r] = m_RequestedObjects \cup {"Contents"}

ServersKnow ==
  \A r \in Routes :
    stream_pc[r] \in {"write", "writing", "reading"} =>
      /\ m_ServerObjects[r] = offer[r]
      /\ ~ m_bEnumsChanged[r] => server_enums[r] = offer[r] \cap m_RequiredObjects[r]

FiltersKnow ==
  \A r \in Routes : ~ m_bFilterChanged[r] => server_filter[r] = filter[r]

\* The variables that RoutesKnow and ServersKnow are about have an entry for
\* each route.
RoutesListed ==
  /\ DOMAIN stream_pc = Routes
  /\ DOMAIN m_ServerObjects = Routes
  /\ DOMAIN m_RequiredObjects = Routes
  /\ DOMAIN m_bEnumsChanged = Routes
  /\ DOMAIN m_bFilterChanged = Routes
  /\ DOMAIN filter = Routes
  /\ DOMAIN server_enums = Routes
  /\ DOMAIN server_filter = Routes

IInv ==
  /\ RoutesListed
  /\ RoutesKnow
  /\ ServersKnow
  /\ FiltersKnow

\* The inductive invariant behind NothingUnasked and LightweightIsAlone: what the
\* steps that are left of a call have to do with what has been done.
AnyStep == [do : {"request"}, what : Tracked, on : BOOLEAN]
             \cup [do : {"flag", "disable"}, what : Kinds, on : BOOLEAN]

CallTypeOK ==
  /\ calls \in Seq(AnyStep)
  /\ enabled \subseteq Kinds
  /\ setting = None => calls = <<>>

\* A kind is not taken from the enabled ones before its types are given up.
OffBeforeFlag ==
  \A i \in DOMAIN calls : (calls[i].do = "flag" /\ ~ calls[i].on) =>
    \A t \in Needs(calls[i].what) :
      /\ t \in m_RequestedObjects => \E j \in 1 .. i - 1 : calls[j] = Request(t, FALSE)
      /\ \A j \in 1 .. i - 1 : calls[j] # Request(t, TRUE)

\* What is requested is wanted, or the call that runs goes on to enable its kind.
Wanted == Base \cup UNION {Needs(k) : k \in enabled}
FlagFollows(t, j) == \E i \in DOMAIN calls : /\ i > j /\ calls[i].do = "flag" /\ calls[i].on
                                            /\ t \in Needs(calls[i].what)
OnHasFlag ==
  /\ \A t \in m_RequestedObjects : t \in Wanted \/ FlagFollows(t, 0)
  /\ \A j \in DOMAIN calls : (calls[j].do = "request" /\ calls[j].on) =>
       calls[j].what \in Base \/ FlagFollows(calls[j].what, j)

\* The request that may end a call is its first step.
LightweightFirst ==
  \A i \in DOMAIN calls : calls[i] = Request("LightweightSegments", TRUE) =>
    i = 1 /\ m_RequestedObjects \subseteq Wanted

\* A call enables one kind; before Lightweight, the others are disabled.
OthersGoFirst ==
  \A i \in DOMAIN calls : (calls[i].do = "flag" /\ calls[i].on) =>
    /\ \A j \in DOMAIN calls : calls[j].do = "flag" /\ calls[j].on => calls[j] = calls[i]
    /\ (Connected /\ calls[i].what = "Lightweight") =>
         \A k \in enabled \ {"Lightweight"} :
           \E j \in DOMAIN calls : calls[j] \in {Disable(k), Flag(k, FALSE)}

CallInv ==
  /\ CallTypeOK
  /\ OffBeforeFlag
  /\ OnHasFlag
  /\ LightweightFirst
  /\ OthersGoFirst

\* Nothing is sent over the network that the program has not enabled: between
\* two calls every requested type is a base type or belongs to a kind whose
\* Is...Enabled answers true.
NothingUnasked ==
  (setting = None /\ Connected) =>
    m_RequestedObjects \subseteq Base \cup UNION {Needs(k) : k \in enabled}

\* A server that has been written to, and for which no change is marked, has
\* exactly the types that the program requests and it offers, and the filter
\* of the route.
ServerInStep ==
  \A r \in Routes :
    stream_pc[r] \in {"write", "reading"} =>
      /\ ~ m_bEnumsChanged[r] =>
           server_enums[r] = offer[r] \cap (m_RequestedObjects \cup {"Contents"})
      /\ ~ m_bFilterChanged[r] => server_filter[r] = filter[r]

\* "Calling this method will automatically disable all other configurable
\* output types": when EnableLightweightSegmentData has succeeded, no other
\* kind is enabled and none of their types is requested any more.
LightweightIsAlone ==
  [][(Connected /\ calls = << Flag("Lightweight", TRUE) >> /\ calls' = <<>>)
       => /\ enabled' = {"Lightweight"}
          /\ m_RequestedObjects \subseteq Base \cup Needs("Lightweight")]_vars

\* What the program has asked for reaches the server, the filters too,
\* although they are sent only together with something else; unless the
\* connection breaks or a new one is made.
ChangesReachServer ==
  \A r \in Routes :
    (m_bEnumsChanged[r] \/ m_bFilterChanged[r]) ~>
      \/ ~ m_bEnumsChanged[r] /\ ~ m_bFilterChanged[r]
      \/ stream_pc[r] = "ended"
      \/ setting = Connecting

\* Disabling one kind of data takes nothing from another one that
\* Is...Enabled reports as enabled.
DisableKeepsOthers ==
  [][\A k \in enabled :
       (setting # None /\ setting.kind # k /\ ~ setting.on)
         => Needs(k) \cap m_RequestedObjects \subseteq m_RequestedObjects']_vars

\* When SetApexDeviceFeedback has returned and no change is marked, the
\* server has the list of devices whose feedback is on.
FeedbackInStep ==
  \A r \in Routes :
    (Idle /\ stream_pc[r] \in {"write", "reading"} /\ ~ m_bHapticChanged[r]) =>
      server_devices[r] = m_HapticDeviceOnList

=============================================================================
