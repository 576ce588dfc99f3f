------------------------------ MODULE CGStream ------------------------------
(* The packets of a connection: what the stream thread of                    *)
(* VViconCGStreamClient makes of them, over TCP or from a multicast group.   *)
(*                                                                           *)
(* A packet is a block of blocks.  Its first one, VContents, tells which     *)
(* kinds of objects have not changed since the packet before; the others are *)
(* items.  The client fills new static and dynamic objects, and takes over   *)
(* from those it held what has not changed.  Servers of other versions send  *)
(* items the client does not know, items with more members than it knows     *)
(* ("longer") and with fewer ("shorter").                                    *)
EXTENDS WireItems, FiniteSets

CONSTANTS
    Deliveries,    \* what the server may send: sequences of [class, value, form]
    Filters,       \* the filters a client may have set
    MaxDatagram,   \* size of the buffer for datagrams (64 KiB)
    MaxPackets     \* bound on the packets of a run

VARIABLES
    heldStatics,   \* m_pStaticObjects: identifier -> items, Nothing before the first
    heldDynamics,  \* m_pDynamicObjects
    packetBuffer,  \* the bytes in the reader
    packetRead,    \* what ReadObjects answered last
    packetSent,    \* the items of the last packet
    servedObjects, \* what the server has: identifier -> items
    servedFilter,  \* what the server lets through
    servedOnly,    \* no item so far was a shorter one
    packetCount

objectVars == <<heldStatics, heldDynamics, packetBuffer, packetRead, packetSent,
                servedObjects, servedFilter, servedOnly, packetCount>>

-----------------------------------------------------------------------------
(* The objects a client knows *)

\* Kinds of which a packet has one item: a later one replaces it.
SingleStatics == {VStreamInfo, VApplicationInfo, VCameraCalibrationHealth}
ListedStatics ==
    {VSubjectInfo, VSubjectTopology, VSubjectScale, VSubjectHealth, VObjectQuality, VCameraInfo,
     VCameraSensorInfo, VCameraCalibrationInfo, VDeviceInfo, VDeviceInfoExtra, VChannelInfo,
     VChannelInfoExtra, VForcePlateInfo, VEyeTrackerInfo}
SingleDynamics ==
    {VFrameInfo, VHardwareFrameInfo, VTimecode, VLatencyInfo, VLabeledRecons, VUnlabeledRecons,
     VLabeledReconRayAssignments, VFrameRateInfo}
ListedDynamics ==
    {VCentroids, VCentroidTracks, VCentroidWeights, VVideoFrame, VGlobalSegments, VLocalSegments,
     VLightweightSegments, VGreyscaleBlobs, VGreyscaleSubsampledBlobs, VEdgePairs, VForceFrame,
     VMomentFrame, VCentreOfPressureFrame, VVoltageFrame, VCameraWand2d, VCameraWand3d,
     VEyeTrackerFrame}
Statics == SingleStatics \cup ListedStatics
Dynamics == SingleDynamics \cup ListedDynamics
ClassOf(enum) == CHOOSE c \in Statics \cup Dynamics : c.enum = enum
EnumsOf(classes) == {c.enum : c \in classes}

\* VStaticObjects, VDynamicObjects.
Nothing == <<>>
NewObjects(classes) == [e \in EnumsOf(classes) |-> <<>>]

\* The Add... and Reset... functions, and the members read in place.
AddItem(objects, class, value) ==
    [objects EXCEPT ![class.enum] =
        IF class \in SingleStatics \cup SingleDynamics THEN <<value>> ELSE Append(@, value)]

\* CopyObjects: the kinds either of the two functions knows.
CopiedStatics == Statics
CopiedDynamics ==
    Dynamics \ {VCentroidTracks, VForceFrame, VMomentFrame, VCentreOfPressureFrame, VVoltageFrame}

\* Variant for mutation testing: a kind is left out of CopyObjects.
CopyObjects_WithoutScale(unchanged, copied, held, read) ==
    IF held = Nothing \/ read = Nothing THEN read
    ELSE [e \in DOMAIN read |->
             IF e \in unchanged /\ e \in EnumsOf(copied \ {VSubjectScale})
             THEN held[e] ELSE read[e]]

CopyObjects(unchanged, copied, held, read) ==
    IF held = Nothing \/ read = Nothing THEN read
    ELSE [e \in DOMAIN read |->
             IF e \in unchanged /\ e \in EnumsOf(copied) THEN held[e] ELSE read[e]]

-----------------------------------------------------------------------------
(* Reading a packet *)

\* Fill over TCP: the buffer has the packet.  From a group: the packet lies on
\* what the buffer had.
FillPacket(bytes) == bytes
FillDatagram(bytes) ==
    LET before == IF Len(packetBuffer) = MaxDatagram THEN packetBuffer
                  ELSE [i \in 1 .. MaxDatagram |-> 0]
    IN bytes \o SubSeq(before, Len(bytes) + 1, MaxDatagram)

\* The loop of ReadObjects: at is where the reader stands.  A packet that ends
\* within a head, which no server sends, keeps the loop going for ever: here it
\* counts as unreadable.
NewRead == [ok |-> TRUE, statics |-> Nothing, dynamics |-> Nothing, unchanged |-> {}, contents |-> FALSE]
WithItem(done, class, value) ==
    IF class \in Statics
    THEN [done EXCEPT !.statics =
             AddItem(IF @ = Nothing THEN NewObjects(Statics) ELSE @, class, value)]
    ELSE [done EXCEPT !.dynamics =
             AddItem(IF @ = Nothing THEN NewObjects(Dynamics) ELSE @, class, value)]

RECURSIVE ReadBlocks(_, _, _, _)
ReadBlocks(buffer, packet, at, done) ==
    IF ~BlockOk(packet, at) THEN done
    ELSE LET head == ReadHead(buffer, at)
             known == head.enum \in EnumsOf(Statics \cup Dynamics)
             class == IF head.enum = VContents.enum THEN VContents
                      ELSE IF known THEN ClassOf(head.enum) ELSE VKeepAlive
             item == ReadItem(class, buffer, head.offset)
             next == IF ~item.ok \/ head.offset = at THEN [done EXCEPT !.ok = FALSE]
                     ELSE IF class = VContents
                          THEN [done EXCEPT !.contents = TRUE,
                                            !.unchanged = {NumberOf(e) : e \in item.value[2]}]
                     ELSE IF known THEN WithItem(done, class, item.value)
                     ELSE done
         IN IF next.ok
            THEN ReadBlocks(buffer, packet, LeaveBlock(head, item.offset), next)
            ELSE next

ReadPacket(buffer) ==
    LET packet == ReadHead(buffer, 0)
    IN IF packet.enum # Objects THEN [NewRead EXCEPT !.ok = FALSE]
       ELSE ReadBlocks(buffer, packet, packet.offset, NewRead)

\* The end of ReadObjects; a failure ends the connection.
KeepObjects(read) ==
    /\ packetRead' = read.ok
    /\ IF read.ok
       THEN /\ heldStatics' =
                 (IF read.statics = Nothing THEN heldStatics
                  ELSE CopyObjects(read.unchanged, CopiedStatics, heldStatics, read.statics))
            /\ heldDynamics' =
                 (IF read.dynamics = Nothing THEN heldDynamics
                  ELSE CopyObjects(read.unchanged, CopiedDynamics, heldDynamics, read.dynamics))
       ELSE UNCHANGED <<heldStatics, heldDynamics>>

-----------------------------------------------------------------------------
(* The server: not in this repository *)

BodyOf(item) ==
    LET members == item.class.members
    IN CASE item.form = "whole" -> WriteValue(Class(members), item.value)
         [] item.form = "longer" -> WriteValue(Class(members), item.value) \o <<5, 6, 7>>
         [] item.form = "shorter" ->
              WriteValue(Class(SubSeq(members, 1, Len(members) - 1)), item.value)

\* What the server still has of what it sent before.
UnchangedBy(items) ==
    {e \in DOMAIN servedObjects : \A i \in DOMAIN items : items[i].class.enum # e}
ContentsOf(items) ==
    LET enums == {UInt32Bytes(items[i].class.enum) : i \in DOMAIN items}
    IN <<[e \in enums |-> <<1, 0, 0, 0>>], {UInt32Bytes(e) : e \in UnchangedBy(items)}>>

PacketOf(items) ==
    LET body == ItemBlock(VContents, ContentsOf(items)) \o
                FlattenSeq([i \in DOMAIN items |-> Block(items[i].class.enum, BodyOf(items[i]))])
    IN Block(Objects, body)

Passing(items) == SelectSeq(items, LAMBDA i : Allow(servedFilter, i.class, i.value))

ItemsOf(enum, items) ==
    LET these == SelectSeq(items, LAMBDA i : i.class.enum = enum)
    IN [i \in DOMAIN these |-> these[i].value]

\* A packet arrives, over TCP or from the group, and is read.
ReceivePacket(items, fromGroup) ==
    /\ packetRead
    /\ packetCount < MaxPackets
    /\ packetCount' = packetCount + 1
    /\ packetSent' = Passing(items)
    /\ packetBuffer' = LET bytes == PacketOf(Passing(items))
                       IN IF fromGroup THEN FillDatagram(bytes) ELSE FillPacket(bytes)
    /\ KeepObjects(ReadPacket(packetBuffer'))
    /\ servedObjects' =
         [e \in DOMAIN servedObjects \cup {Passing(items)[i].class.enum : i \in DOMAIN Passing(items)} |->
             IF e \in UnchangedBy(Passing(items)) THEN servedObjects[e]
             ELSE ItemsOf(e, Passing(items))]
    /\ servedOnly' = (servedOnly /\ \A i \in DOMAIN packetSent' : packetSent'[i].form # "shorter")
    /\ UNCHANGED servedFilter

ReceiveOverTCP == \E d \in Deliveries : ReceivePacket(d, FALSE)
ReceiveDatagram == \E d \in Deliveries : ReceivePacket(d, TRUE)

-----------------------------------------------------------------------------
(* Specification *)

CGStreamInit ==
    /\ heldStatics = Nothing
    /\ heldDynamics = Nothing
    /\ packetBuffer = <<>>
    /\ packetRead = TRUE
    /\ packetSent = <<>>
    /\ servedObjects = <<>>
    /\ servedFilter \in Filters
    /\ servedOnly = TRUE
    /\ packetCount = 0

CGStreamNext ==
    \/ ReceiveOverTCP
    \/ ReceiveDatagram

-----------------------------------------------------------------------------
(* Properties *)

Shorter == {i \in DOMAIN packetSent : packetSent[i].form = "shorter"}
Held == IF heldStatics = Nothing THEN heldDynamics
        ELSE IF heldDynamics = Nothing THEN heldStatics ELSE heldStatics @@ heldDynamics
HasArrived(enum) == enum \in DOMAIN Held /\ Held[enum] = ItemsOf(enum, packetSent)
KnownSent == {packetSent[i].class.enum : i \in DOMAIN packetSent} \cap EnumsOf(Statics \cup Dynamics)

\* ReadObjects reads what the server sent: items of kinds the client does not
\* know and members it does not know are passed over, wherever they stand.  An
\* item of an older server, with fewer members than the client reads, is
\* completed from the bytes behind it, but the items behind it are read none the
\* less, as VScopedReader goes back to the end of the block.  Only an empty
\* block leaves the reader where the item ended.
ItemsArrive ==
    /\ Shorter = {} => packetRead
    /\ packetRead /\ (\A i \in Shorter : BodyOf(packetSent[i]) # <<>>) =>
          \A enum \in KnownSent \ {packetSent[i].class.enum : i \in Shorter} : HasArrived(enum)

\* What the server calls unchanged the client keeps from packet to packet, in
\* every kind of objects CopyObjects is told of.
UnchangedIsKept ==
    servedOnly /\ packetRead =>
        \A enum \in DOMAIN servedObjects \cap EnumsOf(CopiedStatics \cup CopiedDynamics) :
            enum \in DOMAIN Held /\ Held[enum] = servedObjects[enum]
=============================================================================
