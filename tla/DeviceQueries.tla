--------------------------- MODULE DeviceQueries ---------------------------
(* What VClient answers about the devices of the frame it holds: their       *)
(* outputs and the samples of them, force plates by number, and eye trackers.*)
(*                                                                           *)
(* A device has channels, a channel has components, and the outputs of a     *)
(* device are all components of all its channels.  Samples come in records   *)
(* of one device frame of one channel: all samples of the first component,   *)
(* then those of the second one.  A frame has the lists devices, starts      *)
(* (VDeviceInfoExtra), channels, units, plates, trackers and tracks, and for *)
(* each kind of samples its list of records.                                 *)
(*                                                                           *)
(* A device period of zero ticks is caught by the queries of force plates,   *)
(* but not by the count of their samples, which would divide by zero; the    *)
(* queries by name assert that a count of samples divides the period.  The   *)
(* frames have a period and samples that divide it: HasDevices, HasSamples   *)
(* and HasPlates say what the server keeps to.                               *)
EXTENDS FrameQueries, SampleIndex

-----------------------------------------------------------------------------
(* Devices, channels and their kinds *)

AdaptDeviceName(name, id) == IF name # "" THEN name ELSE "Unnamed Device " \o ToString(id)
AdaptDeviceOutputName(name, index) ==
    IF name # "" THEN name ELSE "Unnamed Device Output " \o ToString(index + 1)

InDevice(device, Query(_)) ==
    InitGet(FirstOf(heldFrame.devices, LAMBDA d : AdaptDeviceName(d.name, d.id) = device,
                    Query, Fail("InvalidDeviceName")))

\* IsForcePlateForceChannel, ...MomentChannel, ...CoPChannel: anything else is
\* taken for voltages.
KindOf(c) == CASE c.components = <<"Fx", "Fy", "Fz">> -> "Forces"
               [] c.components = <<"Mx", "My", "Mz">> -> "Moments"
               [] c.components = <<"Cx", "Cy", "Cz">> -> "CentresOfPressure"
               [] OTHER -> "Voltages"
IsForcePlateCoreChannel(c) == KindOf(c) # "Voltages"

ChannelsOf(id) == Those(heldFrame.channels, LAMBDA c : c.device = id)
IsForcePlateDevice(id) == Len(Those(ChannelsOf(id), IsForcePlateCoreChannel)) = 3
IsEyeTrackerDevice(id) == \E t \in Range(heldFrame.trackers) : t.id = id

GetDevicePeriod(id) ==
    FirstOf(heldFrame.devices, LAMBDA d : d.id = id, LAMBDA d : d.period, 0)
GetDeviceStartTick(id) ==
    FirstOf(heldFrame.starts, LAMBDA d : d.id = id, LAMBDA d : d.tick, 0)
HeldPeriod == FramePeriod(heldFrame.id, heldFrame.period)

GetDeviceCount == InitGet(Answer(Len(heldFrame.devices)))
DeviceType(id) ==
    CASE IsForcePlateDevice(id) -> "ForcePlate"
      [] ~IsForcePlateDevice(id) /\ IsEyeTrackerDevice(id) -> "EyeTracker"
      [] OTHER -> "Unknown"
GetDeviceName(i) ==
    InitGet(At(heldFrame.devices, i, LAMBDA d :
                   [name |-> AdaptDeviceName(d.name, d.id), type |-> DeviceType(d.id)]))

-----------------------------------------------------------------------------
(* Samples *)

\* Record x has the samples of n components, over one period of a device.
Stride(x, n) == Len(x.samples) \div n
SamplePeriod(x, n, id) == GetDevicePeriod(id) \div Stride(x, n)
CountOf(x, n, id) == GetSamplesInFrame(HeldPeriod, GetDeviceStartTick(id), SamplePeriod(x, n, id))

\* The requested sample of the frame, or NotHere when another record has it.
NotHere == Fail("NotHere")

TakeSample(x, n, id, requested) ==
    LET index == RequestedSampleIndex(requested, HeldPeriod, GetDeviceStartTick(id),
                                      SamplePeriod(x, n, id))
        sub == SubSample(index, x.frame, Stride(x, n))
    IN IF requested >= CountOf(x, n, id) THEN Fail("InvalidIndex")
       ELSE IF ~SampleIndexInRange(index, x.frame, Stride(x, n)) THEN NotHere
       ELSE Answer([k \in 1 .. n |-> x.samples[(k - 1) * Stride(x, n) + sub + 1]])

\* The answer of the first record that has one.
FirstSample(records, n, id, requested, missing) ==
    FirstOf(records, LAMBDA x : TakeSample(x, n, id, requested) # NotHere,
            LAMBDA x : TakeSample(x, n, id, requested), missing)

-----------------------------------------------------------------------------
(* Outputs of a device, by name *)

\* GetSamples and GetSampleCount look at records with a sample per component.
IsRecordOf(x, c) ==
    /\ x.device = c.device /\ x.channel = c.id
    /\ Len(x.samples) >= Len(c.components) /\ c.components # <<>>
RecordsOf(c) == Those(heldFrame.samples[KindOf(c)], LAMBDA x : IsRecordOf(x, c))

Kinds == {"Forces", "Moments", "CentresOfPressure", "Voltages"}
HasDevices(f) ==
    /\ {"period", "devices", "starts", "channels", "samples", "trackers"} \subseteq DOMAIN f
    /\ f.period \in Nat
    /\ \A list \in {f.devices, f.starts, f.channels, f.trackers} : IsList(list)
    /\ Distinct(f.devices, Id) /\ Distinct(f.devices, LAMBDA d : AdaptDeviceName(d.name, d.id))
    /\ \A d \in Range(f.devices) : d.period \in Nat \ {0}
    /\ \A d \in Range(f.starts) : d.tick \in Nat
    /\ \A c \in Range(f.channels) :
          IsList(c.components) /\ \E d \in Range(f.devices) : d.id = c.device
    /\ Distinct(f.trackers, Id) /\ \A t \in Range(f.trackers) : t.t \in Triples

\* The records of a channel are of one size, of which the strides divide the
\* period, and of different device frames.
HasSamples(f) ==
    /\ \A kind \in Kinds :
          /\ IsList(f.samples[kind])
          /\ Distinct(f.samples[kind], LAMBDA x : <<x.device, x.channel, x.frame>>)
          /\ \A x \in Range(f.samples[kind]) : IsList(x.samples) /\ x.frame \in Nat
    /\ \A c \in Range(f.channels) : \A x, y \in Range(f.samples[KindOf(c)]) :
          IsRecordOf(x, c) /\ IsRecordOf(y, c) =>
              /\ Len(x.samples) = Len(y.samples)
              /\ \A d \in Range(f.devices) :
                    d.id = c.device => d.period % Stride(x, Len(c.components)) = 0

\* A plate has a named channel for a kind of vectors, and sends the forces with
\* the others, as many of each.
SendsForces(samples, c) ==
    LET forces == {y \in Range(samples.Forces) : y.device = c.device}
    IN \A x \in Range(samples[KindOf(c)]) : x.device = c.device =>
          IsRecordOf(x, c) /\ forces # {} /\ \A y \in forces : Len(y.samples) = Len(x.samples)
HasPlates(f) ==
    \A i, j \in DOMAIN f.channels :
        LET c == f.channels[i]
        IN IsForcePlateCoreChannel(c) =>
              /\ c.name # ""
              /\ f.channels[j].device = c.device /\ f.channels[j].name = c.name => i = j
              /\ SendsForces(f.samples, c)

ASSUME DevicesAssumption == \A f \in Frames : HasDevices(f) /\ HasSamples(f) /\ HasPlates(f)

\* All components of a device in their order: the channel and the number of
\* the component in it, and the name by which it is listed.
Outputs(channels) ==
    LET pairs == FlattenSeq([i \in DOMAIN channels |->
                     [k \in DOMAIN channels[i].components |-> [channel |-> channels[i], at |-> k]]])
    IN [i \in DOMAIN pairs |->
           [ channel |-> pairs[i].channel, at |-> pairs[i].at,
             name |-> AdaptDeviceOutputName(pairs[i].channel.components[pairs[i].at], i - 1) ]]

GetDeviceOutputCount(device) ==
    InDevice(device, LAMBDA d : Answer(Len(Outputs(ChannelsOf(d.id)))))

\* The units of force plates go by the kind of the channel, others are told.
UnitOf(c, plate) ==
    IF plate
    THEN CASE KindOf(c) = "Forces" -> "newton" [] KindOf(c) = "Moments" -> "newton meter"
           [] KindOf(c) = "CentresOfPressure" -> "meter" [] OTHER -> "volt"
    ELSE LET told == Those(heldFrame.units, LAMBDA u : u.device = c.device /\ u.channel = c.id)
         IN IF told = <<>> THEN "unknown" ELSE told[Len(told)].unit

GetDeviceOutputNameComponent(device, i) ==
    InDevice(device, LAMBDA d :
        At(Outputs(ChannelsOf(d.id)), i, LAMBDA o :
            [ output |-> o.channel.name, component |-> o.name,
              unit |-> UnitOf(o.channel, IsForcePlateDevice(d.id)) ]))

\* Without an output name all channels are searched for the component; with
\* one, the others are left out before the components are counted.
InOutput(device, output, component, Query(_)) ==
    InDevice(device, LAMBDA d :
        FirstOf(Outputs(Those(ChannelsOf(d.id), LAMBDA c : output \in {"", c.name})),
                LAMBDA o : o.name = component, Query, Fail("InvalidDeviceOutputName")))

\* A channel without components among those searched ends the search for the
\* number of subsamples, unless the component comes before it.
GetDeviceOutputSubsamples(device, output, component) ==
    LET searched(d) == Those(ChannelsOf(d.id), LAMBDA c : output \in {"", c.name})
        empty(d) == Places(searched(d), LAMBDA c : c.components = <<>>)
    IN InDevice(device, LAMBDA d :
        FirstOf(Outputs(IF empty(d) = {} THEN searched(d)
                        ELSE SubSeq(searched(d), 1, First(empty(d)) - 1)),
                LAMBDA o : o.name = component,
                LAMBDA o : LET c == o.channel
                               n == Len(c.components)
                           IN IF RecordsOf(c) = <<>> THEN Occluded
                              ELSE Answer(CountOf(RecordsOf(c)[1], n, d.id)),
                Fail(IF empty(d) = {} THEN "InvalidDeviceOutputName" ELSE "NoFrame")))

\* Vectors of a force plate are turned to the axes of the client as a whole.
GetDeviceOutputValue(device, output, component, sub) ==
    InOutput(device, output, component, LAMBDA o :
        LET c == o.channel
            s == FirstSample(RecordsOf(c), Len(c.components), c.device, sub, Occluded)
        IN IF ~Succeeds(s) THEN s
           ELSE IF IsForcePlateCoreChannel(c) THEN Answer(MappedT(s.value)[o.at])
           ELSE Answer(s.value[o.at]))

-----------------------------------------------------------------------------
(* Force plates *)

PlateDevices == Those(heldFrame.devices, LAMBDA d : IsForcePlateDevice(d.id))
GetForcePlateCount == InitGet(Answer(Len(PlateDevices)))
GetForcePlateID(i) == InitGet(At(PlateDevices, i, LAMBDA d : d.id))

InPlate(id, answer) == InitGet(IF IsForcePlateDevice(id) THEN answer ELSE Fail("InvalidIndex"))
PlateRecords(kind, id) == Those(heldFrame.samples[kind], LAMBDA x : x.device = id)
BadCount(x, n, id) == Stride(x, n) = 0 \/ GetDevicePeriod(id) % Stride(x, n) # 0

\* A search by the number of a plate ends at a record with a bad count.
TryRecord(x, n, id, sub) == IF BadCount(x, n, id) THEN Fail("Unknown") ELSE TakeSample(x, n, id, sub)

\* ForcePlateSubsamples
GetForcePlateSubsamples(id) ==
    InPlate(id, FirstOf(PlateRecords("Forces", id), LAMBDA x : TRUE,
                        LAMBDA x : IF BadCount(x, 3, id) THEN Fail("Unknown") ELSE Answer(CountOf(x, 3, id)),
                        Fail("Unknown")))

\* Variant for mutation testing: later records of the plate are not looked at.
GetForcePlateVector_First(kind, id, sub) ==
    InPlate(id, FirstOf(PlateRecords(kind, id), LAMBDA x : TRUE,
                        LAMBDA x : TryRecord(x, 3, id, sub), Fail("Unknown")))

\* GetForceVector, GetMomentVector and GetCentreOfPressure in the plate's axes
GetForcePlateVector(kind, id, sub) ==
    InPlate(id, IF GetDevicePeriod(id) = 0 THEN Fail("InvalidIndex")
                ELSE FirstOf(PlateRecords(kind, id), LAMBDA x : TryRecord(x, 3, id, sub) # NotHere,
                             LAMBDA x : TryRecord(x, 3, id, sub), Fail("Unknown")))

\* ...AtSample; without a sample the first one.
GetVectorAtSample(kind, id, sub) ==
    InForm(MappedT, GetForcePlateVector(kind, id, sub))

\* GetGlobal...AtSample: the plate is turned, and a position is moved; plates
\* are in millimetres, centres of pressure in metres.
GetGlobalVectorAtSample(kind, id, sub) ==
    LET v == GetForcePlateVector(kind, id, sub)
        Moved(plate) == [i \in 1 .. 3 |-> IF kind = "CentresOfPressure" THEN plate.t[i] \div 1000 ELSE 0]
    IN IF ~Succeeds(v) THEN v
       ELSE FirstOf(heldFrame.plates, LAMBDA plate : plate.id = id,
                    LAMBDA plate : Answer(MappedT(Plus(TimesVector(plate.r, v.value), Moved(plate)))),
                    Fail("Unknown"))

\* The first channel of a plate that is no core channel is the analog one, and
\* its records are found by the channel alone.
AnalogChannels(id) == Those(ChannelsOf(id), LAMBDA c : ~IsForcePlateCoreChannel(c))
GetNumberOfAnalogChannels(id) ==
    InPlate(id, FirstOf(AnalogChannels(id), LAMBDA c : TRUE,
                        LAMBDA c : Answer(Len(c.components)), Fail("Unknown")))

\* The analog channel has components, for the code divides by their number.  It
\* does not check i, either: from the number of analog channels on it reads on
\* behind the last of them, here a value of which nothing is said.
GetAnalogChannelVoltageAtSample(id, i, sub) ==
    InPlate(id, IF GetDevicePeriod(id) = 0 \/ AnalogChannels(id) = <<>> THEN Fail("InvalidIndex")
        ELSE LET c == AnalogChannels(id)[1]
                 n == Len(c.components)
                 s == FirstOf(Those(heldFrame.samples.Voltages, LAMBDA x : x.channel = c.id),
                              LAMBDA x : TryRecord(x, n, id, sub) # NotHere,
                              LAMBDA x : TryRecord(x, n, id, sub), Fail("Unknown"))
             IN IF Succeeds(s) THEN Answer(s.value[i + 1]) ELSE s)

-----------------------------------------------------------------------------
(* Eye trackers: worn on a segment *)

GetEyeTrackerCount == InitGet(Answer(Len(heldFrame.trackers)))
GetEyeTrackerID(i) == InitGet(At(heldFrame.trackers, i, LAMBDA t : t.id))

LastOf(list, id, Found(_), missing) ==
    FirstOf(Reverse(list), LAMBDA t : t.id = id, Found, missing)

\* Variant for mutation testing: the segment of any subject will do.
PosesWornOn_AnySubject(t) ==
    {p \in UNION {x.segments : x \in Range(heldFrame.globals)} : p.id = t.segment}

PosesWornOn(t) == Pose(heldFrame.globals, [id |-> t.subject], [id |-> t.segment])
WornOn(t, Vector(_)) ==
    IF PosesWornOn(t) = {} THEN Occluded
    ELSE Answer(MappedT(Vector(CHOOSE p \in PosesWornOn(t) : TRUE)))

GetEyeTrackerGlobalPosition(id) ==
    InitGet(LastOf(heldFrame.trackers, id, LAMBDA t :
        WornOn(t, LAMBDA p : Plus(TimesVector(p.r, t.t), p.t)), Fail("InvalidIndex")))
GetEyeTrackerGlobalGazeVector(id) ==
    InitGet(LastOf(heldFrame.trackers, id, LAMBDA t :
        LastOf(heldFrame.tracks, id,
               LAMBDA k : WornOn(t, LAMBDA p : TimesVector(Times(p.r, t.r), k.gaze)),
               Occluded),
        Fail("InvalidIndex")))
-----------------------------------------------------------------------------
\* A sample of a device belongs to the frame in which it is taken and to no
\* other, whatever the rates of the device and the stream and the tick at which
\* the device was started: a frame has as many samples as ticks of them, and
\* asked for the n-th it gives the one of the n-th tick, from whichever record.
SamplesOfTheFrame ==
    Reading => \A c \in Range(heldFrame.channels) : \A x \in Range(RecordsOf(c)) :
        LET n == Len(c.components)
            Tick(k) == TickOf(k, GetDeviceStartTick(c.device), SamplePeriod(x, n, c.device))
            taken == {k \in 0 .. HeldPeriod.second :
                          Tick(k) >= HeldPeriod.first /\ Tick(k) < HeldPeriod.second}
        IN /\ CountOf(x, n, c.device) = Cardinality(taken)
           /\ \A i \in 1 .. Stride(x, n) :
                LET k == x.frame * Stride(x, n) + i - 1
                    nth == Cardinality({j \in taken : j < k})
                IN k \in taken =>
                       FirstSample(RecordsOf(c), n, c.device, nth, Occluded)
                           = Answer([m \in 1 .. n |-> x.samples[(m - 1) * Stride(x, n) + i]])

\* A force plate tells the same by its number as by the names of its outputs,
\* two searches that the code makes by different rules: as many subsamples, and
\* the same vector at each of them, component by component.
PlatesTellTheSame ==
    Reading => \A d \in Range(PlateDevices) : \A c \in Range(ChannelsOf(d.id)) :
        LET name == AdaptDeviceName(d.name, d.id)
            count == GetForcePlateSubsamples(d.id)
            Named(k, sub) == GetDeviceOutputValue(name, c.name, c.components[k], sub)
        IN IsForcePlateCoreChannel(c) /\ RecordsOf(c) # <<>> =>
              /\ GetDeviceOutputSubsamples(name, c.name, c.components[1]) = count
              /\ \A sub \in 0 .. count.value : \A k \in 1 .. 3 :
                    LET v == GetVectorAtSample(KindOf(c), d.id, sub)
                    IN Named(k, sub) = IF Succeeds(v) THEN Answer(v.value[k])
                                       ELSE IF v = Fail("Unknown") THEN Occluded ELSE v

\* An eye tracker goes with the segment that it is worn on, as the client is
\* told its pose: in the client's axes it is at the segment's pose times its
\* own, and it is occluded when the segment is, not when another subject's is.
EyeGoesWithSegment ==
    Reading => \A t \in Range(heldFrame.trackers) :
        \A s \in Range(heldFrame.subjects) : \A g \in Range(s.segments) :
            s.id = t.subject /\ g.id = t.segment =>
                LET r == GetSegmentGlobalRotationMatrix(s.name, g.name)
                    p == GetSegmentGlobalTranslation(s.name, g.name)
                IN GetEyeTrackerGlobalPosition(t.id) =
                       IF ~Succeeds(p) THEN p
                       ELSE Answer(Plus(TimesVector(r.value, MappedT(t.t)), p.value))
=============================================================================
