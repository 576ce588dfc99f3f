---------------------------- MODULE SampleIndex ----------------------------
(* The clock arithmetic by which VClient finds the samples of a device that  *)
(* belong to the frame it holds.  Frames and samples are ticks apart: frame  *)
(* n of the stream lasts from n * FramePeriod up to the next one; sample k   *)
(* of a device is taken at its start tick + k * its sample period.  The two  *)
(* need not be multiples of each other: a sample belongs to the frame in     *)
(* which it is taken, so frames have different numbers of samples.           *)
EXTENDS Naturals

\* [ start tick, end tick ) of a frame
FramePeriod(frameID, period) == [first |-> period * frameID, second |-> period * frameID + period]

\* Variant for mutation testing: the division rounds down.
GetNextSampleIndex_RoundedDown(systemTick, sampleTick, samplePeriod) ==
    IF systemTick < sampleTick THEN 0 ELSE (systemTick - sampleTick) \div samplePeriod

\* The index of the first sample that is not before a tick.
GetNextSampleIndex(systemTick, sampleTick, samplePeriod) ==
    IF systemTick < sampleTick THEN 0
    ELSE (systemTick - sampleTick + samplePeriod - 1) \div samplePeriod

GetSamplesInFrame(frame, sampleTick, samplePeriod) ==
    GetNextSampleIndex(frame.second, sampleTick, samplePeriod)
        - GetNextSampleIndex(frame.first, sampleTick, samplePeriod)

\* Samples arrive in device frames of samplesPerFrame.  The device sample that
\* is the requested one of the frame, and whether a device frame holds it.
RequestedSampleIndex(requested, frame, sampleTick, samplePeriod) ==
    requested + GetNextSampleIndex(frame.first, sampleTick, samplePeriod)
SampleIndexInRange(index, deviceFrameID, samplesPerFrame) ==
    /\ index >= deviceFrameID * samplesPerFrame
    /\ index < deviceFrameID * samplesPerFrame + samplesPerFrame
SubSample(index, deviceFrameID, samplesPerFrame) == index - deviceFrameID * samplesPerFrame
-----------------------------------------------------------------------------
TickOf(k, sampleTick, samplePeriod) == sampleTick + k * samplePeriod
=============================================================================
