----------------------------- MODULE WireItems ------------------------------
(* The items of the CG stream: one definition per class of                   *)
(* ViconCGStream, with its identifier, the member its FilterID returns (0:   *)
(* none) and the types of its members in the order they are written and read.*)
EXTENDS WireFormat

Objects == 439025665
Item(enum, filter, members) == [enum |-> enum, filter |-> filter, members |-> members]

-----------------------------------------------------------------------------
(* What items are made of *)

VGreyscaleBlobs_GreyscaleLine == Class(<<Vector(UInt8), Array(Int16, 2)>>)
VReconRay == Class(<<UInt32, UInt32, UInt32>>)
VCameraCalibrationHealth_Camera == Class(<<UInt32, Double, Double, Double, Double, Double>>)
VCameraWand2d_Point == Class(<<Array(Double, 2)>>)
VCameraWand3d_Point == Class(<<Array(Double, 3)>>)
VCentroidTracks_CentroidTrack == Class(<<UInt32, UInt64, UInt32, Float>>)
VCentroids_Centroid == Class(<<Array(Double, 2), Double, Double>>)
VEdgePairs_EdgePair == Class(<<Array(Int16, 2), UInt16>>)
VGlobalSegments_Segment == Class(<<UInt32, Array(Double, 3), Array(Double, 9)>>)
VGreyscaleBlobs_GreyscaleBlob == Class(<<Vector(VGreyscaleBlobs_GreyscaleLine)>>)
VLabeledRecons_LabeledRecon == Class(<<UInt32, UInt32, Double, Array(Double, 3),
          Array(Double, 9), UInt32>>)
VLatencyInfo_Sample == Class(<<String, Double>>)
VLightweightSegments_Segment == Class(<<UInt32, Array(Float, 3), Array(Float, 3)>>)
VLocalSegments_Segment == Class(<<UInt32, Array(Double, 3), Array(Double, 9)>>)
VReconRayAssignments == Class(<<UInt32, UInt32, Vector(VReconRay)>>)
VSubjectInfo_Segment == Class(<<UInt32, UInt32, Array(Float, 6), String>>)
VSubjectInfo_Marker == Class(<<UInt32, String>>)
VSubjectInfo_Attachment == Class(<<UInt32, UInt32>>)
VSubjectScale_Segment == Class(<<UInt32, Array(Double, 3)>>)
VSubjectTopology_Segment == Class(<<UInt32, Array(Double, 3), Array(Double, 9)>>)
VUnlabeledRecons_UnlabeledRecon == Class(<<Double, Array(Double, 3), Array(Double, 9),
          UInt32>>)

-----------------------------------------------------------------------------
(* Items *)

VApexHaptics == Item(35, 0, <<Set(UInt32)>>)
VApplicationInfo == Item(37, 0, <<Char>>)
VCameraCalibrationHealth == Item(27, 0, <<Double, Vector(VCameraCalibrationHealth_Camera)>>)
VCameraCalibrationInfo == Item(19, 1, <<UInt32, Array(Double, 3), Array(Double, 9),
          Array(Double, 2), Array(Double, 2), Double, Double, Double>>)
VCameraInfo == Item(14, 1, <<UInt32, UInt64, String, String, String, UInt32, UInt32,
          Double, Double, Bool, Bool, UInt32, Double>>)
VCameraSensorInfo == Item(1401, 1, <<UInt32, String, UInt32, UInt32, UInt32, UInt32,
          UInt32, UInt32, UInt32, UInt32>>)
VCameraTimingInfo == Item(65001, 1, <<UInt32, UInt64, Int64>>)
VCameraWand2d == Item(30, 1, <<UInt32, UInt32, Vector(VCameraWand2d_Point), UInt32, Bool>>)
VCameraWand3d == Item(31, 1, <<UInt32, Vector(VCameraWand3d_Point), UInt32, Bool>>)
VCentreOfPressureFrame == Item(12, 2, <<UInt32, UInt32, UInt32, Vector(Float)>>)
VCentroidTracks == Item(15, 2, <<UInt32, UInt32, Vector(VCentroidTracks_CentroidTrack)>>)
VCentroidWeights == Item(41, 2, <<UInt32, UInt32, Vector(Float)>>)
VCentroids == Item(16, 2, <<UInt32, UInt32, Vector(VCentroids_Centroid)>>)
VChannelInfo == Item(4, 1, <<UInt32, UInt32, String, Vector(String)>>)
VChannelInfoExtra == Item(34, 1, <<UInt32, UInt32, String, String>>)
VContents == Item(100004, 0, <<Map(Enum, UInt32), Set(Enum)>>)
VDeviceInfo == Item(3, 1, <<UInt32, UInt64, String>>)
VDeviceInfoExtra == Item(38, 1, <<UInt32, UInt64>>)
VEdgePairs == Item(18, 2, <<UInt32, UInt32, Vector(VEdgePairs_EdgePair)>>)
VEyeTrackerFrame == Item(32, 2, <<UInt32, UInt32, Array(Float, 3)>>)
VEyeTrackerInfo == Item(33, 1, <<UInt32, UInt32, UInt32, Array(Float, 3), Array(Float, 9)>>)
VForceFrame == Item(10, 2, <<UInt32, UInt32, UInt32, Vector(Float)>>)
VForcePlateInfo == Item(20, 1, <<UInt32, Array(Float, 3), Array(Float, 9), Array(Float, 6),
          Array(Float, 3), Array(Float, 9)>>)
VFrameInfo == Item(5, 0, <<UInt32>>)
VFrameRateInfo == Item(39, 0, <<Map(String, Double)>>)
VGlobalSegments == Item(9, 1, <<UInt32, Vector(VGlobalSegments_Segment)>>)
VHardwareFrameInfo == Item(36, 0, <<UInt32>>)
VKeepAlive == Item(100003, 0, <<>>)
VLabeledReconRayAssignments == Item(25, 0, <<Vector(VReconRayAssignments)>>)
VLabeledRecons == Item(6, 0, <<Vector(VLabeledRecons_LabeledRecon)>>)
VLatencyInfo == Item(26, 0, <<Vector(VLatencyInfo_Sample)>>)
VLightweightSegments == Item(901, 1, <<UInt32, Vector(VLightweightSegments_Segment)>>)
VLocalSegments == Item(8, 1, <<UInt32, Vector(VLocalSegments_Segment)>>)
VMomentFrame == Item(11, 2, <<UInt32, UInt32, UInt32, Vector(Float)>>)
VObjectEnums == Item(100001, 0, <<Set(Enum)>>)
VObjectQuality == Item(40, 1, <<UInt32, Double>>)
VPing == Item(42, 0, <<UInt64>>)
VRequestFrame == Item(100002, 0, <<Bool>>)
VStartMulticastSender == Item(100005, 0, <<UInt32, UInt32, UInt16>>)
VStopMulticastSender == Item(100006, 0, <<>>)
VStreamInfo == Item(1, 0, <<Int64>>)
VSubjectHealth == Item(29, 1, <<UInt32, Double, Double>>)
VSubjectInfo == Item(2, 1, <<UInt32, String, Vector(VSubjectInfo_Segment),
          Vector(VSubjectInfo_Marker), Vector(VSubjectInfo_Attachment)>>)
VSubjectScale == Item(28001, 1, <<UInt32, Vector(VSubjectScale_Segment)>>)
VSubjectTopology == Item(28, 1, <<UInt32, Vector(VSubjectTopology_Segment)>>)
VUnlabeledReconRayAssignments == Item(24, 0, <<Vector(VReconRayAssignments)>>)
VUnlabeledRecons == Item(7, 0, <<Vector(VUnlabeledRecons_UnlabeledRecon)>>)
VVideoFrame == Item(22, 2, <<UInt32, UInt32, Array(Int16, 2), UInt16, UInt16, UInt32,
          Vector(UInt8)>>)
VVoltageFrame == Item(13, 2, <<UInt32, UInt32, UInt32, Vector(Float)>>)
VTimecode == Item(23, 0, <<UInt8, UInt8, UInt8, UInt8, UInt16, UInt16, UInt32, UInt32,
          UInt8>>)
VRequestNextFrame == Item(100008, 0, <<UInt32>>)
VGreyscaleBlobs == Item(17, 2, <<UInt32, UInt32, Vector(VGreyscaleBlobs_GreyscaleBlob)>>)
VGreyscaleSubsampledBlobs == Item(1701, 2, <<UInt32, UInt32, UInt16, UInt16, UInt8, UInt8,
          Vector(VGreyscaleBlobs_GreyscaleBlob)>>)
VFilter == Item(100007, 0, <<Map(Enum, Set(UInt32))>>)

-----------------------------------------------------------------------------
(* Blocks of items *)

\* VScopedWriter::Write of an item.
ItemBlock(class, value) == Block(class.enum, WriteValue(Class(class.members), value))

ReadItem(class, buffer, offset) == ReadMembers(class.members, <<>>, buffer, offset)

FilterID(class, value) == value[class.filter]

\* VFilter::Allow, for a filter as it is written: identifiers by class.
Allow(filter, class, value) ==
    UInt32Bytes(class.enum) \in DOMAIN filter =>
        /\ class.filter # 0
        /\ FilterID(class, value) \in filter[UInt32Bytes(class.enum)]
=============================================================================
