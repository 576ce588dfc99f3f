--------------------------- MODULE VideoDecoding ----------------------------
(* Decoding of the video frames of colour cameras, on the stream thread.     *)
(*                                                                           *)
(* Behind each pixel of the sensor lies a filter of one colour.  The three   *)
(* decoders of VViconCGStreamBayer give a pixel of the picture the blue, the *)
(* red and the mean of the two greens of the four sensor pixels made of it,  *)
(* its right neighbour, and the two above them.  They differ in what pixel   *)
(* is what colour, by the parity of row and column.                          *)
EXTENDS Integers, Sequences

CONSTANTS SensorWidth, SensorHeight

\* The code asserts it.
ASSUME VideoDecodingAssumption ==
    SensorWidth \in Nat /\ SensorHeight \in Nat /\ SensorWidth % 2 = 0 /\ SensorHeight % 2 = 0

VARIABLES
    videoFrame,   \* the last frame: its m_Format and data, and the scene it shows
    videoHint     \* m_VideoHint: EDecode or EPassThrough

videoVars == <<videoFrame, videoHint>>

Rows == 0 .. SensorHeight - 1
Columns == 0 .. SensorWidth - 1
PixelAt(x, y) == y * SensorWidth + x + 1

-----------------------------------------------------------------------------
(* The decoders *)

\* The blue and the red of the four sensor pixels: in the line or above it, left
\* (0) or right (1), for the left one of a pair of pixels.
\* Variant for mutation testing: blue and red change places.
Corners_Swapped(format, odd) ==
    CASE format = "EBayerGB8" -> IF odd THEN [blue |-> <<"above", 0>>, red |-> <<"line", 1>>]
                                 ELSE [blue |-> <<"above", 1>>, red |-> <<"line", 0>>]
      [] format = "EBayerBG8" -> IF odd THEN [blue |-> <<"line", 0>>, red |-> <<"above", 1>>]
                                 ELSE [blue |-> <<"above", 0>>, red |-> <<"line", 1>>]
      [] format = "EBayerRG8" -> IF odd THEN [blue |-> <<"above", 1>>, red |-> <<"line", 0>>]
                                 ELSE [blue |-> <<"line", 1>>, red |-> <<"above", 0>>]

Corners(format, odd) ==
    CASE format = "EBayerGB8" -> IF odd THEN [blue |-> <<"line", 1>>, red |-> <<"above", 0>>]
                                 ELSE [blue |-> <<"above", 1>>, red |-> <<"line", 0>>]
      [] format = "EBayerBG8" -> IF odd THEN [blue |-> <<"line", 0>>, red |-> <<"above", 1>>]
                                 ELSE [blue |-> <<"above", 0>>, red |-> <<"line", 1>>]
      [] format = "EBayerRG8" -> IF odd THEN [blue |-> <<"above", 1>>, red |-> <<"line", 0>>]
                                 ELSE [blue |-> <<"line", 1>>, red |-> <<"above", 0>>]

\* BayerGBToBGR, BayerBGToBGR, BayerRGToBGR: blue, green and red of a pixel.  The
\* first row and the right edge stay black.
BayerToBGR(format, data, x, y) ==
    IF y = 0 \/ x = SensorWidth - 1 THEN <<0, 0, 0>>
    ELSE LET corners == Corners(format, y % 2 = 1)
             \* in the right one of a pair the columns change places
             Column(c) == x + (IF x % 2 = 0 THEN c ELSE 1 - c)
             Row(line) == IF line = "line" THEN y ELSE y - 1
             At(c) == data[PixelAt(Column(c[2]), Row(c[1]))]
             Across(c) == <<c[1], 1 - c[2]>>
         IN <<At(corners.blue),
              (At(Across(corners.blue)) + At(Across(corners.red))) \div 2,
              At(corners.red)>>

DecodeVideo(frame) ==
    IF frame.format \notin {"EBayerGB8", "EBayerBG8", "EBayerRG8"} THEN frame
    ELSE [frame EXCEPT
             !.format = "EBGR888",
             !.data = [p \in 1 .. SensorWidth * SensorHeight |->
                         BayerToBGR(frame.format, frame.data, (p - 1) % SensorWidth,
                                    (p - 1) \div SensorWidth)]]

-----------------------------------------------------------------------------
(* Specification *)

\* The filters of a sensor, as the comments over the decoders draw them.
ColourAt(format, x, y) ==
    LET even == x % 2 = 0
        top == y % 2 = 0
    IN CASE format = "EBayerGB8" -> IF top THEN (IF even THEN "red" ELSE "green")
                                    ELSE (IF even THEN "green" ELSE "blue")
         [] format = "EBayerBG8" -> IF top THEN (IF even THEN "green" ELSE "red")
                                    ELSE (IF even THEN "blue" ELSE "green")
         [] format = "EBayerRG8" -> IF top THEN (IF even THEN "green" ELSE "blue")
                                    ELSE (IF even THEN "red" ELSE "green")

Exposures == {"EBayerGB8", "EBayerBG8", "EBayerRG8"}

VideoInit ==
    /\ videoHint = "EPassThrough"
    /\ videoFrame = [format |-> "none", data |-> <<>>, scene |-> <<0, 0, 0>>]

\* SetVideoHint, from SetDecodeVideo of VCGClient.
SetVideoHint ==
    /\ \E hint \in {"EDecode", "EPassThrough"} : videoHint' = hint
    /\ UNCHANGED videoFrame

\* A frame of a scene of one colour is read.
ReadVideoFrame ==
    /\ \E format \in Exposures : \E blue, green, red \in {10, 20, 30} :
         LET Seen(x, y) == CASE ColourAt(format, x, y) = "blue" -> blue
                             [] ColourAt(format, x, y) = "green" -> green
                             [] ColourAt(format, x, y) = "red" -> red
             frame == [format |-> format, scene |-> <<blue, green, red>>,
                       data |-> [p \in 1 .. SensorWidth * SensorHeight |->
                                    Seen((p - 1) % SensorWidth, (p - 1) \div SensorWidth)]]
         IN videoFrame' = (IF videoHint = "EDecode" THEN DecodeVideo(frame) ELSE frame)
    /\ UNCHANGED videoHint

VideoNext == SetVideoHint \/ ReadVideoFrame

VideoSpec == VideoInit /\ [][VideoNext]_videoVars

-----------------------------------------------------------------------------
(* Properties *)

\* A scene of one colour keeps it in every pixel of a decoded frame but those of
\* the first row and of the right edge.
SceneKeepsColour ==
    videoFrame.format = "EBGR888" =>
        \A x \in Columns, y \in Rows :
            y > 0 /\ x < SensorWidth - 1 => videoFrame.data[PixelAt(x, y)] = videoFrame.scene
=============================================================================
