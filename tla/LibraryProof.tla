---------------------------- MODULE LibraryProof ----------------------------
(* Proofs about what the client library computes: the colours of a picture   *)
(* (VideoDecoding), and the poses that the retimer predicts (RetimingCore).  *)
EXTENDS VideoDecoding, RetimingCore, SequenceTheorems, FiniteSetTheorems, TLAPS

-----------------------------------------------------------------------------
(* Pictures, for every even size of the sensor.                              *)

\* The number of rows and a rest make a number that tells both: of pixels in a
\* picture, and of full turns in an angle.
LEMMA RowAndColumn ==
  ASSUME NEW w \in Nat \ {0}, NEW x \in 0 .. w - 1, NEW y \in Int
  PROVE  (y * w + x) % w = x /\ (y * w + x) \div w = y
<1> DEFINE p == y * w + x
           q == p \div w
<1>1. y * w \in Int /\ p \in Int
  OBVIOUS
<1>2. q \in Int /\ q * w <= p /\ p < q * w + w
  BY <1>1
<1>3. p % w = p - q * w
  BY <1>1
<1> HIDE DEF q
<1>4. q = y
  <2>1. CASE q < y
    <3>1. (q + 1) * w <= y * w
      BY <1>2, <2>1
    <3>2. (q + 1) * w = q * w + w
      BY <1>2
    <3> QED
      BY <1>1, <1>2, <3>1, <3>2
  <2>2. CASE q > y
    <3>1. (y + 1) * w <= q * w
      BY <1>2, <2>2
    <3>2. (y + 1) * w = y * w + w
      OBVIOUS
    <3> QED
      BY <1>1, <1>2, <3>1, <3>2
  <2> QED
    BY <1>2, <2>1, <2>2
<1> QED
  BY <1>1, <1>3, <1>4 DEF q

LEMMA PixelPlaces ==
  ASSUME NEW x \in Columns, NEW y \in Rows
  PROVE  /\ PixelAt(x, y) \in 1 .. SensorWidth * SensorHeight
         /\ (PixelAt(x, y) - 1) % SensorWidth = x
         /\ (PixelAt(x, y) - 1) \div SensorWidth = y
<1>1. SensorWidth \in Nat \ {0} /\ SensorHeight \in Nat /\ x \in 0 .. SensorWidth - 1 /\ y \in Nat /\ y + 1 <= SensorHeight
  BY VideoDecodingAssumption DEF Columns, Rows
<1>2. \A w \in Nat \ {0} : \A h \in Nat, v \in 0 .. w - 1, u \in Nat :
        u + 1 <= h => u * w + v \in Nat /\ u * w + v + 1 \in 1 .. w * h
  <2> SUFFICES ASSUME NEW w \in Nat \ {0}, NEW h \in Nat, NEW v \in 0 .. w - 1, NEW u \in Nat, u + 1 <= h
               PROVE  u * w + v \in Nat /\ u * w + v + 1 \in 1 .. w * h
    OBVIOUS
  <2>1. u * w \in Nat /\ (u + 1) * w <= h * w /\ (u + 1) * w = u * w + w /\ h * w = w * h /\ w * h \in Nat
    OBVIOUS
  <2> QED
    BY <2>1
<1>3. y * SensorWidth + x \in Nat /\ y * SensorWidth + x + 1 \in 1 .. SensorWidth * SensorHeight
  BY <1>1, <1>2
<1>4. (y * SensorWidth + x) % SensorWidth = x /\ (y * SensorWidth + x) \div SensorWidth = y
  BY <1>1, RowAndColumn
<1>5. PixelAt(x, y) = y * SensorWidth + x + 1
  BY DEF PixelAt
<1>6. PixelAt(x, y) - 1 = y * SensorWidth + x
  BY <1>3, <1>5
<1> QED
  BY <1>3, <1>4, <1>5, <1>6

Shade(format, blue, green, red, x, y) ==
  CASE ColourAt(format, x, y) = "blue" -> blue
    [] ColourAt(format, x, y) = "green" -> green
    [] ColourAt(format, x, y) = "red" -> red
Exposed(format, blue, green, red) ==
  [p \in 1 .. SensorWidth * SensorHeight |->
     Shade(format, blue, green, red, (p - 1) % SensorWidth, (p - 1) \div SensorWidth)]

\* The data of an exposed sensor at a pixel is the light its filter lets through.
LEMMA ExposedPixel ==
  ASSUME NEW format, NEW blue, NEW green, NEW red, NEW x \in Columns, NEW y \in Rows
  PROVE  Exposed(format, blue, green, red)[PixelAt(x, y)] = Shade(format, blue, green, red, x, y)
<1>1. PixelAt(x, y) \in 1 .. SensorWidth * SensorHeight
  BY PixelPlaces
<1>2. (PixelAt(x, y) - 1) % SensorWidth = x /\ (PixelAt(x, y) - 1) \div SensorWidth = y
  BY PixelPlaces
<1> QED
  BY <1>1, <1>2 DEF Exposed

\* In each format, at each place in a square of four sensor pixels, a decoder
\* finds the blue, the red and two greens: they are four pixels next to each other.
LEMMA DecodedPixel ==
  ASSUME NEW format \in Exposures, NEW blue \in Nat, NEW green \in Nat, NEW red \in Nat,
         NEW x \in Columns, NEW y \in Rows, y > 0, x < SensorWidth - 1
  PROVE  BayerToBGR(format, Exposed(format, blue, green, red), x, y) = <<blue, green, red>>
<1> DEFINE Data(v, u) == Exposed(format, blue, green, red)[PixelAt(v, u)]
<1>1. x + 1 \in Columns /\ y - 1 \in Rows
  BY VideoDecodingAssumption DEF Columns, Rows
<1>2. x \in Nat /\ y \in Nat /\ ~(y = 0 \/ x = SensorWidth - 1)
  BY VideoDecodingAssumption DEF Columns, Rows
<1>3. /\ Data(x, y) = Shade(format, blue, green, red, x, y)
      /\ Data(x + 1, y) = Shade(format, blue, green, red, x + 1, y)
      /\ Data(x, y - 1) = Shade(format, blue, green, red, x, y - 1)
      /\ Data(x + 1, y - 1) = Shade(format, blue, green, red, x + 1, y - 1)
  BY <1>1, ExposedPixel
<1>4. /\ (x % 2 = 0 /\ (x + 1) % 2 = 1) \/ (x % 2 = 1 /\ (x + 1) % 2 = 0)
      /\ (y % 2 = 0 /\ (y - 1) % 2 = 1) \/ (y % 2 = 1 /\ (y - 1) % 2 = 0)
  BY <1>2
<1>5. (green + green) \div 2 = green
  OBVIOUS
<1>6. format \in {"EBayerGB8", "EBayerBG8", "EBayerRG8"}
  BY DEF Exposures
<1>7. CASE format = "EBayerGB8" /\ x % 2 = 0 /\ y % 2 = 0
  <2>1. /\ Data(x, y) = red /\ Data(x + 1, y) = green
        /\ Data(x, y - 1) = green /\ Data(x + 1, y - 1) = blue
    BY <1>3, <1>4, <1>7 DEF ColourAt, Shade
  <2> DEFINE b == <<"above", 1>>
             r == <<"line", 0>>
  <2>2. Corners(format, y % 2 = 1) = [blue |-> b, red |-> r]
    BY <1>7 DEF Corners
  <2>3. BayerToBGR(format, Exposed(format, blue, green, red), x, y)
          = <<Data(x + 1, y - 1), (Data(x, y - 1) + Data(x + 1, y)) \div 2, Data(x, y)>>
    BY <1>2, <1>7, <2>2 DEF BayerToBGR
  <2> QED
    BY <1>5, <2>1, <2>3
<1>8. CASE format = "EBayerGB8" /\ x % 2 = 0 /\ y % 2 = 1
  <2>1. /\ Data(x, y) = green /\ Data(x + 1, y) = blue
        /\ Data(x, y - 1) = red /\ Data(x + 1, y - 1) = green
    BY <1>3, <1>4, <1>8 DEF ColourAt, Shade
  <2> DEFINE b == <<"line", 1>>
             r == <<"above", 0>>
  <2>2. Corners(format, y % 2 = 1) = [blue |-> b, red |-> r]
    BY <1>8 DEF Corners
  <2>3. BayerToBGR(format, Exposed(format, blue, green, red), x, y)
          = <<Data(x + 1, y), (Data(x, y) + Data(x + 1, y - 1)) \div 2, Data(x, y - 1)>>
    BY <1>2, <1>8, <2>2 DEF BayerToBGR
  <2> QED
    BY <1>5, <2>1, <2>3
<1>9. CASE format = "EBayerGB8" /\ x % 2 = 1 /\ y % 2 = 0
  <2>1. /\ Data(x, y) = green /\ Data(x + 1, y) = red
        /\ Data(x, y - 1) = blue /\ Data(x + 1, y - 1) = green
    BY <1>3, <1>4, <1>9 DEF ColourAt, Shade
  <2> DEFINE b == <<"above", 1>>
             r == <<"line", 0>>
  <2>2. Corners(format, y % 2 = 1) = [blue |-> b, red |-> r]
    BY <1>9 DEF Corners
  <2>3. BayerToBGR(format, Exposed(format, blue, green, red), x, y)
          = <<Data(x, y - 1), (Data(x + 1, y - 1) + Data(x, y)) \div 2, Data(x + 1, y)>>
    BY <1>2, <1>9, <2>2 DEF BayerToBGR
  <2> QED
    BY <1>5, <2>1, <2>3
<1>10. CASE format = "EBayerGB8" /\ x % 2 = 1 /\ y % 2 = 1
  <2>1. /\ Data(x, y) = blue /\ Data(x + 1, y) = green
        /\ Data(x, y - 1) = green /\ Data(x + 1, y - 1) = red
    BY <1>3, <1>4, <1>10 DEF ColourAt, Shade
  <2> DEFINE b == <<"line", 1>>
             r == <<"above", 0>>
  <2>2. Corners(format, y % 2 = 1) = [blue |-> b, red |-> r]
    BY <1>10 DEF Corners
  <2>3. BayerToBGR(format, Exposed(format, blue, green, red), x, y)
          = <<Data(x, y), (Data(x + 1, y) + Data(x, y - 1)) \div 2, Data(x + 1, y - 1)>>
    BY <1>2, <1>10, <2>2 DEF BayerToBGR
  <2> QED
    BY <1>5, <2>1, <2>3
<1>11. CASE format = "EBayerBG8" /\ x % 2 = 0 /\ y % 2 = 0
  <2>1. /\ Data(x, y) = green /\ Data(x + 1, y) = red
        /\ Data(x, y - 1) = blue /\ Data(x + 1, y - 1) = green
    BY <1>3, <1>4, <1>11 DEF ColourAt, Shade
  <2> DEFINE b == <<"above", 0>>
             r == <<"line", 1>>
  <2>2. Corners(format, y % 2 = 1) = [blue |-> b, red |-> r]
    BY <1>11 DEF Corners
  <2>3. BayerToBGR(format, Exposed(format, blue, green, red), x, y)
          = <<Data(x, y - 1), (Data(x + 1, y - 1) + Data(x, y)) \div 2, Data(x + 1, y)>>
    BY <1>2, <1>11, <2>2 DEF BayerToBGR
  <2> QED
    BY <1>5, <2>1, <2>3
<1>12. CASE format = "EBayerBG8" /\ x % 2 = 0 /\ y % 2 = 1
  <2>1. /\ Data(x, y) = blue /\ Data(x + 1, y) = green
        /\ Data(x, y - 1) = green /\ Data(x + 1, y - 1) = red
    BY <1>3, <1>4, <1>12 DEF ColourAt, Shade
  <2> DEFINE b == <<"line", 0>>
             r == <<"above", 1>>
  <2>2. Corners(format, y % 2 = 1) = [blue |-> b, red |-> r]
    BY <1>12 DEF Corners
  <2>3. BayerToBGR(format, Exposed(format, blue, green, red), x, y)
          = <<Data(x, y), (Data(x + 1, y) + Data(x, y - 1)) \div 2, Data(x + 1, y - 1)>>
    BY <1>2, <1>12, <2>2 DEF BayerToBGR
  <2> QED
    BY <1>5, <2>1, <2>3
<1>13. CASE format = "EBayerBG8" /\ x % 2 = 1 /\ y % 2 = 0
  <2>1. /\ Data(x, y) = red /\ Data(x + 1, y) = green
        /\ Data(x, y - 1) = green /\ Data(x + 1, y - 1) = blue
    BY <1>3, <1>4, <1>13 DEF ColourAt, Shade
  <2> DEFINE b == <<"above", 0>>
             r == <<"line", 1>>
  <2>2. Corners(format, y % 2 = 1) = [blue |-> b, red |-> r]
    BY <1>13 DEF Corners
  <2>3. BayerToBGR(format, Exposed(format, blue, green, red), x, y)
          = <<Data(x + 1, y - 1), (Data(x, y - 1) + Data(x + 1, y)) \div 2, Data(x, y)>>
    BY <1>2, <1>13, <2>2 DEF BayerToBGR
  <2> QED
    BY <1>5, <2>1, <2>3
<1>14. CASE format = "EBayerBG8" /\ x % 2 = 1 /\ y % 2 = 1
  <2>1. /\ Data(x, y) = green /\ Data(x + 1, y) = blue
        /\ Data(x, y - 1) = red /\ Data(x + 1, y - 1) = green
    BY <1>3, <1>4, <1>14 DEF ColourAt, Shade
  <2> DEFINE b == <<"line", 0>>
             r == <<"above", 1>>
  <2>2. Corners(format, y % 2 = 1) = [blue |-> b, red |-> r]
    BY <1>14 DEF Corners
  <2>3. BayerToBGR(format, Exposed(format, blue, green, red), x, y)
          = <<Data(x + 1, y), (Data(x, y) + Data(x + 1, y - 1)) \div 2, Data(x, y - 1)>>
    BY <1>2, <1>14, <2>2 DEF BayerToBGR
  <2> QED
    BY <1>5, <2>1, <2>3
<1>15. CASE format = "EBayerRG8" /\ x % 2 = 0 /\ y % 2 = 0
  <2>1. /\ Data(x, y) = green /\ Data(x + 1, y) = blue
        /\ Data(x, y - 1) = red /\ Data(x + 1, y - 1) = green
    BY <1>3, <1>4, <1>15 DEF ColourAt, Shade
  <2> DEFINE b == <<"line", 1>>
             r == <<"above", 0>>
  <2>2. Corners(format, y % 2 = 1) = [blue |-> b, red |-> r]
    BY <1>15 DEF Corners
  <2>3. BayerToBGR(format, Exposed(format, blue, green, red), x, y)
          = <<Data(x + 1, y), (Data(x, y) + Data(x + 1, y - 1)) \div 2, Data(x, y - 1)>>
    BY <1>2, <1>15, <2>2 DEF BayerToBGR
  <2> QED
    BY <1>5, <2>1, <2>3
<1>16. CASE format = "EBayerRG8" /\ x % 2 = 0 /\ y % 2 = 1
  <2>1. /\ Data(x, y) = red /\ Data(x + 1, y) = green
        /\ Data(x, y - 1) = green /\ Data(x + 1, y - 1) = blue
    BY <1>3, <1>4, <1>16 DEF ColourAt, Shade
  <2> DEFINE b == <<"above", 1>>
             r == <<"line", 0>>
  <2>2. Corners(format, y % 2 = 1) = [blue |-> b, red |-> r]
    BY <1>16 DEF Corners
  <2>3. BayerToBGR(format, Exposed(format, blue, green, red), x, y)
          = <<Data(x + 1, y - 1), (Data(x, y - 1) + Data(x + 1, y)) \div 2, Data(x, y)>>
    BY <1>2, <1>16, <2>2 DEF BayerToBGR
  <2> QED
    BY <1>5, <2>1, <2>3
<1>17. CASE format = "EBayerRG8" /\ x % 2 = 1 /\ y % 2 = 0
  <2>1. /\ Data(x, y) = blue /\ Data(x + 1, y) = green
        /\ Data(x, y - 1) = green /\ Data(x + 1, y - 1) = red
    BY <1>3, <1>4, <1>17 DEF ColourAt, Shade
  <2> DEFINE b == <<"line", 1>>
             r == <<"above", 0>>
  <2>2. Corners(format, y % 2 = 1) = [blue |-> b, red |-> r]
    BY <1>17 DEF Corners
  <2>3. BayerToBGR(format, Exposed(format, blue, green, red), x, y)
          = <<Data(x, y), (Data(x + 1, y) + Data(x, y - 1)) \div 2, Data(x + 1, y - 1)>>
    BY <1>2, <1>17, <2>2 DEF BayerToBGR
  <2> QED
    BY <1>5, <2>1, <2>3
<1>18. CASE format = "EBayerRG8" /\ x % 2 = 1 /\ y % 2 = 1
  <2>1. /\ Data(x, y) = green /\ Data(x + 1, y) = red
        /\ Data(x, y - 1) = blue /\ Data(x + 1, y - 1) = green
    BY <1>3, <1>4, <1>18 DEF ColourAt, Shade
  <2> DEFINE b == <<"above", 1>>
             r == <<"line", 0>>
  <2>2. Corners(format, y % 2 = 1) = [blue |-> b, red |-> r]
    BY <1>18 DEF Corners
  <2>3. BayerToBGR(format, Exposed(format, blue, green, red), x, y)
          = <<Data(x, y - 1), (Data(x + 1, y - 1) + Data(x, y)) \div 2, Data(x + 1, y)>>
    BY <1>2, <1>18, <2>2 DEF BayerToBGR
  <2> QED
    BY <1>5, <2>1, <2>3
<1> QED
  BY <1>4, <1>6, <1>7, <1>8, <1>9, <1>10, <1>11, <1>12, <1>13, <1>14, <1>15, <1>16, <1>17, <1>18

\* The picture of a scene of one colour shows it, whatever the camera's format
\* and the size of its sensor.
LEMMA DecodedScene ==
  ASSUME NEW format \in Exposures, NEW blue \in Nat, NEW green \in Nat, NEW red \in Nat,
         NEW frame, frame = [ format |-> format, scene |-> <<blue, green, red>>,
                              data |-> Exposed(format, blue, green, red) ],
         NEW x \in Columns, NEW y \in Rows, y > 0, x < SensorWidth - 1
  PROVE  DecodeVideo(frame).data[PixelAt(x, y)] = DecodeVideo(frame).scene
<1>1. frame.format = format /\ frame.scene = <<blue, green, red>>
      /\ frame.data = Exposed(format, blue, green, red)
  OBVIOUS
<1>2. PixelAt(x, y) \in 1 .. SensorWidth * SensorHeight
  BY PixelPlaces
<1>3. (PixelAt(x, y) - 1) % SensorWidth = x /\ (PixelAt(x, y) - 1) \div SensorWidth = y
  BY PixelPlaces
<1>4. BayerToBGR(format, Exposed(format, blue, green, red), x, y) = <<blue, green, red>>
  BY ONLY format \in Exposures, blue \in Nat, green \in Nat, red \in Nat,
          x \in Columns, y \in Rows, y > 0, x < SensorWidth - 1, DecodedPixel
<1>5. format \in {"EBayerGB8", "EBayerBG8", "EBayerRG8"}
  BY DEF Exposures
<1> DEFINE picture == [p \in 1 .. SensorWidth * SensorHeight |->
                         BayerToBGR(frame.format, frame.data, (p - 1) % SensorWidth,
                                    (p - 1) \div SensorWidth)]
<1>6. picture[PixelAt(x, y)] = <<blue, green, red>>
  BY <1>1, <1>2, <1>3, <1>4
<1>7. DecodeVideo(frame) = [frame EXCEPT !.format = "EBGR888", !.data = picture]
  BY <1>1, <1>5 DEF DecodeVideo
<1> HIDE DEF picture
<1>8. DecodeVideo(frame).data = picture /\ DecodeVideo(frame).scene = frame.scene
  BY <1>7
<1> QED
  BY <1>1, <1>6, <1>8

\* Decoding keeps the colour of a scene: for every even size of the sensor.
THEOREM DecodingKeepsColour == VideoSpec => []SceneKeepsColour
<1>1. VideoInit => SceneKeepsColour
  BY DEF VideoInit, SceneKeepsColour
<1>2. SceneKeepsColour /\ [VideoNext]_videoVars => SceneKeepsColour'
  <2> SUFFICES ASSUME SceneKeepsColour, [VideoNext]_videoVars
               PROVE  SceneKeepsColour'
    OBVIOUS
  <2>1. CASE SetVideoHint \/ UNCHANGED videoVars
    BY <2>1 DEF SetVideoHint, videoVars, SceneKeepsColour
  <2>2. CASE ReadVideoFrame
    <3> DEFINE Scene(format, blue, green, red) ==
                 [ format |-> format, scene |-> <<blue, green, red>>,
                   data |-> Exposed(format, blue, green, red) ]
    <3>1. \E format \in Exposures : \E blue, green, red \in {10, 20, 30} :
            videoFrame' = (IF videoHint = "EDecode" THEN DecodeVideo(Scene(format, blue, green, red))
                           ELSE Scene(format, blue, green, red))
      BY <2>2, Zenon DEF ReadVideoFrame, Exposed, Shade
    <3>2. PICK format \in Exposures, blue \in {10, 20, 30}, green \in {10, 20, 30}, red \in {10, 20, 30} :
            videoFrame' = (IF videoHint = "EDecode" THEN DecodeVideo(Scene(format, blue, green, red))
                           ELSE Scene(format, blue, green, red))
      BY <3>1
    <3> DEFINE frame == Scene(format, blue, green, red)
    <3>3. CASE videoHint = "EDecode"
      <4>1. videoFrame' = DecodeVideo(frame)
        BY <3>2, <3>3
      <4> QED
        BY <3>2, <4>1, DecodedScene DEF SceneKeepsColour, Columns, Rows, PixelAt
    <3>4. CASE videoHint # "EDecode"
      BY <3>2, <3>4 DEF SceneKeepsColour, Exposures
    <3> QED
      BY <3>3, <3>4
  <2> QED
    BY <2>1, <2>2 DEF VideoNext
<1> QED
  BY <1>1, <1>2, PTL DEF VideoSpec

-----------------------------------------------------------------------------
(* The retimer, for any frames, subjects and settings of the clock.          *)

LEMMA OneOrTwo == \A k \in Nat : k \in 1 .. BufSize <=> 1 <= k /\ k <= 2
  BY DEF BufSize

\* Of the samples of a subject the last two are kept.
LEMMA NewestSamples ==
  ASSUME NEW S, NEW f \in Seq(S), Len(f) <= 2, NEW x \in S,
         NEW w, w = Newest(Append(f, x))
  PROVE  w \in Seq(S) /\ 1 <= Len(w) /\ Len(w) <= 2 /\ Last(w) = x
<1> DEFINE all == Append(f, x)
           m == IF Len(all) > BufSize THEN 2 ELSE 1
           n == Len(all)
<1>1. all \in Seq(S) /\ n = Len(f) + 1 /\ all[Len(f) + 1] = x
  BY AppendProperties
<1> HIDE DEF all
<1>2. Len(all) \in Nat /\ 1 <= Len(all) /\ Len(all) <= 3
  BY <1>1
<1>3. /\ n \in Int /\ m \in Int /\ 1 <= m /\ m <= n
      /\ 1 <= n - m + 1 /\ n - m + 1 <= 2
  BY <1>2 DEF BufSize
<1>4. \A i \in m .. n : all[i] \in S
  BY <1>1, <1>3
<1>5. w = SubSeq(all, m, n)
  BY DEF Newest, all
<1> HIDE DEF m, n
<1>7. /\ w \in Seq(S) /\ Len(w) = (IF m <= n THEN n - m + 1 ELSE 0)
      /\ \A i \in 1 .. n - m + 1 : w[i] = all[m + i - 1]
  BY <1>3, <1>4, <1>5, SubSeqProperties
<1>8. n - m + 1 \in 1 .. n - m + 1 /\ m + (n - m + 1) - 1 = n
  BY <1>3
<1>9. w[n - m + 1] = all[n]
  BY <1>7, <1>8
<1>10. Len(w) = n - m + 1
  BY <1>3, <1>7
<1> QED
  BY <1>1, <1>3, <1>7, <1>9, <1>10 DEF Last, n

\* What is kept of a subject that is received whole.
LEMMA KeptOfSubject ==
  ASSUME CoreInv, NEW frame \in ReceivedFrames, NEW s \in GoodIn(frame),
         NEW w, w = Newest(Append(Known(goodPoses, s), Stamped(frame[s])))
  PROVE  /\ w \in Seq(Range(w)) /\ Len(w) \in 1 .. BufSize
         /\ Last(w).time = now
         /\ \A p \in Range(w) : IsGood(p)
<1> DEFINE f == Known(goodPoses, s)
           x == Stamped(frame[s])
           G == {p \in Range(f) \cup {x} : IsGood(p)}
<1>1. s \in DOMAIN frame /\ IsReceived(frame[s]) /\ ~IsOccluded(frame[s])
  BY RetimingCoreAssumption DEF GoodIn
<1>2. /\ x.time = now /\ x.segments = frame[s].segments
      /\ x.root = frame[s].root /\ x.names = frame[s].names
  BY DEF Stamped
<1> HIDE DEF x
<1>3. IsGood(x)
  BY <1>1, <1>2 DEF IsGood, IsReceived, IsOccluded, CoreInv
<1>4. f \in Seq(Range(f)) /\ Len(f) <= 2 /\ \A p \in Range(f) : IsGood(p)
  <2>1. CASE s \in DOMAIN goodPoses
    <3>1. f = goodPoses[s]
      BY <2>1 DEF Known
    <3>2. Len(goodPoses[s]) \in 1 .. BufSize /\ goodPoses[s] \in Seq(Range(goodPoses[s]))
      BY <2>1 DEF CoreInv, SamplesEndWhenSeen
    <3>3. Len(goodPoses[s]) <= 2
      BY <3>2, OneOrTwo
    <3> QED
      BY <2>1, <3>1, <3>2, <3>3 DEF CoreInv, SamplesAreGood
  <2>2. CASE s \notin DOMAIN goodPoses
    <3>1. f = <<>>
      BY <2>2 DEF Known
    <3> QED
      BY <3>1 DEF Range, BufSize
  <2> QED
    BY <2>1, <2>2
<1>5. f \in Seq(G) /\ x \in G
  <2>1. \A i \in 1 .. Len(f) : f[i] \in G
    BY <1>4
  <2> QED
    BY <1>3, <1>4, <2>1
<1> HIDE DEF f, G
<1>6. w \in Seq(G) /\ 1 <= Len(w) /\ Len(w) <= 2 /\ Last(w) = x
  BY <1>4, <1>5, NewestSamples DEF f, x
<1>7. w \in Seq(Range(w)) /\ Range(w) \subseteq G
  BY <1>6, SeqOfRange, RangeOfSeq
<1>8. \A p \in G : IsGood(p)
  BY DEF G
<1>9. Len(w) \in 1 .. BufSize
  BY <1>6, OneOrTwo
<1> QED
  BY <1>2, <1>6, <1>7, <1>8, <1>9

\* What is predicted with Success is for the time asked for, within the limit, and
\* of samples of which no segment is occluded it has none that is.
LEMMA PredictedParts ==
  ASSUME NEW p1, NEW p2, NEW t, Predict(p1, p2, t).result = "Success"
  PROVE  /\ Predict(p1, p2, t).time = t /\ ~(t - p2.time > maxPrediction)
         /\ ~IsOccluded(p1) /\ ~IsOccluded(p2) => ~IsOccluded(Predict(p1, p2, t))
<1>1. CASE p2.time < p1.time
  BY <1>1 DEF Predict
<1>2. CASE ~(p2.time < p1.time) /\ t < p1.time
  BY <1>2 DEF Predict
<1>3. CASE ~(p2.time < p1.time) /\ ~(t < p1.time) /\ t - p2.time > maxPrediction
  BY <1>3 DEF Predict
<1>4. CASE ~(p2.time < p1.time) /\ ~(t < p1.time) /\ ~(t - p2.time > maxPrediction)
  <2> DEFINE parts == [g \in DOMAIN p1.segments \cap DOMAIN p2.segments |-> PredictSegment(p1, p2, g, t)]
  <2>1. Predict(p1, p2, t) = [result |-> "Success", time |-> t, root |-> p1.root, segments |-> parts]
    BY <1>4 DEF Predict
  <2>2. \A g \in DOMAIN parts : parts[g].occluded = (p1.segments[g].occluded \/ p2.segments[g].occluded)
    BY DEF PredictSegment
  <2>3. DOMAIN parts = DOMAIN p1.segments \cap DOMAIN p2.segments
    OBVIOUS
  <2> HIDE DEF parts
  <2>4. Predict(p1, p2, t).time = t /\ Predict(p1, p2, t).segments = parts
    BY <2>1
  <2> QED
    BY <1>4, <2>2, <2>3, <2>4 DEF IsOccluded
<1> QED
  BY <1>1, <1>2, <1>3, <1>4

LEMMA PredictedOfSubject ==
  ASSUME CoreInv, NEW s \in DOMAIN goodPoses, NEW t, PredictedAt(s, t).result = "Success"
  PROVE  /\ PredictedAt(s, t).time = t /\ ~(t - seen[s] > maxPrediction)
         /\ ~IsOccluded(PredictedAt(s, t))
<1>1. CASE Len(goodPoses[s]) < 2
  BY <1>1 DEF PredictedAt, NullPose
<1>2. CASE ~(Len(goodPoses[s]) < 2)
  <2>1. PredictedAt(s, t) = Predict(goodPoses[s][1], goodPoses[s][2], t)
    BY <1>2 DEF PredictedAt
  <2>2. Len(goodPoses[s]) \in 1 .. BufSize /\ goodPoses[s] \in Seq(Range(goodPoses[s]))
    BY DEF CoreInv, SamplesEndWhenSeen
  <2>3. Len(goodPoses[s]) = 2
    <3> DEFINE k == Len(goodPoses[s])
    <3>1. k \in Nat /\ k \in 1 .. BufSize /\ ~(k < 2)
      BY <1>2, <2>2
    <3> HIDE DEF k
    <3>2. k = 2
      BY <3>1, OneOrTwo
    <3> QED
      BY <3>2 DEF k
  <2>4. goodPoses[s][1] \in Range(goodPoses[s]) /\ goodPoses[s][2] \in Range(goodPoses[s])
    <3>1. DOMAIN goodPoses[s] = 1 .. 2
      BY <2>2, <2>3
    <3>2. 1 \in 1 .. 2 /\ 2 \in 1 .. 2
      OBVIOUS
    <3> QED
      BY <3>1, <3>2 DEF Range
  <2>5. ~IsOccluded(goodPoses[s][1]) /\ ~IsOccluded(goodPoses[s][2])
    BY <2>4 DEF CoreInv, SamplesAreGood, IsGood
  <2>6. goodPoses[s][2].time = seen[s]
    BY <2>3 DEF CoreInv, SamplesEndWhenSeen, Last
  <2> QED
    BY <2>1, <2>5, <2>6, PredictedParts
<1> QED
  BY <1>1, <1>2

LEMMA CoreInvariance == CoreSpec => []CoreInv
<1>1. CoreInit => CoreInv
  BY FS_EmptySet DEF CoreInit, CoreInv, SamplesEndWhenSeen, SamplesAreGood, PredictedIsKnown
<1>2. CoreInv /\ [CoreNext]_coreVars => CoreInv'
  <2> SUFFICES ASSUME CoreInv, [CoreNext]_coreVars
               PROVE  CoreInv'
    OBVIOUS
  <2>1. ASSUME NEW frame \in ReceivedFrames, ReceiveFrame(frame)
        PROVE  CoreInv'
    <3> DEFINE D == DOMAIN goodPoses \cup GoodIn(frame)
    <3>1. DOMAIN goodPoses' = D /\ DOMAIN seen' = D
      BY <2>1 DEF ReceiveFrame, AddData, CoreInv, SamplesEndWhenSeen
    <3>2. IsFiniteSet(D)
      <4>1. GoodIn(frame) \in SUBSET DOMAIN frame
        BY DEF GoodIn
      <4>2. IsFiniteSet(GoodIn(frame))
        BY <4>1, RetimingCoreAssumption, FS_Subset
      <4> QED
        BY <4>2, FS_Union DEF CoreInv, SamplesEndWhenSeen
    <3>3. ASSUME NEW s \in D
          PROVE  /\ goodPoses'[s] \in Seq(Range(goodPoses'[s])) /\ Len(goodPoses'[s]) \in 1 .. BufSize
                 /\ Last(goodPoses'[s]).time = seen'[s]
                 /\ \A p \in Range(goodPoses'[s]) : IsGood(p)
      <4>1. CASE s \in GoodIn(frame)
        <5>1. goodPoses'[s] = Newest(Append(Known(goodPoses, s), Stamped(frame[s])))
          BY <2>1, <3>3, <4>1 DEF ReceiveFrame, AddData
        <5>2. seen'[s] = now
          BY <2>1, <3>3, <4>1 DEF ReceiveFrame, CoreInv, SamplesEndWhenSeen
        <5> QED
          BY <4>1, <5>1, <5>2, KeptOfSubject
      <4>2. CASE s \notin GoodIn(frame)
        <5>1. s \in DOMAIN goodPoses /\ goodPoses'[s] = goodPoses[s] /\ seen'[s] = seen[s]
          BY <2>1, <3>3, <4>2 DEF ReceiveFrame, AddData, CoreInv, SamplesEndWhenSeen
        <5> QED
          BY <5>1 DEF CoreInv, SamplesEndWhenSeen, SamplesAreGood
      <4> QED
        BY <4>1, <4>2
    <3> HIDE DEF D
    <3>4. SamplesEndWhenSeen'
      BY <3>1, <3>2, <3>3 DEF SamplesEndWhenSeen
    <3>5. SamplesAreGood'
      BY <3>1, <3>3 DEF SamplesAreGood, IsGood, IsOccluded
    <3>6. PredictedIsKnown'
      BY <2>1, <3>1 DEF ReceiveFrame, CoreInv, PredictedIsKnown, IsOccluded, D
    <3>7. now' \in Nat /\ maxPrediction' = maxPrediction
      BY <2>1 DEF ReceiveFrame, CoreInv
    <3> QED
      BY <3>4, <3>5, <3>6, <3>7 DEF CoreInv
  <2>2. ASSUME NEW offset \in {-2, 0, 1}, UpdateFrameAtTime(offset)
        PROVE  CoreInv'
    <3>1. now' = now /\ maxPrediction' = maxPrediction /\ goodPoses' = goodPoses /\ seen' = seen
      BY <2>2 DEF UpdateFrameAtTime
    <3>2. DOMAIN predicted' = DOMAIN goodPoses
          /\ \A s \in DOMAIN predicted' : predicted'[s] = PredictedAt(s, now + offset)
      BY <2>2 DEF UpdateFrameAtTime
    <3>3. PredictedIsKnown'
      <4>1. ASSUME NEW s \in DOMAIN predicted', predicted'[s].result = "Success"
            PROVE  ~IsOccluded(predicted'[s])
        BY <3>2, <4>1, PredictedOfSubject
      <4> QED
        BY <3>1, <3>2, <4>1 DEF PredictedIsKnown, IsOccluded
    <3> QED
      BY <3>1, <3>3 DEF CoreInv, SamplesEndWhenSeen, SamplesAreGood, IsGood, IsOccluded
  <2>3. CASE (\E m \in Predictions : SetMaximumPrediction(m)) \/ LinkChanges \/ UNCHANGED coreVars
    <3>1. /\ now' = now /\ goodPoses' = goodPoses /\ seen' = seen /\ predicted' = predicted
          /\ maxPrediction' = maxPrediction \/ maxPrediction' \in Predictions
      BY <2>3 DEF SetMaximumPrediction, LinkChanges, coreVars
    <3> QED
      BY <3>1 DEF CoreInv, SamplesEndWhenSeen, SamplesAreGood, PredictedIsKnown, IsGood, IsOccluded
  <2>4. CASE PassTime \/ SetClockBack
    <3>1. /\ maxPrediction' = maxPrediction /\ goodPoses' = goodPoses
          /\ seen' = seen /\ predicted' = predicted
      BY <2>4 DEF PassTime, SetClockBack
    <3>2. now' \in Nat
      BY <2>4 DEF PassTime, SetClockBack, CoreInv
    <3> QED
      BY <3>1, <3>2 DEF CoreInv, SamplesEndWhenSeen, SamplesAreGood, PredictedIsKnown, IsGood, IsOccluded
  <2> QED
    BY <2>1, <2>2, <2>3, <2>4 DEF CoreNext
<1> QED
  BY <1>1, <1>2, PTL DEF CoreSpec

\* A prediction that succeeds is of a subject that was seen whole recently: also
\* after the clock was set back, and for any frames, clock and settings.
THEOREM PredictionsAreRecent == CoreSpec => RetimedIsRecent
<1> DEFINE Recent == \A s \in DOMAIN predicted' :
                        (predicted' # predicted /\ predicted'[s].result = "Success") =>
                            predicted'[s].time <= seen[s] + maxPrediction
<1>1. CoreInv /\ [CoreNext]_coreVars => Recent
  <2> SUFFICES ASSUME CoreInv, [CoreNext]_coreVars, predicted' # predicted,
                      NEW s \in DOMAIN predicted', predicted'[s].result = "Success"
               PROVE  predicted'[s].time <= seen[s] + maxPrediction
    OBVIOUS
  <2>1. PICK offset \in {-2, 0, 1} : UpdateFrameAtTime(offset)
    BY DEF CoreNext, coreVars, ReceiveFrame, SetMaximumPrediction, PassTime, SetClockBack, LinkChanges
  <2> DEFINE t == now + offset
  <2>2. s \in DOMAIN goodPoses /\ predicted'[s] = PredictedAt(s, t)
    BY <2>1 DEF UpdateFrameAtTime
  <2>3. t \in Int /\ maxPrediction \in Int
    BY RetimingCoreAssumption DEF CoreInv
  <2> HIDE DEF t
  <2>4. predicted'[s].time = t /\ ~(t - seen[s] > maxPrediction)
    BY <2>2, PredictedOfSubject
  <2>5. seen[s] \in Int
    <3> DEFINE k == Len(goodPoses[s])
    <3>1. k \in 1 .. BufSize /\ goodPoses[s] \in Seq(Range(goodPoses[s])) /\ k \in Nat
      BY <2>2 DEF CoreInv, SamplesEndWhenSeen
    <3>2. DOMAIN goodPoses[s] = 1 .. k
      BY <3>1
    <3>3. goodPoses[s][k].time = seen[s]
      BY <2>2 DEF CoreInv, SamplesEndWhenSeen, Last
    <3> HIDE DEF k
    <3>4. k \in 1 .. k
      BY <3>1, OneOrTwo
    <3>5. goodPoses[s][k] \in Range(goodPoses[s])
      BY <3>2, <3>4 DEF Range
    <3> QED
      BY <2>2, <3>3, <3>5 DEF CoreInv, SamplesAreGood, IsGood
  <2> QED
    BY <2>3, <2>4, <2>5
<1> QED
  BY <1>1, CoreInvariance, PTL DEF CoreSpec, RetimedIsRecent

\* The subjects that are listed are those that were predicted.
LEMMA ListedMembers ==
  ASSUME NEW S, IsFiniteSet(S)
  PROVE  SetToSeq(S) \in [1 .. Len(SetToSeq(S)) -> S]
<1> DEFINE n == Cardinality(S)
<1>1. n \in Nat /\ ExistsBijection(1 .. n, S)
  BY FS_CardinalityType
<1>2. \E f \in [1 .. n -> S] : IsInjective(f)
  BY <1>1 DEF ExistsBijection, Bijection, Injection, Surjection
<1>3. SetToSeq(S) \in [1 .. n -> S]
  BY <1>2 DEF SetToSeq
<1> HIDE DEF n
<1>4. Len(SetToSeq(S)) = n
  BY <1>1, <1>3
<1> QED
  BY <1>3, <1>4

LEMMA ElementOfList ==
  ASSUME NEW S, NEW f \in Seq(S), NEW i \in 0 .. Len(f) - 1
  PROVE  f[i + 1] \in S /\ ~(i >= Len(f)) /\ i + 1 \in DOMAIN f
  OBVIOUS

\* The last sample of a subject.
LEMMA NewestIsGood ==
  ASSUME CoreInv, NEW s \in DOMAIN goodPoses
  PROVE  IsGood(Last(goodPoses[s]))
<1> DEFINE k == Len(goodPoses[s])
<1>1. k \in 1 .. BufSize /\ goodPoses[s] \in Seq(Range(goodPoses[s])) /\ k \in Nat
  BY DEF CoreInv, SamplesEndWhenSeen
<1>2. DOMAIN goodPoses[s] = 1 .. k /\ Last(goodPoses[s]) = goodPoses[s][k]
  BY <1>1 DEF Last
<1> HIDE DEF k
<1>3. k \in 1 .. k
  BY <1>1, OneOrTwo
<1>4. Last(goodPoses[s]) \in Range(goodPoses[s])
  BY <1>2, <1>3 DEF Range
<1> QED
  BY <1>4 DEF CoreInv, SamplesAreGood

\* What is handed out of a subject hangs together.
LEMMA AnswersOfSubject ==
  ASSUME CoreInv, NEW s \in DOMAIN goodPoses
  PROVE  /\ Succeeds(RetimedRootName(s))
         /\ \A k \in 0 .. RetimedSegmentCount(s).value - 1 :
              LET g == RetimedSegmentName(s, k).value
              IN /\ Succeeds(RetimedParentName(s, g))
                 /\ \A c \in 0 .. RetimedChildCount(s, g).value - 1 :
                      LET child == RetimedChildName(s, g, c).value
                      IN RetimedParentName(s, child) = Answer(g)
                 /\ linked => Succeeds(RetimedStatic(s, g))
<1> DEFINE p == Last(goodPoses[s])
<1>1. IsGood(p)
  BY NewestIsGood
<1>2. RetimedRootName(s) = Answer(p.root) /\ RetimedSegmentCount(s) = Answer(Len(p.names))
  BY DEF RetimedRootName, RetimedSegmentCount, OfNewest
<1>3. \A k : RetimedSegmentName(s, k) = At(p.names, k, LAMBDA n : n)
  BY DEF RetimedSegmentName, OfNewest
<1>4. \A g \in DOMAIN p.segments :
        /\ RetimedParentName(s, g) = Answer(p.segments[g].parent)
        /\ RetimedChildCount(s, g) = Answer(Len(p.segments[g].children))
        /\ \A c : RetimedChildName(s, g, c) = At(p.segments[g].children, c, LAMBDA n : n)
        /\ linked => RetimedStatic(s, g) = Answer(p.segments[g].static)
  BY DEF RetimedParentName, RetimedChildCount, RetimedChildName, RetimedStatic, OfNewest,
         OfKnownSegment, InitRetimed
<1> HIDE DEF p
<1>5. /\ p.names \in Seq(DOMAIN p.segments)
      /\ \A g \in DOMAIN p.segments :
           /\ p.segments[g].children \in Seq(DOMAIN p.segments)
           /\ \A c \in DOMAIN p.segments[g].children :
                p.segments[p.segments[g].children[c]].parent = g
  BY <1>1 DEF IsGood, IsReceived
<1>6. \A v : Succeeds(Answer(v)) /\ Answer(v).value = v
  BY DEF Succeeds, Answer
<1>7. ASSUME NEW k \in 0 .. RetimedSegmentCount(s).value - 1, NEW g, g = RetimedSegmentName(s, k).value
      PROVE  /\ Succeeds(RetimedParentName(s, g))
             /\ \A c \in 0 .. RetimedChildCount(s, g).value - 1 :
                  LET child == RetimedChildName(s, g, c).value
                  IN RetimedParentName(s, child) = Answer(g)
             /\ linked => Succeeds(RetimedStatic(s, g))
  <2>1. k \in 0 .. Len(p.names) - 1
    BY <1>2, <1>6
  <2>2. p.names[k + 1] \in DOMAIN p.segments /\ ~(k >= Len(p.names))
    BY <1>5, <2>1, ElementOfList
  <2>3. g = p.names[k + 1]
    BY <1>3, <1>6, <1>7, <2>2 DEF At
  <2>4. ASSUME NEW c \in 0 .. RetimedChildCount(s, g).value - 1
        PROVE  RetimedParentName(s, RetimedChildName(s, g, c).value) = Answer(g)
    <3> DEFINE f == p.segments[g].children
    <3>1. c \in 0 .. Len(f) - 1 /\ f \in Seq(DOMAIN p.segments)
      BY <1>4, <1>5, <1>6, <2>2, <2>3
    <3>2. f[c + 1] \in DOMAIN p.segments /\ ~(c >= Len(f)) /\ c + 1 \in DOMAIN f
      BY <3>1, ElementOfList
    <3>3. RetimedChildName(s, g, c).value = f[c + 1]
      BY <1>4, <1>6, <2>2, <2>3, <3>2 DEF At
    <3>4. p.segments[f[c + 1]].parent = g
      BY <1>5, <2>2, <2>3, <3>2
    <3> QED
      BY <1>4, <3>2, <3>3, <3>4
  <2> QED
    BY <1>4, <1>6, <2>2, <2>3, <2>4
<1> QED
  BY <1>2, <1>6, <1>7

THEOREM AnswersHangTogether == CoreSpec => []RetimedAnswersAgree
<1>1. CoreInv => RetimedAnswersAgree
  <2> SUFFICES ASSUME CoreInv
               PROVE  RetimedAnswersAgree
    OBVIOUS
  <2>1. ASSUME NEW s \in DOMAIN predicted, predicted[s].result = "Success",
               NEW g \in DOMAIN predicted[s].segments
        PROVE  RetimedPose(s, g) # Occluded
    <3>1. ~predicted[s].segments[g].occluded
      BY <2>1 DEF CoreInv, PredictedIsKnown, IsOccluded
    <3>2. CASE ~linked
      BY <3>2 DEF RetimedPose, InitRetimed, Fail, Occluded
    <3>3. CASE linked /\ DOMAIN goodPoses = {}
      BY <3>3 DEF RetimedPose, InitRetimed, Fail, Occluded
    <3>4. CASE linked /\ DOMAIN goodPoses # {}
      <4>1. RetimedPose(s, g) = Answer(predicted[s].segments[g])
        BY <2>1, <3>1, <3>4 DEF RetimedPose, InitRetimed, OfPredicted
      <4> QED
        BY <4>1 DEF Answer, Occluded, Fail
    <3> QED
      BY <3>2, <3>3, <3>4
  <2>2. ASSUME NEW i \in 0 .. Len(Subjects) - 1
        PROVE  /\ RetimedSubjectCount = Answer(Len(Subjects))
               /\ RetimedSubjectName(i).value \in DOMAIN goodPoses
    <3>1. IsFiniteSet(DOMAIN predicted) /\ DOMAIN predicted \subseteq DOMAIN goodPoses
      BY FS_Subset DEF CoreInv, SamplesEndWhenSeen, PredictedIsKnown
    <3>2. Subjects \in [1 .. Len(Subjects) -> DOMAIN predicted]
      BY <3>1, ListedMembers DEF Subjects
    <3>3. Subjects \in Seq(DOMAIN predicted)
      <4>1. Cardinality(DOMAIN predicted) \in Nat
        BY <3>1, FS_CardinalityType
      <4> QED
        BY <3>2, <4>1 DEF Subjects
    <3>4. Subjects[i + 1] \in DOMAIN predicted /\ ~(i >= Len(Subjects))
      BY <3>3, ElementOfList
    <3>5. RetimedSubjectName(i) = Answer(Subjects[i + 1])
      BY <3>4 DEF RetimedSubjectName
    <3> QED
      BY <3>1, <3>4, <3>5 DEF Answer, RetimedSubjectCount
  <2> QED
    BY <2>1, <2>2, AnswersOfSubject DEF RetimedAnswersAgree
<1> QED
  BY <1>1, CoreInvariance, PTL

-----------------------------------------------------------------------------
(* Prediction, for all samples.                                              *)

LEMMA SmallerOfTwo ==
  ASSUME NEW a \in Int, NEW b \in Int
  PROVE  Min({a, b}) = IF a <= b THEN a ELSE b
<1> DEFINE m == IF a <= b THEN a ELSE b
<1>1. m \in {a, b} /\ \A y \in {a, b} : m <= y
  OBVIOUS
<1>2. \A x \in {a, b} : (\A y \in {a, b} : x <= y) => x = m
  OBVIOUS
<1> HIDE DEF m
<1>3. Min({a, b}) = m
  BY <1>1, <1>2 DEF Min
<1> QED
  BY <1>3 DEF m

LEMMA ModuloWholeTurns ==
  ASSUME NEW a \in Int, NEW k \in Int, NEW m \in Nat \ {0}
  PROVE  (a + k * m) % m = a % m
<1> DEFINE r == a % m
           q == a \div m
<1>1. r \in 0 .. m - 1 /\ q \in Int /\ a = q * m + r
  OBVIOUS
<1> HIDE DEF r, q
<1>2. q + k \in Int /\ q * m \in Int /\ k * m \in Int /\ (q + k) * m = q * m + k * m
  BY <1>1
<1>3. a + k * m = (q + k) * m + r
  BY <1>1, <1>2
<1>4. ((q + k) * m + r) % m = r
  BY <1>1, <1>2, RowAndColumn
<1> QED
  BY <1>3, <1>4 DEF r

\* A turn of n FullTurn-ths, with b of them left to a full one, the shorter way
\* round: its part e of D.
LEMMA PartOfTurn ==
  ASSUME NEW n \in 1 .. FullTurn - 1, NEW D \in Nat \ {0}, NEW e \in 0 .. D,
         NEW a, a = IF 2 * n > FullTurn THEN n - FullTurn ELSE n,
         NEW d, d = (a * e) % (FullTurn * D)
  PROVE  2 * Min({d, FullTurn * D - d}) <= 2 * Min({n, FullTurn - n}) * D
<1> DEFINE F == FullTurn * D
           b == FullTurn - n
           near == Min({d, F - d})
           size == 2 * Min({n, b}) * D
<1>1. F \in Nat \ {0} /\ F = 8 * D /\ n \in Int /\ b \in Int /\ b = 8 - n /\ 0 < n /\ 0 < b /\ a \in Int
  BY DEF FullTurn
<1>2. d \in 0 .. F - 1
  <2>1. a * e \in Int
    BY <1>1
  <2> QED
    BY <1>1, <2>1
<1>3. near \in Int /\ near <= d /\ near <= F - d
  <2>1. d \in Int /\ F - d \in Int
    BY <1>1, <1>2
  <2> HIDE DEF F
  <2> QED
    BY <2>1, SmallerOfTwo
<1> HIDE DEF near
<1>4. \A c \in Int : 0 <= c => c * e \in Int /\ c * D \in Int /\ 0 <= c * e /\ c * e <= c * D
  OBVIOUS
<1>5. ASSUME 2 * n > FullTurn
      PROVE  2 * near <= size
  <2>1. a = -b /\ 2 * n > 8
    BY <1>5 DEF FullTurn
  <2>2. Min({n, b}) = b
    BY <1>1, <2>1, SmallerOfTwo
  <2>3. b * e \in Int /\ b * D \in Int /\ 0 <= b * e /\ b * e <= b * D /\ b * D < F
    BY <1>1, <1>4, <2>1
  <2>4. a * e = - (b * e)
    BY <1>1, <2>1
  <2>5. size = 2 * (b * D)
    BY <1>1, <2>2
  <2> HIDE DEF size
  <2>6. CASE e = 0
    <3>1. a * e = 0 /\ 0 = 0 * F + 0 /\ 0 \in 0 .. F - 1
      BY <1>1, <2>6
    <3>2. d = 0
      BY <1>1, <3>1, RowAndColumn
    <3> QED
      BY <1>1, <1>3, <2>5, <2>3, <3>2
  <2>7. CASE e # 0
    <3>1. 0 < b * e
      BY <1>1, <2>7
    <3>2. F - b * e \in 0 .. F - 1 /\ a * e = (-1) * F + (F - b * e)
      BY <1>1, <2>3, <2>4, <3>1
    <3>3. d = F - b * e
      <4> HIDE DEF F
      <4> QED
        BY <1>1, <3>2, RowAndColumn DEF F
    <3> QED
      BY <1>1, <1>3, <2>5, <2>3, <3>3
  <2> QED
    BY <2>6, <2>7
<1>6. ASSUME ~(2 * n > FullTurn)
      PROVE  2 * near <= size
  <2>1. a = n /\ n <= b /\ n <= 4
    BY <1>6 DEF FullTurn
  <2>2. Min({n, b}) = n
    BY <1>1, <2>1, SmallerOfTwo
  <2>3. n * e \in Int /\ n * D \in Int /\ 0 <= n * e /\ n * e <= n * D /\ n * D < F
    BY <1>1, <1>4, <2>1
  <2>4. d = n * e
    BY <1>1, <2>1, <2>3
  <2>5. size = 2 * (n * D)
    BY <1>1, <2>2
  <2> HIDE DEF size
  <2>6. near <= n * D
    <3> HIDE DEF F
    <3> QED
      BY <1>3, <2>3, <2>4
  <2> QED
    BY <1>3, <2>3, <2>5, <2>6
<1> QED
  BY <1>5, <1>6 DEF near

\* The rotation predicted for a time, if the two samples have the same angle.
LEMMA StandsStill ==
  ASSUME NEW r1 \in 0 .. FullTurn - 1, NEW r2 \in 0 .. FullTurn - 1, (r2 - r1) % FullTurn = 0
  PROVE  /\ r1 = r2
         /\ \A t1, t2, t : PredictRotation(r1, t1, r2, t2, t) = [num |-> r1, den |-> 1]
<1>1. r1 = r2
  BY DEF FullTurn
<1>2. \A t1, t2, t : PredictRotation(r1, t1, r2, t2, t) = [num |-> r1, den |-> 1]
  BY DEF PredictRotation
<1> QED
  BY <1>1, <1>2

\* And otherwise: the first angle, and the part of the turn that the time has come.
LEMMA GoesOnTurning ==
  ASSUME NEW r1 \in 0 .. FullTurn - 1, NEW r2 \in 0 .. FullTurn - 1, (r2 - r1) % FullTurn # 0,
         NEW t1 \in Int, NEW t2 \in Int, t1 < t2, NEW t \in t1 .. t2,
         NEW n, n = (r2 - r1) % FullTurn,
         NEW a, a = IF 2 * n > FullTurn THEN n - FullTurn ELSE n
  PROVE  /\ n \in 1 .. FullTurn - 1 /\ a \in Int
         /\ \E k \in Int : r1 + a = r2 + k * FullTurn
         /\ PredictRotation(r1, t1, r2, t2, t)
              = [num |-> (r1 * (t2 - t1) + a * (t - t1)) % (FullTurn * (t2 - t1)), den |-> t2 - t1]
<1>1. n \in 1 .. FullTurn - 1 /\ a \in Int
  BY DEF FullTurn
<1>2. \E k \in Int : r1 + a = r2 + k * FullTurn
  <2>1. r1 + a = r2 \/ r1 + a = r2 + 8 \/ r1 + a = r2 - 8
    BY DEF FullTurn
  <2> DEFINE Whole(k) == r1 + a = r2 + k * FullTurn
  <2>2. Whole(0) \/ Whole(1) \/ Whole(-1)
    BY <2>1 DEF FullTurn
  <2> HIDE DEF Whole
  <2>3. \E k \in Int : Whole(k)
    BY <2>2
  <2> QED
    BY <2>3 DEF Whole
<1>3. PredictRotation(r1, t1, r2, t2, t)
        = [num |-> (r1 * (t2 - t1) + a * (t - t1)) % (FullTurn * (t2 - t1)), den |-> t2 - t1]
  BY DEF PredictRotation
<1> QED
  BY <1>1, <1>2, <1>3

\* A predicted rotation is the first sample's at its time and the second's at its
\* own, and between them no further away from the first than the second is.
LEMMA RotationJoins ==
  ASSUME NEW r1 \in 0 .. FullTurn - 1, NEW r2 \in 0 .. FullTurn - 1,
         NEW t1 \in Int, NEW t2 \in Int, t1 < t2, NEW t \in t1 .. t2,
         NEW q, q = PredictRotation(r1, t1, r2, t2, t),
         NEW n, n = (r2 - r1) % FullTurn,
         NEW d, d = (q.num - r1 * q.den) % (FullTurn * q.den)
  PROVE  /\ t = t1 => SameTurn(q, r1)
         /\ t = t2 => SameTurn(q, r2)
         /\ 2 * Min({d, FullTurn * q.den - d}) <= 2 * Min({n, FullTurn - n}) * q.den
<1>1. CASE n = 0
  <2>1. r1 = r2 /\ q = [num |-> r1, den |-> 1]
    BY <1>1, StandsStill
  <2>2. q.num = r1 /\ q.den = 1
    BY <2>1
  <2>3. SameTurn(q, r1) /\ SameTurn(q, r2)
    BY <2>1, <2>2 DEF SameTurn, FullTurn
  <2>4. d = 0
    BY <2>2 DEF FullTurn
  <2>5. Min({0, 8}) = 0
    BY SmallerOfTwo
  <2> QED
    BY <1>1, <2>2, <2>3, <2>4, <2>5 DEF FullTurn
<1>2. CASE n # 0
  <2> DEFINE D == t2 - t1
             F == FullTurn * D
             e == t - t1
             a == IF 2 * n > FullTurn THEN n - FullTurn ELSE n
  <2>1. /\ n \in 1 .. FullTurn - 1 /\ a \in Int
        /\ \E k \in Int : r1 + a = r2 + k * FullTurn
        /\ q = [num |-> (r1 * D + a * e) % F, den |-> D]
    BY <1>2, GoesOnTurning
  <2>2. D \in Nat \ {0} /\ F \in Nat \ {0} /\ e \in 0 .. D /\ r1 \in Int /\ r2 \in Int
    BY DEF FullTurn
  <2> HIDE DEF a
  <2>3. q.num = (r1 * D + a * e) % F /\ q.den = D
    BY <2>1
  <2>4. t = t1 => SameTurn(q, r1)
    <3>1. t = t1 => a * e = 0 /\ r1 * D + 0 = r1 * D
      BY <2>1, <2>2
    <3> QED
      BY <2>3, <3>1 DEF SameTurn
  <2>5. t = t2 => SameTurn(q, r2)
    <3> SUFFICES ASSUME t = t2
                 PROVE  SameTurn(q, r2)
      OBVIOUS
    <3>1. PICK k \in Int : r1 + a = r2 + k * FullTurn
      BY <2>1
    <3>2. r1 * D + a * D = (r1 + a) * D /\ (r2 + k * FullTurn) * D = r2 * D + k * F
      BY <2>1, <2>2 DEF FullTurn
    <3>3. (r2 * D + k * F) % F = (r2 * D) % F
      <4>1. r2 * D \in Int
        BY <2>2
      <4> HIDE DEF F
      <4> QED
        BY <2>2, <4>1, ModuloWholeTurns
    <3> QED
      BY <2>3, <3>1, <3>2, <3>3 DEF SameTurn
  <2>6. d = (a * e) % F
    <3> DEFINE s == r1 * D + a * e
    <3>1. r1 * D \in Int /\ a * e \in Int /\ s \in Int
      BY <2>1, <2>2
    <3>2. d = ((s % F) - r1 * D) % F
      BY <2>3
    <3> HIDE DEF s, F, D, e
    <3>3. s \div F \in Int /\ (s % F) = s - (s \div F) * F
      BY <2>2, <3>1
    <3> DEFINE j == -(s \div F)
    <3>4. j \in Int /\ (s % F) - r1 * D = a * e + j * F
      <4>1. (s \div F) * F \in Int /\ j * F = - ((s \div F) * F)
        BY <2>2, <3>3
      <4> QED
        BY <2>2, <3>1, <3>3, <4>1 DEF s
    <3> HIDE DEF j
    <3> QED
      BY <2>2, <3>1, <3>2, <3>3, <3>4, ModuloWholeTurns
  <2> QED
    BY <2>1, <2>2, <2>3, <2>4, <2>5, <2>6, PartOfTurn DEF a
<1> QED
  BY <1>1, <1>2

LEMMA PlaceJoins ==
  ASSUME NEW d1 \in Int, NEW d2 \in Int, NEW t1 \in Int, NEW t2 \in Int
  PROVE  /\ Same(PredictVal(d1, t1, d2, t2, t1), d1)
         /\ Same(PredictVal(d1, t1, d2, t2, t2), d2)
<1> DEFINE D == t2 - t1
<1>1. D \in Int /\ t1 - t1 = 0 /\ (d2 - d1) * 0 = 0 /\ d1 * D \in Int /\ d2 * D \in Int
      /\ d1 * D + (d2 - d1) * D = d2 * D
  OBVIOUS
<1>2. d1 * D + 0 = d1 * D
  BY <1>1
<1> QED
  BY <1>1, <1>2 DEF PredictVal, Same

LEMMA SegmentJoins ==
  ASSUME NEW p1, NEW p2, IsGood(p1), IsGood(p2), p1.time < p2.time,
         NEW g \in DOMAIN p1.segments \cap DOMAIN p2.segments,
         NEW t \in p1.time .. p2.time,
         NEW q, q = PredictSegment(p1, p2, g, t),
         NEW d, d = (q.r.num - p1.segments[g].r * q.r.den) % (FullTurn * q.r.den),
         NEW n, n = (p2.segments[g].r - p1.segments[g].r) % FullTurn
  PROVE  /\ t = p1.time => Same(q.t, p1.segments[g].t) /\ SameTurn(q.r, p1.segments[g].r)
         /\ t = p2.time => Same(q.t, p2.segments[g].t) /\ SameTurn(q.r, p2.segments[g].r)
         /\ 2 * Min({d, FullTurn * q.r.den - d}) <= 2 * Min({n, FullTurn - n}) * q.r.den
<1> DEFINE s1 == p1.segments[g]
           s2 == p2.segments[g]
<1>1. /\ s1.t \in Int /\ s2.t \in Int /\ p1.time \in Int /\ p2.time \in Int
      /\ s1.r \in 0 .. FullTurn - 1 /\ s2.r \in 0 .. FullTurn - 1
  BY DEF IsGood, IsReceived
<1>2. /\ q.t = PredictVal(s1.t, p1.time, s2.t, p2.time, t)
      /\ q.r = PredictRotation(s1.r, p1.time, s2.r, p2.time, t)
  BY DEF PredictSegment
<1> HIDE DEF s1, s2
<1>3. /\ t = p1.time => Same(q.t, s1.t)
      /\ t = p2.time => Same(q.t, s2.t)
  BY <1>1, <1>2, PlaceJoins
<1> DEFINE r == q.r
<1>4. d = (r.num - s1.r * r.den) % (FullTurn * r.den) /\ n = (s2.r - s1.r) % FullTurn
  BY DEF s1, s2
<1> HIDE DEF r
<1>5. r = PredictRotation(s1.r, p1.time, s2.r, p2.time, t)
  BY <1>2 DEF r
<1>6. /\ t = p1.time => SameTurn(r, s1.r)
      /\ t = p2.time => SameTurn(r, s2.r)
      /\ 2 * Min({d, FullTurn * r.den - d}) <= 2 * Min({n, FullTurn - n}) * r.den
  BY <1>1, <1>4, <1>5, RotationJoins
<1> QED
  BY <1>3, <1>6 DEF r, s1, s2

\* Predictions join the samples they are made from, for all samples that are
\* received, at all times between them.
THEOREM PredictionsJoin == CoreSpec => []PredictionJoinsSamples
<1>1. CoreInv => PredictionJoinsSamples
  <2> SUFFICES ASSUME CoreInv, NEW s \in DOMAIN goodPoses, Len(goodPoses[s]) = 2,
                      NEW p1, p1 = goodPoses[s][1], NEW p2, p2 = goodPoses[s][2],
                      p1.time < p2.time,
                      NEW g \in DOMAIN p1.segments \cap DOMAIN p2.segments
               PROVE  LET From(t) == PredictSegment(p1, p2, g, t)
                          Turned(t) == LET d == (From(t).r.num - p1.segments[g].r * From(t).r.den)
                                                 % (FullTurn * From(t).r.den)
                                       IN 2 * Min({d, FullTurn * From(t).r.den - d})
                          limit(t) == LET d == (p2.segments[g].r - p1.segments[g].r) % FullTurn
                                      IN 2 * Min({d, FullTurn - d}) * From(t).r.den
                      IN /\ Same(From(p1.time).t, p1.segments[g].t) /\ Same(From(p2.time).t, p2.segments[g].t)
                         /\ SameTurn(From(p1.time).r, p1.segments[g].r) /\ SameTurn(From(p2.time).r, p2.segments[g].r)
                         /\ \A t \in p1.time .. p2.time : Turned(t) <= limit(t)
    BY DEF PredictionJoinsSamples
  <2>1. IsGood(p1) /\ IsGood(p2)
    <3>1. goodPoses[s] \in Seq(Range(goodPoses[s]))
      BY DEF CoreInv, SamplesEndWhenSeen
    <3>2. DOMAIN goodPoses[s] = 1 .. 2 /\ 1 \in 1 .. 2 /\ 2 \in 1 .. 2
      BY <3>1
    <3> QED
      BY <3>2 DEF Range, CoreInv, SamplesAreGood
  <2>2. p1.time \in p1.time .. p2.time /\ p2.time \in p1.time .. p2.time
    BY <2>1 DEF IsGood
  <2>3. ASSUME NEW t \in p1.time .. p2.time, NEW q, q = PredictSegment(p1, p2, g, t)
        PROVE  /\ t = p1.time => Same(q.t, p1.segments[g].t) /\ SameTurn(q.r, p1.segments[g].r)
               /\ t = p2.time => Same(q.t, p2.segments[g].t) /\ SameTurn(q.r, p2.segments[g].r)
    <3> DEFINE d == (q.r.num - p1.segments[g].r * q.r.den) % (FullTurn * q.r.den)
               n == (p2.segments[g].r - p1.segments[g].r) % FullTurn
    <3>1. d = (q.r.num - p1.segments[g].r * q.r.den) % (FullTurn * q.r.den)
          /\ n = (p2.segments[g].r - p1.segments[g].r) % FullTurn
      OBVIOUS
    <3> HIDE DEF d, n
    <3> QED
      BY <2>1, <2>3, <3>1, SegmentJoins
  <2>4. \A t \in p1.time .. p2.time :
          LET q == PredictSegment(p1, p2, g, t)
              d == (q.r.num - p1.segments[g].r * q.r.den) % (FullTurn * q.r.den)
              n == (p2.segments[g].r - p1.segments[g].r) % FullTurn
          IN 2 * Min({d, FullTurn * q.r.den - d}) <= 2 * Min({n, FullTurn - n}) * q.r.den
    BY <2>1, SegmentJoins
  <2> QED
    BY <2>2, <2>3, <2>4
<1> QED
  BY <1>1, CoreInvariance, PTL
=============================================================================
