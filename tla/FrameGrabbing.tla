----------------------------- MODULE FrameGrabbing -----------------------------
(* The main thread of the vicon_bridge node: connecting, choosing the stream *)
(* mode, grabbing frames, accounting for the frames that were missed, asking *)
(* for markers while somebody listens to them, and shutting down.  What is   *)
(* done with the poses of a frame is in ViconBridge.                         *)
(*                                                                           *)
(* The server is external: it captures frames, may set its count back (a     *)
(* reset of the cameras, or a recording that is played again) and may be     *)
(* lost.  GetFrame succeeds, or fails when it times out or the connection is *)
(* lost; StreamModes says when.  A frame is its number and the run of the    *)
(* count it belongs to.  The asserts of the node are compiled in.            *)
EXTENDS Integers, FiniteSets, FiniteSetsExt

CONSTANTS MaxFrameNumber,  \* the last frame of each run
          Word             \* unsigned int counts modulo this

ASSUME FrameGrabbingAssumption == MaxFrameNumber \in Nat /\ Word \in Nat \ {0}

VARIABLES ok,                  \* ros::ok
          at,                  \* where the main thread is
          bridgeLink,          \* "none", "up" or "lost"
          latestHeld,                \* the latest frame of vicon_client_
          lastFrameNumber, frameCount, droppedFrameCount,
          subscribed,          \* marker_pub_ has subscribers
          marker_data_enabled, \* with unlabeled_marker_data_enabled
          captured,            \* the server's latest frame
          taken,               \* the frames that process_frame was given
          posed                \* the latest frame whose poses were published

accountVars == <<lastFrameNumber, frameCount, droppedFrameCount, taken, posed>>
markerVars == <<subscribed, marker_data_enabled>>
bridgeVars == <<ok, at, bridgeLink, latestHeld, accountVars, markerVars, captured>>

BridgeInit ==
    /\ ok = TRUE
    /\ at = "connect"
    /\ bridgeLink = "none"
    /\ latestHeld = [run |-> 1, number |-> 0]
    /\ lastFrameNumber = 0 /\ frameCount = 0 /\ droppedFrameCount = 0
    /\ subscribed = FALSE /\ marker_data_enabled = FALSE
    /\ captured = [run |-> 1, number |-> 1]
    /\ taken = {} /\ posed = latestHeld

-----------------------------------------------------------------------------
(* The node.  init_vicon tries until it is connected or the node is to stop. *)

TryConnect ==
    /\ at = "connect" /\ bridgeLink # "up"
    /\ bridgeLink' \in {"none", "up"}
    /\ at' = IF ok THEN "connect" ELSE "shutdown"
    /\ UNCHANGED <<ok, latestHeld, accountVars, markerVars, captured>>

IsConnectedNow ==
    /\ at = "connect" /\ bridgeLink = "up"
    /\ at' = "mode"
    /\ UNCHANGED <<ok, bridgeLink, latestHeld, accountVars, markerVars, captured>>

\* An unknown stream mode stops the node, which goes on until it grabs.  The
\* segment data that is asked for must be enabled: asserted.
InitVicon ==
    /\ at = "mode"
    /\ \E known \in BOOLEAN : ok' = (ok /\ known)
    /\ at' = IF bridgeLink = "up" THEN "grab" ELSE "aborted"
    /\ UNCHANGED <<bridgeLink, latestHeld, accountVars, markerVars, captured>>

\* The outer loop of grabThread, and the return to main when it ends.
GrabThread ==
    /\ at = "grab"
    /\ at' = IF ok THEN "fetch" ELSE "shutdown"
    /\ UNCHANGED <<ok, bridgeLink, latestHeld, accountVars, markerVars, captured>>

GetFrameSucceeds ==
    /\ at = "fetch" /\ bridgeLink = "up"
    /\ latestHeld' = captured
    /\ at' = "process"
    /\ UNCHANGED <<ok, bridgeLink, accountVars, markerVars, captured>>

\* The inner loop tries again, unless the node is to stop: then the frame it
\* has is processed once more.
GetFrameFails ==
    /\ at = "fetch"
    /\ at' = IF ok THEN "fetch" ELSE "process"
    /\ UNCHANGED <<ok, bridgeLink, latestHeld, accountVars, markerVars, captured>>

GetFrameNumber == IF bridgeLink = "up" THEN latestHeld.number ELSE 0

\* Variant for mutation testing: a number that went back counts as no change.
FrameDiff_Clipped == IF GetFrameNumber > lastFrameNumber /\ lastFrameNumber # 0
                     THEN GetFrameNumber - lastFrameNumber ELSE 0

\* Signed, although the numbers are not; zero for the first frame.
FrameDiff == IF lastFrameNumber = 0 THEN 0 ELSE GetFrameNumber - lastFrameNumber

\* Variant for mutation testing: only the frame that follows is a new one.
IsNewFrame_Next == FrameDiff = 1

IsNewFrame == FrameDiff # 0

\* process_frame up to the markers.
ProcessFrame ==
    /\ at = "process"
    /\ lastFrameNumber' = GetFrameNumber
    /\ frameCount' = (frameCount + FrameDiff) % Word
    /\ droppedFrameCount' = (droppedFrameCount + IF FrameDiff > 1 THEN FrameDiff ELSE 0) % Word
    /\ taken' = IF bridgeLink = "up" THEN taken \cup {latestHeld} ELSE taken
    /\ posed' = IF IsNewFrame /\ bridgeLink = "up" THEN latestHeld ELSE posed
    /\ at' = IF IsNewFrame THEN "markers" ELSE "grab"
    /\ UNCHANGED <<ok, bridgeLink, latestHeld, markerVars, captured>>

\* Markers are asked for with the first subscriber, for good; asserted.
ProcessMarkers ==
    /\ at = "markers"
    /\ LET refused == subscribed /\ ~marker_data_enabled /\ bridgeLink # "up"
       IN /\ at' = IF refused THEN "aborted" ELSE "grab"
          /\ marker_data_enabled' = (marker_data_enabled \/ (subscribed /\ ~refused))
    /\ UNCHANGED <<ok, bridgeLink, latestHeld, accountVars, subscribed, captured>>

\* The destructor.
ShutdownVicon ==
    /\ at = "shutdown"
    /\ bridgeLink' = "none"
    /\ at' = "ended"
    /\ UNCHANGED <<ok, latestHeld, accountVars, markerVars, captured>>

MainThread ==
    \/ TryConnect \/ IsConnectedNow \/ InitVicon
    \/ GrabThread \/ GetFrameSucceeds \/ GetFrameFails
    \/ ProcessFrame \/ ProcessMarkers
    \/ ShutdownVicon

-----------------------------------------------------------------------------
(* Its surroundings *)

RosShutdown ==
    /\ ok
    /\ ok' = FALSE
    /\ UNCHANGED <<at, bridgeLink, latestHeld, accountVars, markerVars, captured>>

MarkerSubscribers ==
    /\ subscribed' = ~subscribed
    /\ UNCHANGED <<ok, at, bridgeLink, latestHeld, accountVars, marker_data_enabled, captured>>

ViconCaptures ==
    /\ captured.number < MaxFrameNumber
    /\ captured' = [captured EXCEPT !.number = @ + 1]
    /\ UNCHANGED <<ok, at, bridgeLink, latestHeld, accountVars, markerVars>>

\* Once at most.
ViconCountsAnew ==
    /\ captured.run = 1
    /\ captured' = [run |-> 2, number |-> 1]
    /\ UNCHANGED <<ok, at, bridgeLink, latestHeld, accountVars, markerVars>>

ViconIsLost ==
    /\ bridgeLink = "up"
    /\ bridgeLink' = "lost"
    /\ UNCHANGED <<ok, at, latestHeld, accountVars, markerVars, captured>>

BridgeNext ==
    \/ MainThread
    \/ RosShutdown \/ MarkerSubscribers
    \/ ViconCaptures \/ ViconCountsAnew \/ ViconIsLost

BridgeSpec == BridgeInit /\ [][BridgeNext]_bridgeVars

-----------------------------------------------------------------------------
NumbersOf(r) == { f.number : f \in { g \in taken : g.run = r } }
FirstNumber == Min(NumbersOf(IF NumbersOf(1) # {} THEN 1 ELSE 2))

\* Frames that were never grabbed, and those that came after such a gap.
Missed(numbers) == (Min(numbers) .. Max(numbers)) \ numbers
AfterGap(numbers) == { n \in numbers : n - 1 \in Missed(numbers) }

\* What the diagnostics report: framecount is the distance from the first frame
\* to the last, across a count that was set back and, with frames lost on
\* the way, across gaps.  While the count has run on, "dropped frames" are
\* the frames missed and, once for each gap, the frame that came after it.
AccountsAddUp ==
    taken # {} =>
        /\ frameCount = (lastFrameNumber - FirstNumber) % Word
        /\ NumbersOf(2) = {} =>
             droppedFrameCount =
               (Cardinality(Missed(NumbersOf(1))) + Cardinality(AfterGap(NumbersOf(1)))) % Word

\* The node gets on.  Whatever frames are lost, the poses of a frame that the
\* server has captured after the node's last one are published, or those of a
\* later frame, as long as the connection lasts and the count is not set back.
\* And a node that is told to stop stops, in whatever state the connection is: it
\* ends, or was aborted by an assert on a connection that it had just lost.
NodeProgresses ==
    /\ \A n \in 1 .. MaxFrameNumber :
        ( /\ ok /\ bridgeLink = "up"
          /\ lastFrameNumber # 0 /\ lastFrameNumber < n
          /\ captured = [run |-> 1, number |-> n] )
        ~> (posed.number >= n \/ ~ok \/ bridgeLink # "up" \/ captured.run = 2)
    /\ ~ok ~> (at \in {"ended", "aborted"})

-----------------------------------------------------------------------------
(* The inductive invariant behind AccountsAddUp *)

BridgeTypeOK ==
    /\ at \in {"connect", "mode", "grab", "fetch", "process", "markers", "shutdown",
               "ended", "aborted"}
    /\ bridgeLink \in {"none", "up", "lost"}
    /\ captured \in [run : {1, 2}, number : Nat \ {0}]
    /\ latestHeld \in [run : {1, 2}, number : Nat]
    /\ taken \subseteq [run : {1, 2}, number : Nat]
    /\ lastFrameNumber \in Nat
    /\ frameCount \in 0 .. Word - 1 /\ droppedFrameCount \in 0 .. Word - 1

\* The server has captured frame f when it captures g, or before.
NotAfter(f, g) == f.run < g.run \/ (f.run = g.run /\ f.number <= g.number)

\* Frames are held and grabbed in the order in which they are captured.
FramesInOrder ==
    /\ NotAfter(latestHeld, captured)
    /\ \A f \in taken : NotAfter(f, latestHeld)
    /\ lastFrameNumber # 0 =>
         \E f \in taken : f.number = lastFrameNumber /\ \A g \in taken : NotAfter(g, f)

\* The node has been told to stop and grabs no more.
Leaving == ~ok /\ at \in {"grab", "shutdown", "ended", "aborted"}

\* The number zero, "no frame yet" to process_frame, stands for a frame only where
\* no frame follows: the empty frame that a stopping node processes, and after the
\* connection is lost, which is not made again.
ZeroIsLast ==
    /\ latestHeld.number = 0 => latestHeld.run = 1 /\ (at = "process" => ~ok)
    /\ (\E f \in taken : f.number = 0) => Leaving
    /\ lastFrameNumber = 0 /\ taken # {} => (bridgeLink # "up" /\ at # "connect") \/ Leaving
    /\ at \in {"connect", "mode"} => taken = {}
    /\ taken = {} => lastFrameNumber = 0 /\ frameCount = 0 /\ droppedFrameCount = 0

BridgeInv == BridgeTypeOK /\ FramesInOrder /\ ZeroIsLast /\ AccountsAddUp
=============================================================================
