------------------------------ MODULE CGClient ------------------------------
(***************************************************************************)
(* VCGClient: the buffer between the connections to the Vicon server and   *)
(* the threads that want frames.                                           *)
(*                                                                         *)
(* A client may be connected over several routes (hosts or adapters); each *)
(* has a stream thread of its own, which reads the packets of its          *)
(* connection and calls OnStaticObjects, OnDynamicObjects and              *)
(* OnDisconnect.  The callbacks and the calls of the program's threads     *)
(* exclude each other by m_ClientMutex: each of them is one step.  What a  *)
(* stream thread does with one packet is not: the mutex is free between    *)
(* its OnStaticObjects and its OnDynamicObjects.                           *)
(*                                                                         *)
(* All routes carry the frames of one server.  A route delivers them in    *)
(* order, as TCP does, but may skip some; how far a route lags behind      *)
(* another is not bounded.  A packet has static objects (subjects,         *)
(* cameras, ...) when they differ from those of the packet before it.      *)
(***************************************************************************)
EXTENDS Integers, Sequences, FiniteSets

CONSTANTS
  Routes,       \* the hosts of one call to Connect
  Callers,      \* the threads of the program
  MaxFrame,     \* bounds m_FrameID
  MaxUInt32,    \* the value of -1 as an unsigned 32 bit number
  Statics,      \* the static objects that the server may have
  Layout(_),    \* the static objects that belong to a frame
  None,         \* no static objects
  MaxBuffer     \* bounds the argument of SetBufferSize

Frames == 0 .. MaxFrame

ASSUME RoutesAssumption == Routes # {} /\ IsFiniteSet(Routes)

ASSUME FrameAssumption ==
  /\ MaxFrame \in Nat
  /\ MaxUInt32 \in Nat
  /\ MaxFrame < MaxUInt32
  /\ \A f \in Frames : Layout(f) \in Statics

ASSUME BufferAssumption == MaxBuffer \in Nat \ {0}

\* A TFramePair: the two halves of what a caller gets.
Sample == [statics : Statics \cup {None}, frame : Frames]

VARIABLES
  m_Connected,          \* the routes that are connected
  m_LastFrameIDs,       \* the last frame of each route
  m_pLastStaticObjects, \* the last static objects of any route
  m_FrameDeque,         \* the buffered samples, oldest first
  m_MaxBufferSize,
  \* the stream threads
  stream_pc,            \* "new", "reading", "dynamic", "ended"
  packet,               \* the frame of the last packet, -1 before the first
  \* the threads that wait on m_NewFramesCondition
  waiting,              \* which ones, in WaitFrame or in WaitFrames
  notified,             \* which of them have been woken up
  \* history variables: read by no action
  newest,               \* the highest frame number that was buffered, or -1
  seen                  \* the last frame number that a caller got, or -1

buffer_vars == <<m_FrameDeque, m_MaxBufferSize, newest, seen>>
route_vars  == <<m_Connected, m_LastFrameIDs, m_pLastStaticObjects>>
stream_vars == <<stream_pc, packet>>
wait_vars   == <<waiting, notified>>
vars == <<route_vars, buffer_vars, stream_vars, wait_vars>>

\* The last n elements of a sequence, all of them when there are not as many.
KeepLast(q, n) == IF Len(q) > n THEN SubSeq(q, Len(q) - n + 1, Len(q)) ELSE q

-----------------------------------------------------------------------------
Init ==
  /\ m_Connected = {}
  /\ m_LastFrameIDs = [r \in Routes |-> MaxUInt32]
  /\ m_pLastStaticObjects = None
  /\ m_FrameDeque = <<>>
  /\ m_MaxBufferSize = 1
  /\ stream_pc = [r \in Routes |-> "new"]
  /\ packet = [r \in Routes |-> -1]
  /\ waiting = {}
  /\ notified = {}
  /\ newest = -1
  /\ seen = -1

Ready == \A r \in Routes : stream_pc[r] # "new"

\* Connect reaches the routes of R and not the others; all of them get an
\* entry in m_LastFrameIDs, initialised with -1.  VClient drops a client that
\* reaches no route at all.
Connect(R) ==
  /\ ~ Ready
  /\ R # {}
  /\ m_Connected' = R
  /\ m_LastFrameIDs' = [r \in Routes |-> MaxUInt32]
  /\ stream_pc' = [r \in Routes |-> IF r \in R THEN "reading" ELSE "ended"]
  /\ UNCHANGED <<m_pLastStaticObjects, buffer_vars, packet, wait_vars>>

-----------------------------------------------------------------------------
(* A stream thread: the callbacks for one packet, and the end.             *)

\* Variant for mutation testing: only the first static objects are kept.
OnStaticObjects_FirstOnly(r, f) ==
  /\ stream_pc[r] = "reading"
  /\ f > packet[r]
  /\ m_pLastStaticObjects' = IF m_pLastStaticObjects = None THEN Layout(f)
                             ELSE m_pLastStaticObjects
  /\ stream_pc' = [stream_pc EXCEPT ![r] = "dynamic"]
  /\ packet' = [packet EXCEPT ![r] = f]
  /\ UNCHANGED <<m_Connected, m_LastFrameIDs, buffer_vars, wait_vars>>

\* The packet of frame f comes with its static objects ...
OnStaticObjects(r, f) ==
  /\ stream_pc[r] = "reading"
  /\ f > packet[r]
  /\ m_pLastStaticObjects' = Layout(f)
  /\ stream_pc' = [stream_pc EXCEPT ![r] = "dynamic"]
  /\ packet' = [packet EXCEPT ![r] = f]
  /\ UNCHANGED <<m_Connected, m_LastFrameIDs, buffer_vars, wait_vars>>

\* ... or without, because they are those of the packet before it.
NoStaticObjects(r, f) ==
  /\ stream_pc[r] = "reading"
  /\ f > packet[r]
  /\ packet[r] # -1
  /\ Layout(packet[r]) = Layout(f)
  /\ stream_pc' = [stream_pc EXCEPT ![r] = "dynamic"]
  /\ packet' = [packet EXCEPT ![r] = f]
  /\ UNCHANGED <<route_vars, buffer_vars, wait_vars>>

\* Variant for mutation testing: the same frame passes once more.
Received_Older(r) ==
  /\ Cardinality(Routes) > 1
  /\ \E q \in Routes \ {r} : packet[r] < m_LastFrameIDs[q]

\* "Check to see if the frame has already been received": with more than one
\* route a frame is dropped when another route has last delivered it, or a
\* newer one.
Received(r) ==
  /\ Cardinality(Routes) > 1
  /\ \E q \in Routes \ {r} : packet[r] <= m_LastFrameIDs[q]

\* Variant for mutation testing: notify_one.
TakeFrame_NotifyOne(r) ==
  /\ m_FrameDeque' = KeepLast(Append(m_FrameDeque,
                                     [statics |-> m_pLastStaticObjects,
                                      frame |-> packet[r]]), m_MaxBufferSize)
  /\ newest' = packet[r]
  /\ IF waiting \subseteq notified THEN UNCHANGED notified
     ELSE \E c \in waiting \ notified : notified' = notified \cup {c}
  /\ UNCHANGED <<m_MaxBufferSize, seen, waiting>>

\* The sample enters the deque, the oldest ones leave it, and all waiting
\* threads are woken up (notify_all).
TakeFrame(r) ==
  /\ m_FrameDeque' = KeepLast(Append(m_FrameDeque,
                                     [statics |-> m_pLastStaticObjects,
                                      frame |-> packet[r]]), m_MaxBufferSize)
  /\ newest' = packet[r]
  /\ notified' = waiting
  /\ UNCHANGED <<m_MaxBufferSize, seen, waiting>>

OnDynamicObjects(r) ==
  /\ stream_pc[r] = "dynamic"
  /\ m_LastFrameIDs' = [m_LastFrameIDs EXCEPT ![r] = packet[r]]
  /\ IF Received(r) THEN UNCHANGED <<buffer_vars, wait_vars>> ELSE TakeFrame(r)
  /\ stream_pc' = [stream_pc EXCEPT ![r] = "reading"]
  /\ UNCHANGED <<m_Connected, m_pLastStaticObjects, packet>>

\* The connection breaks; the stream thread ends and is not started again.
OnDisconnect(r) ==
  /\ stream_pc[r] = "reading"
  /\ m_Connected' = m_Connected \ {r}
  /\ notified' = waiting
  /\ stream_pc' = [stream_pc EXCEPT ![r] = "ended"]
  /\ UNCHANGED <<m_LastFrameIDs, m_pLastStaticObjects, buffer_vars, packet, waiting>>

-----------------------------------------------------------------------------
(* The threads of the program.                                             *)

\* A caller gets the oldest sample (PollFrame), or all of them (PollFrames).
HandOut(n) ==
  /\ seen' = m_FrameDeque[n].frame
  /\ m_FrameDeque' = SubSeq(m_FrameDeque, n + 1, Len(m_FrameDeque))
  /\ UNCHANGED <<m_MaxBufferSize, newest>>

\* PollFrame and PollFrames when there is something, and likewise WaitFrame
\* and WaitFrames, which then do not wait.
PollFrame(c) ==
  /\ Ready
  /\ c \notin waiting
  /\ m_FrameDeque # <<>>
  /\ \E n \in {1, Len(m_FrameDeque)} : HandOut(n)
  /\ UNCHANGED <<route_vars, stream_vars, wait_vars>>

\* Variant for mutation testing: the deque is not looked at before waiting.
WaitFrame_NoCheck(c) ==
  /\ Ready
  /\ c \notin waiting
  /\ waiting' = waiting \cup {c}
  /\ UNCHANGED <<route_vars, buffer_vars, stream_vars, notified>>

\* WaitFrame and WaitFrames when there is nothing.
WaitFrame(c) ==
  /\ Ready
  /\ c \notin waiting
  /\ m_FrameDeque = <<>>
  /\ waiting' = waiting \cup {c}
  /\ UNCHANGED <<route_vars, buffer_vars, stream_vars, notified>>

\* timed_wait returns true: the deque is looked at again.
WakeUp(c) ==
  /\ c \in notified
  /\ notified' = notified \ {c}
  /\ IF m_FrameDeque = <<>>
     THEN UNCHANGED <<buffer_vars, waiting>>
     ELSE /\ waiting' = waiting \ {c}
          /\ \E n \in {1, Len(m_FrameDeque)} : HandOut(n)
  /\ UNCHANGED <<route_vars, stream_vars>>

\* timed_wait returns false at the deadline: the call fails, even if a sample
\* has come at the same moment.
TimedOut(c) ==
  /\ c \in waiting
  /\ waiting' = waiting \ {c}
  /\ notified' = notified \ {c}
  /\ UNCHANGED <<route_vars, buffer_vars, stream_vars>>

\* A smaller buffer loses its oldest samples.
SetBufferSize(n) ==
  /\ Ready
  /\ m_MaxBufferSize' = n
  /\ m_FrameDeque' = KeepLast(m_FrameDeque, n)
  /\ UNCHANGED <<newest, seen, route_vars, stream_vars, wait_vars>>

ClearBuffer ==
  /\ Ready
  /\ m_FrameDeque' = <<>>
  /\ UNCHANGED <<m_MaxBufferSize, newest, seen, route_vars, stream_vars, wait_vars>>

-----------------------------------------------------------------------------
StreamThread(r) ==
  \/ \E f \in Frames : OnStaticObjects(r, f) \/ NoStaticObjects(r, f)
  \/ OnDynamicObjects(r)
  \/ OnDisconnect(r)

Caller(c) == PollFrame(c) \/ WaitFrame(c) \/ WakeUp(c) \/ TimedOut(c)

Next ==
  \/ \E R \in SUBSET Routes : Connect(R)
  \/ \E r \in Routes : StreamThread(r)
  \/ \E c \in Callers : Caller(c)
  \/ \E n \in 0 .. MaxBuffer : SetBufferSize(n)
  \/ ClearBuffer

Spec == Init /\ [][Next]_vars

\* A thread that has been notified runs again, and a stream thread completes
\* the callbacks of a packet.  Nothing else is bound to happen: the server
\* may fall silent.
FairSpec ==
  /\ Spec
  /\ \A c \in Callers : WF_vars(WakeUp(c))
  /\ \A r \in Routes : WF_vars(OnDynamicObjects(r))

-----------------------------------------------------------------------------
\* Every variable holds what VCGClient and its threads can hold, and the
\* deque is never longer than SetBufferSize allows.
TypeOK ==
  /\ m_Connected \subseteq Routes
  /\ m_LastFrameIDs \in [Routes -> Frames \cup {MaxUInt32}]
  /\ m_pLastStaticObjects \in Statics \cup {None}
  /\ m_FrameDeque \in Seq(Sample)
  /\ m_MaxBufferSize \in 0 .. MaxBuffer
  /\ Len(m_FrameDeque) <= m_MaxBufferSize
  /\ stream_pc \in [Routes -> {"new", "reading", "dynamic", "ended"}]
  /\ packet \in [Routes -> Frames \cup {-1}]
  /\ waiting \subseteq Callers
  /\ notified \subseteq waiting
  /\ newest \in Frames \cup {-1}
  /\ seen \in Frames \cup {-1}

Feed == INSTANCE FrameFeed WITH Samples <- Sample, queue <- m_FrameDeque

\* Over all routes together, whichever of them is ahead and whoever takes the
\* samples, the client is one feed: no frame is handed out twice and none
\* after a newer one.
FeedSpec == Feed!Spec

\* A thread does not sleep while there is a sample for it: whoever waits
\* while the deque is not empty has been woken up, although several threads
\* may wait, take the samples of each other and time out.
NoLostWakeup == m_FrameDeque # <<>> => waiting \subseteq notified

\* A sample that is buffered does not stay so while a thread waits for one.
SamplesReachWaiters ==
  (m_FrameDeque # <<>>) ~> (m_FrameDeque = <<>> \/ waiting = {})

\* The two halves of a sample belong together: its static objects are those
\* of the frame itself, although they come only when they have changed and
\* are stored before their frame is.  Holds of one route; several routes
\* share m_pLastStaticObjects.
SampleIsWhole ==
  \A i \in 1 .. Len(m_FrameDeque) :
    m_FrameDeque[i].statics = Layout(m_FrameDeque[i].frame)

-----------------------------------------------------------------------------
(* The inductive invariant behind the order of the feed.                   *)

\* The frame that a route has delivered last, and the one it is about to.
RouteInv ==
  \A r \in Routes :
    /\ stream_pc[r] = "dynamic" => packet[r] \in Frames
    /\ m_LastFrameIDs[r] # MaxUInt32 => m_LastFrameIDs[r] <= packet[r]
    /\ (stream_pc[r] = "dynamic" /\ m_LastFrameIDs[r] # MaxUInt32)
         => m_LastFrameIDs[r] < packet[r]
    /\ ~ Ready => /\ stream_pc[r] = "new"
                  /\ m_LastFrameIDs[r] = MaxUInt32
                  /\ packet[r] = -1

\* What has been buffered has been the last frame of a route, so a newer
\* frame of that route or of another one is needed to get past it.
NewestInv ==
  newest # -1 =>
    /\ Ready
    /\ \E r \in Routes : m_LastFrameIDs[r] # MaxUInt32 /\ newest <= m_LastFrameIDs[r]

\* The static objects that are kept are those of the route's last packet.
\* Holds of one route, and is why its samples are whole.
StaticsInv ==
  \A r \in Routes : packet[r] # -1 => m_pLastStaticObjects = Layout(packet[r])

IInv ==
  /\ TypeOK
  /\ RouteInv
  /\ NewestInv
  /\ NoLostWakeup

=============================================================================
