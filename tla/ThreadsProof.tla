----------------------------- MODULE ThreadsProof -----------------------------
(* Proofs about the components that have threads, timers or a peer of their  *)
(* own: RetimingClient, TfDistort, PingLatency, FrameGrabbing, TimingLog and *)
(* StreamModes.                                                              *)
EXTENDS RetimingClient, TfDistort, TimingLog, PingLatency, FrameGrabbing, StreamModes,
        Counting, SequenceTheorems

-----------------------------------------------------------------------------
(* RetimingClient, for any number of frames and output threads and any       *)
(* length of the run-in.                                                     *)

\* The thread that m_pOutputThread points to is the only one that may be alive.
\* It is asked to stop only by a call that is about to join it, and it takes the
\* request back when it ends.  Past the join there is none.
OutputInv ==
    /\ output \in {0} \cup Starts
    /\ outputStopped \in BOOLEAN
    /\ outputPc \in [Starts -> {"none", "test", "update", "ended"}]
    /\ caller \in [call : {"none", "Disconnect", "StartOutput", "StopOutput"},
                   at : {"idle", "stopOutput", "runIn", "stopInput"}]
    /\ \A i \in Starts : Alive(outputPc[i]) => i = output
    /\ output # 0 => outputPc[output] # "none"
    /\ output # 0 /\ outputPc[output] = "ended" => caller.at = "stopOutput" /\ ~outputStopped
    /\ outputStopped => caller.at = "stopOutput" /\ output # 0
    /\ caller.at \in {"runIn", "stopInput"} => output = 0

\* The frame in VClient is never older than the one that was added, and newer
\* once the input thread has got one over a connection that still stands.
InputInv ==
    /\ {held, number, added.number} \subseteq Nat
    /\ inputPc \in {"none", "test", "fetch", "number", "pose", "ended"}
    /\ number <= held /\ added.number <= held
    /\ inputPc = "number" /\ linkUp => added.number < held
    /\ inputPc = "pose" => added.number < number

-----------------------------------------------------------------------------
LEMMA OutputInvInit == RetimingInit => OutputInv
  <1> SUFFICES ASSUME RetimingInit PROVE OutputInv
    OBVIOUS
  <1>1. outputPc \in [Starts -> {"none"}] /\ output = 0 /\ outputStopped = FALSE
    BY DEF RetimingInit
  <1>2. caller = [call |-> "none", at |-> "idle"]
    BY DEF RetimingInit
  <1> QED
    BY <1>1, <1>2 DEF OutputInv, Alive

LEMMA OutputInvNext == OutputInv /\ [RetimingNext]_retimingVars => OutputInv'
  <1> SUFFICES ASSUME OutputInv, [RetimingNext]_retimingVars PROVE OutputInv'
    OBVIOUS
  <1> USE DEF OutputInv, Alive, Starts
  <1>1. CASE UNCHANGED <<outputVars, callVars>>
    BY <1>1 DEF outputVars, callVars
  <1>2. ASSUME NEW i \in Starts, OutputTest(i) PROVE OutputInv'
    BY <1>2 DEF OutputTest, callVars
  <1>3. ASSUME NEW i \in Starts, OutputUpdate(i) PROVE OutputInv'
    BY <1>3 DEF OutputUpdate, callVars
  <1>4. ASSUME NEW call \in {"Disconnect", "StartOutput", "StopOutput"}, BeginCall(call)
        PROVE  OutputInv'
    BY <1>4 DEF BeginCall, Doing
  <1>5. CASE StopOutput
    BY <1>5 DEF StopOutput, GoTo, Return
  <1>6. CASE StopInput
    BY <1>6 DEF StopInput, Doing, Return, outputVars
  <1>7. CASE StartOutputThread
    BY <1>7 DEF StartOutputThread, Doing, Return
  <1>8. CASE RunInGetFrame
    BY <1>8 DEF RunInGetFrame, outputVars
  <1>9. CASE Send \/ LoseLink \/ InputThread \/ RetimingConnect \/ WaitForFrame \/ Wait
             \/ UNCHANGED retimingVars
    <2>1. UNCHANGED <<outputVars, callVars>>
      BY <1>9 DEF Send, LoseLink, InputThread, InputTest, InputFetch, InputNumber, InputAdd,
                  RetimingConnect, WaitForFrame, Wait, retimingVars, outputVars, callVars
    <2> QED BY <2>1, <1>1
  <1> QED
    BY <1>2, <1>3, <1>4, <1>5, <1>6, <1>7, <1>8, <1>9
    DEF RetimingNext, OutputThread, ProgramThread

LEMMA OutputInvImplies == OutputInv => OneOutputThread
  BY RetimingAssumption DEF OutputInv, OneOutputThread, Starts

\* However the program starts, stops and disconnects, and whenever the threads
\* run, one output thread at most is alive and no request to stop is left over.
THEOREM SingleOutput == RetimingSpec => []OneOutputThread
  BY OutputInvInit, OutputInvNext, OutputInvImplies, PTL DEF RetimingSpec

-----------------------------------------------------------------------------
LEMMA InputInvInit == RetimingInit => InputInv
  BY DEF RetimingInit, InputInv

LEMMA InputInvNext == InputInv /\ [RetimingNext]_retimingVars => InputInv'
  <1> SUFFICES ASSUME InputInv, [RetimingNext]_retimingVars PROVE InputInv'
    OBVIOUS
  <1> USE DEF InputInv, Alive
  <1>1. CASE Send
    BY <1>1 DEF Send, inputVars
  <1>2. CASE LoseLink
    BY <1>2 DEF LoseLink, inputVars
  <1>3. CASE InputTest
    BY <1>3 DEF InputTest
  <1>4. CASE InputFetch
    BY <1>4 DEF InputFetch, TakeFrame
  <1>5. CASE InputNumber
    BY <1>5 DEF InputNumber
  <1>6. CASE InputAdd
    BY <1>6 DEF InputAdd
  <1>7. CASE RetimingConnect
    BY <1>7 DEF RetimingConnect
  <1>8. CASE StopOutput
    BY <1>8 DEF StopOutput
  <1>9. CASE StopInput
    BY <1>9 DEF StopInput
  <1>10. CASE RunInGetFrame
    BY <1>10 DEF RunInGetFrame, TakeFrame, inputVars
  <1>11. CASE StartOutputThread
    BY <1>11 DEF StartOutputThread, inputVars
  <1>12. ASSUME NEW i \in Starts, OutputThread(i) PROVE InputInv'
    BY <1>12 DEF OutputThread, OutputTest, OutputUpdate, inputVars
  <1>13. ASSUME NEW call \in {"Disconnect", "StartOutput", "StopOutput"}, BeginCall(call)
         PROVE  InputInv'
    BY <1>13 DEF BeginCall, inputVars
  <1>14. CASE WaitForFrame \/ Wait \/ UNCHANGED retimingVars
    BY <1>14 DEF WaitForFrame, Wait, retimingVars, inputVars
  <1> QED
    BY <1>1, <1>2, <1>3, <1>4, <1>5, <1>6, <1>7, <1>8, <1>9, <1>10, <1>11, <1>12, <1>13, <1>14
    DEF RetimingNext, InputThread, ProgramThread

\* No frame is added twice, and none after a newer one, although StartOutput
\* takes frames out of the same VClient and the connection may be lost at any
\* moment.
THEOREM AddedOnce == RetimingSpec => FramesAddedOnce
  <1>1. InputInv /\ [RetimingNext]_retimingVars
          => [InputAdd => added'.number > added.number]_retimingVars
    BY DEF InputInv, InputAdd
  <1> QED
    BY <1>1, InputInvInit, InputInvNext, PTL DEF RetimingSpec, FramesAddedOnce

-----------------------------------------------------------------------------
(* TfDistort: the poses are published in order.                              *)

\* The stamps of a queue are numbers.
LEMMA QueueStamps ==
    ASSUME NEW queue \in Seq([stamp : Nat, due : Nat])
    PROVE  /\ Len(queue) \in Nat /\ DOMAIN queue = 1 .. Len(queue)
           /\ \A i \in DOMAIN queue : i \in Nat \ {0} /\ queue[i].stamp \in Nat
<1>1. \A i \in 1 .. Len(queue) : queue[i] \in [stamp : Nat, due : Nat]
    BY ElementOfSeq
<1> QED
    BY <1>1

\* A younger pose goes to the end of a queue that is in order.
LEMMA AppendedInOrder ==
    ASSUME NEW queue \in Seq([stamp : Nat, due : Nat]), QueueInOrder(queue),
           NEW pose \in [stamp : Nat, due : Nat],
           \A i \in DOMAIN queue : queue[i].stamp < pose.stamp,
           \A s \in shown : s < pose.stamp
    PROVE  QueueInOrder(Append(queue, pose))
<1> DEFINE longer == Append(queue, pose)
<1>1. /\ Len(queue) \in Nat /\ DOMAIN queue = 1 .. Len(queue)
      /\ DOMAIN longer = 1 .. Len(queue) + 1
      /\ longer[Len(queue) + 1] = pose
      /\ \A i \in 1 .. Len(queue) : longer[i] = queue[i]
    OBVIOUS
<1>2. \A i \in DOMAIN longer : i # Len(queue) + 1 => i \in DOMAIN queue
    BY <1>1
<1> HIDE DEF longer
<1>3. ASSUME NEW i \in DOMAIN longer, NEW j \in DOMAIN longer, i < j
      PROVE  longer[i].stamp < longer[j].stamp
    <2>1. i \in DOMAIN queue
        BY <1>1, <1>3
    <2>2. CASE j = Len(queue) + 1
        BY <1>1, <2>1, <2>2
    <2>3. CASE j # Len(queue) + 1
        BY <1>1, <1>2, <1>3, <2>1, <2>3 DEF QueueInOrder
    <2> QED
        BY <2>2, <2>3
<1>4. ASSUME NEW s \in shown, NEW i \in DOMAIN longer, longer[i].stamp \notin shown
      PROVE  longer[i].stamp > s
    <2>1. s < pose.stamp /\ pose.stamp \in Nat
        OBVIOUS
    <2>2. CASE i = Len(queue) + 1
        BY <1>1, <2>1, <2>2
    <2>3. CASE i # Len(queue) + 1
        BY <1>1, <1>2, <1>4, <2>3 DEF QueueInOrder
    <2> QED
        BY <2>2, <2>3
<1>5. QueueInOrder(longer)
    BY <1>3, <1>4 DEF QueueInOrder
<1> QED
    BY <1>5 DEF longer

\* What is published is the head of a queue that is in order; the rest stays so.
LEMMA PublishedInOrder ==
    ASSUME DistortInv, PubStep
    PROVE  /\ shown' \subseteq 0 .. lastStamp
           /\ poses' \in Seq([stamp : Nat, due : Nat])
           /\ \A i \in DOMAIN poses' : i + 1 \in DOMAIN poses /\ poses'[i] = poses[i + 1]
           /\ \A i \in DOMAIN poses : i = 1 \/ (i - 1 \in DOMAIN poses' /\ poses'[i - 1] = poses[i])
           /\ QueueInOrder(poses)'
<1>1. /\ poses \in Seq([stamp : Nat, due : Nat]) /\ poses # <<>>
      /\ poses' = Tail(poses) /\ shown' = shown \cup {poses[1].stamp}
    BY DEF DistortInv, PubStep
<1>2. /\ Len(poses) \in Nat /\ DOMAIN poses = 1 .. Len(poses) /\ 1 \in DOMAIN poses
      /\ poses' \in Seq([stamp : Nat, due : Nat])
      /\ DOMAIN poses' = 1 .. Len(poses) - 1
      /\ \A i \in 1 .. Len(poses) - 1 : poses'[i] = poses[i + 1]
    BY <1>1
<1>3. /\ \A i \in DOMAIN poses : poses[i].stamp \in Nat /\ poses[i].stamp <= lastStamp
      /\ lastStamp \in Nat
    BY <1>1, QueueStamps DEF DistortInv
<1>4. shown' \subseteq 0 .. lastStamp
    <2>1. poses[1].stamp \in 0 .. lastStamp
        BY <1>2, <1>3
    <2>2. shown \subseteq 0 .. lastStamp
        BY DEF DistortInv
    <2> QED
        BY <1>1, <2>1, <2>2
<1>5. /\ \A i \in DOMAIN poses' : i + 1 \in DOMAIN poses /\ poses'[i] = poses[i + 1]
      /\ \A i \in DOMAIN poses : i = 1 \/ (i - 1 \in DOMAIN poses' /\ poses'[i - 1] = poses[i])
    BY <1>2
<1>6. ASSUME NEW i \in DOMAIN poses', NEW j \in DOMAIN poses', i < j
      PROVE  poses'[i].stamp < poses'[j].stamp
    <2>0. i \in Nat /\ j \in Nat
        BY <1>2
    <2>1. i + 1 \in DOMAIN poses /\ j + 1 \in DOMAIN poses /\ i + 1 < j + 1
        BY <1>5, <1>6, <2>0
    <2>2. poses[i + 1].stamp < poses[j + 1].stamp
        BY <2>1 DEF DistortInv, QueueInOrder
    <2> QED
        BY <1>5, <2>2
<1>7. ASSUME NEW s \in shown', NEW i \in DOMAIN poses', poses'[i].stamp \notin shown'
      PROVE  poses'[i].stamp > s
    <2>1. i + 1 \in DOMAIN poses /\ poses'[i] = poses[i + 1] /\ 1 < i + 1
        BY <1>2, <1>5
    <2>2. poses[1].stamp < poses'[i].stamp
        BY <1>2, <2>1 DEF DistortInv, QueueInOrder
    <2>3. CASE s \in shown
        BY <1>1, <1>7, <2>1, <2>3 DEF DistortInv, QueueInOrder
    <2>4. CASE s = poses[1].stamp
        BY <1>2, <1>3, <2>1, <2>2, <2>4
    <2> QED
        BY <1>1, <1>7, <2>3, <2>4
<1>8. QueueInOrder(poses)'
    BY <1>6, <1>7 DEF QueueInOrder
<1> QED
    BY <1>2, <1>4, <1>5, <1>8

\* A pose that is published while tfCb pushes is the oldest new one of the queue
\* that tfCb has read, so that one may still be written back.
LEMMA PublishedWhilePushing ==
    ASSUME DistortInv, PubStep, push # NoPush
    PROVE  PushInv'
<1> DEFINE read == push.read
<1>1. /\ push' = push /\ lastStamp' = lastStamp
      /\ poses # <<>> /\ shown' = shown \cup {poses[1].stamp}
    BY DEF DistortInv, PubStep
<1>2. /\ push \in [stamp : Nat, due : Nat, read : Seq([stamp : Nat, due : Nat])]
      /\ push.stamp = lastStamp
      /\ \A s \in shown : s < lastStamp
      /\ \A i \in DOMAIN poses : poses[i].stamp < lastStamp
      /\ \A i \in DOMAIN read : read[i].stamp < lastStamp
      /\ QueueInOrder(read)
      /\ \A i \in DOMAIN read :
            read[i].stamp \in shown \/ \E j \in DOMAIN poses : poses[j].stamp = read[i].stamp
    BY DEF DistortInv, PushInv
<1>3. /\ 1 \in DOMAIN poses /\ \A j \in DOMAIN poses : j \in Nat \ {0} /\ poses[j].stamp \in Nat
      /\ \A i \in DOMAIN read : i \in Nat /\ read[i].stamp \in Nat
    BY <1>1, <1>2, QueueStamps DEF DistortInv
<1>4. \A s \in shown' : s < lastStamp
    BY <1>1, <1>2, <1>3
<1>5. \A i \in DOMAIN poses' : poses'[i].stamp < lastStamp
    BY <1>2, PublishedInOrder
<1>6. ASSUME NEW i \in DOMAIN read
      PROVE  read[i].stamp \in shown' \/ \E j \in DOMAIN poses' : poses'[j].stamp = read[i].stamp
    <2>1. CASE read[i].stamp \in shown
        BY <1>1, <2>1
    <2>2. CASE \E j \in DOMAIN poses : poses[j].stamp = read[i].stamp
        BY <1>1, <2>2, PublishedInOrder
    <2> QED
        BY <1>2, <2>1, <2>2
<1>7. ASSUME NEW s \in shown', NEW i \in DOMAIN read, read[i].stamp \notin shown'
      PROVE  read[i].stamp > s
    <2>1. CASE s \in shown
        BY <1>1, <1>2, <1>7, <2>1 DEF QueueInOrder
    <2>2. CASE s = poses[1].stamp
        <3>1. PICK j \in DOMAIN poses : poses[j].stamp = read[i].stamp
            BY <1>1, <1>2, <1>7
        <3>2. 1 < j
            BY <1>1, <1>3, <1>7, <3>1
        <3> QED
            BY <1>3, <2>2, <3>1, <3>2 DEF DistortInv, QueueInOrder
    <2> QED
        BY <1>1, <1>7, <2>1, <2>2
<1>8. QueueInOrder(read)'
    BY <1>1, <1>2, <1>7 DEF QueueInOrder
<1> QED
    BY <1>1, <1>2, <1>4, <1>5, <1>6, <1>8 DEF PushInv

LEMMA DistortStep == DistortInv /\ [DistortNext]_distortVars => DistortInv'
<1> SUFFICES ASSUME DistortInv, [DistortNext]_distortVars PROVE DistortInv'
    OBVIOUS
<1> USE DEF threadVars, configVars
<1>0. /\ tick \in Nat /\ lastStamp \in Nat /\ delay \in Nat
      /\ shown \subseteq 0 .. lastStamp
      /\ poses \in Seq([stamp : Nat, due : Nat])
      /\ \A i \in DOMAIN poses : poses[i].stamp \in Nat /\ poses[i].stamp <= lastStamp
      /\ QueueInOrder(poses)
    BY QueueStamps DEF DistortInv
<1>1. ASSUME TfCb PROVE DistortInv'
    <2>1. /\ tick > lastStamp /\ lastStamp' = tick
          /\ push' = [stamp |-> tick, due |-> tick + delay, read |-> poses]
          /\ UNCHANGED <<tick, poses, delay, shown>>
        BY <1>1 DEF TfCb
    <2>2. /\ \A s \in shown : s < lastStamp'
          /\ \A i \in DOMAIN poses : poses[i].stamp < lastStamp'
        BY <1>0, <2>1
    <2>3. QueueInOrder(poses)'
        BY <1>0, <2>1 DEF QueueInOrder
    <2>4. PushInv'
        BY <1>0, <2>1, <2>2, <2>3 DEF PushInv, QueueInOrder
    <2>5. shown' \subseteq 0 .. lastStamp' /\ \A i \in DOMAIN poses' : poses'[i].stamp <= lastStamp'
        BY <1>0, <2>1, <2>2
    <2> QED
        BY <1>0, <2>1, <2>3, <2>4, <2>5 DEF DistortInv
<1>2. ASSUME PushEnds PROVE DistortInv'
    <2>1. /\ push # NoPush /\ push' = NoPush
          /\ poses' = Append(poses, Pushed) \/ poses' = Append(push.read, Pushed)
          /\ UNCHANGED <<tick, lastStamp, delay, shown>>
        BY <1>2 DEF PushEnds
    <2>2. PICK queue \in {poses, push.read} : poses' = Append(queue, Pushed)
        BY <2>1
    <2>3. /\ queue \in Seq([stamp : Nat, due : Nat]) /\ QueueInOrder(queue)
          /\ \A i \in DOMAIN queue : queue[i].stamp < lastStamp
          /\ Pushed \in [stamp : Nat, due : Nat] /\ Pushed.stamp = lastStamp
          /\ \A s \in shown : s < lastStamp
        BY <1>0, <2>1, <2>2 DEF DistortInv, PushInv, Pushed
    <2>4. QueueInOrder(Append(queue, Pushed))
        BY <2>3, AppendedInOrder
    <2>5. poses' \in Seq([stamp : Nat, due : Nat])
          /\ \A i \in DOMAIN poses' : poses'[i].stamp <= lastStamp
        <3>1. /\ DOMAIN queue = 1 .. Len(queue) /\ Len(queue) \in Nat
              /\ DOMAIN Append(queue, Pushed) = 1 .. Len(queue) + 1
              /\ \A i \in 1 .. Len(queue) : Append(queue, Pushed)[i] = queue[i]
              /\ Append(queue, Pushed)[Len(queue) + 1] = Pushed
              /\ Append(queue, Pushed) \in Seq([stamp : Nat, due : Nat])
            BY <2>3
        <3>2. \A i \in DOMAIN queue : queue[i].stamp \in Nat /\ queue[i].stamp <= lastStamp
            BY <1>0, <2>3, QueueStamps
        <3> QED
            BY <1>0, <2>2, <2>3, <3>1, <3>2
    <2>6. QueueInOrder(poses)'
        BY <2>1, <2>2, <2>4 DEF QueueInOrder
    <2>7. PushInv'
        BY <2>1 DEF PushInv
    <2> QED
        BY <1>0, <2>1, <2>5, <2>6, <2>7 DEF DistortInv
<1>3. ASSUME PubStep PROVE DistortInv'
    <2>1. UNCHANGED <<tick, push, lastStamp, delay>>
        BY <1>3 DEF PubStep
    <2>2. PushInv'
        BY <1>3, <2>1, PublishedWhilePushing DEF PushInv
    <2> QED
        BY <1>0, <1>3, <2>1, <2>2, PublishedInOrder DEF DistortInv
<1>4. ASSUME NEW d \in Delays, NEW publish \in BOOLEAN, NEW out \in Topics, ReconfCb(d, publish, out)
      PROVE  DistortInv'
    BY <1>4, TfDistortAssumption DEF ReconfCb, DistortInv, PushInv, QueueInOrder
<1>5. CASE PassTick \/ PubEnds \/ ReconfJoin \/ UNCHANGED distortVars
    <2>1. UNCHANGED <<poses, push, lastStamp, delay, shown>> /\ tick' \in Nat
        BY <1>0, <1>5 DEF PassTick, PubEnds, ReconfJoin, distortVars
    <2> QED
        BY <2>1 DEF DistortInv, PushInv, QueueInOrder
<1> QED
    BY <1>1, <1>2, <1>3, <1>4, <1>5 DEF DistortNext

\* No pose overtakes another, for every delay, rate of poses and number of
\* reconfigurations, although a push may bring published poses back.
THEOREM PosesKeepOrder == DistortSpec => []OrderIsKept
<1>1. DistortInit => DistortInv
    BY DEF DistortInit, DistortInv, PushInv, QueueInOrder
<1>2. DistortInv => OrderIsKept
    BY DEF DistortInv, QueueInOrder, OrderIsKept
<1> QED
    BY <1>1, <1>2, DistortStep, PTL DEF DistortSpec

-----------------------------------------------------------------------------
(* PingLatency: the round trips are those of the pings.                      *)

\* The round trips after one more is measured.
LEMMA TrimmedRoundTrips ==
    ASSUME NEW S, NEW trips \in Seq(S), Len(trips) <= MaxPings, NEW trip \in S
    PROVE  \E trimmed \in Seq(S) :
              /\ trimmed = TrimRoundTrips(Append(trips, trip))
              /\ Len(trimmed) <= MaxPings
              /\ Len(trips) = MaxPings => Len(trimmed) = MaxPings
              /\ \A i \in DOMAIN trimmed :
                    trimmed[i] = trip \/ \E j \in DOMAIN trips : trimmed[i] = trips[j]
<1> DEFINE longer == Append(trips, trip)
<1> DEFINE trimmed == TrimRoundTrips(longer)
<1>1. /\ Len(trips) \in Nat /\ MaxPings \in Nat \ {0}
      /\ longer \in Seq(S) /\ Len(longer) = Len(trips) + 1 /\ longer # <<>>
      /\ \A i \in 1 .. Len(trips) + 1 :
            longer[i] = trip \/ (i \in DOMAIN trips /\ longer[i] = trips[i])
    BY PingLatencyAssumption
<1> HIDE DEF longer
<1>2. CASE Len(trips) + 1 > MaxPings
    <2>1. trimmed = Tail(longer)
        BY <1>1, <1>2 DEF TrimRoundTrips
    <2>2. /\ trimmed \in Seq(S) /\ Len(trimmed) = Len(trips)
          /\ DOMAIN trimmed = 1 .. Len(trips)
          /\ \A i \in 1 .. Len(trips) : trimmed[i] = longer[i + 1]
        BY <1>1, <2>1
    <2> HIDE DEF trimmed
    <2>3. \A i \in DOMAIN trimmed :
             trimmed[i] = trip \/ \E j \in DOMAIN trips : trimmed[i] = trips[j]
        <3> TAKE i \in DOMAIN trimmed
        <3>1. i + 1 \in 1 .. Len(trips) + 1 /\ trimmed[i] = longer[i + 1]
            BY <1>1, <2>2
        <3> QED
            BY <1>1, <3>1
    <2> QED
        BY <1>1, <1>2, <2>2, <2>3 DEF trimmed, longer
<1>3. CASE ~(Len(trips) + 1 > MaxPings)
    <2>1. trimmed = longer /\ DOMAIN longer = 1 .. Len(trips) + 1
        BY <1>1, <1>3 DEF TrimRoundTrips
    <2> QED
        BY <1>1, <1>3, <2>1 DEF longer
<1> QED
    BY <1>2, <1>3

\* What ReadPing takes from the connection and from the pings that were sent.
LEMMA PingTaken ==
    ASSUME PingTypeOK, ReadPing
    PROVE  /\ Head(pingWire) = pingWire[1] /\ 1 \in DOMAIN pingWire
           /\ pingWire' \in Seq([id : Int, at : Nat])
           /\ \A i \in DOMAIN pingWire' : i + 1 \in DOMAIN pingWire /\ pingWire'[i] = pingWire[i + 1]
           /\ \A id \in DOMAIN pingsSent' : id \in DOMAIN pingsSent /\ pingsSent'[id] = pingsSent[id]
<1>1. pingWire \in Seq([id : Int, at : Nat]) /\ pingWire # <<>> /\ pingWire' = Tail(pingWire)
    BY DEF PingTypeOK, ReadPing
<1>2. \/ pingsSent' = pingsSent
      \/ pingsSent' = [i \in DOMAIN pingsSent \ {Head(pingWire).id} |-> pingsSent[i]]
    BY DEF ReadPing
<1> QED
    BY <1>1, <1>2

\* The time of a ping is added to those that were noted.
LEMMA PingNoted ==
    ASSUME NEW id
    PROVE  /\ DOMAIN NotePing(id) = DOMAIN pingsSent \cup {id}
           /\ NotePing(id)[id] = pingClock
           /\ \A i \in DOMAIN pingsSent : i # id => NotePing(id)[i] = pingsSent[i]
BY DEF NotePing

\* The elements of the two sequences.
LEMMA PingElements ==
    ASSUME PingTypeOK
    PROVE  /\ Len(pingWire) \in Nat /\ DOMAIN pingWire = 1 .. Len(pingWire)
           /\ \A i \in DOMAIN pingWire : pingWire[i].id \in Int /\ pingWire[i].at \in Nat
           /\ Len(pingRoundTrips) \in Nat /\ DOMAIN pingRoundTrips = 1 .. Len(pingRoundTrips)
<1>1. /\ pingWire \in Seq([id : Int, at : Nat])
      /\ pingRoundTrips \in Seq([measured : Int, real : Int])
    BY DEF PingTypeOK
<1>2. \A i \in 1 .. Len(pingWire) : pingWire[i] \in [id : Int, at : Nat]
    BY <1>1, ElementOfSeq
<1>3. Len(pingWire) \in Nat /\ DOMAIN pingWire = 1 .. Len(pingWire)
    BY <1>1
<1>4. Len(pingRoundTrips) \in Nat /\ DOMAIN pingRoundTrips = 1 .. Len(pingRoundTrips)
    BY <1>1
<1>5. \A i \in DOMAIN pingWire : pingWire[i].id \in Int /\ pingWire[i].at \in Nat
    BY <1>2, <1>3
<1> QED
    BY <1>3, <1>4, <1>5

LEMMA WritePingStep == ASSUME PingInv, WritePing PROVE PingInv'
<1>1. /\ pingID \in Nat /\ pingClock \in Nat
      /\ pingWire \in Seq([id : Int, at : Nat])
      /\ Len(pingWire) \in Nat
      /\ \A id \in DOMAIN pingsSent : pingsSent[id] \in Nat
    BY DEF PingInv, PingTypeOK
<1>2. PICK id \in {pingID, pingID - 1} :
        /\ pingStep # "raised" => id = pingID
        /\ pingWire' = Append(pingWire, [id |-> id, at |-> pingClock])
    BY DEF WritePing
<1>3. /\ pingChanged /\ pingChanged' = FALSE /\ pingsSent' = NotePing(pingID)
      /\ pingStep' \in {pingStep, "idle"}
      /\ pingRaced' = (pingRaced \/ pingStep = "raised")
      /\ UNCHANGED <<pingID, pingRoundTrips, pingClock>>
    BY DEF WritePing
<1>4. /\ pingWire' \in Seq([id : Int, at : Nat])
      /\ DOMAIN pingWire' = 1 .. Len(pingWire) + 1
      /\ pingWire'[Len(pingWire) + 1] = [id |-> id, at |-> pingClock]
      /\ \A i \in 1 .. Len(pingWire) : i \in DOMAIN pingWire /\ pingWire'[i] = pingWire[i]
    BY <1>1, <1>2
<1>noted. /\ DOMAIN pingsSent' = DOMAIN pingsSent \cup {pingID}
          /\ pingsSent'[pingID] = pingClock
          /\ \A i \in DOMAIN pingsSent : i # pingID => pingsSent'[i] = pingsSent[i]
    BY <1>3, PingNoted
<1>5. PingTypeOK'
    <2>1. \A i \in DOMAIN pingsSent' : pingsSent'[i] \in Nat
        BY <1>1, <1>noted
    <2> QED
        BY <1>1, <1>3, <1>4, <2>1 DEF PingInv, PingTypeOK
<1>6. ASSUME ~pingRaced' PROVE PingsAreOwn' /\ RoundTripsAreReal'
    <2>1. ~pingRaced /\ pingStep = "idle" /\ pingStep' = "idle" /\ id = pingID
        BY <1>2, <1>3, <1>6 DEF PingInv, PingTypeOK
    <2>2. PingsAreOwn /\ RoundTripsAreReal
        BY <2>1 DEF PingInv
    <2>3. ASSUME NEW i \in DOMAIN pingWire'
          PROVE  /\ pingWire'[i].id <= pingID'
                 /\ ~(pingChanged' \/ pingStep' = "raised")
                 /\ pingWire'[i].id \in DOMAIN pingsSent' => pingsSent'[pingWire'[i].id] = pingWire'[i].at
        <3>1. CASE i = Len(pingWire) + 1
            <4>1. pingWire'[i].id = pingID /\ pingWire'[i].at = pingClock
                BY <1>4, <2>1, <3>1
            <4> QED
                BY <1>1, <1>3, <1>noted, <2>1, <4>1
        <3>2. CASE i # Len(pingWire) + 1
            <4>0. i \in 1 .. Len(pingWire) + 1
                BY <1>4, <2>3
            <4>i. i \in 1 .. Len(pingWire)
                BY <1>1, <3>2, <4>0
            <4>1. i \in DOMAIN pingWire /\ pingWire'[i] = pingWire[i]
                BY <1>4, <4>i
            <4>2. pingWire[i].id < pingID /\ pingWire[i].id \in Int
                  /\ (pingWire[i].id \in DOMAIN pingsSent => pingsSent[pingWire[i].id] = pingWire[i].at)
                BY <1>3, <2>2, <4>1, PingElements DEF PingsAreOwn, PingInv
            <4>3. pingWire[i].id # pingID
                BY <1>1, <4>2
            <4> QED
                BY <1>1, <1>3, <1>noted, <2>1, <4>1, <4>2, <4>3
        <3> QED
            BY <3>1, <3>2
    <2> QED
        BY <1>3, <2>2, <2>3 DEF PingsAreOwn, RoundTripsAreReal
<1> QED
    BY <1>5, <1>6 DEF PingInv

LEMMA ReadPingStep ==
    ASSUME PingInv, ReadPing
    PROVE  PingInv' /\ (HasNetworkLatency => HasNetworkLatency')
<1> DEFINE ping == Head(pingWire)
<1> DEFINE trip == [measured |-> pingClock - pingsSent[ping.id], real |-> pingClock - ping.at]
<1>1. PingTypeOK /\ UNCHANGED <<pingID, pingChanged, pingStep, pingRaced, pingClock>>
    BY DEF PingInv, ReadPing
<1>2. /\ \A i \in DOMAIN pingWire : pingWire[i].id \in Int /\ pingWire[i].at \in Nat
      /\ \A id \in DOMAIN pingsSent : pingsSent[id] \in Nat
      /\ pingRoundTrips \in Seq([measured : Int, real : Int]) /\ Len(pingRoundTrips) <= MaxPings
      /\ pingID \in Nat /\ pingClock \in Nat
    BY <1>1, PingElements DEF PingTypeOK
<1>3. ping.id \in Int /\ ping.at \in Nat
    BY <1>1, <1>2, PingTaken
<1>4. /\ pingRoundTrips' \in Seq([measured : Int, real : Int])
      /\ Len(pingRoundTrips') <= MaxPings
      /\ HasNetworkLatency => HasNetworkLatency'
      /\ PingsAreOwn /\ RoundTripsAreReal => RoundTripsAreReal'
    <2>1. CASE ping.id \in DOMAIN pingsSent
        <3>1. trip \in [measured : Int, real : Int]
            BY <1>2, <1>3, <2>1
        <3>2. pingRoundTrips' = TrimRoundTrips(Append(pingRoundTrips, trip))
            BY <2>1 DEF ReadPing
        <3>3. PingsAreOwn => trip.measured = trip.real
            BY <1>1, <2>1, PingTaken DEF PingsAreOwn
        <3> HIDE DEF trip
        <3>4. /\ pingRoundTrips' \in Seq([measured : Int, real : Int])
              /\ Len(pingRoundTrips') <= MaxPings
              /\ Len(pingRoundTrips) = MaxPings => Len(pingRoundTrips') = MaxPings
              /\ \A i \in DOMAIN pingRoundTrips' :
                    \/ pingRoundTrips'[i] = trip
                    \/ \E j \in DOMAIN pingRoundTrips : pingRoundTrips'[i] = pingRoundTrips[j]
            <4> DEFINE S == [measured : Int, real : Int]
            <4>1. pingRoundTrips \in Seq(S) /\ Len(pingRoundTrips) <= MaxPings /\ trip \in S
                BY <1>2, <3>1
            <4> HIDE DEF S
            <4>2. PICK trimmed \in Seq(S) :
                    /\ trimmed = TrimRoundTrips(Append(pingRoundTrips, trip))
                    /\ Len(trimmed) <= MaxPings
                    /\ Len(pingRoundTrips) = MaxPings => Len(trimmed) = MaxPings
                    /\ \A i \in DOMAIN trimmed :
                          \/ trimmed[i] = trip
                          \/ \E j \in DOMAIN pingRoundTrips : trimmed[i] = pingRoundTrips[j]
                BY <4>1, TrimmedRoundTrips
            <4> QED
                BY <3>2, <4>2 DEF S
        <3> QED
            BY <3>3, <3>4 DEF HasNetworkLatency, RoundTripsAreReal
    <2>2. CASE ping.id \notin DOMAIN pingsSent
        BY <1>2, <2>2 DEF ReadPing, HasNetworkLatency, RoundTripsAreReal
    <2> QED
        BY <2>1, <2>2
<1>5. PingTypeOK'
    BY <1>1, <1>2, <1>4, PingTaken DEF PingTypeOK
<1>6. ASSUME PingsAreOwn PROVE PingsAreOwn'
    <2> SUFFICES ASSUME NEW i \in DOMAIN pingWire'
                 PROVE  /\ pingWire'[i].id <= pingID
                        /\ pingChanged \/ pingStep = "raised" => pingWire'[i].id < pingID
                        /\ pingWire'[i].id \in DOMAIN pingsSent' =>
                             pingsSent'[pingWire'[i].id] = pingWire'[i].at
        BY <1>1 DEF PingsAreOwn
    <2>1. i + 1 \in DOMAIN pingWire /\ pingWire'[i] = pingWire[i + 1]
        BY <1>1, PingTaken
    <2>2. pingWire'[i].id \in DOMAIN pingsSent' =>
            /\ pingWire'[i].id \in DOMAIN pingsSent
            /\ pingsSent'[pingWire'[i].id] = pingsSent[pingWire'[i].id]
        BY <1>1, PingTaken
    <2> QED
        BY <1>6, <2>1, <2>2 DEF PingsAreOwn
<1> QED
    BY <1>1, <1>4, <1>5, <1>6 DEF PingInv

LEMMA PingStep ==
    ASSUME PingInv, [PingNext]_pingVars
    PROVE  PingInv' /\ [HasNetworkLatency => HasNetworkLatency']_pingVars
<1>1. CASE ReadPing
    BY <1>1, ReadPingStep
<1>2. CASE WritePing
    BY <1>2, WritePingStep DEF WritePing, HasNetworkLatency
<1>0. PingTypeOK
    BY DEF PingInv
<1>3. CASE RaisePingID
    <2>1. /\ pingID' = pingID + 1 /\ pingStep' = "raised"
          /\ UNCHANGED <<pingChanged, pingsSent, pingWire, pingRoundTrips, pingRaced, pingClock>>
        BY <1>3 DEF RaisePingID
    <2>2. PingTypeOK'
        BY <1>0, <2>1 DEF PingTypeOK
    <2>3. PingsAreOwn => PingsAreOwn'
        <3>1. \A i \in DOMAIN pingWire : pingWire[i].id <= pingID => pingWire[i].id < pingID + 1
            BY <1>0, PingElements DEF PingTypeOK
        <3>2. pingID + 1 \in Int /\ \A i \in DOMAIN pingWire :
                 pingWire[i].id < pingID + 1 => pingWire[i].id <= pingID + 1
            BY <1>0, PingElements DEF PingTypeOK
        <3> QED
            BY <2>1, <3>1, <3>2 DEF PingsAreOwn
    <2> QED
        BY <2>1, <2>2, <2>3 DEF PingInv, RoundTripsAreReal, HasNetworkLatency
<1>4. CASE RaisePingChanged \/ PassPingTime
    <2>1. /\ UNCHANGED <<pingID, pingsSent, pingWire, pingRoundTrips, pingRaced>>
          /\ pingChanged' \/ pingStep' = "raised" => pingChanged \/ pingStep = "raised"
        BY <1>0, <1>4 DEF RaisePingChanged, PassPingTime
    <2>4. pingClock' \in Nat /\ pingStep' \in {"idle", "raised"}
        BY <1>0, <1>4 DEF RaisePingChanged, PassPingTime, PingTypeOK
    <2>5. pingChanged' \in BOOLEAN
        BY <1>0, <1>4 DEF RaisePingChanged, PassPingTime, PingTypeOK
    <2>2. PingTypeOK'
        BY <1>0, <2>1, <2>4, <2>5 DEF PingTypeOK
    <2>3. PingsAreOwn => PingsAreOwn'
        BY <2>1 DEF PingsAreOwn
    <2> QED
        BY <2>1, <2>2, <2>3 DEF PingInv, RoundTripsAreReal, HasNetworkLatency
<1>5. CASE UNCHANGED pingVars
    BY <1>5 DEF pingVars, PingInv, PingTypeOK, PingsAreOwn, RoundTripsAreReal
<1> QED
    BY <1>1, <1>2, <1>3, <1>4, <1>5 DEF PingNext

\* Unless a packet was written within SendPing, every round trip is the one of
\* its own ping, for any number of pings under way; and the network's share of
\* the latency does not go away.
THEOREM RoundTripsMeasured == PingSpec => RoundTripsAreMeasured
<1>1. PingInit => PingInv
    <2> SUFFICES ASSUME PingInit PROVE PingInv
        OBVIOUS
    <2>1. /\ pingWire = <<>> /\ pingWire \in Seq([id : Int, at : Nat]) /\ DOMAIN pingWire = {}
          /\ pingRoundTrips \in Seq([measured : Int, real : Int])
          /\ Len(pingRoundTrips) = 0 /\ DOMAIN pingRoundTrips = {}
          /\ DOMAIN pingsSent = {}
        BY DEF PingInit
    <2>3. Len(pingRoundTrips) <= MaxPings
        BY <2>1, PingLatencyAssumption
    <2>4. /\ pingID \in Nat /\ pingClock \in Nat /\ pingStep \in {"idle", "raised"}
          /\ pingChanged \in BOOLEAN /\ pingRaced \in BOOLEAN
        BY DEF PingInit
    <2>2. PingTypeOK
        BY <2>1, <2>3, <2>4 DEF PingTypeOK
    <2> QED
        BY <2>1, <2>2 DEF PingInv, PingsAreOwn, RoundTripsAreReal
<1>2. PingInv => (~pingRaced => \A i \in DOMAIN pingRoundTrips :
                                  pingRoundTrips[i].measured = pingRoundTrips[i].real)
    BY DEF PingInv, RoundTripsAreReal
<1> QED
    BY <1>1, <1>2, PingStep, PTL DEF PingSpec, RoundTripsAreMeasured

-----------------------------------------------------------------------------
(* Numbers: counting modulo a number.                                        *)

LEMMA RemainderType ==
    ASSUME NEW a \in Int, NEW w \in Nat \ {0}
    PROVE  a % w \in 0 .. w - 1 /\ a \div w \in Int
OBVIOUS

LEMMA QuotientAndRemainder ==
    ASSUME NEW a \in Int, NEW w \in Nat \ {0}
    PROVE  a = w * (a \div w) + (a % w)
OBVIOUS

LEMMA SmallRemainder ==
    ASSUME NEW w \in Nat \ {0}, NEW a \in 0 .. w - 1
    PROVE  a % w = a
OBVIOUS

LEMMA MultipleTooLarge ==
    ASSUME NEW k \in Int, NEW w \in Nat \ {0}
    PROVE  /\ k >= 1 => w * k >= w
           /\ k <= -1 => w * k <= 0 - w
<1>1. k >= 1 => w * k >= w
    OBVIOUS
<1>2. k <= -1 => w * k <= 0 - w
    OBVIOUS
<1> QED
    BY <1>1, <1>2

\* Remainders that differ by a multiple of w are the same.
LEMMA RemainderUnique ==
    ASSUME NEW w \in Nat \ {0}, NEW q \in Int, NEW p \in Int, NEW k \in Int,
           NEW r \in 0 .. w - 1, NEW s \in 0 .. w - 1,
           w * q + r = (w * p + s) + w * k
    PROVE  r = s
<1>1. q - p - k \in Int /\ w * (q - p - k) = s - r
    OBVIOUS
<1>2. CASE q - p - k >= 1
    <2>1. w * (q - p - k) >= w
        BY <1>1, <1>2, MultipleTooLarge
    <2> QED
        BY <1>1, <2>1
<1>3. CASE q - p - k <= -1
    <2>1. w * (q - p - k) <= 0 - w
        BY <1>1, <1>3, MultipleTooLarge
    <2> QED
        BY <1>1, <2>1
<1>4. CASE q - p - k = 0
    BY <1>1, <1>4
<1> QED
    BY <1>1, <1>2, <1>3, <1>4

\* Numbers that differ by a multiple of w have the same remainder.
LEMMA SameRemainder ==
    ASSUME NEW w \in Nat \ {0}, NEW x \in Int, NEW y \in Int, NEW k \in Int, x = y + w * k
    PROVE  x % w = y % w
<1>1. PICK q \in Int : x = w * q + (x % w)
    BY QuotientAndRemainder, RemainderType
<1>2. PICK p \in Int : y = w * p + (y % w)
    BY QuotientAndRemainder, RemainderType
<1>3. x % w \in 0 .. w - 1 /\ y % w \in 0 .. w - 1
    BY RemainderType
<1>4. w * q + (x % w) = (w * p + (y % w)) + w * k
    BY <1>1, <1>2
<1> QED
    BY <1>3, <1>4, RemainderUnique

\* A counter that wraps loses nothing of the sum.
LEMMA CountOn ==
    ASSUME NEW w \in Nat \ {0}, NEW a \in Int, NEW b \in Int
    PROVE  ((a % w) + b) % w = (a + b) % w
<1>1. a = w * (a \div w) + (a % w) /\ a % w \in 0 .. w - 1 /\ a \div w \in Int
    BY QuotientAndRemainder, RemainderType
<1>2. a + b = ((a % w) + b) + w * (a \div w) /\ (a % w) + b \in Int /\ a + b \in Int
    BY <1>1
<1> QED
    BY <1>1, <1>2, SameRemainder

-----------------------------------------------------------------------------
(* FrameGrabbing: the accounts of the frames add up.                         *)

LEMMA MinProperties ==
    ASSUME NEW S, S \subseteq Nat, S # {}
    PROVE  Min(S) \in S /\ \A y \in S : Min(S) <= y
BY LeastNumber DEF Min

LEMMA MinIs ==
    ASSUME NEW S, S \subseteq Nat, NEW x \in S, \A y \in S : x <= y
    PROVE  Min(S) = x
<1>1. Min(S) \in S /\ Min(S) <= x /\ x <= Min(S)
    BY MinProperties
<1>2. Min(S) \in Nat /\ x \in Nat
    BY <1>1
<1> QED
    BY <1>1, <1>2

LEMMA MaxIs ==
    ASSUME NEW S, S \subseteq Nat, NEW x \in S, \A y \in S : y <= x
    PROVE  Max(S) = x
<1>1. Max(S) \in S /\ \A y \in S : Max(S) >= y
    BY DEF Max
<1>2. Max(S) \in Nat /\ x \in Nat
    BY <1>1
<1>3. Max(S) >= x /\ Max(S) <= x
    BY <1>1
<1> QED
    BY <1>2, <1>3

\* Numbers that grow at their upper end keep their least one.
LEMMA MinKept ==
    ASSUME NEW S, S \subseteq Nat, NEW last \in S, NEW n \in Nat, last <= n
    PROVE  Min(S \cup {n}) = Min(S)
<1>1. Min(S) \in S /\ \A y \in S : Min(S) <= y
    BY MinProperties
<1>2. Min(S) \in Nat /\ last \in Nat /\ Min(S) <= last
    BY <1>1
<1>3. Min(S) <= n
    BY <1>2
<1>4. S \cup {n} \subseteq Nat /\ Min(S) \in S \cup {n} /\ \A y \in S \cup {n} : Min(S) <= y
    BY <1>1, <1>3
<1> QED
    BY <1>4, MinIs

\* Of a single number nothing is missing.
LEMMA OneFrame ==
    ASSUME NEW n \in Nat
    PROVE  Cardinality(Missed({n})) = 0 /\ Cardinality(AfterGap({n})) = 0
<1>1. Min({n}) = n /\ Max({n}) = n
    BY MinIs, MaxIs
<1>2. Missed({n}) = {}
    BY <1>1 DEF Missed
<1>3. AfterGap({n}) = {}
    BY <1>2 DEF AfterGap
<1> QED
    BY <1>2, <1>3, FS_EmptySet

\* A number that is added at the upper end adds what it skips to those missed,
\* and itself to those after a gap if it skips any.
LEMMA OneFrameMore ==
    ASSUME NEW S, S \subseteq Nat, NEW last \in S, \A y \in S : y <= last,
           NEW n \in Nat, last <= n
    PROVE  /\ Cardinality(Missed(S)) \in Nat /\ Cardinality(AfterGap(S)) \in Nat
           /\ Cardinality(Missed(S \cup {n})) + Cardinality(AfterGap(S \cup {n}))
                = Cardinality(Missed(S)) + Cardinality(AfterGap(S))
                    + (IF n - last > 1 THEN n - last ELSE 0)
<1> DEFINE T == S \cup {n}
<1> DEFINE first == Min(S)
<1> DEFINE skipped == last + 1 .. n - 1
<1>1. first \in S /\ first \in Nat /\ last \in Nat /\ \A y \in S : y \in Nat /\ first <= y /\ y <= last
    BY MinProperties
<1>2. Max(S) = last /\ Max(T) = n /\ Min(T) = first
    <2>1. T \subseteq Nat /\ n \in T /\ \A y \in T : y <= n
        BY <1>1
    <2>2. Min(T) = first
        BY MinKept
    <2> HIDE DEF T
    <2>3. Max(T) = n
        BY <2>1, MaxIs
    <2> QED
        BY <2>2, <2>3, MaxIs
<1>3. /\ Missed(S) = (first .. last) \ S
      /\ Missed(T) = (first .. n) \ T
    BY <1>2 DEF Missed
<1> HIDE DEF first
<1>4. Missed(T) = Missed(S) \cup skipped /\ Missed(S) \cap skipped = {}
    BY <1>1, <1>3
<1>5. IsFiniteSet(Missed(S)) /\ IsFiniteSet(AfterGap(S))
    <2>1. IsFiniteSet(first .. last) /\ Missed(S) \subseteq first .. last
        BY <1>1, <1>3, FS_Interval
    <2>2. AfterGap(S) \subseteq first .. last
        <3>1. AfterGap(S) \subseteq S
            BY DEF AfterGap
        <3>2. S \subseteq first .. last
            BY <1>1
        <3> QED
            BY <3>1, <3>2
    <2> QED
        BY <2>1, <2>2, FS_Subset
<1>6. Cardinality(Missed(S)) \in Nat /\ Cardinality(AfterGap(S)) \in Nat
    BY <1>5, FS_CardinalityType
<1>7. IsFiniteSet(skipped) /\ Cardinality(skipped) = IF n - last > 1 THEN n - last - 1 ELSE 0
    <2>1. IsFiniteSet(skipped)
          /\ Cardinality(skipped) = IF last + 1 > n - 1 THEN 0 ELSE (n - 1) - (last + 1) + 1
        BY <1>1, FS_Interval
    <2> QED
        BY <1>1, <2>1
<1>8. Cardinality(Missed(T)) = Cardinality(Missed(S)) + Cardinality(skipped)
    <2>1. Cardinality(Missed(S) \cup skipped)
            = Cardinality(Missed(S)) + Cardinality(skipped) - Cardinality(Missed(S) \cap skipped)
        BY <1>5, <1>7, FS_Union
    <2>2. Cardinality(Missed(S) \cap skipped) = 0 /\ Cardinality(skipped) \in Nat
        BY <1>4, <1>7, FS_EmptySet, FS_CardinalityType
    <2>3. Cardinality(Missed(T)) = Cardinality(Missed(S) \cup skipped)
        BY <1>4
    <2> HIDE DEF skipped, T
    <2> QED
        BY <1>6, <2>1, <2>2, <2>3
<1>9. Cardinality(AfterGap(T)) = Cardinality(AfterGap(S)) + (IF n - last > 1 THEN 1 ELSE 0)
    <2>1. CASE n - last > 1
        <3>1. n \notin S /\ n - 1 \in skipped
            BY <1>1, <2>1
        <3>2. AfterGap(T) = AfterGap(S) \cup {n} /\ n \notin AfterGap(S)
            <4>1. \A y \in S : y - 1 \notin skipped
                BY <1>1
            <4>2. \A y \in S : y - 1 \in Missed(T) <=> y - 1 \in Missed(S)
                BY <1>4, <4>1
            <4>3. n - 1 \in Missed(T)
                BY <1>4, <3>1
            <4> QED
                BY <3>1, <4>2, <4>3 DEF AfterGap
        <3> QED
            BY <1>5, <1>6, <2>1, <3>2, FS_AddElement
    <2>2. CASE ~(n - last > 1)
        <3>1. skipped = {} /\ (n = last \/ n = last + 1)
            BY <1>1, <2>2
        <3>2. AfterGap(T) = AfterGap(S)
            <4>1. Missed(T) = Missed(S)
                BY <1>4, <3>1
            <4>2. n - 1 \notin Missed(S) \/ n \in S
                BY <1>1, <1>3, <3>1
            <4> QED
                BY <4>1, <4>2 DEF AfterGap
        <3> QED
            BY <1>6, <2>2, <3>2
    <2> QED
        BY <2>1, <2>2
<1> QED
    BY <1>1, <1>6, <1>7, <1>8, <1>9

\* The numbers of a run are those of its grabbed frames.
LEMMA NumbersTyped ==
    ASSUME BridgeTypeOK, NEW r
    PROVE  /\ NumbersOf(r) \subseteq Nat
           /\ \A n : n \in NumbersOf(r) <=> \E f \in taken : f.run = r /\ f.number = n
<1>1. \A f \in taken : f.number \in Nat
    BY DEF BridgeTypeOK
<1> QED
    BY <1>1 DEF NumbersOf

\* The run of the first frame; it stays so when more frames are grabbed.
LEMMA FirstNumberType ==
    ASSUME BridgeTypeOK, taken # {}
    PROVE  FirstNumber \in Nat
<1>1. PICK f \in taken : f.run \in {1, 2}
    BY DEF BridgeTypeOK
<1>2. NumbersOf(1) # {} \/ NumbersOf(2) # {}
    BY <1>1, NumbersTyped
<1>3. NumbersOf(1) \subseteq Nat /\ NumbersOf(2) \subseteq Nat
    BY NumbersTyped
<1>4. CASE NumbersOf(1) # {}
    BY <1>3, <1>4, MinProperties DEF FirstNumber
<1>5. CASE NumbersOf(1) = {}
    BY <1>2, <1>3, <1>5, MinProperties DEF FirstNumber
<1> QED
    BY <1>4, <1>5

\* A frame that is grabbed with the connection lost changes the number of the
\* last frame to zero, and the accounts with it.
LEMMA ProcessLost ==
    ASSUME BridgeInv, ProcessFrame, bridgeLink # "up"
    PROVE  BridgeInv'
<1>1. /\ at = "process" /\ at' \in {"markers", "grab"}
      /\ lastFrameNumber' = 0 /\ taken' = taken
      /\ FrameDiff = 0 - lastFrameNumber
      /\ frameCount' = (frameCount + FrameDiff) % Word
      /\ droppedFrameCount' = (droppedFrameCount + IF FrameDiff > 1 THEN FrameDiff ELSE 0) % Word
      /\ UNCHANGED <<ok, bridgeLink, latestHeld, captured>>
    BY DEF ProcessFrame, FrameDiff, GetFrameNumber, markerVars, BridgeInv, BridgeTypeOK
<1>2. /\ BridgeTypeOK /\ FramesInOrder /\ ZeroIsLast /\ AccountsAddUp
      /\ lastFrameNumber \in Nat /\ Word \in Nat \ {0}
      /\ frameCount \in 0 .. Word - 1 /\ droppedFrameCount \in 0 .. Word - 1
    BY FrameGrabbingAssumption DEF BridgeInv, BridgeTypeOK
<1>3. droppedFrameCount' = droppedFrameCount
    <2>1. droppedFrameCount' = droppedFrameCount % Word
        BY <1>1, <1>2
    <2> QED
        BY <1>2, <2>1, SmallRemainder
<1>4. frameCount' \in 0 .. Word - 1
    BY <1>1, <1>2, RemainderType
<1>5. taken = {} => frameCount' = 0
    <2>1. taken = {} => frameCount' = 0 % Word
        BY <1>1, <1>2 DEF ZeroIsLast
    <2> QED
        BY <1>2, <2>1, SmallRemainder
<1>6. BridgeTypeOK'
    BY <1>1, <1>2, <1>3, <1>4 DEF BridgeTypeOK
<1>7. FramesInOrder'
    BY <1>1, <1>2 DEF FramesInOrder, NotAfter
<1>8. ZeroIsLast'
    BY <1>1, <1>2, <1>3, <1>5 DEF ZeroIsLast, Leaving
<1>9. AccountsAddUp'
    <2>1. \A r : NumbersOf(r)' = NumbersOf(r)
        BY <1>1 DEF NumbersOf
    <2>2. FirstNumber' = FirstNumber
        BY <2>1 DEF FirstNumber
    <2>3. taken # {} => frameCount' = (0 - FirstNumber) % Word
        <3> SUFFICES ASSUME taken # {} PROVE frameCount' = (0 - FirstNumber) % Word
            OBVIOUS
        <3>1. FirstNumber \in Nat /\ frameCount = (lastFrameNumber - FirstNumber) % Word
            BY <1>2, FirstNumberType DEF AccountsAddUp
        <3>2. frameCount' = ((lastFrameNumber - FirstNumber) + (0 - lastFrameNumber)) % Word
            <4>1. lastFrameNumber - FirstNumber \in Int /\ 0 - lastFrameNumber \in Int
                BY <1>2, <3>1
            <4>2. frameCount' = (((lastFrameNumber - FirstNumber) % Word) + (0 - lastFrameNumber)) % Word
                BY <1>1, <3>1
            <4> QED
                BY <1>2, <4>1, <4>2, CountOn
        <3>3. (lastFrameNumber - FirstNumber) + (0 - lastFrameNumber) = 0 - FirstNumber
            BY <1>2, <3>1
        <3> QED
            BY <3>2, <3>3
    <2> QED
        BY <1>1, <1>2, <1>3, <2>1, <2>2, <2>3 DEF AccountsAddUp
<1> QED
    BY <1>6, <1>7, <1>8, <1>9 DEF BridgeInv

\* The first frame of all.
LEMMA ProcessFirst ==
    ASSUME BridgeInv, ProcessFrame, bridgeLink = "up", taken = {}
    PROVE  BridgeInv'
<1>1. /\ at = "process" /\ at' = "grab"
      /\ lastFrameNumber' = latestHeld.number /\ taken' = {latestHeld}
      /\ lastFrameNumber = 0 /\ frameCount' = 0 % Word /\ droppedFrameCount' = 0 % Word
      /\ UNCHANGED <<ok, bridgeLink, latestHeld, captured>>
    BY DEF ProcessFrame, FrameDiff, GetFrameNumber, IsNewFrame, markerVars, BridgeInv, ZeroIsLast
<1>2. /\ BridgeTypeOK /\ FramesInOrder /\ ZeroIsLast
      /\ latestHeld.number \in Nat /\ latestHeld.run \in {1, 2} /\ Word \in Nat \ {0}
    BY FrameGrabbingAssumption DEF BridgeInv, BridgeTypeOK
<1>3. frameCount' = 0 /\ droppedFrameCount' = 0 /\ 0 % Word = 0
    BY <1>1, <1>2, SmallRemainder
<1>6. BridgeTypeOK'
    BY <1>1, <1>2, <1>3 DEF BridgeTypeOK
<1>7. FramesInOrder'
    BY <1>1, <1>2 DEF FramesInOrder, NotAfter
<1>8. ZeroIsLast'
    BY <1>1, <1>2, <1>3 DEF ZeroIsLast, Leaving
<1>9. AccountsAddUp'
    <2>1. /\ NumbersOf(latestHeld.run)' = {latestHeld.number}
          /\ \A r : r # latestHeld.run => NumbersOf(r)' = {}
        BY <1>1 DEF NumbersOf
    <2>2. FirstNumber' = latestHeld.number
        BY <1>2, <2>1, MinIs DEF FirstNumber
    <2>3. NumbersOf(2)' = {} =>
            Cardinality(Missed(NumbersOf(1)))' + Cardinality(AfterGap(NumbersOf(1)))' = 0
        <3>1. NumbersOf(2)' = {} => NumbersOf(1)' = {latestHeld.number}
            BY <1>2, <2>1
        <3> QED
            BY <1>2, <3>1, OneFrame DEF Missed, AfterGap
    <2> QED
        BY <1>1, <1>2, <1>3, <2>2, <2>3 DEF AccountsAddUp
<1> QED
    BY <1>6, <1>7, <1>8, <1>9 DEF BridgeInv

\* One more frame.
LEMMA ProcessNext ==
    ASSUME BridgeInv, ProcessFrame, bridgeLink = "up", taken # {}
    PROVE  BridgeInv'
<1> DEFINE n == latestHeld.number
<1>0. /\ BridgeTypeOK /\ FramesInOrder /\ ZeroIsLast /\ AccountsAddUp
      /\ n \in Nat /\ latestHeld.run \in {1, 2} /\ Word \in Nat \ {0}
      /\ lastFrameNumber \in Nat
      /\ frameCount \in 0 .. Word - 1 /\ droppedFrameCount \in 0 .. Word - 1
    BY FrameGrabbingAssumption DEF BridgeInv, BridgeTypeOK
<1>1. /\ at = "process" /\ lastFrameNumber # 0
      /\ \A f \in taken : f.number # 0
    BY <1>0 DEF ProcessFrame, ZeroIsLast, Leaving
<1>2. PICK f \in taken : f.number = lastFrameNumber /\ \A g \in taken : NotAfter(g, f)
    BY <1>0, <1>1 DEF FramesInOrder
<1>3. /\ f.run \in {1, 2} /\ f.number \in Nat /\ NotAfter(f, latestHeld)
      /\ \A g \in taken : g.run \in {1, 2} /\ g.number \in Nat /\ NotAfter(g, latestHeld)
    BY <1>0, <1>2 DEF BridgeTypeOK, FramesInOrder
<1>4. n # 0
    <2>1. n = 0 => latestHeld.run = 1
        BY <1>0 DEF ZeroIsLast
    <2> QED
        BY <1>1, <1>2, <1>3, <2>1 DEF NotAfter
<1>5. /\ at' \in {"markers", "grab"} /\ lastFrameNumber' = n /\ taken' = taken \cup {latestHeld}
      /\ frameCount' = (frameCount + (n - lastFrameNumber)) % Word
      /\ droppedFrameCount' = (droppedFrameCount
                                 + IF n - lastFrameNumber > 1 THEN n - lastFrameNumber ELSE 0) % Word
      /\ UNCHANGED <<ok, bridgeLink, latestHeld, captured>>
    BY <1>1 DEF ProcessFrame, FrameDiff, GetFrameNumber, markerVars
<1>6. BridgeTypeOK'
    <2>1. frameCount' \in 0 .. Word - 1 /\ droppedFrameCount' \in 0 .. Word - 1
        <3>1. /\ frameCount + (n - lastFrameNumber) \in Int
              /\ droppedFrameCount + (IF n - lastFrameNumber > 1 THEN n - lastFrameNumber ELSE 0) \in Int
            BY <1>0
        <3> QED
            BY <1>0, <1>5, <3>1, RemainderType
    <2>2. taken' \subseteq [run : {1, 2}, number : Nat]
        BY <1>0, <1>5 DEF BridgeTypeOK
    <2> QED
        BY <1>0, <1>5, <2>1, <2>2 DEF BridgeTypeOK
<1>7. FramesInOrder'
    <2>1. \A g \in taken' : NotAfter(g, latestHeld)
        BY <1>0, <1>3, <1>5 DEF NotAfter
    <2> QED
        BY <1>0, <1>5, <2>1 DEF FramesInOrder, NotAfter
<1>8. ZeroIsLast'
    BY <1>0, <1>1, <1>4, <1>5 DEF ZeroIsLast, Leaving
<1>9. AccountsAddUp'
    <2>0. PICK run \in {1, 2} : run = latestHeld.run
        BY <1>0
    <2>1. /\ NumbersOf(run)' = NumbersOf(run) \cup {n}
          /\ \A r : r # run => NumbersOf(r)' = NumbersOf(r)
        BY <1>5, <2>0 DEF NumbersOf
    <2>2. /\ \A r : NumbersOf(r) \subseteq Nat
          /\ \A r : \A m : m \in NumbersOf(r) <=> \E g \in taken : g.run = r /\ g.number = m
        BY <1>0, NumbersTyped
    <2>3. \A r : NumbersOf(r) # {} => Min(NumbersOf(r)') = Min(NumbersOf(r))
        <3> SUFFICES ASSUME NEW r, NumbersOf(r) # {} PROVE Min(NumbersOf(r)') = Min(NumbersOf(r))
            OBVIOUS
        <3>1. CASE r = run
            <4>1. PICK m \in NumbersOf(r) : m <= n
                BY <1>3, <2>0, <2>2, <3>1 DEF NotAfter
            <4> QED
                BY <1>0, <2>1, <2>2, <3>1, <4>1, MinKept
        <3>2. CASE r # run
            BY <2>1, <3>2
        <3> QED
            BY <3>1, <3>2
    <2>4. FirstNumber' = FirstNumber
        <3>1. NumbersOf(1) # {} \/ (NumbersOf(2) # {} /\ run = 2)
            BY <1>2, <1>3, <2>0, <2>2 DEF NotAfter
        <3>2. CASE NumbersOf(1) # {}
            <4>1. NumbersOf(1)' # {}
                BY <1>0, <2>1, <3>2
            <4> QED
                BY <2>3, <3>2, <4>1 DEF FirstNumber
        <3>3. CASE NumbersOf(1) = {}
            <4>1. NumbersOf(1)' = {} /\ NumbersOf(2) # {}
                BY <2>1, <3>1, <3>3
            <4> QED
                BY <2>3, <3>3, <4>1 DEF FirstNumber
        <3> QED
            BY <3>2, <3>3
    <2>5. frameCount' = (n - FirstNumber) % Word
        <3>1. FirstNumber \in Nat /\ frameCount = (lastFrameNumber - FirstNumber) % Word
            BY <1>0, FirstNumberType DEF AccountsAddUp
        <3>2. frameCount' = ((lastFrameNumber - FirstNumber) + (n - lastFrameNumber)) % Word
            <4>1. lastFrameNumber - FirstNumber \in Int /\ n - lastFrameNumber \in Int
                BY <1>0, <3>1
            <4>2. frameCount' = (((lastFrameNumber - FirstNumber) % Word) + (n - lastFrameNumber)) % Word
                BY <1>5, <3>1
            <4> QED
                BY <1>0, <4>1, <4>2, CountOn
        <3>3. (lastFrameNumber - FirstNumber) + (n - lastFrameNumber) = n - FirstNumber
            BY <1>0, <3>1
        <3> QED
            BY <3>2, <3>3
    <2>6. NumbersOf(2)' = {} =>
            droppedFrameCount' =
              (Cardinality(Missed(NumbersOf(1)')) + Cardinality(AfterGap(NumbersOf(1)'))) % Word
        <3> SUFFICES ASSUME NumbersOf(2)' = {}
                     PROVE  droppedFrameCount' =
                              (Cardinality(Missed(NumbersOf(1)')) + Cardinality(AfterGap(NumbersOf(1)'))) % Word
            OBVIOUS
        <3> DEFINE S == NumbersOf(1)
        <3> DEFINE before == Cardinality(Missed(S)) + Cardinality(AfterGap(S))
        <3> DEFINE more == IF n - lastFrameNumber > 1 THEN n - lastFrameNumber ELSE 0
        <3>1. run = 1 /\ NumbersOf(2) = {} /\ NumbersOf(1)' = S \cup {n}
            BY <1>0, <2>1
        <3>2. f.run = 1 /\ lastFrameNumber \in S /\ (\A m \in S : m <= lastFrameNumber)
              /\ lastFrameNumber <= n
            BY <1>2, <1>3, <2>0, <2>2, <3>1 DEF NotAfter
        <3>3. /\ Cardinality(Missed(S)) \in Nat /\ Cardinality(AfterGap(S)) \in Nat
              /\ Cardinality(Missed(S \cup {n})) + Cardinality(AfterGap(S \cup {n})) = before + more
            BY <1>0, <2>2, <3>2, OneFrameMore
        <3>4. droppedFrameCount = before % Word
            BY <1>0, <3>1 DEF AccountsAddUp
        <3>5. droppedFrameCount' = (before + more) % Word
            <4>1. before \in Int /\ more \in Int
                BY <1>0, <3>3
            <4>2. droppedFrameCount' = ((before % Word) + more) % Word
                BY <1>5, <3>4
            <4> HIDE DEF before, more
            <4> QED
                BY <1>0, <4>1, <4>2, CountOn
        <3> QED
            BY <3>1, <3>3, <3>5
    <2>7. Cardinality(Missed(NumbersOf(1)))' = Cardinality(Missed(NumbersOf(1)'))
          /\ Cardinality(AfterGap(NumbersOf(1)))' = Cardinality(AfterGap(NumbersOf(1)'))
        BY DEF Missed, AfterGap
    <2> QED
        BY <1>5, <2>4, <2>5, <2>6, <2>7 DEF AccountsAddUp
<1> QED
    BY <1>6, <1>7, <1>8, <1>9 DEF BridgeInv

LEMMA BridgeStep == BridgeInv /\ [BridgeNext]_bridgeVars => BridgeInv'
<1> SUFFICES ASSUME BridgeInv, [BridgeNext]_bridgeVars PROVE BridgeInv'
    OBVIOUS
<1> USE DEF accountVars, markerVars
<1>0. BridgeTypeOK /\ FramesInOrder /\ ZeroIsLast /\ AccountsAddUp
    BY DEF BridgeInv
<1>1. CASE ProcessFrame
    BY <1>1, ProcessLost, ProcessFirst, ProcessNext
<1>2. CASE GetFrameSucceeds
    <2>1. /\ at = "fetch" /\ at' = "process" /\ bridgeLink = "up" /\ latestHeld' = captured
          /\ UNCHANGED <<ok, bridgeLink, accountVars, captured>>
        BY <1>2 DEF GetFrameSucceeds
    <2>2. BridgeTypeOK' /\ captured.number # 0
        BY <1>0, <2>1 DEF BridgeTypeOK
    <2>3. FramesInOrder'
        <3>1. /\ captured.run \in {1, 2} /\ captured.number \in Nat
              /\ latestHeld.run \in {1, 2} /\ latestHeld.number \in Nat
              /\ \A f \in taken : f.run \in {1, 2} /\ f.number \in Nat
            BY <1>0 DEF BridgeTypeOK
        <3> QED
            BY <1>0, <2>1, <3>1 DEF FramesInOrder, NotAfter
    <2>4. ZeroIsLast'
        BY <1>0, <2>1, <2>2 DEF ZeroIsLast, Leaving
    <2>5. AccountsAddUp'
        BY <1>0, <2>1 DEF AccountsAddUp, FirstNumber, NumbersOf, Missed, AfterGap
    <2> QED
        BY <2>2, <2>3, <2>4, <2>5 DEF BridgeInv
<1>3. CASE ViconCaptures \/ ViconCountsAnew
    <2>1. /\ captured.run \in {1, 2} /\ captured.number \in Nat \ {0}
          /\ latestHeld.run \in {1, 2} /\ latestHeld.number \in Nat
          /\ captured \in [run : {1, 2}, number : Nat \ {0}]
        BY <1>0 DEF BridgeTypeOK
    <2>2. /\ UNCHANGED <<ok, at, bridgeLink, latestHeld, accountVars>>
          /\ captured' \in [run : {1, 2}, number : Nat \ {0}]
          /\ \/ captured'.run = captured.run /\ captured'.number = captured.number + 1
             \/ captured.run = 1 /\ captured'.run = 2
        BY <1>3, <2>1 DEF ViconCaptures, ViconCountsAnew
    <2>3. BridgeTypeOK'
        BY <1>0, <2>2 DEF BridgeTypeOK
    <2>4. FramesInOrder'
        BY <1>0, <2>1, <2>2 DEF FramesInOrder, NotAfter
    <2>5. ZeroIsLast' /\ AccountsAddUp'
        BY <1>0, <2>2 DEF ZeroIsLast, Leaving, AccountsAddUp, FirstNumber, NumbersOf, Missed, AfterGap
    <2> QED
        BY <2>3, <2>4, <2>5 DEF BridgeInv
<1>4. CASE \/ TryConnect \/ IsConnectedNow \/ InitVicon \/ GrabThread \/ GetFrameFails
           \/ ProcessMarkers \/ ShutdownVicon \/ RosShutdown \/ MarkerSubscribers \/ ViconIsLost
           \/ UNCHANGED bridgeVars
    <2>1. UNCHANGED <<latestHeld, lastFrameNumber, frameCount, droppedFrameCount, taken, captured>>
        BY <1>4 DEF TryConnect, IsConnectedNow, InitVicon, GrabThread, GetFrameFails, ProcessMarkers,
             ShutdownVicon, RosShutdown, MarkerSubscribers, ViconIsLost, bridgeVars
    <2>2. /\ bridgeLink' \in {"none", "up", "lost"}
          /\ at' \in {"connect", "mode", "grab", "fetch", "process", "markers", "shutdown",
                      "ended", "aborted"}
        BY <1>0, <1>4 DEF TryConnect, IsConnectedNow, InitVicon, GrabThread, GetFrameFails, ProcessMarkers,
             ShutdownVicon, RosShutdown, MarkerSubscribers, ViconIsLost, bridgeVars, BridgeTypeOK
    <2>3. BridgeTypeOK' /\ FramesInOrder' /\ AccountsAddUp'
        BY <1>0, <2>1, <2>2 DEF BridgeTypeOK, FramesInOrder, NotAfter, AccountsAddUp, FirstNumber,
             NumbersOf, Missed, AfterGap
    <2>4. /\ at' = "process" => ~ok' \/ (at = "process" /\ (ok' => ok))
          /\ Leaving => Leaving'
          /\ bridgeLink # "up" /\ at # "connect" => bridgeLink' # "up" /\ at' # "connect"
          /\ at' \in {"connect", "mode"} => at \in {"connect", "mode"}
        BY <1>4 DEF TryConnect, IsConnectedNow, InitVicon, GrabThread, GetFrameFails, ProcessMarkers,
             ShutdownVicon, RosShutdown, MarkerSubscribers, ViconIsLost, bridgeVars, Leaving
    <2>5. ZeroIsLast'
        BY <1>0, <2>1, <2>4 DEF ZeroIsLast
    <2> QED
        BY <2>3, <2>5 DEF BridgeInv
<1> QED
    BY <1>1, <1>2, <1>3, <1>4 DEF BridgeNext, MainThread

\* The diagnostics of the node are true of the frames it has grabbed, whatever
\* number the server counts to and wherever the node's counters wrap.
THEOREM DiagnosticsAddUp == BridgeSpec => []AccountsAddUp
<1>1. BridgeInit => BridgeInv
    <2> SUFFICES ASSUME BridgeInit PROVE BridgeInv
        OBVIOUS
    <2>1. BridgeTypeOK
        BY FrameGrabbingAssumption DEF BridgeInit, BridgeTypeOK
    <2> QED
        BY <2>1 DEF BridgeInit, BridgeInv, FramesInOrder, NotAfter, ZeroIsLast, AccountsAddUp
<1>2. BridgeInv => AccountsAddUp
    BY DEF BridgeInv
<1> QED
    BY <1>1, <1>2, BridgeStep, PTL DEF BridgeSpec

-----------------------------------------------------------------------------
(* TimingLog: the operators on headings.                                     *)

CountsMatches(m, h2, h1) ==
    /\ m \in [0 .. Len(h1) -> 0 .. Len(h2)]
    /\ m[0] = 0
    /\ \A i \in 1 .. Len(h1) :
          m[i] = IF m[i - 1] < Len(h2) /\ h1[i] = h2[m[i - 1] + 1] THEN m[i - 1] + 1 ELSE m[i - 1]

\* The count of the headings that are found goes up by the ones that match.
LEMMA MatchedProperties ==
    ASSUME NEW S, NEW h2 \in Seq(S), NEW h1 \in Seq(S)
    PROVE  CountsMatches(Matched(h2, h1), h2, h1)
<1>0. PICK m : m = Matched(h2, h1)
    OBVIOUS
<1> DEFINE Found(f) ==
        f = [i \in 0 .. Len(h1) |->
                IF i = 0 THEN 0
                ELSE IF f[i - 1] < Len(h2) /\ h1[i] = h2[f[i - 1] + 1] THEN f[i - 1] + 1 ELSE f[i - 1]]
<1>1. PICK n \in Nat, l \in Nat : n = Len(h1) /\ l = Len(h2)
    OBVIOUS
<1>2. \E f : Found(f)
    <2> DEFINE step == [i \in 1 .. n |-> [x \in 0 .. l |->
                           IF x < l /\ h1[i] = h2[x + 1] THEN x + 1 ELSE x]]
    <2>1. 0 \in 0 .. l /\ step \in [1 .. n -> [0 .. l -> 0 .. l]]
        OBVIOUS
    <2>2. \A i \in 1 .. n, x \in 0 .. l :
             step[i][x] = IF x < l /\ h1[i] = h2[x + 1] THEN x + 1 ELSE x
        OBVIOUS
    <2> HIDE DEF step
    <2>3. PICK f : Stepwise(f, n, 0 .. l, 0, step)
        BY <2>1, StepwiseFunction
    <2>9. f \in [0 .. n -> 0 .. l] /\ f[0] = 0 /\ \A i \in 1 .. n : f[i] = step[i][f[i - 1]]
        BY <2>3 DEF Stepwise
    <2>4. ASSUME NEW i \in 1 .. n
          PROVE  f[i] = IF f[i - 1] < l /\ h1[i] = h2[f[i - 1] + 1] THEN f[i - 1] + 1 ELSE f[i - 1]
        <3>1. i - 1 \in 0 .. n
            OBVIOUS
        <3>2. PICK x \in 0 .. l : x = f[i - 1]
            BY <2>9, <3>1
        <3>3. f[i] = step[i][x]
            BY <2>9, <3>2
        <3> QED
            BY <2>2, <3>2, <3>3
    <2>5. \A i \in 0 .. n : i # 0 => i \in 1 .. n
        OBVIOUS
    <2>6. Found(f)
        BY <1>1, <2>4, <2>5, <2>9
    <2> QED
        BY <2>6
<1>3. m = CHOOSE f : Found(f)
    BY <1>0 DEF Matched
<1>4. Found(m)
    <2> HIDE DEF Found
    <2> QED
        BY <1>2, <1>3
<1>5. /\ DOMAIN m = 0 .. n
      /\ m[0] = 0
      /\ \A i \in 1 .. n :
            m[i] = IF m[i - 1] < l /\ h1[i] = h2[m[i - 1] + 1] THEN m[i - 1] + 1 ELSE m[i - 1]
    <2>1. m = [i \in 0 .. n |->
                IF i = 0 THEN 0
                ELSE IF m[i - 1] < l /\ h1[i] = h2[m[i - 1] + 1] THEN m[i - 1] + 1 ELSE m[i - 1]]
        BY <1>1, <1>4
    <2>2. 0 \in 0 .. n /\ \A i \in 1 .. n : i \in 0 .. n /\ i # 0
        OBVIOUS
    <2> HIDE DEF Found
    <2> QED
        BY <2>1, <2>2
<1>6. \A i \in 0 .. n : m[i] \in 0 .. l
    <2> DEFINE G == { i \in 0 .. n : m[i] \in 0 .. l }
    <2>1. 0 \in G
        BY <1>5
    <2>2. \A i \in 1 .. n : i - 1 \in G => i \in G
        BY <1>5
    <2> HIDE DEF G
    <2>3. \A i \in 0 .. n : i \in G
        BY <2>1, <2>2, CountingUp
    <2> QED
        BY <2>3 DEF G
<1>7. m = [i \in 0 .. n |-> m[i]]
    BY <1>1, <1>4
<1>8. m \in [0 .. n -> 0 .. l]
    BY <1>5, <1>6, <1>7
<1>9. CountsMatches(m, h2, h1)
    BY <1>1, <1>5, <1>8 DEF CountsMatches
<1> QED
    BY <1>0, <1>9

\* Latencies that are all found are not more than the headings.
LEMMA MatchedBounds ==
    ASSUME NEW S, NEW h2 \in Seq(S), NEW h1 \in Seq(S), NEW m, m = Matched(h2, h1)
    PROVE  \A i \in 0 .. Len(h1) : m[i] <= i
<1>9. CountsMatches(m, h2, h1)
    BY MatchedProperties
<1>1. PICK n \in Nat, l \in Nat : n = Len(h1) /\ l = Len(h2)
    OBVIOUS
<1>0. /\ m \in [0 .. Len(h1) -> 0 .. Len(h2)]
      /\ m[0] = 0
      /\ \A i \in 1 .. Len(h1) :
            m[i] = IF m[i - 1] < Len(h2) /\ h1[i] = h2[m[i - 1] + 1] THEN m[i - 1] + 1 ELSE m[i - 1]
    BY <1>9 DEF CountsMatches
<1>2. /\ m \in [0 .. n -> 0 .. l]
      /\ m[0] = 0
      /\ \A i \in 1 .. n : m[i] = m[i - 1] + 1 \/ m[i] = m[i - 1]
    BY <1>0, <1>1
<1> DEFINE G == { i \in 0 .. n : m[i] <= i }
<1>3. 0 \in G
    BY <1>2
<1>4. ASSUME NEW i \in 1 .. n, i - 1 \in G PROVE i \in G
    <2>1. /\ i - 1 \in 0 .. n /\ i \in 0 .. n /\ i \in Nat
          /\ m[i - 1] \in Nat /\ m[i - 1] <= i - 1
        BY <1>2, <1>4
    <2>2. m[i] <= i
        <3>1. PICK x \in Nat : x = m[i - 1]
            BY <2>1
        <3>2. m[i] = x + 1 \/ m[i] = x
            BY <1>2, <3>1
        <3> QED
            BY <2>1, <3>1, <3>2
    <2> QED
        BY <2>1, <2>2
<1> HIDE DEF G
<1>5. \A i \in 1 .. n : i - 1 \in G => i \in G
    BY <1>4
<1>6. \A i \in 0 .. n : i \in G
    BY <1>3, <1>5, CountingUp
<1> QED
    BY <1>1, <1>6 DEF G

LEMMA WithinIsCompared ==
    ASSUME NEW S, NEW h2 \in Seq(S), NEW h1 \in Seq(S), Within(h2, h1)
    PROVE  Len(h2) <= Len(h1) /\ CompareHeadings(h1, h2) \in {"Same", "Subset"}
<1>1. PICK n \in Nat, l \in Nat : n = Len(h1) /\ l = Len(h2)
    OBVIOUS
<1>2. PICK m : m = Matched(h2, h1)
    OBVIOUS
<1>3. m[n] <= n
    <2>1. n \in 0 .. n
        OBVIOUS
    <2> QED
        BY <1>1, <1>2, <2>1, MatchedBounds
<1>4. l <= n
    BY <1>1, <1>2, <1>3 DEF Within
<1> QED
    BY <1>1, <1>4 DEF CompareHeadings

\* A column is empty or has the latency of its heading.
LEMMA ColumnsUnderHeadings ==
    ASSUME NEW S, NEW h \in Seq(S), NEW latencies \in Seq(S)
    PROVE  /\ LogLatencies(h, latencies) \in Seq(S \cup {Empty})
           /\ \A k \in DOMAIN LogLatencies(h, latencies) :
                 LogLatencies(h, latencies)[k] \in {Empty, h[k]}
<1>1. PICK n \in Nat, l \in Nat : n = Len(h) /\ l = Len(latencies)
    OBVIOUS
<1>2. PICK m : m = Matched(latencies, h)
    OBVIOUS
<1>3. CASE CompareHeadings(h, latencies) \in {"Same", "Subset"}
    <2>1. LogLatencies(h, latencies) =
              [i \in DOMAIN h |-> IF m[i] > m[i - 1] THEN latencies[m[i]] ELSE Empty]
        BY <1>2, <1>3 DEF LogLatencies
    <2>2. PICK columns : columns = LogLatencies(h, latencies)
        OBVIOUS
    <2>6. /\ DOMAIN columns = 1 .. n
          /\ columns = [i \in 1 .. n |-> columns[i]]
          /\ \A k \in 1 .. n : columns[k] = IF m[k] > m[k - 1] THEN latencies[m[k]] ELSE Empty
        <3>1. DOMAIN h = 1 .. n
            BY <1>1
        <3> QED
            BY <2>1, <2>2, <3>1
    <2>3. ASSUME NEW k \in 1 .. n PROVE columns[k] \in {Empty, h[k]}
        <3>0. CountsMatches(m, latencies, h)
            BY <1>2, MatchedProperties
        <3>1. /\ m \in [0 .. Len(h) -> 0 .. Len(latencies)]
              /\ \A i \in 1 .. Len(h) :
                    m[i] = IF m[i - 1] < Len(latencies) /\ h[i] = latencies[m[i - 1] + 1]
                           THEN m[i - 1] + 1 ELSE m[i - 1]
            BY <3>0 DEF CountsMatches
        <3>2. k - 1 \in 0 .. n
            OBVIOUS
        <3>3. PICK x \in Nat : x = m[k - 1]
            <4>1. m[k - 1] \in 0 .. l
                BY <1>1, <3>1, <3>2
            <4> QED
                BY <4>1
        <3>4. m[k] = x \/ (m[k] = x + 1 /\ h[k] = latencies[x + 1])
            BY <1>1, <3>1, <3>3
        <3>5. CASE m[k] = x
            <4>1. ~(m[k] > m[k - 1])
                BY <3>3, <3>5
            <4> QED
                BY <2>6, <4>1
        <3>6. CASE m[k] = x + 1 /\ h[k] = latencies[x + 1]
            <4>1. m[k] > m[k - 1] /\ latencies[m[k]] = h[k]
                BY <3>3, <3>6
            <4> QED
                BY <2>6, <4>1
        <3> QED
            BY <3>4, <3>5, <3>6
    <2>4. \A k \in 1 .. n : columns[k] \in S \cup {Empty}
        <3>1. \A k \in 1 .. n : h[k] \in S
            BY <1>1
        <3> QED
            BY <2>3, <3>1
    <2>5. columns \in Seq(S \cup {Empty})
        <3>1. PICK T : T = S \cup {Empty}
            OBVIOUS
        <3>2. columns \in [1 .. n -> T]
            BY <2>4, <2>6, <3>1
        <3>3. columns \in Seq(T)
            BY <3>2
        <3> QED
            BY <3>1, <3>3
    <2> QED
        BY <2>2, <2>3, <2>5, <2>6
<1>4. CASE CompareHeadings(h, latencies) \notin {"Same", "Subset"}
    <2>1. LogLatencies(h, latencies) = <<>>
        BY <1>4 DEF LogLatencies
    <2> QED
        BY <2>1
<1> QED
    BY <1>3, <1>4

FillsFrom(f, columns) ==
    /\ f[0] = <<>>
    /\ \A i \in 1 .. Len(columns) :
          f[i] = IF columns[i] = Empty THEN f[i - 1] ELSE Append(f[i - 1], columns[i])

\* The columns that are not empty are gathered one by one.
LEMMA FilledProperties ==
    ASSUME NEW S, NEW columns \in Seq(S)
    PROVE  \E f : FillsFrom(f, columns) /\ Filled(columns) = f[Len(columns)]
<1> DEFINE Fills(f) ==
        f = [i \in 0 .. Len(columns) |->
                IF i = 0 THEN <<>>
                ELSE IF columns[i] = Empty THEN f[i - 1] ELSE Append(f[i - 1], columns[i])]
<1>1. PICK n \in Nat : n = Len(columns)
    OBVIOUS
<1>2. \E f : Fills(f)
    <2> DEFINE step == [i \in 1 .. n |-> [x \in Seq(S) |->
                           IF columns[i] = Empty THEN x ELSE Append(x, columns[i])]]
    <2>1. <<>> \in Seq(S) /\ step \in [1 .. n -> [Seq(S) -> Seq(S)]]
        BY <1>1
    <2>2. \A i \in 1 .. n, x \in Seq(S) :
             step[i][x] = IF columns[i] = Empty THEN x ELSE Append(x, columns[i])
        OBVIOUS
    <2> HIDE DEF step
    <2>3. PICK f : Stepwise(f, n, Seq(S), <<>>, step)
        BY <2>1, StepwiseFunction
    <2>4. f \in [0 .. n -> Seq(S)] /\ f[0] = <<>> /\ \A i \in 1 .. n : f[i] = step[i][f[i - 1]]
        BY <2>3 DEF Stepwise
    <2>5. ASSUME NEW i \in 1 .. n
          PROVE  f[i] = IF columns[i] = Empty THEN f[i - 1] ELSE Append(f[i - 1], columns[i])
        <3>1. i - 1 \in 0 .. n
            OBVIOUS
        <3>2. PICK x \in Seq(S) : x = f[i - 1]
            BY <2>4, <3>1
        <3>3. f[i] = step[i][x]
            BY <2>4, <3>2
        <3> QED
            BY <2>2, <3>2, <3>3
    <2>6. \A i \in 0 .. n : i # 0 => i \in 1 .. n
        OBVIOUS
    <2>7. Fills(f)
        BY <1>1, <2>4, <2>5, <2>6
    <2> QED
        BY <2>7
<1>3. PICK f : f = CHOOSE g : Fills(g)
    OBVIOUS
<1>4. Fills(f)
    <2> HIDE DEF Fills
    <2> QED
        BY <1>2, <1>3
<1>5. Filled(columns) = f[Len(columns)]
    BY <1>3 DEF Filled
<1>6. FillsFrom(f, columns)
    <2>1. f = [i \in 0 .. n |->
                IF i = 0 THEN <<>>
                ELSE IF columns[i] = Empty THEN f[i - 1] ELSE Append(f[i - 1], columns[i])]
        BY <1>1, <1>4
    <2>2. 0 \in 0 .. n /\ \A i \in 1 .. n : i \in 0 .. n /\ i # 0
        OBVIOUS
    <2> HIDE DEF Fills
    <2>3. f[0] = <<>>
        BY <2>1, <2>2
    <2>4. \A i \in 1 .. n :
             f[i] = IF columns[i] = Empty THEN f[i - 1] ELSE Append(f[i - 1], columns[i])
        BY <2>1, <2>2
    <2> QED
        BY <1>1, <2>3, <2>4 DEF FillsFrom
<1> QED
    BY <1>5, <1>6

\* Latencies that all have a heading are all written.
LEMMA AllAreWritten ==
    ASSUME NEW S, Empty \notin S, NEW h \in Seq(S), NEW latencies \in Seq(S), Within(latencies, h)
    PROVE  Filled(LogLatencies(h, latencies)) = latencies
<1>1. PICK n \in Nat, l \in Nat : n = Len(h) /\ l = Len(latencies)
    OBVIOUS
<1>2. PICK m : m = Matched(latencies, h)
    OBVIOUS
<1>3. CountsMatches(m, latencies, h)
    BY <1>2, MatchedProperties
<1>4. /\ m \in [0 .. n -> 0 .. l]
      /\ m[0] = 0
      /\ \A i \in 1 .. n :
            m[i] = IF m[i - 1] < l /\ h[i] = latencies[m[i - 1] + 1] THEN m[i - 1] + 1 ELSE m[i - 1]
    BY <1>1, <1>3 DEF CountsMatches
<1>5. CompareHeadings(h, latencies) \in {"Same", "Subset"}
    BY WithinIsCompared
<1>6. LogLatencies(h, latencies) =
          [i \in DOMAIN h |-> IF m[i] > m[i - 1] THEN latencies[m[i]] ELSE Empty]
    BY <1>2, <1>5 DEF LogLatencies
<1>7. PICK columns : columns = LogLatencies(h, latencies)
    OBVIOUS
<1>8. /\ DOMAIN columns = 1 .. n
      /\ \A k \in 1 .. n : columns[k] = IF m[k] > m[k - 1] THEN latencies[m[k]] ELSE Empty
    <2>1. DOMAIN h = 1 .. n
        BY <1>1
    <2> QED
        BY <1>6, <1>7, <2>1
<1>9. columns \in Seq(S \cup {Empty}) /\ Len(columns) = n
    <2>1. columns \in Seq(S \cup {Empty})
        BY <1>7, ColumnsUnderHeadings
    <2> QED
        BY <1>8, <2>1
<1>10. PICK f : FillsFrom(f, columns) /\ Filled(columns) = f[Len(columns)]
    BY <1>9, FilledProperties
<1> DEFINE Prefix(i) == /\ f[i] \in Seq(S) /\ Len(f[i]) = m[i]
                        /\ \A k \in 1 .. m[i] : f[i][k] = latencies[k]
<1> DEFINE G == { i \in 0 .. n : Prefix(i) }
<1>11. 0 \in G
    <2>1. m[0] = 0 /\ f[0] = <<>> /\ 0 \in 0 .. n
        BY <1>4, <1>10 DEF FillsFrom
    <2>2. Prefix(0)
        BY <2>1
    <2> QED
        BY <2>1, <2>2
<1>12. ASSUME NEW i \in 1 .. n, i - 1 \in G PROVE i \in G
    <2>1. Prefix(i - 1) /\ i - 1 \in 0 .. n /\ i \in 0 .. n
        BY <1>12
    <2>2. PICK x \in 0 .. l, s \in Seq(S) : x = m[i - 1] /\ s = f[i - 1]
        BY <1>4, <2>1
    <2>3. Len(s) = x /\ \A k \in 1 .. x : s[k] = latencies[k]
        BY <2>1, <2>2
    <2>4. f[i] = IF columns[i] = Empty THEN s ELSE Append(s, columns[i])
        BY <1>9, <1>10, <2>2 DEF FillsFrom
    <2>5. m[i] = IF x < l /\ h[i] = latencies[x + 1] THEN x + 1 ELSE x
        BY <1>4, <2>2
    <2>6. CASE x < l /\ h[i] = latencies[x + 1]
        <3>1. m[i] = x + 1 /\ m[i] > m[i - 1] /\ x + 1 \in 1 .. l
            BY <2>2, <2>5, <2>6
        <3>2. latencies[x + 1] \in S
            BY <1>1, <3>1
        <3>3. columns[i] = latencies[x + 1] /\ columns[i] # Empty
            BY <1>8, <3>1, <3>2
        <3>4. f[i] = Append(s, latencies[x + 1])
            BY <2>4, <3>3
        <3>5. Prefix(i)
            BY <2>2, <2>3, <3>1, <3>2, <3>4
        <3> QED
            BY <2>1, <3>5
    <2>7. CASE ~(x < l /\ h[i] = latencies[x + 1])
        <3>1. m[i] = x /\ ~(m[i] > m[i - 1])
            BY <2>2, <2>5, <2>7
        <3>2. columns[i] = Empty
            BY <1>8, <3>1
        <3>3. f[i] = s
            BY <2>4, <3>2
        <3>4. Prefix(i)
            BY <2>2, <2>3, <3>1, <3>3
        <3> QED
            BY <2>1, <3>4
    <2> QED
        BY <2>6, <2>7
<1> HIDE DEF G
<1>13. \A i \in 1 .. n : i - 1 \in G => i \in G
    BY <1>12
<1>14. \A i \in 0 .. n : i \in G
    BY <1>11, <1>13, CountingUp
<1>15. Prefix(n)
    <2>1. n \in G
        BY <1>14
    <2> QED
        BY <2>1 DEF G
<1>16. m[n] = l
    BY <1>1, <1>2 DEF Within
<1>17. f[n] = latencies
    BY <1>1, <1>15, <1>16, SeqEqual
<1> QED
    BY <1>7, <1>9, <1>10, <1>17

GrowsFrom(f, items) ==
    /\ f[0] = <<>>
    /\ \A i \in 1 .. Len(items) :
          f[i] = IF CompareHeadings(items[i].latencies, f[i - 1]) = "Subset"
                 THEN items[i].latencies ELSE f[i - 1]

LEMMA ItemsOf ==
    ASSUME NEW items \in Seq(Items)
    PROVE  /\ Len(items) \in Nat /\ DOMAIN items = 1 .. Len(items)
           /\ \A i \in 1 .. Len(items) : /\ items[i].number \in Nat \ {0}
                                         /\ items[i].latencies \in LatencyLists
                                         /\ items[i].latencies \in Seq(LatencyNames)
<1>1. \A i \in 1 .. Len(items) : items[i] \in Items
    BY ElementOfSeq
<1> QED
    BY <1>1, TimingLogAssumption DEF Items

\* Headings are chosen from the items by going through them once.
LEMMA HeadingsProperties ==
    ASSUME NEW items \in Seq(Items)
    PROVE  \E f : GrowsFrom(f, items) /\ HeadingsOf(items) = f[Len(items)]
<1> DEFINE Grows(f) ==
        f = [i \in 0 .. Len(items) |->
                IF i = 0 THEN <<>>
                ELSE IF CompareHeadings(items[i].latencies, f[i - 1]) = "Subset"
                     THEN items[i].latencies ELSE f[i - 1]]
<1>0. PICK n \in Nat : n = Len(items)
    OBVIOUS
<1>7. PICK S : S = LatencyLists \cup {<<>>}
    OBVIOUS
<1>1. n = Len(items) /\ S = LatencyLists \cup {<<>>}
    BY <1>0, <1>7
<1>2. \E f : Grows(f)
    <2> DEFINE step == [i \in 1 .. n |-> [x \in S |->
                           IF CompareHeadings(items[i].latencies, x) = "Subset"
                           THEN items[i].latencies ELSE x]]
    <2>1. <<>> \in S /\ step \in [1 .. n -> [S -> S]]
        BY <1>1, ItemsOf
    <2>2. \A i \in 1 .. n, x \in S :
             step[i][x] = IF CompareHeadings(items[i].latencies, x) = "Subset"
                          THEN items[i].latencies ELSE x
        OBVIOUS
    <2> HIDE DEF step
    <2>3. PICK f : Stepwise(f, n, S, <<>>, step)
        BY <2>1, StepwiseFunction
    <2>4. f \in [0 .. n -> S] /\ f[0] = <<>> /\ \A i \in 1 .. n : f[i] = step[i][f[i - 1]]
        BY <2>3 DEF Stepwise
    <2>5. ASSUME NEW i \in 1 .. n
          PROVE  f[i] = IF CompareHeadings(items[i].latencies, f[i - 1]) = "Subset"
                        THEN items[i].latencies ELSE f[i - 1]
        <3>1. i - 1 \in 0 .. n
            OBVIOUS
        <3>2. PICK x \in S : x = f[i - 1]
            BY <2>4, <3>1
        <3>3. f[i] = step[i][x]
            BY <2>4, <3>2
        <3> QED
            BY <2>2, <3>2, <3>3
    <2>6. \A i \in 0 .. n : i # 0 => i \in 1 .. n
        OBVIOUS
    <2>7. Grows(f)
        BY <1>1, <2>4, <2>5, <2>6
    <2> QED
        BY <2>7
<1>3. PICK f : f = CHOOSE g : Grows(g)
    OBVIOUS
<1>4. Grows(f)
    <2> HIDE DEF Grows
    <2> QED
        BY <1>2, <1>3
<1>5. HeadingsOf(items) = f[Len(items)]
    BY <1>3 DEF HeadingsOf
<1>6. GrowsFrom(f, items)
    <2>1. f = [i \in 0 .. n |->
                IF i = 0 THEN <<>>
                ELSE IF CompareHeadings(items[i].latencies, f[i - 1]) = "Subset"
                     THEN items[i].latencies ELSE f[i - 1]]
        BY <1>1, <1>4
    <2>2. 0 \in 0 .. n /\ \A i \in 1 .. n : i \in 0 .. n /\ i # 0
        OBVIOUS
    <2> HIDE DEF Grows
    <2>3. f[0] = <<>>
        BY <2>1, <2>2
    <2>4. \A i \in 1 .. n :
             f[i] = IF CompareHeadings(items[i].latencies, f[i - 1]) = "Subset"
                    THEN items[i].latencies ELSE f[i - 1]
        BY <2>1, <2>2
    <2> QED
        BY <1>1, <2>3, <2>4 DEF GrowsFrom
<1> QED
    BY <1>5, <1>6

\* Latencies that are there are headings before none are.
LEMMA NoneWithin ==
    ASSUME NEW S, NEW h \in Seq(S), h # <<>>
    PROVE  CompareHeadings(h, <<>>) = "Subset" /\ CompareHeadings(<<>>, h) # "Subset"
<1>0. PICK none : none = <<>>
    OBVIOUS
<1>1. none = <<>> /\ none \in Seq(S)
    BY <1>0
<1>2. PICK m : m = Matched(none, h)
    OBVIOUS
<1>3. CountsMatches(m, none, h)
    BY <1>1, <1>2, MatchedProperties
<1>4. PICK n \in Nat : n = Len(h)
    OBVIOUS
<1>5. Len(none) = 0 /\ n > 0
    BY <1>1, <1>4
<1>6. m[n] = 0
    <2>1. m \in [0 .. n -> 0 .. 0]
        BY <1>3, <1>4, <1>5 DEF CountsMatches
    <2>2. n \in 0 .. n
        OBVIOUS
    <2> QED
        BY <2>1, <2>2
<1>7. Within(none, h)
    BY <1>2, <1>4, <1>5, <1>6 DEF Within
<1> QED
    BY <1>1, <1>4, <1>5, <1>7 DEF CompareHeadings

\* The headings are those of a frame; there are none if no frame has latencies.
LEMMA HeadingsOfItems ==
    ASSUME NEW items \in Seq(Items)
    PROVE  /\ HeadingsOf(items) \in LatencyLists \cup {<<>>}
           /\ HeadingsOf(items) = <<>> => \A i \in 1 .. Len(items) : items[i].latencies = <<>>
<1>1. PICK n \in Nat : n = Len(items)
    OBVIOUS
<1>2. PICK f : GrowsFrom(f, items) /\ HeadingsOf(items) = f[n]
    BY <1>1, HeadingsProperties
<1> DEFINE Good(i) == /\ f[i] \in LatencyLists \cup {<<>>}
                      /\ f[i] = <<>> => \A k \in 1 .. i : items[k].latencies = <<>>
<1> DEFINE G == { i \in 0 .. n : Good(i) }
<1>3. 0 \in G
    <2>1. f[0] = <<>> /\ 0 \in 0 .. n
        BY <1>2 DEF GrowsFrom
    <2> QED
        BY <2>1
<1>4. ASSUME NEW i \in 1 .. n, i - 1 \in G PROVE i \in G
    <2>1. Good(i - 1) /\ i \in 0 .. n
        BY <1>4
    <2>2. PICK x, y : x = items[i].latencies /\ y = f[i - 1]
        OBVIOUS
    <2>3. x \in LatencyLists /\ x \in Seq(LatencyNames)
        BY <1>1, <2>2, ItemsOf
    <2>4. f[i] = IF CompareHeadings(x, y) = "Subset" THEN x ELSE y
        BY <1>1, <1>2, <2>2 DEF GrowsFrom
    <2>5. f[i] \in LatencyLists \cup {<<>>}
        BY <2>1, <2>2, <2>3, <2>4
    <2>6. ASSUME f[i] = <<>> PROVE x = <<>> /\ y = <<>>
        <3>1. y \in Seq(LatencyNames)
            <4>1. y \in LatencyLists \/ y = <<>>
                BY <2>1, <2>2
            <4>2. <<>> \in Seq(LatencyNames)
                OBVIOUS
            <4> QED
                BY <4>1, <4>2, TimingLogAssumption
        <3> QED
            BY <2>3, <2>4, <2>6, <3>1, NoneWithin
    <2>7. \A k \in 1 .. i : k = i \/ k \in 1 .. i - 1
        OBVIOUS
    <2>8. Good(i)
        BY <2>1, <2>2, <2>5, <2>6, <2>7
    <2> QED
        BY <2>1, <2>8
<1> HIDE DEF G
<1>5. \A i \in 1 .. n : i - 1 \in G => i \in G
    BY <1>4
<1>6. \A i \in 0 .. n : i \in G
    BY <1>3, <1>5, CountingUp
<1>7. n \in G
    BY <1>6
<1>8. Good(n)
    BY <1>7 DEF G
<1> QED
    BY <1>1, <1>2, <1>8

LEMMA LinesOf ==
    ASSUME NEW lines \in Seq(Lines)
    PROVE  /\ Len(lines) \in Nat /\ DOMAIN lines = 1 .. Len(lines)
           /\ \A i \in 1 .. Len(lines) : lines[i] \in Lines /\ lines[i].number \in Nat
<1>1. \A i \in 1 .. Len(lines) : lines[i] \in Lines
    BY ElementOfSeq
<1> QED
    BY <1>1 DEF Lines

\* A line for an item is a line of the file, with the number of the item.
LEMMA LineOfItem ==
    ASSUME NEW h \in Seq(LatencyNames), NEW item \in Items
    PROVE  /\ LineOf(h, item) \in Lines
           /\ LineOf(h, item).number = item.number /\ item.number \in Nat \ {0}
           /\ LineOf(h, item).names = item.latencies /\ item.latencies \in LatencyLists
           /\ LineOf(h, item).columns = LogLatencies(h, item.latencies)
<1>1. /\ item.number \in Nat \ {0} /\ item.latencies \in LatencyLists
      /\ item.latencies \in Seq(LatencyNames)
    BY TimingLogAssumption DEF Items
<1>2. LogLatencies(h, item.latencies) \in Seq(Columns)
    BY <1>1, ColumnsUnderHeadings DEF Columns
<1> QED
    BY <1>1, <1>2 DEF LineOf, Lines

LEMMA HeadingsAreNames ==
    ASSUME NEW h \in LatencyLists \cup {<<>>}
    PROVE  h \in Seq(LatencyNames) /\ h \in Seq(Columns) /\ HeadingLine(h) \in Lines
<1>1. h \in Seq(LatencyNames)
    <2>1. <<>> \in Seq(LatencyNames)
        OBVIOUS
    <2> QED
        BY <2>1, TimingLogAssumption
<1>2. h \in Seq(Columns)
    <2>1. LatencyNames \subseteq Columns
        BY DEF Columns
    <2> QED
        BY <1>1, <2>1, SeqMonotonic
<1>3. <<>> \in Seq(LatencyNames)
    OBVIOUS
<1> QED
    BY <1>1, <1>2, <1>3 DEF HeadingLine, Lines

\* No names are written where there are no headings.
LEMMA NothingWritten == LogLatencies(<<>>, <<>>) = <<>> /\ Filled(<<>>) = <<>>
<1>0. PICK none : none = <<>>
    OBVIOUS
<1>1. none \in Seq(LatencyNames) /\ Len(none) = 0 /\ DOMAIN none = {}
    BY <1>0
<1>2. LogLatencies(none, none) = <<>>
    BY <1>1 DEF LogLatencies
<1>3. PICK f : FillsFrom(f, none) /\ Filled(none) = f[Len(none)]
    BY <1>1, FilledProperties
<1>4. Filled(none) = <<>>
    BY <1>1, <1>3 DEF FillsFrom
<1> QED
    BY <1>0, <1>2, <1>4

\* Steps that leave what is written and what is to be written as they are.
LEMMA ServiceStep ==
    ASSUME LogInv, CreateLog \/ CloseLog \/ CloseEnds \/ ServiceEnds \/ UNCHANGED logVars
    PROVE  LogInv'
<1>1. /\ UNCHANGED <<logged, mail, inHand, headings, preLogged, file>>
      /\ OpenWhileInHand'
    BY DEF LogInv, OpenWhileInHand, CreateLog, CloseLog, CloseEnds, ServiceEnds, logVars
<1>2. LogTypeOK' /\ FramesKept' /\ LinesNumbered' /\ LinesFilled'
    BY <1>1 DEF LogInv, LogTypeOK, FramesKept, InHandCount, LinesNumbered, InPreamble, LinesFilled
<1> QED
    BY <1>1, <1>2 DEF LogInv

LEMMA WriteToLogStep ==
    ASSUME LogInv, NEW latencies \in LatencyLists, WriteToLog(latencies)
    PROVE  LogInv'
<1>1. PICK item : item = [number |-> logged + 1, latencies |-> latencies]
    OBVIOUS
<1>2. /\ logged' = logged + 1 /\ mail' = Append(mail, item) /\ service # "none"
      /\ UNCHANGED <<service, inHand, logOpen, headings, preLogged, file>>
    BY <1>1 DEF WriteToLog
<1>3. /\ logged \in Nat /\ mail \in Seq(Items) /\ file \in Seq(Lines) /\ preLogged \in Seq(Items)
    BY DEF LogInv, LogTypeOK
<1>4. item \in Items /\ item.number = logged + 1
    BY <1>1, <1>3 DEF Items
<1>5. LogTypeOK' /\ OpenWhileInHand' /\ LinesNumbered' /\ LinesFilled'
    BY <1>2, <1>3, <1>4 DEF LogInv, LogTypeOK, OpenWhileInHand, LinesNumbered, InPreamble, LinesFilled
<1>0. PICK c \in Nat : c = InHandCount
    BY DEF InHandCount
<1>6. PICK n \in Nat, p \in Nat, k \in Nat :
        n = Len(file) /\ p = Len(preLogged) /\ c = InHandCount /\ k = Len(mail)
    BY <1>0, <1>3
<1>7. n + p + c + k = logged /\ \A i \in DOMAIN mail : mail[i].number = n + p + c + i
    BY <1>6 DEF LogInv, FramesKept
<1>8. /\ DOMAIN mail = 1 .. k /\ DOMAIN mail' = 1 .. k + 1 /\ Len(mail') = k + 1
      /\ mail'[k + 1] = item /\ \A i \in 1 .. k : mail'[i] = mail[i]
    BY <1>2, <1>3, <1>4, <1>6
<1>9. \A i \in DOMAIN mail' : mail'[i].number = n + p + c + i
    <2>1. (n + p + c) + (k + 1) = logged + 1
        BY <1>7
    <2>2. \A i \in 1 .. k + 1 : i = k + 1 \/ i \in 1 .. k
        OBVIOUS
    <2> QED
        BY <1>4, <1>7, <1>8, <2>1, <2>2
<1>10. InHandCount' = c
    BY <1>2, <1>6 DEF InHandCount
<1>11. n + p + c + (k + 1) = logged + 1
    BY <1>7
<1>12. FramesKept'
    BY <1>2, <1>6, <1>8, <1>9, <1>10, <1>11 DEF LogInv, FramesKept
<1> QED
    BY <1>5, <1>12 DEF LogInv

LEMMA TakeMailStep == ASSUME LogInv, TakeMail PROVE LogInv'
<1>1. /\ inHand = None /\ mail # <<>> /\ service \in {"running", "stopping"}
      /\ inHand' = Head(mail) /\ mail' = Tail(mail)
      /\ UNCHANGED <<logged, service, logOpen, headings, preLogged, file>>
    BY DEF TakeMail
<1>2. /\ logged \in Nat /\ mail \in Seq(Items) /\ file \in Seq(Lines) /\ preLogged \in Seq(Items)
    BY DEF LogInv, LogTypeOK
<1>3. /\ inHand' \in Items /\ mail' \in Seq(Items) /\ inHand' = mail[1]
      /\ Len(mail') = Len(mail) - 1 /\ \A i \in 1 .. Len(mail') : mail'[i] = mail[i + 1]
    BY <1>1, <1>2, HeadTailProperties
<1>4. inHand' # None
    BY <1>3 DEF Items, None
<1>5. LogTypeOK' /\ OpenWhileInHand' /\ LinesNumbered' /\ LinesFilled'
    BY <1>1, <1>2, <1>3 DEF LogInv, LogTypeOK, OpenWhileInHand, LinesNumbered, InPreamble, LinesFilled
<1>6. PICK n \in Nat, p \in Nat, k \in Nat :
        n = Len(file) /\ p = Len(preLogged) /\ k = Len(mail) /\ k > 0
    BY <1>1, <1>2
<1>7. InHandCount = 0 /\ InHandCount' = 1
    BY <1>1, <1>4 DEF InHandCount
<1>8. n + p + 0 + k = logged /\ \A i \in 1 .. k : mail[i].number = n + p + 0 + i
    BY <1>2, <1>6, <1>7 DEF LogInv, FramesKept
<1>9. Len(mail') = k - 1 /\ DOMAIN mail' = 1 .. k - 1
    BY <1>3, <1>6
<1>10. \A i \in DOMAIN mail' : mail'[i].number = n + p + 1 + i
    <2> TAKE i \in DOMAIN mail'
    <2>1. i + 1 \in 1 .. k /\ mail'[i] = mail[i + 1] /\ i \in Nat
        BY <1>3, <1>6, <1>9
    <2>2. mail'[i].number = n + p + 0 + (i + 1)
        BY <1>8, <2>1
    <2> QED
        BY <2>1, <2>2
<1>11. inHand'.number = n + p + 1
    BY <1>3, <1>6, <1>8
<1>12. n + p + 1 + Len(mail') = logged
    BY <1>6, <1>8, <1>9
<1>13. FramesKept'
    BY <1>1, <1>6, <1>7, <1>10, <1>11, <1>12 DEF LogInv, FramesKept
<1> QED
    BY <1>5, <1>13 DEF LogInv

\* The frame in hand is the next line, below headings that are there.
LEMMA LineWritten ==
    ASSUME LogInv, LogTimingFunction, inHand # None, headings # <<>>
    PROVE  LogInv'
<1>1. PICK line : line = LineOf(headings, inHand)
    OBVIOUS
<1>2. /\ logOpen /\ file' = Append(file, line) /\ inHand' = None
      /\ UNCHANGED <<logged, mail, service, logOpen, headings, preLogged>>
    BY <1>1 DEF LogInv, OpenWhileInHand, LogTimingFunction
<1>3. /\ logged \in Nat /\ mail \in Seq(Items) /\ file \in Seq(Lines)
      /\ inHand \in Items /\ preLogged = <<>> /\ headings \in LatencyLists \cup {<<>>}
      /\ LogPreamble \in Nat
    BY TimingLogAssumption DEF LogInv, LogTypeOK, FramesKept
<1>4. /\ line \in Lines /\ line.number = inHand.number /\ inHand.number \in Nat \ {0}
      /\ line.names \in LatencyLists /\ line.columns = LogLatencies(headings, line.names)
    BY <1>1, <1>3, LineOfItem, HeadingsAreNames
<1>5. PICK n \in Nat, k \in Nat : n = Len(file) /\ k = Len(mail)
    BY <1>3
<1>6. /\ DOMAIN file = 1 .. n /\ DOMAIN file' = 1 .. n + 1 /\ Len(file') = n + 1
      /\ file'[n + 1] = line /\ (\A i \in 1 .. n : file'[i] = file[i]) /\ file' \in Seq(Lines)
    BY <1>2, <1>3, <1>4, <1>5
<1>7. InHandCount = 1 /\ InHandCount' = 0 /\ Len(preLogged) = 0
    BY <1>2, <1>3 DEF InHandCount
<1>8. /\ n + 0 + 1 + k = logged /\ inHand.number = n + 0 + 1
      /\ \A i \in DOMAIN mail : mail[i].number = n + 0 + 1 + i
    BY <1>5, <1>7 DEF LogInv, FramesKept
<1>9. LogTypeOK' /\ OpenWhileInHand'
    BY <1>2, <1>6 DEF LogInv, LogTypeOK, OpenWhileInHand
<1>10. FramesKept'
    <2>1. (n + 1) + 0 + 0 + k = logged
        BY <1>8
    <2>2. DOMAIN mail = 1 .. k
        BY <1>3, <1>5
    <2>3. \A i \in DOMAIN mail : mail[i].number = (n + 1) + 0 + 0 + i
        BY <1>8, <2>2
    <2> QED
        BY <1>2, <1>3, <1>5, <1>6, <1>7, <2>1, <2>3 DEF FramesKept
<1>11. \A i \in 1 .. n + 1 : i = n + 1 \/ i \in 1 .. n
    OBVIOUS
<1>12. \A i \in 1 .. n : IsHeading(file[i]) => i + LogPreamble <= n
    BY <1>5, <1>6 DEF LogInv, LinesNumbered
<1>13. \A i \in 1 .. n : InPreamble(i)' <=> InPreamble(i)
    BY <1>4, <1>6, <1>8, <1>11 DEF InPreamble, IsHeading
<1>14. ~InPreamble(n + 1)'
    <2>1. SUFFICES ASSUME NEW p \in 1 .. n, IsHeading(file[p]), n + 1 \in p + 1 .. p + LogPreamble
                   PROVE  FALSE
        BY <1>4, <1>6, <1>8, <1>11 DEF InPreamble, IsHeading
    <2>2. p + LogPreamble <= n
        BY <1>12, <2>1
    <2> QED
        BY <1>3, <2>1, <2>2
<1>15. LinesNumbered'
    <2>1. ASSUME NEW i \in 1 .. n
          PROVE  IF IsHeading(file'[i]) THEN i + LogPreamble <= Len(file')
                 ELSE file'[i].number = IF InPreamble(i)' THEN i - 1 ELSE i
        <3>1. IsHeading(file'[i]) => i + LogPreamble <= n + 1
            BY <1>3, <1>6, <1>12
        <3>2. ~IsHeading(file[i]) => file[i].number = IF InPreamble(i) THEN i - 1 ELSE i
            BY <1>6 DEF LogInv, LinesNumbered
        <3> QED
            BY <1>6, <1>13, <3>1, <3>2
    <2>2. ~IsHeading(file'[n + 1]) /\ file'[n + 1].number = n + 1
        BY <1>4, <1>6, <1>8 DEF IsHeading
    <2> QED
        BY <1>6, <1>11, <1>14, <2>1, <2>2 DEF LinesNumbered
<1>16. LinesFilled'
    BY <1>2, <1>4, <1>6, <1>11 DEF LogInv, LinesFilled
<1> QED
    BY <1>9, <1>10, <1>15, <1>16 DEF LogInv

\* A frame waits for the preamble to be complete.
LEMMA FramePreLogged ==
    ASSUME LogInv, LogTimingFunction, inHand # None, headings = <<>>, Len(preLogged) < LogPreamble
    PROVE  LogInv'
<1>1. /\ logOpen /\ preLogged' = Append(preLogged, inHand) /\ inHand' = None
      /\ UNCHANGED <<logged, mail, service, logOpen, headings, file>>
    BY DEF LogInv, OpenWhileInHand, LogTimingFunction
<1>2. /\ logged \in Nat /\ mail \in Seq(Items) /\ file \in Seq(Lines)
      /\ inHand \in Items /\ preLogged \in Seq(Items) /\ LogPreamble \in Nat
    BY TimingLogAssumption DEF LogInv, LogTypeOK
<1>3. PICK n \in Nat, p \in Nat, k \in Nat : n = Len(file) /\ p = Len(preLogged) /\ k = Len(mail)
    BY <1>2
<1>4. /\ DOMAIN preLogged = 1 .. p /\ DOMAIN preLogged' = 1 .. p + 1 /\ Len(preLogged') = p + 1
      /\ preLogged'[p + 1] = inHand /\ (\A i \in 1 .. p : preLogged'[i] = preLogged[i])
      /\ preLogged' \in Seq(Items) /\ DOMAIN mail = 1 .. k
    BY <1>1, <1>2, <1>3
<1>5. InHandCount = 1 /\ InHandCount' = 0
    BY <1>1 DEF InHandCount
<1>6. /\ n + p + 1 + k = logged /\ inHand.number = n + p + 1
      /\ \A i \in 1 .. p : preLogged[i].number = n + i
      /\ \A i \in 1 .. k : mail[i].number = n + p + 1 + i
    BY <1>3, <1>4, <1>5 DEF LogInv, FramesKept
<1>7. LogTypeOK' /\ OpenWhileInHand' /\ LinesNumbered' /\ LinesFilled'
    <2>1. p + 1 <= LogPreamble
        BY <1>2, <1>3
    <2> QED
        BY <1>1, <1>4, <2>1 DEF LogInv, LogTypeOK, OpenWhileInHand, LinesNumbered, InPreamble, LinesFilled
<1>8. FramesKept'
    <2>1. n + (p + 1) + 0 + k = logged
        BY <1>6
    <2>2. \A i \in 1 .. p + 1 : i = p + 1 \/ i \in 1 .. p
        OBVIOUS
    <2>3. \A i \in 1 .. p + 1 : preLogged'[i].number = n + i
        BY <1>4, <1>6, <2>2
    <2>4. \A i \in 1 .. k : mail[i].number = n + (p + 1) + 0 + i
        BY <1>6
    <2> QED
        BY <1>1, <1>3, <1>4, <1>5, <2>1, <2>3, <2>4 DEF FramesKept
<1> QED
    BY <1>7, <1>8 DEF LogInv

Written(lines, h, items) ==
    Append(lines, HeadingLine(h)) \o [i \in DOMAIN items |-> LineOf(h, items[i])]

IsWritten(longer, lines, h, items) ==
    /\ longer \in Seq(Lines) /\ Len(longer) = Len(lines) + 1 + Len(items)
    /\ \A i \in 1 .. Len(lines) : longer[i] = lines[i]
    /\ longer[Len(lines) + 1] = HeadingLine(h)
    /\ \A i \in 1 .. Len(items) : longer[Len(lines) + 1 + i] = LineOf(h, items[i])

\* What the preamble turns into: a heading and a line for each of its frames.
LEMMA PreambleLines ==
    ASSUME NEW h \in LatencyLists \cup {<<>>}, NEW items \in Seq(Items), NEW lines \in Seq(Lines)
    PROVE  IsWritten(Written(lines, h, items), lines, h, items)
<1>0. PICK longer : longer = Written(lines, h, items)
    OBVIOUS
<1>1. PICK n \in Nat, p \in Nat : n = Len(lines) /\ p = Len(items)
    OBVIOUS
<1>2. PICK first : first = Append(lines, HeadingLine(h))
    OBVIOUS
<1>3. /\ first \in Seq(Lines) /\ Len(first) = n + 1
      /\ first[n + 1] = HeadingLine(h) /\ \A i \in 1 .. n : first[i] = lines[i]
    BY <1>1, <1>2, HeadingsAreNames
<1>4. PICK rest : rest = [i \in DOMAIN items |-> LineOf(h, items[i])]
    OBVIOUS
<1>5. /\ rest \in Seq(Lines) /\ Len(rest) = p
      /\ \A i \in 1 .. p : rest[i] = LineOf(h, items[i])
    <2>1. \A i \in 1 .. p : LineOf(h, items[i]) \in Lines
        <3> TAKE i \in 1 .. p
        <3>1. items[i] \in Items
            BY <1>1, ElementOfSeq
        <3> QED
            BY <3>1, HeadingsAreNames, LineOfItem
    <2>2. rest = [i \in 1 .. p |-> LineOf(h, items[i])]
        BY <1>1, <1>4
    <2>3. rest \in [1 .. p -> Lines] /\ \A i \in 1 .. p : rest[i] = LineOf(h, items[i])
        BY <2>1, <2>2
    <2>4. rest \in Seq(Lines)
        BY <2>3
    <2> QED
        BY <2>3, <2>4
<1>6. longer = first \o rest
    BY <1>0, <1>2, <1>4 DEF Written
<1>7. /\ longer \in Seq(Lines) /\ Len(longer) = (n + 1) + p
      /\ \A i \in 1 .. (n + 1) + p : longer[i] = IF i <= n + 1 THEN first[i] ELSE rest[i - (n + 1)]
    <2>1. first \in Seq(Lines) /\ rest \in Seq(Lines)
        BY <1>3, <1>5
    <2>2. /\ first \o rest \in Seq(Lines) /\ Len(first \o rest) = Len(first) + Len(rest)
          /\ \A i \in 1 .. Len(first) + Len(rest) :
                (first \o rest)[i] = IF i <= Len(first) THEN first[i] ELSE rest[i - Len(first)]
        BY <2>1, ConcatProperties
    <2> QED
        BY <1>3, <1>5, <1>6, <2>2
<1>8. \A i \in 1 .. n : longer[i] = lines[i]
    <2>1. \A i \in 1 .. n : i \in 1 .. (n + 1) + p /\ i <= n + 1
        OBVIOUS
    <2> QED
        BY <1>3, <1>7, <2>1
<1>9. longer[n + 1] = HeadingLine(h)
    BY <1>3, <1>7
<1>10. \A i \in 1 .. p : longer[n + 1 + i] = LineOf(h, items[i])
    <2> TAKE i \in 1 .. p
    <2>1. n + 1 + i \in 1 .. (n + 1) + p /\ ~(n + 1 + i <= n + 1) /\ (n + 1 + i) - (n + 1) = i
        OBVIOUS
    <2> QED
        BY <1>5, <1>7, <2>1
<1>11. IsWritten(longer, lines, h, items)
    BY <1>1, <1>7, <1>8, <1>9, <1>10 DEF IsWritten
<1> QED
    BY <1>0, <1>11

\* The frame that finds the preamble complete has it written, and is dropped.
LEMMA PreambleWritten ==
    ASSUME LogInv, LogTimingFunction, inHand # None, headings = <<>>, ~(Len(preLogged) < LogPreamble)
    PROVE  LogInv'
<1>1. PICK h : h = HeadingsOf(preLogged)
    OBVIOUS
<1>2. /\ logOpen /\ headings' = h /\ preLogged' = <<>> /\ inHand' = None
      /\ file' = Append(file, HeadingLine(h)) \o [i \in DOMAIN preLogged |-> LineOf(h, preLogged[i])]
      /\ UNCHANGED <<logged, mail, service, logOpen>>
    BY <1>1 DEF LogInv, OpenWhileInHand, LogTimingFunction
<1>3. /\ logged \in Nat /\ mail \in Seq(Items) /\ file \in Seq(Lines)
      /\ inHand \in Items /\ preLogged \in Seq(Items) /\ LogPreamble \in Nat
      /\ Len(preLogged) <= LogPreamble
    BY TimingLogAssumption DEF LogInv, LogTypeOK
<1>4. PICK n \in Nat, p \in Nat, k \in Nat : n = Len(file) /\ p = Len(preLogged) /\ k = Len(mail)
    BY <1>3
<1>5. p = LogPreamble /\ DOMAIN mail = 1 .. k /\ DOMAIN file = 1 .. n
    BY <1>3, <1>4
<1>6. /\ h \in LatencyLists \cup {<<>>}
      /\ h = <<>> => \A i \in 1 .. p : preLogged[i].latencies = <<>>
    BY <1>1, <1>3, <1>4, HeadingsOfItems
<1>7. /\ file' \in Seq(Lines) /\ Len(file') = n + 1 + p
      /\ \A i \in 1 .. n : file'[i] = file[i]
      /\ file'[n + 1] = HeadingLine(h)
      /\ \A i \in 1 .. p : file'[n + 1 + i] = LineOf(h, preLogged[i])
    <2>1. file' = Written(file, h, preLogged)
        BY <1>2 DEF Written
    <2>2. IsWritten(file', file, h, preLogged)
        BY <1>3, <1>6, <2>1, PreambleLines
    <2> QED
        BY <1>4, <2>2 DEF IsWritten
<1>8. InHandCount = 1 /\ InHandCount' = 0 /\ Len(preLogged') = 0 /\ DOMAIN preLogged' = {}
    BY <1>2 DEF InHandCount
<1>9. /\ n + p + 1 + k = logged
      /\ \A i \in 1 .. p : preLogged[i].number = n + i
      /\ \A i \in 1 .. k : mail[i].number = n + p + 1 + i
    <2>1. DOMAIN preLogged = 1 .. p
        BY <1>3, <1>4
    <2> QED
        BY <1>4, <1>5, <1>8, <2>1 DEF LogInv, FramesKept
<1>10. \A i \in 1 .. p :
          /\ file'[n + 1 + i].number = n + i
          /\ file'[n + 1 + i].names \in LatencyLists
          /\ file'[n + 1 + i].names = preLogged[i].latencies
          /\ file'[n + 1 + i].columns = LogLatencies(h, file'[n + 1 + i].names)
    <2> TAKE i \in 1 .. p
    <2>1. preLogged[i] \in Items
        BY <1>3, <1>4, ElementOfSeq
    <2>2. h \in Seq(LatencyNames)
        BY <1>6, HeadingsAreNames
    <2>3. PICK line : line = LineOf(h, preLogged[i])
        OBVIOUS
    <2>4. /\ line.number = preLogged[i].number /\ line.names = preLogged[i].latencies
          /\ preLogged[i].latencies \in LatencyLists
          /\ line.columns = LogLatencies(h, preLogged[i].latencies)
        BY <2>1, <2>2, <2>3, LineOfItem
    <2>5. file'[n + 1 + i] = line /\ preLogged[i].number = n + i
        BY <1>7, <1>9, <2>3
    <2> QED
        BY <2>4, <2>5
<1>11. /\ DOMAIN file' = 1 .. n + 1 + p
       /\ \A i \in 1 .. n + 1 + p : i \in 1 .. n \/ i = n + 1 \/ \E j \in 1 .. p : i = n + 1 + j
    <2>1. DOMAIN file' = 1 .. n + 1 + p
        BY <1>7
    <2>2. ASSUME NEW i \in 1 .. n + 1 + p, i \notin 1 .. n, i # n + 1
          PROVE  \E j \in 1 .. p : i = n + 1 + j
        <3>1. i - (n + 1) \in 1 .. p /\ i = n + 1 + (i - (n + 1))
            BY <2>2
        <3> QED
            BY <3>1
    <2> QED
        BY <2>1, <2>2
<1>12. /\ IsHeading(file'[n + 1])
       /\ \A i \in 1 .. p : ~IsHeading(file'[n + 1 + i])
    <2>1. IsHeading(file'[n + 1])
        BY <1>7 DEF IsHeading, HeadingLine
    <2>2. ASSUME NEW i \in 1 .. p PROVE ~IsHeading(file'[n + 1 + i])
        <3>1. file'[n + 1 + i].number = n + i
            BY <1>10, Zenon
        <3>2. n + i # 0
            OBVIOUS
        <3> QED
            BY <3>1, <3>2 DEF IsHeading
    <2> QED
        BY <2>1, <2>2
<1>13. LogTypeOK' /\ OpenWhileInHand'
    <2>1. 0 <= LogPreamble /\ preLogged' \in Seq(Items)
        BY <1>2, <1>3
    <2> QED
        BY <1>2, <1>6, <1>7, <1>8, <2>1 DEF LogInv, LogTypeOK, OpenWhileInHand
<1>14. FramesKept'
    <2>1. (n + 1 + p) + 0 + 0 + k = logged
        BY <1>9
    <2>2. \A i \in DOMAIN mail : mail[i].number = (n + 1 + p) + 0 + 0 + i
        BY <1>5, <1>9
    <2> QED
        BY <1>2, <1>4, <1>7, <1>8, <2>1, <2>2 DEF FramesKept
<1>15. \A i \in 1 .. n : InPreamble(i)' <=> InPreamble(i)
    <2> TAKE i \in 1 .. n
    <2>1. InPreamble(i) => InPreamble(i)'
        <3>1. ASSUME NEW q \in DOMAIN file, IsHeading(file[q]), i \in q + 1 .. q + LogPreamble
              PROVE  q \in DOMAIN file' /\ IsHeading(file'[q])
            BY <1>5, <1>7, <1>11, <3>1
        <3> QED
            BY <3>1 DEF InPreamble
    <2>2. ASSUME NEW q \in DOMAIN file', IsHeading(file'[q]), i \in q + 1 .. q + LogPreamble
          PROVE  InPreamble(i)
        <3>1. q \in 1 .. n
            <4>1. q # n + 1 /\ ~\E j \in 1 .. p : q = n + 1 + j
                BY <1>11, <2>2
            <4> QED
                BY <1>11, <4>1
        <3> QED
            BY <1>5, <1>7, <2>2, <3>1 DEF InPreamble
    <2>3. InPreamble(i)' => InPreamble(i)
        BY <2>2 DEF InPreamble
    <2> QED
        BY <2>1, <2>3
<1>16. \A i \in 1 .. p : InPreamble(n + 1 + i)'
    <2> TAKE i \in 1 .. p
    <2>1. n + 1 \in DOMAIN file' /\ n + 1 + i \in (n + 1) + 1 .. (n + 1) + LogPreamble
        BY <1>5, <1>11
    <2> QED
        BY <1>12, <2>1 DEF InPreamble
<1>17. LinesNumbered'
    <2>1. ASSUME NEW i \in 1 .. n
          PROVE  IF IsHeading(file'[i]) THEN i + LogPreamble <= Len(file')
                 ELSE file'[i].number = IF InPreamble(i)' THEN i - 1 ELSE i
        <3>1. IF IsHeading(file[i]) THEN i + LogPreamble <= n
              ELSE file[i].number = IF InPreamble(i) THEN i - 1 ELSE i
            BY <1>4, <1>5 DEF LogInv, LinesNumbered
        <3>2. i + LogPreamble <= n => i + LogPreamble <= n + 1 + p
            BY <1>3
        <3> QED
            BY <1>7, <1>15, <3>1, <3>2
    <2>2. (n + 1) + LogPreamble <= n + 1 + p
        BY <1>5
    <2>3. ASSUME NEW i \in 1 .. p PROVE file'[n + 1 + i].number = (n + 1 + i) - 1
        <3>1. file'[n + 1 + i].number = n + i
            BY <1>10, Zenon
        <3>2. n + i = (n + 1 + i) - 1
            OBVIOUS
        <3> QED
            BY <3>1, <3>2
    <2>4. ASSUME NEW i \in DOMAIN file'
          PROVE  IF IsHeading(file'[i]) THEN i + LogPreamble <= Len(file')
                 ELSE file'[i].number = IF InPreamble(i)' THEN i - 1 ELSE i
        <3>1. CASE i \in 1 .. n
            BY <2>1, <3>1
        <3>2. CASE i = n + 1
            BY <1>7, <1>12, <2>2, <3>2
        <3>3. CASE \E j \in 1 .. p : i = n + 1 + j
            BY <1>12, <1>16, <2>3, <3>3
        <3> QED
            BY <1>11, <3>1, <3>2, <3>3
    <2> QED
        BY <2>4 DEF LinesNumbered
<1>18. LinesFilled'
    <2>1. ASSUME NEW i \in 1 .. n, ~IsHeading(file'[i])
          PROVE  file'[i].names \in LatencyLists /\ file'[i].columns = <<>> /\ file'[i].names = <<>>
        BY <1>5, <1>7, <2>1 DEF LogInv, LinesFilled
    <2>2. ASSUME NEW i \in 1 .. p
          PROVE  /\ file'[n + 1 + i].names \in LatencyLists
                 /\ \/ h # <<>> /\ file'[n + 1 + i].columns = LogLatencies(h, file'[n + 1 + i].names)
                    \/ file'[n + 1 + i].columns = <<>> /\ file'[n + 1 + i].names = <<>>
        BY <1>6, <1>10, NothingWritten
    <2> QED
        <3> SUFFICES ASSUME NEW i \in DOMAIN file', ~IsHeading(file'[i])
                     PROVE  /\ file'[i].names \in LatencyLists
                            /\ \/ h # <<>> /\ file'[i].columns = LogLatencies(h, file'[i].names)
                               \/ file'[i].columns = <<>> /\ file'[i].names = <<>>
            BY <1>2 DEF LinesFilled
        <3>1. CASE i \in 1 .. n
            BY <2>1, <3>1
        <3>2. CASE \E j \in 1 .. p : i = n + 1 + j
            BY <2>2, <3>2
        <3> QED
            BY <1>11, <1>12, <3>1, <3>2
<1> QED
    BY <1>13, <1>14, <1>17, <1>18 DEF LogInv

LEMMA LogStep == LogInv /\ [LogNext]_logVars => LogInv'
<1> SUFFICES ASSUME LogInv, [LogNext]_logVars PROVE LogInv'
    OBVIOUS
<1>1. CASE LogTimingFunction
    <2>1. inHand # None
        BY <1>1 DEF LogTimingFunction
    <2> QED
        BY <1>1, <2>1, LineWritten, FramePreLogged, PreambleWritten
<1>2. CASE \E latencies \in LatencyLists : WriteToLog(latencies)
    BY <1>2, WriteToLogStep
<1>3. CASE CreateLog \/ CloseLog \/ CloseEnds \/ ServiceEnds \/ UNCHANGED logVars
    BY <1>3, ServiceStep
<1> QED
    BY <1>1, <1>2, <1>3, TakeMailStep DEF LogNext

\* Every line but a heading has the latencies that its frame came with, each
\* under its own heading, and the file has the frames in their order.
LEMMA LinesAreFaithful == LogInv => LogIsFaithful
<1> SUFFICES ASSUME LogInv, NEW i \in DOMAIN file, ~IsHeading(file[i])
             PROVE  /\ file[i].number = IF InPreamble(i) THEN i - 1 ELSE i
                    /\ \A k \in DOMAIN file[i].columns : file[i].columns[k] \in {Empty, headings[k]}
                    /\ Within(file[i].names, headings) => Filled(file[i].columns) = file[i].names
    BY DEF LogIsFaithful
<1>1. file[i].number = IF InPreamble(i) THEN i - 1 ELSE i
    BY DEF LogInv, LinesNumbered
<1>2. PICK names, columns : names = file[i].names /\ columns = file[i].columns
    OBVIOUS
<1>3. /\ names \in LatencyLists
      /\ \/ headings # <<>> /\ columns = LogLatencies(headings, names)
         \/ columns = <<>> /\ names = <<>>
    BY <1>2 DEF LogInv, LinesFilled
<1>4. names \in Seq(LatencyNames) /\ headings \in Seq(LatencyNames) /\ Empty \notin LatencyNames
    BY <1>3, TimingLogAssumption, HeadingsAreNames DEF LogInv, LogTypeOK
<1>5. CASE columns = LogLatencies(headings, names)
    BY <1>1, <1>2, <1>4, <1>5, ColumnsUnderHeadings, AllAreWritten
<1>6. CASE columns = <<>> /\ names = <<>>
    BY <1>1, <1>2, <1>6, NothingWritten
<1> QED
    BY <1>3, <1>5, <1>6

\* The log is faithful however long it gets, with any latencies and any preamble.
THEOREM LogKeepsFrames == LogSpec => []LogIsFaithful
<1>1. LogInit => LogInv
    <2> SUFFICES ASSUME LogInit PROVE LogInv
        OBVIOUS
    <2>1. PICK none : none = <<>>
        OBVIOUS
    <2>2. /\ Len(none) = 0 /\ DOMAIN none = {} /\ none \in Seq(Items) /\ none \in Seq(Lines)
        BY <2>1
    <2>3. LogTypeOK
        BY <2>1, <2>2, TimingLogAssumption DEF LogInit, LogTypeOK
    <2>4. OpenWhileInHand /\ FramesKept /\ LinesNumbered /\ LinesFilled
        BY <2>1, <2>2 DEF LogInit, OpenWhileInHand, FramesKept, InHandCount, LinesNumbered, LinesFilled
    <2> QED
        BY <2>3, <2>4 DEF LogInv
<1> QED
    BY <1>1, LogStep, LinesAreFaithful, PTL DEF LogSpec

-----------------------------------------------------------------------------
(* StreamModes, for any number of connections, frames of the server and      *)
(* requests on their way.                                                    *)

Requests == {"stream", "frame", "next"}
Frames == [conn : Nat, no : Nat]

StreamTypeOK ==
    /\ link \in {"none", "up", "lost"}
    /\ conn \in Nat /\ modeOf \in Nat /\ serverFrame \in Nat /\ serverNext \in Nat
    /\ m_BufferSize \in Nat \ {0}
    /\ m_bPreFetch \in BOOLEAN /\ m_bStreaming \in BOOLEAN
    /\ serverStreams \in BOOLEAN /\ waiting \in BOOLEAN
    /\ unread \in Seq(Requests)
    /\ frames \in Seq(Frames)
    /\ latest \in Frames

\* ServerModeAgrees of any requests, belief of the client and state of the
\* server; it outlives the connection.
Agrees(requests, streaming, serves) ==
    /\ (\A i \in DOMAIN requests : requests[i] = "next") => streaming = serves
    /\ \A i \in DOMAIN requests :
          (requests[i] # "next" /\ \A j \in DOMAIN requests : j > i => requests[j] = "next")
            => streaming = (requests[i] = "stream")

ModeInv == Agrees(unread, m_bStreaming, serverStreams)

\* A mode was set on this connection or an earlier one, and pre-fetching is
\* never set together with streaming.
PreFetchInv ==
    /\ modeOf <= conn
    /\ m_bPreFetch /\ modeOf = conn /\ IsConnected => ~m_bStreaming
    /\ PreFetchIsAhead

\* What is buffered is of this connection, in the order in which the server
\* captured it, and not older than what the program holds.
Ordered(f, c, low, high) ==
    /\ \A i \in DOMAIN f : f[i].conn = c /\ low <= f[i].no /\ f[i].no <= high
    /\ \A i, j \in DOMAIN f : i <= j => f[i].no <= f[j].no

Low == IF latest.conn = conn THEN latest.no ELSE 0

OrderInv == Ordered(frames, conn, Low, serverFrame) /\ latest.conn <= conn /\ Low <= serverFrame

StreamInv == StreamTypeOK /\ ModeInv /\ PreFetchInv /\ OrderInv

-----------------------------------------------------------------------------
(* Buffers *)

\* KeepNewest drops some elements at the front, and all only if it must.
LEMMA KeepNewestDrops ==
  ASSUME NEW S, NEW s \in Seq(S), NEW n \in Nat
  PROVE  /\ KeepNewest(s, n) \in Seq(S)
         /\ Len(KeepNewest(s, n)) = IF Len(s) <= n THEN Len(s) ELSE n
         /\ \A i \in DOMAIN KeepNewest(s, n) :
              KeepNewest(s, n)[i] = s[i + Len(s) - Len(KeepNewest(s, n))]
  <1>1. CASE Len(s) <= n
    BY <1>1 DEF KeepNewest
  <1>2. CASE ~(Len(s) <= n)
    <2>1. Len(s) - n + 1 \in 1 .. Len(s) + 1 /\ Len(s) - (Len(s) - n + 1) + 1 = n
      BY <1>2
    <2>2. KeepNewest(s, n) = SubSeq(s, Len(s) - n + 1, Len(s))
      BY <1>2 DEF KeepNewest
    <2> QED BY <2>1, <2>2, <1>2
  <1> QED BY <1>1, <1>2

-----------------------------------------------------------------------------
(* Requests *)

LEMMA AgreesNext ==
  ASSUME NEW u \in Seq(Requests), NEW m \in BOOLEAN, NEW s \in BOOLEAN, Agrees(u, m, s)
  PROVE  Agrees(u \o <<"next">>, m, s)
  <1> DEFINE w == u \o <<"next">>
  <1>1. w \in Seq(Requests) /\ Len(w) = Len(u) + 1 /\ w[Len(u) + 1] = "next"
        /\ \A i \in 1 .. Len(u) : w[i] = u[i]
    BY DEF Requests
  <1> HIDE DEF w
  <1>2. Agrees(w, m, s)
    BY <1>1 DEF Agrees
  <1> QED BY <1>2 DEF w

LEMMA AgreesLast ==
  ASSUME NEW u \in Seq(Requests), NEW r \in {"stream", "frame"}, NEW s \in BOOLEAN
  PROVE  Agrees(u \o <<r>>, r = "stream", s)
  <1> DEFINE w == u \o <<r>>
  <1>1. w \in Seq(Requests) /\ Len(w) = Len(u) + 1 /\ w[Len(u) + 1] = r
    BY DEF Requests
  <1> HIDE DEF w
  <1>2. Agrees(w, r = "stream", s)
    BY <1>1 DEF Agrees
  <1> QED BY <1>2 DEF w

LEMMA AgreesTail ==
  ASSUME NEW u \in Seq(Requests), u # <<>>, NEW m \in BOOLEAN, NEW s \in BOOLEAN,
         Agrees(u, m, s), NEW t \in BOOLEAN,
         IF Head(u) = "next" THEN t = s ELSE t = (Head(u) = "stream")
  PROVE  Agrees(Tail(u), m, t)
  <1> DEFINE w == Tail(u)
  <1>1. w \in Seq(Requests) /\ Len(w) = Len(u) - 1 /\ Len(u) >= 1 /\ Head(u) = u[1]
        /\ \A i \in 1 .. Len(w) : w[i] = u[i + 1]
    OBVIOUS
  <1> HIDE DEF w
  <1>2. ASSUME \A i \in DOMAIN w : w[i] = "next" PROVE m = t
    <2>1. ASSUME NEW j \in DOMAIN u, j > 1 PROVE u[j] = "next"
      <3>1. j - 1 \in 1 .. Len(w) /\ w[j - 1] = u[j]
        BY <1>1, <2>1
      <3> QED BY <1>1, <1>2, <3>1
    <2> QED BY <1>1, <2>1 DEF Agrees
  <1>3. ASSUME NEW i \in DOMAIN w, w[i] # "next", \A j \in DOMAIN w : j > i => w[j] = "next"
        PROVE  m = (w[i] = "stream")
    <2>1. ASSUME NEW j \in DOMAIN u, j > i + 1 PROVE u[j] = "next"
      <3>1. j - 1 \in 1 .. Len(w) /\ w[j - 1] = u[j] /\ j - 1 > i
        BY <1>1, <1>3, <2>1
      <3> QED BY <1>1, <1>3, <3>1
    <2> QED BY <1>1, <1>3, <2>1 DEF Agrees
  <1>4. Agrees(w, m, t)
    BY <1>2, <1>3 DEF Agrees
  <1> QED BY <1>4 DEF w

LEMMA AskedKeeps ==
  ASSUME NEW u \in Seq(Requests), NEW m \in BOOLEAN, NEW s \in BOOLEAN, Agrees(u, m, s),
         NEW r \in {"frame", "next"}
  PROVE  Agrees(u \o Asked(m, r), m, s) /\ u \o Asked(m, r) \in Seq(Requests)
  <1>1. CASE m
    <2>1. u \o Asked(m, r) = u
      BY <1>1 DEF Asked
    <2> QED BY <2>1
  <1>2. CASE ~m
    <2>1. Asked(m, r) = <<r>> /\ u \o <<r>> \in Seq(Requests)
      BY <1>2 DEF Asked, Requests
    <2>2. CASE r = "next"
      BY <2>1, <2>2, AgreesNext
    <2>3. CASE r = "frame"
      <3>1. Agrees(u \o <<r>>, r = "stream", s)
        BY <2>3, AgreesLast
      <3>2. (r = "stream") = m
        BY <1>2, <2>3
      <3> QED BY <2>1, <3>1, <3>2
    <2> QED BY <2>2, <2>3
  <1> QED BY <1>1, <1>2

LEMMA ToldKeeps ==
  ASSUME NEW u \in Seq(Requests), NEW m \in BOOLEAN, NEW s \in BOOLEAN, Agrees(u, m, s),
         NEW on \in BOOLEAN
  PROVE  Agrees(u \o Told(m, on), on, s) /\ u \o Told(m, on) \in Seq(Requests)
  <1>1. CASE m = on
    <2>1. u \o Told(m, on) = u
      BY <1>1 DEF Told
    <2> QED BY <1>1, <2>1
  <1>2. CASE m # on
    <2> DEFINE r == IF on THEN "stream" ELSE "frame"
    <2>1. Told(m, on) = <<r>> /\ u \o <<r>> \in Seq(Requests) /\ r \in {"stream", "frame"}
      BY <1>2 DEF Told, Requests
    <2>2. (r = "stream") = on
      OBVIOUS
    <2> HIDE DEF r
    <2>3. Agrees(u \o <<r>>, r = "stream", s)
      BY <2>1, AgreesLast
    <2> QED BY <2>1, <2>2, <2>3
  <1> QED BY <1>1, <1>2

-----------------------------------------------------------------------------
(* Buffers in order *)

LEMMA OrderedKeep ==
  ASSUME NEW f \in Seq(Frames), NEW c \in Nat, NEW low \in Nat, NEW high \in Nat,
         Ordered(f, c, low, high), NEW n \in Nat
  PROVE  Ordered(KeepNewest(f, n), c, low, high)
  <1> DEFINE g == KeepNewest(f, n)
  <1>1. /\ g \in Seq(Frames) /\ Len(g) <= Len(f)
        /\ \A i \in DOMAIN g : g[i] = f[i + Len(f) - Len(g)]
    BY KeepNewestDrops
  <1> HIDE DEF g
  <1>2. \A i \in DOMAIN g : i + Len(f) - Len(g) \in DOMAIN f
    BY <1>1
  <1>3. \A i, j \in DOMAIN g : i <= j => i + Len(f) - Len(g) <= j + Len(f) - Len(g)
    BY <1>1
  <1>4. Ordered(g, c, low, high)
    BY <1>1, <1>2, <1>3 DEF Ordered
  <1> QED BY <1>4 DEF g

LEMMA OrderedAppend ==
  ASSUME NEW f \in Seq(Frames), NEW c \in Nat, NEW low \in Nat, NEW high \in Nat,
         Ordered(f, c, low, high), NEW no \in Nat, low <= high, high <= no
  PROVE  Append(f, [conn |-> c, no |-> no]) \in Seq(Frames)
         /\ Ordered(Append(f, [conn |-> c, no |-> no]), c, low, no)
  <1> DEFINE r == [conn |-> c, no |-> no]
             g == Append(f, r)
  <1>1. r \in Frames /\ r.conn = c /\ r.no = no
    BY DEF Frames
  <1>2. ASSUME NEW i \in DOMAIN f PROVE f[i].no \in Nat
    <2>1. f[i] \in Frames
      OBVIOUS
    <2> QED BY <2>1 DEF Frames
  <1> HIDE DEF r
  <1>3. /\ g \in Seq(Frames) /\ Len(g) = Len(f) + 1 /\ g[Len(f) + 1] = r
        /\ \A i \in 1 .. Len(f) : g[i] = f[i]
    BY <1>1
  <1> HIDE DEF g
  <1>4. ASSUME NEW i \in DOMAIN g PROVE g[i].conn = c /\ low <= g[i].no /\ g[i].no <= no
    BY <1>1, <1>2, <1>3, <1>4 DEF Ordered
  <1>5. ASSUME NEW i \in DOMAIN g, NEW j \in DOMAIN g, i <= j PROVE g[i].no <= g[j].no
    <2>1. CASE j = Len(f) + 1
      BY <2>1, <1>1, <1>3, <1>4
    <2>2. CASE j # Len(f) + 1
      <3>1. i \in 1 .. Len(f) /\ j \in 1 .. Len(f)
        BY <2>2, <1>3, <1>5
      <3> QED BY <3>1, <1>3, <1>5 DEF Ordered
    <2> QED BY <2>1, <2>2
  <1>6. Ordered(g, c, low, no)
    BY <1>4, <1>5 DEF Ordered
  <1> QED BY <1>3, <1>6 DEF g, r

LEMMA OrderedTail ==
  ASSUME NEW f \in Seq(Frames), f # <<>>, NEW c \in Nat, NEW low \in Nat, NEW high \in Nat,
         Ordered(f, c, low, high)
  PROVE  /\ Tail(f) \in Seq(Frames) /\ Head(f) \in Frames
         /\ Head(f).conn = c /\ low <= Head(f).no /\ Head(f).no <= high
         /\ Ordered(Tail(f), c, Head(f).no, high)
  <1> DEFINE g == Tail(f)
  <1>1. /\ g \in Seq(Frames) /\ Len(f) >= 1 /\ Len(g) = Len(f) - 1 /\ Head(f) = f[1]
        /\ \A i \in 1 .. Len(g) : g[i] = f[i + 1]
    OBVIOUS
  <1> HIDE DEF g
  <1>2. 1 \in DOMAIN f /\ f[1] \in Frames /\ \A i \in DOMAIN g : i + 1 \in DOMAIN f /\ 1 <= i + 1
    BY <1>1
  <1>3. \A i, j \in DOMAIN g : i <= j => i + 1 <= j + 1
    BY <1>1
  <1>4. Ordered(g, c, f[1].no, high)
    <2>1. ASSUME NEW i \in DOMAIN g PROVE g[i].conn = c /\ f[1].no <= g[i].no /\ g[i].no <= high
      <3>1. i + 1 \in DOMAIN f /\ 1 <= i + 1 /\ g[i] = f[i + 1]
        BY <1>1, <1>2
      <3> QED BY <1>2, <3>1 DEF Ordered
    <2>2. ASSUME NEW i \in DOMAIN g, NEW j \in DOMAIN g, i <= j PROVE g[i].no <= g[j].no
      <3>1. g[i] = f[i + 1] /\ g[j] = f[j + 1] /\ i + 1 <= j + 1
        BY <1>1, <2>2
      <3> QED BY <1>2, <3>1 DEF Ordered
    <2> QED BY <2>1, <2>2 DEF Ordered
  <1>5. f[1].conn = c /\ low <= f[1].no /\ f[1].no <= high
    BY <1>2 DEF Ordered
  <1> QED BY <1>1, <1>2, <1>4, <1>5 DEF g

-----------------------------------------------------------------------------
LEMMA StreamInvInit == StreamInit => StreamInv
  <1> SUFFICES ASSUME StreamInit PROVE StreamInv
    OBVIOUS
  <1> USE DEF StreamInit
  <1>1. StreamTypeOK
    <2>1. unread \in Seq(Requests) /\ frames \in Seq(Frames)
      OBVIOUS
    <2>2. latest \in Frames
      BY DEF BadFrame, Frames
    <2>3. conn \in Nat /\ modeOf \in Nat /\ serverFrame \in Nat /\ serverNext \in Nat
          /\ m_BufferSize \in Nat \ {0}
      OBVIOUS
    <2>4. m_bPreFetch \in BOOLEAN /\ m_bStreaming \in BOOLEAN /\ serverStreams \in BOOLEAN
          /\ waiting \in BOOLEAN
      OBVIOUS
    <2>5. link \in {"none", "up", "lost"}
      OBVIOUS
    <2> QED BY <2>1, <2>2, <2>3, <2>4, <2>5 DEF StreamTypeOK
  <1>2. ModeInv
    <2>1. m_bStreaming = serverStreams /\ \A i \in DOMAIN unread : FALSE
      <3>1. unread = <<>>
        OBVIOUS
      <3>2. \A i \in DOMAIN << >> : FALSE
        OBVIOUS
      <3> QED BY <3>1, <3>2
    <2> QED BY <2>1 DEF ModeInv, Agrees
  <1>3. PreFetchInv
    BY DEF PreFetchInv, PreFetchIsAhead, IsConnected
  <1>4. OrderInv
    <2>1. frames = << >> /\ \A i \in DOMAIN << >> : FALSE
      OBVIOUS
    <2>2. Ordered(frames, conn, Low, serverFrame)
      BY <2>1 DEF Ordered
    <2>3. Low = 0 /\ latest.conn = 0 /\ conn = 0 /\ serverFrame = 1
      BY DEF Low, BadFrame
    <2> QED BY <2>2, <2>3 DEF OrderInv
  <1> QED BY <1>1, <1>2, <1>3, <1>4 DEF StreamInv

-----------------------------------------------------------------------------
(* Types, and what the server is told *)

LEMMA Typed == StreamInv => /\ unread \in Seq(Requests) /\ frames \in Seq(Frames)
                            /\ m_bStreaming \in BOOLEAN /\ serverStreams \in BOOLEAN
                            /\ m_bPreFetch \in BOOLEAN /\ ModeInv
  BY DEF StreamInv, StreamTypeOK

LEMMA NewClientModes == NewClient => ModeInv' /\ unread' \in Seq(Requests) /\ m_bStreaming' = FALSE
  <1> SUFFICES ASSUME NewClient PROVE ModeInv' /\ unread' \in Seq(Requests) /\ m_bStreaming' = FALSE
    OBVIOUS
  <1>1. unread' = << >> /\ m_bStreaming' = FALSE /\ serverStreams' = FALSE
    BY DEF NewClient
  <1>2. << >> \in Seq(Requests) /\ \A i \in DOMAIN << >> : FALSE
    OBVIOUS
  <1> QED BY <1>1, <1>2 DEF ModeInv, Agrees

LEMMA SubsequentModes ==
  ASSUME StreamInv
  PROVE  Agrees(unread \o Subsequent, m_bStreaming, serverStreams) /\ unread \o Subsequent \in Seq(Requests)
  <1> USE Typed
  <1>1. CASE m_bPreFetch
    BY <1>1, AskedKeeps DEF Subsequent, ModeInv
  <1>2. CASE ~m_bPreFetch
    <2>1. unread \o Subsequent = unread
      BY <1>2 DEF Subsequent
    <2> QED BY <2>1 DEF ModeInv
  <1> QED BY <1>1, <1>2

LEMMA ModeNext ==
  StreamInv /\ [StreamNext]_streamVars => ModeInv' /\ unread' \in Seq(Requests)
  <1> SUFFICES ASSUME StreamInv, [StreamNext]_streamVars PROVE ModeInv' /\ unread' \in Seq(Requests)
    OBVIOUS
  <1> USE Typed
  <1>1. CASE UNCHANGED <<unread, m_bStreaming, serverStreams>>
    BY <1>1 DEF ModeInv
  <1>2. CASE NewClient
    BY <1>2, NewClientModes
  <1>3. ASSUME NEW mode \in Mode, SetStreamMode(mode), ~UNCHANGED requestVars
        PROVE  ModeInv' /\ unread' \in Seq(Requests)
    <2> DEFINE pushes == mode = "ServerPush"
               told == unread \o Told(m_bStreaming, pushes)
    <2>1. /\ m_bStreaming' = pushes
          /\ unread' = told \o (IF mode = "ClientPullPreFetch" THEN Asked(pushes, "next") ELSE <<>>)
          /\ serverStreams' = serverStreams
      BY <1>3 DEF SetStreamMode, serverVars, requestVars
    <2>2. Agrees(told, pushes, serverStreams) /\ told \in Seq(Requests) /\ pushes \in BOOLEAN
      BY ToldKeeps DEF ModeInv
    <2> HIDE DEF told, pushes
    <2>3. told \o <<>> = told
      BY <2>2
    <2> QED BY <2>1, <2>2, <2>3, AskedKeeps DEF ModeInv
  <1>4. CASE GetFrameAtOnce
    <2>1. /\ unread' = unread \o (IF m_bPreFetch THEN Subsequent ELSE Asked(m_bStreaming, "frame"))
          /\ UNCHANGED <<m_bStreaming, serverStreams>>
      BY <1>4 DEF GetFrameAtOnce, serverVars
    <2> QED BY <2>1, SubsequentModes, AskedKeeps DEF ModeInv
  <1>5. CASE GetFrameWaits
    <2>1. /\ unread' = unread \o (IF m_bPreFetch THEN <<>> ELSE Asked(m_bStreaming, "frame"))
          /\ UNCHANGED <<m_bStreaming, serverStreams>>
      BY <1>5 DEF GetFrameWaits, serverVars
    <2>2. unread \o <<>> = unread
      OBVIOUS
    <2> QED BY <2>1, <2>2, AskedKeeps DEF ModeInv
  <1>6. CASE GetFrameArrives \/ GetFrameTimesOut
    <2>1. unread' = unread \o Subsequent /\ UNCHANGED <<m_bStreaming, serverStreams>>
      BY <1>6 DEF GetFrameArrives, GetFrameTimesOut, serverVars
    <2> QED BY <2>1, SubsequentModes DEF ModeInv
  <1>7. CASE ServerReads
    <2>1. /\ unread # <<>> /\ unread' = Tail(unread) /\ m_bStreaming' = m_bStreaming
          /\ Head(unread) \in Requests
      BY <1>7 DEF ServerReads
    <2>2. IF Head(unread) = "next" THEN serverStreams' = serverStreams
                                   ELSE serverStreams' = (Head(unread) = "stream")
      BY <1>7, <2>1 DEF ServerReads, Requests
    <2>3. serverStreams' \in BOOLEAN
      BY <2>2
    <2>4. Agrees(Tail(unread), m_bStreaming, serverStreams')
      BY <2>1, <2>2, <2>3, AgreesTail DEF ModeInv
    <2> QED BY <2>1, <2>4 DEF ModeInv
  <1> QED
    <2>1. ASSUME NEW g, NEW e, Connect(g, e) PROVE NewClient
      BY <2>1 DEF Connect
    <2>2. ASSUME NEW g, NEW h, ConnectToMulticast(g, h)
          PROVE  NewClient \/ UNCHANGED <<unread, m_bStreaming, serverStreams>>
      BY <2>2 DEF ConnectToMulticast, requestVars, serverVars
    <2>3. Disconnect => NewClient \/ UNCHANGED <<unread, m_bStreaming, serverStreams>>
      BY DEF Disconnect, requestVars, serverVars
    <2>4. ASSUME NEW n, SetBufferSize(n) PROVE UNCHANGED <<unread, m_bStreaming, serverStreams>>
      BY <2>4 DEF SetBufferSize, requestVars, serverVars
    <2>5. ASSUME NEW h, StartTransmittingMulticast(h)
          PROVE  UNCHANGED <<unread, m_bStreaming, serverStreams>>
      BY <2>5 DEF StartTransmittingMulticast, requestVars, serverVars
    <2>6. StopTransmittingMulticast \/ GetFrameNotConnected \/ ServerCaptures \/ LoseConnection
             \/ UNCHANGED streamVars
          => UNCHANGED <<unread, m_bStreaming, serverStreams>>
      BY DEF StopTransmittingMulticast, GetFrameNotConnected, ServerCaptures, LoseConnection,
             requestVars, serverVars, streamVars
    <2>7. ASSUME NEW mode \in Mode, SetStreamMode(mode), UNCHANGED requestVars
          PROVE  UNCHANGED <<unread, m_bStreaming, serverStreams>>
      BY <2>7 DEF SetStreamMode, requestVars, serverVars
    <2> QED
      BY <1>1, <1>2, <1>3, <1>4, <1>5, <1>6, <1>7, <2>1, <2>2, <2>3, <2>4, <2>5, <2>6, <2>7
      DEF StreamNext, GetFrameStarts, GetFrameEnds

-----------------------------------------------------------------------------
(* The order of frames *)

Buffered == frames \in Seq(Frames) /\ latest \in Frames /\ serverFrame \in Nat /\ OrderInv

LEMMA FramesTyped == StreamInv => /\ Buffered /\ conn \in Nat /\ serverFrame \in Nat
                                  /\ m_BufferSize \in Nat \ {0} /\ Low \in Nat
                                  /\ latest.conn \in Nat /\ latest.no \in Nat
  <1> SUFFICES ASSUME StreamInv PROVE /\ Buffered /\ conn \in Nat /\ serverFrame \in Nat
                                      /\ m_BufferSize \in Nat \ {0} /\ Low \in Nat
                                      /\ latest.conn \in Nat /\ latest.no \in Nat
    OBVIOUS
  <1>1. /\ Buffered /\ conn \in Nat /\ serverFrame \in Nat
        /\ m_BufferSize \in Nat \ {0}
    BY DEF StreamInv, StreamTypeOK, Buffered
  <1>2. latest.conn \in Nat /\ latest.no \in Nat
    BY <1>1 DEF Buffered, Frames
  <1> QED BY <1>1, <1>2 DEF Low

\* The buffer is cleared, with or without a new connection.
LEMMA ClearedOrder ==
  ASSUME StreamInv, frames' = <<>>, conn' \in {conn, conn + 1}, UNCHANGED <<latest, serverFrame>>
  PROVE  Buffered'
  <1>1. <<>> \in Seq(Frames) /\ \A i \in DOMAIN <<>> : FALSE
    OBVIOUS
  <1>2. Ordered(<<>>, conn', Low', serverFrame)
    BY <1>1 DEF Ordered
  <1>3. latest.conn <= conn' /\ Low' <= serverFrame
    BY FramesTyped DEF Buffered, OrderInv, Low
  <1> QED BY <1>1, <1>2, <1>3, FramesTyped DEF Buffered, OrderInv

\* A frame of the server is buffered.
LEMMA ArriveOrder ==
  ASSUME StreamInv, Arrive(serverFrame'), serverFrame' \in Nat, serverFrame <= serverFrame',
         UNCHANGED <<latest, conn>>
  PROVE  Buffered' /\ frames' # <<>>
  <1> USE FramesTyped
  <1> DEFINE more == Append(frames, [conn |-> conn, no |-> serverFrame'])
  <1>1. more \in Seq(Frames) /\ Ordered(more, conn, Low, serverFrame')
    BY OrderedAppend DEF Buffered, OrderInv
  <1>2. Len(more) = Len(frames) + 1
    BY DEF Buffered
  <1>3. frames' = KeepNewest(more, m_BufferSize)
    BY DEF Arrive
  <1> HIDE DEF more
  <1>4. frames' \in Seq(Frames) /\ Len(frames') # 0
    <2>1. m_BufferSize \in Nat /\ m_BufferSize # 0 /\ Len(frames) \in Nat
      BY DEF Buffered
    <2>2. /\ frames' \in Seq(Frames)
          /\ Len(frames') = IF Len(more) <= m_BufferSize THEN Len(more) ELSE m_BufferSize
      BY <1>1, <1>3, <2>1, KeepNewestDrops
    <2> QED BY <1>2, <2>1, <2>2
  <1>5. Ordered(frames', conn, Low, serverFrame')
    BY <1>1, <1>3, OrderedKeep
  <1>6. Low' = Low /\ Low <= serverFrame' /\ latest.conn <= conn
    BY DEF Low, Buffered, OrderInv
  <1>7. frames' # <<>>
    BY <1>4
  <1> QED BY <1>4, <1>5, <1>6, <1>7 DEF Buffered, OrderInv

\* The program gets the oldest frame of the buffer.
LEMMA FetchOrder ==
  ASSUME StreamInv, frames # <<>>, Fetch(frames), UNCHANGED <<conn, serverFrame>>
  PROVE  Buffered' /\ latest'.conn = conn /\ Low <= latest'.no
  <1> USE FramesTyped
  <1>1. /\ Tail(frames) \in Seq(Frames) /\ Head(frames) \in Frames
        /\ Head(frames).conn = conn /\ Low <= Head(frames).no /\ Head(frames).no <= serverFrame
        /\ Ordered(Tail(frames), conn, Head(frames).no, serverFrame)
    BY OrderedTail DEF Buffered, OrderInv
  <1>2. latest' = Head(frames) /\ frames' = Tail(frames)
    BY DEF Fetch
  <1>3. Low' = Head(frames).no
    BY <1>1, <1>2 DEF Low
  <1> QED BY <1>1, <1>2, <1>3 DEF Buffered, OrderInv

LEMMA OrderNext ==
  StreamInv /\ [StreamNext]_streamVars => Buffered'
  <1> SUFFICES ASSUME StreamInv, [StreamNext]_streamVars PROVE Buffered'
    OBVIOUS
  <1> USE FramesTyped
  <1>1. CASE UNCHANGED <<frames, latest, conn, serverFrame>>
    BY <1>1 DEF Buffered, OrderInv, Ordered, Low
  <1>2. CASE frames' = <<>> /\ conn' \in {conn, conn + 1} /\ UNCHANGED <<latest, serverFrame>>
    BY <1>2, ClearedOrder
  <1>3. ASSUME NEW n \in {1, 2}, SetBufferSize(n) PROVE Buffered'
    <2>1. frames' = KeepNewest(frames, n) /\ UNCHANGED <<latest, conn, serverFrame>> /\ n \in Nat
      BY <1>3 DEF SetBufferSize, serverVars
    <2>2. KeepNewest(frames, n) \in Seq(Frames) /\ Ordered(KeepNewest(frames, n), conn, Low, serverFrame)
      BY <2>1, KeepNewestDrops, OrderedKeep DEF Buffered, OrderInv
    <2>3. Low' = Low
      BY <2>1 DEF Low
    <2> QED BY <2>1, <2>2, <2>3 DEF Buffered, OrderInv
  <1>4. CASE GetFrameAtOnce \/ GetFrameArrives
    BY <1>4, FetchOrder DEF GetFrameAtOnce, GetFrameArrives, serverVars
  <1>5. CASE ServerReads
    <2>1. UNCHANGED <<latest, conn, serverFrame>>
      BY <1>5 DEF ServerReads, clientVars
    <2>2. Head(unread) \in {"stream", "frame", "next"}
      BY <1>5, Typed DEF ServerReads, Requests
    <2>3. Arrive(serverFrame) \/ UNCHANGED frames
      BY <1>5, <2>2 DEF ServerReads
    <2> QED BY <2>1, <2>3, <1>1, ArriveOrder
  <1>6. CASE ServerCaptures
    <2>1. serverFrame' \in Nat /\ serverFrame <= serverFrame' /\ UNCHANGED <<latest, conn>>
      BY <1>6 DEF ServerCaptures, clientVars
    <2>2. CASE Arrive(serverFrame')
      BY <2>1, <2>2, ArriveOrder
    <2>3. CASE UNCHANGED frames
      <3>1. Low' = Low /\ Ordered(frames, conn, Low, serverFrame)
        BY <2>1 DEF Low, Buffered, OrderInv
      <3>2. \A i \in DOMAIN frames : frames[i].no \in Nat
        <4>1. \A i \in DOMAIN frames : frames[i] \in Frames
          BY DEF Buffered
        <4> QED BY <4>1 DEF Frames
      <3>3. Ordered(frames, conn, Low, serverFrame')
        BY <2>1, <3>1, <3>2 DEF Ordered
      <3> QED BY <2>1, <2>3, <3>1, <3>3 DEF Buffered, OrderInv
    <2> QED BY <1>6, <2>2, <2>3 DEF ServerCaptures
  <1> QED
    <2>1. ASSUME NEW g, NEW e, Connect(g, e)
          PROVE  frames' = <<>> /\ conn' \in {conn, conn + 1} /\ UNCHANGED <<latest, serverFrame>>
      BY <2>1 DEF Connect, NewClient, clientVars
    <2>2. ASSUME NEW g, NEW h, ConnectToMulticast(g, h)
          PROVE  (frames' = <<>> \/ UNCHANGED frames) /\ UNCHANGED <<latest, conn, serverFrame>>
      BY <2>2 DEF ConnectToMulticast, NewClient, clientVars, serverVars
    <2>3. Disconnect => (frames' = <<>> \/ UNCHANGED frames) /\ UNCHANGED <<latest, conn, serverFrame>>
      BY DEF Disconnect, NewClient, clientVars, serverVars
    <2>4. ASSUME NEW mode, SetStreamMode(mode)
          PROVE  (frames' = <<>> \/ UNCHANGED frames) /\ UNCHANGED <<latest, conn, serverFrame>>
      BY <2>4 DEF SetStreamMode, serverVars
    <2>5. ASSUME NEW h, StartTransmittingMulticast(h)
          PROVE  UNCHANGED <<frames, latest, conn, serverFrame>>
      BY <2>5 DEF StartTransmittingMulticast, clientVars, serverVars
    <2>6. StopTransmittingMulticast \/ GetFrameNotConnected \/ GetFrameWaits \/ GetFrameTimesOut
             \/ LoseConnection \/ UNCHANGED streamVars
          => UNCHANGED <<frames, latest, conn, serverFrame>>
      BY DEF StopTransmittingMulticast, GetFrameNotConnected, GetFrameWaits, GetFrameTimesOut,
             LoseConnection, clientVars, serverVars, streamVars
    <2> QED
      BY <1>1, <1>2, <1>3, <1>4, <1>5, <1>6, <2>1, <2>2, <2>3, <2>4, <2>5, <2>6
      DEF StreamNext, GetFrameStarts, GetFrameEnds

-----------------------------------------------------------------------------
(* Pre-fetching *)

Ahead == frames # <<>> \/ serverNext > 0 \/ \E i \in DOMAIN unread : unread[i] = "next"

\* Whether there has to be a frame on its way.
Prefetches == IsConnected /\ m_bPreFetch /\ modeOf = conn

LEMMA PreFetchParts ==
  PreFetchInv <=> modeOf <= conn /\ (Prefetches => ~m_bStreaming) /\ (Prefetches /\ Idle => Ahead)
  BY DEF PreFetchInv, PreFetchIsAhead, Ahead, Prefetches

LEMMA NextIsLast ==
  ASSUME NEW u \in Seq(Requests)
  PROVE  \E i \in DOMAIN (u \o <<"next">>) : (u \o <<"next">>)[i] = "next"
  <1> DEFINE w == u \o <<"next">>
  <1>1. w \in Seq(Requests) /\ Len(w) = Len(u) + 1 /\ w[Len(u) + 1] = "next"
    BY DEF Requests
  <1> HIDE DEF w
  <1>2. \E i \in DOMAIN w : w[i] = "next"
    BY <1>1
  <1> QED BY <1>2 DEF w

\* A client that has just been made has nothing to receive multicast with.
LEMMA NoMulticast == ~ReceiveMulticastData(<<>>)
  BY DEF ReceiveMulticastData

LEMMA SmallTypes ==
  StreamInv /\ [StreamNext]_streamVars =>
    /\ conn' \in Nat /\ modeOf' \in Nat /\ serverNext' \in Nat /\ m_BufferSize' \in Nat \ {0}
    /\ link' \in {"none", "up", "lost"}
  <1> SUFFICES ASSUME StreamInv, [StreamNext]_streamVars
               PROVE  /\ conn' \in Nat /\ modeOf' \in Nat /\ serverNext' \in Nat
                      /\ m_BufferSize' \in Nat \ {0} /\ link' \in {"none", "up", "lost"}
    OBVIOUS
  <1>1. /\ conn \in Nat /\ modeOf \in Nat /\ serverNext \in Nat
        /\ m_BufferSize \in Nat \ {0} /\ link \in {"none", "up", "lost"}
    BY DEF StreamInv, StreamTypeOK
  <1> USE <1>1 DEF clientVars, serverVars
  <1>2. ASSUME NEW g, NEW e, Connect(g, e)
        PROVE  /\ conn' \in Nat /\ modeOf' \in Nat /\ serverNext' \in Nat
               /\ m_BufferSize' \in Nat \ {0} /\ link' \in {"none", "up", "lost"}
    BY <1>2 DEF Connect, NewClient
  <1>3. ASSUME NEW g, NEW h, ConnectToMulticast(g, h)
        PROVE  /\ conn' \in Nat /\ modeOf' \in Nat /\ serverNext' \in Nat
               /\ m_BufferSize' \in Nat \ {0} /\ link' \in {"none", "up", "lost"}
    <2>1. UNCHANGED <<conn, modeOf, m_BufferSize>>
      BY <1>3 DEF ConnectToMulticast
    <2>2. serverNext' \in {serverNext, 0}
      BY <1>3 DEF ConnectToMulticast, NewClient
    <2>3. link' \in {link, "none"}
      BY <1>3, NoMulticast DEF ConnectToMulticast
    <2> QED BY <2>1, <2>2, <2>3
  <1>4. CASE Disconnect
    BY <1>4 DEF Disconnect, NewClient
  <1>5. ASSUME NEW n \in {1, 2}, SetBufferSize(n)
        PROVE  /\ conn' \in Nat /\ modeOf' \in Nat /\ serverNext' \in Nat
               /\ m_BufferSize' \in Nat \ {0} /\ link' \in {"none", "up", "lost"}
    BY <1>5 DEF SetBufferSize
  <1>6. ASSUME NEW mode, SetStreamMode(mode)
        PROVE  /\ conn' \in Nat /\ modeOf' \in Nat /\ serverNext' \in Nat
               /\ m_BufferSize' \in Nat \ {0} /\ link' \in {"none", "up", "lost"}
    BY <1>6 DEF SetStreamMode
  <1>7. CASE ServerReads
    <2>1. UNCHANGED <<conn, modeOf, m_BufferSize, link>>
      BY <1>7 DEF ServerReads
    <2>2. Head(unread) \in {"stream", "frame", "next"}
      BY <1>7, Typed DEF ServerReads, Requests
    <2>3. serverNext' \in {serverNext, 1}
      BY <1>7, <2>2 DEF ServerReads
    <2> QED BY <2>1, <2>3
  <1>8. CASE ServerCaptures \/ LoseConnection
    BY <1>8 DEF ServerCaptures, LoseConnection
  <1>9. CASE GetFrameNotConnected \/ GetFrameAtOnce \/ GetFrameWaits \/ GetFrameArrives
             \/ GetFrameTimesOut
    BY <1>9 DEF GetFrameNotConnected, GetFrameAtOnce, GetFrameWaits, GetFrameArrives, GetFrameTimesOut
  <1>10. ASSUME NEW h, StartTransmittingMulticast(h)
         PROVE  /\ conn' \in Nat /\ modeOf' \in Nat /\ serverNext' \in Nat
                /\ m_BufferSize' \in Nat \ {0} /\ link' \in {"none", "up", "lost"}
    BY <1>10 DEF StartTransmittingMulticast
  <1>11. CASE StopTransmittingMulticast \/ UNCHANGED streamVars
    BY <1>11 DEF StopTransmittingMulticast, streamVars
  <1> QED
    BY <1>2, <1>3, <1>4, <1>5, <1>6, <1>7, <1>8, <1>9, <1>10, <1>11
    DEF StreamNext, GetFrameStarts, GetFrameEnds

LEMMA BooleanTypes ==
  StreamInv /\ [StreamNext]_streamVars =>
    /\ m_bPreFetch' \in BOOLEAN /\ m_bStreaming' \in BOOLEAN
    /\ serverStreams' \in BOOLEAN /\ waiting' \in BOOLEAN
  <1> SUFFICES ASSUME StreamInv, [StreamNext]_streamVars
               PROVE  /\ m_bPreFetch' \in BOOLEAN /\ m_bStreaming' \in BOOLEAN
                      /\ serverStreams' \in BOOLEAN /\ waiting' \in BOOLEAN
    OBVIOUS
  <1>1. /\ m_bPreFetch \in BOOLEAN /\ m_bStreaming \in BOOLEAN
        /\ serverStreams \in BOOLEAN /\ waiting \in BOOLEAN
    BY DEF StreamInv, StreamTypeOK
  <1> USE <1>1 DEF clientVars, serverVars, requestVars
  <1>2. ASSUME NEW g, NEW e, Connect(g, e)
        PROVE  /\ m_bPreFetch' \in BOOLEAN /\ m_bStreaming' \in BOOLEAN
               /\ serverStreams' \in BOOLEAN /\ waiting' \in BOOLEAN
    BY <1>2 DEF Connect, NewClient
  <1>3. ASSUME NEW g, NEW h, ConnectToMulticast(g, h)
        PROVE  /\ m_bPreFetch' \in BOOLEAN /\ m_bStreaming' \in BOOLEAN
               /\ serverStreams' \in BOOLEAN /\ waiting' \in BOOLEAN
    BY <1>3 DEF ConnectToMulticast, NewClient
  <1>4. CASE Disconnect
    BY <1>4 DEF Disconnect, NewClient
  <1>5. ASSUME NEW n \in {1, 2}, SetBufferSize(n)
        PROVE  /\ m_bPreFetch' \in BOOLEAN /\ m_bStreaming' \in BOOLEAN
               /\ serverStreams' \in BOOLEAN /\ waiting' \in BOOLEAN
    BY <1>5 DEF SetBufferSize
  <1>6. ASSUME NEW mode, SetStreamMode(mode)
        PROVE  /\ m_bPreFetch' \in BOOLEAN /\ m_bStreaming' \in BOOLEAN
               /\ serverStreams' \in BOOLEAN /\ waiting' \in BOOLEAN
    BY <1>6 DEF SetStreamMode
  <1>7. CASE ServerReads
    <2>1. UNCHANGED <<m_bPreFetch, m_bStreaming, waiting>>
      BY <1>7 DEF ServerReads
    <2>2. Head(unread) \in {"stream", "frame", "next"}
      BY <1>7, Typed DEF ServerReads, Requests
    <2>3. serverStreams' \in {serverStreams, TRUE, FALSE}
      BY <1>7, <2>2 DEF ServerReads
    <2> QED BY <2>1, <2>3
  <1>8. CASE ServerCaptures \/ LoseConnection
    BY <1>8 DEF ServerCaptures, LoseConnection
  <1>9. CASE GetFrameNotConnected \/ GetFrameAtOnce \/ GetFrameWaits \/ GetFrameArrives
             \/ GetFrameTimesOut
    BY <1>9 DEF GetFrameNotConnected, GetFrameAtOnce, GetFrameWaits, GetFrameArrives, GetFrameTimesOut
  <1>10. ASSUME NEW h, StartTransmittingMulticast(h)
         PROVE  /\ m_bPreFetch' \in BOOLEAN /\ m_bStreaming' \in BOOLEAN
                /\ serverStreams' \in BOOLEAN /\ waiting' \in BOOLEAN
    BY <1>10 DEF StartTransmittingMulticast
  <1>11. CASE StopTransmittingMulticast \/ UNCHANGED streamVars
    BY <1>11 DEF StopTransmittingMulticast, streamVars
  <1> QED
    BY <1>2, <1>3, <1>4, <1>5, <1>6, <1>7, <1>8, <1>9, <1>10, <1>11
    DEF StreamNext, GetFrameStarts, GetFrameEnds

\* The only steps after which nothing need be on its way, or something already
\* was.
LEMMA PreFetchNext ==
  StreamInv /\ [StreamNext]_streamVars => PreFetchInv'
  <1> SUFFICES ASSUME StreamInv, [StreamNext]_streamVars
               PROVE  /\ modeOf' <= conn' /\ (Prefetches' => ~m_bStreaming')
                      /\ (Prefetches' /\ Idle' => Ahead')
    BY DEF PreFetchInv, PreFetchIsAhead, Ahead, Prefetches, IsConnected, Idle
  <1> USE DEF clientVars, requestVars, serverVars
  <1>1. /\ modeOf <= conn /\ (Prefetches => ~m_bStreaming) /\ (Prefetches /\ Idle => Ahead)
        /\ conn \in Nat /\ modeOf \in Nat
    BY PreFetchParts DEF StreamInv, StreamTypeOK
  <1>2. CASE UNCHANGED <<link, conn, m_bPreFetch, modeOf, m_bStreaming>> /\ (Idle' => Idle)
             /\ (Idle' /\ Ahead => Ahead')
    BY <1>1, <1>2 DEF Prefetches, IsConnected
  <1>3. CASE ~IsConnected' /\ conn' = conn /\ modeOf' = modeOf
    BY <1>1, <1>3 DEF Prefetches
  <1>4. ASSUME NEW g, NEW e, Connect(g, e) PROVE conn' = conn + 1 \/ (~IsConnected' /\ conn' = conn)
    BY <1>4 DEF Connect, IsConnected
  <1>5. ASSUME NEW g, NEW e, Connect(g, e) PROVE modeOf' = modeOf
    BY <1>5 DEF Connect
  <1>6. CASE conn' = conn + 1 /\ modeOf' = modeOf
    BY <1>1, <1>6 DEF Prefetches
  <1>7. ASSUME NEW mode \in Mode, SetStreamMode(mode)
        PROVE  /\ modeOf' <= conn' /\ (Prefetches' => ~m_bStreaming')
               /\ (Prefetches' /\ Idle' => Ahead')
    <2> DEFINE told == unread \o Told(m_bStreaming, FALSE)
    <2>1. CASE IsConnected /\ mode = "ClientPullPreFetch"
      <3>1. m_bStreaming' = FALSE /\ unread' = told \o <<"next">> /\ modeOf' = conn /\ conn' = conn
        BY <1>7, <2>1 DEF SetStreamMode, Asked
      <3>2. told \in Seq(Requests)
        BY Typed, ToldKeeps DEF ModeInv
      <3> HIDE DEF told
      <3>3. Ahead'
        BY <3>1, <3>2, NextIsLast DEF Ahead
      <3> QED BY <1>1, <3>1, <3>3
    <2>2. CASE IsConnected /\ mode # "ClientPullPreFetch"
      <3>1. m_bPreFetch' = FALSE /\ modeOf' = conn /\ conn' = conn
        BY <1>7, <2>2 DEF SetStreamMode
      <3> QED BY <1>1, <3>1 DEF Prefetches
    <2>3. CASE ~IsConnected
      <3>1. UNCHANGED <<link, conn, m_bPreFetch, modeOf>>
        BY <1>7, <2>3 DEF SetStreamMode
      <3> QED BY <1>1, <2>3, <3>1 DEF Prefetches, IsConnected
    <2> QED BY <2>1, <2>2, <2>3
  <1>8. CASE GetFrameAtOnce \/ GetFrameArrives \/ GetFrameTimesOut
    <2>1. UNCHANGED <<link, conn, m_bPreFetch, modeOf, m_bStreaming>>
      BY <1>8 DEF GetFrameAtOnce, GetFrameArrives, GetFrameTimesOut
    <2>2. Prefetches => unread' = unread \o <<"next">>
      BY <1>1, <1>8 DEF GetFrameAtOnce, GetFrameArrives, GetFrameTimesOut, Subsequent, Asked, Prefetches
    <2>3. Prefetches => Ahead'
      BY <2>2, NextIsLast, Typed DEF Ahead
    <2> QED BY <1>1, <2>1, <2>3 DEF Prefetches, IsConnected
  <1>9. CASE GetFrameWaits
    <2>1. UNCHANGED <<link, conn, m_bPreFetch, modeOf, m_bStreaming>> /\ ~Idle'
      BY <1>9 DEF GetFrameWaits, Idle
    <2> QED BY <1>1, <2>1 DEF Prefetches, IsConnected
  <1>10. ASSUME NEW n \in {1, 2}, SetBufferSize(n) PROVE Ahead => Ahead'
    <2>1. frames' = KeepNewest(frames, n) /\ UNCHANGED <<serverNext, unread>>
      BY <1>10 DEF SetBufferSize
    <2>2. frames # <<>> => frames' # <<>>
      <3>1. frames \in Seq(Frames) /\ n \in Nat /\ n # 0
        BY Typed
      <3>2. Len(frames') = IF Len(frames) <= n THEN Len(frames) ELSE n
        BY <2>1, <3>1, KeepNewestDrops
      <3> QED BY <3>1, <3>2
    <2> QED BY <2>1, <2>2 DEF Ahead
  <1>11. CASE ServerReads
    <2>1. UNCHANGED <<link, conn, m_bPreFetch, modeOf, m_bStreaming, waiting>>
          /\ unread' = Tail(unread) /\ unread # <<>>
      BY <1>11 DEF ServerReads
    <2>2. Head(unread) \in {"stream", "frame", "next"} /\ unread \in Seq(Requests)
      BY <1>11, Typed DEF ServerReads, Requests
    <2>3. CASE Head(unread) = "stream"
      <3>1. UNCHANGED <<serverNext, frames>>
        BY <1>11, <2>3 DEF ServerReads
      <3>2. ASSUME NEW i \in DOMAIN unread, unread[i] = "next"
            PROVE  \E k \in DOMAIN unread' : unread'[k] = "next"
        <4>1. i # 1 /\ i - 1 \in 1 .. Len(Tail(unread)) /\ Tail(unread)[i - 1] = unread[i]
          BY <2>1, <2>2, <2>3, <3>2
        <4> QED BY <2>1, <2>2, <3>2, <4>1
      <3> QED BY <1>2, <2>1, <3>1, <3>2 DEF Ahead, Idle
    <2>4. CASE Head(unread) = "frame"
      <3>1. Arrive(serverFrame) /\ UNCHANGED <<latest, serverFrame>>
        BY <1>11, <2>4 DEF ServerReads
      <3>2. frames' # <<>>
        BY <2>1, <3>1, FramesTyped, ArriveOrder
      <3> QED BY <1>2, <2>1, <3>2 DEF Ahead, Idle
    <2>5. CASE Head(unread) = "next"
      <3>1. serverNext' = 1
        BY <1>11, <2>5 DEF ServerReads
      <3> QED BY <1>2, <2>1, <3>1 DEF Ahead, Idle
    <2> QED BY <2>2, <2>3, <2>4, <2>5
  <1>12. CASE ServerCaptures
    <2>1. UNCHANGED <<link, conn, m_bPreFetch, modeOf, m_bStreaming, waiting, unread, latest>>
      BY <1>12 DEF ServerCaptures
    <2>2. CASE IsConnected /\ (serverStreams \/ serverNext > 0)
      <3>1. Arrive(serverFrame') /\ serverFrame' \in Nat /\ serverFrame <= serverFrame'
        BY <1>12, <2>2, FramesTyped DEF ServerCaptures
      <3>2. frames' # <<>>
        BY <2>1, <3>1, FramesTyped, ArriveOrder
      <3> QED BY <1>2, <2>1, <3>2 DEF Ahead, Idle
    <2>3. CASE ~(IsConnected /\ (serverStreams \/ serverNext > 0))
      <3>1. UNCHANGED <<frames, serverNext>>
        BY <1>12, <2>3 DEF ServerCaptures
      <3> QED BY <1>2, <2>1, <3>1 DEF Ahead, Idle
    <2> QED BY <2>2, <2>3
  <1>13. CASE GetFrameNotConnected \/ StopTransmittingMulticast \/ UNCHANGED streamVars
    <2>1. UNCHANGED <<link, conn, m_bPreFetch, modeOf, m_bStreaming, waiting, unread, serverNext, frames>>
      BY <1>13 DEF GetFrameNotConnected, StopTransmittingMulticast, streamVars
    <2> QED BY <1>2, <2>1 DEF Ahead, Idle
  <1>14. ASSUME NEW h, StartTransmittingMulticast(h)
         PROVE  UNCHANGED <<link, conn, m_bPreFetch, modeOf, m_bStreaming, waiting, unread,
                            serverNext, frames>>
    BY <1>14 DEF StartTransmittingMulticast
  <1>15. ASSUME NEW n, SetBufferSize(n)
         PROVE  UNCHANGED <<link, conn, m_bPreFetch, modeOf, m_bStreaming, waiting>>
    BY <1>15 DEF SetBufferSize
  <1>16. ASSUME NEW g, NEW h, ConnectToMulticast(g, h)
         PROVE  \/ ~IsConnected' /\ conn' = conn /\ modeOf' = modeOf
                \/ UNCHANGED <<link, conn, m_bPreFetch, modeOf, m_bStreaming, waiting, unread,
                               serverNext, frames>>
    BY <1>16, NoMulticast DEF ConnectToMulticast, IsConnected
  <1>17. CASE Disconnect
    <2>1. conn' = conn /\ modeOf' = modeOf /\ ~IsConnected'
      BY <1>17 DEF Disconnect, IsConnected
    <2> QED BY <1>3, <2>1
  <1>18. CASE LoseConnection
    BY <1>3, <1>18 DEF LoseConnection, IsConnected
  <1>19. ASSUME UNCHANGED <<link, conn, m_bPreFetch, modeOf, m_bStreaming, waiting, unread,
                            serverNext, frames>>
         PROVE  /\ modeOf' <= conn' /\ (Prefetches' => ~m_bStreaming')
                /\ (Prefetches' /\ Idle' => Ahead')
    BY <1>2, <1>19 DEF Ahead, Idle
  <1>20. ASSUME NEW n \in {1, 2}, SetBufferSize(n)
         PROVE  /\ modeOf' <= conn' /\ (Prefetches' => ~m_bStreaming')
                /\ (Prefetches' /\ Idle' => Ahead')
    BY <1>2, <1>10, <1>15, <1>20 DEF Idle
  <1> QED
    BY <1>3, <1>4, <1>5, <1>6, <1>7, <1>8, <1>9, <1>11, <1>12, <1>13, <1>14, <1>16, <1>17, <1>18,
       <1>19, <1>20
    DEF StreamNext, GetFrameStarts, GetFrameEnds

-----------------------------------------------------------------------------
LEMMA StreamInvNext == StreamInv /\ [StreamNext]_streamVars => StreamInv'
  <1> SUFFICES ASSUME StreamInv /\ [StreamNext]_streamVars PROVE StreamInv'
    OBVIOUS
  <1>1. ModeInv' /\ unread' \in Seq(Requests)
    BY ModeNext
  <1>2. Buffered'
    BY OrderNext
  <1>3. StreamTypeOK'
    BY <1>1, <1>2, SmallTypes, BooleanTypes DEF StreamTypeOK, Buffered
  <1> QED BY <1>1, <1>2, <1>3, PreFetchNext DEF StreamInv, Buffered

\* The types, what the server is told, what is on its way and the order of what
\* is buffered.
THEOREM StreamInvariant == StreamSpec => []StreamInv
  BY StreamInvInit, StreamInvNext, PTL DEF StreamSpec

\* The server streams exactly if the client believes that it does, once it has
\* read all requests, whatever modes the program sets and whatever requests are
\* on their way.
THEOREM ServerFollowsMode == StreamSpec => []ServerModeAgrees
  <1>1. StreamInv => ServerModeAgrees
    BY DEF StreamInv, ModeInv, Agrees, ServerModeAgrees
  <1> QED BY <1>1, StreamInvariant, PTL

\* A client that pre-fetches has a frame, or one is on its way.
THEOREM PreFetchAhead == StreamSpec => []PreFetchIsAhead
  <1>1. StreamInv => PreFetchIsAhead
    BY DEF StreamInv, PreFetchInv
  <1> QED BY <1>1, StreamInvariant, PTL

\* The program's frame changes only to a later one of the same connection, or to
\* one of another connection.
THEOREM LatestNeverBack == StreamSpec => NeverBackwards
  <1>1. ASSUME StreamInv, [StreamNext]_streamVars
        PROVE  [latest'.conn = latest.conn => latest'.no >= latest.no]_streamVars
    <2>1. CASE UNCHANGED latest
      BY <2>1, FramesTyped, <1>1
    <2>2. CASE GetFrameAtOnce \/ GetFrameArrives
      <3>1. Fetch(frames) /\ frames # <<>> /\ UNCHANGED <<conn, serverFrame>>
        BY <2>2 DEF GetFrameAtOnce, GetFrameArrives, serverVars
      <3>2. Buffered' /\ latest'.conn = conn /\ Low <= latest'.no
        BY <1>1, <3>1, FetchOrder
      <3>3. latest'.no \in Nat
        BY <3>2 DEF Buffered, Frames
      <3> QED BY <1>1, <3>2, <3>3, FramesTyped DEF Low
    <2>3. UNCHANGED latest \/ GetFrameAtOnce \/ GetFrameArrives
      BY <1>1 DEF StreamNext, GetFrameStarts, GetFrameEnds, Connect, ConnectToMulticast, Disconnect,
                  StartTransmittingMulticast, StopTransmittingMulticast, SetBufferSize,
                  SetStreamMode, GetFrameNotConnected, GetFrameWaits, GetFrameTimesOut, ServerReads,
                  ServerCaptures, LoseConnection, clientVars, streamVars
    <2> QED BY <2>1, <2>2, <2>3
  <1>2. StreamInv /\ [StreamNext]_streamVars
          => [latest'.conn = latest.conn => latest'.no >= latest.no]_streamVars
    BY <1>1
  <1> QED BY <1>2, StreamInvariant, PTL DEF StreamSpec, NeverBackwards
=============================================================================
