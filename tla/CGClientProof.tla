--------------------------- MODULE CGClientProof ---------------------------
(***************************************************************************)
(* Proofs about CGClient, for every number of routes, of callers and of    *)
(* frames, every layout of the server and every size of the buffer.        *)
(***************************************************************************)
EXTENDS CGClient, SequenceTheorems, FiniteSetTheorems, TLAPS

\* KeepLast drops the front of a sequence, and what is left is short enough.
LEMMA KeepLastProperties ==
  ASSUME NEW S, NEW q \in Seq(S), NEW n \in Nat
  PROVE  /\ KeepLast(q, n) \in Seq(S)
         /\ Len(KeepLast(q, n)) <= n
         /\ \E k \in 1 .. Len(q) + 1 : KeepLast(q, n) = Feed!From(q, k)
<1>1. Len(q) \in Nat /\ \A i \in 1 .. Len(q) : q[i] \in S
  BY LenProperties, ElementOfSeq
<1>2. CASE Len(q) > n
  <2> DEFINE k == Len(q) - n + 1
  <2>1. k \in 1 .. Len(q) + 1 /\ k \in Int /\ \A i \in k .. Len(q) : i \in 1 .. Len(q)
    BY <1>1, <1>2
  <2>2. /\ SubSeq(q, k, Len(q)) \in Seq(S)
        /\ Len(SubSeq(q, k, Len(q))) = IF k <= Len(q) THEN Len(q) - k + 1 ELSE 0
    BY <1>1, <2>1, SubSeqProperties
  <2>3. KeepLast(q, n) = SubSeq(q, k, Len(q))
    BY <1>2 DEF KeepLast
  <2>4. KeepLast(q, n) = Feed!From(q, k)
    BY <2>3 DEF Feed!From
  <2>5. Len(KeepLast(q, n)) <= n
    BY <1>1, <1>2, <2>2, <2>3
  <2> HIDE DEF k
  <2> QED
    BY <2>1, <2>2, <2>3, <2>4, <2>5
<1>3. CASE ~ (Len(q) > n)
  <2>1. q = SubSeq(q, 1, Len(q))
    BY SubSeqFull
  <2>2. KeepLast(q, n) = q
    BY <1>3 DEF KeepLast
  <2> QED
    BY <1>1, <1>3, <2>1, <2>2 DEF Feed!From
<1> QED
  BY <1>2, <1>3

\* The samples that are left when the first n are handed out.
LEMMA RestProperties ==
  ASSUME NEW S, NEW q \in Seq(S), NEW n \in 1 .. Len(q)
  PROVE  /\ SubSeq(q, n + 1, Len(q)) \in Seq(S)
         /\ Len(SubSeq(q, n + 1, Len(q))) = Len(q) - n
<1>1. Len(q) \in Nat /\ \A i \in 1 .. Len(q) : q[i] \in S
  BY LenProperties, ElementOfSeq
<1>2. n + 1 \in Int /\ \A i \in n + 1 .. Len(q) : i \in 1 .. Len(q)
  BY <1>1
<1>3. /\ SubSeq(q, n + 1, Len(q)) \in Seq(S)
      /\ Len(SubSeq(q, n + 1, Len(q))) = IF n + 1 <= Len(q) THEN Len(q) - (n + 1) + 1 ELSE 0
  BY <1>1, <1>2, SubSeqProperties
<1> QED
  BY <1>1, <1>3

\* What a caller can be given: the front of a deque that is not empty.
LEMMA FrontOfDeque ==
  ASSUME TypeOK, m_FrameDeque # <<>>
  PROVE  {1, Len(m_FrameDeque)} \subseteq 1 .. Len(m_FrameDeque)
BY EmptySeq, LenProperties DEF TypeOK

\* Handing out keeps the type of the buffer.
LEMMA HandOutType ==
  ASSUME TypeOK, NEW n \in 1 .. Len(m_FrameDeque), HandOut(n)
  PROVE  /\ m_FrameDeque' \in Seq(Sample)
         /\ Len(m_FrameDeque') <= m_MaxBufferSize
         /\ seen' \in Frames \cup {-1}
<1>1. m_FrameDeque \in Seq(Sample) /\ Len(m_FrameDeque) \in Nat
      /\ m_MaxBufferSize \in Nat /\ Len(m_FrameDeque) <= m_MaxBufferSize
  BY LenProperties DEF TypeOK
<1>2. m_FrameDeque[n] \in Sample
  BY <1>1, ElementOfSeq
<1>3. seen' \in Frames
  BY <1>2 DEF HandOut, Sample
<1>4. m_FrameDeque' \in Seq(Sample) /\ Len(m_FrameDeque') = Len(m_FrameDeque) - n
  BY <1>1, RestProperties DEF HandOut
<1> QED
  BY <1>1, <1>3, <1>4

\* A sample that is taken fits into the buffer.
LEMMA TakeFrameType ==
  ASSUME TypeOK, NEW r \in Routes, packet[r] \in Frames, TakeFrame(r)
  PROVE  /\ m_FrameDeque' \in Seq(Sample)
         /\ Len(m_FrameDeque') <= m_MaxBufferSize
         /\ newest' \in Frames \cup {-1}
<1> DEFINE s == [statics |-> m_pLastStaticObjects, frame |-> packet[r]]
<1>1. s \in Sample /\ m_MaxBufferSize \in Nat
  BY DEF TypeOK, Sample
<1>2. Append(m_FrameDeque, s) \in Seq(Sample)
  BY <1>1 DEF TypeOK
<1> QED
  BY <1>1, <1>2, KeepLastProperties DEF TakeFrame

-----------------------------------------------------------------------------
(* Type correctness.                                                       *)

LEMMA InitTyped == Init => TypeOK
<1> SUFFICES ASSUME Init PROVE TypeOK
  OBVIOUS
<1>1. m_FrameDeque \in Seq(Sample) /\ Len(m_FrameDeque) = 0
  BY EmptySeq DEF Init
<1> QED
  BY <1>1, FrameAssumption, BufferAssumption DEF Init, TypeOK

LEMMA StreamTyped ==
  ASSUME TypeOK, RouteInv, NEW r \in Routes, StreamThread(r)
  PROVE  TypeOK'
<1> USE DEF route_vars, buffer_vars, stream_vars, wait_vars
<1>1. ASSUME NEW f \in Frames, OnStaticObjects(r, f) PROVE TypeOK'
  BY <1>1, FrameAssumption DEF OnStaticObjects, TypeOK
<1>2. ASSUME NEW f \in Frames, NoStaticObjects(r, f) PROVE TypeOK'
  BY <1>2 DEF NoStaticObjects, TypeOK
<1>3. ASSUME OnDynamicObjects(r), packet[r] \in Frames PROVE TypeOK'
  <2>1. m_LastFrameIDs' \in [Routes -> Frames \cup {MaxUInt32}]
    BY <1>3 DEF OnDynamicObjects, TypeOK
  <2>2. /\ UNCHANGED <<m_Connected, m_pLastStaticObjects, packet>>
        /\ stream_pc' \in [Routes -> {"new", "reading", "dynamic", "ended"}]
    BY <1>3 DEF OnDynamicObjects, TypeOK
  <2>3. CASE Received(r)
    BY <1>3, <2>1, <2>2, <2>3 DEF OnDynamicObjects, TypeOK
  <2>4. CASE ~ Received(r)
    <3>1. TakeFrame(r)
      BY <1>3, <2>4 DEF OnDynamicObjects
    <3>2. /\ m_FrameDeque' \in Seq(Sample)
          /\ Len(m_FrameDeque') <= m_MaxBufferSize
          /\ newest' \in Frames \cup {-1}
      BY <1>3, <3>1, TakeFrameType
    <3> QED
      BY <2>1, <2>2, <3>1, <3>2 DEF TakeFrame, TypeOK
  <2> QED
    BY <2>3, <2>4
<1>4. ASSUME OnDisconnect(r) PROVE TypeOK'
  BY <1>4 DEF OnDisconnect, TypeOK
<1>5. OnDynamicObjects(r) => packet[r] \in Frames
  BY DEF OnDynamicObjects, RouteInv
<1> QED
  BY <1>1, <1>2, <1>3, <1>4, <1>5 DEF StreamThread

LEMMA CallerTyped ==
  ASSUME TypeOK, NEW c \in Callers, Caller(c)
  PROVE  TypeOK'
<1> USE DEF route_vars, buffer_vars, stream_vars, wait_vars
<1>1. ASSUME m_FrameDeque # <<>>, NEW n \in {1, Len(m_FrameDeque)}, HandOut(n)
      PROVE  /\ m_FrameDeque' \in Seq(Sample)
             /\ Len(m_FrameDeque') <= m_MaxBufferSize
             /\ seen' \in Frames \cup {-1}
             /\ UNCHANGED <<m_MaxBufferSize, newest>>
  BY <1>1, FrontOfDeque, HandOutType DEF HandOut
<1>2. ASSUME PollFrame(c) PROVE TypeOK'
  BY <1>1, <1>2 DEF PollFrame, TypeOK
<1>3. ASSUME WaitFrame(c) PROVE TypeOK'
  BY <1>3 DEF WaitFrame, TypeOK
<1>4. ASSUME WakeUp(c) PROVE TypeOK'
  <2>1. CASE m_FrameDeque = <<>>
    BY <1>4, <2>1 DEF WakeUp, TypeOK
  <2>2. CASE m_FrameDeque # <<>>
    BY <1>1, <1>4, <2>2 DEF WakeUp, TypeOK
  <2> QED
    BY <2>1, <2>2
<1>5. ASSUME TimedOut(c) PROVE TypeOK'
  BY <1>5 DEF TimedOut, TypeOK
<1> QED
  BY <1>2, <1>3, <1>4, <1>5 DEF Caller

LEMMA BufferTyped ==
  ASSUME TypeOK, \/ \E n \in 0 .. MaxBuffer : SetBufferSize(n)
                 \/ ClearBuffer
  PROVE  TypeOK'
<1> USE DEF route_vars, stream_vars, wait_vars
<1>1. ASSUME NEW n \in 0 .. MaxBuffer, SetBufferSize(n) PROVE TypeOK'
  <2>1. n \in Nat /\ m_FrameDeque \in Seq(Sample)
    BY BufferAssumption DEF TypeOK
  <2>2. m_FrameDeque' \in Seq(Sample) /\ Len(m_FrameDeque') <= n
    BY <1>1, <2>1, KeepLastProperties DEF SetBufferSize
  <2> QED
    BY <1>1, <2>2 DEF SetBufferSize, TypeOK
<1>2. ASSUME ClearBuffer PROVE TypeOK'
  <2>1. m_FrameDeque' \in Seq(Sample) /\ Len(m_FrameDeque') = 0
    BY <1>2, EmptySeq DEF ClearBuffer
  <2>2. 0 <= m_MaxBufferSize
    BY BufferAssumption DEF TypeOK
  <2> QED
    BY <1>2, <2>1, <2>2 DEF ClearBuffer, TypeOK
<1> QED
  BY <1>1, <1>2

-----------------------------------------------------------------------------
(* The routes and the waiting threads.                                     *)

\* The client is connected once; a stream thread runs only then.
LEMMA ReadyKept == ASSUME TypeOK, [Next]_vars, Ready PROVE Ready'
<1> USE DEF Ready
<1>1. ASSUME NEW R \in SUBSET Routes, Connect(R) PROVE Ready'
  BY <1>1 DEF Connect
<1>2. ASSUME NEW r \in Routes, StreamThread(r) PROVE Ready'
  BY <1>2 DEF StreamThread, OnStaticObjects, NoStaticObjects, OnDynamicObjects,
              OnDisconnect, TypeOK
<1>3. CASE UNCHANGED stream_pc
  BY <1>3
<1>4. UNCHANGED stream_pc \/ \E R \in SUBSET Routes : Connect(R)
        \/ \E r \in Routes : StreamThread(r)
  BY DEF Next, Caller, PollFrame, WaitFrame, WakeUp, TimedOut, SetBufferSize,
         ClearBuffer, stream_vars, vars
<1> QED
  BY <1>1, <1>2, <1>3, <1>4

LEMMA RouteStep == ASSUME TypeOK, RouteInv, [Next]_vars PROVE RouteInv'
<1>1. ASSUME NEW R \in SUBSET Routes, Connect(R) PROVE RouteInv'
  <2>1. \A r \in Routes : stream_pc'[r] \in {"reading", "ended"}
          /\ m_LastFrameIDs'[r] = MaxUInt32
    BY <1>1 DEF Connect
  <2> QED
    BY <2>1 DEF RouteInv, Ready
<1>2. ASSUME NEW r \in Routes, StreamThread(r) PROVE RouteInv'
  <2>1. Ready /\ Ready'
    <3>1. stream_pc[r] # "new"
      BY <1>2 DEF StreamThread, OnStaticObjects, NoStaticObjects, OnDynamicObjects,
                  OnDisconnect
    <3>2. Ready
      BY <3>1 DEF RouteInv
    <3> QED
      BY <3>2, ReadyKept
  <2>2. /\ m_LastFrameIDs \in [Routes -> Frames \cup {MaxUInt32}]
        /\ packet \in [Routes -> Frames \cup {-1}]
        /\ stream_pc \in [Routes -> {"new", "reading", "dynamic", "ended"}]
    BY DEF TypeOK
  <2>ints. \A q \in Routes : m_LastFrameIDs[q] \in Int /\ packet[q] \in Int
    BY <2>2, FrameAssumption DEF Frames
  <2>3. ASSUME NEW f \in Frames, OnStaticObjects(r, f) \/ NoStaticObjects(r, f)
        PROVE  RouteInv'
    <3>1. /\ f > packet[r] /\ f \in Int
          /\ UNCHANGED m_LastFrameIDs
          /\ stream_pc' = [stream_pc EXCEPT ![r] = "dynamic"]
          /\ packet' = [packet EXCEPT ![r] = f]
      BY <2>3 DEF OnStaticObjects, NoStaticObjects, route_vars, Frames
    <3>2. m_LastFrameIDs[r] # MaxUInt32 => m_LastFrameIDs[r] < f
      BY <2>ints, <3>1 DEF RouteInv
    <3>3. ASSUME NEW q \in Routes
          PROVE  /\ stream_pc'[q] = "dynamic" => packet'[q] \in Frames
                 /\ m_LastFrameIDs'[q] # MaxUInt32 => m_LastFrameIDs'[q] <= packet'[q]
                 /\ (stream_pc'[q] = "dynamic" /\ m_LastFrameIDs'[q] # MaxUInt32)
                      => m_LastFrameIDs'[q] < packet'[q]
      <4>1. CASE q = r
        BY <2>2, <2>ints, <3>1, <3>2, <4>1
      <4>2. CASE q # r
        BY <2>2, <3>1, <4>2 DEF RouteInv
      <4> QED
        BY <4>1, <4>2
    <3> QED
      BY <2>1, <3>3 DEF RouteInv
  <2>4. ASSUME OnDynamicObjects(r) PROVE RouteInv'
    <3>1. /\ m_LastFrameIDs' = [m_LastFrameIDs EXCEPT ![r] = packet[r]]
          /\ stream_pc' = [stream_pc EXCEPT ![r] = "reading"]
          /\ UNCHANGED packet
      BY <2>4 DEF OnDynamicObjects
    <3>2. ASSUME NEW q \in Routes
          PROVE  /\ stream_pc'[q] = "dynamic" => packet'[q] \in Frames
                 /\ m_LastFrameIDs'[q] # MaxUInt32 => m_LastFrameIDs'[q] <= packet'[q]
                 /\ (stream_pc'[q] = "dynamic" /\ m_LastFrameIDs'[q] # MaxUInt32)
                      => m_LastFrameIDs'[q] < packet'[q]
      <4>1. CASE q = r
        BY <2>2, <2>ints, <3>1, <4>1
      <4>2. CASE q # r
        BY <2>2, <3>1, <4>2 DEF RouteInv
      <4> QED
        BY <4>1, <4>2
    <3> QED
      BY <2>1, <3>2 DEF RouteInv
  <2>5. ASSUME OnDisconnect(r) PROVE RouteInv'
    BY <2>1, <2>2, <2>5 DEF OnDisconnect, RouteInv
  <2> QED
    BY <1>2, <2>3, <2>4, <2>5 DEF StreamThread
<1>3. CASE UNCHANGED <<m_LastFrameIDs, stream_vars>>
  BY <1>3 DEF RouteInv, Ready, stream_vars
<1>4. UNCHANGED <<m_LastFrameIDs, stream_vars>>
        \/ \E R \in SUBSET Routes : Connect(R)
        \/ \E r \in Routes : StreamThread(r)
  BY DEF Next, Caller, PollFrame, WaitFrame, WakeUp, TimedOut, SetBufferSize,
         ClearBuffer, route_vars, stream_vars, vars
<1> QED
  BY <1>1, <1>2, <1>3, <1>4

\* A frame that is buffered is newer than all before it: the highest one so
\* far has been delivered by this route, or by another one that it passes.
LEMMA TakenIsNewer ==
  ASSUME TypeOK, RouteInv, NewestInv, NEW r \in Routes, OnDynamicObjects(r), ~ Received(r)
  PROVE  packet[r] \in Frames /\ packet[r] > newest
<1>1. /\ packet[r] \in Frames
      /\ m_LastFrameIDs[r] # MaxUInt32 => m_LastFrameIDs[r] < packet[r]
  BY DEF OnDynamicObjects, RouteInv
<1>ints. /\ packet[r] \in Nat
      /\ newest \in Int
      /\ \A q \in Routes : m_LastFrameIDs[q] \in Nat
  BY <1>1, FrameAssumption DEF TypeOK, Frames
<1>2. CASE newest = -1
  BY <1>1, <1>2, <1>ints
<1>3. CASE newest # -1
  <2>1. PICK q \in Routes : m_LastFrameIDs[q] # MaxUInt32 /\ newest <= m_LastFrameIDs[q]
    BY <1>3 DEF NewestInv
  <2>3. CASE q = r
    BY <1>1, <1>ints, <2>1, <2>3
  <2>4. CASE q # r
    <3>1. Cardinality(Routes) > 1
      <4>1. IsFiniteSet({q, r}) /\ Cardinality({q, r}) = 2
        <5>1. IsFiniteSet({q}) /\ Cardinality({q}) = 1
          BY FS_Singleton
        <5>2. IsFiniteSet({q} \cup {r}) /\ Cardinality({q} \cup {r}) = 1 + 1
          BY <2>4, <5>1, FS_AddElement
        <5>3. {q} \cup {r} = {q, r}
          OBVIOUS
        <5> QED
          BY <5>2, <5>3
      <4>2. Cardinality({q, r}) <= Cardinality(Routes) /\ Cardinality(Routes) \in Nat
        BY RoutesAssumption, FS_Subset, FS_CardinalityType
      <4> QED
        BY <4>1, <4>2
    <3>2. ~ (packet[r] <= m_LastFrameIDs[q])
      BY <2>4, <3>1 DEF Received
    <3> QED
      BY <1>1, <1>ints, <2>1, <3>2
  <2> QED
    BY <2>3, <2>4
<1> QED
  BY <1>2, <1>3

LEMMA NewestStep ==
  ASSUME TypeOK, RouteInv, NewestInv, [Next]_vars
  PROVE  NewestInv'
<1> SUFFICES ASSUME newest' # -1
             PROVE  /\ Ready'
                    /\ \E q \in Routes : /\ m_LastFrameIDs'[q] # MaxUInt32
                                        /\ newest' <= m_LastFrameIDs'[q]
  BY DEF NewestInv
<1>1. ASSUME NEW R \in SUBSET Routes, Connect(R) PROVE FALSE
  BY <1>1 DEF Connect, NewestInv, buffer_vars
<1>2. ASSUME NEW r \in Routes, OnDynamicObjects(r)
      PROVE  /\ Ready'
             /\ \E q \in Routes : /\ m_LastFrameIDs'[q] # MaxUInt32
                                 /\ newest' <= m_LastFrameIDs'[q]
  <2>1. /\ packet[r] \in Frames /\ packet[r] \in Nat /\ packet[r] # MaxUInt32
        /\ newest \in Int
        /\ \A q \in Routes : m_LastFrameIDs[q] \in Nat
    BY <1>2, FrameAssumption DEF OnDynamicObjects, RouteInv, TypeOK, Frames
  <2>2. m_LastFrameIDs'[r] = packet[r]
        /\ \A q \in Routes \ {r} : m_LastFrameIDs'[q] = m_LastFrameIDs[q]
    BY <1>2 DEF OnDynamicObjects, TypeOK
  <2>3. Ready'
    <3>1. Ready
      BY <1>2 DEF OnDynamicObjects, RouteInv
    <3> QED
      BY <3>1, ReadyKept
  <2>4. CASE ~ Received(r)
    <3>1. newest' = packet[r]
      BY <1>2, <2>4 DEF OnDynamicObjects, TakeFrame
    <3> QED
      BY <2>1, <2>2, <2>3, <3>1
  <2>5. CASE Received(r)
    <3>1. newest' = newest
      BY <1>2, <2>5 DEF OnDynamicObjects, buffer_vars
    <3>2. PICK q \in Routes : m_LastFrameIDs[q] # MaxUInt32 /\ newest <= m_LastFrameIDs[q]
      BY <3>1 DEF NewestInv
    <3>3. CASE q # r
      BY <2>2, <2>3, <3>1, <3>2, <3>3
    <3>4. CASE q = r
      <4>1. m_LastFrameIDs[r] <= packet[r]
        BY <3>2, <3>4 DEF RouteInv
      <4>2. newest' <= m_LastFrameIDs'[r]
        BY <2>1, <2>2, <3>1, <3>2, <3>4, <4>1
      <4> QED
        BY <2>1, <2>2, <2>3, <4>2
    <3> QED
      BY <3>3, <3>4
  <2> QED
    BY <2>4, <2>5
<1>3. CASE UNCHANGED <<newest, m_LastFrameIDs>>
  BY <1>3, ReadyKept DEF NewestInv
<1>4. UNCHANGED <<newest, m_LastFrameIDs>>
        \/ \E R \in SUBSET Routes : Connect(R)
        \/ \E r \in Routes : OnDynamicObjects(r)
  BY DEF Next, StreamThread, OnStaticObjects, NoStaticObjects, OnDisconnect, Caller,
         PollFrame, WaitFrame, WakeUp, TimedOut, HandOut, SetBufferSize, ClearBuffer,
         route_vars, buffer_vars, vars
<1> QED
  BY <1>1, <1>2, <1>3, <1>4

\* Every step that fills the deque wakes all waiting threads, and nobody
\* starts to wait when there is something in it.
LEMMA WakeupStep ==
  ASSUME TypeOK, NoLostWakeup, [Next]_vars
  PROVE  NoLostWakeup'
<1> USE DEF NoLostWakeup, route_vars, buffer_vars, stream_vars, wait_vars
<1>1. ASSUME NEW R \in SUBSET Routes, Connect(R) PROVE NoLostWakeup'
  BY <1>1 DEF Connect
<1>2. ASSUME NEW r \in Routes, StreamThread(r) PROVE NoLostWakeup'
  BY <1>2 DEF StreamThread, OnStaticObjects, NoStaticObjects, OnDynamicObjects,
              TakeFrame, OnDisconnect
<1>3. ASSUME NEW c \in Callers, Caller(c) PROVE NoLostWakeup'
  <2>1. ASSUME PollFrame(c) PROVE NoLostWakeup'
    BY <2>1 DEF PollFrame
  <2>2. ASSUME WaitFrame(c) PROVE NoLostWakeup'
    BY <2>2 DEF WaitFrame
  <2>3. ASSUME WakeUp(c) PROVE NoLostWakeup'
    BY <2>3 DEF WakeUp
  <2>4. ASSUME TimedOut(c) PROVE NoLostWakeup'
    BY <2>4 DEF TimedOut
  <2> QED
    BY <1>3, <2>1, <2>2, <2>3, <2>4 DEF Caller
<1>4. ASSUME NEW n \in 0 .. MaxBuffer, SetBufferSize(n) PROVE NoLostWakeup'
  <2>1. CASE m_FrameDeque # <<>>
    BY <1>4, <2>1 DEF SetBufferSize
  <2>2. CASE m_FrameDeque = <<>>
    <3>1. n \in Nat /\ Len(m_FrameDeque) = 0
      BY <2>2, BufferAssumption
    <3>2. m_FrameDeque' = m_FrameDeque
      BY <1>4, <3>1 DEF SetBufferSize, KeepLast
    <3> QED
      BY <1>4, <3>2 DEF SetBufferSize
  <2> QED
    BY <2>1, <2>2
<1>5. ASSUME ClearBuffer PROVE NoLostWakeup'
  BY <1>5 DEF ClearBuffer
<1>6. CASE UNCHANGED vars
  BY <1>6 DEF vars
<1> QED
  BY <1>1, <1>2, <1>3, <1>4, <1>5, <1>6 DEF Next

-----------------------------------------------------------------------------
LEMMA InductiveStep == IInv /\ [Next]_vars => IInv'
<1> SUFFICES ASSUME IInv, [Next]_vars PROVE IInv'
  OBVIOUS
<1>1. TypeOK'
  <2>1. ASSUME NEW R \in SUBSET Routes, Connect(R) PROVE TypeOK'
    BY <2>1, FrameAssumption DEF Connect, IInv, TypeOK, buffer_vars, wait_vars
  <2>2. CASE UNCHANGED vars
    BY <2>2 DEF IInv, TypeOK, vars, route_vars, buffer_vars, stream_vars, wait_vars
  <2> QED
    BY <2>1, <2>2, StreamTyped, CallerTyped, BufferTyped DEF IInv, Next
<1> QED
  BY <1>1, RouteStep, NewestStep, WakeupStep DEF IInv

LEMMA InitInv == Init => IInv
<1> SUFFICES ASSUME Init PROVE IInv
  OBVIOUS
<1>1. TypeOK
  BY InitTyped
<1>2. RouteInv
  BY DEF Init, RouteInv
<1> QED
  BY <1>1, <1>2 DEF Init, IInv, NewestInv, NoLostWakeup

\* The inductive invariant holds in every behaviour of the client.
THEOREM InductiveInvariant == Spec => []IInv
BY InitInv, InductiveStep, PTL DEF Spec

\* The variables of the client keep their types, and the deque its bound.
THEOREM TypeCorrect == Spec => []TypeOK
<1>1. IInv => TypeOK
  BY DEF IInv
<1> QED
  BY <1>1, InductiveInvariant, PTL

\* No thread waits without having been woken up while a sample is there.
THEOREM WakeupsReachAll == Spec => []NoLostWakeup
<1>1. IInv => NoLostWakeup
  BY DEF IInv
<1> QED
  BY <1>1, InductiveInvariant, PTL

-----------------------------------------------------------------------------
(* The two halves of a sample.                                             *)

\* What is left of a sequence has elements of that sequence.
LEMMA FromElements ==
  ASSUME NEW S, NEW q \in Seq(S), NEW k \in 1 .. Len(q) + 1
  PROVE  \A i \in 1 .. Len(Feed!From(q, k)) : \E j \in 1 .. Len(q) : Feed!From(q, k)[i] = q[j]
<1>1. Len(q) \in Nat /\ \A i \in 1 .. Len(q) : q[i] \in S
  BY LenProperties, ElementOfSeq
<1>2. k \in Int /\ \A i \in k .. Len(q) : i \in 1 .. Len(q)
  BY <1>1
<1>3. /\ Len(SubSeq(q, k, Len(q))) = IF k <= Len(q) THEN Len(q) - k + 1 ELSE 0
      /\ \A i \in 1 .. Len(q) - k + 1 : SubSeq(q, k, Len(q))[i] = q[k + i - 1]
  BY <1>1, <1>2, SubSeqProperties
<1>4. ASSUME NEW i \in 1 .. Len(Feed!From(q, k))
      PROVE  \E j \in 1 .. Len(q) : Feed!From(q, k)[i] = q[j]
  <2>1. i \in 1 .. Len(q) - k + 1
    BY <1>1, <1>2, <1>3 DEF Feed!From
  <2>2. k + i - 1 \in 1 .. Len(q)
    BY <1>1, <1>2, <2>1
  <2> QED
    BY <1>3, <2>1, <2>2 DEF Feed!From
<1> QED
  BY <1>4

\* So a deque of whole samples stays one when only its oldest ones leave it.
LEMMA WholeKept ==
  ASSUME TypeOK, SampleIsWhole, NEW k \in 1 .. Len(m_FrameDeque) + 1,
         m_FrameDeque' = Feed!From(m_FrameDeque, k)
  PROVE  SampleIsWhole'
BY FromElements DEF SampleIsWhole, TypeOK

\* With one route the static objects that are kept stay those of its packet:
\* they arrive with the packet or are those of the packet before.
LEMMA StaticsStep ==
  ASSUME TypeOK, RouteInv, StaticsInv, NEW r, Routes = {r}, [Next]_vars
  PROVE  StaticsInv'
<1>0. packet \in [Routes -> Frames \cup {-1}] /\ -1 \notin Frames
  BY FrameAssumption DEF TypeOK, Frames
<1>1. ASSUME NEW f \in Frames, OnStaticObjects(r, f) PROVE StaticsInv'
  BY <1>0, <1>1 DEF OnStaticObjects, StaticsInv
<1>2. ASSUME NEW f \in Frames, NoStaticObjects(r, f) PROVE StaticsInv'
  BY <1>0, <1>2 DEF NoStaticObjects, StaticsInv, route_vars
<1>3. CASE UNCHANGED <<packet, m_pLastStaticObjects>>
  BY <1>3 DEF StaticsInv
<1>4. UNCHANGED <<packet, m_pLastStaticObjects>>
        \/ \E f \in Frames : OnStaticObjects(r, f) \/ NoStaticObjects(r, f)
  BY DEF Next, Connect, StreamThread, OnDynamicObjects, OnDisconnect, Caller, PollFrame,
         WaitFrame, WakeUp, TimedOut, SetBufferSize, ClearBuffer, route_vars, stream_vars, vars
<1> QED
  BY <1>1, <1>2, <1>3, <1>4

LEMMA WholeStep ==
  ASSUME TypeOK, RouteInv, StaticsInv, SampleIsWhole, [Next]_vars
  PROVE  SampleIsWhole'
<1>0. m_FrameDeque \in Seq(Sample) /\ m_MaxBufferSize \in Nat /\ Len(m_FrameDeque) \in Nat
  BY LenProperties, BufferAssumption DEF TypeOK
<1>1. ASSUME NEW r \in Routes, OnDynamicObjects(r), ~ Received(r) PROVE SampleIsWhole'
  <2> DEFINE s == [statics |-> m_pLastStaticObjects, frame |-> packet[r]]
  <2> DEFINE q == Append(m_FrameDeque, s)
  <2>1. packet[r] \in Frames /\ -1 \notin Frames
    BY <1>1, FrameAssumption DEF OnDynamicObjects, RouteInv, Frames
  <2>2. s \in Sample /\ s.statics = Layout(s.frame)
    BY <2>1 DEF StaticsInv, TypeOK, Sample
  <2>3. q \in Seq(Sample) /\ \A j \in 1 .. Len(q) : q[j].statics = Layout(q[j].frame)
    BY <1>0, <2>2 DEF SampleIsWhole
  <2>4. m_FrameDeque' = KeepLast(q, m_MaxBufferSize)
    BY <1>1 DEF OnDynamicObjects, TakeFrame
  <2>5. PICK k \in 1 .. Len(q) + 1 : m_FrameDeque' = Feed!From(q, k)
    BY <1>0, <2>3, <2>4, KeepLastProperties
  <2> HIDE DEF q
  <2> QED
    BY <2>3, <2>5, FromElements DEF SampleIsWhole
<1>2. ASSUME NEW n \in {1, Len(m_FrameDeque)}, m_FrameDeque # <<>>, HandOut(n)
      PROVE  SampleIsWhole'
  <2>1. n + 1 \in 1 .. Len(m_FrameDeque) + 1
    BY <1>0, <1>2, FrontOfDeque
  <2>2. m_FrameDeque' = Feed!From(m_FrameDeque, n + 1)
    BY <1>2 DEF HandOut, Feed!From
  <2> QED
    BY <2>1, <2>2, WholeKept
<1>3. ASSUME NEW n \in 0 .. MaxBuffer, SetBufferSize(n) PROVE SampleIsWhole'
  BY <1>0, <1>3, KeepLastProperties, WholeKept, BufferAssumption DEF SetBufferSize
<1>4. ASSUME ClearBuffer PROVE SampleIsWhole'
  BY <1>4 DEF ClearBuffer, SampleIsWhole
<1>5. CASE UNCHANGED m_FrameDeque
  BY <1>5 DEF SampleIsWhole
<1>6. \/ UNCHANGED m_FrameDeque
      \/ \E r \in Routes : OnDynamicObjects(r) /\ ~ Received(r)
      \/ \E n \in {1, Len(m_FrameDeque)} : m_FrameDeque # <<>> /\ HandOut(n)
      \/ \E n \in 0 .. MaxBuffer : SetBufferSize(n)
      \/ ClearBuffer
  BY DEF Next, Connect, StreamThread, OnStaticObjects, NoStaticObjects, OnDynamicObjects,
         OnDisconnect, Caller, PollFrame, WaitFrame, WakeUp, TimedOut, buffer_vars, vars
<1> QED
  BY <1>1, <1>2, <1>3, <1>4, <1>5, <1>6

\* With one route, every buffered sample has the static objects of its frame,
\* whatever packets the server skips and whenever its static objects change.
THEOREM OneRouteIsWhole ==
  ASSUME NEW r, Routes = {r}
  PROVE  Spec => []SampleIsWhole
<1>1. Init => StaticsInv /\ SampleIsWhole
  BY EmptySeq DEF Init, StaticsInv, SampleIsWhole
<1>2. IInv /\ StaticsInv /\ SampleIsWhole /\ [Next]_vars => (StaticsInv /\ SampleIsWhole)'
  BY StaticsStep, WholeStep DEF IInv
<1> QED
  BY <1>1, <1>2, InductiveInvariant, PTL DEF Spec

-----------------------------------------------------------------------------
(* The client implements the feed.                                         *)

LEMMA FeedInitially == Init => Feed!Init
BY DEF Init, Feed!Init

\* What a caller is handed is what the feed hands out.
LEMMA HandOutIsFeedStep ==
  ASSUME TypeOK, m_FrameDeque # <<>>, NEW n \in {1, Len(m_FrameDeque)}, HandOut(n)
  PROVE  Feed!Next
<1>1. n \in 1 .. Len(m_FrameDeque)
  BY FrontOfDeque
<1>2. Feed!HandOut(n)
  BY DEF HandOut, Feed!HandOut, Feed!From
<1> QED
  BY <1>1, <1>2 DEF Feed!Next

LEMMA FeedSimulation == IInv /\ [Next]_vars => [Feed!Next]_(Feed!vars)
<1> SUFFICES ASSUME IInv, [Next]_vars PROVE Feed!Next \/ UNCHANGED Feed!vars
  OBVIOUS
<1> USE DEF Feed!vars
<1>0. TypeOK /\ RouteInv /\ NewestInv /\ m_FrameDeque \in Seq(Sample)
  BY DEF IInv, TypeOK
<1>1. ASSUME NEW r \in Routes, OnDynamicObjects(r), ~ Received(r) PROVE Feed!Next
  <2> DEFINE s == [statics |-> m_pLastStaticObjects, frame |-> packet[r]]
  <2> DEFINE q == Append(m_FrameDeque, s)
  <2>1. packet[r] \in Frames /\ packet[r] > newest
    BY <1>0, <1>1, TakenIsNewer
  <2>2. s \in Sample /\ m_MaxBufferSize \in Nat /\ Len(m_FrameDeque) \in Nat
    BY <1>0, <2>1, LenProperties DEF TypeOK, Sample
  <2>3. q \in Seq(Sample) /\ Len(q) + 1 = Len(m_FrameDeque) + 2
    BY <1>0, <2>2
  <2>4. /\ m_FrameDeque' = KeepLast(q, m_MaxBufferSize)
        /\ newest' = packet[r] /\ UNCHANGED seen
    BY <1>1 DEF OnDynamicObjects, TakeFrame
  <2>5. PICK k \in 1 .. Len(q) + 1 : KeepLast(q, m_MaxBufferSize) = Feed!From(q, k)
    BY <2>2, <2>3, KeepLastProperties
  <2>6. k \in 1 .. Len(m_FrameDeque) + 2
    BY <2>3, <2>5
  <2>7. Feed!Enter(s)
    BY <2>1, <2>4, <2>5, <2>6 DEF Feed!Enter
  <2> QED
    BY <2>2, <2>7 DEF Feed!Next
<1>2. ASSUME NEW c \in Callers, PollFrame(c) \/ WakeUp(c)
      PROVE  Feed!Next \/ UNCHANGED Feed!vars
  BY <1>0, <1>2, HandOutIsFeedStep DEF PollFrame, WakeUp, buffer_vars
<1>3. ASSUME NEW n \in 0 .. MaxBuffer, SetBufferSize(n)
      PROVE  Feed!Next \/ UNCHANGED Feed!vars
  <2>1. n \in Nat /\ Len(m_FrameDeque) \in Nat
    BY <1>0, LenProperties, BufferAssumption
  <2>2. PICK k \in 1 .. Len(m_FrameDeque) + 1 : KeepLast(m_FrameDeque, n) = Feed!From(m_FrameDeque, k)
    BY <1>0, <2>1, KeepLastProperties
  <2>3. m_FrameDeque' = Feed!From(m_FrameDeque, k) /\ UNCHANGED <<newest, seen>>
    BY <1>3, <2>2 DEF SetBufferSize
  <2>4. CASE k = 1
    <3>1. Feed!From(m_FrameDeque, 1) = m_FrameDeque
      BY <1>0, SubSeqFull DEF Feed!From
    <3> QED
      BY <2>3, <2>4, <3>1
  <2>5. CASE k # 1
    <3>1. k - 1 \in 1 .. Len(m_FrameDeque) /\ (k - 1) + 1 = k
      BY <2>1, <2>5
    <3>2. Feed!Forget(k - 1)
      BY <2>3, <3>1 DEF Feed!Forget
    <3> QED
      BY <3>1, <3>2 DEF Feed!Next
  <2> QED
    BY <2>4, <2>5
<1>4. ASSUME ClearBuffer PROVE Feed!Next \/ UNCHANGED Feed!vars
  <2> DEFINE n == Len(m_FrameDeque)
  <2>1. CASE m_FrameDeque = <<>>
    BY <1>4, <2>1 DEF ClearBuffer
  <2>2. CASE m_FrameDeque # <<>>
    <3>1. n \in 1 .. n
      BY <1>0, <2>2, FrontOfDeque
    <3>2. Feed!From(m_FrameDeque, n + 1) = <<>>
      BY <3>1, SubSeqEmpty DEF Feed!From
    <3>3. Feed!Forget(n)
      BY <1>4, <3>2 DEF ClearBuffer, Feed!Forget
    <3> QED
      BY <3>1, <3>3 DEF Feed!Next
  <2> QED
    BY <2>1, <2>2
<1>5. \/ UNCHANGED Feed!vars
      \/ \E r \in Routes : OnDynamicObjects(r) /\ ~ Received(r)
      \/ \E c \in Callers : PollFrame(c) \/ WakeUp(c)
      \/ \E n \in 0 .. MaxBuffer : SetBufferSize(n)
      \/ ClearBuffer
  BY DEF Next, Connect, StreamThread, OnStaticObjects, NoStaticObjects, OnDynamicObjects,
         OnDisconnect, Caller, WaitFrame, TimedOut, buffer_vars, vars
<1> QED
  BY <1>1, <1>2, <1>3, <1>4, <1>5

\* The client with its routes, stream threads and callers implements the feed.
THEOREM ImplementsFeed == Spec => FeedSpec
BY FeedInitially, FeedSimulation, InductiveInvariant, PTL DEF Spec, FeedSpec, Feed!Spec

\* What FrameFeedProof shows of every feed holds of the client: the samples
\* in the deque are in order and newer than all that were handed out.
Proved == INSTANCE FrameFeedProof WITH Samples <- Sample, queue <- m_FrameDeque

THEOREM DequeInOrder == Spec => []Feed!InOrder
<1>1. Proved!Numbered
  BY FrameAssumption DEF Proved!Numbered, Sample, Frames
<1>2. Feed!Init => Proved!Init
  BY DEF Feed!Init, Proved!Init
<1>3. [Feed!Next]_(Feed!vars) => [Proved!Next]_(Proved!vars)
  BY DEF Feed!Next, Feed!vars, Feed!Enter, Feed!HandOut, Feed!Forget, Feed!From,
         Proved!Next, Proved!vars, Proved!Enter, Proved!HandOut, Proved!Forget, Proved!From
<1>4. Proved!InOrder => Feed!InOrder
  BY DEF Proved!InOrder, Feed!InOrder
<1>5. Proved!Spec => [](Proved!TypeOK /\ Proved!InOrder)
  BY <1>1, Proved!FeedInOrder
<1> QED
  BY <1>2, <1>3, <1>4, <1>5, ImplementsFeed, PTL
     DEF FeedSpec, Feed!Spec, Proved!Spec

=============================================================================
