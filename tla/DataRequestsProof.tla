------------------------- MODULE DataRequestsProof -------------------------
(***************************************************************************)
(* Proofs about DataRequests: whatever the program enables and disables,   *)
(* over any number of routes to any servers, the stream threads keep the   *)
(* servers in step, and the calls keep what is requested in step with what *)
(* Is...Enabled reports.                                                   *)
(***************************************************************************)
EXTENDS DataRequests, Counting, SequenceTheorems

\* The variables that IInv is about.
iinv_vars == <<m_RequestedObjects, m_RequiredObjects, m_bEnumsChanged, filter,
               m_bFilterChanged, m_ServerObjects, stream_pc, offer, server_enums,
               server_filter>>

\* IInv does not depend on the other variables.
LEMMA Untouched == IInv /\ UNCHANGED iinv_vars => IInv'
BY DEF IInv, RoutesListed, RoutesKnow, ServersKnow, FiltersKnow, iinv_vars

\* Before the first connection no thread runs.
LEMMA InitEstablishes == Init => IInv
BY DEF Init, IInv, RoutesListed, RoutesKnow, ServersKnow, FiltersKnow

\* A new connection knows nothing of the server, and the server nothing of it.
LEMMA NewConnectionKeeps ==
  ASSUME NewConnection, NEW pc, stream_pc' = [r \in Routes |-> pc[r]],
         \A r \in Routes : pc[r] \in {"connecting", "ended"}
  PROVE  IInv'
BY DEF NewConnection, IInv, RoutesListed, RoutesKnow, ServersKnow, FiltersKnow

\* When the set of VCGClient changes, every route is told and marked.
LEMMA SetRequiredObjectsKeeps ==
  ASSUME IInv, NEW types, NEW on, SetRequiredObjects(types, on),
         UNCHANGED <<filter_vars, server_vars, conn_vars>>
  PROVE  IInv'
BY DEF IInv, RoutesListed, RoutesKnow, ServersKnow, FiltersKnow, SetRequiredObjects,
       filter_vars, server_vars, conn_vars

\* A new filter marks every route.
LEMMA SetFilterKeeps ==
  ASSUME IInv, NEW f, SetFilter(f),
         UNCHANGED <<setup_vars, server_vars, conn_vars>>
  PROVE  IInv'
BY DEF IInv, RoutesListed, RoutesKnow, ServersKnow, FiltersKnow, SetFilter,
       setup_vars, server_vars, conn_vars

\* The thread of a route: the declaration is read whole before anything is
\* written, and what is written is what the route holds.
LEMMA StreamThreadKeeps ==
  ASSUME IInv, NEW r \in Routes, StreamThread(r) \/ OnDisconnect(r)
  PROVE  IInv'
<1> USE DEF IInv, RoutesListed, RoutesKnow, ServersKnow, FiltersKnow, setup_vars, filter_vars,
            apex_vars, frame_vars, server_vars
<1>1. CASE ReadObjectEnums(r)
  BY <1>1 DEF ReadObjectEnums
<1>2. CASE DeclarationRead(r)
  <2>1. RoutesListed' /\ RoutesKnow' /\ FiltersKnow'
    BY <1>2 DEF DeclarationRead
  <2>2. ASSUME NEW q \in Routes,
               stream_pc'[q] \in {"write", "writing", "reading"}
        PROVE  /\ m_ServerObjects'[q] = offer'[q]
               /\ ~ m_bEnumsChanged'[q] =>
                    server_enums'[q] = offer'[q] \cap m_RequiredObjects'[q]
    <3>1. CASE q = r
      BY <1>2, <3>1 DEF DeclarationRead
    <3>2. CASE q # r
      BY <1>2, <2>2, <3>2 DEF DeclarationRead
    <3> QED
      BY <3>1, <3>2
  <2> QED
    BY <2>1, <2>2
<1>3. CASE WriteObjects(r)
  BY <1>3 DEF WriteObjects
<1>4. CASE Flush(r)
  <2>1. RoutesListed' /\ RoutesKnow' /\ FiltersKnow'
    BY <1>4 DEF Flush
  <2>2. ASSUME NEW q \in Routes,
               stream_pc'[q] \in {"write", "writing", "reading"}
        PROVE  /\ m_ServerObjects'[q] = offer'[q]
               /\ ~ m_bEnumsChanged'[q] =>
                    server_enums'[q] = offer'[q] \cap m_RequiredObjects'[q]
    <3>1. CASE q = r
      BY <1>4, <3>1 DEF Flush
    <3>2. CASE q # r
      BY <1>4, <2>2, <3>2 DEF Flush
    <3> QED
      BY <3>1, <3>2
  <2> QED
    BY <2>1, <2>2
<1>5. CASE ReadObjects(r)
  BY <1>5 DEF ReadObjects
<1>6. CASE OnDisconnect(r)
  BY <1>6 DEF OnDisconnect
<1> QED
  BY <1>1, <1>2, <1>3, <1>4, <1>5, <1>6 DEF StreamThread

\* The steps of a Set...DataEnabled call.
LEMMA CallStepsKeep ==
  ASSUME IInv, CallSteps
  PROVE  IInv'
<1>1. CASE SetRequestTypes
  <2>1. UNCHANGED <<filter_vars, server_vars, conn_vars>>
    BY <1>1 DEF SetRequestTypes
  <2>2. \/ \E types, on : SetRequiredObjects(types, on)
        \/ UNCHANGED <<m_RequestedObjects, m_RequiredObjects, m_bEnumsChanged>>
    BY <1>1 DEF SetRequestTypes
  <2>3. CASE \E types, on : SetRequiredObjects(types, on)
    BY <2>1, <2>3, SetRequiredObjectsKeeps
  <2>4. CASE UNCHANGED <<m_RequestedObjects, m_RequiredObjects, m_bEnumsChanged>>
    BY <2>1, <2>4, Untouched DEF iinv_vars, filter_vars, server_vars, conn_vars
  <2> QED
    BY <2>2, <2>3, <2>4
<1>2. CASE DisableData
  BY <1>2, Untouched DEF DisableData, iinv_vars, filter_vars, server_vars, conn_vars
<1>3. CASE SetFlag
  BY <1>3, Untouched DEF SetFlag, iinv_vars, filter_vars, server_vars, conn_vars
<1> QED
  BY <1>1, <1>2, <1>3 DEF CallSteps

\* Every step of the program and of the threads keeps the invariant.
LEMMA NextKeeps == IInv /\ [Next]_vars => IInv'
<1> SUFFICES ASSUME IInv, [Next]_vars
             PROVE  IInv'
  OBVIOUS
<1> USE DEF setup_vars, filter_vars, apex_vars, frame_vars, server_vars, conn_vars
<1>1. CASE \E R \in SUBSET Routes : Connect(R)
  <2> PICK R \in SUBSET Routes : Connect(R)
    BY <1>1
  <2> DEFINE pc == [r \in Routes |-> IF r \in R THEN "connecting" ELSE "ended"]
  <2>1. NewConnection /\ stream_pc' = pc
    BY DEF Connect
  <2>2. pc = [r \in Routes |-> pc[r]] /\ \A r \in Routes : pc[r] \in {"connecting", "ended"}
    OBVIOUS
  <2> HIDE DEF pc
  <2> QED
    BY <2>1, <2>2, NewConnectionKeeps
<1>2. CASE Disconnect
  <2> DEFINE pc == [r \in Routes |-> "ended"]
  <2>1. NewConnection /\ stream_pc' = pc
    BY <1>2 DEF Disconnect
  <2>2. pc = [r \in Routes |-> pc[r]] /\ \A r \in Routes : pc[r] \in {"connecting", "ended"}
    OBVIOUS
  <2> HIDE DEF pc
  <2> QED
    BY <2>1, <2>2, NewConnectionKeeps
<1>3. CASE \E k \in Kinds, on \in BOOLEAN : SetDataEnabled(k, on)
  BY <1>3, Untouched DEF SetDataEnabled, iinv_vars
<1>4. CASE CallSteps
  BY <1>4, CallStepsKeep
<1>5. CASE GetFrame
  BY <1>5, Untouched DEF GetFrame, iinv_vars
<1>6. CASE \E c, b, v \in SUBSET Cameras : SetCameraFilter(c, b, v)
  BY <1>6, SetFilterKeeps DEF SetCameraFilter
<1>7. CASE ClearSubjectFilter
  BY <1>7, SetFilterKeeps DEF ClearSubjectFilter
<1>8. CASE \E s \in Subjects : AddToSubjectFilter(s)
  BY <1>8, SetFilterKeeps DEF AddToSubjectFilter
<1>9. CASE \E d \in Devices, on \in BOOLEAN : SetApexDeviceFeedback(d, on)
  BY <1>9, Untouched DEF SetApexDeviceFeedback, iinv_vars
<1>10. CASE \E r \in Routes : StreamThread(r) \/ OnDisconnect(r)
  BY <1>10, StreamThreadKeeps
<1>11. CASE \E r \in Routes : ApexSteps(r)
  BY <1>11, Untouched DEF ApexSteps, RaiseHapticChanged, StoreOnDeviceList, iinv_vars
<1>12. CASE UNCHANGED vars
  BY <1>12, Untouched DEF vars, iinv_vars
<1> QED
  BY <1>1, <1>2, <1>3, <1>4, <1>5, <1>6, <1>7, <1>8, <1>9, <1>10, <1>11, <1>12
     DEF Next

\* IInv holds in every state, for any routes, offers, kinds, types and filters.
THEOREM InductiveInvariant == Spec => []IInv
<1>1. Init => IInv
  BY InitEstablishes
<1>2. IInv /\ [Next]_vars => IInv'
  BY NextKeeps
<1> QED
  BY <1>1, <1>2, PTL DEF Spec

\* A server for which no change is marked has exactly the types that the
\* program requests and it offers, and the filter that the program has set,
\* although requests, filters and declarations race with the stream threads.
THEOREM ServersFollow == Spec => []ServerInStep
<1>1. IInv => ServerInStep
  BY DEF IInv, RoutesKnow, ServersKnow, FiltersKnow, ServerInStep
<1> QED
  BY <1>1, InductiveInvariant, PTL

-----------------------------------------------------------------------------
(* What is left of a list of steps when only some are followed.            *)

KeptOneByOne(f, steps) ==
  /\ f[0] = <<>>
  /\ \A i \in 1 .. Len(steps) :
       f[i] = IF IsFollowed(steps[i]) THEN Append(f[i - 1], steps[i]) ELSE f[i - 1]

LEMMA FollowedProperties ==
  ASSUME NEW S, NEW steps \in Seq(S)
  PROVE  \E f : KeptOneByOne(f, steps) /\ Followed(steps) = f[Len(steps)]
<1> DEFINE Keeps(f) ==
      f = [i \in 0 .. Len(steps) |->
             IF i = 0 THEN <<>>
             ELSE IF IsFollowed(steps[i]) THEN Append(f[i - 1], steps[i]) ELSE f[i - 1]]
<1>1. PICK n \in Nat : n = Len(steps)
  OBVIOUS
<1>2. \E f : Keeps(f)
  <2> DEFINE step == [i \in 1 .. n |-> [x \in Seq(S) |->
                        IF IsFollowed(steps[i]) THEN Append(x, steps[i]) ELSE x]]
  <2>1. <<>> \in Seq(S) /\ step \in [1 .. n -> [Seq(S) -> Seq(S)]]
    BY <1>1
  <2>2. \A i \in 1 .. n, x \in Seq(S) :
          step[i][x] = IF IsFollowed(steps[i]) THEN Append(x, steps[i]) ELSE x
    OBVIOUS
  <2> HIDE DEF step
  <2>3. PICK f : Stepwise(f, n, Seq(S), <<>>, step)
    BY <2>1, StepwiseFunction
  <2>4. f \in [0 .. n -> Seq(S)] /\ f[0] = <<>> /\ \A i \in 1 .. n : f[i] = step[i][f[i - 1]]
    BY <2>3 DEF Stepwise
  <2>5. ASSUME NEW i \in 1 .. n
        PROVE  f[i] = IF IsFollowed(steps[i]) THEN Append(f[i - 1], steps[i]) ELSE f[i - 1]
    <3>1. i - 1 \in 0 .. n
      OBVIOUS
    <3>2. PICK x \in Seq(S) : x = f[i - 1]
      BY <2>4, <3>1
    <3>3. f[i] = step[i][x]
      BY <2>4, <3>2
    <3> QED
      BY <2>2, <3>2, <3>3
  <2>6. \A i \in 0 .. n : i # 0 => i \in 1 .. n
    OBVIOUS
  <2>7. Keeps(f)
    BY <1>1, <2>4, <2>5, <2>6
  <2> QED
    BY <2>7
<1>3. PICK f : f = CHOOSE g : Keeps(g)
  OBVIOUS
<1>4. Keeps(f)
  <2> HIDE DEF Keeps
  <2> QED
    BY <1>2, <1>3
<1>5. Followed(steps) = f[Len(steps)]
  BY <1>3 DEF Followed
<1>6. KeptOneByOne(f, steps)
  <2>1. f = [i \in 0 .. n |->
               IF i = 0 THEN <<>>
               ELSE IF IsFollowed(steps[i]) THEN Append(f[i - 1], steps[i]) ELSE f[i - 1]]
    BY <1>1, <1>4
  <2>2. 0 \in 0 .. n /\ \A i \in 1 .. n : i \in 0 .. n /\ i # 0
    OBVIOUS
  <2> HIDE DEF Keeps
  <2>3. f[0] = <<>>
    BY <2>1, <2>2
  <2>4. \A i \in 1 .. n :
          f[i] = IF IsFollowed(steps[i]) THEN Append(f[i - 1], steps[i]) ELSE f[i - 1]
    BY <2>1, <2>2
  <2> QED
    BY <1>1, <2>3, <2>4 DEF KeptOneByOne
<1> QED
  BY <1>5, <1>6

\* kept has the first i steps that are followed, at the places that g gives.
IsSelection(kept, g, steps, i) ==
  /\ \A a \in 1 .. Len(kept) : g[a] \in 1 .. i /\ kept[a] = steps[g[a]] /\ IsFollowed(kept[a])
  /\ \A a, b \in 1 .. Len(kept) : a < b => g[a] < g[b]
  /\ \A j \in 1 .. i : IsFollowed(steps[j]) => \E a \in 1 .. Len(kept) : g[a] = j

LEMMA SelectionGrows ==
  ASSUME NEW S, NEW steps \in Seq(S), NEW i \in 1 .. Len(steps), NEW kept \in Seq(S),
         NEW g, IsSelection(kept, g, steps, i - 1)
  PROVE  /\ ~ IsFollowed(steps[i]) => IsSelection(kept, g, steps, i)
         /\ IsFollowed(steps[i]) =>
              \E h : IsSelection(Append(kept, steps[i]), h, steps, i)
<1>1. PICK l \in Nat : l = Len(kept)
  OBVIOUS
<1>2. i \in Nat /\ \A j \in 1 .. i : j = i \/ j \in 1 .. i - 1
  OBVIOUS
<1>3. /\ \A a \in 1 .. l : g[a] \in 1 .. i - 1 /\ kept[a] = steps[g[a]] /\ IsFollowed(kept[a])
      /\ \A a, b \in 1 .. l : a < b => g[a] < g[b]
      /\ \A j \in 1 .. i - 1 : IsFollowed(steps[j]) => \E a \in 1 .. l : g[a] = j
  BY <1>1 DEF IsSelection
<1>4. \A a \in 1 .. l : g[a] \in 1 .. i
  BY <1>2, <1>3
<1>5. CASE ~ IsFollowed(steps[i])
  BY <1>1, <1>2, <1>3, <1>4, <1>5 DEF IsSelection
<1>6. CASE IsFollowed(steps[i])
  <2>1. PICK longer : longer = Append(kept, steps[i])
    OBVIOUS
  <2>2. /\ Len(longer) = l + 1 /\ longer[l + 1] = steps[i]
        /\ \A a \in 1 .. l : longer[a] = kept[a]
    <3>1. steps[i] \in S
      OBVIOUS
    <3> QED
      BY <1>1, <2>1, <3>1
  <2>3. PICK h : h = [a \in 1 .. l + 1 |-> IF a = l + 1 THEN i ELSE g[a]]
    OBVIOUS
  <2>4. h[l + 1] = i /\ \A a \in 1 .. l : h[a] = g[a]
    BY <2>3
  <2>5. \A a \in 1 .. l + 1 : a = l + 1 \/ a \in 1 .. l
    OBVIOUS
  <2>6. \A a \in 1 .. l + 1 : h[a] \in 1 .. i /\ longer[a] = steps[h[a]] /\ IsFollowed(longer[a])
    BY <1>3, <1>4, <1>6, <2>2, <2>4, <2>5
  <2>7. ASSUME NEW a \in 1 .. l + 1, NEW b \in 1 .. l + 1, a < b
        PROVE  h[a] < h[b]
    <3>1. a \in 1 .. l
      BY <2>7
    <3>2. CASE b = l + 1
      BY <1>2, <1>3, <2>4, <3>1, <3>2
    <3>3. CASE b \in 1 .. l
      BY <1>3, <2>4, <2>7, <3>1, <3>3
    <3> QED
      BY <2>5, <3>2, <3>3
  <2>8. ASSUME NEW j \in 1 .. i, IsFollowed(steps[j])
        PROVE  \E a \in 1 .. l + 1 : h[a] = j
    <3>1. CASE j = i
      BY <2>4, <3>1
    <3>2. CASE j \in 1 .. i - 1
      <4>1. PICK a \in 1 .. l : g[a] = j
        BY <1>3, <2>8, <3>2
      <4>2. a \in 1 .. l + 1 /\ h[a] = j
        BY <2>4, <4>1
      <4> QED
        BY <4>2
    <3> QED
      BY <1>2, <3>1, <3>2
  <2>9. IsSelection(longer, h, steps, i)
    BY <2>2, <2>6, <2>7, <2>8 DEF IsSelection
  <2> QED
    BY <1>6, <2>1, <2>9
<1> QED
  BY <1>5, <1>6

LEMMA FollowedSelects ==
  ASSUME NEW S, NEW steps \in Seq(S)
  PROVE  Followed(steps) \in Seq(S) /\ \E g : IsSelection(Followed(steps), g, steps, Len(steps))
<1>1. PICK n \in Nat : n = Len(steps)
  OBVIOUS
<1>2. PICK f : KeptOneByOne(f, steps) /\ Followed(steps) = f[n]
  BY <1>1, FollowedProperties
<1>3. /\ f[0] = <<>>
      /\ \A i \in 1 .. n :
           f[i] = IF IsFollowed(steps[i]) THEN Append(f[i - 1], steps[i]) ELSE f[i - 1]
  BY <1>1, <1>2 DEF KeptOneByOne
<1> DEFINE Selects(i) == f[i] \in Seq(S) /\ \E g : IsSelection(f[i], g, steps, i)
<1> DEFINE G == { i \in 0 .. n : Selects(i) }
<1>4. 0 \in G
  <2>1. f[0] \in Seq(S) /\ Len(f[0]) = 0 /\ 0 \in 0 .. n
    BY <1>3
  <2>2. IsSelection(f[0], <<>>, steps, 0)
    BY <2>1 DEF IsSelection
  <2> QED
    BY <2>1, <2>2
<1>5. ASSUME NEW i \in 1 .. n, i - 1 \in G PROVE i \in G
  <2>1. i \in 0 .. n /\ i \in 1 .. Len(steps) /\ f[i - 1] \in Seq(S) /\ steps[i] \in S
    BY <1>1, <1>5
  <2>2. PICK g : IsSelection(f[i - 1], g, steps, i - 1)
    BY <1>5
  <2>3. CASE IsFollowed(steps[i])
    <3>1. f[i] = Append(f[i - 1], steps[i])
      BY <1>3, <2>3
    <3>2. \E h : IsSelection(Append(f[i - 1], steps[i]), h, steps, i)
      BY <2>1, <2>2, <2>3, SelectionGrows
    <3>3. Append(f[i - 1], steps[i]) \in Seq(S)
      BY <2>1
    <3>4. Selects(i)
      BY <3>1, <3>2, <3>3
    <3> QED
      BY <2>1, <3>4
  <2>4. CASE ~ IsFollowed(steps[i])
    <3>1. f[i] = f[i - 1]
      BY <1>3, <2>4
    <3>2. IsSelection(f[i - 1], g, steps, i)
      BY <2>1, <2>2, <2>4, SelectionGrows
    <3> QED
      BY <2>1, <3>1, <3>2
  <2> QED
    BY <2>3, <2>4
<1> HIDE DEF G
<1>6. \A i \in 1 .. n : i - 1 \in G => i \in G
  BY <1>5
<1>7. \A i \in 0 .. n : i \in G
  BY <1>4, <1>6, CountingUp
<1>8. n \in G
  BY <1>7
<1>9. Selects(n)
  BY <1>8 DEF G
<1> QED
  BY <1>1, <1>2, <1>9

-----------------------------------------------------------------------------
\* Every kind has its list of types, and lightweight segments are in one list only.
LEMMA ListsOfTypes ==
  ASSUME NEW k \in DOMAIN TypesOf
  PROVE  /\ TypesOf[k] \in Seq({TypesOf[k][i] : i \in DOMAIN TypesOf[k]})
         /\ k = "Lightweight" => TypesOf[k][1] = "LightweightSegments"
         /\ \A i \in 1 .. Len(TypesOf[k]) : TypesOf[k][i] = "LightweightSegments" =>
              k = "Lightweight" /\ i = 1
<1>1. k \in {"Segment", "Lightweight", "Marker", "Unlabeled", "MarkerRay", "Device",
             "Centroid", "Greyscale", "Debug", "Wand2d", "Video"}
  BY DEF TypesOf
<1>2. CASE k = "Segment"
  BY <1>2 DEF TypesOf
<1>8. CASE k = "Lightweight"
  BY <1>8 DEF TypesOf
<1>9. CASE k = "Marker"
  BY <1>9 DEF TypesOf
<1>10. CASE k = "Unlabeled"
  BY <1>10 DEF TypesOf
<1>11. CASE k = "MarkerRay"
  BY <1>11 DEF TypesOf
<1>12. CASE k = "Debug"
  BY <1>12 DEF TypesOf
<1>3. CASE k = "Device"
  BY <1>3 DEF TypesOf
<1>4. CASE k = "Centroid"
  BY <1>4 DEF TypesOf, CameraTypes
<1>5. CASE k = "Greyscale"
  BY <1>5 DEF TypesOf, CameraTypes
<1>6. CASE k = "Wand2d"
  BY <1>6 DEF TypesOf, CameraTypes
<1>7. CASE k = "Video"
  BY <1>7 DEF TypesOf, CameraTypes
<1> QED
  BY <1>1, <1>2, <1>3, <1>4, <1>5, <1>6, <1>7, <1>8, <1>9,
     <1>10, <1>11, <1>12
-----------------------------------------------------------------------------
(* The steps of a call.                                                    *)

TypeSet(k) == {TypesOf[k][i] : i \in DOMAIN TypesOf[k]}
StepsOf(k) == {Request(t, on) : t \in TypeSet(k) \cup {"LightweightSegments"}, on \in BOOLEAN}
                \cup {Flag(k, on) : on \in BOOLEAN}
                \cup {Disable(o) : o \in DOMAIN TypesOf}

\* A call that disables k gives up every type of it, and then takes the flag away.
IsOffPlan(s, k) ==
  /\ s \in Seq(StepsOf(k))
  /\ Len(s) = Len(TypesOf[k]) + 1
  /\ s[Len(s)] = Flag(k, FALSE)
  /\ \A i \in 1 .. Len(TypesOf[k]) : s[i] = Request(TypesOf[k][i], FALSE)

\* A call that enables k sets the flag last; before that it asks for types of k only,
\* for lightweight segments first of all, and it disables every other kind for them.
IsOnPlan(s, k) ==
  /\ s \in Seq(StepsOf(k))
  /\ s # <<>>
  /\ s[Len(s)] = Flag(k, TRUE)
  /\ \A i \in 1 .. Len(s) - 1 :
       /\ s[i].do # "flag"
       /\ (s[i].do = "request" /\ s[i].on) => s[i].what \in TypeSet(k)
  /\ \A i \in 1 .. Len(s) : s[i] = Request("LightweightSegments", TRUE) => i = 1
  /\ k = "Lightweight" =>
       \A o \in DOMAIN TypesOf \ {"Lightweight"} : \E i \in 1 .. Len(s) - 1 : s[i] = Disable(o)

\* s requests the types, or gives them up.
AreRequests(s, types, on, U) ==
  /\ s \in Seq(U)
  /\ Len(s) = Len(types)
  /\ \A i \in 1 .. Len(types) : s[i] = Request(types[i], on)

LEMMA ListOfRequests ==
  ASSUME NEW k, NEW types \in Seq(TypeSet(k)), NEW on \in BOOLEAN
  PROVE  AreRequests(Requests(types, on), types, on, StepsOf(k))
<1>1. PICK n \in Nat : n = Len(types)
  OBVIOUS
<1>2. DOMAIN types = 1 .. n /\ \A i \in 1 .. n : types[i] \in TypeSet(k)
  BY <1>1
<1>3. \A t \in TypeSet(k) : Request(t, on) \in StepsOf(k)
  BY DEF StepsOf
<1>4. Requests(types, on) = [i \in 1 .. n |-> Request(types[i], on)]
  BY <1>2 DEF Requests
<1>5. Requests(types, on) \in [1 .. n -> StepsOf(k)]
  BY <1>2, <1>3, <1>4
<1> QED
  BY <1>1, <1>4, <1>5 DEF AreRequests

\* both is put together from a and b.
IsJoin(both, a, b, U) ==
  /\ both \in Seq(U)
  /\ Len(both) = Len(a) + Len(b)
  /\ \A i \in 1 .. Len(a) : both[i] = a[i]
  /\ \A i \in Len(a) + 1 .. Len(a) + Len(b) : both[i] = b[i - Len(a)]

LEMMA Joined ==
  ASSUME NEW U, NEW a \in Seq(U), NEW b \in Seq(U)
  PROVE  IsJoin(a \o b, a, b, U)
<1>1. PICK m \in Nat : m = Len(a)
  OBVIOUS
<1>2. PICK n \in Nat : n = Len(b)
  OBVIOUS
<1>3. PICK both : both = a \o b
  OBVIOUS
<1>4. /\ both \in Seq(U) /\ Len(both) = m + n
      /\ \A i \in 1 .. m + n : both[i] = IF i <= m THEN a[i] ELSE b[i - m]
  BY <1>1, <1>2, <1>3, ConcatProperties
<1>5. \A i \in 1 .. m : i \in 1 .. m + n /\ i <= m
  OBVIOUS
<1>6. \A i \in m + 1 .. m + n : i \in 1 .. m + n /\ ~(i <= m)
  OBVIOUS
<1>7. \A i \in 1 .. m : both[i] = a[i]
  BY <1>4, <1>5
<1>8. \A i \in m + 1 .. m + n : both[i] = b[i - m]
  BY <1>4, <1>6
<1> QED
  BY <1>1, <1>2, <1>3, <1>4, <1>7, <1>8 DEF IsJoin

LEMMA Single ==
  ASSUME NEW U, NEW x \in U
  PROVE  << x >> \in Seq(U) /\ Len(<< x >>) = 1 /\ << x >>[1] = x
OBVIOUS

LEMMA StepsListed ==
  ASSUME NEW k, NEW on \in BOOLEAN
  PROVE  /\ Flag(k, on) \in StepsOf(k)
         /\ Request("LightweightSegments", on) \in StepsOf(k)
         /\ \A t \in TypeSet(k) : Request(t, on) \in StepsOf(k)
         /\ \A o \in DOMAIN TypesOf : Disable(o) \in StepsOf(k)
BY DEF StepsOf

LEMMA OffPlans ==
  ASSUME NEW k \in DOMAIN TypesOf
  PROVE  IsOffPlan(AllSteps(k, FALSE), k)
<1> DEFINE T == TypesOf[k]
           U == StepsOf(k)
           R == Requests(T, FALSE)
           s == AllSteps(k, FALSE)
           last == << Flag(k, FALSE) >>
<1>1. T \in Seq(TypeSet(k)) /\ (k = "Lightweight" => T[1] = "LightweightSegments")
  BY ListsOfTypes DEF TypeSet
<1>2. Flag(k, FALSE) \in U /\ Request("LightweightSegments", FALSE) \in U
  BY StepsListed
<1> HIDE DEF T, U
<1>3. R \in Seq(U) /\ Len(R) = Len(T) /\ \A i \in 1 .. Len(T) : R[i] = Request(T[i], FALSE)
  <2>1. AreRequests(R, T, FALSE, U)
    BY <1>1, ListOfRequests DEF U
  <2> QED
    BY <2>1 DEF AreRequests
<1>4. last \in Seq(U) /\ Len(last) = 1 /\ last[1] = Flag(k, FALSE)
  BY <1>2, Single
<1>5. CASE k # "Lightweight"
  <2>1. s = R \o last
    <3>1. k = "Segment" => s = R \o <<>> \o last
      BY DEF AllSteps, T
    <3>2. R \o <<>> = R
      BY <1>3, ConcatEmptySeq
    <3>3. k # "Segment" => s = R \o last
      BY <1>5 DEF AllSteps, T
    <3> QED
      BY <3>1, <3>2, <3>3
  <2> HIDE DEF R, s, last
  <2>2. IsJoin(s, R, last, U)
    BY <1>3, <1>4, <2>1, Joined
  <2>3. s[Len(R) + 1] = Flag(k, FALSE)
    <3>1. PICK n \in Nat : n = Len(R)
      BY <1>3
    <3>2. n + 1 \in n + 1 .. n + 1 /\ (n + 1) - n = 1
      OBVIOUS
    <3> QED
      BY <1>4, <2>2, <3>1, <3>2 DEF IsJoin
  <2> QED
    BY <1>3, <1>4, <2>2, <2>3 DEF IsJoin, IsOffPlan, s, T, U
<1>6. CASE k = "Lightweight"
  <2> DEFINE P == Requests(Tail(T), FALSE)
             first == << Request("LightweightSegments", FALSE) >>
             both == first \o P
  <2>1. /\ Len(T) = 3 /\ T[1] = "LightweightSegments" /\ Tail(T) \in Seq(TypeSet(k))
        /\ Len(Tail(T)) = 2 /\ Tail(T)[1] = T[2] /\ Tail(T)[2] = T[3]
    <3>1. Len(T) = 3
      BY <1>6 DEF T, TypesOf
    <3>2. Tail(T) \in Seq(TypeSet(k)) /\ Len(Tail(T)) = 2
      <4>1. T \in Seq(TypeSet(k)) /\ T # <<>>
        BY <1>1, <3>1
      <4> QED
        BY <3>1, <4>1, HeadTailProperties
    <3>3. Tail(T)[1] = T[2] /\ Tail(T)[2] = T[3]
      <4>1. T \in Seq(TypeSet(k)) /\ T # <<>>
        BY <1>1, <3>1
      <4>2. \A i \in 1 .. Len(Tail(T)) : Tail(T)[i] = T[i + 1]
        BY ONLY <4>1, HeadTailProperties
      <4>3. 1 \in 1 .. Len(Tail(T)) /\ 2 \in 1 .. Len(Tail(T))
        BY <3>2
      <4>4. 1 + 1 = 2 /\ 2 + 1 = 3
        OBVIOUS
      <4> QED
        BY <4>2, <4>3, <4>4
    <3> QED
      BY <1>1, <1>6, <3>1, <3>2, <3>3
  <2>2. P \in Seq(U) /\ Len(P) = 2 /\ P[1] = Request(T[2], FALSE) /\ P[2] = Request(T[3], FALSE)
    <3>1. AreRequests(P, Tail(T), FALSE, U)
      BY <2>1, ListOfRequests DEF U
    <3>2. \A i \in 1 .. 2 : P[i] = Request(Tail(T)[i], FALSE)
      BY <2>1, <3>1 DEF AreRequests
    <3>3. 1 \in 1 .. 2 /\ 2 \in 1 .. 2
      OBVIOUS
    <3>4. P \in Seq(U) /\ Len(P) = 2
      BY <2>1, <3>1 DEF AreRequests
    <3> QED
      BY <2>1, <3>2, <3>3, <3>4
  <2>3. s = first \o <<>> \o P \o last
    BY <1>6 DEF AllSteps, T
  <2>4. first \in Seq(U) /\ Len(first) = 1 /\ first[1] = Request("LightweightSegments", FALSE)
    BY <1>2, Single
  <2> HIDE DEF R, s, P, first, last
  <2>5. first \o <<>> = first
    BY <2>4, ConcatEmptySeq
  <2>6. IsJoin(both, first, P, U)
    BY <2>2, <2>4, Joined
  <2>7. s = both \o last
    BY <2>3, <2>5
  <2> HIDE DEF both
  <2>8. IsJoin(s, both, last, U)
    <3>1. both \in Seq(U)
      BY <2>6 DEF IsJoin
    <3> QED
      BY <1>4, <2>7, <3>1, Joined
  <2>9. Len(both) = 3 /\ Len(s) = 4
    BY <1>4, <2>2, <2>4, <2>6, <2>8 DEF IsJoin
  <2>10. s[1] = Request(T[1], FALSE) /\ s[2] = Request(T[2], FALSE) /\ s[3] = Request(T[3], FALSE)
    <3>1. \A i \in 2 .. 3 : both[i] = P[i - 1]
      BY <2>2, <2>4, <2>6 DEF IsJoin
    <3>2. 2 \in 2 .. 3 /\ 3 \in 2 .. 3 /\ 2 - 1 = 1 /\ 3 - 1 = 2
      OBVIOUS
    <3>3. both[1] = first[1]
      <4>1. \A i \in 1 .. 1 : both[i] = first[i]
        BY <2>4, <2>6 DEF IsJoin
      <4>2. 1 \in 1 .. 1
        OBVIOUS
      <4> QED
        BY <4>1, <4>2
    <3>4. both[2] = P[1] /\ both[3] = P[2]
      BY <3>1, <3>2
    <3>5. s[1] = both[1] /\ s[2] = both[2] /\ s[3] = both[3]
      BY <2>8, <2>9 DEF IsJoin
    <3> QED
      BY <2>1, <2>2, <2>4, <3>3, <3>4, <3>5
  <2>11. s[4] = Flag(k, FALSE)
    <3>1. \A i \in 4 .. 4 : s[i] = last[i - 3]
      BY <1>4, <2>8, <2>9 DEF IsJoin
    <3>2. 4 \in 4 .. 4 /\ 4 - 3 = 1
      OBVIOUS
    <3> QED
      BY <1>4, <3>1, <3>2
  <2>12. \A i \in 1 .. 3 : i \in {1, 2, 3}
    OBVIOUS
  <2>13. \A i \in 1 .. 3 : s[i] = Request(T[i], FALSE)
    BY <2>10, <2>12
  <2>14. s \in Seq(U)
    BY <2>8 DEF IsJoin
  <2>15. Len(s) = Len(T) + 1 /\ s[Len(s)] = Flag(k, FALSE)
    BY <2>1, <2>9, <2>11
  <2>16. \A i \in 1 .. Len(T) : s[i] = Request(T[i], FALSE)
    BY <2>1, <2>13
  <2> QED
    BY <2>14, <2>15, <2>16 DEF IsOffPlan, s, T, U
<1> QED
  BY <1>5, <1>6

\* The steps before the flag is set.
IsBody(s, k) ==
  /\ s \in Seq(StepsOf(k))
  /\ \A i \in 1 .. Len(s) :
       /\ s[i].do # "flag"
       /\ (s[i].do = "request" /\ s[i].on) => s[i].what \in TypeSet(k)
       /\ s[i] = Request("LightweightSegments", TRUE) => i = 1

LEMMA BodiesJoin ==
  ASSUME NEW k, NEW a, NEW b, IsBody(a, k), IsBody(b, k),
         \A i \in 1 .. Len(b) : b[i] # Request("LightweightSegments", TRUE)
  PROVE  IsBody(a \o b, k) /\ IsJoin(a \o b, a, b, StepsOf(k))
<1> DEFINE U == StepsOf(k)
<1>1. a \in Seq(U) /\ b \in Seq(U)
  BY DEF IsBody
<1>2. PICK both : both = a \o b
  OBVIOUS
<1> HIDE DEF U
<1>3. IsJoin(both, a, b, U)
  BY <1>1, <1>2, Joined
<1>4. PICK m \in Nat : m = Len(a)
  BY <1>1
<1>5. PICK n \in Nat : n = Len(b)
  BY <1>1
<1>6. /\ both \in Seq(U) /\ Len(both) = m + n
      /\ \A i \in 1 .. m : both[i] = a[i]
      /\ \A i \in m + 1 .. m + n : both[i] = b[i - m]
  BY <1>3, <1>4, <1>5 DEF IsJoin
<1>7. ASSUME NEW i \in 1 .. m + n
      PROVE  /\ both[i].do # "flag"
             /\ (both[i].do = "request" /\ both[i].on) => both[i].what \in TypeSet(k)
             /\ both[i] = Request("LightweightSegments", TRUE) => i = 1
  <2>1. CASE i \in 1 .. m
    BY <1>4, <1>6, <2>1 DEF IsBody
  <2>2. CASE i \in m + 1 .. m + n
    <3>1. PICK j \in 1 .. n : j = i - m
      BY <2>2
    <3>2. both[i] = b[j]
      BY <1>6, <2>2, <3>1
    <3> QED
      BY <1>5, <3>2 DEF IsBody
  <2>3. i \in 1 .. m \/ i \in m + 1 .. m + n
    OBVIOUS
  <2> QED
    BY <2>1, <2>2, <2>3
<1>8. IsBody(both, k)
  BY <1>6, <1>7 DEF IsBody, U
<1> QED
  BY <1>2, <1>3, <1>8 DEF U

LEMMA BodyAndFlag ==
  ASSUME NEW k, NEW body, IsBody(body, k),
         k = "Lightweight" =>
           \A o \in DOMAIN TypesOf \ {"Lightweight"} : \E i \in 1 .. Len(body) : body[i] = Disable(o)
  PROVE  IsOnPlan(body \o << Flag(k, TRUE) >>, k)
<1> DEFINE U == StepsOf(k)
           last == << Flag(k, TRUE) >>
<1>1. body \in Seq(U)
  BY DEF IsBody
<1>2. last \in Seq(U) /\ Len(last) = 1 /\ last[1] = Flag(k, TRUE)
  BY StepsListed, Single
<1>3. PICK s : s = body \o last
  OBVIOUS
<1> HIDE DEF U, last
<1>4. IsJoin(s, body, last, U)
  BY <1>1, <1>2, <1>3, Joined
<1>5. PICK m \in Nat : m = Len(body)
  BY <1>1
<1>6. /\ s \in Seq(U) /\ Len(s) = m + 1
      /\ \A i \in 1 .. m : s[i] = body[i]
      /\ \A i \in m + 1 .. m + 1 : s[i] = last[i - m]
  BY <1>2, <1>4, <1>5 DEF IsJoin
<1>7. s[m + 1] = Flag(k, TRUE)
  <2>1. m + 1 \in m + 1 .. m + 1 /\ (m + 1) - m = 1
    OBVIOUS
  <2> QED
    BY <1>2, <1>6, <2>1
<1>8. \A i \in 1 .. m :
        /\ s[i].do # "flag"
        /\ (s[i].do = "request" /\ s[i].on) => s[i].what \in TypeSet(k)
        /\ s[i] = Request("LightweightSegments", TRUE) => i = 1
  BY <1>5, <1>6 DEF IsBody
<1>9. \A i \in 1 .. m + 1 : s[i] = Request("LightweightSegments", TRUE) => i = 1
  <2>1. Flag(k, TRUE) # Request("LightweightSegments", TRUE)
    BY DEF Flag, Request
  <2>2. \A i \in 1 .. m + 1 : i = m + 1 \/ i \in 1 .. m
    OBVIOUS
  <2> QED
    BY <1>7, <1>8, <2>1, <2>2
<1>10. k = "Lightweight" =>
         \A o \in DOMAIN TypesOf \ {"Lightweight"} : \E i \in 1 .. m : s[i] = Disable(o)
  BY <1>5, <1>6
<1>11. (m + 1) - 1 = m
  OBVIOUS
<1>12. s # <<>>
  BY <1>6
<1> QED
  BY <1>3, <1>6, <1>7, <1>8, <1>9, <1>10, <1>11, <1>12 DEF IsOnPlan, U, last

LEMMA RequestsDiffer ==
  ASSUME NEW t, t # "LightweightSegments"
  PROVE  Request(t, TRUE) # Request("LightweightSegments", TRUE)
<1>1. Request(t, TRUE).what = t
  BY DEF Request
<1>2. Request("LightweightSegments", TRUE).what = "LightweightSegments"
  BY DEF Request
<1> QED
  BY <1>1, <1>2

LEMMA OnPlans ==
  ASSUME NEW k \in DOMAIN TypesOf
  PROVE  IsOnPlan(AllSteps(k, TRUE), k)
<1> DEFINE T == TypesOf[k]
           U == StepsOf(k)
           R == Requests(T, TRUE)
           last == << Flag(k, TRUE) >>
<1>1. /\ T \in Seq(TypeSet(k)) /\ (k = "Lightweight" => T[1] = "LightweightSegments")
      /\ \A i \in 1 .. Len(T) : T[i] = "LightweightSegments" => k = "Lightweight" /\ i = 1
  BY ListsOfTypes DEF TypeSet
<1>2. Request("LightweightSegments", TRUE) \in U /\ Request("LightweightSegments", FALSE) \in U
      /\ \A o \in DOMAIN TypesOf : Disable(o) \in U
  BY StepsListed
<1> HIDE DEF T, U
<1>3. ASSUME NEW L \in Seq(TypeSet(k)),
             \A i \in 1 .. Len(L) : L[i] = "LightweightSegments" => i = 1
      PROVE  IsBody(Requests(L, TRUE), k) /\ Len(Requests(L, TRUE)) = Len(L)
             /\ \A i \in 1 .. Len(L) : Requests(L, TRUE)[i] = Request(L[i], TRUE)
  <2>1. PICK P : P = Requests(L, TRUE)
    OBVIOUS
  <2>2. AreRequests(P, L, TRUE, U)
    BY <2>1, ListOfRequests DEF U
  <2>3. P \in Seq(U) /\ Len(P) = Len(L) /\ \A i \in 1 .. Len(L) : P[i] = Request(L[i], TRUE)
    BY <2>2 DEF AreRequests
  <2>4. \A i \in 1 .. Len(L) : L[i] \in TypeSet(k)
    OBVIOUS
  <2>5. ASSUME NEW i \in 1 .. Len(P)
        PROVE  /\ P[i].do # "flag"
               /\ (P[i].do = "request" /\ P[i].on) => P[i].what \in TypeSet(k)
               /\ P[i] = Request("LightweightSegments", TRUE) => i = 1
    <3>1. PICK t \in TypeSet(k) : t = L[i]
      BY <2>3, <2>4
    <3>2. P[i] = Request(t, TRUE) /\ (t = "LightweightSegments" => i = 1)
      BY <1>3, <2>3, <3>1
    <3>3. P[i].do = "request" /\ P[i].what = t
      BY <3>2 DEF Request
    <3>4. Request("LightweightSegments", TRUE).what = "LightweightSegments"
      BY DEF Request
    <3> QED
      BY <3>2, <3>3, <3>4
  <2>6. IsBody(P, k)
    BY <2>3, <2>5 DEF IsBody, U
  <2> QED
    BY <2>1, <2>3, <2>6
<1>4. CASE k # "Lightweight" /\ k # "Segment"
  <2>1. AllSteps(k, TRUE) = R \o last
    BY <1>4 DEF AllSteps, T
  <2>2. IsBody(R, k)
    BY <1>1, <1>3
  <2> HIDE DEF R
  <2> QED
    BY <1>4, <2>1, <2>2, BodyAndFlag
<1>5. CASE k = "Segment"
  <2> DEFINE off == << Request("LightweightSegments", FALSE) >>
  <2>1. AllSteps(k, TRUE) = R \o off \o last
    BY <1>5 DEF AllSteps, T
  <2>2. IsBody(R, k)
    BY <1>1, <1>3
  <2>3. off \in Seq(U) /\ Len(off) = 1 /\ off[1] = Request("LightweightSegments", FALSE)
    BY <1>2, Single
  <2> HIDE DEF R, off
  <2>4. \A i \in 1 .. Len(off) : off[i] = Request("LightweightSegments", FALSE)
    <3>1. \A i \in 1 .. Len(off) : i = 1
      BY <2>3
    <3> QED
      BY <2>3, <3>1
  <2>5. IsBody(off, k) /\ \A i \in 1 .. Len(off) : off[i] # Request("LightweightSegments", TRUE)
    BY <2>3, <2>4 DEF IsBody, Request, U
  <2>6. IsBody(R \o off, k)
    BY <2>2, <2>5, BodiesJoin
  <2> QED
    BY <1>5, <2>1, <2>6, BodyAndFlag
<1>6. CASE k = "Lightweight"
  <2> DEFINE first == << Request("LightweightSegments", TRUE) >>
             D == Disables(OtherKinds)
             P == Requests(Tail(T), TRUE)
  <2>1. AllSteps(k, TRUE) = first \o D \o P \o last
    BY <1>6 DEF AllSteps, T
  <2>2. first \in Seq(U) /\ Len(first) = 1 /\ first[1] = Request("LightweightSegments", TRUE)
    BY <1>2, Single
  <2>3. IsBody(first, k)
    <3>1. "LightweightSegments" \in TypeSet(k)
      <4>1. Len(T) = 3
        BY <1>6 DEF T, TypesOf
      <4>2. 1 \in 1 .. Len(T)
        BY <4>1
      <4> QED
        BY <1>1, <1>6, <4>2
    <3>2. \A i \in 1 .. Len(first) : i = 1
      BY <2>2
    <3> HIDE DEF first
    <3> QED
      BY <2>2, <3>1, <3>2 DEF IsBody, Request, U
  <2>4. OtherKinds \in Seq(DOMAIN TypesOf) /\ Len(OtherKinds) = 10
        /\ \A o \in DOMAIN TypesOf \ {"Lightweight"} : \E i \in 1 .. 10 : OtherKinds[i] = o
    <3>1. DOMAIN TypesOf = {"Segment", "Lightweight", "Marker", "Unlabeled", "MarkerRay", "Device",
             "Centroid", "Greyscale", "Debug", "Wand2d", "Video"}
      BY DEF TypesOf
    <3> QED
      BY <3>1 DEF OtherKinds
  <2>5. /\ D \in Seq(U) /\ Len(D) = 10 /\ \A i \in 1 .. 10 : D[i] = Disable(OtherKinds[i])
    <3>1. D = [i \in 1 .. 10 |-> Disable(OtherKinds[i])]
      BY <2>4 DEF Disables
    <3>2. \A i \in 1 .. 10 : OtherKinds[i] \in DOMAIN TypesOf
      BY <2>4, ElementOfSeq
    <3>3. D \in [1 .. 10 -> U]
      BY <1>2, <3>1, <3>2
    <3> QED
      BY <3>1, <3>3
  <2> HIDE DEF first, D
  <2>6. IsBody(D, k) /\ \A i \in 1 .. Len(D) : D[i] # Request("LightweightSegments", TRUE)
    BY <2>5 DEF IsBody, Disable, Request, U
  <2>7. IsBody(P, k) /\ \A i \in 1 .. Len(P) : P[i] # Request("LightweightSegments", TRUE)
    <3> DEFINE L == Tail(T)
    <3>1. Len(T) = 3 /\ L \in Seq(TypeSet(k)) /\ Len(L) = 2 /\ L[1] = T[2] /\ L[2] = T[3]
      <4>1. Len(T) = 3
        BY <1>6 DEF T, TypesOf
      <4>2. T \in Seq(TypeSet(k))
        BY <1>1
      <4>3. L \in Seq(TypeSet(k))
        BY <4>1, <4>2
      <4>4. Len(L) = 2
        BY <4>1, <4>2
      <4>5. L[1] = T[2]
        BY <4>1, <4>2
      <4>6. L[2] = T[3]
        BY <4>1, <4>2
      <4> QED
        BY <4>1, <4>3, <4>4, <4>5, <4>6
    <3> HIDE DEF L
    <3>2. T[2] # "LightweightSegments" /\ T[3] # "LightweightSegments"
      <4>1. 2 \in 1 .. 3 /\ 3 \in 1 .. 3 /\ 2 # 1 /\ 3 # 1
        OBVIOUS
      <4> QED
        BY <1>1, <3>1, <4>1
    <3>3. \A i \in 1 .. Len(L) : L[i] # "LightweightSegments"
      <4>1. \A i \in 1 .. 2 : i = 1 \/ i = 2
        OBVIOUS
      <4> QED
        BY <3>1, <3>2, <4>1
    <3>4. IsBody(P, k) /\ Len(P) = Len(L) /\ \A i \in 1 .. Len(L) : P[i] = Request(L[i], TRUE)
      BY <1>3, <3>1, <3>3 DEF L
    <3>5. ASSUME NEW i \in 1 .. Len(P)
          PROVE  P[i] # Request("LightweightSegments", TRUE)
      <4>1. P[i] = Request(L[i], TRUE) /\ L[i] # "LightweightSegments"
        BY <3>3, <3>4
      <4> HIDE DEF P
      <4> QED
        BY <4>1, RequestsDiffer
    <3> QED
      BY <3>4, <3>5
  <2> HIDE DEF P
  <2>8. IsBody(first \o D, k) /\ IsJoin(first \o D, first, D, U)
    BY <2>3, <2>6, BodiesJoin DEF U
  <2>9. PICK both : both = first \o D
    OBVIOUS
  <2>10. IsBody(both \o P, k) /\ IsJoin(both \o P, both, P, U)
    BY <2>7, <2>8, <2>9, BodiesJoin DEF U
  <2>11. PICK body : body = both \o P
    OBVIOUS
  <2>12. ASSUME NEW o \in DOMAIN TypesOf \ {"Lightweight"}
         PROVE  \E i \in 1 .. Len(body) : body[i] = Disable(o)
    <3>1. PICK i \in 1 .. 10 : OtherKinds[i] = o
      BY <2>4
    <3>2. D[i] = Disable(o)
      BY <2>5, <3>1
    <3>3. PICK j \in 2 .. 11 : j = 1 + i
      OBVIOUS
    <3>4. Len(both) = 11 /\ both[j] = D[i]
      <4>1. \A a \in 1 + 1 .. 1 + 10 : both[a] = D[a - 1]
        BY <2>2, <2>5, <2>8, <2>9 DEF IsJoin
      <4>2. j \in 1 + 1 .. 1 + 10 /\ j - 1 = i
        BY <3>3
      <4>3. Len(both) = 11
        BY <2>2, <2>5, <2>8, <2>9 DEF IsJoin
      <4> QED
        BY <4>1, <4>2, <4>3
    <3>5. PICK n \in Nat : n = Len(P)
      BY <2>7 DEF IsBody
    <3>6. Len(body) = 11 + n /\ \A a \in 1 .. 11 : body[a] = both[a]
      BY <2>10, <2>11, <3>4, <3>5 DEF IsJoin
    <3>7. j \in 1 .. 11 /\ j \in 1 .. 11 + n
      OBVIOUS
    <3>8. body[j] = Disable(o)
      BY <3>2, <3>4, <3>6, <3>7
    <3> QED
      BY <3>6, <3>7, <3>8
  <2>13. IsOnPlan(body \o last, k)
    BY <2>10, <2>11, <2>12, BodyAndFlag
  <2> QED
    BY <2>1, <2>9, <2>11, <2>13
<1> QED
  BY <1>4, <1>5, <1>6
-----------------------------------------------------------------------------
(* What is left of the steps of a call.                                    *)

\* The steps that disable k.
OffSteps(s, k) ==
  /\ s \in Seq(AnyStep)
  /\ s # <<>>
  /\ s[Len(s)] = Flag(k, FALSE)
  /\ \A i \in 1 .. Len(s) - 1 : s[i].do = "request" /\ ~ s[i].on
  /\ \A t \in Needs(k) : \E i \in 1 .. Len(s) - 1 : s[i] = Request(t, FALSE)

\* The steps that enable k.
OnSteps(s, k) ==
  /\ s \in Seq(AnyStep)
  /\ s # <<>>
  /\ s[Len(s)] = Flag(k, TRUE)
  /\ \A i \in 1 .. Len(s) - 1 :
       /\ s[i].do # "flag"
       /\ (s[i].do = "request" /\ s[i].on) => s[i].what \in Needs(k)
  /\ \A i \in 1 .. Len(s) : s[i] = Request("LightweightSegments", TRUE) => i = 1
  /\ k = "Lightweight" =>
       \A o \in Kinds \ {"Lightweight"} : \E i \in 1 .. Len(s) : s[i] = Disable(o)

\* A step of a kind that the model follows, if it is followed itself.
LEMMA FollowedStep ==
  ASSUME NEW k \in Kinds, NEW step \in StepsOf(k), IsFollowed(step)
  PROVE  step \in AnyStep
<1>1. CASE \E t \in TypeSet(k) \cup {"LightweightSegments"}, on \in BOOLEAN : step = Request(t, on)
  <2> PICK t \in TypeSet(k) \cup {"LightweightSegments"}, on \in BOOLEAN : step = Request(t, on)
    BY <1>1
  <2>1. t \in Tracked
    BY DEF IsFollowed, Request
  <2> QED
    BY <2>1 DEF Request, AnyStep
<1>2. CASE \E on \in BOOLEAN : step = Flag(k, on)
  BY <1>2 DEF Flag, AnyStep
<1>3. CASE \E o \in DOMAIN TypesOf : step = Disable(o)
  <2> PICK o \in DOMAIN TypesOf : step = Disable(o)
    BY <1>3
  <2>1. o \in Kinds
    BY DEF IsFollowed, Disable
  <2> QED
    BY <2>1 DEF Disable, AnyStep
<1> QED
  BY <1>1, <1>2, <1>3 DEF StepsOf

\* The last step is kept when it is followed; the first one stays the first, and every
\* other step stands before the last.
LEMMA EndsOfSelection ==
  ASSUME NEW S, NEW steps \in Seq(S), steps # <<>>, IsFollowed(steps[Len(steps)]),
         NEW kept \in Seq(S), NEW g, IsSelection(kept, g, steps, Len(steps))
  PROVE  /\ kept # <<>>
         /\ g[Len(kept)] = Len(steps)
         /\ \A a \in 1 .. Len(kept) - 1 : g[a] \in 1 .. Len(steps) - 1
         /\ \A a \in 1 .. Len(kept) : g[a] = 1 => a = 1
         /\ \A j \in 1 .. Len(steps) - 1 : IsFollowed(steps[j]) =>
              \E a \in 1 .. Len(kept) - 1 : g[a] = j
<1>1. PICK l \in Nat : l = Len(kept)
  OBVIOUS
<1>2. PICK n \in Nat : n = Len(steps)
  OBVIOUS
<1>3. n \in 1 .. n
  BY <1>2
<1>4. /\ \A a \in 1 .. l : g[a] \in 1 .. n
      /\ \A a, b \in 1 .. l : a < b => g[a] < g[b]
      /\ \A j \in 1 .. n : IsFollowed(steps[j]) => \E a \in 1 .. l : g[a] = j
  BY <1>1, <1>2 DEF IsSelection
<1>5. PICK z \in 1 .. l : g[z] = n
  BY <1>2, <1>3, <1>4
<1>6. l \in 1 .. l
  BY <1>5
<1>7. z = l
  <2>1. g[l] \in 1 .. n
    BY <1>4, <1>6
  <2>2. ~(z < l)
    BY <1>4, <1>5, <1>6, <2>1
  <2> QED
    BY <2>2
<1>8. \A a \in 1 .. l - 1 : a \in 1 .. l /\ a < l
  OBVIOUS
<1>9. ASSUME NEW a \in 1 .. l - 1
      PROVE  g[a] \in 1 .. n - 1
  <2>1. a \in 1 .. l /\ a < l
    BY <1>8
  <2>2. g[a] \in 1 .. n /\ g[a] < g[l]
    BY <1>4, <1>6, <2>1
  <2> QED
    BY <1>5, <1>7, <2>2
<1>10. ASSUME NEW a \in 1 .. l, g[a] = 1
       PROVE  a = 1
  <2>1. 1 \in 1 .. l
    BY <1>6
  <2>2. g[1] \in 1 .. n
    BY <1>4, <2>1
  <2>3. ~(1 < a)
    BY <1>4, <1>10, <2>1, <2>2
  <2> QED
    BY <2>3
<1>11. ASSUME NEW j \in 1 .. n - 1, IsFollowed(steps[j])
       PROVE  \E a \in 1 .. l - 1 : g[a] = j
  <2>1. j \in 1 .. n /\ j # n
    OBVIOUS
  <2>2. PICK a \in 1 .. l : g[a] = j
    BY <1>4, <1>11, <2>1
  <2>3. a # l
    BY <1>5, <1>7, <2>1, <2>2
  <2>4. a \in 1 .. l - 1
    BY <2>3
  <2> QED
    BY <2>2, <2>4
<1>12. kept # <<>>
  BY <1>1, <1>6
<1> QED
  BY <1>1, <1>2, <1>5, <1>7, <1>9, <1>10, <1>11, <1>12

\* kept are the steps of a plan that are followed.
IsKept(kept, g, s, k) ==
  /\ kept \in Seq(AnyStep)
  /\ kept # <<>>
  /\ kept[Len(kept)] = s[Len(s)]
  /\ \A a \in 1 .. Len(kept) : g[a] \in 1 .. Len(s) /\ kept[a] = s[g[a]] /\ IsFollowed(kept[a])
  /\ \A a \in 1 .. Len(kept) - 1 : g[a] \in 1 .. Len(s) - 1
  /\ \A a \in 1 .. Len(kept) : g[a] = 1 => a = 1
  /\ \A j \in 1 .. Len(s) - 1 : IsFollowed(s[j]) => \E a \in 1 .. Len(kept) - 1 : g[a] = j

LEMMA PlanKept ==
  ASSUME NEW k \in Kinds, NEW s \in Seq(StepsOf(k)), s # <<>>,
         NEW on \in BOOLEAN, s[Len(s)] = Flag(k, on)
  PROVE  \E g : IsKept(Followed(s), g, s, k)
<1> DEFINE U == StepsOf(k)
<1> HIDE DEF U
<1>1. s \in Seq(U)
  BY DEF U
<1>2. PICK kept : kept = Followed(s)
  OBVIOUS
<1>3. kept \in Seq(U) /\ \E g : IsSelection(kept, g, s, Len(s))
  BY <1>1, <1>2, FollowedSelects
<1>4. PICK g : IsSelection(kept, g, s, Len(s))
  BY <1>3
<1>5. IsFollowed(s[Len(s)])
  BY DEF IsFollowed, Flag
<1>6. /\ kept # <<>> /\ g[Len(kept)] = Len(s)
      /\ \A a \in 1 .. Len(kept) - 1 : g[a] \in 1 .. Len(s) - 1
      /\ \A a \in 1 .. Len(kept) : g[a] = 1 => a = 1
      /\ \A j \in 1 .. Len(s) - 1 : IsFollowed(s[j]) =>
           \E a \in 1 .. Len(kept) - 1 : g[a] = j
  BY <1>1, <1>3, <1>4, <1>5, EndsOfSelection
<1>7. \A a \in 1 .. Len(kept) : g[a] \in 1 .. Len(s) /\ kept[a] = s[g[a]] /\ IsFollowed(kept[a])
  BY <1>4 DEF IsSelection
<1>8. PICK l \in Nat : l = Len(kept)
  BY <1>3
<1>9. l \in 1 .. l
  BY <1>3, <1>6, <1>8
<1>10. kept[Len(kept)] = s[Len(s)]
  BY <1>6, <1>7, <1>8, <1>9
<1>11. kept \in Seq(AnyStep)
  <2>1. ASSUME NEW a \in 1 .. l
        PROVE  kept[a] \in AnyStep
    <3>1. kept[a] \in U /\ IsFollowed(kept[a])
      BY <1>3, <1>7, <1>8, ElementOfSeq
    <3> QED
      BY <3>1, FollowedStep DEF U
  <2> QED
    BY <1>3, <1>8, <2>1
<1>12. IsKept(kept, g, s, k)
  BY <1>6, <1>7, <1>10, <1>11 DEF IsKept
<1> QED
  BY <1>2, <1>12

LEMMA StepsOff ==
  ASSUME NEW k \in Kinds
  PROVE  OffSteps(Steps(k, FALSE), k)
<1>1. PICK s : s = AllSteps(k, FALSE)
  OBVIOUS
<1>2. k \in DOMAIN TypesOf
  BY DataRequestsAssumption
<1>3. IsOffPlan(s, k)
  BY <1>1, <1>2, OffPlans
<1>4. PICK n \in Nat : n = Len(TypesOf[k])
  BY <1>2, ListsOfTypes
<1>5. /\ s \in Seq(StepsOf(k)) /\ Len(s) = n + 1 /\ s[Len(s)] = Flag(k, FALSE)
      /\ \A i \in 1 .. n : s[i] = Request(TypesOf[k][i], FALSE)
  BY <1>3, <1>4 DEF IsOffPlan
<1>6. PICK kept : kept = Steps(k, FALSE)
  OBVIOUS
<1>7. \E g : IsKept(kept, g, s, k)
  <2>1. kept = Followed(s)
    BY <1>1, <1>6 DEF Steps
  <2>2. s # <<>>
    BY <1>5
  <2> QED
    BY <1>5, <2>1, <2>2, PlanKept
<1>8. PICK g : IsKept(kept, g, s, k)
  BY <1>7
<1>9. Len(s) - 1 = n
  BY <1>5
<1>10. /\ kept \in Seq(AnyStep) /\ kept # <<>>
       /\ kept[Len(kept)] = s[Len(s)]
       /\ \A a \in 1 .. Len(kept) : kept[a] = s[g[a]]
       /\ \A a \in 1 .. Len(kept) - 1 : g[a] \in 1 .. n
       /\ \A j \in 1 .. n : IsFollowed(s[j]) => \E a \in 1 .. Len(kept) - 1 : g[a] = j
  BY <1>8, <1>9 DEF IsKept
<1>11. \A a \in 1 .. Len(kept) - 1 : a \in 1 .. Len(kept)
  BY <1>10
<1>12. ASSUME NEW a \in 1 .. Len(kept) - 1
       PROVE  kept[a].do = "request" /\ ~ kept[a].on
  <2>1. kept[a] = Request(TypesOf[k][g[a]], FALSE)
    BY <1>5, <1>10, <1>11
  <2> QED
    BY <2>1 DEF Request
<1>13. ASSUME NEW t \in Needs(k)
       PROVE  \E a \in 1 .. Len(kept) - 1 : kept[a] = Request(t, FALSE)
  <2>1. PICK j \in DOMAIN TypesOf[k] : TypesOf[k][j] = t
    BY DEF Needs
  <2>2. t \in Tracked
    BY DEF Needs
  <2>3. j \in 1 .. n
    BY <1>2, <1>4, ListsOfTypes
  <2>4. s[j] = Request(t, FALSE)
    BY <1>5, <2>1, <2>3
  <2>5. IsFollowed(s[j])
    BY <2>2, <2>4 DEF IsFollowed, Request
  <2>6. PICK a \in 1 .. Len(kept) - 1 : g[a] = j
    BY <1>10, <2>3, <2>5
  <2> QED
    BY <1>10, <1>11, <2>4, <2>6
<1> QED
  BY <1>5, <1>6, <1>10, <1>12, <1>13 DEF OffSteps

LEMMA StepsOn ==
  ASSUME NEW k \in Kinds
  PROVE  OnSteps(Steps(k, TRUE), k)
<1>1. PICK s : s = AllSteps(k, TRUE)
  OBVIOUS
<1>2. k \in DOMAIN TypesOf
  BY DataRequestsAssumption
<1>3. IsOnPlan(s, k)
  BY <1>1, <1>2, OnPlans
<1>4. PICK kept : kept = Steps(k, TRUE)
  OBVIOUS
<1>5. s \in Seq(StepsOf(k)) /\ s # <<>> /\ s[Len(s)] = Flag(k, TRUE)
  BY <1>3 DEF IsOnPlan
<1>6. \E g : IsKept(kept, g, s, k)
  <2>1. kept = Followed(s)
    BY <1>1, <1>4 DEF Steps
  <2> QED
    BY <1>5, <2>1, PlanKept
<1>7. PICK g : IsKept(kept, g, s, k)
  BY <1>6
<1>8. /\ kept \in Seq(AnyStep) /\ kept # <<>>
      /\ kept[Len(kept)] = s[Len(s)]
      /\ \A a \in 1 .. Len(kept) : g[a] \in 1 .. Len(s) /\ kept[a] = s[g[a]]
                                     /\ IsFollowed(kept[a])
      /\ \A a \in 1 .. Len(kept) - 1 : g[a] \in 1 .. Len(s) - 1
      /\ \A a \in 1 .. Len(kept) : g[a] = 1 => a = 1
      /\ \A j \in 1 .. Len(s) - 1 : IsFollowed(s[j]) =>
           \E a \in 1 .. Len(kept) - 1 : g[a] = j
  BY <1>7 DEF IsKept
<1>9. \A a \in 1 .. Len(kept) - 1 : a \in 1 .. Len(kept)
  BY <1>8
<1>10. ASSUME NEW a \in 1 .. Len(kept) - 1
       PROVE  /\ kept[a].do # "flag"
              /\ (kept[a].do = "request" /\ kept[a].on) => kept[a].what \in Needs(k)
  <2>1. kept[a] = s[g[a]] /\ g[a] \in 1 .. Len(s) - 1
    BY <1>8, <1>9
  <2>2. /\ kept[a].do # "flag"
        /\ (kept[a].do = "request" /\ kept[a].on) => kept[a].what \in TypeSet(k)
    BY <1>3, <2>1 DEF IsOnPlan
  <2>3. kept[a].do = "request" /\ kept[a].on => kept[a].what \in Tracked
    BY <1>8, <1>9 DEF IsFollowed
  <2> QED
    BY <2>2, <2>3 DEF Needs, TypeSet
<1>11. ASSUME NEW a \in 1 .. Len(kept), kept[a] = Request("LightweightSegments", TRUE)
       PROVE  a = 1
  <2>0. g[a] \in 1 .. Len(s) /\ s[g[a]] = Request("LightweightSegments", TRUE)
    BY <1>8, <1>11
  <2>00. \A i \in 1 .. Len(s) : s[i] = Request("LightweightSegments", TRUE) => i = 1
    BY <1>3 DEF IsOnPlan
  <2>1. g[a] = 1
    BY <2>0, <2>00
  <2> QED
    BY <1>8, <2>1
<1>12. ASSUME k = "Lightweight", NEW o \in Kinds \ {"Lightweight"}
       PROVE  \E a \in 1 .. Len(kept) : kept[a] = Disable(o)
  <2>1. o \in DOMAIN TypesOf \ {"Lightweight"}
    BY DataRequestsAssumption
  <2>2. PICK j \in 1 .. Len(s) - 1 : s[j] = Disable(o)
    BY <1>3, <1>12, <2>1 DEF IsOnPlan
  <2>3. IsFollowed(s[j])
    BY <2>2 DEF IsFollowed, Disable
  <2>4. PICK a \in 1 .. Len(kept) - 1 : g[a] = j
    BY <1>8, <2>3
  <2> QED
    BY <1>8, <1>9, <2>2, <2>4
<1> QED
  BY <1>4, <1>5, <1>8, <1>10, <1>11, <1>12 DEF OnSteps

\* The steps of a connection ask for base types.
LEMMA StepsOfConnection ==
  /\ Followed(Requests(BaseTypes, TRUE)) \in Seq(AnyStep)
  /\ \A i \in DOMAIN Followed(Requests(BaseTypes, TRUE)) :
       \E t \in Base : Followed(Requests(BaseTypes, TRUE))[i] = Request(t, TRUE)
  /\ "LightweightSegments" \notin Base
<1> DEFINE T == {BaseTypes[i] : i \in DOMAIN BaseTypes}
           U == {Request(t, TRUE) : t \in T}
<1>1. PICK s : s = Requests(BaseTypes, TRUE)
  OBVIOUS
<1>2. PICK m \in Nat : DOMAIN BaseTypes = 1 .. m
  <2>1. DOMAIN BaseTypes = 1 .. 10 /\ 10 \in Nat
    BY DEF BaseTypes
  <2> QED
    BY <2>1
<1>3. s \in Seq(U)
  <2>1. s = [i \in 1 .. m |-> Request(BaseTypes[i], TRUE)]
    BY <1>1, <1>2 DEF Requests
  <2>2. \A i \in 1 .. m : Request(BaseTypes[i], TRUE) \in U
    BY <1>2
  <2> HIDE DEF U
  <2>3. s \in [1 .. m -> U]
    BY <2>1, <2>2
  <2> QED
    BY <2>3
<1>4. PICK kept : kept = Followed(s)
  OBVIOUS
<1>5. kept \in Seq(U) /\ \E g : IsSelection(kept, g, s, Len(s))
  <2> HIDE DEF U
  <2> QED
    BY <1>3, <1>4, FollowedSelects
<1>6. PICK n \in Nat : n = Len(kept)
  BY <1>5
<1>7. DOMAIN kept = 1 .. n
  BY <1>5, <1>6
<1>8. ASSUME NEW i \in 1 .. n
      PROVE  kept[i] \in AnyStep /\ \E t \in Base : kept[i] = Request(t, TRUE)
  <2>1. kept[i] \in U
    <3> HIDE DEF U
    <3> QED
      BY <1>5, <1>6, ElementOfSeq
  <2>2. PICK t \in T : kept[i] = Request(t, TRUE)
    BY <2>1
  <2>3. IsFollowed(kept[i])
    BY <1>5, <1>6 DEF IsSelection
  <2>4. t \in Tracked
    BY <2>2, <2>3 DEF IsFollowed, Request
  <2>5. t \in Base
    BY <2>4 DEF Base
  <2>6. kept[i] \in AnyStep
    BY <2>2, <2>4 DEF Request, AnyStep
  <2> QED
    BY <2>2, <2>5, <2>6
<1>9. kept \in Seq(AnyStep)
  <2>1. \A i \in 1 .. n : kept[i] \in AnyStep
    BY <1>8
  <2> QED
    BY <1>5, <1>6, <2>1
<1>10. "LightweightSegments" \notin Base
  BY DEF Base, BaseTypes
<1> QED
  BY <1>1, <1>4, <1>7, <1>8, <1>9, <1>10

-----------------------------------------------------------------------------
(* What the steps of a call keep.                                          *)

\* The first of n + 1 steps has been taken.
Shift(n) ==
  /\ calls \in Seq(AnyStep)
  /\ DOMAIN calls = 1 .. n + 1
  /\ Head(calls) = calls[1]
  /\ calls' \in Seq(AnyStep)
  /\ DOMAIN calls' = 1 .. n
  /\ \A i \in 1 .. n : calls'[i] = calls[i + 1]
  /\ \A i \in 2 .. n + 1 : calls'[i - 1] = calls[i]

LEMMA TailShifts ==
  ASSUME CallTypeOK, calls # <<>>, calls' = Tail(calls)
  PROVE  \E n \in Nat : Shift(n)
<1>1. calls \in Seq(AnyStep)
  BY DEF CallTypeOK
<1>2. PICK n \in Nat : Len(calls) = n + 1
  <2>1. Len(calls) \in Nat /\ Len(calls) # 0
    BY <1>1
  <2>2. Len(calls) - 1 \in Nat /\ Len(calls) = (Len(calls) - 1) + 1
    BY <2>1
  <2> QED
    BY <2>2
<1>3. /\ Head(calls) = calls[1] /\ Tail(calls) \in Seq(AnyStep) /\ Len(Tail(calls)) = n
      /\ \A i \in 1 .. n : Tail(calls)[i] = calls[i + 1]
  <2> HIDE DEF AnyStep
  <2> QED
    BY <1>1, <1>2, HeadTailProperties
<1>4. DOMAIN calls = 1 .. n + 1 /\ DOMAIN Tail(calls) = 1 .. n
  BY <1>1, <1>2, <1>3
<1>5. ASSUME NEW i \in 2 .. n + 1
      PROVE  Tail(calls)[i - 1] = calls[i]
  <2>1. i - 1 \in 1 .. n /\ (i - 1) + 1 = i
    OBVIOUS
  <2> QED
    BY <1>3, <2>1
<1>6. Shift(n)
  BY <1>1, <1>3, <1>4, <1>5 DEF Shift
<1> QED
  BY <1>6

LEMMA OffShift ==
  ASSUME OffBeforeFlag, NEW n \in Nat, Shift(n),
         \A i \in 2 .. n + 1 : (calls[i].do = "flag" /\ ~ calls[i].on) =>
           \A t \in Needs(calls[i].what) \cap m_RequestedObjects' :
             t \in m_RequestedObjects /\ calls[1] # Request(t, FALSE)
  PROVE  OffBeforeFlag'
<1> SUFFICES ASSUME NEW i \in 1 .. n, calls'[i].do = "flag", ~ calls'[i].on,
                    NEW t \in Needs(calls'[i].what)
             PROVE  /\ t \in m_RequestedObjects' =>
                         \E j \in 1 .. i - 1 : calls'[j] = Request(t, FALSE)
                    /\ \A j \in 1 .. i - 1 : calls'[j] # Request(t, TRUE)
  BY DEF OffBeforeFlag, Shift
<1>1. i + 1 \in 1 .. n + 1 /\ i + 1 \in 2 .. n + 1 /\ (i + 1) - 1 = i
  OBVIOUS
<1>2. calls[i + 1] = calls'[i]
  BY DEF Shift
<1>3. /\ t \in m_RequestedObjects => \E j \in 1 .. i : calls[j] = Request(t, FALSE)
      /\ \A j \in 1 .. i : calls[j] # Request(t, TRUE)
  <2>1. i + 1 \in DOMAIN calls
    BY <1>1 DEF Shift
  <2>2. /\ t \in m_RequestedObjects => \E j \in 1 .. (i + 1) - 1 : calls[j] = Request(t, FALSE)
        /\ \A j \in 1 .. (i + 1) - 1 : calls[j] # Request(t, TRUE)
    BY <1>2, <2>1 DEF OffBeforeFlag
  <2> QED
    BY <1>1, <2>2
<1>4. ASSUME t \in m_RequestedObjects'
      PROVE  \E j \in 1 .. i - 1 : calls'[j] = Request(t, FALSE)
  <2>1. t \in m_RequestedObjects /\ calls[1] # Request(t, FALSE)
    BY <1>1, <1>2, <1>4
  <2>2. PICK j \in 1 .. i : calls[j] = Request(t, FALSE)
    BY <1>3, <2>1
  <2>3. j \in 2 .. n + 1 /\ j - 1 \in 1 .. i - 1
    <3>1. j # 1
      BY <2>1, <2>2
    <3> QED
      BY <3>1
  <2>4. calls'[j - 1] = calls[j]
    BY <2>3 DEF Shift
  <2> QED
    BY <2>2, <2>3, <2>4
<1>5. ASSUME NEW j \in 1 .. i - 1
      PROVE  calls'[j] # Request(t, TRUE)
  <2>1. j + 1 \in 1 .. i /\ j \in 1 .. n
    OBVIOUS
  <2>2. calls'[j] = calls[j + 1]
    BY <2>1 DEF Shift
  <2> QED
    BY <1>3, <2>1, <2>2
<1> QED
  BY <1>4, <1>5

LEMMA FlagShift ==
  ASSUME NEW n \in Nat, Shift(n), NEW t, NEW j \in 1 .. n + 1, FlagFollows(t, j)
  PROVE  FlagFollows(t, j - 1)'
<1>1. PICK i \in 1 .. n + 1 : i > j /\ calls[i].do = "flag" /\ calls[i].on
                              /\ t \in Needs(calls[i].what)
  BY DEF FlagFollows, Shift
<1>2. i \in 2 .. n + 1 /\ i - 1 \in 1 .. n /\ i - 1 > j - 1
  BY <1>1
<1>3. calls'[i - 1] = calls[i]
  BY <1>2 DEF Shift
<1> QED
  BY <1>1, <1>2, <1>3 DEF FlagFollows, Shift

LEMMA OnShift ==
  ASSUME OnHasFlag, NEW n \in Nat, Shift(n),
         \A t \in m_RequestedObjects' :
           /\ t \in m_RequestedObjects \/ calls[1] = Request(t, TRUE)
           /\ t \in Wanted => t \in Wanted'
           /\ (calls[1].do = "flag" /\ calls[1].on /\ t \in Needs(calls[1].what)) => t \in Wanted'
  PROVE  OnHasFlag'
<1>1. ASSUME NEW t, FlagFollows(t, 0), ~ FlagFollows(t, 1)
      PROVE  calls[1].do = "flag" /\ calls[1].on /\ t \in Needs(calls[1].what)
  <2>1. PICK i \in 1 .. n + 1 : i > 0 /\ calls[i].do = "flag" /\ calls[i].on
                                /\ t \in Needs(calls[i].what)
    BY <1>1 DEF FlagFollows, Shift
  <2>2. ~ (i > 1)
    BY <1>1, <2>1 DEF FlagFollows, Shift
  <2>3. i = 1
    BY <2>2
  <2> QED
    BY <2>1, <2>3
<1>2. 1 \in 1 .. n + 1 /\ 1 - 1 = 0
  OBVIOUS
<1>3. ASSUME NEW t \in m_RequestedObjects'
      PROVE  t \in Wanted' \/ FlagFollows(t, 0)'
  <2>1. CASE FlagFollows(t, 1)
    BY <1>2, <2>1, FlagShift
  <2>2. CASE t \in m_RequestedObjects /\ ~ FlagFollows(t, 1)
    <3>1. t \in Wanted \/ FlagFollows(t, 0)
      BY <2>2 DEF OnHasFlag
    <3> QED
      BY <1>1, <2>2, <3>1
  <2>3. CASE calls[1] = Request(t, TRUE) /\ ~ FlagFollows(t, 1)
    <3>1. calls[1].do = "request" /\ calls[1].on /\ calls[1].what = t
      BY <2>3 DEF Request
    <3>2. 1 \in DOMAIN calls
      BY <1>2 DEF Shift
    <3>3. t \in Base
      BY <2>3, <3>1, <3>2 DEF OnHasFlag
    <3>4. t \in Wanted
      BY <3>3 DEF Wanted
    <3> QED
      BY <3>4
  <2> QED
    BY <2>1, <2>2, <2>3
<1>4. ASSUME NEW j \in 1 .. n, calls'[j].do = "request", calls'[j].on
      PROVE  (calls[j].what \in Base \/ FlagFollows(calls[j].what, j))'
  <2>1. j + 1 \in 1 .. n + 1 /\ (j + 1) - 1 = j
    OBVIOUS
  <2>2. calls'[j] = calls[j + 1]
    BY DEF Shift
  <2>3. PICK t : t = calls[j + 1].what
    OBVIOUS
  <2>4. t \in Base \/ FlagFollows(t, j + 1)
    BY <1>4, <2>1, <2>2, <2>3 DEF OnHasFlag, Shift
  <2>5. t \in Base \/ FlagFollows(t, j)'
    BY <2>1, <2>4, FlagShift
  <2> QED
    BY <2>2, <2>3, <2>5 DEF FlagFollows
<1>5. DOMAIN calls' = 1 .. n
  BY DEF Shift
<1> QED
  BY <1>3, <1>4, <1>5 DEF OnHasFlag

LEMMA LightweightShift ==
  ASSUME LightweightFirst, NEW n \in Nat, Shift(n)
  PROVE  LightweightFirst'
<1> SUFFICES ASSUME NEW i \in 1 .. n, calls'[i] = Request("LightweightSegments", TRUE)
             PROVE  FALSE
  BY DEF LightweightFirst, Shift
<1>1. i + 1 \in 1 .. n + 1 /\ i + 1 # 1
  OBVIOUS
<1>2. calls[i + 1] = Request("LightweightSegments", TRUE)
  BY DEF Shift
<1> QED
  BY <1>1, <1>2 DEF LightweightFirst, Shift

LEMMA OthersShift ==
  ASSUME OthersGoFirst, NEW n \in Nat, Shift(n), Connected' => Connected,
         \A i \in 2 .. n + 1, k \in enabled' \ {"Lightweight"} :
           (Connected' /\ calls[i].do = "flag" /\ calls[i].on /\ calls[i].what = "Lightweight")
             => k \in enabled /\ calls[1] \notin {Disable(k), Flag(k, FALSE)}
  PROVE  OthersGoFirst'
<1> SUFFICES ASSUME NEW i \in 1 .. n, calls'[i].do = "flag", calls'[i].on
             PROVE  /\ \A j \in 1 .. n : calls'[j].do = "flag" /\ calls'[j].on => calls'[j] = calls'[i]
                    /\ (Connected' /\ calls'[i].what = "Lightweight") =>
                         \A k \in enabled' \ {"Lightweight"} :
                           \E j \in 1 .. n : calls'[j] \in {Disable(k), Flag(k, FALSE)}
  BY DEF OthersGoFirst, Shift
<1>1. i + 1 \in 1 .. n + 1 /\ i + 1 \in 2 .. n + 1
  OBVIOUS
<1>2. calls[i + 1] = calls'[i]
  BY DEF Shift
<1>3. ASSUME NEW j \in 1 .. n, calls'[j].do = "flag", calls'[j].on
      PROVE  calls'[j] = calls'[i]
  <2>1. j + 1 \in 1 .. n + 1
    OBVIOUS
  <2>2. calls[j + 1] = calls'[j]
    BY DEF Shift
  <2> QED
    BY <1>1, <1>2, <1>3, <2>1, <2>2 DEF OthersGoFirst, Shift
<1>4. ASSUME Connected', calls'[i].what = "Lightweight", NEW k \in enabled' \ {"Lightweight"}
      PROVE  \E j \in 1 .. n : calls'[j] \in {Disable(k), Flag(k, FALSE)}
  <2>1. k \in enabled /\ calls[1] \notin {Disable(k), Flag(k, FALSE)}
    BY <1>1, <1>2, <1>4
  <2>c. DOMAIN calls = 1 .. n + 1 /\ i + 1 \in DOMAIN calls
    BY <1>1 DEF Shift
  <2>f. calls[i + 1].do = "flag" /\ calls[i + 1].on /\ calls[i + 1].what = "Lightweight" /\ Connected
    BY <1>2, <1>4
  <2>2. PICK j \in 1 .. n + 1 : calls[j] \in {Disable(k), Flag(k, FALSE)}
    BY <1>4, <2>1, <2>c, <2>f DEF OthersGoFirst
  <2>3. j \in 2 .. n + 1 /\ j - 1 \in 1 .. n
    <3>1. j # 1
      BY <2>1, <2>2
    <3> QED
      BY <3>1
  <2>4. calls'[j - 1] = calls[j]
    BY <2>3 DEF Shift
  <2> QED
    BY <2>2, <2>3, <2>4
<1> QED
  BY <1>3, <1>4

\* A request for a type: made, taken back, or refused.
LEMMA RequestKeeps ==
  ASSUME CallInv, SetRequestTypes
  PROVE  CallInv'
<1>1. calls # <<>> /\ calls \in Seq(AnyStep) /\ setting # None
  BY DEF CallInv, CallTypeOK, SetRequestTypes
<1>2. PICK t : t = Head(calls).what
  OBVIOUS
<1>3. enabled' = enabled /\ (Connected' <=> Connected) /\ Wanted' = Wanted
  BY DEF SetRequestTypes, Connected, conn_vars, Wanted
<1>4. Head(calls).do = "request"
  BY DEF SetRequestTypes
<1>5. \/ Head(calls).on /\ m_RequestedObjects' = m_RequestedObjects \cup {t}
                        /\ Continue(Tail(calls))
      \/ ~ Head(calls).on /\ m_RequestedObjects' = m_RequestedObjects \ {t}
                          /\ Continue(Tail(calls))
      \/ Head(calls).on /\ m_RequestedObjects' = m_RequestedObjects
                        /\ Continue(Tail(calls))
      \/ Head(calls).on /\ m_RequestedObjects' = m_RequestedObjects
                        /\ t = "LightweightSegments" /\ Continue(<<>>)
  BY <1>2 DEF SetRequestTypes, SetRequiredObjects
<1>6. Head(calls) = calls[1] /\ calls[1] \in AnyStep
  BY <1>1
<1>7. calls[1] = Request(t, TRUE) \/ calls[1] = Request(t, FALSE)
  BY <1>2, <1>4, <1>6 DEF AnyStep, Request
<1>8. CASE calls' = Tail(calls) /\ setting' = (IF Tail(calls) = <<>> THEN None ELSE setting)
  <2>1. PICK n \in Nat : Shift(n)
    BY <1>1, <1>8, TailShifts DEF CallInv
  <2>2. CallTypeOK'
    BY <1>3, <1>8, <2>1 DEF CallTypeOK, Shift, CallInv
  <2>3. \/ calls[1] = Request(t, TRUE) /\ m_RequestedObjects' = m_RequestedObjects \cup {t}
        \/ calls[1] = Request(t, TRUE) /\ m_RequestedObjects' = m_RequestedObjects
        \/ calls[1] = Request(t, FALSE) /\ m_RequestedObjects' = m_RequestedObjects \ {t}
    BY <1>5, <1>6, <1>7 DEF Request
  <2>4. ASSUME NEW i \in 2 .. n + 1, calls[i].do = "flag", ~ calls[i].on,
               NEW u \in Needs(calls[i].what) \cap m_RequestedObjects'
        PROVE  u \in m_RequestedObjects /\ calls[1] # Request(u, FALSE)
    <3>1. 1 \in 1 .. i - 1 /\ i \in 1 .. n + 1
      OBVIOUS
    <3>2. calls[1] # Request(u, TRUE)
      BY <2>1, <2>4, <3>1 DEF CallInv, OffBeforeFlag, Shift
    <3>3. Request(t, TRUE) # Request(u, FALSE)
      BY DEF Request
    <3>4. Request(t, FALSE) = Request(u, FALSE) => t = u
      BY DEF Request
    <3> QED
      BY <2>3, <3>2, <3>3, <3>4
  <2>5. OffBeforeFlag'
    BY <2>1, <2>4, OffShift DEF CallInv
  <2>6. calls[1].do = "request"
    BY <1>4, <1>6
  <2>7. OnHasFlag'
    <3>1. ASSUME NEW u \in m_RequestedObjects'
          PROVE  /\ u \in m_RequestedObjects \/ calls[1] = Request(u, TRUE)
                 /\ u \in Wanted => u \in Wanted'
                 /\ (calls[1].do = "flag" /\ calls[1].on /\ u \in Needs(calls[1].what))
                      => u \in Wanted'
      BY <1>3, <2>3, <2>6
    <3> QED
      BY <2>1, <3>1, OnShift DEF CallInv
  <2>8. LightweightFirst'
    BY <2>1, LightweightShift DEF CallInv
  <2>9. OthersGoFirst'
    <3>1. ASSUME NEW k
          PROVE  calls[1] \notin {Disable(k), Flag(k, FALSE)}
      BY <2>6 DEF Disable, Flag
    <3> QED
      BY <1>3, <2>1, <3>1, OthersShift DEF CallInv
  <2> QED
    BY <2>2, <2>5, <2>7, <2>8, <2>9 DEF CallInv
<1>9. CASE /\ calls' = <<>> /\ m_RequestedObjects' = m_RequestedObjects
           /\ calls[1] = Request("LightweightSegments", TRUE)
  <2>1. CallTypeOK'
    BY <1>3, <1>9 DEF CallTypeOK, CallInv
  <2>2. 1 \in DOMAIN calls
    BY <1>1
  <2>3. m_RequestedObjects \subseteq Wanted
    BY <1>9, <2>2 DEF CallInv, LightweightFirst
  <2> QED
    BY <1>3, <1>9, <2>1, <2>3
       DEF CallInv, OffBeforeFlag, OnHasFlag, LightweightFirst, OthersGoFirst
<1>10. CASE Continue(Tail(calls))
  BY <1>8, <1>10 DEF Continue
<1>11. CASE /\ Head(calls).on /\ m_RequestedObjects' = m_RequestedObjects
            /\ t = "LightweightSegments" /\ Continue(<<>>)
  <2>1. calls' = <<>>
    BY <1>11 DEF Continue
  <2>2. calls[1] = Request("LightweightSegments", TRUE)
    BY <1>6, <1>7, <1>11 DEF Request
  <2> QED
    BY <1>9, <1>11, <2>1, <2>2
<1> QED
  BY <1>5, <1>10, <1>11

\* The flag of a kind.
LEMMA FlagKeeps ==
  ASSUME CallInv, SetFlag
  PROVE  CallInv'
<1>1. calls # <<>> /\ calls \in Seq(AnyStep) /\ setting # None
  BY DEF CallInv, CallTypeOK, SetFlag
<1>2. /\ m_RequestedObjects' = m_RequestedObjects /\ (Connected' <=> Connected)
      /\ calls' = Tail(calls) /\ setting' = (IF Tail(calls) = <<>> THEN None ELSE setting)
      /\ Head(calls).do = "flag"
      /\ enabled' = IF Head(calls).on THEN enabled \cup {Head(calls).what}
                                      ELSE enabled \ {Head(calls).what}
  BY DEF SetFlag, Connected, conn_vars, Continue
<1>3. PICK n \in Nat : Shift(n)
  BY <1>1, <1>2, TailShifts DEF CallInv
<1>4. Head(calls) = calls[1] /\ calls[1] \in AnyStep /\ 1 \in DOMAIN calls
  BY <1>1
<1>5. PICK k : k = calls[1].what
  OBVIOUS
<1>6. /\ k \in Kinds
      /\ \/ calls[1] = Flag(k, TRUE) /\ enabled' = enabled \cup {k}
         \/ calls[1] = Flag(k, FALSE) /\ enabled' = enabled \ {k}
  BY <1>2, <1>4, <1>5 DEF AnyStep, Flag
<1>7. \A t, on : calls[1] # Request(t, on)
  BY <1>2, <1>4 DEF Request
<1>8. CallTypeOK'
  BY <1>1, <1>2, <1>3, <1>6 DEF CallTypeOK, Shift, CallInv
<1>9. OffBeforeFlag'
  BY <1>2, <1>3, <1>7, OffShift DEF CallInv
<1>10. OnHasFlag'
  <2>1. ASSUME NEW t \in m_RequestedObjects, t \in Wanted
        PROVE  t \in Wanted'
    <3>1. CASE calls[1] = Flag(k, TRUE) /\ enabled' = enabled \cup {k}
      BY <2>1, <3>1 DEF Wanted
    <3>2. CASE calls[1] = Flag(k, FALSE) /\ enabled' = enabled \ {k}
      <4>1. calls[1].do = "flag" /\ ~ calls[1].on /\ calls[1].what = k
        BY <3>2 DEF Flag
      <4>2. t \notin Needs(k)
        <5>1. t \in Needs(k) => \E j \in 1 .. 1 - 1 : calls[j] = Request(t, FALSE)
          BY <1>4, <4>1 DEF CallInv, OffBeforeFlag
        <5> QED
          BY <5>1
      <4> QED
        BY <2>1, <3>2, <4>2 DEF Wanted
    <3> QED
      BY <1>6, <3>1, <3>2
  <2>2. ASSUME NEW t, calls[1].on, t \in Needs(calls[1].what)
        PROVE  t \in Wanted'
    <3>1. k \in enabled'
      BY <1>6, <2>2 DEF Flag
    <3> QED
      BY <1>5, <2>2, <3>1 DEF Wanted
  <2> QED
    BY <1>2, <1>3, <2>1, <2>2, OnShift DEF CallInv
<1>11. LightweightFirst'
  BY <1>3, LightweightShift DEF CallInv
<1>12. OthersGoFirst'
  <2>1. ASSUME NEW i \in 2 .. n + 1, NEW o \in enabled' \ {"Lightweight"},
               calls[i].do = "flag", calls[i].on, calls[i].what = "Lightweight"
        PROVE  o \in enabled /\ calls[1] \notin {Disable(o), Flag(o, FALSE)}
    <3>1. calls[1] # Disable(o)
      BY <1>2, <1>4 DEF Disable
    <3>2. CASE calls[1] = Flag(k, TRUE) /\ enabled' = enabled \cup {k}
      <4>1. calls[1].do = "flag" /\ calls[1].on /\ calls[1].what = k
        BY <3>2 DEF Flag
      <4>2. i \in DOMAIN calls
        BY <1>3 DEF Shift
      <4>3. calls[1] = calls[i]
        BY <1>4, <2>1, <4>1, <4>2 DEF CallInv, OthersGoFirst
      <4>4. k = "Lightweight"
        BY <2>1, <4>1, <4>3
      <4>5. calls[1] # Flag(o, FALSE)
        BY <4>1 DEF Flag
      <4> QED
        BY <3>1, <3>2, <4>4, <4>5
    <3>3. CASE calls[1] = Flag(k, FALSE) /\ enabled' = enabled \ {k}
      <4>1. Flag(k, FALSE) = Flag(o, FALSE) => k = o
        BY DEF Flag
      <4> QED
        BY <3>1, <3>3, <4>1
    <3> QED
      BY <1>6, <3>2, <3>3
  <2> QED
    BY <1>2, <1>3, <2>1, OthersShift DEF CallInv
<1> QED
  BY <1>8, <1>9, <1>10, <1>11, <1>12 DEF CallInv

\* The call of Disable for k has been replaced by its m steps, before the n other ones.
Expanded(m, n, k) ==
  /\ DOMAIN calls = 1 .. n + 1
  /\ calls[1].do = "disable" /\ calls[1].what = k
  /\ calls' \in Seq(AnyStep)
  /\ DOMAIN calls' = 1 .. m + n
  /\ calls'[m] = Flag(k, FALSE)
  /\ \A i \in 1 .. m - 1 : calls'[i].do = "request" /\ ~ calls'[i].on
  /\ \A t \in Needs(k) : \E i \in 1 .. m - 1 : calls'[i] = Request(t, FALSE)
  /\ \A i \in m + 1 .. m + n : calls'[i] = calls[i - m + 1]

LEMMA DisableExpands ==
  ASSUME CallTypeOK, DisableData, Connected
  PROVE  \E m \in Nat : \E n \in Nat : \E k \in Kinds : m >= 1 /\ Expanded(m, n, k)
<1>1. calls # <<>> /\ calls \in Seq(AnyStep)
  BY DEF CallTypeOK, DisableData
<1>2. Head(calls) = calls[1] /\ calls[1] \in AnyStep /\ calls[1].do = "disable"
  BY <1>1 DEF DisableData
<1>3. PICK k \in Kinds : k = calls[1].what
  BY <1>2 DEF AnyStep
<1>4. PICK F : F = Steps(k, FALSE)
  OBVIOUS
<1>5. /\ F \in Seq(AnyStep) /\ F # <<>> /\ F[Len(F)] = Flag(k, FALSE)
      /\ \A i \in 1 .. Len(F) - 1 : F[i].do = "request" /\ ~ F[i].on
      /\ \A t \in Needs(k) : \E i \in 1 .. Len(F) - 1 : F[i] = Request(t, FALSE)
  BY <1>4, StepsOff DEF OffSteps
<1>6. PICK m \in Nat : m = Len(F)
  BY <1>5
<1>7. m >= 1
  BY <1>5, <1>6
<1>8. PICK n \in Nat : Len(calls) = n + 1
  <2>1. Len(calls) \in Nat /\ Len(calls) # 0
    BY <1>1
  <2>2. Len(calls) - 1 \in Nat /\ Len(calls) = (Len(calls) - 1) + 1
    BY <2>1
  <2> QED
    BY <2>2
<1>9. PICK rest : rest = Tail(calls)
  OBVIOUS
<1>10. rest \in Seq(AnyStep) /\ Len(rest) = n /\ \A i \in 1 .. n : rest[i] = calls[i + 1]
  <2> HIDE DEF AnyStep
  <2> QED
    BY <1>1, <1>8, <1>9, HeadTailProperties
<1>11. calls' = F \o rest
  BY <1>2, <1>3, <1>4, <1>9 DEF DisableData, Continue
<1>12. IsJoin(calls', F, rest, AnyStep)
  BY <1>5, <1>10, <1>11, Joined
<1>13. /\ calls' \in Seq(AnyStep) /\ Len(calls') = m + n
       /\ \A i \in 1 .. m : calls'[i] = F[i]
       /\ \A i \in m + 1 .. m + n : calls'[i] = rest[i - m]
  BY <1>6, <1>10, <1>12 DEF IsJoin
<1>14. DOMAIN calls = 1 .. n + 1 /\ DOMAIN calls' = 1 .. m + n
  BY <1>1, <1>8, <1>13
<1>15. ASSUME NEW i \in m + 1 .. m + n
       PROVE  calls'[i] = calls[i - m + 1]
  <2>1. i - m \in 1 .. n
    OBVIOUS
  <2> QED
    BY <1>10, <1>13, <2>1
<1>16. m \in 1 .. m /\ \A i \in 1 .. m - 1 : i \in 1 .. m
  BY <1>7
<1>17. calls'[m] = Flag(k, FALSE)
  BY <1>5, <1>6, <1>13, <1>16
<1>18. \A i \in 1 .. m - 1 : calls'[i].do = "request" /\ ~ calls'[i].on
  BY <1>5, <1>6, <1>13, <1>16
<1>19. ASSUME NEW t \in Needs(k)
       PROVE  \E i \in 1 .. m - 1 : calls'[i] = Request(t, FALSE)
  <2>1. PICK i \in 1 .. m - 1 : F[i] = Request(t, FALSE)
    BY <1>5, <1>6
  <2> QED
    BY <1>13, <1>16, <2>1
<1>20. Expanded(m, n, k)
  BY <1>2, <1>3, <1>13, <1>14, <1>15, <1>17, <1>18, <1>19 DEF Expanded
<1> QED
  BY <1>7, <1>20

\* A call of Disable: its steps come first, if there still is a connection.
LEMMA DisableKeeps ==
  ASSUME CallInv, DisableData
  PROVE  CallInv'
<1>1. calls # <<>> /\ calls \in Seq(AnyStep) /\ setting # None
  BY DEF CallInv, CallTypeOK, DisableData
<1>2. /\ enabled' = enabled /\ m_RequestedObjects' = m_RequestedObjects
      /\ (Connected' <=> Connected) /\ Wanted' = Wanted
  BY DEF DisableData, Connected, conn_vars, Wanted
<1>3. Head(calls) = calls[1] /\ calls[1].do = "disable"
  BY <1>1 DEF DisableData
<1>4. \A t, on : calls[1] # Request(t, on) /\ calls[1] # Flag(t, on)
  BY <1>3 DEF Request, Flag
<1>5. CASE ~ Connected
  <2>1. calls' = Tail(calls) /\ setting' = (IF Tail(calls) = <<>> THEN None ELSE setting)
    <3>1. Tail(calls) \in Seq(AnyStep)
      BY <1>1
    <3>2. <<>> \o Tail(calls) = Tail(calls)
      BY <3>1, ConcatEmptySeq
    <3> QED
      BY <1>5, <3>2 DEF DisableData, Continue
  <2>2. PICK n \in Nat : Shift(n)
    BY <1>1, <2>1, TailShifts DEF CallInv
  <2>3. CallTypeOK'
    BY <1>1, <1>2, <2>1, <2>2 DEF CallTypeOK, Shift, CallInv
  <2>4. OffBeforeFlag'
    BY <1>2, <1>4, <2>2, OffShift DEF CallInv
  <2>5. OnHasFlag'
    BY <1>2, <1>3, <2>2, OnShift DEF CallInv
  <2>6. LightweightFirst'
    BY <2>2, LightweightShift DEF CallInv
  <2>7. OthersGoFirst'
    BY <1>2, <1>5, <2>2, OthersShift DEF CallInv
  <2> QED
    BY <2>3, <2>4, <2>5, <2>6, <2>7 DEF CallInv
<1>6. CASE Connected
  <2>1. \E m \in Nat : \E n \in Nat : \E k \in Kinds : m >= 1 /\ Expanded(m, n, k)
    BY <1>6, DisableExpands DEF CallInv
  <2>2. PICK m \in Nat : \E n \in Nat : \E k \in Kinds : m >= 1 /\ Expanded(m, n, k)
    BY <2>1
  <2>3. PICK n \in Nat : \E k \in Kinds : m >= 1 /\ Expanded(m, n, k)
    BY <2>2
  <2>4. PICK k \in Kinds : m >= 1 /\ Expanded(m, n, k)
    BY <2>3
  <2>5. /\ DOMAIN calls = 1 .. n + 1 /\ DOMAIN calls' = 1 .. m + n
        /\ calls'[m] = Flag(k, FALSE)
        /\ \A i \in 1 .. m - 1 : calls'[i].do = "request" /\ ~ calls'[i].on
        /\ \A i \in m + 1 .. m + n : calls'[i] = calls[i - m + 1]
    BY <2>4 DEF Expanded
  <2>6. \A i \in 1 .. m + n : i \in 1 .. m - 1 \/ i = m \/ i \in m + 1 .. m + n
    OBVIOUS
  <2>7. Flag(k, FALSE).do = "flag" /\ ~ Flag(k, FALSE).on /\ Flag(k, FALSE).what = k
    BY DEF Flag
  <2>8. \A i \in m + 1 .. m + n : i - m + 1 \in 2 .. n + 1 /\ i - m + 1 \in 1 .. n + 1
    OBVIOUS
  <2>9. ASSUME NEW i \in 1 .. n + 1, i # 1
        PROVE  /\ i + m - 1 \in m + 1 .. m + n /\ i + m - 1 \in 1 .. m + n
               /\ calls'[i + m - 1] = calls[i]
    <3>1. PICK j \in m + 1 .. m + n : j = i + m - 1
      BY <2>4, <2>9
    <3>2. j - m + 1 = i /\ j \in 1 .. m + n
      BY <3>1
    <3>3. calls'[j] = calls[i]
      BY <2>5, <3>2
    <3> QED
      BY <3>1, <3>2, <3>3
  <2>10. CallTypeOK'
    <3>1. calls' \in Seq(AnyStep) /\ calls' # <<>>
      BY <2>4, <2>5 DEF Expanded
    <3>2. setting' # None
      BY <1>1, <3>1 DEF DisableData, Continue
    <3> QED
      BY <1>2, <3>1, <3>2 DEF CallTypeOK, CallInv
  <2>11. OffBeforeFlag'
    <3> SUFFICES ASSUME NEW i \in 1 .. m + n, calls'[i].do = "flag", ~ calls'[i].on,
                        NEW t \in Needs(calls'[i].what)
                 PROVE  /\ t \in m_RequestedObjects =>
                             \E j \in 1 .. i - 1 : calls'[j] = Request(t, FALSE)
                        /\ \A j \in 1 .. i - 1 : calls'[j] # Request(t, TRUE)
      BY <1>2, <2>5 DEF OffBeforeFlag
    <3>1. \A j \in 1 .. m - 1 : calls'[j] # Request(t, TRUE)
      BY <2>5 DEF Request
    <3>2. CASE i = m
      BY <2>4, <2>5, <2>7, <3>1, <3>2 DEF Expanded
    <3>3. CASE i \in m + 1 .. m + n
      <4>1. PICK b \in 2 .. n + 1 : b = i - m + 1
        BY <2>8, <3>3
      <4>2. calls'[i] = calls[b] /\ b \in 1 .. n + 1
        BY <2>5, <3>3, <4>1
      <4>3. /\ t \in m_RequestedObjects => \E j \in 1 .. b - 1 : calls[j] = Request(t, FALSE)
            /\ \A j \in 1 .. b - 1 : calls[j] # Request(t, TRUE)
        BY <2>5, <4>2 DEF CallInv, OffBeforeFlag
      <4>4. ASSUME t \in m_RequestedObjects
            PROVE  \E j \in 1 .. i - 1 : calls'[j] = Request(t, FALSE)
        <5>1. PICK j \in 1 .. b - 1 : calls[j] = Request(t, FALSE)
          BY <4>3, <4>4
        <5>2. j # 1
          BY <1>4, <5>1
        <5>3. j \in 1 .. n + 1 /\ j + m - 1 \in 1 .. i - 1
          BY <2>4, <4>1
        <5>4. calls'[j + m - 1] = calls[j]
          BY <2>9, <5>2, <5>3
        <5> QED
          BY <5>1, <5>3, <5>4
      <4>5. ASSUME NEW j \in 1 .. i - 1
            PROVE  calls'[j] # Request(t, TRUE)
        <5>1. j \in 1 .. m + n
          OBVIOUS
        <5>2. CASE j = m
          <6>1. Request(t, TRUE).do = "request"
            BY DEF Request
          <6> QED
            BY <2>5, <2>7, <5>2, <6>1
        <5>3. CASE j \in m + 1 .. m + n
          <6>1. PICK a \in 1 .. b - 1 : a = j - m + 1
            BY <4>1, <5>3
          <6>2. calls'[j] = calls[a]
            BY <2>5, <5>3, <6>1
          <6> QED
            BY <4>3, <6>2
        <5> QED
          BY <2>6, <3>1, <5>1, <5>2, <5>3
      <4> QED
        BY <4>4, <4>5
    <3>4. ~(i \in 1 .. m - 1)
      BY <2>5
    <3> QED
      BY <2>6, <3>2, <3>3, <3>4
  <2>12. OnHasFlag'
    <3>1. ASSUME NEW t, NEW j \in 0 .. n + 1, FlagFollows(t, j), NEW i \in 0 .. m + n,
                 i <= j + m - 1 \/ (j = 0 /\ i = 0)
          PROVE  FlagFollows(t, i)'
      <4>1. PICK f \in 1 .. n + 1 : f > j /\ calls[f].do = "flag" /\ calls[f].on
                                    /\ t \in Needs(calls[f].what)
        BY <2>5, <3>1 DEF FlagFollows
      <4>2. f # 1
        BY <1>3, <4>1
      <4>3. f + m - 1 \in 1 .. m + n /\ f + m - 1 > i /\ calls'[f + m - 1] = calls[f]
        BY <2>4, <2>9, <3>1, <4>1, <4>2
      <4> QED
        BY <2>5, <4>1, <4>3 DEF FlagFollows
    <3>2. ASSUME NEW t \in m_RequestedObjects
          PROVE  t \in Wanted \/ FlagFollows(t, 0)'
      <4>1. t \in Wanted \/ FlagFollows(t, 0)
        BY DEF CallInv, OnHasFlag
      <4>2. 0 \in 0 .. n + 1 /\ 0 \in 0 .. m + n
        OBVIOUS
      <4> QED
        BY <3>1, <4>1, <4>2
    <3>3. ASSUME NEW i \in 1 .. m + n, calls'[i].do = "request", calls'[i].on
          PROVE  (calls[i].what \in Base \/ FlagFollows(calls[i].what, i))'
      <4>1. i \in m + 1 .. m + n
        BY <2>5, <2>6, <2>7, <3>3
      <4>2. PICK j \in 2 .. n + 1 : j = i - m + 1
        BY <2>8, <4>1
      <4>3. calls'[i] = calls[j] /\ j \in 0 .. n + 1 /\ i \in 0 .. m + n /\ i <= j + m - 1
        BY <2>5, <4>1, <4>2
      <4>4. PICK t : t = calls[j].what
        OBVIOUS
      <4>5. t \in Base \/ FlagFollows(t, j)
        BY <2>5, <3>3, <4>3, <4>4 DEF CallInv, OnHasFlag
      <4>6. t \in Base \/ FlagFollows(t, i)'
        BY <3>1, <4>3, <4>5
      <4> QED
        BY <4>3, <4>4, <4>6 DEF FlagFollows
    <3> QED
      BY <1>2, <2>5, <3>2, <3>3 DEF OnHasFlag
  <2>13. LightweightFirst'
    <3> SUFFICES ASSUME NEW i \in 1 .. m + n, calls'[i] = Request("LightweightSegments", TRUE)
                 PROVE  FALSE
      BY <2>5 DEF LightweightFirst
    <3>1. calls'[i].do = "request" /\ calls'[i].on
      BY DEF Request
    <3>2. i \in m + 1 .. m + n
      BY <2>5, <2>6, <2>7, <3>1
    <3>3. PICK j \in 2 .. n + 1 : j = i - m + 1
      BY <2>8, <3>2
    <3>4. calls'[i] = calls[j]
      BY <2>5, <3>2, <3>3
    <3>5. j \in DOMAIN calls /\ j # 1
      BY <2>5
    <3> QED
      BY <3>4, <3>5 DEF CallInv, LightweightFirst
  <2>14. OthersGoFirst'
    <3>1. ASSUME NEW i \in 1 .. m + n, calls'[i].do = "flag", calls'[i].on
          PROVE  \E j \in 1 .. n + 1 : calls'[i] = calls[j]
      <4>1. i \in m + 1 .. m + n
        BY <2>5, <2>6, <2>7, <3>1
      <4> QED
        BY <2>5, <2>8, <4>1
    <3>2. ASSUME NEW i \in 1 .. m + n, calls'[i].do = "flag", calls'[i].on,
                 NEW j \in 1 .. m + n, calls'[j].do = "flag", calls'[j].on
          PROVE  calls'[j] = calls'[i]
      <4>1. PICK a \in DOMAIN calls : calls'[i] = calls[a]
        BY <2>5, <3>1, <3>2
      <4>2. PICK b \in DOMAIN calls : calls'[j] = calls[b]
        BY <2>5, <3>1, <3>2
      <4> QED
        BY <3>2, <4>1, <4>2 DEF CallInv, OthersGoFirst
    <3>3. ASSUME NEW i \in 1 .. m + n, calls'[i].do = "flag", calls'[i].on,
                 calls'[i].what = "Lightweight", NEW o \in enabled \ {"Lightweight"}
          PROVE  \E j \in 1 .. m + n : calls'[j] \in {Disable(o), Flag(o, FALSE)}
      <4>1. PICK b \in DOMAIN calls : calls[b] = calls'[i]
        BY <2>5, <3>1, <3>3
      <4>2. \E j \in DOMAIN calls : calls[j] \in {Disable(o), Flag(o, FALSE)}
        BY <1>6, <3>3, <4>1 DEF CallInv, OthersGoFirst
      <4>5. PICK j \in 1 .. n + 1 : calls[j] \in {Disable(o), Flag(o, FALSE)}
        BY <2>5, <4>2
      <4>3. CASE j = 1
        <5>1. calls[1].what = k
          BY <2>4 DEF Expanded
        <5>2. Disable(o).what = o /\ Flag(o, FALSE).what = o
          BY DEF Disable, Flag
        <5>3. o = k
          BY <4>3, <4>5, <5>1, <5>2
        <5>4. m \in 1 .. m + n
          BY <2>4
        <5> QED
          BY <2>5, <5>3, <5>4
      <4>4. CASE j # 1
        BY <2>9, <4>4, <4>5
      <4> QED
        BY <4>3, <4>4
    <3> QED
      BY <1>2, <2>5, <3>2, <3>3 DEF OthersGoFirst
  <2> QED
    BY <2>10, <2>11, <2>12, <2>13, <2>14 DEF CallInv
<1> QED
  BY <1>5, <1>6

\* A new call, and a new connection, begin with nothing half done.
LEMMA CallBegins ==
  ASSUME CallInv, setting = None, NEW k \in Kinds, NEW on \in BOOLEAN,
         SetDataEnabled(k, on)
  PROVE  CallInv'
<1>1. m_RequestedObjects \subseteq Wanted /\ enabled \subseteq Kinds
  <2>1. calls = <<>>
    BY DEF CallInv, CallTypeOK
  <2>2. \A t : ~ FlagFollows(t, 0)
    BY <2>1 DEF FlagFollows
  <2> QED
    BY <2>2 DEF CallInv, OnHasFlag, CallTypeOK
<1>2. /\ enabled' = enabled /\ m_RequestedObjects' = m_RequestedObjects /\ Wanted' = Wanted
      /\ calls' = Steps(k, on) /\ setting' = [kind |-> k, on |-> on]
  BY DEF SetDataEnabled, Wanted
<1>3. setting' # None
  BY <1>2, DataRequestsAssumption
<1>4. CASE on = FALSE
  <2>1. OffSteps(calls', k)
    BY <1>2, <1>4, StepsOff
  <2>2. PICK n \in Nat : n = Len(calls')
    BY <2>1 DEF OffSteps
  <2>3. /\ calls' \in Seq(AnyStep) /\ n \in 1 .. n /\ DOMAIN calls' = 1 .. n
        /\ calls'[n].do = "flag" /\ ~ calls'[n].on /\ calls'[n].what = k
        /\ \A i \in 1 .. n - 1 : calls'[i].do = "request" /\ ~ calls'[i].on
        /\ \A t \in Needs(k) : \E i \in 1 .. n - 1 : calls'[i] = Request(t, FALSE)
    <3>1. calls' \in Seq(AnyStep) /\ calls' # <<>>
      BY <2>1 DEF OffSteps
    <3>2. n \in 1 .. n /\ DOMAIN calls' = 1 .. n
      BY <2>2, <3>1
    <3>3. calls'[n] = Flag(k, FALSE)
      BY <2>1, <2>2 DEF OffSteps
    <3>4. Flag(k, FALSE).do = "flag" /\ ~ Flag(k, FALSE).on /\ Flag(k, FALSE).what = k
      BY DEF Flag
    <3>5. \A i \in 1 .. n - 1 : calls'[i].do = "request" /\ ~ calls'[i].on
      BY <2>1, <2>2 DEF OffSteps
    <3>6. \A t \in Needs(k) : \E i \in 1 .. n - 1 : calls'[i] = Request(t, FALSE)
      BY <2>1, <2>2 DEF OffSteps
    <3> QED
      BY <3>1, <3>2, <3>3, <3>4, <3>5, <3>6
  <2>4. \A i \in 1 .. n : i = n \/ i \in 1 .. n - 1
    OBVIOUS
  <2>5. \A i \in 1 .. n : ~ calls'[i].on /\ (calls'[i].do = "flag" => i = n)
    BY <2>3, <2>4
  <2>6. \A t, i : i \in 1 .. n => calls'[i] # Request(t, TRUE)
    BY <2>5 DEF Request
  <2>7. CallTypeOK'
    BY <1>1, <1>2, <1>3, <2>3 DEF CallTypeOK
  <2>8. OffBeforeFlag'
    <3>1. \A j \in 1 .. n - 1 : j \in 1 .. n
      OBVIOUS
    <3> QED
      BY <1>2, <2>3, <2>5, <2>6, <3>1 DEF OffBeforeFlag
  <2>9. OnHasFlag'
    BY <1>1, <1>2, <2>3, <2>5 DEF OnHasFlag
  <2>10. LightweightFirst' /\ OthersGoFirst'
    BY <2>3, <2>5, <2>6 DEF LightweightFirst, OthersGoFirst
  <2> QED
    BY <2>7, <2>8, <2>9, <2>10 DEF CallInv
<1>5. CASE on = TRUE
  <2>1. OnSteps(calls', k)
    BY <1>2, <1>5, StepsOn
  <2>2. PICK n \in Nat : n = Len(calls')
    BY <2>1 DEF OnSteps
  <2>3. /\ calls' \in Seq(AnyStep) /\ n \in 1 .. n /\ DOMAIN calls' = 1 .. n
        /\ calls'[n] = Flag(k, TRUE)
        /\ \A i \in 1 .. n - 1 : /\ calls'[i].do # "flag"
                                 /\ (calls'[i].do = "request" /\ calls'[i].on)
                                      => calls'[i].what \in Needs(k)
        /\ \A i \in 1 .. n : calls'[i] = Request("LightweightSegments", TRUE) => i = 1
        /\ k = "Lightweight" =>
             \A o \in Kinds \ {"Lightweight"} : \E i \in 1 .. n : calls'[i] = Disable(o)
    <3>1. calls' \in Seq(AnyStep) /\ calls' # <<>>
      BY <2>1 DEF OnSteps
    <3>2. n \in 1 .. n /\ DOMAIN calls' = 1 .. n
      BY <2>2, <3>1
    <3> QED
      BY <2>1, <2>2, <3>1, <3>2 DEF OnSteps
  <2>4. \A i \in 1 .. n : i = n \/ i \in 1 .. n - 1
    OBVIOUS
  <2>5. calls'[n].do = "flag" /\ calls'[n].on /\ calls'[n].what = k
    BY <2>3 DEF Flag
  <2>6. \A i \in 1 .. n : calls'[i].do = "flag" => i = n
    BY <2>3, <2>4
  <2>7. CallTypeOK'
    BY <1>1, <1>2, <1>3, <2>3 DEF CallTypeOK
  <2>8. OffBeforeFlag'
    BY <2>3, <2>5, <2>6 DEF OffBeforeFlag
  <2>9. OnHasFlag'
    <3>1. ASSUME NEW i \in 1 .. n, calls'[i].do = "request", calls'[i].on
          PROVE  (calls[i].what \in Base \/ FlagFollows(calls[i].what, i))'
      <4>1. i \in 1 .. n - 1
        BY <2>4, <2>5, <3>1
      <4>2. calls'[i].what \in Needs(k) /\ n > i
        BY <2>3, <3>1, <4>1
      <4> QED
        BY <2>3, <2>5, <4>2 DEF FlagFollows
    <3> QED
      BY <1>1, <1>2, <2>3, <3>1 DEF OnHasFlag
  <2>10. LightweightFirst'
    BY <1>1, <1>2, <2>3 DEF LightweightFirst
  <2>11. OthersGoFirst'
    BY <1>1, <1>2, <2>3, <2>5, <2>6 DEF OthersGoFirst
  <2> QED
    BY <2>7, <2>8, <2>9, <2>10, <2>11 DEF CallInv
<1> QED
  BY <1>4, <1>5

LEMMA ConnectionBegins ==
  ASSUME CallInv, NewConnection, enabled' = enabled,
         calls' \in {<<>>, Followed(Requests(BaseTypes, TRUE))},
         calls' = <<>> \/ setting' # None
  PROVE  CallInv'
<1>1. /\ calls' \in Seq(AnyStep)
      /\ \A i \in DOMAIN calls' : \E t \in Base : calls'[i] = Request(t, TRUE)
  <2>1. CASE calls' = <<>>
    BY <2>1
  <2>2. CASE calls' = Followed(Requests(BaseTypes, TRUE))
    BY <2>2, StepsOfConnection
  <2> QED
    BY <2>1, <2>2
<1>2. \A i \in DOMAIN calls' : calls'[i].do = "request" /\ calls'[i].what \in Base
  BY <1>1 DEF Request
<1>3. m_RequestedObjects' = {}
  BY DEF NewConnection
<1>4. CallTypeOK'
  BY <1>1 DEF CallInv, CallTypeOK
<1>5. OffBeforeFlag' /\ OthersGoFirst'
  BY <1>2 DEF OffBeforeFlag, OthersGoFirst
<1>6. OnHasFlag'
  BY <1>2, <1>3 DEF OnHasFlag
<1>7. LightweightFirst'
  <2>1. \A i \in DOMAIN calls' : calls'[i] # Request("LightweightSegments", TRUE)
    BY <1>2, StepsOfConnection DEF Request
  <2> QED
    BY <2>1 DEF LightweightFirst
<1> QED
  BY <1>4, <1>5, <1>6, <1>7 DEF CallInv

\* What the threads, frames, filters and feedback do leaves a call alone; a connection
\* may break, and does not come back by itself.
LEMMA OtherStepsKeepCalls ==
  ASSUME CallInv, UNCHANGED <<enabled, setting, calls, m_RequestedObjects>>,
         Connected' => Connected
  PROVE  CallInv'
BY DEF CallInv, CallTypeOK, OffBeforeFlag, OnHasFlag, LightweightFirst, OthersGoFirst,
       FlagFollows, Wanted

LEMMA ThreadsLeaveCalls ==
  ASSUME NEW r \in Routes, StreamThread(r) \/ OnDisconnect(r) \/ ApexSteps(r)
  PROVE  UNCHANGED <<enabled, setting, calls, m_RequestedObjects>> /\ (Connected' => Connected)
<1> USE DEF setup_vars, filter_vars, apex_vars, frame_vars, server_vars, conn_vars
<1>1. CASE StreamThread(r) \/ OnDisconnect(r)
  <2>1. stream_pc[r] # "ended"
    BY <1>1 DEF StreamThread, ReadObjectEnums, DeclarationRead, WriteObjects, Flush, ReadObjects,
                OnDisconnect
  <2>2. UNCHANGED <<enabled, setting, calls, m_RequestedObjects>>
    BY <1>1 DEF StreamThread, ReadObjectEnums, DeclarationRead, WriteObjects, Flush, ReadObjects,
                OnDisconnect
  <2> QED
    BY <2>1, <2>2 DEF Connected
<1>2. CASE ApexSteps(r)
  BY <1>2 DEF ApexSteps, RaiseHapticChanged, StoreOnDeviceList, Connected
<1> QED
  BY <1>1, <1>2

LEMMA CallInvBegins == Init => CallInv
BY DEF Init, CallInv, CallTypeOK, OffBeforeFlag, OnHasFlag, LightweightFirst, OthersGoFirst

LEMMA NextKeepsCalls == CallInv /\ [Next]_vars => CallInv'
<1> SUFFICES ASSUME CallInv, [Next]_vars
             PROVE  CallInv'
  OBVIOUS
<1> USE DEF setup_vars, filter_vars, apex_vars, frame_vars, server_vars, conn_vars
<1>1. CASE \E R \in SUBSET Routes : Connect(R)
  <2> PICK R \in SUBSET Routes : Connect(R)
    BY <1>1
  <2>1. NewConnection /\ enabled' = enabled
        /\ calls' \in {<<>>, Followed(Requests(BaseTypes, TRUE))}
    BY DEF Connect
  <2>2. calls' = <<>> \/ setting' # None
    BY DataRequestsAssumption DEF Connect, Connecting
  <2> QED
    BY <2>1, <2>2, ConnectionBegins
<1>2. CASE Disconnect
  <2>1. NewConnection /\ enabled' = enabled /\ calls' = <<>>
    BY <1>2 DEF Disconnect, Idle, CallInv, CallTypeOK
  <2> QED
    BY <2>1, ConnectionBegins
<1>3. CASE \E k \in Kinds, on \in BOOLEAN : SetDataEnabled(k, on)
  <2> PICK k \in Kinds, on \in BOOLEAN : SetDataEnabled(k, on)
    BY <1>3
  <2>1. setting = None
    BY DEF SetDataEnabled, Idle
  <2> QED
    BY <2>1, CallBegins
<1>4. CASE CallSteps
  BY <1>4, RequestKeeps, DisableKeeps, FlagKeeps DEF CallSteps
<1>5. CASE GetFrame
  BY <1>5, OtherStepsKeepCalls DEF GetFrame, Connected
<1>6. CASE \E c, b, v \in SUBSET Cameras : SetCameraFilter(c, b, v)
  BY <1>6, OtherStepsKeepCalls DEF SetCameraFilter, Connected
<1>7. CASE ClearSubjectFilter
  BY <1>7, OtherStepsKeepCalls DEF ClearSubjectFilter, Connected
<1>8. CASE \E s \in Subjects : AddToSubjectFilter(s)
  BY <1>8, OtherStepsKeepCalls DEF AddToSubjectFilter, Connected
<1>9. CASE \E d \in Devices, on \in BOOLEAN : SetApexDeviceFeedback(d, on)
  BY <1>9, OtherStepsKeepCalls DEF SetApexDeviceFeedback, Connected
<1>10. CASE \E r \in Routes : StreamThread(r) \/ ApexSteps(r) \/ OnDisconnect(r)
  BY <1>10, ThreadsLeaveCalls, OtherStepsKeepCalls
<1>11. CASE UNCHANGED vars
  BY <1>11, OtherStepsKeepCalls DEF vars, Connected
<1> QED
  BY <1>1, <1>2, <1>3, <1>4, <1>5, <1>6, <1>7, <1>8, <1>9, <1>10, <1>11 DEF Next

\* What is left of a call accounts for what has been done of it, whatever kinds,
\* types, servers and routes there are, and whenever the connection breaks.
THEOREM CallsAreAccountedFor == Spec => []CallInv
<1>1. Init => CallInv
  BY CallInvBegins
<1>2. CallInv /\ [Next]_vars => CallInv'
  BY NextKeepsCalls
<1> QED
  BY <1>1, <1>2, PTL DEF Spec

\* Between two calls nothing is requested that Is...Enabled does not report, also when
\* a call was refused half way or the connection broke within it.
THEOREM OnlyEnabledIsRequested == Spec => []NothingUnasked
<1>1. CallInv => NothingUnasked
  <2> SUFFICES ASSUME CallInv, setting = None
               PROVE  m_RequestedObjects \subseteq Wanted
    BY DEF NothingUnasked, Wanted
  <2>1. calls = <<>>
    BY DEF CallInv, CallTypeOK
  <2>2. \A t : ~ FlagFollows(t, 0)
    BY <2>1 DEF FlagFollows
  <2> QED
    BY <2>2 DEF CallInv, OnHasFlag
<1> QED
  BY <1>1, CallsAreAccountedFor, PTL

\* The step that ends EnableLightweightSegmentData.
LightweightStep ==
  (Connected /\ calls = << Flag("Lightweight", TRUE) >> /\ calls' = <<>>)
    => /\ enabled' = {"Lightweight"}
       /\ m_RequestedObjects \subseteq Base \cup Needs("Lightweight")

\* When EnableLightweightSegmentData has succeeded, every other kind has been disabled,
\* as its documentation says, and nothing is requested for them.
THEOREM LightweightRulesOutOthers == Spec => LightweightIsAlone
<1>1. CallInv /\ [Next]_vars => [LightweightStep]_vars
  <2> SUFFICES ASSUME CallInv, Next, Connected, calls = << Flag("Lightweight", TRUE) >>,
                      calls' = <<>>
               PROVE  /\ enabled' = {"Lightweight"}
                      /\ m_RequestedObjects \subseteq Base \cup Needs("Lightweight")
    BY DEF LightweightStep
  <2> USE DEF setup_vars, filter_vars, apex_vars, frame_vars, server_vars, conn_vars
  <2>1. /\ calls # <<>> /\ DOMAIN calls = {1} /\ calls[1] = Flag("Lightweight", TRUE)
        /\ Head(calls) = Flag("Lightweight", TRUE)
    OBVIOUS
  <2>2. /\ calls[1].do = "flag" /\ calls[1].on /\ calls[1].what = "Lightweight"
        /\ Head(calls).do = "flag" /\ Head(calls).on /\ Head(calls).what = "Lightweight"
    BY <2>1 DEF Flag
  <2>3. setting # None
    BY <2>1 DEF CallInv, CallTypeOK
  <2>4. SetFlag
    <3>1. ~ UNCHANGED calls
      BY <2>1
    <3>2. ~ Idle
      BY <2>3 DEF Idle
    <3>3. ~ SetRequestTypes /\ ~ DisableData
      BY <2>2 DEF SetRequestTypes, DisableData
    <3>4. \A r \in Routes : ~ (StreamThread(r) \/ ApexSteps(r) \/ OnDisconnect(r))
      BY <3>1, ThreadsLeaveCalls
    <3> QED
      BY <3>1, <3>2, <3>3, <3>4
         DEF Next, CallSteps, Connect, Disconnect, SetDataEnabled, GetFrame, SetCameraFilter,
             ClearSubjectFilter, AddToSubjectFilter, SetApexDeviceFeedback
  <2>5. enabled \subseteq {"Lightweight"}
    <3>1. ASSUME NEW k \in enabled \ {"Lightweight"}
          PROVE  FALSE
      <4>1. calls[1] \in {Disable(k), Flag(k, FALSE)}
        BY <2>1, <2>2 DEF CallInv, OthersGoFirst
      <4> QED
        BY <2>2, <4>1 DEF Disable, Flag
    <3> QED
      BY <3>1
  <2>6. enabled' = {"Lightweight"}
    BY <2>2, <2>4, <2>5 DEF SetFlag
  <2>7. ASSUME NEW t \in m_RequestedObjects
        PROVE  t \in Base \cup Needs("Lightweight")
    <3>1. CASE t \in Wanted
      BY <2>5, <3>1 DEF Wanted
    <3>2. CASE FlagFollows(t, 0)
      BY <2>1, <2>2, <3>2 DEF FlagFollows
    <3> QED
      BY <3>1, <3>2 DEF CallInv, OnHasFlag
  <2> QED
    BY <2>6, <2>7
<1>2. CallInv /\ [Next]_vars => [(Connected /\ calls = << Flag("Lightweight", TRUE) >>
                                    /\ calls' = <<>>)
         => /\ enabled' = {"Lightweight"}
            /\ m_RequestedObjects \subseteq Base \cup Needs("Lightweight")]_vars
  BY <1>1 DEF LightweightStep
<1> QED
  BY <1>2, CallsAreAccountedFor, PTL DEF Spec, LightweightIsAlone
=============================================================================
