---------------------------- MODULE PingLatency -----------------------------
(* The pings of VViconCGStreamClient: SendPing, called by the application    *)
(* and without a lock, the packets of the stream thread, and the round trips *)
(* of the answers, the mean of which is the network's share of the latency.  *)
EXTENDS Integers, Sequences

CONSTANTS
    MaxPings,      \* s_MaxPings: round trips kept (20)
    MaxPingID,     \* bound on the pings of a run
    MaxPingTime    \* bound on the clock of a run

ASSUME PingLatencyAssumption == MaxPings \in Nat \ {0} /\ MaxPingID \in Nat /\ MaxPingTime \in Nat

VARIABLES
    pingID,          \* m_PingID
    pingChanged,     \* m_bPingChanged
    pingStep,        \* where SendPing stands
    pingsSent,       \* m_PingsSent: identifier -> time
    pingWire,        \* pings on their way to the server and back
    pingRoundTrips,  \* m_PingRoundTrips: as measured, and as they were
    pingRaced,       \* a packet was written within SendPing
    pingClock

pingVars == <<pingID, pingChanged, pingStep, pingsSent, pingWire, pingRoundTrips, pingRaced, pingClock>>

-----------------------------------------------------------------------------
(* Actions *)

\* SendPing raises the count, then the flag.
RaisePingID ==
    /\ pingStep = "idle"
    /\ pingID < MaxPingID
    /\ pingID' = pingID + 1
    /\ pingStep' = "raised"
    /\ UNCHANGED <<pingChanged, pingsSent, pingWire, pingRoundTrips, pingRaced, pingClock>>

RaisePingChanged ==
    /\ pingStep = "raised"
    /\ pingChanged' = TRUE
    /\ pingStep' = "idle"
    /\ UNCHANGED <<pingID, pingsSent, pingWire, pingRoundTrips, pingRaced, pingClock>>

\* Variant for mutation testing: a ping is noted under the count before.
NotePing_CountBefore(id) ==
    [i \in DOMAIN pingsSent \cup {id - 1} |-> IF i = id - 1 THEN pingClock ELSE pingsSent[i]]

NotePing(id) ==
    [i \in DOMAIN pingsSent \cup {id} |-> IF i = id THEN pingClock ELSE pingsSent[i]]

\* The ping of WriteObjects: the count is read for the packet and again to note
\* the time, and the flag is reset.  SendPing may raise the count between the
\* two, and its flag may be lost to the reset.
WritePing ==
    /\ pingChanged
    /\ \E id \in IF pingStep = "raised" THEN {pingID, pingID - 1} ELSE {pingID} :
         pingWire' = Append(pingWire, [id |-> id, at |-> pingClock])
    /\ pingsSent' = NotePing(pingID)
    /\ pingChanged' = FALSE
    /\ pingStep' \in {pingStep, "idle"}
    /\ pingRaced' = (pingRaced \/ pingStep = "raised")
    /\ UNCHANGED <<pingID, pingRoundTrips, pingClock>>

TrimRoundTrips(trips) == IF Len(trips) > MaxPings THEN Tail(trips) ELSE trips

\* VPing comes back, and ReadObjects looks it up among those sent.
ReadPing ==
    /\ pingWire # <<>>
    /\ LET ping == Head(pingWire)
           trip == [measured |-> pingClock - pingsSent[ping.id], real |-> pingClock - ping.at]
       IN IF ping.id \in DOMAIN pingsSent
          THEN /\ pingRoundTrips' = TrimRoundTrips(Append(pingRoundTrips, trip))
               /\ pingsSent' = [i \in DOMAIN pingsSent \ {ping.id} |-> pingsSent[i]]
          ELSE UNCHANGED <<pingRoundTrips, pingsSent>>
    /\ pingWire' = Tail(pingWire)
    /\ UNCHANGED <<pingID, pingChanged, pingStep, pingRaced, pingClock>>

PassPingTime ==
    /\ pingClock < MaxPingTime
    /\ pingClock' = pingClock + 1
    /\ UNCHANGED <<pingID, pingChanged, pingStep, pingsSent, pingWire, pingRoundTrips, pingRaced>>

\* CalculateNetworkLatency has a mean once there are enough round trips; the
\* item "Network Transmission" of VLatencyInfo tells its half.
HasNetworkLatency == Len(pingRoundTrips) = MaxPings

-----------------------------------------------------------------------------
(* Specification *)

PingInit ==
    /\ pingID = 0
    /\ pingChanged = FALSE
    /\ pingStep = "idle"
    /\ pingsSent = <<>>
    /\ pingWire = <<>>
    /\ pingRoundTrips = <<>>
    /\ pingRaced = FALSE
    /\ pingClock = 0

PingNext ==
    \/ RaisePingID
    \/ RaisePingChanged
    \/ WritePing
    \/ ReadPing
    \/ PassPingTime

PingSpec == PingInit /\ [][PingNext]_pingVars

-----------------------------------------------------------------------------
(* Properties *)

\* As long as no packet is written within SendPing, every answer is measured
\* from the packet that had its ping, however many are under way; the unlocked
\* count of SendPing can make it another one.  And once the latency of a frame
\* has the network's share, that of the next frames has it too.
RoundTripsAreMeasured ==
    /\ [](~pingRaced => \A i \in DOMAIN pingRoundTrips :
                           pingRoundTrips[i].measured = pingRoundTrips[i].real)
    /\ [][HasNetworkLatency => HasNetworkLatency']_pingVars

-----------------------------------------------------------------------------
(* The inductive invariant behind RoundTripsAreMeasured *)

PingTypeOK ==
    /\ pingID \in Nat /\ pingClock \in Nat
    /\ pingChanged \in BOOLEAN /\ pingRaced \in BOOLEAN /\ pingStep \in {"idle", "raised"}
    /\ \A id \in DOMAIN pingsSent : pingsSent[id] \in Nat
    /\ pingWire \in Seq([id : Int, at : Nat])
    /\ pingRoundTrips \in Seq([measured : Int, real : Int])
    /\ Len(pingRoundTrips) <= MaxPings

\* A ping that is still to be written has a count that none under way has, and
\* those under way that are noted are noted with their own time.
PingsAreOwn ==
    \A i \in DOMAIN pingWire :
        /\ pingWire[i].id <= pingID
        /\ pingChanged \/ pingStep = "raised" => pingWire[i].id < pingID
        /\ pingWire[i].id \in DOMAIN pingsSent => pingsSent[pingWire[i].id] = pingWire[i].at

RoundTripsAreReal ==
    \A i \in DOMAIN pingRoundTrips : pingRoundTrips[i].measured = pingRoundTrips[i].real

PingInv == PingTypeOK /\ (~pingRaced => PingsAreOwn /\ RoundTripsAreReal)
=============================================================================
