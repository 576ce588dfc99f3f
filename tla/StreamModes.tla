----------------------------- MODULE StreamModes -----------------------------
(* How a VClient comes by its frames: making and leaving a connection, the   *)
(* three stream modes and GetFrame, over one route.  VClient calls VCGClient *)
(* calls VViconCGStreamClient, which writes its requests to the socket at    *)
(* once; the server reads them in order, later.  The server is external: it  *)
(* answers a RequestFrame with the frame it has and a RequestNextFrame with  *)
(* the next one, and pushes every frame while it streams.                    *)
(*                                                                           *)
(* The program calls from one thread.  GetFrame returns with a frame that is *)
(* buffered already, or waits for one and may time out.  The flag            *)
(* m_bNewCachedFrame is set and cleared within one GetFrame and left out.    *)
EXTENDS Integers, Sequences, FiniteSets

CONSTANTS MaxConnections, MaxServerFrame, MaxUnread

ASSUME StreamModesAssumption ==
    MaxConnections \in Nat /\ MaxServerFrame \in Nat /\ MaxUnread \in Nat

Mode == {"ServerPush", "ClientPull", "ClientPullPreFetch"}
BadFrame == [conn |-> 0, no |-> 0]
Frame == [conn : 0 .. MaxConnections, no : 0 .. MaxServerFrame]

VARIABLES link,          \* "none": no client; "up"; "lost": its thread has ended
          conn,          \* how many connections have been made
          m_bPreFetch, m_BufferSize, m_bMulticastController,
          m_bStreaming,  \* of VViconCGStreamClient: what it last told the server
          frames,        \* VCGClient's m_FrameDeque
          latest,        \* m_LatestFrame
          waiting,       \* the program waits in GetFrame
          answer,        \* the last call that ended, and its result
          modeOf,        \* the connection that SetStreamMode was last called on
          unread,        \* requests the server has not read
          serverStreams, serverNext, serverFrame

clientVars == <<m_bPreFetch, m_BufferSize, latest>>
requestVars == <<m_bStreaming, unread>>
serverVars == <<serverStreams, serverNext, serverFrame>>
streamVars == <<link, conn, clientVars, m_bMulticastController, requestVars, frames,
                waiting, answer, modeOf, serverVars>>

Answered(c, r) == answer' = [call |-> c, result |-> r]
Idle == ~waiting
IsConnected == link = "up"

-----------------------------------------------------------------------------
(* Addresses.  A host is a name and what follows its last colon; an address  *)
(* that a name resolves to is of IPv6, or refuses, or accepts.               *)

Host == [name : {"", "vicon"}, port : {"none", "number", "bad"}]

\* The hosts that VClient::Connect goes on with: those whose port can be read.
Hosts(given) == SelectSeq(given, LAMBDA h : h.port # "bad" /\ h.name # "")

\* VViconCGStreamClient::Connect: the first endpoint of IPv4 that accepts.
ConnectsTo(endpoints) == \E i \in DOMAIN endpoints : endpoints[i] = "accepts"

IsMulticastAddress(h) == h.port # "bad" /\ h.name # ""

\* VCGClient::ReceiveMulticastData asks each of its stream clients, and
\* receives when it has any.
ReceiveMulticastData(clients) == clients # <<>>

\* A client just created: no stream clients, nothing streamed or buffered.
NewClient ==
    /\ m_bStreaming' = FALSE
    /\ unread' = <<>>
    /\ frames' = <<>>
    /\ m_bMulticastController' = FALSE
    /\ serverStreams' = FALSE
    /\ serverNext' = 0
    /\ UNCHANGED serverFrame

ConnectResult(given, endpoints) ==
    CASE Hosts(given) = <<>>    -> "InvalidHostName"
      [] ~ConnectsTo(endpoints) -> "ClientConnectionFailed"
      [] OTHER                  -> "Success"

\* The old client goes first, whatever becomes of the new one.
Connect(given, endpoints) ==
    /\ Idle
    /\ conn < MaxConnections
    /\ Answered("Connect", ConnectResult(given, endpoints))
    /\ LET made == answer'.result = "Success"
       IN /\ link' = IF made THEN "up" ELSE "none"
          /\ conn' = IF made THEN conn + 1 ELSE conn
    /\ NewClient
    /\ UNCHANGED <<clientVars, waiting, modeOf>>

\* The wrapper hands VClient a VCGClient it has just created.
ConnectToMulticast(local, multicast) ==
    /\ Idle
    /\ IF local.name = "" \/ ~IsMulticastAddress(multicast)
       THEN /\ Answered("ConnectToMulticast",
                        IF local.name = "" THEN "InvalidHostName" ELSE "InvalidMulticastIP")
            /\ UNCHANGED <<link, requestVars, frames, m_bMulticastController, serverVars>>
       ELSE /\ NewClient
            /\ link' = IF ReceiveMulticastData(<<>>) THEN "up" ELSE "none"
            /\ Answered("ConnectToMulticast",
                        IF link' = "up" THEN "Success" ELSE "ClientConnectionFailed")
    /\ UNCHANGED <<conn, clientVars, waiting, modeOf>>

Disconnect ==
    /\ Idle
    /\ Answered("Disconnect", IF IsConnected THEN "Success" ELSE "NotConnected")
    /\ IF IsConnected
       THEN link' = "none" /\ NewClient
       ELSE UNCHANGED <<link, requestVars, frames, m_bMulticastController, serverVars>>
    /\ UNCHANGED <<conn, clientVars, waiting, modeOf>>

StartTransmittingMulticast(multicast) ==
    /\ Idle
    /\ Answered("StartTransmittingMulticast",
                CASE multicast.port = "bad"         -> "InvalidMulticastIP"
                  [] ~IsConnected                   -> "NotConnected"
                  [] ~IsMulticastAddress(multicast) -> "InvalidMulticastIP"
                  [] m_bMulticastController         -> "ServerAlreadyTransmittingMulticast"
                  [] OTHER                          -> "Success")
    /\ m_bMulticastController' = (m_bMulticastController \/ answer'.result = "Success")
    /\ UNCHANGED <<link, conn, clientVars, requestVars, frames, waiting, modeOf, serverVars>>

StopTransmittingMulticast ==
    /\ Idle
    /\ Answered("StopTransmittingMulticast",
                CASE ~IsConnected            -> "NotConnected"
                  [] ~m_bMulticastController -> "ServerNotTransmittingMulticast"
                  [] OTHER                   -> "Success")
    /\ m_bMulticastController' = (m_bMulticastController /\ answer'.result # "Success")
    /\ UNCHANGED <<link, conn, clientVars, requestVars, frames, waiting, modeOf, serverVars>>

-----------------------------------------------------------------------------
(* Requests: each writes one message unless the server streams already       *)

\* The requests to be written when a client whose mode is streaming asks for r.
\* Variant for mutation testing: a frame is asked for although the server streams.
Asked_Always(streaming, r) == << r >>

Asked(streaming, r) == IF streaming THEN <<>> ELSE << r >>

\* SetStreaming tells the server of a change only.
Told(streaming, on) == IF streaming = on THEN <<>> ELSE << IF on THEN "stream" ELSE "frame" >>

KeepNewest(s, n) == IF Len(s) <= n THEN s ELSE SubSeq(s, Len(s) - n + 1, Len(s))

SetBufferSize(n) ==
    /\ Idle
    /\ m_BufferSize' = n
    /\ frames' = KeepNewest(frames, n)
    /\ Answered("SetBufferSize", "Success")
    /\ UNCHANGED <<link, conn, m_bPreFetch, latest, m_bMulticastController, requestVars, waiting,
                   modeOf, serverVars>>

\* Variant for mutation testing: pre-fetching starts without a first request.
SetStreamMode_NoRequest(mode) ==
    /\ Idle
    /\ Answered("SetStreamMode", IF IsConnected THEN "Success" ELSE "NotConnected")
    /\ IF IsConnected
       THEN LET push == mode = "ServerPush"
            IN /\ Len(unread) + 2 <= MaxUnread
               /\ m_bStreaming' = push
               /\ m_bPreFetch' = (mode = "ClientPullPreFetch")
               /\ frames' = IF mode = "ClientPullPreFetch" THEN <<>> ELSE frames
               /\ unread' = unread \o Told(m_bStreaming, push)
               /\ modeOf' = conn
       ELSE UNCHANGED <<m_bPreFetch, requestVars, frames, modeOf>>
    /\ UNCHANGED <<link, conn, m_BufferSize, latest, m_bMulticastController, waiting, serverVars>>

SetStreamMode(mode) ==
    /\ Idle
    /\ Answered("SetStreamMode", IF IsConnected THEN "Success" ELSE "NotConnected")
    /\ IF IsConnected
       THEN LET push == mode = "ServerPush"
                preFetch == mode = "ClientPullPreFetch"
            IN /\ Len(unread) + 2 <= MaxUnread
               /\ m_bStreaming' = push
               /\ m_bPreFetch' = preFetch
               /\ frames' = IF preFetch THEN <<>> ELSE frames
               /\ unread' = unread \o Told(m_bStreaming, push)
                                   \o (IF preFetch THEN Asked(push, "next") ELSE <<>>)
               /\ modeOf' = conn
       ELSE UNCHANGED <<m_bPreFetch, requestVars, frames, modeOf>>
    /\ UNCHANGED <<link, conn, m_BufferSize, latest, m_bMulticastController, waiting, serverVars>>

-----------------------------------------------------------------------------
(* GetFrame *)

\* FetchNextFrame with the oldest frame of the buffer, the request for the
\* subsequent frame when pre-fetching, and the copy to m_LatestFrame.
\* Variant for mutation testing: the newest frame is taken and the others stay.
Fetch_Newest(from) ==
    /\ latest' = from[Len(from)]
    /\ frames' = SubSeq(from, 1, Len(from) - 1)

Fetch(from) ==
    /\ latest' = Head(from)
    /\ frames' = Tail(from)

\* Variant for mutation testing: after a time-out nothing is asked for.
Subsequent_OnSuccess == IF m_bPreFetch /\ frames # <<>> THEN Asked(m_bStreaming, "next") ELSE <<>>

Subsequent == IF m_bPreFetch THEN Asked(m_bStreaming, "next") ELSE <<>>

GetFrameNotConnected ==
    /\ Idle
    /\ ~IsConnected
    /\ Answered("GetFrame", "NotConnected")
    /\ UNCHANGED <<link, conn, clientVars, m_bMulticastController, requestVars, frames, waiting,
                   modeOf, serverVars>>

\* RequestFrame, and then WaitFrame with a frame in the buffer.
GetFrameAtOnce ==
    /\ Idle
    /\ IsConnected
    /\ frames # <<>>
    /\ Len(unread) < MaxUnread
    /\ unread' = unread \o (IF m_bPreFetch THEN Subsequent ELSE Asked(m_bStreaming, "frame"))
    /\ Fetch(frames)
    /\ Answered("GetFrame", "Success")
    /\ UNCHANGED <<link, conn, m_bPreFetch, m_BufferSize, m_bMulticastController, m_bStreaming,
                   waiting, modeOf, serverVars>>

GetFrameWaits ==
    /\ Idle
    /\ IsConnected
    /\ frames = <<>>
    /\ Len(unread) < MaxUnread
    /\ unread' = unread \o (IF m_bPreFetch THEN <<>> ELSE Asked(m_bStreaming, "frame"))
    /\ waiting' = TRUE
    /\ UNCHANGED <<link, conn, clientVars, m_bMulticastController, m_bStreaming, frames, answer,
                   modeOf, serverVars>>

GetFrameArrives ==
    /\ waiting
    /\ frames # <<>>
    /\ unread' = unread \o Subsequent
    /\ Fetch(frames)
    /\ waiting' = FALSE
    /\ Answered("GetFrame", "Success")
    /\ UNCHANGED <<link, conn, m_bPreFetch, m_BufferSize, m_bMulticastController, m_bStreaming,
                   modeOf, serverVars>>

\* WaitFrame returns false at its deadline.
GetFrameTimesOut ==
    /\ waiting
    /\ unread' = unread \o Subsequent
    /\ waiting' = FALSE
    /\ Answered("GetFrame", "NoFrame")
    /\ UNCHANGED <<link, conn, clientVars, m_bMulticastController, m_bStreaming, frames, modeOf,
                   serverVars>>

-----------------------------------------------------------------------------
(* The server, and the stream thread that buffers what it sends              *)

Arrive(no) == frames' = KeepNewest(Append(frames, [conn |-> conn, no |-> no]), m_BufferSize)

ServerReads ==
    /\ IsConnected
    /\ unread # <<>>
    /\ unread' = Tail(unread)
    /\ CASE Head(unread) = "stream" ->
              serverStreams' = TRUE /\ UNCHANGED <<serverNext, frames>>
         [] Head(unread) = "frame" ->
              serverStreams' = FALSE /\ Arrive(serverFrame) /\ UNCHANGED serverNext
         [] Head(unread) = "next" ->
              serverNext' = 1 /\ UNCHANGED <<serverStreams, frames>>
    /\ UNCHANGED <<link, conn, clientVars, m_bMulticastController, m_bStreaming, waiting, answer,
                   modeOf, serverFrame>>

\* The server comes by a frame; its number stops at the bound.
ServerCaptures ==
    /\ serverFrame' = IF serverFrame < MaxServerFrame THEN serverFrame + 1 ELSE serverFrame
    /\ IF IsConnected /\ (serverStreams \/ serverNext > 0)
       THEN Arrive(serverFrame') /\ serverNext' = 0
       ELSE UNCHANGED <<frames, serverNext>>
    /\ UNCHANGED <<link, conn, clientVars, m_bMulticastController, requestVars, waiting, answer,
                   modeOf, serverStreams>>

LoseConnection ==
    /\ IsConnected
    /\ link' = "lost"
    /\ UNCHANGED <<conn, clientVars, m_bMulticastController, requestVars, frames, waiting, answer,
                   modeOf, serverVars>>

StreamInit ==
    /\ link = "none"
    /\ conn = 0
    /\ m_bPreFetch = FALSE
    /\ m_BufferSize = 1
    /\ m_bMulticastController = FALSE
    /\ m_bStreaming = FALSE
    /\ frames = <<>>
    /\ latest = BadFrame
    /\ waiting = FALSE
    /\ answer = [call |-> "none", result |-> "Success"]
    /\ modeOf = 0
    /\ unread = <<>>
    /\ serverStreams = FALSE
    /\ serverNext = 0
    /\ serverFrame = 1

GetFrameStarts == GetFrameNotConnected \/ GetFrameAtOnce \/ GetFrameWaits
GetFrameEnds == GetFrameArrives \/ GetFrameTimesOut

StreamNext ==
    \/ \E h \in Host, e \in {"v6", "refuses", "accepts"} : Connect(<<h>>, <<"v6", e>>)
    \/ \E h, g \in Host : ConnectToMulticast(h, g)
    \/ Disconnect
    \/ \E h \in Host : StartTransmittingMulticast(h)
    \/ StopTransmittingMulticast
    \/ \E n \in {1, 2} : SetBufferSize(n)
    \/ \E mode \in Mode : SetStreamMode(mode)
    \/ GetFrameStarts
    \/ GetFrameEnds
    \/ ServerReads
    \/ ServerCaptures
    \/ LoseConnection

StreamSpec == StreamInit /\ [][StreamNext]_streamVars

-----------------------------------------------------------------------------
\* Within a connection the program never gets an older frame after a newer one,
\* in whatever order it changes modes, buffer sizes and calls GetFrame: answers
\* to requests that timed out come late, but never out of order.
NeverBackwards ==
    [][latest'.conn = latest.conn => latest'.no >= latest.no]_streamVars

\* When the server has read everything it was sent it streams exactly if the
\* stream client believes that it does: no request for a single frame takes it
\* out of the push mode, and none keeps it there.  Before, the last request that
\* it has not read and that is not for a next frame says so.
ServerModeAgrees ==
    IsConnected =>
        /\ (\A i \in DOMAIN unread : unread[i] = "next") => m_bStreaming = serverStreams
        /\ \A i \in DOMAIN unread :
              (unread[i] # "next" /\ \A j \in DOMAIN unread : j > i => unread[j] = "next")
                => m_bStreaming = (unread[i] = "stream")

\* A client that was told to pre-fetch on this connection has, between any two
\* calls, a frame buffered or on its way: the next GetFrame need not ask first.
PreFetchIsAhead ==
    IsConnected /\ Idle /\ m_bPreFetch /\ modeOf = conn =>
        \/ frames # <<>>
        \/ serverNext > 0
        \/ \E i \in DOMAIN unread : unread[i] = "next"

\* While the connection lasts and the program leaves the mode alone, GetFrame
\* succeeds again and again: in every mode, and also on a second connection
\* that is still pre-fetching because of a mode set on the first one.
GetFrameKeepsSucceeding ==
    (<>[]IsConnected /\ <>[][~\E mode \in Mode : SetStreamMode(mode)]_streamVars)
        => []<>(answer.result = "Success")
=============================================================================
