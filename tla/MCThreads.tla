------------------------------ MODULE MCThreads ------------------------------
(* The instance of the threads run: the components that have threads, timers *)
(* or a peer of their own, StreamModes, RetimingClient, TfDistort, TimingLog *)
(* PingLatency and FrameGrabbing.  They share no state, so a behaviour       *)
(* exercises one of them, the focus, and the others stay as they began.      *)
EXTENDS StreamModes, RetimingClient, TfDistort, TimingLog, PingLatency, FrameGrabbing

VARIABLE focus

threadsVars == <<streamVars, retimingVars, distortVars, logVars, pingVars, bridgeVars>>

\* Lists of latencies that lack names in front and within, or have none.
MCLatencyLists == { <<"n">>, <<"p", "x", "n">>, <<>> }

ThreadsInit ==
    /\ focus \in {"stream", "retiming", "distort", "log", "ping", "bridge"}
    /\ StreamInit /\ RetimingInit /\ DistortInit /\ LogInit /\ PingInit
    /\ BridgeInit

ThreadsNext ==
    \/ focus = "stream" /\ StreamNext
       /\ UNCHANGED <<focus, retimingVars, distortVars, logVars, pingVars, bridgeVars>>
    \/ focus = "retiming" /\ RetimingNext
       /\ UNCHANGED <<focus, streamVars, distortVars, logVars, pingVars, bridgeVars>>
    \/ focus = "distort" /\ DistortNext
       /\ UNCHANGED <<focus, streamVars, retimingVars, logVars, pingVars, bridgeVars>>
    \/ focus = "log" /\ LogNext
       /\ UNCHANGED <<focus, streamVars, retimingVars, distortVars, pingVars, bridgeVars>>
    \/ focus = "ping" /\ PingNext
       /\ UNCHANGED <<focus, streamVars, retimingVars, distortVars, logVars, bridgeVars>>
    \/ focus = "bridge" /\ BridgeNext
       /\ UNCHANGED <<focus, streamVars, retimingVars, distortVars, logVars, pingVars>>

\* The program calls GetFrame again and again, WaitFrame has a deadline, and the
\* server reads what it is sent and captures frames.
StreamFairness ==
    /\ WF_streamVars(focus = "stream" /\ GetFrameStarts)
    /\ WF_streamVars(focus = "stream" /\ GetFrameEnds)
    /\ WF_streamVars(focus = "stream" /\ ServerReads)
    /\ WF_streamVars(focus = "stream" /\ ServerCaptures)

\* Threads run; neither the server nor the program has to do anything.
RetimingFairness ==
    /\ WF_retimingVars(focus = "retiming" /\ InputThread)
    /\ \A i \in Starts : WF_retimingVars(focus = "retiming" /\ OutputThread(i))
    /\ WF_retimingVars(focus = "retiming" /\ ProgramThread)
    /\ WF_retimingVars(focus = "retiming" /\ Wait)

\* Time passes, the threads of the node run; nobody has to reconfigure it.
DistortFairness ==
    /\ WF_distortVars(focus = "distort" /\ PassTick)
    /\ WF_distortVars(focus = "distort" /\ PushEnds)
    /\ WF_distortVars(focus = "distort" /\ PubStep)
    /\ WF_distortVars(focus = "distort" /\ PubEnds)
    /\ WF_distortVars(focus = "distort" /\ ReconfJoin)

\* The postal service's thread and the one that closes the log run.
LogFairness ==
    /\ WF_logVars(focus = "log" /\ TakeMail)
    /\ WF_logVars(focus = "log" /\ LogTimingFunction)
    /\ WF_logVars(focus = "log" /\ ServiceEnds)
    /\ WF_logVars(focus = "log" /\ CloseEnds)

\* The node's main thread runs; GetFrame does not fail for ever with a server
\* that is there (GetFrameKeepsSucceeding of StreamModes).
BridgeFairness == WF_bridgeVars(focus = "bridge" /\ MainThread)

ThreadsSpec ==
    /\ ThreadsInit
    /\ [][ThreadsNext]_<<focus, threadsVars>>
    /\ StreamFairness /\ RetimingFairness /\ DistortFairness /\ LogFairness
    /\ BridgeFairness
=============================================================================
