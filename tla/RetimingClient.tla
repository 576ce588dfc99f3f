--------------------------- MODULE RetimingClient ---------------------------
(* The threads of VRetimingClient.  The input thread gets frames from the    *)
(* VClient and adds their poses to the retimer; the output thread updates    *)
(* the retimed poses at a rate of its own and wakes those who wait for them. *)
(* One thread of the program connects, starts and stops; another waits for   *)
(* frames.  The program connects only while it is disconnected.              *)
(*                                                                           *)
(* VClient is in push mode with a buffer: GetFrame takes the next frame that *)
(* the server has sent, or gives up after its time-out.                      *)
EXTENDS Naturals, FiniteSets

CONSTANTS MaxSent,    \* frames sent by the server
          MaxStarts,  \* output threads started
          RunIn       \* GetFrame calls of StartOutput, 20 in the code

ASSUME RetimingAssumption == {MaxSent, MaxStarts, RunIn} \subseteq Nat

VARIABLES linkUp,        \* m_pClient->IsConnected
          sent, held,    \* the server's last frame, and the one in m_LatestFrame
          inputPc,       \* the input thread; "none" is a null m_pInputThread
          inputStopped,  \* m_bInputStopped
          number,        \* FrameNumber of InputThread
          added,         \* the last frame added: its number, and that of its poses
          outputPc,      \* output threads by the order in which they were started
          output,        \* m_pOutputThread, 0 when null
          outputStopped, \* m_bOutputStopped
          caller, left,  \* where the program's thread is, and GetFrame calls left
          waiter,        \* where the thread in WaitForFrame is
          outputMutex    \* who holds m_OutputMutex

retimingVars == << linkUp, sent, held, inputPc, inputStopped, number, added,
                   outputPc, output, outputStopped, caller, left, waiter, outputMutex >>
inputVars == <<inputPc, inputStopped, number, added>>
outputVars == <<outputPc, output, outputStopped>>
callVars == <<caller, left>>
waitVars == <<waiter, outputMutex>>

Starts == 1 .. MaxStarts
Alive(pc) == pc \notin {"none", "ended"}

RetimingInit ==
    /\ linkUp = FALSE /\ sent = 0 /\ held = 0
    /\ inputPc = "none" /\ inputStopped = FALSE /\ number = 0
    /\ added = [number |-> 0, pose |-> 0]
    /\ outputPc = [i \in Starts |-> "none"] /\ output = 0 /\ outputStopped = FALSE
    /\ caller = [call |-> "none", at |-> "idle"] /\ left = 0
    /\ waiter = "out" /\ outputMutex = "free"

-----------------------------------------------------------------------------
(* The server, and GetFrame of VClient *)

Send == /\ linkUp /\ sent < MaxSent /\ sent' = sent + 1
        /\ UNCHANGED <<linkUp, held, inputVars, outputVars, callVars, waitVars>>
LoseLink == /\ linkUp /\ linkUp' = FALSE
            /\ UNCHANGED <<sent, held, inputVars, outputVars, callVars, waitVars>>

\* It succeeds with the next frame, and fails without one.
TakeFrame(succeeded) ==
    /\ succeeded = (linkUp /\ sent > held)
    /\ held' = IF succeeded THEN held + 1 ELSE held

-----------------------------------------------------------------------------
(* The input thread *)

InputTest ==
    /\ inputPc = "test"
    /\ IF inputStopped THEN inputPc' = "ended" /\ inputStopped' = FALSE
       ELSE linkUp /\ inputPc' = "fetch" /\ UNCHANGED inputStopped
    /\ UNCHANGED <<linkUp, sent, held, number, added, outputVars, callVars, waitVars>>

\* Until GetFrame succeeds or the connection is lost; nothing else ends this.
InputFetch ==
    /\ inputPc = "fetch"
    /\ \E succeeded \in BOOLEAN :
          /\ TakeFrame(succeeded)
          /\ inputPc' = IF succeeded \/ ~linkUp THEN "number" ELSE "fetch"
    /\ UNCHANGED <<linkUp, sent, inputStopped, number, added, outputVars, callVars, waitVars>>

\* Variant for mutation testing: the result of GetFrameNumber is not looked at.
InputNumber_Unchecked ==
    /\ inputPc = "number" /\ number' = held /\ inputPc' = "pose"
    /\ UNCHANGED <<linkUp, sent, held, inputStopped, added, outputVars, callVars, waitVars>>

\* GetFrameNumber and GetFrameRate fail when the connection has been lost.
InputNumber ==
    /\ inputPc = "number"
    /\ IF linkUp /\ held > 0 THEN number' = held /\ inputPc' = "pose"
                             ELSE inputPc' = "test" /\ UNCHANGED number
    /\ UNCHANGED <<linkUp, sent, held, inputStopped, added, outputVars, callVars, waitVars>>

\* The poses are those of the frame that is held by now.
InputAdd ==
    /\ inputPc = "pose" /\ inputPc' = "test"
    /\ added' = [number |-> number, pose |-> held]
    /\ UNCHANGED <<linkUp, sent, held, inputStopped, number, outputVars, callVars, waitVars>>

InputThread == InputTest \/ InputFetch \/ InputNumber \/ InputAdd

-----------------------------------------------------------------------------
(* The output threads *)

OutputTest(i) ==
    /\ outputPc[i] = "test"
    /\ IF outputStopped
       THEN outputPc' = [outputPc EXCEPT ![i] = "ended"] /\ outputStopped' = FALSE
       ELSE outputPc' = [outputPc EXCEPT ![i] = "update"] /\ UNCHANGED outputStopped
    /\ UNCHANGED <<linkUp, sent, held, inputVars, output, callVars, waitVars>>

\* Variant for mutation testing: nobody is woken.
OutputUpdate_Silent(i) ==
    /\ outputPc[i] = "update" /\ outputMutex = "free"
    /\ outputPc' = [outputPc EXCEPT ![i] = "test"]
    /\ UNCHANGED << linkUp, sent, held, inputVars, output, outputStopped, callVars, waitVars >>

\* The poses are updated and those who wait are woken under m_OutputMutex.
OutputUpdate(i) ==
    /\ outputPc[i] = "update" /\ outputMutex = "free"
    /\ outputPc' = [outputPc EXCEPT ![i] = "test"]
    /\ waiter' = IF waiter = "waiting" THEN "out" ELSE waiter
    /\ UNCHANGED <<linkUp, sent, held, inputVars, output, outputStopped, callVars, outputMutex>>

OutputThread(i) == OutputTest(i) \/ OutputUpdate(i)

-----------------------------------------------------------------------------
(* Calls of the program *)

Doing(call, at) == caller = [call |-> call, at |-> at]
GoTo(at) == caller' = [caller EXCEPT !.at = at]
Return == caller' = [call |-> "none", at |-> "idle"]

RetimingConnect ==
    /\ Doing("none", "idle") /\ inputPc = "none" /\ ~linkUp
    /\ linkUp' = TRUE /\ inputPc' = "test"
    /\ UNCHANGED << sent, held, inputStopped, number, added, outputVars, callVars, waitVars >>

\* Disconnect, StartOutput and StopOutput all begin by stopping the output.
BeginCall(call) ==
    /\ Doing("none", "idle")
    /\ call = "StartOutput" => inputPc # "none" /\ (\E i \in Starts : outputPc[i] = "none")
    /\ caller' = [call |-> call, at |-> "stopOutput"]
    /\ outputStopped' = (outputStopped \/ output # 0)
    /\ UNCHANGED <<linkUp, sent, held, inputVars, outputPc, output, left, waitVars>>

\* Variant for mutation testing: the thread is let go without a join.
StopOutput_NoJoin ==
    /\ caller.at = "stopOutput" /\ output' = 0
    /\ waiter' = IF waiter = "waiting" THEN "out" ELSE waiter
    /\ CASE caller.call = "StopOutput" -> Return /\ UNCHANGED <<left, inputStopped>>
         [] caller.call = "StartOutput" -> GoTo("runIn") /\ left' = RunIn /\ UNCHANGED inputStopped
         [] OTHER -> GoTo("stopInput") /\ inputStopped' = TRUE /\ UNCHANGED left
    /\ UNCHANGED << linkUp, sent, held, inputPc, number, added, outputPc, outputStopped, outputMutex >>

\* The join, and a wake-up without m_OutputMutex.  Then the input is told to
\* stop, whether or not it runs, or frames are got for a while.
StopOutput ==
    /\ caller.at = "stopOutput"
    /\ output # 0 => outputPc[output] = "ended"
    /\ output' = 0
    /\ waiter' = IF waiter = "waiting" THEN "out" ELSE waiter
    /\ CASE caller.call = "StopOutput" -> Return /\ UNCHANGED <<left, inputStopped>>
         [] caller.call = "StartOutput" -> GoTo("runIn") /\ left' = RunIn /\ UNCHANGED inputStopped
         [] OTHER -> GoTo("stopInput") /\ inputStopped' = TRUE /\ UNCHANGED left
    /\ UNCHANGED << linkUp, sent, held, inputPc, number, added, outputPc, outputStopped, outputMutex >>

\* The join of the input thread; then VClient disconnects.
StopInput ==
    /\ Doing("Disconnect", "stopInput") /\ ~Alive(inputPc)
    /\ inputPc' = "none" /\ linkUp' = FALSE /\ Return
    /\ UNCHANGED << sent, held, inputStopped, number, added, outputVars, left, waitVars >>

RunInGetFrame ==
    /\ Doing("StartOutput", "runIn") /\ left > 0 /\ left' = left - 1
    /\ \E succeeded \in BOOLEAN : TakeFrame(succeeded)
    /\ UNCHANGED <<linkUp, sent, inputVars, outputVars, caller, waitVars>>

StartOutputThread ==
    /\ Doing("StartOutput", "runIn") /\ left = 0
    /\ \E i \in Starts :
          /\ outputPc[i] = "none" /\ \A j \in 1 .. i - 1 : outputPc[j] # "none"
          /\ output' = i /\ outputPc' = [outputPc EXCEPT ![i] = "test"]
    /\ Return
    /\ UNCHANGED <<linkUp, sent, held, inputVars, outputStopped, left, waitVars>>

ProgramThread == StopOutput \/ StopInput \/ RunInGetFrame \/ StartOutputThread

\* WaitForFrame: IsRunning is tested and the wait begun under m_OutputMutex,
\* which the wait gives back.
WaitForFrame ==
    /\ waiter = "out" /\ outputMutex = "free" /\ output # 0
    /\ waiter' = "running" /\ outputMutex' = "waiter"
    /\ UNCHANGED <<linkUp, sent, held, inputVars, outputVars, callVars>>
Wait ==
    /\ waiter = "running" /\ waiter' = "waiting" /\ outputMutex' = "free"
    /\ UNCHANGED <<linkUp, sent, held, inputVars, outputVars, callVars>>

-----------------------------------------------------------------------------
RetimingNext ==
    \/ Send \/ LoseLink
    \/ InputThread
    \/ \E i \in Starts : OutputThread(i)
    \/ RetimingConnect \/ \E call \in {"Disconnect", "StartOutput", "StopOutput"} : BeginCall(call)
    \/ ProgramThread
    \/ WaitForFrame \/ Wait

RetimingSpec == RetimingInit /\ [][RetimingNext]_retimingVars

-----------------------------------------------------------------------------
\* The flags and the threads go together: there is at most one output thread,
\* none once StopOutput or Disconnect has returned, and a request to stop the
\* output is not left behind for the next thread.
OneOutputThread ==
    LET alive == {i \in Starts : Alive(outputPc[i])}
    IN /\ alive \subseteq {output} \ {0}
       /\ output = 0 => ~outputStopped

\* Frames are added in order and none twice, although StartOutput takes frames
\* out of the same VClient at the same time and the connection may be lost
\* between a GetFrame and the questions about the frame.
FramesAddedOnce == [][InputAdd => added'.number > added.number]_retimingVars

\* Every call returns.  StopOutput does, also while a program waits for a frame;
\* WaitForFrame does while the output runs; Disconnect does once the connection
\* is lost: with a server that is silent the input thread stays in its GetFrame
\* loop, which does not look at m_bInputStopped, and Disconnect waits for it.
RetimingCallsReturn ==
    /\ (caller.at = "stopOutput") ~> (caller.at # "stopOutput")
    /\ (waiter = "waiting") ~> (waiter # "waiting" \/ output = 0)
    /\ (caller.call = "Disconnect" /\ ~linkUp) ~> (caller.call = "none")
=============================================================================
