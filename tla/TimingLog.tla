------------------------------ MODULE TimingLog ------------------------------
(* The timing log of VClient and the postal service that writes it.  GetFrame *)
(* posts the latencies of each frame; the service's thread writes them to the *)
(* file, after it has collected a preamble of items to choose the headings    *)
(* from.  CloseLog keeps the log's mutex while it waits for that thread.      *)
EXTENDS Integers, Sequences

CONSTANTS LatencyNames,  \* what the latencies are called
          LatencyLists,  \* the lists of latencies that frames come with
          LogPreamble,   \* s_LogPreamble, 200 in the code
          MaxLogged      \* frames that are logged

Empty == ""  \* an empty column

ASSUME TimingLogAssumption ==
    /\ Empty \notin LatencyNames /\ LatencyLists \subseteq Seq(LatencyNames)
    /\ LogPreamble \in Nat /\ MaxLogged \in Nat

VARIABLES logged,      \* the number of the last frame that was posted
          mail,        \* m_pService: the items to be written
          service,     \* "none", "running", "stopping" or "ended"
          inHand,      \* the item of LogTimingFunction while it waits for m_LogMutex
          logMutex,    \* who holds m_LogMutex
          logOpen,     \* m_Log
          headings, preLogged, \* m_LogHeadings, m_PreLoggedItems
          file         \* the lines of the file: [number, names, columns]

logVars == <<logged, mail, service, inHand, logMutex, logOpen, headings, preLogged, file>>
None == [number |-> 0]

-----------------------------------------------------------------------------
(* CompareHeadings and LogLatencies *)

\* How many of h2 are found in the first i of h1, in their order.
Matched(h2, h1) ==
    LET found[i \in 0 .. Len(h1)] ==
            IF i = 0 THEN 0
            ELSE LET f == found[i - 1] IN IF f < Len(h2) /\ h1[i] = h2[f + 1] THEN f + 1 ELSE f
    IN found

Within(h2, h1) == Matched(h2, h1)[Len(h1)] = Len(h2)

CompareHeadings(h1, h2) ==
    CASE h1 = h2 -> "Same"
      [] h1 # h2 /\ Len(h1) >= Len(h2) /\ Within(h2, h1) -> "Subset"
      [] Len(h1) < Len(h2) /\ Within(h1, h2) -> "Superset"
      [] OTHER -> "Different"

\* Variant for mutation testing: a latency is written whatever its heading.
LogLatencies_ByPosition(h, latencies) ==
    IF CompareHeadings(h, latencies) \in {"Same", "Subset"}
    THEN [i \in DOMAIN h |-> IF i <= Len(latencies) THEN latencies[i] ELSE Empty] ELSE <<>>

\* The columns of a line: a latency stands for its name, or Empty.
LogLatencies(h, latencies) ==
    IF CompareHeadings(h, latencies) \in {"Same", "Subset"}
    THEN LET found == Matched(latencies, h)
         IN [i \in DOMAIN h |-> IF found[i] > found[i - 1] THEN latencies[found[i]] ELSE Empty]
    ELSE <<>>

LineOf(h, item) == [number |-> item.number, names |-> item.latencies,
                    columns |-> LogLatencies(h, item.latencies)]

\* The line above the others; frames are numbered from one.
HeadingLine(h) == [number |-> 0, names |-> <<>>, columns |-> h]

\* The longest list of headings that grows from what the items have.
HeadingsOf(items) ==
    LET longest[i \in 0 .. Len(items)] ==
            IF i = 0 THEN <<>>
            ELSE IF CompareHeadings(items[i].latencies, longest[i - 1]) = "Subset"
                 THEN items[i].latencies ELSE longest[i - 1]
    IN longest[Len(items)]

-----------------------------------------------------------------------------
(* The log *)

LogInit ==
    /\ logged = 0 /\ mail = <<>> /\ service = "none" /\ inHand = None
    /\ logMutex = "free" /\ logOpen = FALSE
    /\ headings = <<>> /\ preLogged = <<>> /\ file = <<>>

\* CreateLog: StartService starts a thread unless one runs.
CreateLog ==
    /\ logMutex = "free" /\ ~logOpen /\ logOpen' = TRUE /\ service = "none"
    /\ service' = "running"
    /\ UNCHANGED <<logged, mail, inHand, logMutex, headings, preLogged, file>>

\* GetFrame of a client that has a timing log
WriteToLog(latencies) ==
    /\ service # "none" /\ logMutex # "closer" /\ logged < MaxLogged
    /\ logged' = logged + 1
    /\ mail' = Append(mail, [number |-> logged + 1, latencies |-> latencies])
    /\ UNCHANGED <<service, inHand, logMutex, logOpen, headings, preLogged, file>>

\* The service's thread takes the next item, and writes it under the mutex.
TakeMail ==
    /\ service \in {"running", "stopping"} /\ inHand = None /\ mail # <<>>
    /\ inHand' = Head(mail) /\ mail' = Tail(mail)
    /\ UNCHANGED <<logged, service, logMutex, logOpen, headings, preLogged, file>>

\* The item that finds the preamble complete is not written itself.
LogTimingFunction ==
    /\ inHand # None /\ logMutex = "free" /\ inHand' = None
    /\ IF ~logOpen THEN UNCHANGED <<headings, preLogged, file>>
       ELSE IF headings # <<>>
       THEN file' = Append(file, LineOf(headings, inHand)) /\ UNCHANGED <<headings, preLogged>>
       ELSE IF Len(preLogged) < LogPreamble
       THEN preLogged' = Append(preLogged, inHand) /\ UNCHANGED <<headings, file>>
       ELSE /\ headings' = HeadingsOf(preLogged)
            /\ file' = Append(file, HeadingLine(headings'))
                         \o [i \in DOMAIN preLogged |-> LineOf(headings', preLogged[i])]
            /\ preLogged' = <<>>
    /\ UNCHANGED <<logged, mail, service, logMutex, logOpen>>

\* The thread ends when the work is taken from it and nothing is left to do.
ServiceEnds ==
    /\ service = "stopping" /\ inHand = None /\ mail = <<>> /\ service' = "ended"
    /\ UNCHANGED <<logged, mail, inHand, logMutex, logOpen, headings, preLogged, file>>

\* Variant for mutation testing: the service keeps its work.
CloseLog_WorkKept ==
    /\ logMutex = "free" /\ service = "running" /\ logMutex' = "closer"
    /\ UNCHANGED <<logged, mail, service, inHand, logOpen, headings, preLogged, file>>

\* CloseLog, of the destructor: StopService joins the thread under m_LogMutex.
CloseLog ==
    /\ logMutex = "free" /\ service = "running"
    /\ logMutex' = "closer" /\ service' = "stopping"
    /\ UNCHANGED <<logged, mail, inHand, logOpen, headings, preLogged, file>>
CloseEnds ==
    /\ logMutex = "closer" /\ service = "ended"
    /\ logMutex' = "free" /\ logOpen' = FALSE
    /\ UNCHANGED <<logged, mail, service, inHand, headings, preLogged, file>>

LogNext ==
    \/ CreateLog \/ CloseLog \/ CloseEnds
    \/ \E latencies \in LatencyLists : WriteToLog(latencies)
    \/ TakeMail \/ LogTimingFunction \/ ServiceEnds

LogSpec == LogInit /\ [][LogNext]_logVars

-----------------------------------------------------------------------------
\* The columns of a line that are not empty.
Filled(columns) ==
    LET filled[i \in 0 .. Len(columns)] ==
            IF i = 0 THEN <<>>
            ELSE IF columns[i] = Empty THEN filled[i - 1] ELSE Append(filled[i - 1], columns[i])
    IN filled[Len(columns)]

IsHeading(line) == line.number = 0

\* The lines of a preamble are written together, below their heading.
InPreamble(i) == \E p \in DOMAIN file : IsHeading(file[p]) /\ i \in p + 1 .. p + LogPreamble

\* The file has every frame, in order, but for the one that completes a preamble:
\* its place is taken by the heading.  A value stands under its own heading,
\* and a line whose latencies are among the headings has all of them, whatever
\* samples a frame lacks or adds.  A preamble without latencies has no headings
\* and is not the last: another one follows, with a heading of its own.
LogIsFaithful ==
    \A i \in DOMAIN file : ~IsHeading(file[i]) =>
        LET line == file[i]
        IN /\ line.number = IF InPreamble(i) THEN i - 1 ELSE i
           /\ \A k \in DOMAIN line.columns : line.columns[k] \in {Empty, headings[k]}
           /\ Within(line.names, headings) => Filled(line.columns) = line.names

\* CloseLog returns when no item waits for the mutex or in the service.  With
\* one that does, the thread that is joined waits for the mutex, for ever.
CloseReturns == (logMutex = "closer" /\ inHand = None /\ mail = <<>>) ~> (logMutex = "free")

-----------------------------------------------------------------------------
(* The inductive invariant behind LogIsFaithful *)

Items == [number : Nat \ {0}, latencies : LatencyLists]
Columns == LatencyNames \cup {Empty}
Lines == [number : Nat, names : Seq(LatencyNames), columns : Seq(Columns)]

LogTypeOK ==
    /\ logged \in Nat /\ mail \in Seq(Items) /\ inHand \in Items \cup {None}
    /\ preLogged \in Seq(Items) /\ Len(preLogged) <= LogPreamble
    /\ headings \in LatencyLists \cup {<<>>}
    /\ file \in Seq(Lines)

\* The log is open while the service has an item.
OpenWhileInHand ==
    /\ service \in {"running", "stopping"} => logOpen
    /\ inHand # None => service \in {"running", "stopping"}

\* Every frame that was posted has a line, or waits for the headings, is in hand
\* or in the mail, in this order; headings end the wait.
InHandCount == IF inHand = None THEN 0 ELSE 1
FramesKept ==
    /\ Len(file) + Len(preLogged) + InHandCount + Len(mail) = logged
    /\ \A k \in DOMAIN preLogged : preLogged[k].number = Len(file) + k
    /\ inHand # None => inHand.number = Len(file) + Len(preLogged) + 1
    /\ \A k \in DOMAIN mail : mail[k].number = Len(file) + Len(preLogged) + InHandCount + k
    /\ headings # <<>> => preLogged = <<>>

LinesNumbered ==
    \A i \in DOMAIN file :
        IF IsHeading(file[i]) THEN i + LogPreamble <= Len(file)
        ELSE file[i].number = IF InPreamble(i) THEN i - 1 ELSE i

\* A line has the columns for the headings, or was written before there were
\* headings, when no frame had any latencies.
LinesFilled ==
    \A i \in DOMAIN file : ~IsHeading(file[i]) =>
        /\ file[i].names \in LatencyLists
        /\ \/ headings # <<>> /\ file[i].columns = LogLatencies(headings, file[i].names)
           \/ file[i].columns = <<>> /\ file[i].names = <<>>

LogInv == LogTypeOK /\ OpenWhileInHand /\ FramesKept /\ LinesNumbered /\ LinesFilled
=============================================================================
