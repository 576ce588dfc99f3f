------------------------------ MODULE FrameFeed ------------------------------
(***************************************************************************)
(* What a client of the Vicon data stream relies on: frames are handed out *)
(* in the order of their numbers, each of them once at most.  Frames may   *)
(* be left out: the feed may refuse one, and it may forget the oldest ones *)
(* to make room.  Where the frames come from, and over how many routes, is *)
(* not said here; CGClient is shown to implement this specification.       *)
(***************************************************************************)
EXTENDS Integers, Sequences

CONSTANT Samples    \* what the feed carries: records with a field frame

\* What the theorems about the feed assume of the samples.
Numbered == \A s \in Samples : s.frame \in Nat

VARIABLES
  queue,    \* the samples that wait for a caller, oldest first
  newest,   \* the highest number that has entered the feed, -1 for none
  seen      \* the number that was handed out last, -1 for none

vars == <<queue, newest, seen>>

\* The last elements of q, from the n-th on.
From(q, n) == SubSeq(q, n, Len(q))

Init ==
  /\ queue = <<>>
  /\ newest = -1
  /\ seen = -1

\* A sample newer than all before enters; any number of old ones give way.
Enter(s) ==
  /\ s.frame > newest
  /\ newest' = s.frame
  /\ \E n \in 1 .. Len(queue) + 2 : queue' = From(Append(queue, s), n)
  /\ UNCHANGED seen

\* The oldest n samples are handed to a caller.
HandOut(n) ==
  /\ seen' = queue[n].frame
  /\ queue' = From(queue, n + 1)
  /\ UNCHANGED newest

\* The oldest n samples are dropped.
Forget(n) ==
  /\ queue' = From(queue, n + 1)
  /\ UNCHANGED <<newest, seen>>

Next ==
  \/ \E s \in Samples : Enter(s)
  \/ \E n \in 1 .. Len(queue) : HandOut(n) \/ Forget(n)

Spec == Init /\ [][Next]_vars

TypeOK ==
  /\ queue \in Seq(Samples)
  /\ newest \in Nat \cup {-1}
  /\ seen \in Nat \cup {-1}

\* The waiting samples are in strictly increasing order, newer than what has
\* been handed out and not newer than what has entered: whoever takes them
\* from the front never sees a frame twice and never steps back in time.
InOrder ==
  /\ \A i, j \in 1 .. Len(queue) : i < j => queue[i].frame < queue[j].frame
  /\ \A i \in 1 .. Len(queue) : seen < queue[i].frame /\ queue[i].frame <= newest
  /\ seen <= newest

\* No caller is handed a frame that is not newer than all those handed out
\* before, whichever thread of the client calls.
NeverBack == [][seen' >= seen]_vars

=============================================================================
