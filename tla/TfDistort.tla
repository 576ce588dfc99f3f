------------------------------- MODULE TfDistort -------------------------------
(* The tf_distort node: a tf listener's thread queues the poses of one       *)
(* frame, a thread of the node publishes each after a delay, and dynamic     *)
(* reconfiguration changes the delay, the rate and the topic, which stops    *)
(* and starts the publishing thread.                                         *)
(*                                                                           *)
(* Poses are told apart by their stamps; noise and scale are left out.  tfCb *)
(* makes a lock that it does not keep (tf_distort.cpp, scoped_lock with the  *)
(* name of the mutex), so a push may overlap a pop: when the push has to     *)
(* move the queue's blocks it writes back the beginning it has read.         *)
EXTENDS Naturals, Sequences, SequencesExt

CONSTANTS MaxTick,   \* the last stamp, in ticks of the publishing thread's sleep
          Delays,    \* what delay_ may be configured to
          Topics,    \* what tf_frame_out may be
          MaxReconfigurations

ASSUME TfDistortAssumption ==
    {MaxTick, MaxReconfigurations} \subseteq Nat /\ Delays \subseteq Nat

VARIABLES tick,        \* ros::Time::now
          poses,       \* tf_queue_: stamp and time to publish
          push,        \* the pose tfCb pushes, and the queue as it has read it
          lastStamp,   \* last_pub_time_, which is also that of the last new pose
          delay, listening, topic, \* delay_, tf_cb_.connected, config_.tf_frame_out
          publisher,   \* the topic of pose_pub_, "none" when null
          pubThread, pubRunning, \* pub_thread_ and pub_thread_runnning_
          wanted,      \* the topic for which reconfCb stops the thread, "none" outside
          changes,     \* reconfigurations so far
          shown        \* the stamps of the poses that were published

distortVars == << tick, poses, push, lastStamp, delay, listening, topic, publisher,
                  pubThread, pubRunning, wanted, changes, shown >>
threadVars == <<pubThread, pubRunning>>
configVars == <<delay, listening, topic, publisher, wanted, changes>>

NoPush == [stamp |-> 0]
LastTick == MaxTick + 2

\* The constructor is about to run reconfCb for the first time.
DistortInit ==
    /\ tick = 0 /\ poses = <<>> /\ push = NoPush /\ lastStamp = 0
    /\ delay = 0 /\ listening = FALSE /\ topic = "none" /\ publisher = "none"
    /\ pubThread = "none" /\ pubRunning = FALSE
    /\ wanted = "none" /\ changes = 0 /\ shown = {}

PassTick == /\ tick < LastTick /\ tick' = tick + 1
            /\ UNCHANGED <<poses, push, lastStamp, threadVars, configVars, shown>>

\* tfCb: a new pose whose stamp is far enough from the last.
TfCb ==
    /\ listening /\ push = NoPush /\ tick <= MaxTick /\ tick > lastStamp
    /\ lastStamp' = tick
    /\ push' = [stamp |-> tick, due |-> tick + delay, read |-> poses]
    /\ UNCHANGED <<tick, poses, threadVars, configVars, shown>>
Pushed == [stamp |-> push.stamp, due |-> push.due]
PushEnds ==
    /\ push # NoPush /\ push' = NoPush
    /\ poses' \in {Append(poses, Pushed), Append(push.read, Pushed)}
    /\ UNCHANGED <<tick, lastStamp, threadVars, configVars, shown>>

\* Variant for mutation testing: the newest pose is published first.
PubStep_Newest ==
    /\ pubThread = "loop" /\ pubRunning /\ poses # <<>> /\ Last(poses).due <= tick
    /\ shown' = shown \cup {Last(poses).stamp} /\ poses' = Front(poses)
    /\ UNCHANGED <<tick, push, lastStamp, threadVars, configVars>>

\* pubThread: one turn of the loop that finds the front of the queue due.
PubStep ==
    /\ pubThread = "loop" /\ pubRunning /\ poses # <<>> /\ Head(poses).due <= tick
    /\ shown' = shown \cup {Head(poses).stamp} /\ poses' = Tail(poses)
    /\ UNCHANGED <<tick, push, lastStamp, threadVars, configVars>>
PubEnds ==
    /\ pubThread = "loop" /\ ~pubRunning /\ pubThread' = "ended"
    /\ UNCHANGED <<tick, poses, push, lastStamp, pubRunning, configVars, shown>>

\* reconfCb: a new topic stops the thread first, and waits for its end.
ReconfCb(d, publish, out) ==
    /\ wanted = "none" /\ changes < MaxReconfigurations /\ changes' = changes + 1
    /\ delay' = d /\ listening' = publish
    /\ wanted' = IF out # topic THEN out ELSE "none"
    /\ pubRunning' = (pubRunning /\ out = topic)
    /\ UNCHANGED <<tick, poses, push, lastStamp, pubThread, topic, publisher, shown>>

\* Variant for mutation testing: the thread's end is not waited for.
ReconfJoin_NoJoin ==
    /\ wanted # "none"
    /\ publisher' = wanted /\ topic' = wanted /\ wanted' = "none"
    /\ pubThread' = "loop" /\ pubRunning' = TRUE
    /\ UNCHANGED <<tick, poses, push, lastStamp, delay, listening, changes, shown>>

\* join, a new publisher, and startPubThread; the constructor's own call of
\* startPubThread then finds the thread running.
ReconfJoin ==
    /\ wanted # "none" /\ pubThread # "loop"
    /\ publisher' = wanted /\ topic' = wanted /\ wanted' = "none"
    /\ pubThread' = "loop" /\ pubRunning' = TRUE
    /\ UNCHANGED <<tick, poses, push, lastStamp, delay, listening, changes, shown>>

DistortNext ==
    \/ PassTick \/ TfCb \/ PushEnds
    \/ PubStep \/ PubEnds
    \/ \E d \in Delays, publish \in BOOLEAN, out \in Topics : ReconfCb(d, publish, out)
    \/ ReconfJoin

DistortSpec == DistortInit /\ [][DistortNext]_distortVars

-----------------------------------------------------------------------------
\* No pose overtakes another: what still waits to be published for the first
\* time is younger than all that was, when the delay is shortened while poses
\* wait, when the thread is stopped and started, and when an unguarded push
\* brings published poses back.
OrderIsKept ==
    \A s \in shown, i \in DOMAIN poses : poses[i].stamp \notin shown => poses[i].stamp > s

\* Publishing survives a reconfiguration: every queued pose is published whatever
\* is reconfigured meanwhile, the thread that is joined is told to stop and does,
\* and the publisher is replaced only while no thread publishes with it.
ReconfigurationIsSafe ==
    /\ \A s \in 1 .. MaxTick : (lastStamp = s) ~> (s \in shown)
    /\ (wanted # "none") ~> (wanted = "none")
    /\ [][ /\ publisher' # publisher => pubThread # "loop"
           /\ pubThread' = "loop" => publisher' # "none" ]_distortVars

-----------------------------------------------------------------------------
(* The inductive invariant behind OrderIsKept *)

\* A queue whose poses are in order, none of them new behind a published one.
QueueInOrder(queue) ==
    /\ \A i, j \in DOMAIN queue : i < j => queue[i].stamp < queue[j].stamp
    /\ \A s \in shown, i \in DOMAIN queue : queue[i].stamp \notin shown => queue[i].stamp > s

\* While tfCb pushes, the queue as it has read it differs from the queue only by
\* poses that were published since, and the pose that is pushed is the youngest.
PushInv ==
    push # NoPush =>
        /\ push \in [stamp : Nat, due : Nat, read : Seq([stamp : Nat, due : Nat])]
        /\ push.stamp = lastStamp
        /\ \A s \in shown : s < lastStamp
        /\ \A i \in DOMAIN poses : poses[i].stamp < lastStamp
        /\ \A i \in DOMAIN push.read : push.read[i].stamp < lastStamp
        /\ QueueInOrder(push.read)
        /\ \A i \in DOMAIN push.read :
              \/ push.read[i].stamp \in shown
              \/ \E j \in DOMAIN poses : poses[j].stamp = push.read[i].stamp

DistortInv ==
    /\ tick \in Nat /\ lastStamp \in Nat /\ delay \in Nat
    /\ shown \subseteq 0 .. lastStamp
    /\ poses \in Seq([stamp : Nat, due : Nat])
    /\ \A i \in DOMAIN poses : poses[i].stamp <= lastStamp
    /\ QueueInOrder(poses)
    /\ PushInv
=============================================================================
