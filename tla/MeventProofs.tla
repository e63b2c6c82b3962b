---------------------------- MODULE MeventProofs ----------------------------
(***************************************************************************)
(* The safety of the daemon, for any plugins, number of messages, faults,  *)
(* limit and step.                                                         *)
(*                                                                         *)
(* The types need that a message being handled has a plugin (TargetOK);    *)
(* the bound of the queues needs what the network thread learned in its    *)
(* busy test and no variable records (Room).                               *)
(*                                                                         *)
(* The order of service, the wakeups, the draining of the queues and the   *)
(* one reply speak of requests by their numbers.  What they need besides   *)
(* each other is that a queue holds requests the network thread is done    *)
(* with only (Numbers), so that the one it is about to insert is newer     *)
(* than all of them and newer than what any worker has seen.  The one      *)
(* reply also needs that no request is in two places (Once), and that a    *)
(* worker takes the next request with empty hands (HandsFree).             *)
(***************************************************************************)
EXTENDS Mevent, TLAPS

NetBusy == NetLoop \ {"event_loop"}

(* While the network thread handles a message there is one, and a plugin   *)
(* it is for.                                                              *)
TargetOK == npc \in NetBusy => target \in Plugins /\ last \in Reqs

Typed == TypeOK /\ TargetOK

(* A reply to t was sent, or withheld by a passive server.                 *)
Told(t) == Sent(t) \/ Withheld(t)

ReplyTypes == replies \in [Reqs -> Nat] /\ torn \subseteq Reqs /\ unsaid \subseteq Reqs

(* Every reply tells its request something, or the daemon dies of it.      *)
LEMMA ReplyEnds ==
  ASSUME NEW r, NEW pc, Reply(r, pc) \/ reply_trigger(r, pc)
  PROVE  \/ npc' = "crashed" /\ UNCHANGED replyVars
         \/ npc' = pc /\ Told(r)
BY DEF Reply, reply_trigger, Dies, Told

(* The same where only a synchronous request is answered.                  *)
LEMMA ReplyIfSyncEnds ==
  ASSUME NEW r, NEW pc, ReplyIfSync(r, pc)
  PROVE  \/ npc' = "crashed" /\ UNCHANGED replyVars
         \/ npc' = pc /\ Told(r)
         \/ npc' = pc /\ r \notin syncs /\ UNCHANGED replyVars
BY ReplyEnds DEF ReplyIfSync

(* A reply adds to a count, whoever sends it.                              *)
LEMMA ToldType ==
  ASSUME TypeOK, NEW r \in Reqs, Told(r) \/ UNCHANGED replyVars
  PROVE  ReplyTypes'
<1> USE DEF TypeOK, ReplyTypes
<1>1. CASE Sent(r)
  <2>1. replies' = [x \in Reqs |-> IF x = r THEN replies[x] + 1 ELSE replies[x]]
    BY <1>1 DEF Sent
  <2>2. \A x \in Reqs : replies[x] \in Nat /\ replies[x] + 1 \in Nat
    OBVIOUS
  <2>3. replies' \in [Reqs -> Nat]
    BY <2>1, <2>2
  <2>4. torn' \subseteq Reqs /\ unsaid' \subseteq Reqs
    BY <1>1 DEF Sent
  <2> QED
    BY <2>3, <2>4
<1>2. CASE Withheld(r)
  BY <1>2 DEF Withheld
<1>3. CASE UNCHANGED replyVars
  BY <1>3 DEF replyVars
<1> QED
  BY <1>1, <1>2, <1>3 DEF Told

(* Where the steps that reply leave the network thread, and what they do   *)
(* to the replies.                                                         *)
LEMMA RefusedEnds ==
  ASSUME NEW sync, \/ parse_message_refused \/ parse_event_refused(sync)
                   \/ parse_stats(sync) \/ parse_stats_fails(sync)
  PROVE  /\ npc = "event_loop" /\ last' = last + 1
         /\ \/ npc' = "crashed" /\ UNCHANGED replyVars
            \/ npc' = "event_loop" /\ Told(last + 1)
            \/ npc' = "event_loop" /\ sync = {} /\ syncs' = syncs \cup sync
                                   /\ UNCHANGED replyVars
<1>1. CASE parse_message_refused
  BY <1>1, ReplyEnds DEF parse_message_refused, Arrives
<1>2. CASE parse_event_refused(sync)
  BY <1>2, ReplyEnds DEF parse_event_refused, Arrives
<1>3. CASE parse_stats(sync)
  BY <1>3, ReplyEnds DEF parse_stats, Arrives
<1>4. CASE parse_stats_fails(sync)
  BY <1>4, ReplyEnds DEF parse_stats_fails, Arrives, Dies
<1> QED
  BY <1>1, <1>2, <1>3, <1>4

(* The request is given up: the plugin is busy or there is no memory.      *)
LEMMA GivenUpEnds ==
  ASSUME size_is_step \/ make_queue_long_entry_fails
  PROVE  /\ npc \in {"mod", "make"} /\ last' = last /\ syncs' = syncs
         /\ \/ npc' = "crashed" /\ UNCHANGED replyVars
            \/ npc' = "make" /\ target' = target /\ UNCHANGED replyVars
            \/ npc' = "event_loop" /\ Told(last)
            \/ npc' = "event_loop" /\ last \notin syncs /\ UNCHANGED replyVars
<1>1. CASE size_is_step
  BY <1>1, ReplyIfSyncEnds DEF size_is_step, ReturnReplying
<1>2. CASE make_queue_long_entry_fails
  BY <1>2, ReplyIfSyncEnds DEF make_queue_long_entry_fails, ReturnReplying, Dies
<1> QED
  BY <1>1, <1>2

(* A plugin is done with a request.                                        *)
LEMMA ProcessEnds ==
  ASSUME NEW p, process_driver(p)
  PROVE  \/ npc' = "crashed" /\ UNCHANGED replyVars
         \/ npc' = npc /\ Told(current[p])
         \/ npc' = npc /\ current[p] \notin syncs /\ UNCHANGED replyVars
BY ReplyEnds DEF process_driver

(* Taking the head of a plugin's queue, or putting a request at either     *)
(* end, leaves a queue of requests.                                        *)
LEMMA QueueType ==
  ASSUME NEW q \in Seq(Reqs), NEW r \in Reqs
  PROVE  /\ queue_put(q, r) \in Seq(Reqs)
         /\ queue_cas(q, r) \in Seq(Reqs)
         /\ q # <<>> => Head(q) \in Reqs /\ Tail(q) \in Seq(Reqs)
BY DEF queue_put, queue_cas

(* Every variable of the daemon keeps its type.                            *)
LEMMA TypeStep == Typed /\ [Next]_vars => Typed'
<1> SUFFICES ASSUME Typed, [Next]_vars PROVE Typed'
  OBVIOUS
<1> USE PluginAssumption, BoundAssumption
<1> USE DEF Typed, TargetOK, netVars, workerVars, NetLoop, NetStop, NetHas, NetHolds,
            WorkerHolds, WorkerPcs, NetBusy, replyVars
<1>b. ASSUME Arrives PROVE last' \in Reqs /\ last' \in 0..MaxReq
  BY <1>b DEF Arrives, TypeOK, Reqs
<1>1. CASE parse_message_refused
  <2>1. ReplyTypes'
    BY <1>1, <1>b, RefusedEnds, ToldType DEF parse_message_refused
  <2>2. npc' \in {"event_loop", "crashed"}
    BY <1>1, RefusedEnds
  <2> QED
    BY <1>1, <2>1, <2>2, <1>b DEF parse_message_refused, TypeOK, ReplyTypes
<1>2. ASSUME NEW sync \in {{}, {last + 1}}, parse_event_refused(sync) PROVE Typed'
  <2>0. Arrives /\ last' = last + 1 /\ syncs' = syncs \cup sync
    BY <1>2 DEF parse_event_refused, Arrives
  <2>1. ReplyTypes'
    BY <1>2, <2>0, <1>b, RefusedEnds, ToldType
  <2>2. npc' \in {"event_loop", "crashed"}
    BY <1>2, RefusedEnds
  <2> QED
    BY <1>2, <2>0, <2>1, <2>2, <1>b DEF parse_event_refused, TypeOK, ReplyTypes
<1>3. ASSUME NEW sync \in {{}, {last + 1}}, parse_stats(sync) PROVE Typed'
  <2>0. Arrives /\ last' = last + 1 /\ syncs' = syncs \cup sync
    BY <1>3 DEF parse_stats, Arrives
  <2>1. ReplyTypes'
    BY <1>3, <2>0, <1>b, RefusedEnds, ToldType
  <2>2. npc' \in {"event_loop", "crashed"}
    BY <1>3, RefusedEnds
  <2> QED
    BY <1>3, <2>0, <2>1, <2>2, <1>b DEF parse_stats, TypeOK, ReplyTypes
<1>3a. ASSUME NEW sync \in {{}, {last + 1}}, parse_stats_fails(sync) PROVE Typed'
  <2>0. Arrives /\ last' = last + 1 /\ syncs' = syncs \cup sync
    BY <1>3a DEF parse_stats_fails, Arrives
  <2>1. ReplyTypes'
    BY <1>3a, <2>0, <1>b, RefusedEnds, ToldType
  <2>2. npc' \in {"event_loop", "crashed"}
    BY <1>3a, RefusedEnds
  <2> QED
    BY <1>3a, <2>0, <2>1, <2>2, <1>b DEF parse_stats_fails, TypeOK, ReplyTypes
<1>4. ASSUME NEW sync \in {{}, {last + 1}}, NEW p \in Plugins, parse_event(p, sync)
      PROVE  Typed'
  BY <1>4, <1>b DEF parse_event, Arrives, TypeOK
<1>5. CASE size_over_max
  BY <1>5 DEF size_over_max, TypeOK
<1>6. CASE size_is_step
  <2>0. last \in Reqs /\ last' = last
    BY <1>6 DEF size_is_step
  <2>1. ReplyTypes'
    BY <1>6, <2>0, GivenUpEnds, ToldType
  <2>2. npc' \in {"event_loop", "make", "crashed"} /\ target' \in {target, NoPlugin}
        /\ (npc' = "make" => target' = target)
    BY <1>6, GivenUpEnds DEF size_is_step, ReturnReplying
  <2> QED
    BY <1>6, <2>0, <2>1, <2>2 DEF size_is_step, TypeOK, ReplyTypes
<1>7. CASE make_queue_long_entry
  BY <1>7 DEF make_queue_long_entry, TypeOK
<1>8. CASE make_queue_long_entry_fails
  <2>0. last \in Reqs /\ last' = last
    BY <1>8 DEF make_queue_long_entry_fails
  <2>1. ReplyTypes'
    BY <1>8, <2>0, GivenUpEnds, ToldType
  <2>2. npc' \in {"event_loop", "make", "crashed"} /\ target' \in {target, NoPlugin}
        /\ (npc' = "make" => target' = target)
    BY <1>8, GivenUpEnds DEF make_queue_long_entry_fails, ReturnReplying
  <2> QED
    BY <1>8, <2>0, <2>1, <2>2 DEF make_queue_long_entry_fails, TypeOK, ReplyTypes
<1>9. CASE queue_lock
  BY <1>9 DEF queue_lock, TypeOK
<1>10. CASE put_in_queue
  <2>1. queue[target] \in Seq(Reqs) /\ last \in Reqs
    BY <1>10 DEF put_in_queue, TypeOK
  <2>2. queue' \in [Plugins -> Seq(Reqs)]
    BY <1>10, <2>1, QueueType DEF put_in_queue, TypeOK
  <2> QED
    BY <1>10, <2>2 DEF put_in_queue, TypeOK
<1>11. CASE queue_unlock
  BY <1>11 DEF queue_unlock, Return, TypeOK
<1>12. CASE queue_signal
  BY <1>12 DEF queue_signal, Return, TypeOK
<1>13. CASE Signals
  BY <1>13 DEF Signals, passive_to_active_sighandler, exit_sighandler, TypeOK
<1>14. CASE Stop
  <2>1. ASSUME NEW p \in Plugins, raise_loop_should_stop(p) \/ stop_driver(p)
        PROVE  Typed'
    BY <2>1 DEF raise_loop_should_stop, stop_driver, TypeOK
  <2>2. ASSUME NEW p \in Plugins, join_and_queue_free(p) PROVE Typed'
    <3>1. <<>> \in Seq(Reqs)
      OBVIOUS
    <3>2. queue' \in [Plugins -> Seq(Reqs)]
      BY <2>2, <3>1 DEF join_and_queue_free, TypeOK
    <3> QED
      BY <2>2, <3>2 DEF join_and_queue_free, TypeOK
  <2>3. CASE mevent_stop_returns
    BY <2>3 DEF mevent_stop_returns, TypeOK
  <2> QED
    BY <1>14, <2>1, <2>2, <2>3 DEF Stop
<1>15. ASSUME NEW p \in Plugins, WorkerStep(p) PROVE Typed'
  <2>1. CASE queue_get(p)
    <3>1. queue[p] \in Seq(Reqs)
      BY DEF TypeOK
    <3>2. queue[p] # <<>> => Head(queue[p]) \in Reqs /\ Tail(queue[p]) \in Seq(Reqs)
      BY <3>1
    <3>3. queue' \in [Plugins -> Seq(Reqs)] /\ current' \in [Plugins -> Reqs \cup {0}]
      <4>1. CASE queue[p] = <<>>
        BY <2>1, <4>1 DEF queue_get, TypeOK
      <4>2. CASE queue[p] # <<>>
        <5>1. /\ queue' = [queue EXCEPT ![p] = Tail(queue[p])]
              /\ current' = [current EXCEPT ![p] = Head(queue[p])]
          BY <2>1, <4>2 DEF queue_get
        <5> QED
          BY <5>1, <4>2, <3>2 DEF TypeOK
      <4> QED
        BY <4>1, <4>2
    <3>4. Handled \in 0..MaxReq
      BY DEF Handled, TypeOK, Reqs
    <3>5. seen' \in [Plugins -> 0..MaxReq]
      BY <2>1, <3>4 DEF queue_get, TypeOK
    <3> QED
      BY <2>1, <3>3, <3>5 DEF queue_get, TypeOK
  <2>2. CASE process_driver(p)
    <3>0. ASSUME Told(current[p]) PROVE ReplyTypes'
      <4>1. CASE current[p] \in Reqs
        BY <3>0, <4>1, ToldType
      <4>2. CASE current[p] \notin Reqs
        <5>1. current[p] \notin syncs
          BY <4>2 DEF TypeOK
        <5> QED
          BY <2>2, <5>1 DEF process_driver, replyVars, ReplyTypes, TypeOK
      <4> QED
        BY <4>1, <4>2
    <3>1. ReplyTypes'
      BY <2>2, <3>0, ProcessEnds DEF replyVars, ReplyTypes, TypeOK
    <3>2. npc' \in {npc, "crashed"}
      BY <2>2, ProcessEnds
    <3>3. UNCHANGED <<last, target, syncs, mode, queue, lock, driver, seen>>
      BY <2>2 DEF process_driver
    <3>4. current' \in [Plugins -> Reqs \cup {0}] /\ wpc' \in [Plugins -> WorkerPcs]
      BY <2>2 DEF process_driver, TypeOK
    <3> QED
      BY <3>1, <3>2, <3>3, <3>4 DEF ReplyTypes, TypeOK
  <2>3. CASE process_driver_dies(p)
    BY <2>3 DEF process_driver_dies, Dies, TypeOK
  <2>4. CASE worker_lock(p) \/ queue_timedwait(p) \/ queue_timedwait_fails(p)
    BY <2>4 DEF worker_lock, queue_timedwait, queue_timedwait_fails, TypeOK
  <2>5. CASE timedwait_timeout(p) \/ timedwait_spurious(p) \/ timedwait_relocks(p)
    BY <2>5 DEF timedwait_timeout, timedwait_spurious, timedwait_relocks, TypeOK
  <2>6. CASE worker_unlock(p) \/ test_entry(p)
    BY <2>6 DEF worker_unlock, test_entry, TypeOK
  <2> QED
    BY <1>15, <2>1, <2>2, <2>3, <2>4, <2>5, <2>6 DEF WorkerStep
<1>16. CASE UNCHANGED vars
  BY <1>16 DEF vars, TypeOK
<1> QED
  BY <1>1, <1>2, <1>3, <1>3a, <1>4, <1>5, <1>6, <1>7, <1>8, <1>9, <1>10, <1>11, <1>12,
     <1>13, <1>14, <1>15, <1>16 DEF Next, Net, Worker, Dead

(* The daemon starts typed.                                                *)
LEMMA InitTyped == Init => Typed
BY PluginAssumption, BoundAssumption
   DEF Init, Typed, TargetOK, TypeOK, NetLoop, NetBusy, WorkerPcs, Reqs

(* The daemon of any number of plugins and messages keeps its types.       *)
THEOREM TypeCorrect == Spec => []TypeOK
BY InitTyped, TypeStep, PTL DEF Spec, Typed

-----------------------------------------------------------------------------
(* MutualExclusion is inductive over the typed states: an unlock, or the   *)
(* release by the wait, is done by the thread the mutex belongs to.        *)
LEMMA LockStep == Typed /\ MutualExclusion /\ [Next]_vars => MutualExclusion'
<1> SUFFICES ASSUME Typed, MutualExclusion, [Next]_vars PROVE MutualExclusion'
  OBVIOUS
<1> USE DEF MutualExclusion, Typed, TargetOK, netVars, workerVars, NetHolds, NetBusy,
            NetLoop, WorkerHolds
<1>1. CASE parse_message_refused
  BY <1>1, RefusedEnds DEF parse_message_refused
<1>2. ASSUME NEW sync, \/ parse_event_refused(sync)
                       \/ parse_stats(sync) \/ parse_stats_fails(sync)
      PROVE  MutualExclusion'
  BY <1>2, RefusedEnds DEF parse_event_refused, parse_stats, parse_stats_fails
<1>3. ASSUME NEW sync, NEW p \in Plugins, parse_event(p, sync) PROVE MutualExclusion'
  BY <1>3 DEF parse_event
<1>4. CASE size_over_max \/ make_queue_long_entry
  BY <1>4 DEF size_over_max, make_queue_long_entry
<1>5. CASE size_is_step
  BY <1>5, GivenUpEnds DEF size_is_step
<1>6. CASE make_queue_long_entry_fails
  BY <1>6, GivenUpEnds DEF make_queue_long_entry_fails
<1>7. CASE queue_lock
  BY <1>7 DEF queue_lock, TypeOK
<1>8. CASE put_in_queue
  BY <1>8 DEF put_in_queue
<1>9. CASE queue_unlock
  BY <1>9 DEF queue_unlock, Return, TypeOK
<1>10. CASE queue_signal
  BY <1>10 DEF queue_signal, Return, TypeOK
<1>11. CASE Signals
  BY <1>11 DEF Signals, passive_to_active_sighandler, exit_sighandler
<1>12. CASE Stop
  BY <1>12 DEF Stop, raise_loop_should_stop, stop_driver, join_and_queue_free,
               mevent_stop_returns
<1>13. ASSUME NEW p \in Plugins, WorkerStep(p) PROVE MutualExclusion'
  <2>1. CASE worker_lock(p)
    BY <2>1 DEF worker_lock, TypeOK
  <2>2. CASE queue_timedwait(p)
    BY <2>2 DEF queue_timedwait, TypeOK
  <2>3. CASE queue_timedwait_fails(p)
    BY <2>3 DEF queue_timedwait_fails, TypeOK
  <2>4. CASE timedwait_timeout(p) \/ timedwait_spurious(p)
    BY <2>4 DEF timedwait_timeout, timedwait_spurious, TypeOK
  <2>5. CASE timedwait_relocks(p)
    BY <2>5 DEF timedwait_relocks, TypeOK
  <2>6. CASE queue_get(p)
    BY <2>6 DEF queue_get, TypeOK
  <2>7. CASE worker_unlock(p)
    BY <2>7 DEF worker_unlock, TypeOK
  <2>8. CASE test_entry(p)
    BY <2>8 DEF test_entry, TypeOK
  <2>9. CASE process_driver(p)
    BY <2>9, ProcessEnds DEF process_driver, TypeOK
  <2>10. CASE process_driver_dies(p)
    BY <2>10 DEF process_driver_dies, Dies
  <2> QED
    BY <1>13, <2>1, <2>2, <2>3, <2>4, <2>5, <2>6, <2>7, <2>8, <2>9, <2>10
       DEF WorkerStep
<1>14. CASE UNCHANGED vars
  BY <1>14 DEF vars
<1> QED
  BY <1>1, <1>2, <1>3, <1>4, <1>5, <1>6, <1>7, <1>8, <1>9, <1>10, <1>11, <1>12,
     <1>13, <1>14 DEF Next, Net, Worker, Dead

(* For any number of plugins, no queue is touched by two threads at once.  *)
THEOREM MutualExclusionHolds == Spec => []MutualExclusion
<1>1. Init => MutualExclusion
  BY DEF Init, MutualExclusion, WorkerHolds, NetHolds
<1> QED
  BY <1>1, InitTyped, TypeStep, LockStep, PTL DEF Spec

-----------------------------------------------------------------------------
(* What queue_put, queue_cas and queue_get do to the entries of a queue.   *)
LEMMA QueueOps ==
  ASSUME NEW q \in Seq(Reqs), NEW r \in Reqs
  PROVE  /\ Len(queue_put(q, r)) = Len(q) + 1
         /\ \A i \in 1..(Len(q) + 1) :
              queue_put(q, r)[i] = IF i = Len(q) + 1 THEN r ELSE q[i]
         /\ Len(queue_cas(q, r)) = Len(q) + 1
         /\ \A i \in 1..(Len(q) + 1) :
              queue_cas(q, r)[i] = IF i = 1 THEN r ELSE q[i - 1]
BY DEF queue_put, queue_cas

(* What is left when the head is taken.                                    *)
LEMMA QueueTail ==
  ASSUME NEW q \in Seq(Reqs), q # <<>>
  PROVE  /\ Len(q) >= 1 /\ Len(Tail(q)) = Len(q) - 1
         /\ Head(q) = q[1]
         /\ \A i \in 1..(Len(q) - 1) : Tail(q)[i] = q[i + 1]
OBVIOUS

(* The two steps that change a queue, entry by entry.                      *)
LEMMA PutEffect ==
  ASSUME Typed, put_in_queue
  PROVE  /\ target \in Plugins /\ last \in Reqs
         /\ \A p \in Plugins \ {target} : queue'[p] = queue[p]
         /\ Len(queue'[target]) = Len(queue[target]) + 1
         /\ last \in syncs =>
              \A i \in 1..Len(queue'[target]) :
                queue'[target][i] = IF i = 1 THEN last ELSE queue[target][i - 1]
         /\ last \notin syncs =>
              \A i \in 1..Len(queue'[target]) :
                queue'[target][i] = IF i = Len(queue[target]) + 1 THEN last
                                    ELSE queue[target][i]
<1>1. target \in Plugins /\ last \in Reqs /\ queue[target] \in Seq(Reqs)
  BY DEF put_in_queue, Typed, TargetOK, TypeOK, NetBusy, NetLoop
<1>2. /\ \A p \in Plugins \ {target} : queue'[p] = queue[p]
      /\ queue'[target] = IF last \in syncs THEN queue_cas(queue[target], last)
                                            ELSE queue_put(queue[target], last)
  BY <1>1 DEF put_in_queue, Typed, TypeOK
<1> QED
  BY <1>1, <1>2, QueueOps

(* The worker takes the head of its queue, if there is one.                *)
LEMMA GetEffect ==
  ASSUME Typed, NEW p \in Plugins, queue_get(p)
  PROVE  /\ \A o \in Plugins \ {p} : queue'[o] = queue[o] /\ current'[o] = current[o]
         /\ queue[p] = <<>> => queue'[p] = queue[p] /\ current'[p] = 0
         /\ queue[p] # <<>> =>
              /\ Len(queue[p]) >= 1
              /\ current'[p] = queue[p][1]
              /\ Len(queue'[p]) = Len(queue[p]) - 1
              /\ \A i \in 1..Len(queue'[p]) : queue'[p][i] = queue[p][i + 1]
<1>1. queue[p] \in Seq(Reqs)
  BY DEF Typed, TypeOK
<1>2. CASE queue[p] = <<>>
  BY <1>2 DEF queue_get, Typed, TypeOK
<1>3. CASE queue[p] # <<>>
  <2>1. /\ queue' = [queue EXCEPT ![p] = Tail(queue[p])]
        /\ current' = [current EXCEPT ![p] = Head(queue[p])]
    BY <1>3 DEF queue_get
  <2>2. /\ \A o \in Plugins \ {p} : queue'[o] = queue[o] /\ current'[o] = current[o]
        /\ queue'[p] = Tail(queue[p]) /\ current'[p] = Head(queue[p])
    BY <2>1 DEF Typed, TypeOK
  <2> QED
    BY <1>1, <1>3, <2>2, QueueTail
<1> QED
  BY <1>2, <1>3

-----------------------------------------------------------------------------
(* QueueBounded needs the room that the busy test has found: past it, and  *)
(* until the insertion, the target's queue is shorter than the cap.  The   *)
(* first read finds it within MAX_QUEUE_ENTRY, or the second one finds a   *)
(* size that is no multiple of 100, hence not the cap; the worker can only *)
(* make it shorter.                                                        *)
Room == npc \in {"make", "lock", "put"} => Len(queue[target]) < QUEUE_CAP

(* Every step keeps the bound and the room.                                *)
LEMMA BoundStep ==
  Typed /\ QueueBounded /\ Room /\ [Next]_vars => (QueueBounded /\ Room)'
<1> SUFFICES ASSUME Typed, QueueBounded, Room, [Next]_vars
             PROVE  QueueBounded' /\ Room'
  OBVIOUS
<1> USE BusyAssumption
<1> USE DEF QueueBounded, Room, netVars, workerVars
<1>0. \A p \in Plugins : Len(queue[p]) \in Nat
  BY DEF Typed, TypeOK
<1>t. npc \in NetBusy => target \in Plugins
  BY DEF Typed, TargetOK
<1>1. CASE parse_message_refused
  BY <1>1, RefusedEnds DEF parse_message_refused
<1>2. ASSUME NEW sync, \/ parse_event_refused(sync)
                       \/ parse_stats(sync) \/ parse_stats_fails(sync)
      PROVE  QueueBounded' /\ Room'
  BY <1>2, RefusedEnds DEF parse_event_refused, parse_stats, parse_stats_fails
<1>3. ASSUME NEW sync, NEW p \in Plugins, parse_event(p, sync)
      PROVE  QueueBounded' /\ Room'
  BY <1>3 DEF parse_event
<1>4. CASE size_over_max
  BY <1>4, <1>0, <1>t DEF size_over_max, NetBusy, NetLoop
<1>5. CASE size_is_step
  <2>1. target \in Plugins /\ Len(queue[target]) <= QUEUE_CAP
    BY <1>5, <1>t DEF size_is_step, NetBusy, NetLoop
  <2>2. queue' = queue
    BY <1>5 DEF size_is_step
  <2>3. CASE Len(queue[target]) = QUEUE_CAP
    <3>1. Len(queue[target]) % BUSY_STEP = 0
      BY <2>3
    <3> QED
      BY <1>5, <2>2, <3>1, ReplyIfSyncEnds DEF size_is_step, ReturnReplying
  <2>4. CASE Len(queue[target]) # QUEUE_CAP
    <3>1. npc' \in {"event_loop", "crashed"} \/ (npc' = "make" /\ target' = target)
      BY <1>5, GivenUpEnds
    <3>2. Len(queue[target]) < QUEUE_CAP
      BY <2>1, <2>4, <1>0
    <3> QED
      BY <2>2, <3>1, <3>2
  <2> QED
    BY <2>3, <2>4
<1>6. CASE make_queue_long_entry \/ queue_lock
  BY <1>6 DEF make_queue_long_entry, queue_lock
<1>6a. CASE make_queue_long_entry_fails
  BY <1>6a, ReplyIfSyncEnds DEF make_queue_long_entry_fails, ReturnReplying, Dies
<1>7. CASE put_in_queue
  BY <1>7, <1>0, PutEffect DEF put_in_queue
<1>8. CASE queue_unlock \/ queue_signal
  BY <1>8 DEF queue_unlock, queue_signal, Return
<1>9. CASE Signals
  BY <1>9 DEF Signals, passive_to_active_sighandler, exit_sighandler
<1>10. ASSUME NEW p \in Plugins, raise_loop_should_stop(p) \/ stop_driver(p)
       PROVE  QueueBounded' /\ Room'
  BY <1>10 DEF raise_loop_should_stop, stop_driver
<1>11. ASSUME NEW p \in Plugins, join_and_queue_free(p) PROVE QueueBounded' /\ Room'
  <2>1. \A o \in Plugins : queue'[o] = queue[o] \/ queue'[o] = <<>>
    BY <1>11 DEF join_and_queue_free, Typed, TypeOK
  <2> QED
    BY <1>11, <2>1 DEF join_and_queue_free
<1>12. CASE mevent_stop_returns
  BY <1>12 DEF mevent_stop_returns
<1>13. ASSUME NEW p \in Plugins, WorkerStep(p) PROVE QueueBounded' /\ Room'
  <2>1. CASE queue_get(p)
    <3>1. \A o \in Plugins : Len(queue'[o]) <= Len(queue[o]) /\ Len(queue'[o]) \in Nat
      <4>1. queue' \in [Plugins -> Seq(Reqs)]
        BY TypeStep DEF Typed, TypeOK
      <4> QED
        BY <2>1, <1>0, <4>1, GetEffect
    <3>2. npc' = npc /\ target' = target
      BY <2>1 DEF queue_get
    <3> QED
      BY <3>1, <3>2, <1>0, <1>t DEF NetBusy, NetLoop
  <2>2. CASE worker_lock(p) \/ queue_timedwait(p) \/ queue_timedwait_fails(p)
    BY <2>2 DEF worker_lock, queue_timedwait, queue_timedwait_fails
  <2>3. CASE timedwait_timeout(p) \/ timedwait_spurious(p) \/ timedwait_relocks(p)
    BY <2>3 DEF timedwait_timeout, timedwait_spurious, timedwait_relocks
  <2>4. CASE worker_unlock(p) \/ test_entry(p)
    BY <2>4 DEF worker_unlock, test_entry
  <2>5. CASE process_driver(p) \/ process_driver_dies(p)
    BY <2>5, ProcessEnds DEF process_driver, process_driver_dies, Dies
  <2> QED
    BY <1>13, <2>1, <2>2, <2>3, <2>4, <2>5 DEF WorkerStep
<1>14. CASE UNCHANGED vars
  BY <1>14 DEF vars
<1> QED
  BY <1>1, <1>2, <1>3, <1>4, <1>5, <1>6, <1>6a, <1>7, <1>8, <1>9, <1>10, <1>11, <1>12,
     <1>13, <1>14 DEF Next, Net, Stop, Worker, Dead

(* For any limit and any step of the busy test, a queue never outgrows any *)
(* multiple of the step above the limit, although the test reads the size  *)
(* without the lock, twice, and lets most sizes above the limit pass.      *)
THEOREM QueueBoundedHolds == Spec => []QueueBounded
<1>1. Init => QueueBounded /\ Room
  BY BusyAssumption DEF Init, QueueBounded, Room
<1> QED
  BY <1>1, InitTyped, TypeStep, BoundStep, PTL DEF Spec

-----------------------------------------------------------------------------
(* The order of service                                                    *)

(* A queue holds requests that the network thread is done with.            *)
Numbers == \A p \in Plugins : \A i \in 1..Len(queue[p]) : queue[p][i] <= Handled

-----------------------------------------------------------------------------
(* Messages are numbered in order of arrival: the number of the last one   *)
(* handled never goes back, and the flag of a message that has arrived     *)
(* never changes.                                                          *)
LEMMA Monotone ==
  ASSUME Typed, [Next]_vars
  PROVE  /\ Handled \in Nat /\ Handled' \in Nat /\ last \in Nat /\ last' \in Nat
         /\ Handled <= Handled' /\ Handled <= last /\ Handled' <= last'
         /\ last <= last'
         /\ \A r \in 1..last : r \in syncs' <=> r \in syncs
         /\ \A r \in syncs' : r \in syncs \/ r = last'
<1> USE BoundAssumption DEF netVars, workerVars, NetHas, NetBusy, NetLoop, NetStop
<1>1. Typed'
  BY TypeStep
<1>2. last \in Nat /\ last' \in Nat /\ Handled \in Nat /\ Handled' \in Nat
      /\ Handled <= last /\ Handled' <= last'
  <2>1. last \in Nat /\ (npc \in NetHas => last >= 1)
    BY DEF Typed, TypeOK, TargetOK, Reqs
  <2>2. last' \in Nat /\ (npc' \in NetHas => last' >= 1)
    BY <1>1 DEF Typed, TypeOK, TargetOK, Reqs
  <2>3. \A n \in Nat : n >= 1 => n - 1 \in Nat /\ n - 1 <= n
    OBVIOUS
  <2>4. \A n \in Nat : n <= n
    OBVIOUS
  <2>5. Handled \in Nat /\ Handled <= last
    BY <2>1, <2>3, <2>4 DEF Handled
  <2>6. Handled' \in Nat /\ Handled' <= last'
    <3>1. CASE npc' \in NetHas
      <4>1. Handled' = last' - 1
        BY <3>1, Zenon DEF Handled
      <4> QED
        BY <4>1, <3>1, <2>2, <2>3, Zenon
    <3>2. CASE npc' \notin NetHas
      <4>1. Handled' = last'
        BY <3>2, Zenon DEF Handled
      <4> QED
        BY <4>1, <2>2, <2>4, Zenon
    <3> QED
      BY <3>1, <3>2
  <2> QED
    BY <2>1, <2>2, <2>5, <2>6
<1>h. ASSUME last' = last, syncs' = syncs, npc \in NetHas \/ npc' \notin NetHas
      PROVE  /\ Handled <= Handled' /\ last <= last'
             /\ \A r \in 1..last : r \in syncs' <=> r \in syncs
             /\ \A r \in syncs' : r \in syncs \/ r = last'
  BY <1>2, <1>h DEF Handled
<1>3. CASE parse_message_refused
  <2>1. Arrives /\ syncs' = syncs
    BY <1>3 DEF parse_message_refused
  <2> QED
    BY <1>2, <2>1 DEF Arrives, Handled
<1>4. ASSUME NEW sync \in {{}, {last + 1}}, Arrives, syncs' = syncs \cup sync
      PROVE  /\ Handled <= Handled' /\ last <= last'
             /\ \A r \in 1..last : r \in syncs' <=> r \in syncs
             /\ \A r \in syncs' : r \in syncs \/ r = last'
  BY <1>2, <1>4 DEF Arrives, Handled
<1>5. CASE \E sync \in {{}, {last + 1}} :
             \/ parse_event_refused(sync)
             \/ parse_stats(sync) \/ parse_stats_fails(sync)
             \/ \E p \in Plugins : parse_event(p, sync)
  BY <1>2, <1>4, <1>5 DEF parse_event_refused, parse_stats, parse_stats_fails, parse_event
<1>6. CASE size_over_max \/ size_is_step
  BY <1>2, <1>h, <1>6, GivenUpEnds DEF size_over_max
<1>7. CASE make_queue_long_entry \/ make_queue_long_entry_fails
  BY <1>2, <1>h, <1>7, GivenUpEnds DEF make_queue_long_entry
<1>8. CASE queue_lock \/ put_in_queue
  BY <1>2, <1>h, <1>8 DEF queue_lock, put_in_queue
<1>9. CASE queue_unlock \/ queue_signal
  BY <1>2, <1>h, <1>9 DEF queue_unlock, queue_signal, Return
<1>10. CASE Signals
  BY <1>2, <1>10 DEF Signals, passive_to_active_sighandler, exit_sighandler, Handled
<1>11. CASE Stop
  BY <1>2, <1>11 DEF Stop, raise_loop_should_stop, stop_driver, join_and_queue_free,
                     mevent_stop_returns, Handled
<1>12. ASSUME NEW p \in Plugins, WorkerStep(p)
       PROVE  last' = last /\ syncs' = syncs /\ Handled <= Handled'
  <2>1. last' = last /\ syncs' = syncs /\ (npc' = npc \/ npc' = "crashed")
    BY <1>12, ProcessEnds
       DEF WorkerStep, worker_lock, queue_timedwait, queue_timedwait_fails,
           timedwait_timeout, timedwait_spurious, timedwait_relocks, queue_get,
           worker_unlock, test_entry, process_driver, process_driver_dies, Dies
  <2> QED
    BY <1>2, <2>1 DEF Handled
<1>13. CASE UNCHANGED vars
  BY <1>2, <1>13 DEF vars, Handled
<1> QED
  BY <1>2, <1>3, <1>4, <1>5, <1>6, <1>7, <1>8, <1>9, <1>10, <1>11, <1>12, <1>13
     DEF Next, Net, Worker, Dead

(* Three steps change a queue: the insertion, the worker's queue_get and   *)
(* queue_free.                                                             *)
LEMMA QueueChanges ==
  ASSUME Typed, [Next]_vars
  PROVE  \/ put_in_queue
         \/ \E p \in Plugins : queue_get(p)
         \/ \E p \in Plugins : join_and_queue_free(p) /\ queue'[p] = <<>>
                               /\ \A o \in Plugins \ {p} : queue'[o] = queue[o]
         \/ queue' = queue
<1> USE DEF netVars, workerVars
<1>1. ASSUME NEW p \in Plugins, join_and_queue_free(p)
      PROVE  queue'[p] = <<>> /\ \A o \in Plugins \ {p} : queue'[o] = queue[o]
  BY <1>1 DEF join_and_queue_free, Typed, TypeOK
<1>2. CASE Net
  BY <1>2 DEF Net, parse_message_refused, parse_event_refused, parse_stats, parse_stats_fails,
              parse_event,
              size_over_max, size_is_step, make_queue_long_entry,
              make_queue_long_entry_fails, queue_lock, queue_unlock, queue_signal
<1>3. CASE Signals \/ Stop
  BY <1>1, <1>3 DEF Signals, passive_to_active_sighandler, exit_sighandler, Stop,
              raise_loop_should_stop, stop_driver, mevent_stop_returns
<1>4. ASSUME NEW p \in Plugins, WorkerStep(p) PROVE queue_get(p) \/ queue' = queue
  BY <1>4 DEF WorkerStep, worker_lock, queue_timedwait, queue_timedwait_fails,
              timedwait_timeout, timedwait_spurious, timedwait_relocks,
              worker_unlock, test_entry, process_driver, process_driver_dies
<1>5. CASE UNCHANGED vars
  BY <1>5 DEF vars
<1> QED
  BY <1>2, <1>3, <1>4, <1>5 DEF Next, Worker, Dead

(* Two steps change what a worker holds or remembers.                      *)
LEMMA CurrentChanges ==
  ASSUME Typed, [Next]_vars
  PROVE  \/ \E p \in Plugins : queue_get(p)
         \/ /\ seen' = seen
            /\ \/ current' = current
               \/ \E p \in Plugins : process_driver(p)
<1> USE DEF netVars, workerVars
<1>1. CASE Net
  BY <1>1 DEF Net, parse_message_refused, parse_event_refused, parse_stats, parse_stats_fails,
              parse_event,
              size_over_max, size_is_step, make_queue_long_entry,
              make_queue_long_entry_fails, queue_lock, put_in_queue, queue_unlock,
              queue_signal
<1>2. CASE Signals \/ Stop
  BY <1>2 DEF Signals, passive_to_active_sighandler, exit_sighandler, Stop,
              raise_loop_should_stop, stop_driver, join_and_queue_free,
              mevent_stop_returns
<1>3. ASSUME NEW p \in Plugins, WorkerStep(p)
      PROVE  queue_get(p) \/ (seen' = seen /\ (current' = current \/ process_driver(p)))
  BY <1>3 DEF WorkerStep, worker_lock, queue_timedwait, queue_timedwait_fails,
              timedwait_timeout, timedwait_spurious, timedwait_relocks,
              worker_unlock, test_entry, process_driver, process_driver_dies
<1>4. CASE UNCHANGED vars
  BY <1>4 DEF vars
<1> QED
  BY <1>1, <1>2, <1>3, <1>4 DEF Next, Worker, Dead

-----------------------------------------------------------------------------
(* The entries of a queue are numbers of messages.                         *)
LEMMA EntriesAreNumbers ==
  ASSUME Typed, NEW p \in Plugins
  PROVE  /\ queue[p] \in Seq(Reqs) /\ Len(queue[p]) \in Nat
         /\ \A i \in 1..Len(queue[p]) : queue[p][i] \in Nat \ {0}
<1>1. queue[p] \in Seq(Reqs)
  BY DEF Typed, TypeOK
<1>2. Reqs \subseteq Nat \ {0}
  BY BoundAssumption DEF Reqs
<1>3. Len(queue[p]) \in Nat /\ \A i \in 1..Len(queue[p]) : queue[p][i] \in Reqs
  BY <1>1
<1> QED BY <1>1, <1>2, <1>3, Zenon

(* The insertion makes the request the last one handled.                   *)
LEMMA PutHandled ==
  ASSUME Typed, put_in_queue
  PROVE  last' = last /\ syncs' = syncs /\ Handled' = last /\ Handled = last - 1
BY DEF put_in_queue, Handled, NetHas

(* Every step keeps the numbers of the waiting requests.                   *)
LEMMA NumbersStep == Typed /\ Numbers /\ [Next]_vars => Numbers'
<1> SUFFICES ASSUME Typed, Numbers, [Next]_vars,
                    NEW p \in Plugins, NEW i \in 1..Len(queue'[p])
             PROVE  queue'[p][i] <= Handled'
  BY DEF Numbers
<1>1. Handled \in Nat /\ Handled' \in Nat /\ Handled <= Handled'
  BY Monotone
<1>2. queue[p] \in Seq(Reqs)
  BY DEF Typed, TypeOK
<1>3. \A j \in 1..Len(queue[p]) : queue[p][j] \in Nat /\ queue[p][j] <= Handled
  BY EntriesAreNumbers DEF Numbers
<1>4. \A j \in 1..Len(queue[p]) : queue[p][j] <= Handled'
  BY <1>1, <1>3
<1>5. CASE put_in_queue
  <2>1. Handled' = last /\ last \in Nat
    BY <1>5, PutHandled, Monotone
  <2>2. CASE p = target
    <3>1. queue'[p][i] = last \/ \E j \in 1..Len(queue[p]) : queue'[p][i] = queue[p][j]
      BY <1>2, <1>5, <2>2, PutEffect
    <3> QED BY <1>4, <2>1, <3>1
  <2>3. CASE p # target
    BY <1>4, <1>5, <2>3, PutEffect
  <2> QED BY <2>2, <2>3
<1>6. ASSUME NEW o \in Plugins, queue_get(o)
      PROVE  queue'[p][i] <= Handled'
  <2>1. \E j \in 1..Len(queue[p]) : queue'[p][i] = queue[p][j]
    <3>1. CASE p = o
      BY <1>2, <1>6, <3>1, GetEffect
    <3>2. CASE p # o
      BY <1>6, <3>2, GetEffect
    <3> QED BY <3>1, <3>2
  <2> QED BY <1>4, <2>1
<1>7. ASSUME NEW o \in Plugins, queue'[o] = <<>>, \A x \in Plugins \ {o} : queue'[x] = queue[x]
      PROVE  queue'[p][i] <= Handled'
  BY <1>4, <1>7
<1>8. CASE queue' = queue
  BY <1>4, <1>8
<1> QED BY <1>5, <1>6, <1>7, <1>8, QueueChanges

(* The flag of a request that waits in a queue does not change.            *)
LEMMA FlagsKept ==
  ASSUME Typed, Numbers, [Next]_vars
  PROVE  \A p \in Plugins : \A i \in 1..Len(queue[p]) :
           queue[p][i] \in syncs' <=> queue[p][i] \in syncs
<1> SUFFICES ASSUME NEW p \in Plugins, NEW i \in 1..Len(queue[p])
             PROVE  queue[p][i] \in syncs' <=> queue[p][i] \in syncs
  OBVIOUS
<1>1. queue[p][i] \in Nat \ {0}
  BY EntriesAreNumbers
<1>2. queue[p][i] <= Handled
  BY DEF Numbers
<1>3. queue[p][i] \in 1..last
  BY <1>1, <1>2, Monotone
<1> QED BY <1>3, Monotone

(* ServiceOrder of one queue, with the flags as they are in a later state. *)
Ordered(q, S) ==
  \A i, j \in 1..Len(q) :
    i < j => IF q[j] \in S THEN q[i] \in S /\ q[i] > q[j]
                           ELSE q[i] \in S \/ q[i] < q[j]

(* A synchronous request is the newest and goes in front, an asynchronous  *)
(* one is the newest and goes to the back.                                 *)
LEMMA PutOrdered ==
  ASSUME NEW S, NEW q, Len(q) \in Nat, \A i \in 1..Len(q) : q[i] \in Nat,
         NEW r \in Nat, Ordered(q, S),
         \A i \in 1..Len(q) : q[i] < r,
         NEW x, Len(x) = Len(q) + 1,
         r \in S => \A i \in 1..Len(x) : x[i] = IF i = 1 THEN r ELSE q[i - 1],
         r \notin S => \A i \in 1..Len(x) : x[i] = IF i = Len(q) + 1 THEN r ELSE q[i]
  PROVE  Ordered(x, S)
<1> SUFFICES ASSUME NEW i \in 1..Len(x), NEW j \in 1..Len(x), i < j
             PROVE  IF x[j] \in S THEN x[i] \in S /\ x[i] > x[j]
                                  ELSE x[i] \in S \/ x[i] < x[j]
  BY DEF Ordered
<1>0. Len(q) \in Nat /\ \A k \in 1..Len(q) : q[k] \in Nat
  OBVIOUS
<1>1. CASE r \in S
  <2>1. x[j] = q[j - 1] /\ j - 1 \in 1..Len(q)
    BY <1>0, <1>1
  <2>2. CASE i = 1
    <3>1. x[i] = r
      BY <1>1, <2>2
    <3> QED BY <1>0, <1>1, <2>1, <3>1
  <2>3. CASE i # 1
    <3>1. x[i] = q[i - 1] /\ i - 1 \in 1..Len(q) /\ i - 1 < j - 1
      BY <1>0, <1>1, <2>3
    <3>2. \A a, b \in 1..Len(q) :
            a < b => IF q[b] \in S THEN q[a] \in S /\ q[a] > q[b]
                                   ELSE q[a] \in S \/ q[a] < q[b]
      BY DEF Ordered
    <3> DEFINE a == i - 1
               b == j - 1
    <3>3. a \in 1..Len(q) /\ b \in 1..Len(q) /\ a < b /\ x[i] = q[a] /\ x[j] = q[b]
      BY <2>1, <3>1
    <3> HIDE DEF a, b
    <3> QED BY <3>2, <3>3, Zenon
  <2> QED BY <2>2, <2>3
<1>2. CASE r \notin S
  <2>1. x[i] = q[i] /\ i \in 1..Len(q)
    BY <1>0, <1>2
  <2>2. CASE j = Len(q) + 1
    <3>1. x[j] = r
      BY <1>2, <2>2
    <3> QED BY <1>2, <2>1, <3>1
  <2>3. CASE j # Len(q) + 1
    <3>1. x[j] = q[j] /\ j \in 1..Len(q)
      BY <1>0, <1>2, <2>3
    <3> QED BY <2>1, <3>1 DEF Ordered
  <2> QED BY <2>2, <2>3
<1> QED BY <1>1, <1>2

(* Every step keeps the order.                                             *)
LEMMA OrderStep == Typed /\ Numbers /\ ServiceOrder /\ [Next]_vars => ServiceOrder'
<1> SUFFICES ASSUME Typed, Numbers, ServiceOrder, [Next]_vars, NEW p \in Plugins
             PROVE  Ordered(queue'[p], syncs')
  BY DEF ServiceOrder, Ordered
<1>1. /\ Len(queue[p]) \in Nat
      /\ \A i \in 1..Len(queue[p]) : queue[p][i] \in Nat
  BY EntriesAreNumbers
<1>2. Ordered(queue[p], syncs')
  BY <1>1, FlagsKept DEF ServiceOrder, Ordered
<1>3. CASE put_in_queue
  <2>1. CASE p = target
    <3>1. last \in Nat /\ Handled = last - 1 /\ syncs' = syncs
      BY <1>3, PutHandled, Monotone
    <3>2. \A i \in 1..Len(queue[p]) : queue[p][i] \in Nat /\ queue[p][i] <= Handled
      BY <1>1 DEF Numbers
    <3>3. \A i \in 1..Len(queue[p]) : queue[p][i] < last
      BY <3>1, <3>2
    <3> DEFINE q == queue[p]
               x == queue'[p]
               S == syncs'
    <3>4. /\ Len(x) = Len(q) + 1
          /\ last \in S => \A i \in 1..Len(x) : x[i] = IF i = 1 THEN last ELSE q[i - 1]
          /\ last \notin S => \A i \in 1..Len(x) :
                               x[i] = IF i = Len(q) + 1 THEN last ELSE q[i]
      BY <1>3, <2>1, <3>1, PutEffect
    <3>5. /\ Len(q) \in Nat /\ Ordered(q, S)
          /\ \A i \in 1..Len(q) : q[i] \in Nat /\ q[i] < last
      BY <1>1, <1>2, <3>3
    <3> HIDE DEF q, x, S
    <3>6. Ordered(x, S)
      BY <3>1, <3>4, <3>5, PutOrdered
    <3> QED BY <3>6 DEF x, S
  <2>2. CASE p # target
    BY <1>2, <1>3, <2>2, PutEffect
  <2> QED BY <2>1, <2>2
<1>4. ASSUME NEW o \in Plugins, queue_get(o)
      PROVE  Ordered(queue'[p], syncs')
  <2>1. CASE p = o /\ queue[p] # <<>>
    <3>1. /\ Len(queue[p]) \in Nat /\ Len(queue'[p]) = Len(queue[p]) - 1
          /\ \A i \in 1..Len(queue'[p]) : queue'[p][i] = queue[p][i + 1]
      <4>1. queue_get(p)
        BY <1>4, <2>1
      <4> QED BY <2>1, <4>1, EntriesAreNumbers, GetEffect
    <3>2. ASSUME NEW i \in 1..Len(queue'[p]), NEW j \in 1..Len(queue'[p]), i < j
          PROVE  /\ i + 1 \in 1..Len(queue[p]) /\ j + 1 \in 1..Len(queue[p])
                 /\ i + 1 < j + 1
                 /\ queue'[p][i] = queue[p][i + 1] /\ queue'[p][j] = queue[p][j + 1]
      BY <3>1, <3>2
    <3> QED BY <1>2, <3>2 DEF Ordered
  <2>2. CASE p # o \/ queue[p] = <<>>
    BY <1>2, <1>4, <2>2, GetEffect
  <2> QED BY <2>1, <2>2
<1>5. ASSUME NEW o \in Plugins, queue'[o] = <<>>, \A x \in Plugins \ {o} : queue'[x] = queue[x]
      PROVE  Ordered(queue'[p], syncs')
  <2>1. CASE p = o
    BY <1>5, <2>1 DEF Ordered
  <2>2. CASE p # o
    BY <1>2, <1>5, <2>2
  <2> QED BY <2>1, <2>2
<1>6. CASE queue' = queue
  BY <1>2, <1>6
<1> QED BY <1>3, <1>4, <1>5, <1>6, QueueChanges

(* The queues start empty.                                                 *)
LEMMA InitNumbers == Init => Numbers /\ ServiceOrder
BY DEF Init, Numbers, ServiceOrder

(* For any plugins and messages a worker finds the synchronous requests    *)
(* first, the newest of them in front, and the asynchronous ones behind    *)
(* them in the order in which put_in_queue_long inserted them.             *)
THEOREM ServiceOrderHolds == Spec => []ServiceOrder
BY InitTyped, TypeStep, InitNumbers, NumbersStep, OrderStep, PTL DEF Spec

-----------------------------------------------------------------------------
(* A synchronous request that waits in the queue of p.                     *)
SyncWaits(p) == \E i \in 1..Len(queue[p]) : queue[p][i] \in syncs

(* Whatever does not insert adds no synchronous request to a queue.        *)
LEMMA SyncWaitsStep ==
  ASSUME Typed, Numbers, [Next]_vars, ~put_in_queue, NEW p \in Plugins, SyncWaits(p)'
  PROVE  SyncWaits(p)
<1>1. PICK i \in 1..Len(queue'[p]) : queue'[p][i] \in syncs'
  BY DEF SyncWaits
<1>2. PICK j \in 1..Len(queue[p]) : queue'[p][i] = queue[p][j]
  <2>0. Len(queue[p]) \in Nat
    BY EntriesAreNumbers
  <2>1. ASSUME NEW o \in Plugins, queue_get(o)
        PROVE  \E j \in 1..Len(queue[p]) : queue'[p][i] = queue[p][j]
    <3>1. CASE p = o /\ queue[p] # <<>>
      <4>1. queue_get(p)
        BY <2>1, <3>1
      <4>2. i + 1 \in 1..Len(queue[p]) /\ queue'[p][i] = queue[p][i + 1]
        BY <2>0, <3>1, <4>1, GetEffect
      <4> QED BY <4>2
    <3>2. CASE p # o \/ queue[p] = <<>>
      BY <2>1, <3>2, GetEffect
    <3> QED BY <3>1, <3>2
  <2>2. ASSUME NEW o \in Plugins, queue'[o] = <<>>,
               \A x \in Plugins \ {o} : queue'[x] = queue[x]
        PROVE  \E j \in 1..Len(queue[p]) : queue'[p][i] = queue[p][j]
    BY <2>2
  <2>3. CASE queue' = queue
    BY <2>3
  <2> QED BY <2>1, <2>2, <2>3, QueueChanges
<1> QED BY <1>1, <1>2, FlagsKept DEF SyncWaits

(* Every step keeps the wakeups.  The worker begins to wait when its queue *)
(* is empty; from the insertion of a synchronous request to its signal the *)
(* network thread does nothing else.                                       *)
LEMMA WakeupStep ==
  Typed /\ Numbers /\ NoLostWakeup /\ [Next]_vars => NoLostWakeup'
<1> SUFFICES ASSUME Typed, Numbers, NoLostWakeup, [Next]_vars,
                    NEW p \in Plugins, npc' # "crashed", wpc'[p] = "wait", SyncWaits(p)'
             PROVE  npc' \in {"unlock", "signal"} /\ target' = p /\ last' \in syncs'
  BY DEF NoLostWakeup, SyncWaits
<1> USE DEF netVars, workerVars
<1>c. npc # "crashed"
  BY DEF Next, Net, Arrives, Signals, passive_to_active_sighandler, exit_sighandler, Stop,
         parse_message_refused, parse_event_refused, parse_stats, parse_stats_fails,
         parse_event, size_over_max, size_is_step, make_queue_long_entry,
         make_queue_long_entry_fails, queue_lock, put_in_queue, queue_unlock, queue_signal,
         raise_loop_should_stop, stop_driver, join_and_queue_free, mevent_stop_returns,
         Worker, Dead, vars
<1>w. ASSUME wpc[p] = "wait", SyncWaits(p)
      PROVE  npc \in {"unlock", "signal"} /\ target = p /\ last \in syncs
  BY <1>w, <1>c DEF NoLostWakeup, SyncWaits
<1>1. CASE put_in_queue
  <2>1. wpc' = wpc /\ npc = "put" /\ npc' = "unlock" /\ target' = target
        /\ last' = last /\ syncs' = syncs
    BY <1>1 DEF put_in_queue
  <2>2. ~SyncWaits(p)
    BY <1>w, <2>1
  <2>3. p = target
    BY <1>1, <2>1, <2>2, PutEffect DEF SyncWaits
  <2>4. last \in syncs
    <3>1. SUFFICES ASSUME last \notin syncs PROVE FALSE
      OBVIOUS
    <3>2. PICK i \in 1..Len(queue'[p]) : queue'[p][i] \in syncs
      BY <2>1 DEF SyncWaits
    <3>3. i # Len(queue[p]) + 1 /\ queue'[p][i] = queue[p][i]
      BY <1>1, <2>3, <3>1, <3>2, PutEffect
    <3>4. i \in 1..Len(queue[p])
      BY <1>1, <2>3, <3>3, PutEffect, EntriesAreNumbers
    <3> QED BY <2>2, <3>2, <3>3, <3>4 DEF SyncWaits
  <2> QED BY <2>1, <2>3, <2>4
<1>2. CASE ~put_in_queue
  <2>0. SyncWaits(p)
    BY <1>2, SyncWaitsStep
  <2>1. CASE wpc[p] # "wait"
    <3>1. ~(\E o \in Plugins : WorkerStep(o))
      <4>1. SUFFICES ASSUME NEW o \in Plugins, WorkerStep(o) PROVE FALSE
        OBVIOUS
      <4>2. queue[p] # <<>>
        BY <2>0, EntriesAreNumbers DEF SyncWaits
      <4>3. wpc \in [Plugins -> WorkerPcs]
        BY DEF Typed, TypeOK
      <4> QED
        BY <2>1, <4>1, <4>2, <4>3
           DEF WorkerStep, worker_lock, queue_timedwait, queue_timedwait_fails,
               timedwait_timeout, timedwait_spurious, timedwait_relocks, queue_get,
               worker_unlock, test_entry, process_driver, process_driver_dies
    <3>2. CASE Net
      <4>1. wpc' = wpc \/ (queue_signal /\ target \in Plugins)
        BY <3>2 DEF Net, parse_message_refused, parse_event_refused, parse_stats,
              parse_stats_fails, parse_event, size_over_max, size_is_step,
              make_queue_long_entry, make_queue_long_entry_fails, queue_lock,
              put_in_queue, queue_unlock, queue_signal, Typed, TargetOK, NetBusy, NetLoop
      <4> QED BY <2>1, <4>1 DEF queue_signal, Typed, TypeOK
    <3>3. CASE Signals \/ Stop \/ UNCHANGED vars
      BY <2>1, <3>3 DEF Signals, passive_to_active_sighandler, exit_sighandler, Stop,
              raise_loop_should_stop, stop_driver, join_and_queue_free,
              mevent_stop_returns, vars
    <3> QED BY <3>1, <3>2, <3>3 DEF Next, Worker, Dead
  <2>2. CASE wpc[p] = "wait"
    <3>1. npc \in {"unlock", "signal"} /\ target = p /\ last \in syncs
      BY <1>w, <2>0, <2>2
    <3>2. CASE Net
      <4>1. queue_unlock \/ queue_signal
        BY <1>2, <3>1, <3>2 DEF Net, Arrives, parse_message_refused, parse_event_refused,
              parse_stats, parse_stats_fails, parse_event, size_over_max, size_is_step,
              make_queue_long_entry, make_queue_long_entry_fails, queue_lock
      <4>2. CASE queue_unlock
        BY <3>1, <4>2 DEF queue_unlock
      <4>3. CASE queue_signal
        BY <2>2, <3>1, <4>3 DEF queue_signal, Typed, TypeOK
      <4> QED BY <4>1, <4>2, <4>3
    <3>3. CASE Signals \/ Stop
      BY <3>1, <3>3 DEF Signals, passive_to_active_sighandler, exit_sighandler, Stop,
              raise_loop_should_stop, stop_driver, join_and_queue_free,
              mevent_stop_returns
    <3>4. ASSUME NEW o \in Plugins, WorkerStep(o)
          PROVE  npc' = npc /\ target' = target /\ last' = last /\ syncs' = syncs
      BY <3>4, ProcessEnds
         DEF WorkerStep, worker_lock, queue_timedwait, queue_timedwait_fails,
             timedwait_timeout, timedwait_spurious, timedwait_relocks, queue_get,
             worker_unlock, test_entry, process_driver, process_driver_dies, Dies
    <3>5. CASE UNCHANGED vars
      BY <3>1, <3>5 DEF vars
    <3> QED BY <3>1, <3>2, <3>3, <3>4, <3>5 DEF Next, Worker, Dead
  <2> QED BY <2>1, <2>2
<1> QED BY <1>1, <1>2

(* The workers start before there is anything to wait for.                 *)
LEMMA InitWakeup == Init => NoLostWakeup
BY DEF Init, NoLostWakeup

(* For any plugins and messages, and although put_in_queue_long signals    *)
(* after it has released the lock, no synchronous request lies in the      *)
(* queue of a worker that sleeps, but for the signal about to be sent.     *)
THEOREM NoLostWakeupHolds == Spec => []NoLostWakeup
BY InitTyped, TypeStep, InitNumbers, NumbersStep, InitWakeup, WakeupStep, PTL DEF Spec

-----------------------------------------------------------------------------
(* A worker that has looked and found nothing: what is in its queue now    *)
(* came after that look.                                                   *)
Looked ==
  \A p \in Plugins :
    /\ seen[p] <= Handled
    /\ wpc[p] = "exited" => current[p] = 0
    /\ wpc[p] \in {"unlock", "test", "exited"} /\ current[p] = 0 =>
         \A i \in 1..Len(queue[p]) : queue[p][i] > seen[p]

(* Where a worker that is done with its look can have come from.           *)
LEMMA LookedPlaces ==
  ASSUME Typed, [Next]_vars, NEW p \in Plugins, ~queue_get(p),
         wpc'[p] \in {"unlock", "test", "exited"}
  PROVE  /\ wpc[p] \in {"unlock", "test", "exited"}
         /\ wpc'[p] = "exited" => wpc[p] = "exited" \/ current[p] = 0
         /\ current'[p] = current[p] /\ seen'[p] = seen[p]
<1> USE DEF netVars, workerVars
<1>0. /\ wpc \in [Plugins -> WorkerPcs] /\ current \in [Plugins -> Reqs \cup {0}]
      /\ seen \in [Plugins -> 0..MaxReq]
  BY DEF Typed, TypeOK
<1>1. CASE Net
  <2>1. /\ current' = current /\ seen' = seen
        /\ wpc' = wpc \/ (queue_signal /\ target \in Plugins)
    BY <1>1 DEF Net, parse_message_refused, parse_event_refused, parse_stats,
          parse_stats_fails, parse_event, size_over_max, size_is_step,
          make_queue_long_entry, make_queue_long_entry_fails, queue_lock,
          put_in_queue, queue_unlock, queue_signal, Typed, TargetOK, NetBusy, NetLoop
  <2> QED BY <1>0, <2>1 DEF queue_signal
<1>2. CASE Signals \/ Stop \/ UNCHANGED vars
  BY <1>2 DEF Signals, passive_to_active_sighandler, exit_sighandler, Stop,
              raise_loop_should_stop, stop_driver, join_and_queue_free,
              mevent_stop_returns, vars
<1>3. ASSUME NEW o \in Plugins, WorkerStep(o)
      PROVE  /\ wpc[p] \in {"unlock", "test", "exited"}
             /\ wpc'[p] = "exited" => wpc[p] = "exited" \/ current[p] = 0
             /\ current'[p] = current[p] /\ seen'[p] = seen[p]
  <2>1. CASE o = p
    BY <1>0, <1>3, <2>1 DEF WorkerStep, worker_lock, queue_timedwait, queue_timedwait_fails,
          timedwait_timeout, timedwait_spurious, timedwait_relocks,
          worker_unlock, test_entry, process_driver, process_driver_dies
  <2>2. CASE o # p
    BY <1>0, <1>3, <2>2 DEF WorkerStep, worker_lock, queue_timedwait, queue_timedwait_fails,
          timedwait_timeout, timedwait_spurious, timedwait_relocks, queue_get,
          worker_unlock, test_entry, process_driver, process_driver_dies
  <2> QED BY <2>1, <2>2
<1> QED BY <1>1, <1>2, <1>3 DEF Next, Worker, Dead

(* Every step keeps what a worker that found nothing knows.                *)
LEMMA LookedStep ==
  Typed /\ Numbers /\ Looked /\ [Next]_vars => Looked'
<1> SUFFICES ASSUME Typed, Numbers, Looked, [Next]_vars, NEW p \in Plugins
             PROVE  /\ seen'[p] <= Handled'
                    /\ wpc'[p] = "exited" => current'[p] = 0
                    /\ wpc'[p] \in {"unlock", "test", "exited"} /\ current'[p] = 0 =>
                         \A i \in 1..Len(queue'[p]) : queue'[p][i] > seen'[p]
  BY DEF Looked
<1>1. Handled \in Nat /\ Handled' \in Nat /\ Handled <= Handled' /\ seen[p] \in Nat
      /\ seen[p] <= Handled
  BY Monotone, BoundAssumption DEF Looked, Typed, TypeOK
<1>2. CASE queue_get(p)
  <2>1. /\ wpc'[p] = "unlock" /\ seen'[p] = Handled /\ npc' = npc /\ last' = last
    BY <1>2 DEF queue_get, netVars, Typed, TypeOK
  <2>2. CASE queue[p] = <<>>
    BY <1>1, <1>2, <2>1, <2>2, GetEffect
  <2>3. CASE queue[p] # <<>>
    <3>1. Len(queue[p]) >= 1 /\ current'[p] = queue[p][1]
      BY <1>2, <2>3, GetEffect
    <3>2. current'[p] # 0
      BY <3>1, EntriesAreNumbers
    <3> QED BY <1>1, <2>1, <3>2
  <2> QED BY <2>2, <2>3
<1>3. CASE ~queue_get(p)
  <2>1. seen'[p] = seen[p]
    <3>1. ASSUME NEW o \in Plugins, queue_get(o) PROVE seen'[p] = seen[p]
      BY <1>3, <3>1 DEF queue_get, Typed, TypeOK
    <3> QED BY <3>1, CurrentChanges
  <2>2. seen'[p] <= Handled'
    BY <1>1, <2>1
  <2>3. wpc'[p] = "exited" => current'[p] = 0
    BY <1>3, LookedPlaces DEF Looked
  <2>4. ASSUME wpc'[p] \in {"unlock", "test", "exited"}, current'[p] = 0,
               NEW i \in 1..Len(queue'[p])
        PROVE  queue'[p][i] > seen[p]
    <3>1. \A j \in 1..Len(queue[p]) : queue[p][j] > seen[p]
      BY <1>3, <2>4, LookedPlaces DEF Looked
    <3>2. CASE put_in_queue
      <4>1. last \in Nat /\ Handled = last - 1
        BY <3>2, PutHandled, Monotone
      <4>2. last > seen[p]
        BY <1>1, <4>1
      <4>3. CASE p = target
        <5>1. queue'[p][i] = last \/ \E j \in 1..Len(queue[p]) : queue'[p][i] = queue[p][j]
          BY <2>4, <3>2, <4>3, EntriesAreNumbers, PutEffect
        <5> QED BY <3>1, <4>2, <5>1
      <4>4. CASE p # target
        BY <2>4, <3>1, <3>2, <4>4, PutEffect
      <4> QED BY <4>3, <4>4
    <3>3. ASSUME NEW o \in Plugins, queue_get(o) PROVE queue'[p][i] > seen[p]
      BY <1>3, <2>4, <3>1, <3>3, GetEffect
    <3>4. ASSUME NEW o \in Plugins, queue'[o] = <<>>,
                 \A x \in Plugins \ {o} : queue'[x] = queue[x]
          PROVE  queue'[p][i] > seen[p]
      BY <2>4, <3>1, <3>4
    <3>5. CASE queue' = queue
      BY <2>4, <3>1, <3>5
    <3> QED BY <3>2, <3>3, <3>4, <3>5, QueueChanges
  <2> QED BY <2>1, <2>2, <2>3, <2>4
<1> QED BY <1>2, <1>3

(* No worker has looked yet.                                               *)
LEMMA InitLooked == Init => Looked
<1> SUFFICES ASSUME Init PROVE Looked
  OBVIOUS
<1>1. Handled = 0
  BY DEF Init, Handled, NetHas
<1>2. \A p \in Plugins : seen[p] = 0 /\ wpc[p] = "lock" /\ Len(queue[p]) = 0
  BY DEF Init
<1>3. \A p \in Plugins : seen[p] <= Handled
  <2>1. 0 <= 0
    OBVIOUS
  <2> QED BY <1>1, <1>2, <2>1, Zenon
<1>4. \A p \in Plugins : wpc[p] \notin {"unlock", "test", "exited"} /\ wpc[p] # "exited"
  BY <1>2
<1> QED BY <1>3, <1>4, Zenon DEF Looked

(* For any plugins and messages, a worker that has ended left nothing in   *)
(* its queue that was there when it last looked: what queue_free throws    *)
(* away arrived after that.                                                *)
THEOREM ExitedDrainedHolds == Spec => []ExitedDrained
<1>1. Looked => ExitedDrained
  BY DEF Looked, ExitedDrained
<1> QED BY <1>1, InitTyped, TypeStep, InitNumbers, NumbersStep, InitLooked, LookedStep, PTL
           DEF Spec

-----------------------------------------------------------------------------
(* OneReply needs that a request which was answered has arrived, and that  *)
(* what is in the queues and with the workers is apart: no entry twice in  *)
(* the queues, and nothing with a worker that the network thread still     *)
(* has.                                                                    *)
Apart ==
  \A p, o \in Plugins : \A i \in 1..Len(queue[p]), j \in 1..Len(queue[o]) :
    queue[p][i] = queue[o][j] => p = o /\ i = j

HeldNumbers == \A p \in Plugins : current[p] <= Handled

HeldOnce ==
  \A p, o \in Plugins : current[p] # 0 =>
    ~ InQueue(current[p], o) /\ (current[p] = current[o] => p = o)

Answered ==
  \A r \in Reqs :
    Answers(r) <= 1 /\ (Answers(r) > 0 => r <= last /\ ~ InHands(r))

(* An error follows the piece of a reply that could not be sent.           *)
TornOnce == \A r \in torn : replies[r] = 1

Once == Apart /\ HeldNumbers /\ HeldOnce /\ Answered /\ TornOnce

(* Where an entry of a queue comes from: it was there, or it is the one    *)
(* that the network thread has just inserted.                              *)
LEMMA EntryOrigin ==
  ASSUME Typed, [Next]_vars, NEW p \in Plugins, NEW i \in 1..Len(queue'[p])
  PROVE  \/ \E j \in 1..Len(queue[p]) : queue'[p][i] = queue[p][j]
         \/ put_in_queue /\ p = target /\ queue'[p][i] = last
<1>1. queue[p] \in Seq(Reqs) /\ Len(queue[p]) \in Nat
  BY EntriesAreNumbers
<1>2. CASE put_in_queue
  <2>1. CASE p = target
    BY <1>1, <1>2, <2>1, PutEffect
  <2>2. CASE p # target
    BY <1>2, <2>2, PutEffect
  <2> QED BY <2>1, <2>2
<1>3. ASSUME NEW o \in Plugins, queue_get(o)
      PROVE  \E j \in 1..Len(queue[p]) : queue'[p][i] = queue[p][j]
  <2>1. CASE p = o
    BY <1>1, <1>3, <2>1, GetEffect
  <2>2. CASE p # o
    BY <1>3, <2>2, GetEffect
  <2> QED BY <2>1, <2>2
<1>4. ASSUME NEW o \in Plugins, queue'[o] = <<>>, \A x \in Plugins \ {o} : queue'[x] = queue[x]
      PROVE  \E j \in 1..Len(queue[p]) : queue'[p][i] = queue[p][j]
  BY <1>4
<1>5. CASE queue' = queue
  BY <1>5
<1> QED BY <1>2, <1>3, <1>4, <1>5, QueueChanges

(* What a worker holds: what it held, nothing, or the head of its queue.   *)
LEMMA HeldOrigin ==
  ASSUME Typed, [Next]_vars, NEW p \in Plugins
  PROVE  \/ current'[p] = current[p]
         \/ current'[p] = 0
         \/ queue_get(p) /\ 1 \in 1..Len(queue[p]) /\ current'[p] = queue[p][1]
<1>1. CASE queue_get(p)
  <2>1. CASE queue[p] = <<>>
    BY <1>1, <2>1, GetEffect
  <2>2. CASE queue[p] # <<>>
    BY <1>1, <2>2, GetEffect, EntriesAreNumbers
  <2> QED BY <2>1, <2>2
<1>2. ASSUME NEW o \in Plugins \ {p}, queue_get(o) PROVE current'[p] = current[p]
  BY <1>2, GetEffect
<1>3. ASSUME NEW o \in Plugins, process_driver(o) PROVE current'[p] \in {current[p], 0}
  BY <1>3 DEF process_driver, Typed, TypeOK
<1> QED BY <1>1, <1>2, <1>3, CurrentChanges

(* No entry is twice in the queues.                                        *)
LEMMA ApartStep == Typed /\ Numbers /\ Apart /\ [Next]_vars => Apart'
<1> SUFFICES ASSUME Typed, Numbers, Apart, [Next]_vars PROVE Apart'
  OBVIOUS
<1>1. CASE put_in_queue
  <2>1. /\ target \in Plugins /\ last \in Nat
        /\ \A p \in Plugins : \A i \in 1..Len(queue[p]) : queue[p][i] # last
    <3>1. Handled = last - 1 /\ last \in Nat
      BY <1>1, PutHandled, Monotone
    <3>2. \A p \in Plugins : \A i \in 1..Len(queue[p]) : queue[p][i] \in Nat /\ queue[p][i] <= last - 1
      BY <3>1, EntriesAreNumbers DEF Numbers
    <3> QED BY <1>1, <3>1, <3>2, PutEffect
  <2>2. PICK f \in [1..Len(queue'[target]) -> 0..Len(queue[target])] :
          /\ \A i \in 1..Len(queue'[target]) :
               queue'[target][i] = IF f[i] = 0 THEN last ELSE queue[target][f[i]]
          /\ \A i, j \in 1..Len(queue'[target]) : f[i] = f[j] => i = j
    <3>1. Len(queue[target]) \in Nat /\ Len(queue'[target]) = Len(queue[target]) + 1
      BY <1>1, <2>1, EntriesAreNumbers, PutEffect
    <3>2. CASE last \in syncs
      <4> DEFINE g == [i \in 1..Len(queue'[target]) |-> i - 1]
      <4>1. g \in [1..Len(queue'[target]) -> 0..Len(queue[target])]
        BY <3>1
      <4>2. \A i \in 1..Len(queue'[target]) :
              queue'[target][i] = IF g[i] = 0 THEN last ELSE queue[target][g[i]]
        BY <1>1, <3>1, <3>2, PutEffect
      <4>3. \A i, j \in 1..Len(queue'[target]) : g[i] = g[j] => i = j
        BY <3>1
      <4> HIDE DEF g
      <4> QED BY <4>1, <4>2, <4>3
    <3>3. CASE last \notin syncs
      <4> DEFINE g == [i \in 1..Len(queue'[target]) |-> IF i = Len(queue[target]) + 1 THEN 0 ELSE i]
      <4>1. g \in [1..Len(queue'[target]) -> 0..Len(queue[target])]
        BY <3>1
      <4>2. \A i \in 1..Len(queue'[target]) :
              queue'[target][i] = IF g[i] = 0 THEN last ELSE queue[target][g[i]]
        BY <1>1, <3>1, <3>3, PutEffect
      <4>3. \A i, j \in 1..Len(queue'[target]) : g[i] = g[j] => i = j
        BY <3>1
      <4> HIDE DEF g
      <4> QED BY <4>1, <4>2, <4>3
    <3> QED BY <3>2, <3>3
  <2>3. \A p \in Plugins \ {target} : queue'[p] = queue[p]
    BY <1>1, PutEffect
  <2> SUFFICES ASSUME NEW p \in Plugins, NEW o \in Plugins,
                      NEW i \in 1..Len(queue'[p]), NEW j \in 1..Len(queue'[o]),
                      queue'[p][i] = queue'[o][j]
               PROVE  p = o /\ i = j
    BY DEF Apart
  <2>4. Len(queue[target]) \in Nat
    BY <2>1, EntriesAreNumbers
  <2>n. \A k \in 1..Len(queue'[target]) :
          \/ f[k] = 0 /\ queue'[target][k] = last
          \/ f[k] \in 1..Len(queue[target]) /\ queue'[target][k] = queue[target][f[k]]
    BY <2>2, <2>4
  <2>5. CASE p = target /\ o = target
    <3>0. i \in 1..Len(queue'[target]) /\ j \in 1..Len(queue'[target])
      BY <2>5
    <3>1. CASE f[i] = 0 \/ f[j] = 0
      <4>1. f[i] = f[j]
        BY <2>1, <2>n, <2>5, <3>0, <3>1
      <4> QED BY <2>2, <2>5, <3>0, <4>1
    <3>2. CASE f[i] # 0 /\ f[j] # 0
      <4>1. /\ f[i] \in 1..Len(queue[target]) /\ f[j] \in 1..Len(queue[target])
            /\ queue[target][f[i]] = queue[target][f[j]]
        BY <2>n, <2>5, <3>0, <3>2
      <4>a. \A k, m \in 1..Len(queue[target]) : queue[target][k] = queue[target][m] => k = m
        BY <2>1 DEF Apart
      <4>2. f[i] = f[j]
        BY <4>1, <4>a
      <4> QED BY <2>2, <2>5, <3>0, <4>2
    <3> QED BY <3>1, <3>2
  <2>6. CASE p = target /\ o # target
    <3>1. queue'[o] = queue[o] /\ i \in 1..Len(queue'[target])
      BY <2>3, <2>6
    <3>2. CASE f[i] = 0
      BY <2>1, <2>n, <2>6, <3>1, <3>2
    <3>3. CASE f[i] # 0
      BY <2>1, <2>n, <2>6, <3>1, <3>3 DEF Apart
    <3> QED BY <3>2, <3>3
  <2>7. CASE p # target /\ o = target
    <3>1. queue'[p] = queue[p] /\ j \in 1..Len(queue'[target])
      BY <2>3, <2>7
    <3>2. CASE f[j] = 0
      BY <2>1, <2>n, <2>7, <3>1, <3>2
    <3>3. CASE f[j] # 0
      BY <2>1, <2>n, <2>7, <3>1, <3>3 DEF Apart
    <3> QED BY <3>2, <3>3
  <2>8. CASE p # target /\ o # target
    BY <2>3, <2>8 DEF Apart
  <2> QED BY <2>5, <2>6, <2>7, <2>8
<1>2. ASSUME NEW x \in Plugins, queue_get(x) PROVE Apart'
  <2> SUFFICES ASSUME NEW p \in Plugins, NEW o \in Plugins,
                      NEW i \in 1..Len(queue'[p]), NEW j \in 1..Len(queue'[o]),
                      queue'[p][i] = queue'[o][j]
               PROVE  p = o /\ i = j
    BY DEF Apart
  <2> DEFINE d(y) == IF y = x /\ queue[x] # <<>> THEN 1 ELSE 0
  <2>1. ASSUME NEW y \in Plugins, NEW k \in 1..Len(queue'[y])
        PROVE  k + d(y) \in 1..Len(queue[y]) /\ queue'[y][k] = queue[y][k + d(y)]
    <3>1. Len(queue[y]) \in Nat
      BY EntriesAreNumbers
    <3>2. CASE y = x /\ queue[x] # <<>>
      BY <1>2, <2>1, <3>1, <3>2, GetEffect
    <3>3. CASE y # x \/ queue[x] = <<>>
      <4>1. queue'[y] = queue[y]
        BY <1>2, <3>3, GetEffect
      <4> QED BY <2>1, <3>1, <3>3, <4>1
    <3> QED BY <3>2, <3>3
  <2>2. p = o /\ i + d(p) = j + d(o)
    <3>1. i + d(p) \in 1..Len(queue[p]) /\ queue'[p][i] = queue[p][i + d(p)]
      BY <2>1
    <3>2. j + d(o) \in 1..Len(queue[o]) /\ queue'[o][j] = queue[o][j + d(o)]
      BY <2>1
    <3> HIDE DEF d
    <3>3. queue[p][i + d(p)] = queue[o][j + d(o)]
      BY <3>1, <3>2
    <3> QED BY <3>1, <3>2, <3>3, Zenon DEF Apart
  <2>3. i \in Int /\ j \in Int /\ d(p) \in Int
    <3>1. Len(queue'[p]) \in Nat /\ Len(queue'[o]) \in Nat
      <4>1. queue' \in [Plugins -> Seq(Reqs)]
        BY TypeStep, Zenon DEF Typed, TypeOK
      <4> QED BY <4>1
    <3> QED BY <3>1
  <2> QED BY <2>2, <2>3
<1>3. ASSUME NEW x \in Plugins, queue'[x] = <<>>, \A y \in Plugins \ {x} : queue'[y] = queue[y]
      PROVE  Apart'
  BY <1>3 DEF Apart
<1>4. CASE queue' = queue
  BY <1>4 DEF Apart
<1> QED BY <1>1, <1>2, <1>3, <1>4, QueueChanges

(* A worker holds what the network thread is done with.                    *)
LEMMA HeldNumbersStep ==
  Typed /\ Numbers /\ HeldNumbers /\ [Next]_vars => HeldNumbers'
<1> SUFFICES ASSUME Typed, Numbers, HeldNumbers, [Next]_vars, NEW p \in Plugins
             PROVE  current'[p] <= Handled'
  BY DEF HeldNumbers
<1>1. Handled \in Nat /\ Handled' \in Nat /\ Handled <= Handled'
  BY Monotone
<1>2. current[p] \in Nat /\ current[p] <= Handled
  BY BoundAssumption DEF HeldNumbers, Typed, TypeOK, Reqs
<1>3. ASSUME 1 \in 1..Len(queue[p]) PROVE queue[p][1] \in Nat /\ queue[p][1] <= Handled
  BY <1>3, EntriesAreNumbers DEF Numbers
<1> QED BY <1>1, <1>2, <1>3, HeldOrigin

(* A request that is in a queue, or with a worker, was there before, or    *)
(* comes from the network thread, or from the queue to the worker.         *)
LEMMA HeldOnceStep ==
  Typed /\ Numbers /\ Apart /\ HeldNumbers /\ HeldOnce /\ [Next]_vars => HeldOnce'
<1> SUFFICES ASSUME Typed, Numbers, Apart, HeldNumbers, HeldOnce, [Next]_vars,
                    NEW p \in Plugins, NEW o \in Plugins, current'[p] # 0
             PROVE  /\ ~ \E i \in 1..Len(queue'[o]) : queue'[o][i] = current'[p]
                    /\ current'[p] = current'[o] => p = o
  BY DEF HeldOnce, InQueue
<1>e. \A x \in Plugins : \A i \in 1..Len(queue[x]) : queue[x][i] \in Nat /\ queue[x][i] <= Handled
  BY EntriesAreNumbers DEF Numbers
<1>h. \A x \in Plugins : current[x] \in Nat /\ current[x] <= Handled
  BY BoundAssumption DEF HeldNumbers, Typed, TypeOK, Reqs
<1>n. put_in_queue => Handled = last - 1 /\ last \in Nat /\ Handled \in Nat
  BY PutHandled, Monotone
<1>1. ASSUME NEW i \in 1..Len(queue'[o]), queue'[o][i] = current'[p] PROVE FALSE
  <2>1. CASE put_in_queue /\ queue'[o][i] = last
    <3>1. current'[p] <= Handled
      BY <1>e, <1>h, HeldOrigin, Monotone
    <3> QED BY <1>1, <1>n, <2>1, <3>1
  <2>2. ASSUME NEW j \in 1..Len(queue[o]), queue'[o][i] = queue[o][j] PROVE FALSE
    <3>1. CASE current'[p] = current[p]
      BY <1>1, <2>2, <3>1 DEF HeldOnce, InQueue
    <3>2. CASE queue_get(p) /\ 1 \in 1..Len(queue[p]) /\ current'[p] = queue[p][1]
      <4>1. p = o
        BY <1>1, <2>2, <3>2 DEF Apart
      <4>2. Len(queue[p]) \in Nat /\ queue[p] # <<>>
        BY <3>2, EntriesAreNumbers
      <4>3. /\ Len(queue'[p]) = Len(queue[p]) - 1
            /\ \A k \in 1..Len(queue'[p]) : queue'[p][k] = queue[p][k + 1]
        BY <3>2, <4>2, GetEffect
      <4>4. i \in Nat /\ i >= 1 /\ i + 1 \in 1..Len(queue[p]) /\ queue[p][i + 1] = queue[p][1]
        BY <1>1, <3>2, <4>1, <4>2, <4>3
      <4>5. \A k, m \in 1..Len(queue[p]) : queue[p][k] = queue[p][m] => k = m
        BY DEF Apart
      <4>6. i + 1 = 1
        BY <3>2, <4>4, <4>5
      <4> QED BY <4>4, <4>6
    <3> QED BY <3>1, <3>2, HeldOrigin
  <2> QED BY <2>1, <2>2, EntryOrigin
<1>2. ASSUME current'[p] = current'[o], p # o PROVE FALSE
  <2>1. CASE current'[p] = current[p] /\ current'[o] = current[o]
    BY <1>2, <2>1 DEF HeldOnce
  <2>2. ASSUME NEW x \in Plugins, NEW y \in Plugins, x # y, current'[x] = current'[y],
               queue_get(x), 1 \in 1..Len(queue[x]), current'[x] = queue[x][1], current'[y] # 0
        PROVE  FALSE
    <3>1. current'[y] = current[y]
      BY <2>2, GetEffect
    <3>2. InQueue(current[y], x)
      BY <2>2, <3>1 DEF InQueue
    <3> QED BY <2>2, <3>1, <3>2 DEF HeldOnce
  <2>3. CASE queue_get(p) /\ 1 \in 1..Len(queue[p]) /\ current'[p] = queue[p][1]
    BY <1>2, <2>2, <2>3
  <2>4. CASE queue_get(o) /\ 1 \in 1..Len(queue[o]) /\ current'[o] = queue[o][1]
    BY <1>2, <2>2, <2>4
  <2> QED BY <1>2, <2>1, <2>3, <2>4, HeldOrigin
<1> QED BY <1>1, <1>2

(* No request comes into anybody's hands but the one that has just arrived.*)
LEMMA HandsOrigin ==
  ASSUME Typed, [Next]_vars, NEW r \in Reqs, InHands(r)'
  PROVE  InHands(r) \/ r = last + 1
<1> USE DEF netVars, workerVars, NetHas
<1>1. CASE r = last' /\ npc' \in NetHas
  <2>1. CASE last' = last /\ npc \in NetHas
    BY <1>1, <2>1 DEF InHands
  <2>2. Net => last' = last + 1 \/ (last' = last /\ npc \in NetHas) \/ npc' \notin NetHas
    BY GivenUpEnds
       DEF Net, Arrives, parse_message_refused, parse_event_refused, parse_stats,
           parse_stats_fails, parse_event, Return, size_over_max,
           make_queue_long_entry, queue_lock, put_in_queue, queue_unlock, queue_signal
  <2>3. Signals \/ Stop \/ UNCHANGED vars => last' = last /\ (npc' = npc \/ npc' \notin NetHas)
    BY DEF Signals, passive_to_active_sighandler, exit_sighandler, Stop, raise_loop_should_stop,
           stop_driver, join_and_queue_free, mevent_stop_returns, vars
  <2>4. \A p \in Plugins : WorkerStep(p) => last' = last /\ (npc' = npc \/ npc' \notin NetHas)
    BY ProcessEnds
       DEF WorkerStep, worker_lock, queue_timedwait, queue_timedwait_fails,
           timedwait_timeout, timedwait_spurious, timedwait_relocks, queue_get,
           worker_unlock, test_entry, process_driver, process_driver_dies, Dies
  <2> QED BY <1>1, <2>1, <2>2, <2>3, <2>4 DEF Next, Worker, Dead
<1>2. ASSUME NEW p \in Plugins, InQueue(r, p)' PROVE InHands(r)
  <2> PICK i \in 1..Len(queue'[p]) : queue'[p][i] = r
    BY <1>2 DEF InQueue
  <2>1. CASE put_in_queue /\ r = last
    BY <2>1 DEF put_in_queue, InHands
  <2>2. CASE \E j \in 1..Len(queue[p]) : r = queue[p][j]
    BY <2>2 DEF InHands, InQueue
  <2> QED BY <2>1, <2>2, EntryOrigin
<1>3. ASSUME NEW p \in Plugins, current'[p] = r PROVE InHands(r)
  <2>1. r # 0
    BY BoundAssumption DEF Reqs
  <2>2. CASE current[p] = r
    BY <2>2 DEF InHands
  <2>3. CASE 1 \in 1..Len(queue[p]) /\ r = queue[p][1]
    BY <2>3 DEF InHands, InQueue
  <2> QED BY <1>3, <2>1, <2>2, <2>3, HeldOrigin
<1> QED BY <1>1, <1>2, <1>3 DEF InHands

(* A reply counts for its request only, once.                              *)
LEMMA ToldEffect ==
  ASSUME Typed, NEW t \in Reqs, Told(t), NEW r \in Reqs
  PROVE  /\ Answers(r) \in Nat /\ Answers(r)' \in Nat
         /\ r # t => Answers(r)' = Answers(r) /\ replies'[r] = replies[r]
         /\ Answers(t) = 0 => Answers(t)' = 1
         /\ torn' = torn \/ (torn' = torn \cup {t} /\ replies'[t] = replies[t] + 1)
<1> USE DEF Answers, Typed, TypeOK
<1>1. CASE Sent(t)
  <2>1. /\ replies'[r] = IF r = t THEN replies[r] + 1 ELSE replies[r]
        /\ replies'[t] = replies[t] + 1 /\ unsaid' = unsaid
        /\ torn' = torn \/ torn' = torn \cup {t}
        /\ replies[r] \in Nat /\ replies[t] \in Nat
    BY <1>1 DEF Sent
  <2> QED BY <2>1
<1>2. CASE Withheld(t)
  <2>1. /\ replies' = replies /\ torn' = torn /\ unsaid' = unsaid \cup {t}
        /\ replies[r] \in Nat /\ replies[t] \in Nat
    BY <1>2 DEF Withheld
  <2> QED BY <2>1
<1> QED BY <1>1, <1>2 DEF Told

(* Who is answered: a message that has just arrived and is refused, or     *)
(* asks for the statistics; one that finds no room or no memory; one that  *)
(* a worker has processed.                                                 *)
Refused(t) ==
  /\ t = last + 1 /\ last' = last + 1 /\ npc' = "event_loop"
  /\ queue' = queue /\ current' = current
GivenUp(t) ==
  /\ t = last /\ npc \in NetHas /\ last' = last /\ npc' = "event_loop"
  /\ queue' = queue /\ current' = current

(* A plugin is done with t, and the daemon lives.                          *)
Processed(t) == npc' = npc /\ \E p \in Plugins : process_driver(p) /\ t = current[p]

(* A reply is to a message refused, given up or processed by a plugin.     *)
LEMMA RepliesChange ==
  ASSUME Typed, [Next]_vars
  PROVE  \/ UNCHANGED replyVars
         \/ \E t \in Reqs : Told(t) /\ (Refused(t) \/ GivenUp(t) \/ Processed(t))
<1> USE DEF netVars, workerVars
<1>a. Arrives => last + 1 \in Reqs /\ last' = last + 1 /\ npc = "event_loop"
  BY BoundAssumption DEF Arrives, Typed, TypeOK, Reqs
<1>b. npc \in NetHas => last \in Reqs
  BY DEF Typed, TargetOK, NetHas, NetBusy, NetLoop
<1>1. ASSUME NEW sync, \/ parse_message_refused \/ parse_event_refused(sync)
                       \/ parse_stats(sync) \/ parse_stats_fails(sync)
      PROVE  UNCHANGED replyVars \/ (last + 1 \in Reqs /\ Told(last + 1) /\ Refused(last + 1))
  <2>1. /\ last + 1 \in Reqs /\ last' = last + 1
        /\ queue' = queue /\ current' = current
    BY <1>1, <1>a DEF parse_message_refused, parse_event_refused, parse_stats,
                      parse_stats_fails
  <2> QED BY <1>1, <2>1, RefusedEnds DEF Refused
<1>2. ASSUME NEW sync, NEW p \in Plugins, parse_event(p, sync) PROVE UNCHANGED replyVars
  BY <1>2 DEF parse_event
<1>3. CASE size_is_step \/ make_queue_long_entry_fails
  <2>1. /\ npc \in NetHas /\ last \in Reqs /\ queue' = queue /\ current' = current
    BY <1>3, <1>b DEF size_is_step, make_queue_long_entry_fails, NetHas
  <2> QED BY <1>3, <2>1, GivenUpEnds DEF GivenUp
<1>5. CASE size_over_max \/ make_queue_long_entry \/ queue_lock \/ put_in_queue \/ queue_unlock
           \/ queue_signal
  BY <1>5 DEF size_over_max, make_queue_long_entry, queue_lock, put_in_queue, queue_unlock,
              queue_signal
<1>6. CASE Signals \/ Stop \/ UNCHANGED vars
  BY <1>6 DEF Signals, passive_to_active_sighandler, exit_sighandler, Stop, raise_loop_should_stop,
              stop_driver, join_and_queue_free, mevent_stop_returns, vars
<1>7. ASSUME NEW p \in Plugins, WorkerStep(p)
      PROVE  \/ UNCHANGED replyVars
             \/ current[p] \in Reqs /\ Told(current[p]) /\ Processed(current[p])
  <2>1. CASE process_driver(p)
    <3>1. CASE current[p] \in syncs
      <4>1. current[p] \in Reqs
        BY <3>1 DEF Typed, TypeOK
      <4> QED BY <2>1, <3>1, <4>1, ProcessEnds DEF Processed
    <3>2. CASE current[p] \notin syncs
      BY <2>1, <3>2 DEF process_driver
    <3> QED BY <3>1, <3>2
  <2>2. CASE ~process_driver(p)
    BY <1>7, <2>2 DEF WorkerStep, worker_lock, queue_timedwait, queue_timedwait_fails,
           timedwait_timeout, timedwait_spurious, timedwait_relocks, queue_get,
           worker_unlock, test_entry, process_driver_dies, Dies
  <2> QED BY <2>1, <2>2
<1>8. CASE Net
  BY <1>1, <1>2, <1>3, <1>5, <1>8 DEF Net
<1> QED BY <1>6, <1>7, <1>8 DEF Next, Worker, Dead

(* Who is answered was not answered before, and nobody has it any more.    *)
LEMMA AnsweredStep ==
  Typed /\ Numbers /\ Once /\ [Next]_vars => (Answered /\ TornOnce)'
<1> SUFFICES ASSUME Typed, Numbers, Once, [Next]_vars PROVE Answered' /\ TornOnce'
  OBVIOUS
<1>0. HeldNumbers /\ HeldOnce /\ Answered /\ TornOnce
  BY DEF Once
<1>t. /\ last \in Nat /\ last' \in Nat /\ last <= last' /\ Handled \in Nat /\ Handled <= last
      /\ \A r \in Reqs : r \in Nat \ {0} /\ Answers(r) \in Nat
  BY Monotone, BoundAssumption DEF Answers, Reqs, Typed, TypeOK
<1>e. \A p \in Plugins : \A i \in 1..Len(queue[p]) : queue[p][i] \in Nat /\ queue[p][i] <= Handled
  BY EntriesAreNumbers DEF Numbers
<1>h. \A p \in Plugins : current[p] \in Nat /\ current[p] <= Handled
  BY <1>0, BoundAssumption DEF HeldNumbers, Typed, TypeOK, Reqs
<1>n. npc \in NetHas => Handled = last - 1
  BY DEF Handled
<1>1. ASSUME NEW r \in Reqs, Answers(r) > 0 PROVE r <= last' /\ ~ InHands(r)'
  <2>1. r <= last /\ ~ InHands(r)
    BY <1>0, <1>1 DEF Answered
  <2>2. r # last + 1
    BY <1>t, <2>1
  <2> QED BY <1>t, <2>1, <2>2, HandsOrigin
<1>2. ASSUME NEW t \in Reqs,
             Refused(t) \/ GivenUp(t) \/ Processed(t)
      PROVE  Answers(t) = 0 /\ t <= last' /\ ~ InHands(t)'
  <2>1. CASE Refused(t)
    <3>1. Answers(t) = 0
      BY <1>0, <1>t, <2>1 DEF Answered, Refused
    <3>2. ~ InHands(t)'
      BY <1>t, <1>e, <1>h, <2>1 DEF Refused, InHands, InQueue, NetHas
    <3> QED BY <1>t, <2>1, <3>1, <3>2 DEF Refused
  <2>2. CASE GivenUp(t)
    <3>1. Answers(t) = 0
      BY <1>0, <1>t, <2>2 DEF Answered, GivenUp, InHands
    <3>2. ~ InHands(t)'
      BY <1>t, <1>e, <1>h, <1>n, <2>2 DEF GivenUp, InHands, InQueue, NetHas
    <3> QED BY <1>t, <2>2, <3>1, <3>2 DEF GivenUp
  <2>3. ASSUME NEW p \in Plugins, process_driver(p), t = current[p], npc' = npc
        PROVE  Answers(t) = 0 /\ t <= last' /\ ~ InHands(t)'
    <3>0. /\ npc' = npc /\ last' = last /\ queue' = queue
          /\ \A o \in Plugins : current'[o] = IF o = p THEN 0 ELSE current[o]
      BY <2>3 DEF process_driver, netVars, Typed, TypeOK
    <3>1. Answers(t) = 0
      BY <1>0, <1>t, <2>3 DEF Answered, InHands
    <3>2. \A o \in Plugins : ~ InQueue(t, o) /\ (o # p => current[o] # t)
      BY <1>0, <1>t, <2>3 DEF HeldOnce
    <3>3. t <= Handled
      BY <1>h, <2>3
    <3>4. ~ (t = last /\ npc \in NetHas)
      BY <1>t, <1>n, <3>3
    <3>5. \A o \in Plugins : ~ InQueue(t, o)' /\ current'[o] # t
      BY <1>t, <3>0, <3>2 DEF InQueue
    <3>6. ~ InHands(t)'
      BY <3>0, <3>4, <3>5 DEF InHands
    <3> QED BY <1>t, <3>0, <3>1, <3>3, <3>6
  <2> QED BY <1>2, <2>1, <2>2, <2>3 DEF Processed
<1>3. CASE UNCHANGED replyVars
  <2>1. \A r \in Reqs : Answers(r)' = Answers(r)
    BY <1>3 DEF Answers, replyVars
  <2>2. TornOnce'
    BY <1>0, <1>3 DEF TornOnce, replyVars
  <2> QED BY <1>0, <1>1, <2>1, <2>2 DEF Answered
<1>4. ASSUME NEW t \in Reqs, Told(t), Refused(t) \/ GivenUp(t) \/ Processed(t)
      PROVE  Answered' /\ TornOnce'
  <2>1. Answers(t) = 0 /\ t <= last' /\ ~ InHands(t)'
    BY <1>2, <1>4
  <2>2. ASSUME NEW r \in Reqs
        PROVE  Answers(r)' <= 1 /\ (Answers(r)' > 0 => r <= last' /\ ~ InHands(r)')
    <3>1. CASE r = t
      BY <1>4, <2>1, <3>1, ToldEffect
    <3>2. CASE r # t
      <4>1. Answers(r)' = Answers(r)
        BY <1>4, <3>2, ToldEffect
      <4> QED BY <1>0, <1>1, <4>1 DEF Answered
    <3> QED BY <3>1, <3>2
  <2>3. TornOnce'
    <3>1. replies[t] = 0 /\ torn \subseteq Reqs
      BY <2>1 DEF Answers, Typed, TypeOK
    <3>2. t \notin torn
      BY <1>0, <3>1 DEF TornOnce
    <3>3. \A r \in torn : replies'[r] = 1
      BY <1>0, <1>4, <3>1, <3>2, ToldEffect DEF TornOnce
    <3>4. torn' = torn \/ (torn' = torn \cup {t} /\ replies'[t] = 1)
      BY <1>4, <3>1, ToldEffect
    <3> QED BY <3>3, <3>4 DEF TornOnce
  <2> QED BY <2>2, <2>3 DEF Answered
<1> QED BY <1>3, <1>4, RepliesChange

(* Every step of the daemon preserves Once.                                *)
LEMMA OnceStep == Typed /\ Numbers /\ Once /\ [Next]_vars => Once'
BY ApartStep, HeldNumbersStep, HeldOnceStep, AnsweredStep DEF Once

(* Nothing is held or answered at the start.                               *)
LEMMA InitOnce == Init => Once
<1> SUFFICES ASSUME Init PROVE Once
  OBVIOUS
<1>1. /\ \A p \in Plugins : Len(queue[p]) = 0 /\ current[p] = 0
      /\ \A r \in Reqs : Answers(r) = 0
      /\ torn = {}
  BY DEF Init, Answers
<1>2. Apart
  BY <1>1 DEF Apart
<1>3. HeldNumbers
  <2>1. Handled = 0 /\ 0 <= 0
    BY DEF Init, Handled, NetHas
  <2> QED BY <1>1, <2>1, Zenon DEF HeldNumbers
<1>4. HeldOnce
  BY <1>1 DEF HeldOnce
<1>5. Answered /\ TornOnce
  BY <1>1 DEF Answered, TornOnce
<1> QED BY <1>2, <1>3, <1>4, <1>5 DEF Once

-----------------------------------------------------------------------------
(* A worker holds a request from its queue_get to the end of               *)
(* process_driver only, so that the next queue_get overwrites none.        *)
HandsFree ==
  \A p \in Plugins : wpc[p] \notin {"unlock", "test", "process"} => current[p] = 0

(* Every step keeps the hands free.                                        *)
LEMMA HandsFreeStep == Typed /\ HandsFree /\ [Next]_vars => HandsFree'
<1> SUFFICES ASSUME Typed, HandsFree, [Next]_vars,
                    NEW p \in Plugins, wpc'[p] \notin {"unlock", "test", "process"}
             PROVE  current'[p] = 0
  BY DEF HandsFree
<1> USE DEF netVars, workerVars
<1>0. wpc \in [Plugins -> WorkerPcs] /\ current \in [Plugins -> Reqs \cup {0}]
  BY DEF Typed, TypeOK
<1>1. CASE Net
  <2>1. current' = current /\ (wpc' = wpc \/ queue_signal)
    BY <1>1 DEF Net, parse_message_refused, parse_event_refused, parse_stats,
          parse_stats_fails, parse_event, size_over_max, size_is_step,
          make_queue_long_entry, make_queue_long_entry_fails, queue_lock,
          put_in_queue, queue_unlock, queue_signal
  <2>2. wpc'[p] = wpc[p] \/ wpc[p] = "wait"
    BY <1>0, <2>1 DEF queue_signal
  <2> QED BY <2>1, <2>2 DEF HandsFree
<1>2. CASE Signals \/ Stop \/ UNCHANGED vars
  BY <1>2 DEF HandsFree, Signals, passive_to_active_sighandler, exit_sighandler, Stop,
              raise_loop_should_stop, stop_driver, join_and_queue_free,
              mevent_stop_returns, vars
<1>3. ASSUME NEW o \in Plugins, WorkerStep(o) PROVE current'[p] = 0
  <2>1. CASE o = p
    BY <1>0, <1>3, <2>1 DEF HandsFree, WorkerStep, worker_lock, queue_timedwait,
          queue_timedwait_fails, timedwait_timeout, timedwait_spurious, timedwait_relocks,
          queue_get, worker_unlock, test_entry, process_driver, process_driver_dies
  <2>2. CASE o # p
    <3>1. wpc'[p] = wpc[p] /\ current'[p] = current[p]
      BY <1>0, <1>3, <2>2 DEF WorkerStep, worker_lock, queue_timedwait,
          queue_timedwait_fails, timedwait_timeout, timedwait_spurious, timedwait_relocks,
          queue_get, worker_unlock, test_entry, process_driver, process_driver_dies
    <3> QED BY <3>1 DEF HandsFree
  <2> QED BY <2>1, <2>2
<1> QED BY <1>1, <1>2, <1>3 DEF Next, Worker, Dead

(* The daemon lives and has not freed a queue.                             *)
Serving == npc # "crashed" /\ \A p \in Plugins : driver[p] # "freed"

(* No synchronous request gets lost.                                       *)
Kept == Serving => \A r \in syncs : InHands(r) \/ Answers(r) = 1

(* Neither a death nor a queue that was freed is undone.                   *)
LEMMA ServingBefore ==
  ASSUME Typed, [Next]_vars, Serving'
  PROVE  Serving /\ ~ \E p \in Plugins : join_and_queue_free(p)
<1> USE DEF Serving, netVars, workerVars
<1>1. npc # "crashed"
  BY DEF Next, Net, Arrives, Signals, passive_to_active_sighandler, exit_sighandler, Stop,
         parse_message_refused, parse_event_refused, parse_stats, parse_stats_fails,
         parse_event, size_over_max, size_is_step, make_queue_long_entry,
         make_queue_long_entry_fails, queue_lock, put_in_queue, queue_unlock, queue_signal,
         raise_loop_should_stop, stop_driver, join_and_queue_free, mevent_stop_returns,
         Worker, Dead, vars
<1>2. \/ driver' = driver
      \/ \E p \in Plugins :
           raise_loop_should_stop(p) \/ stop_driver(p) \/ join_and_queue_free(p)
  BY DEF Next, Net, Signals, passive_to_active_sighandler, exit_sighandler, Stop,
         parse_message_refused, parse_event_refused, parse_stats, parse_stats_fails,
         parse_event, size_over_max, size_is_step, make_queue_long_entry,
         make_queue_long_entry_fails, queue_lock, put_in_queue, queue_unlock, queue_signal,
         mevent_stop_returns, Worker, Dead, vars, WorkerStep, worker_lock, queue_timedwait,
         queue_timedwait_fails, timedwait_timeout, timedwait_spurious, timedwait_relocks,
         queue_get, worker_unlock, test_entry, process_driver, process_driver_dies
<1>3. ASSUME NEW p \in Plugins, join_and_queue_free(p) PROVE FALSE
  BY <1>3 DEF join_and_queue_free, Typed, TypeOK
<1>4. ASSUME NEW p \in Plugins, driver[p] = "freed" PROVE driver'[p] = "freed"
  BY <1>2, <1>3, <1>4 DEF raise_loop_should_stop, stop_driver, Typed, TypeOK
<1> QED BY <1>1, <1>3, <1>4

(* Nobody lets go of a synchronous request without an answer to it.        *)
LEMMA HandsKept ==
  ASSUME Typed, HandsFree, [Next]_vars, Serving', NEW r \in syncs, r \in Reqs, InHands(r)
  PROVE  InHands(r)' \/ Told(r)
<1> USE DEF netVars, workerVars
<1>0. r # 0 /\ (\A p \in Plugins : ~ join_and_queue_free(p)) /\ npc' # "crashed"
  BY BoundAssumption, ServingBefore DEF Reqs, Serving
<1>1. CASE r = last /\ npc \in NetHas
  <2>1. CASE put_in_queue
    <3>1. target \in Plugins /\ Len(queue[target]) \in Nat
      BY <2>1, PutEffect, EntriesAreNumbers
    <3>2. \E i \in 1..Len(queue'[target]) : queue'[target][i] = last
      <4>1. Len(queue'[target]) = Len(queue[target]) + 1
        BY <2>1, PutEffect
      <4>2. 1 \in 1..Len(queue'[target]) /\ Len(queue[target]) + 1 \in 1..Len(queue'[target])
        BY <3>1, <4>1
      <4>3. CASE last \in syncs
        <5>1. queue'[target][1] = last
          BY <2>1, <4>2, <4>3, PutEffect
        <5> QED BY <4>2, <5>1
      <4> QED BY <1>1, <4>3
    <3>4. PICK t \in Plugins : t = target
      BY <3>1
    <3>5. InQueue(r, t)'
      BY <1>1, <3>2, <3>4 DEF InQueue
    <3> QED BY <3>4, <3>5 DEF InHands
  <2>2. CASE size_is_step \/ make_queue_long_entry_fails
    BY <1>0, <1>1, <2>2, GivenUpEnds DEF InHands, NetHas
  <2>3. ASSUME last' = last, npc' \in NetHas PROVE InHands(r)'
    BY <1>1, <2>3 DEF InHands
  <2>4. CASE Net /\ ~ put_in_queue /\ ~ size_is_step /\ ~ make_queue_long_entry_fails
    <3>1. last' = last /\ npc' \in NetHas
      BY <1>1, <2>4 DEF Net, Arrives, parse_message_refused, parse_event_refused, parse_stats,
           parse_stats_fails, parse_event, size_over_max,
           make_queue_long_entry, queue_lock, queue_unlock, queue_signal, NetHas
    <3> QED BY <2>3, <3>1
  <2>5. CASE Signals \/ Stop \/ UNCHANGED vars
    <3>1. last' = last /\ npc' \in NetHas
      BY <1>1, <2>5 DEF Signals, passive_to_active_sighandler, exit_sighandler, Stop,
           raise_loop_should_stop, stop_driver, join_and_queue_free, mevent_stop_returns,
           vars, NetHas
    <3> QED BY <2>3, <3>1
  <2>6. ASSUME NEW p \in Plugins, WorkerStep(p) PROVE last' = last /\ npc' = npc
    BY <1>0, <2>6, ProcessEnds
       DEF WorkerStep, worker_lock, queue_timedwait, queue_timedwait_fails,
           timedwait_timeout, timedwait_spurious, timedwait_relocks, queue_get,
           worker_unlock, test_entry, process_driver, process_driver_dies, Dies
  <2> QED BY <1>1, <2>1, <2>2, <2>3, <2>4, <2>5, <2>6 DEF Next, Worker, Dead
<1>2. ASSUME NEW p \in Plugins, NEW i \in 1..Len(queue[p]), queue[p][i] = r
      PROVE  InHands(r)'
  <2>0. Len(queue[p]) \in Nat /\ i \in Nat
    BY EntriesAreNumbers
  <2>1. ASSUME NEW j \in 1..Len(queue'[p]), queue'[p][j] = r PROVE InHands(r)'
    BY <2>1 DEF InHands, InQueue
  <2>2. CASE put_in_queue
    <3>1. \E j \in 1..Len(queue'[p]) : queue'[p][j] = r
      <4>1. CASE p # target
        BY <1>2, <2>2, <4>1, PutEffect
      <4>2. CASE p = target /\ last \in syncs
        <5>1. i + 1 \in 1..Len(queue'[p]) /\ queue'[p][i + 1] = r
          BY <1>2, <2>0, <2>2, <4>2, PutEffect
        <5> QED BY <5>1
      <4>3. CASE p = target /\ last \notin syncs
        <5>1. i \in 1..Len(queue'[p]) /\ queue'[p][i] = r
          BY <1>2, <2>0, <2>2, <4>3, PutEffect
        <5> QED BY <5>1
      <4> QED BY <4>1, <4>2, <4>3
    <3> QED BY <2>1, <3>1
  <2>3. ASSUME NEW o \in Plugins, queue_get(o) PROVE InHands(r)'
    <3>1. CASE o # p
      <4>1. i \in 1..Len(queue'[p]) /\ queue'[p][i] = r
        BY <1>2, <2>3, <3>1, GetEffect
      <4> QED BY <2>1, <4>1
    <3>2. CASE o = p /\ i = 1
      <4>1. current'[p] = r
        BY <1>2, <2>0, <2>3, <3>2, GetEffect
      <4> QED BY <4>1 DEF InHands
    <3>3. CASE o = p /\ i # 1
      <4>1. queue[p] # <<>>
        BY <1>2, <2>0
      <4>2. i - 1 \in 1..Len(queue'[p]) /\ queue'[p][i - 1] = queue[p][(i - 1) + 1]
        BY <2>0, <2>3, <3>3, <4>1, GetEffect
      <4>3. (i - 1) + 1 = i
        BY <2>0
      <4> QED BY <1>2, <2>1, <4>2, <4>3
    <3> QED BY <3>1, <3>2, <3>3
  <2>4. CASE queue' = queue
    BY <1>2, <2>1, <2>4
  <2> QED BY <1>0, <2>2, <2>3, <2>4, QueueChanges
<1>3. ASSUME NEW p \in Plugins, current[p] = r PROVE InHands(r)' \/ Told(r)
  <2>1. CASE current'[p] = current[p]
    BY <1>3, <2>1 DEF InHands
  <2>2. CASE \E o \in Plugins : queue_get(o)
    <3>1. PICK o \in Plugins : queue_get(o)
      BY <2>2
    <3>2. o # p
      BY <1>0, <1>3, <3>1 DEF HandsFree, queue_get
    <3> QED BY <2>1, <3>1, <3>2, GetEffect
  <2>3. ASSUME NEW o \in Plugins, process_driver(o) PROVE InHands(r)' \/ Told(r)
    <3>1. CASE o = p
      <4>1. process_driver(p)
        BY <2>3, <3>1
      <4> QED BY <1>0, <1>3, <4>1, ProcessEnds
    <3>2. CASE o # p
      <4>1. current'[p] = current[p]
        BY <2>3, <3>2 DEF process_driver, Typed, TypeOK
      <4> QED BY <2>1, <4>1
    <3> QED BY <3>1, <3>2
  <2> QED BY <2>1, <2>2, <2>3, CurrentChanges
<1> QED BY <1>1, <1>2, <1>3 DEF InHands, InQueue

(* A synchronous request that arrives is taken in hand or answered.        *)
LEMMA ArrivalKept ==
  ASSUME Typed, [Next]_vars, npc' # "crashed", NEW r \in syncs', r \notin syncs
  PROVE  r = last + 1 /\ r \in Reqs /\ (InHands(r)' \/ Told(r))
<1> USE DEF netVars, workerVars
<1>0. Arrives => last + 1 \in Reqs
  BY BoundAssumption DEF Arrives, Typed, TypeOK, Reqs
<1>1. ASSUME NEW sync \in {{}, {last + 1}},
             parse_event_refused(sync) \/ parse_stats(sync) \/ parse_stats_fails(sync)
      PROVE  r = last + 1 /\ r \in Reqs /\ Told(r)
  <2>1. Arrives /\ syncs' = syncs \cup sync
    BY <1>1 DEF parse_event_refused, parse_stats, parse_stats_fails
  <2>2. r = last + 1 /\ sync = {last + 1}
    BY <2>1
  <2>3. sync # {}
    BY <2>2
  <2> QED BY <1>0, <1>1, <2>1, <2>2, <2>3, RefusedEnds
<1>2. ASSUME NEW sync \in {{}, {last + 1}}, NEW p \in Plugins, parse_event(p, sync)
      PROVE  r = last + 1 /\ r \in Reqs /\ InHands(r)'
  <2>1. Arrives /\ last' = last + 1 /\ syncs' = syncs \cup sync /\ npc' = "max"
    BY <1>2 DEF parse_event, Arrives
  <2>2. r = last + 1
    BY <2>1
  <2> QED BY <1>0, <2>1, <2>2 DEF InHands, NetHas
<1>3. CASE Net
  BY <1>1, <1>2, <1>3 DEF Net, parse_message_refused, size_over_max, size_is_step,
        make_queue_long_entry, make_queue_long_entry_fails, queue_lock, put_in_queue,
        queue_unlock, queue_signal
<1>4. CASE Signals \/ Stop \/ UNCHANGED vars
  BY <1>4 DEF Signals, passive_to_active_sighandler, exit_sighandler, Stop,
        raise_loop_should_stop, stop_driver, join_and_queue_free, mevent_stop_returns, vars
<1>5. ASSUME NEW p \in Plugins, WorkerStep(p) PROVE syncs' = syncs
  BY <1>5 DEF WorkerStep, worker_lock, queue_timedwait, queue_timedwait_fails,
        timedwait_timeout, timedwait_spurious, timedwait_relocks, queue_get,
        worker_unlock, test_entry, process_driver, process_driver_dies
<1> QED BY <1>3, <1>4, <1>5 DEF Next, Worker, Dead

(* Every step keeps every synchronous request.                             *)
LEMMA KeptStep ==
  Typed /\ Numbers /\ Once /\ HandsFree /\ Kept /\ [Next]_vars => Kept'
<1> SUFFICES ASSUME Typed, Numbers, Once, HandsFree, Kept, [Next]_vars, Serving',
                    NEW r \in syncs'
             PROVE  InHands(r)' \/ Answers(r)' = 1
  BY DEF Kept
<1>1. Serving /\ npc' # "crashed"
  BY ServingBefore DEF Serving
<1>2. Answered /\ Answered' /\ r \in Reqs
  <2>1. Typed' /\ Once'
    BY TypeStep, OnceStep
  <2> QED BY <2>1 DEF Once, Typed, TypeOK
<1>3. Answers(r) \in Nat /\ Answers(r) <= 1
  BY <1>2 DEF Answered, Answers, Typed, TypeOK
<1>4. ASSUME Told(r) PROVE Answers(r)' = 1
  <2>1. CASE Answers(r) = 0
    BY <1>2, <1>4, <2>1, ToldEffect
  <2>2. CASE Answers(r) = 1
    <3>1. Answers(r)' \in Nat /\ Answers(r)' <= 1
      BY <1>2, <1>4, ToldEffect DEF Answered
    <3>2. Answers(r)' >= 1
      <4>1. replies[r] \in Nat /\ r \in DOMAIN replies
        BY <1>2 DEF Typed, TypeOK
      <4>2. CASE Sent(r)
        BY <2>2, <4>1, <4>2 DEF Sent, Answers
      <4>3. CASE Withheld(r)
        BY <2>2, <4>1, <4>3 DEF Withheld, Answers
      <4> QED BY <1>4, <4>2, <4>3 DEF Told
    <3> QED BY <3>1, <3>2
  <2> QED BY <1>3, <2>1, <2>2
<1>5. CASE r \notin syncs
  BY <1>1, <1>4, <1>5, ArrivalKept
<1>6. CASE r \in syncs /\ InHands(r)
  BY <1>2, <1>4, <1>6, HandsKept
<1>7. CASE r \in syncs /\ Answers(r) = 1
  <2>1. CASE UNCHANGED replyVars
    BY <1>7, <2>1 DEF Answers, replyVars
  <2>2. ASSUME NEW t \in Reqs, Told(t) PROVE Answers(r)' = 1
    <3>1. CASE t = r
      BY <1>4, <2>2, <3>1
    <3>2. CASE t # r
      BY <1>2, <1>7, <2>2, <3>2, ToldEffect
    <3> QED BY <3>1, <3>2
  <2> QED BY <2>1, <2>2, RepliesChange
<1> QED BY <1>1, <1>5, <1>6, <1>7 DEF Kept

(* For any plugins and messages, no request is in two places, none that    *)
(* was answered is still in anybody's hands, and so no client gets two     *)
(* whole replies: not from the busy test and a worker, nor from two        *)
(* workers, nor from a worker that serves an entry again, nor from a send  *)
(* that failed.  And none is forgotten: until the queues are freed a       *)
(* synchronous request is in somebody's hands or has been answered.        *)
THEOREM OneReplyHolds == Spec => []OneReply
<1>1. Once /\ Kept => OneReply
  BY DEF Once, HeldOnce, Answered, TornOnce, Kept, Serving, OneReply
<1>2. Init => HandsFree /\ Kept
  BY DEF Init, HandsFree, Kept
<1> QED BY <1>1, <1>2, InitTyped, TypeStep, InitNumbers, NumbersStep, InitOnce, OnceStep,
           HandsFreeStep, KeptStep, PTL DEF Spec
=============================================================================
