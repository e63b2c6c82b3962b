----------------------------- MODULE MeventLive -----------------------------
(***************************************************************************)
(* What must eventually happen in the daemon of module Mevent, and the     *)
(* fairness it needs.                                                      *)
(***************************************************************************)
EXTENDS Mevent

CONSTANT Slow  (* the plugins whose process_driver may never return *)

ASSUME SlowAssumption == Slow \subseteq Plugins

(* Messages keep coming: once the last message is in nobody's hands its    *)
(* number is free for another one.  Only the bound MaxReq asks for this    *)
(* step; it makes MaxReq the number of messages under way at a time.       *)
NumberFreed ==
  /\ npc = "event_loop"
  /\ last > 0
  /\ ~ InHands(last)
  /\ last' = last - 1
  /\ syncs' = syncs \ {last}
  /\ torn' = torn \ {last}
  /\ unsaid' = unsaid \ {last}
  /\ replies' = [replies EXCEPT ![last] = 0]
  /\ seen' = [p \in Plugins |-> IF seen[p] = last THEN last - 1 ELSE seen[p]]
  /\ UNCHANGED <<npc, target, mode, queue, lock, workerVars, driver>>

EndlessNext == Next \/ NumberFreed

Alive(A) == npc # "crashed" /\ A

(* The network thread goes on with a message it has started and with the   *)
(* shutdown.                                                               *)
NetFairness ==
  /\ WF_vars(\/ size_over_max \/ size_is_step \/ make_queue_long_entry
             \/ put_in_queue \/ queue_unlock \/ queue_signal)
  /\ WF_vars(Stop)

(* A worker goes on with its loop.  Its wait ends: however often it is cut *)
(* short, the second that was set before the loop passes.                  *)
WorkerFairness(p) ==
  /\ WF_vars(Alive(\/ queue_timedwait(p) \/ queue_get(p)
                   \/ worker_unlock(p) \/ test_entry(p)))
  /\ SF_vars(Alive(timedwait_timeout(p)))

(* A thread that wants the mutex gets it, although it may find it taken    *)
(* many times: the other one holds it for a few instructions only, between *)
(* waits of a second or between messages.                                  *)
LockFairness ==
  /\ SF_vars(queue_lock)
  /\ \A p \in Plugins : SF_vars(Alive(worker_lock(p) \/ timedwait_relocks(p)))

(* Nothing is assumed of messages, signals and failures, nor of a plugin   *)
(* in Slow once it has been handed a request.                              *)
Fairness ==
  /\ NetFairness
  /\ LockFairness
  /\ \A p \in Plugins : WorkerFairness(p)
  /\ \A p \in Plugins \ Slow : WF_vars(Alive(process_driver(p)))

FairSpec == Init /\ [][EndlessNext]_vars /\ Fairness

-----------------------------------------------------------------------------
(* Lying in a plugin's queue, or in its hands.                             *)
Has(p, r) == InQueue(r, p) \/ current[p] = r

(* Synchronous requests to p never stop coming.  Each is put in front of   *)
(* what waits there, the synchronous requests that came before it included *)
(* (queue_cas), so that a worker that always finds a new one may leave the *)
(* others waiting for ever.                                                *)
Overtaken(p) == []<>(npc = "put" /\ target = p /\ last \in syncs)

(* Every synchronous request is answered, unless it is for a plugin that   *)
(* hangs or is overtaken without end, or the daemon stops or dies: "a slow *)
(* backend does not affect the others" (event/README), because each has    *)
(* its own queue and thread and the network thread waits for none of them. *)
SyncAnswered ==
  \A r \in Reqs :
    \/ r \in syncs ~> \/ Answers(r) > 0
                      \/ npc \in NetStop
                      \/ \E p \in Slow : Has(p, r)
    \/ \E p \in Plugins \ Slow : Overtaken(p)

(* Nobody signals an asynchronous request, and still its plugin gets to it *)
(* and finishes it, however many messages come: the worker wakes every     *)
(* second, and only synchronous requests go before those that wait.        *)
EventuallyServed ==
  \A p \in Plugins \ Slow, r \in Reqs :
    \/ Has(p, r) ~> ~ Has(p, r) \/ npc = "crashed"
    \/ Overtaken(p)

(* SIGTERM ends the daemon: every worker notices the flag, none is left    *)
(* waiting for a mutex or a signal, and the queues are freed.  Only a      *)
(* plugin that hangs keeps it from ending.                                 *)
ShutdownEnds ==
  npc = "stopping" ~> \/ npc \in {"exit", "crashed"}
                      \/ \E p \in Slow : wpc[p] = "process"
=============================================================================
