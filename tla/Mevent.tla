------------------------------- MODULE Mevent -------------------------------
(***************************************************************************)
(* The event daemon of event/daemon: the network thread that parses a      *)
(* message and puts it in the queue of the plugin it names (parse.c), the  *)
(* worker thread of each plugin that takes requests from its queue and     *)
(* hands them to the plugin (mevent.c), and the shutdown (main.c, net.c).  *)
(*                                                                         *)
(* The network thread is libevent's single loop: messages, signals and the *)
(* shutdown are handled by it one at a time.  It shares with each worker   *)
(* the queue, its mutex and its condition variable, and the flag that      *)
(* tells the worker to stop.  A handler that touches none of these is one  *)
(* step; the others are cut at every access to what is shared, the two     *)
(* reads of the queue's size without its lock included.                    *)
(*                                                                         *)
(* A queue is the sequence of its requests, which module Queue justifies.  *)
(* A request is its number in order of arrival.  What it carries, the      *)
(* connection it came by and the plugin's work on it are left out; so are  *)
(* the alarms, the log and the statistics counters.                        *)
(***************************************************************************)
EXTENDS Integers, Sequences

CONSTANTS
  Plugins,          (* the plugins mevent_start() loaded                    *)
  NoPlugin,         (* no plugin                                            *)
  MaxReq,           (* bound: how many messages arrive                      *)
  MAX_QUEUE_ENTRY,  (* queue.h: 1048576                                     *)
  BUSY_STEP,        (* the 100 of the busy test in put_in_queue_long        *)
  QUEUE_CAP,        (* a multiple of BUSY_STEP above MAX_QUEUE_ENTRY:       *)
                    (* 1048600 is the least one in the code                 *)
  Faults            (* which of these events the environment may cause      *)

ASSUME PluginAssumption == NoPlugin \notin Plugins
ASSUME BoundAssumption == MaxReq \in Nat
ASSUME BusyAssumption ==
  /\ MAX_QUEUE_ENTRY \in Nat
  /\ BUSY_STEP \in Nat \ {0}
  /\ QUEUE_CAP \in Nat
  /\ QUEUE_CAP > MAX_QUEUE_ENTRY
  /\ QUEUE_CAP % BUSY_STEP = 0
ASSUME FaultAssumption ==
  Faults \subseteq {"malloc", "send", "timedwait", "sigterm", "sigusr2"}

Reqs == 1..MaxReq

VARIABLES
  npc,      (* where the network thread is                                  *)
  last,     (* the number of the last message received                      *)
  target,   (* the plugin the message being handled is for                  *)
  syncs,    (* the requests with FLAGS_SYNC                                 *)
  mode,     (* settings.passive                                             *)
  replies,  (* how many whole replies were sent to each request's client    *)
  torn,     (* the requests whose reply follows a piece of another one      *)
  unsaid,   (* history: the requests whose reply a passive server withheld  *)
  queue,    (* e->op_queue                                                  *)
  lock,     (* who holds e->op_queue->lock                                  *)
  wpc,      (* where each plugin's worker is                                *)
  current,  (* the entry the worker holds, 0 when NULL                      *)
  driver,   (* how far mevent_stop_driver() got with the plugin             *)
  seen      (* history: the last message handled when the worker last looked *)

netVars == <<npc, last, target, syncs, mode>>
replyVars == <<replies, torn, unsaid>>
workerVars == <<wpc, current>>
vars == <<netVars, replyVars, queue, lock, workerVars, driver, seen>>

NetLoop == {"event_loop", "max", "mod", "make", "lock", "put", "unlock", "signal"}
NetStop == {"stopping", "exit", "crashed"}
NetHolds == {"put", "unlock"}
WorkerHolds == {"check", "timedout", "unlock"}
WorkerPcs == WorkerHolds \cup {"lock", "wait", "relock", "relock_timedout",
                               "test", "process", "exited"}
NetHas == {"max", "mod", "make", "lock", "put"}

TypeOK ==
  /\ npc \in NetLoop \cup NetStop
  /\ last \in 0..MaxReq
  /\ target \in Plugins \cup {NoPlugin}
  /\ syncs \subseteq Reqs
  /\ mode \in {"active", "passive"}
  /\ replies \in [Reqs -> Nat]
  /\ torn \subseteq Reqs
  /\ unsaid \subseteq Reqs
  /\ queue \in [Plugins -> Seq(Reqs)]
  /\ lock \in [Plugins -> {"free", "net", "worker"}]
  /\ wpc \in [Plugins -> WorkerPcs]
  /\ current \in [Plugins -> Reqs \cup {0}]
  /\ driver \in [Plugins -> {"running", "told", "stopped", "freed"}]
  /\ seen \in [Plugins -> 0..MaxReq]

(* mevent_start(): the queues are empty and each worker enters its loop.   *)
Init ==
  /\ npc = "event_loop"
  /\ last = 0
  /\ target = NoPlugin
  /\ syncs = {}
  /\ mode \in {"active", "passive"}
  /\ replies = [r \in Reqs |-> 0]
  /\ torn = {}
  /\ unsaid = {}
  /\ queue = [p \in Plugins |-> <<>>]
  /\ lock = [p \in Plugins |-> "free"]
  /\ wpc = [p \in Plugins |-> "lock"]
  /\ current = [p \in Plugins |-> 0]
  /\ driver = [p \in Plugins |-> "running"]
  /\ seen = [p \in Plugins |-> 0]

-----------------------------------------------------------------------------
(* Replies *)

(* The daemon dies with all its threads.                                   *)
Dies == npc' = "crashed" /\ UNCHANGED replyVars

(* A reply is on its way: as it is, or the error REP_ERR_SEND in its place *)
(* and perhaps behind a piece of it.                                       *)
Sent(r) ==
  /\ replies' = [replies EXCEPT ![r] = @ + 1]
  /\ \/ UNCHANGED torn
     \/ "send" \in Faults /\ torn' = torn \cup {r}
  /\ UNCHANGED unsaid

Withheld(r) == unsaid' = unsaid \cup {r} /\ UNCHANGED <<replies, torn>>

(* reply_mini and reply_long, which end in rep_send, and where the network *)
(* thread is then.  A passive server sends nothing.  A send that would     *)
(* block is tried again.  After one that fails otherwise rep_send leaves   *)
(* what it has sent and calls itself with the bare error REP_ERR_SEND,     *)
(* until an error is sent whole or the daemon dies: of SIGPIPE, which      *)
(* nobody catches, or of a full stack.                                     *)
Reply(r, pc) ==
  \/ mode = "passive" /\ npc' = pc /\ Withheld(r)
  \/ mode = "active" /\ npc' = pc /\ Sent(r)
  \/ mode = "active" /\ "send" \in Faults /\ Dies

ReplyIfSync(r, pc) ==
  IF r \in syncs THEN Reply(r, pc) ELSE npc' = pc /\ UNCHANGED replyVars

(* The answer, a bare code if there is none, or an error if there is no    *)
(* memory to pack it or packing fails: one reply on each path, except that *)
(* reply_long uses the memory it asked for without a look at it.           *)
reply_trigger(r, pc) ==
  \/ Reply(r, pc)
  \/ mode = "active" /\ "malloc" \in Faults /\ Dies

-----------------------------------------------------------------------------
(* The network thread: parse.c *)

(* A message arrives while the loop is idle.                               *)
Arrives ==
  /\ npc = "event_loop"
  /\ last < MaxReq
  /\ last' = last + 1

(* Too short, or of another version: answered whatever its flags say.      *)
parse_message_refused ==
  /\ Arrives
  /\ Reply(last', npc)
  /\ UNCHANGED <<target, syncs, mode, queue, lock, workerVars, driver, seen>>

(* parse_event: FLAGS_SYNC is read, then the payload is found broken or    *)
(* names no plugin; only a synchronous request is told.                    *)
parse_event_refused(sync) ==
  /\ Arrives
  /\ syncs' = syncs \cup sync
  /\ IF sync # {} THEN Reply(last', npc) ELSE UNCHANGED <<npc, replyVars>>
  /\ UNCHANGED <<target, mode, queue, lock, workerVars, driver, seen>>

(* "Reserve.Status": parse_stats answers in the network thread, whatever   *)
(* the flags say.                                                          *)
parse_stats(sync) ==
  /\ Arrives
  /\ syncs' = syncs \cup sync
  /\ reply_trigger(last', npc)
  /\ UNCHANGED <<target, mode, queue, lock, workerVars, driver, seen>>

(* The entry parse_stats needs cannot be allocated (see                    *)
(* make_queue_long_entry_fails for the crash).                             *)
parse_stats_fails(sync) ==
  /\ "malloc" \in Faults
  /\ Arrives
  /\ syncs' = syncs \cup sync
  /\ \/ IF sync # {} THEN Reply(last', npc) ELSE UNCHANGED <<npc, replyVars>>
     \/ Dies
  /\ UNCHANGED <<target, mode, queue, lock, workerVars, driver, seen>>

(* The message is whole and names plugin p.                                *)
parse_event(p, sync) ==
  /\ Arrives
  /\ syncs' = syncs \cup sync
  /\ target' = p
  /\ npc' = "max"
  /\ UNCHANGED <<mode, replyVars, queue, lock, workerVars, driver, seen>>

(* put_in_queue_long returns and the loop is idle again, after an error    *)
(* to a synchronous request or without one.                                *)
Return == npc' = "event_loop" /\ target' = NoPlugin
ReturnReplying == ReplyIfSync(last, "event_loop") /\ target' = NoPlugin

(* size > MAX_QUEUE_ENTRY, read without the lock ...                       *)
size_over_max ==
  /\ npc = "max"
  /\ npc' = IF Len(queue[target]) > MAX_QUEUE_ENTRY THEN "mod" ELSE "make"
  /\ UNCHANGED <<last, target, syncs, mode, replyVars, queue, lock, workerVars,
                 driver, seen>>

(* A mutant: a full queue takes the request all the same.                  *)
BusyTestDropped ==
  /\ npc = "mod"
  /\ npc' = "make"
  /\ UNCHANGED <<last, target, syncs, mode, replyVars, queue, lock, workerVars,
                 driver, seen>>

(* A mutant: a request is told that the queue is busy and then put in it.  *)
BusyGoesOn ==
  /\ npc = "mod"
  /\ IF Len(queue[target]) % BUSY_STEP = 0
       THEN ReplyIfSync(last, "make")
       ELSE npc' = "make" /\ UNCHANGED replyVars
  /\ UNCHANGED <<last, target, syncs, mode, queue, lock, workerVars, driver, seen>>

(* ... and size % 100 == 0, read again: the worker may have run meanwhile. *)
size_is_step ==
  /\ npc = "mod"
  /\ IF Len(queue[target]) % BUSY_STEP = 0
       THEN ReturnReplying
       ELSE npc' = "make" /\ UNCHANGED <<target, replyVars>>
  /\ UNCHANGED <<last, syncs, mode, queue, lock, workerVars, driver, seen>>

make_queue_long_entry ==
  /\ npc = "make"
  /\ npc' = "lock"
  /\ UNCHANGED <<last, target, syncs, mode, replyVars, queue, lock, workerVars,
                 driver, seen>>

(* A mutant: nobody is told that there is no memory.                       *)
MakeFailsSilently ==
  /\ "malloc" \in Faults
  /\ npc = "make"
  /\ Return
  /\ UNCHANGED <<last, syncs, mode, replyVars, queue, lock, workerVars, driver, seen>>

(* An allocation fails.  queue_entry_free() then reads e->req, which       *)
(* nobody has set when it is the copy of the name that failed: what the    *)
(* heap left there is NULL, or an address whose release kills the daemon.  *)
make_queue_long_entry_fails ==
  /\ "malloc" \in Faults
  /\ npc = "make"
  /\ \/ ReturnReplying
     \/ Dies /\ UNCHANGED target
  /\ UNCHANGED <<last, syncs, mode, queue, lock, workerVars, driver, seen>>

(* A mutant: the entry is put in the queue without its lock.               *)
PutUnlocked ==
  /\ npc = "lock"
  /\ npc' = "put"
  /\ UNCHANGED <<last, target, syncs, mode, replyVars, queue, lock, workerVars,
                 driver, seen>>

queue_lock ==
  /\ npc = "lock"
  /\ lock[target] = "free"
  /\ lock' = [lock EXCEPT ![target] = "net"]
  /\ npc' = "put"
  /\ UNCHANGED <<last, target, syncs, mode, replyVars, queue, workerVars, driver, seen>>

(* queue.c, with the lock held.                                            *)
queue_put(q, r) == Append(q, r)
queue_cas(q, r) == <<r>> \o q

(* A mutant: nobody jumps the queue.                                       *)
PutAllBack ==
  /\ npc = "put"
  /\ queue' = [queue EXCEPT ![target] = queue_put(@, last)]
  /\ npc' = "unlock"
  /\ UNCHANGED <<last, target, syncs, mode, replyVars, lock, workerVars, driver, seen>>

(* A mutant: the entry that could not be made, NULL, is put in the queue.  *)
PutNull ==
  /\ npc = "put"
  /\ \E r \in {last, 0} : queue' = [queue EXCEPT ![target] = queue_put(@, r)]
  /\ npc' = "unlock"
  /\ UNCHANGED <<last, target, syncs, mode, replyVars, lock, workerVars, driver, seen>>

put_in_queue ==
  /\ npc = "put"
  /\ queue' = [queue EXCEPT ![target] =
                 IF last \in syncs THEN queue_cas(@, last) ELSE queue_put(@, last)]
  /\ npc' = "unlock"
  /\ UNCHANGED <<last, target, syncs, mode, replyVars, lock, workerVars, driver, seen>>

(* A mutant: the worker is never signalled.                                *)
UnlockNoSignal ==
  /\ npc = "unlock"
  /\ lock' = [lock EXCEPT ![target] = "free"]
  /\ Return
  /\ UNCHANGED <<last, syncs, mode, replyVars, queue, workerVars, driver, seen>>

(* Only a synchronous request is signalled, after the lock is released.    *)
queue_unlock ==
  /\ npc = "unlock"
  /\ lock' = [lock EXCEPT ![target] = "free"]
  /\ IF last \in syncs THEN npc' = "signal" /\ UNCHANGED target ELSE Return
  /\ UNCHANGED <<last, syncs, mode, replyVars, queue, workerVars, driver, seen>>

(* A worker that waits leaves the wait; with none waiting nothing happens. *)
queue_signal ==
  /\ npc = "signal"
  /\ wpc' = IF wpc[target] = "wait" THEN [wpc EXCEPT ![target] = "relock"] ELSE wpc
  /\ Return
  /\ UNCHANGED <<last, syncs, mode, replyVars, queue, lock, current, driver, seen>>

-----------------------------------------------------------------------------
(* Signals, and the shutdown that follows event_loopexit(): net.c, main.c  *)

passive_to_active_sighandler ==
  /\ "sigusr2" \in Faults
  /\ npc = "event_loop"
  /\ mode' = IF mode = "active" THEN "passive" ELSE "active"
  /\ UNCHANGED <<npc, last, target, syncs, replyVars, queue, lock, workerVars,
                 driver, seen>>

exit_sighandler ==
  /\ "sigterm" \in Faults
  /\ npc = "event_loop"
  /\ npc' = "stopping"
  /\ UNCHANGED <<last, target, syncs, mode, replyVars, queue, lock, workerVars,
                 driver, seen>>

(* mevent_stop_driver(), one plugin after the other: the flag is raised,   *)
(* the plugin releases what it holds, the worker is joined and the queue   *)
(* freed with the entries that are left in it.                             *)
raise_loop_should_stop(p) ==
  /\ npc = "stopping"
  /\ \A o \in Plugins : driver[o] \in {"running", "freed"}
  /\ driver[p] = "running"
  /\ driver' = [driver EXCEPT ![p] = "told"]
  /\ UNCHANGED <<netVars, replyVars, queue, lock, workerVars, seen>>

stop_driver(p) ==
  /\ npc = "stopping"
  /\ driver[p] = "told"
  /\ driver' = [driver EXCEPT ![p] = "stopped"]
  /\ UNCHANGED <<netVars, replyVars, queue, lock, workerVars, seen>>

join_and_queue_free(p) ==
  /\ npc = "stopping"
  /\ driver[p] = "stopped"
  /\ wpc[p] = "exited"
  /\ driver' = [driver EXCEPT ![p] = "freed"]
  /\ queue' = [queue EXCEPT ![p] = <<>>]
  /\ UNCHANGED <<netVars, replyVars, lock, workerVars, seen>>

(* main() returns.                                                         *)
mevent_stop_returns ==
  /\ npc = "stopping"
  /\ \A p \in Plugins : driver[p] = "freed"
  /\ npc' = "exit"
  /\ UNCHANGED <<last, target, syncs, mode, replyVars, queue, lock, workerVars,
                 driver, seen>>

-----------------------------------------------------------------------------
(* The worker of plugin p: mevent_start_base_entry *)

worker_lock(p) ==
  /\ wpc[p] = "lock"
  /\ lock[p] = "free"
  /\ lock' = [lock EXCEPT ![p] = "worker"]
  /\ wpc' = [wpc EXCEPT ![p] = "check"]
  /\ UNCHANGED <<netVars, replyVars, queue, current, driver, seen>>

(* The queue is empty: the wait releases the lock.                         *)
queue_timedwait(p) ==
  /\ wpc[p] = "check"
  /\ queue[p] = <<>>
  /\ lock' = [lock EXCEPT ![p] = "free"]
  /\ wpc' = [wpc EXCEPT ![p] = "wait"]
  /\ UNCHANGED <<netVars, replyVars, queue, current, driver, seen>>

(* pthread_cond_timedwait() fails at once, the mutex as it was; the loop   *)
(* starts over.                                                            *)
queue_timedwait_fails(p) ==
  /\ "timedwait" \in Faults
  /\ wpc[p] = "check"
  /\ queue[p] = <<>>
  /\ wpc' = [wpc EXCEPT ![p] = "lock"]
  /\ UNCHANGED <<netVars, replyVars, queue, lock, current, driver, seen>>

(* A mutant: the wait has no time limit.                                   *)
WaitForever(p) ==
  /\ wpc[p] = "wait"
  /\ UNCHANGED vars

(* The second that was set before the loop has passed, ...                 *)
timedwait_timeout(p) ==
  /\ wpc[p] = "wait"
  /\ wpc' = [wpc EXCEPT ![p] = "relock_timedout"]
  /\ UNCHANGED <<netVars, replyVars, queue, lock, current, driver, seen>>

(* ... or the wait ends for no reason, as POSIX allows.                    *)
timedwait_spurious(p) ==
  /\ wpc[p] = "wait"
  /\ wpc' = [wpc EXCEPT ![p] = "relock"]
  /\ UNCHANGED <<netVars, replyVars, queue, lock, current, driver, seen>>

timedwait_relocks(p) ==
  /\ wpc[p] \in {"relock", "relock_timedout"}
  /\ lock[p] = "free"
  /\ lock' = [lock EXCEPT ![p] = "worker"]
  /\ wpc' = [wpc EXCEPT ![p] = IF wpc[p] = "relock" THEN "check" ELSE "timedout"]
  /\ UNCHANGED <<netVars, replyVars, queue, current, driver, seen>>

(* The last message the network thread has put in a queue or refused.      *)
Handled == IF npc \in NetHas THEN last - 1 ELSE last

(* There is an entry, or the second has passed.                            *)
queue_get(p) ==
  /\ \/ wpc[p] = "check" /\ queue[p] # <<>>
     \/ wpc[p] = "timedout"
  /\ IF queue[p] = <<>>
       THEN current' = [current EXCEPT ![p] = 0] /\ UNCHANGED queue
       ELSE /\ current' = [current EXCEPT ![p] = Head(queue[p])]
            /\ queue' = [queue EXCEPT ![p] = Tail(@)]
  /\ wpc' = [wpc EXCEPT ![p] = "unlock"]
  /\ seen' = [seen EXCEPT ![p] = Handled]
  /\ UNCHANGED <<netVars, replyVars, lock, driver>>

worker_unlock(p) ==
  /\ wpc[p] = "unlock"
  /\ lock' = [lock EXCEPT ![p] = "free"]
  /\ wpc' = [wpc EXCEPT ![p] = "test"]
  /\ UNCHANGED <<netVars, replyVars, queue, current, driver, seen>>

(* A mutant: the flag is looked at before the entry.                       *)
TestFlagFirst(p) ==
  /\ wpc[p] = "test"
  /\ wpc' = [wpc EXCEPT ![p] = IF driver[p] # "running" THEN "exited"
                               ELSE IF current[p] # 0 THEN "process"
                               ELSE "lock"]
  /\ UNCHANGED <<netVars, replyVars, queue, lock, current, driver, seen>>

(* A mutant: nobody looks at the flag.                                     *)
TestNoFlag(p) ==
  /\ wpc[p] = "test"
  /\ wpc' = [wpc EXCEPT ![p] = IF current[p] # 0 THEN "process" ELSE "lock"]
  /\ UNCHANGED <<netVars, replyVars, queue, lock, current, driver, seen>>

(* No entry: the loop goes on, or ends when the flag is up.                *)
test_entry(p) ==
  /\ wpc[p] = "test"
  /\ wpc' = [wpc EXCEPT ![p] = IF current[p] # 0 THEN "process"
                               ELSE IF driver[p] = "running" THEN "lock"
                               ELSE "exited"]
  /\ UNCHANGED <<netVars, replyVars, queue, lock, current, driver, seen>>

(* process_driver is done: it answers a synchronous request and the entry  *)
(* is freed.                                                               *)
process_driver(p) ==
  /\ wpc[p] = "process"
  /\ IF current[p] \in syncs
       THEN reply_trigger(current[p], npc)
       ELSE UNCHANGED <<npc, replyVars>>
  /\ current' = [current EXCEPT ![p] = 0]
  /\ wpc' = [wpc EXCEPT ![p] = "lock"]
  /\ UNCHANGED <<last, target, syncs, mode, queue, lock, driver, seen>>

(* The plugin's connection and cache are freed under process_driver: it    *)
(* goes on with what the heap still holds, or the daemon dies.             *)
process_driver_dies(p) ==
  /\ wpc[p] = "process"
  /\ driver[p] = "stopped"
  /\ Dies
  /\ UNCHANGED <<last, target, syncs, mode, queue, lock, workerVars, driver, seen>>

-----------------------------------------------------------------------------
Net ==
  \/ parse_message_refused
  \/ \E sync \in {{}, {last + 1}} :
       \/ parse_event_refused(sync)
       \/ parse_stats(sync) \/ parse_stats_fails(sync)
       \/ \E p \in Plugins : parse_event(p, sync)
  \/ size_over_max \/ size_is_step
  \/ make_queue_long_entry \/ make_queue_long_entry_fails
  \/ queue_lock \/ put_in_queue \/ queue_unlock \/ queue_signal

Signals == passive_to_active_sighandler \/ exit_sighandler

Stop ==
  \/ \E p \in Plugins :
       raise_loop_should_stop(p) \/ stop_driver(p) \/ join_and_queue_free(p)
  \/ mevent_stop_returns

WorkerStep(p) ==
  \/ worker_lock(p) \/ queue_timedwait(p) \/ queue_timedwait_fails(p)
  \/ timedwait_timeout(p) \/ timedwait_spurious(p) \/ timedwait_relocks(p)
  \/ queue_get(p)
  \/ worker_unlock(p) \/ test_entry(p)
  \/ process_driver(p) \/ process_driver_dies(p)

Worker(p) == npc # "crashed" /\ WorkerStep(p)

Dead == npc \in {"exit", "crashed"} /\ UNCHANGED vars

Next == Net \/ Signals \/ Stop \/ (\E p \in Plugins : Worker(p)) \/ Dead

Spec == Init /\ [][Next]_vars
-----------------------------------------------------------------------------
(* What the daemon guarantees *)

InQueue(r, p) == \E i \in 1..Len(queue[p]) : queue[p][i] = r

(* The request is still being handled: by the network thread, in a queue   *)
(* or by a worker.                                                         *)
InHands(r) ==
  \/ r = last /\ npc \in NetHas
  \/ \E p \in Plugins : InQueue(r, p) \/ current[p] = r

(* A queue and its condition are touched by one thread at a time: the      *)
(* network thread between queue_lock and queue_unlock, the worker from its *)
(* lock, or its return from the wait, to its unlock.                       *)
MutualExclusion ==
  \A p \in Plugins :
    /\ wpc[p] \in WorkerHolds => lock[p] = "worker"
    /\ npc \in NetHolds /\ target = p => lock[p] = "net"

(* put_in_queue_long reads the size twice without the lock and refuses a   *)
(* request only when the size is a multiple of 100, and still no queue     *)
(* ever grows past the first multiple of 100 above MAX_QUEUE_ENTRY: there  *)
(* is one producer, and the consumer can only have made the size smaller.  *)
QueueBounded == \A p \in Plugins : Len(queue[p]) <= QUEUE_CAP

(* "asynchronous don't mind waiting", a synchronous request does: it never *)
(* lies in the queue of a worker that sleeps out its second, except        *)
(* between its insertion and the signal that is about to be sent.          *)
NoLostWakeup ==
  \A p \in Plugins :
    npc # "crashed" /\ wpc[p] = "wait"
                   /\ (\E i \in 1..Len(queue[p]) : queue[p][i] \in syncs)
      => npc \in {"unlock", "signal"} /\ target = p /\ last \in syncs

(* A worker serves the synchronous requests first, the newest one before   *)
(* the others, then the asynchronous ones in the order of their arrival.   *)
ServiceOrder ==
  \A p \in Plugins : \A i, j \in 1..Len(queue[p]) :
    i < j => IF queue[p][j] \in syncs
               THEN queue[p][i] \in syncs /\ queue[p][i] > queue[p][j]
               ELSE queue[p][i] \in syncs \/ queue[p][i] < queue[p][j]

(* The replies to r, one that a passive server withheld included.          *)
Answers(r) == replies[r] + (IF r \in unsaid THEN 1 ELSE 0)

(* A request is in one place only, so that no two workers serve it and no  *)
(* worker serves it twice, and a request that was answered is nowhere: a   *)
(* client gets one whole reply at the most, alone or, when a send failed,  *)
(* behind a piece of the reply it stands for.  And no synchronous request  *)
(* gets lost on its way: as long as the daemon lives and has not begun to  *)
(* free its queues, what is in nobody's hands any more has been answered.  *)
OneReply ==
  /\ \A r \in Reqs : Answers(r) <= 1
  /\ \A r \in Reqs : Answers(r) > 0 => ~ InHands(r)
  /\ \A r \in torn : replies[r] = 1
  /\ \A p, o \in Plugins : current[p] # 0 =>
       ~ InQueue(current[p], o) /\ (current[p] = current[o] => p = o)
  /\ npc # "crashed" /\ (\A p \in Plugins : driver[p] # "freed")
       => \A r \in syncs : InHands(r) \/ Answers(r) = 1

(* A worker that ends leaves no request behind that was in its queue when  *)
(* it last looked: it drains the queue before it obeys the flag.  What it  *)
(* can leave behind arrived after that look and before the flag.           *)
ExitedDrained ==
  \A p \in Plugins : wpc[p] = "exited" =>
    /\ current[p] = 0
    /\ \A i \in 1..Len(queue[p]) : queue[p][i] > seen[p]

-----------------------------------------------------------------------------
(* What the documentation says of the daemon and the code does not do *)

(* README: a synchronous request is signalled to the thread, which sends   *)
(* the reply when it is done.  So when the daemon has stopped, an active   *)
(* server has answered each of them.                                       *)
AnsweredBeforeExit ==
  npc = "exit" /\ mode = "active" => \A r \in syncs : replies[r] > 0

(* plugin.txt: process_driver finds in the entry the data the plugin       *)
(* needs, which stop_driver releases.                                      *)
ResourcesWhileProcessing ==
  \A p \in Plugins : wpc[p] = "process" => driver[p] \in {"running", "told"}

=============================================================================
