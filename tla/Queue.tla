------------------------------- MODULE Queue -------------------------------
(***************************************************************************)
(* The queue of event/daemon/queue.c: a singly linked list.  "bottom" is   *)
(* the entry to be served next, each entry's "prev" points at the one that *)
(* is served after it, and "top" is the entry served last.  A plugin has   *)
(* one such queue; every operation below runs with the queue's mutex held  *)
(* (module Mevent models who takes it), so that each is one step here.     *)
(*                                                                         *)
(* "link" is the field prev of every entry.  In an entry that is in no     *)
(* queue it is what the heap left there: an entry is malloc'ed and gets    *)
(* prev = NULL in queue_entry_create, just before it is linked.            *)
(*                                                                         *)
(* "line" and "got" are history variables, written and never read by the   *)
(* code: the order in which the entries ought to be served.  QueueSpec     *)
(* says how they may change, and LineIsChain ties them to the pointers.    *)
(***************************************************************************)
EXTENDS Integers, Sequences, Heap

VARIABLES
  top, bottom,  (* struct queue *)
  size,
  link,         (* struct queue_entry's prev, for every entry *)
  got,          (* what queue_get() returned, until queue_entry_free() *)
  line          (* history: the entries in the order they are due *)

list == <<top, bottom, size, link>>
queueVars == <<list, got, line>>

QueueAbs == INSTANCE QueueSpec

Waiting == {line[i] : i \in DOMAIN line}

QueueTypeOK ==
  /\ top \in Entry \cup {NULL}
  /\ bottom \in Entry \cup {NULL}
  /\ size \in Nat
  /\ link \in [Entry -> Entry \cup {NULL}]
  /\ got \in Entry \cup {NULL}
  /\ line \in Seq(Entry)

(* The heap's leftovers are any value: it is the creation that resets prev. *)
queue_create ==
  /\ top = NULL /\ bottom = NULL /\ size = 0
  /\ link \in [Entry -> Entry \cup {NULL}]

QueueInit == queue_create /\ got = NULL /\ line = <<>>

(* queue_entry_create() followed by the link.  malloc() returns no entry   *)
(* that is still in use.                                                   *)
Fresh(e) == e \notin Waiting \cup {got}

(* A mutant: the entry keeps the pointer the heap had in it.               *)
EntryKeepsGarbage(e) == link

queue_entry_create(e) == [link EXCEPT ![e] = NULL]

queue_put(e) ==
  /\ Fresh(e)
  /\ top' = e
  /\ IF top = NULL
       THEN bottom' = e /\ link' = queue_entry_create(e)
       ELSE bottom' = bottom /\ link' = [queue_entry_create(e) EXCEPT ![top] = e]
  /\ size' = size + 1
  /\ line' = Append(line, e)
  /\ UNCHANGED got

(* The entry is served next: it is linked in before the bottom.            *)
queue_cas(e) ==
  /\ Fresh(e)
  /\ bottom' = e
  /\ IF top = NULL
       THEN top' = e /\ link' = queue_entry_create(e)
       ELSE top' = top /\ link' = [link EXCEPT ![e] = bottom]
  /\ size' = size + 1
  /\ line' = <<e>> \o line
  /\ UNCHANGED got

(* queue_get() on an empty queue returns NULL and changes nothing.         *)
queue_get ==
  /\ got = NULL
  /\ bottom # NULL
  /\ got' = bottom
  /\ bottom' = link[bottom]
  /\ top' = IF link[bottom] = NULL THEN NULL ELSE top
  /\ size' = size - 1
  /\ line' = IF line = <<>> THEN <<>> ELSE Tail(line)
  /\ UNCHANGED link

(* The worker is done with the entry and frees it.                         *)
queue_entry_free ==
  /\ got # NULL
  /\ got' = NULL
  /\ UNCHANGED <<list, line>>

QueueNext ==
  \/ \E e \in Entry : queue_put(e) \/ queue_cas(e)
  \/ queue_get
  \/ queue_entry_free

QueueSystem == QueueInit /\ [][QueueNext]_queueVars

-----------------------------------------------------------------------------
(* The pointers are the line: following prev from bottom visits exactly    *)
(* the entries that are due, in that order, ends in NULL after top, and    *)
(* size counts them.  This is what makes queue_isempty()'s test of size    *)
(* and queue_get()'s test of bottom agree.                                 *)
LineIsChain ==
  LET n == Len(line) IN
  /\ size = n
  /\ bottom = IF n = 0 THEN NULL ELSE line[1]
  /\ top = IF n = 0 THEN NULL ELSE line[n]
  /\ \A i \in 1..n : link[line[i]] = IF i = n THEN NULL ELSE line[i + 1]

(* No entry is linked in twice and the one in the worker's hands is in the *)
(* queue no more, so that queue_entry_free() frees nothing that is still   *)
(* reachable and no entry is ever served twice.                            *)
NoEntryTwice ==
  /\ \A i, j \in 1..Len(line) : line[i] = line[j] => i = j
  /\ \A i \in 1..Len(line) : line[i] # got

(* The linked list behaves as the double ended line of QueueSpec: what     *)
(* queue_get() returns is the entry at the front of the line.              *)
ImplementsQueueSpec == QueueAbs!Spec
=============================================================================
