----------------------------- MODULE QueueSpec -----------------------------
(***************************************************************************)
(* What event/daemon/queue.c promises its callers: a double ended line of  *)
(* queue entries.  An asynchronous request joins at the back (queue_put),  *)
(* a synchronous one jumps to the front (queue_cas), and the worker thread *)
(* takes the entry at the front (queue_get), or is told that there is      *)
(* none.  Module Queue is the linked list that implements it.              *)
(***************************************************************************)
EXTENDS Sequences

CONSTANTS
  Entry,  (* the queue entries that malloc() can hand out *)
  NULL    (* no entry *)

VARIABLES
  line,   (* the entries waiting, the next one to be served first *)
  got     (* the entry the last queue_get() returned, until it is freed *)

vars == <<line, got>>

Waiting == {line[i] : i \in DOMAIN line}

Init == line = <<>> /\ got = NULL

(* The entry is one that malloc() may return: not waiting, not in use.     *)
PutBack(e) ==
  /\ e \notin Waiting \cup {got}
  /\ line' = Append(line, e)
  /\ UNCHANGED got

PutFront(e) ==
  /\ e \notin Waiting \cup {got}
  /\ line' = <<e>> \o line
  /\ UNCHANGED got

TakeFront ==
  /\ line # <<>>
  /\ got = NULL
  /\ got' = Head(line)
  /\ line' = Tail(line)

Release ==
  /\ got # NULL
  /\ got' = NULL
  /\ UNCHANGED line

Next ==
  \/ \E e \in Entry : PutBack(e) \/ PutFront(e)
  \/ TakeFront
  \/ Release

Spec == Init /\ [][Next]_vars
=============================================================================
