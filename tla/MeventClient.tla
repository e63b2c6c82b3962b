---------------------------- MODULE MeventClient ----------------------------
(***************************************************************************)
(* The client library of the event daemon, lib/mevent: mevent_trigger and  *)
(* how it finds the reply to its request among what the socket holds.      *)
(*                                                                         *)
(* A process has one thread, one counter g_reqid for the requests to all   *)
(* its servers, and one socket for each of them.  Calls are numbered 1, 2, *)
(* ... as they are made; the number tells requests apart where their id on *)
(* the wire, g_reqid, does not.                                            *)
(*                                                                         *)
(* A daemon answers each synchronous request once at the most (OneReply of *)
(* module Mevent), in any order and as late as it likes.  A datagram (UDP, *)
(* TIPC, SCTP) is read whole; a request or its reply may be lost, and a    *)
(* reply come twice.  A TCP stream keeps the order and is read in any      *)
(* pieces: a reply is its head, with length and id, and its tail.          *)
(***************************************************************************)
EXTENDS Integers, Sequences

CONSTANTS
  Dgram,     (* servers added with mevent_add_udp_server (or tipc, sctp)    *)
  Stream,    (* servers added with mevent_add_tcp_server                    *)
  NoServer,
  MAXID,     (* the last id before it starts again from 1: 0x0FFFFFFD       *)
  MaxCalls,  (* bound: how many calls the process makes                     *)
  MaxDup,    (* bound: how many replies the network doubles                 *)
  Faults     (* which of these happen                                       *)

ASSUME ServerAssumption == Dgram \cap Stream = {} /\ NoServer \notin Dgram \cup Stream
ASSUME NumberAssumption == MAXID \in Nat \ {0} /\ MaxCalls \in Nat /\ MaxDup \in Nat
ASSUME FaultAssumption == Faults \subseteq {"send", "loss", "timeout"}

Servers == Dgram \cup Stream
Calls == 1..MaxCalls

VARIABLES
  pc,        (* "idle", in "get_rep", or in the "srecv" of recv_msg         *)
  g_reqid,
  srv,       (* the server of the call being made                           *)
  ids,       (* the id each call put into its request                       *)
  atDaemon,  (* <<s, n>>: the request of call n, which s has not answered   *)
  socket,    (* what each socket holds: pieces [call, part]                 *)
  partial,   (* the call whose reply's head recv_msg has read               *)
  dups,
  result,    (* the last call on a server, and whose reply it returned      *)
  cut,       (* history: the streams that were left inside a message        *)
  late,      (* history: the servers a call gave up waiting for             *)
  dropped    (* history: the call read its own reply and threw it away      *)

clientVars == <<pc, g_reqid, srv, ids, partial, result>>
netVars == <<atDaemon, socket, dups>>
history == <<cut, late, dropped>>
vars == <<clientVars, netVars, history>>

calls == Len(ids)

Error == 0      (* what a call returns instead of the number of a reply's call *)
Garbage == -1

Parts == {"whole", "head", "tail"}
Pieces == [call : Calls, part : Parts]

TypeOK ==
  /\ pc \in {"idle", "get_rep", "srecv"}
  /\ g_reqid \in 0..MAXID
  /\ srv \in Servers \cup {NoServer}
  /\ ids \in Seq(1..MAXID) /\ Len(ids) <= MaxCalls
  /\ atDaemon \subseteq Servers \X Calls
  /\ socket \in [Servers -> Seq(Pieces)]
  /\ partial \in Calls \cup {0}
  /\ dups \in 0..MaxDup
  /\ result \in [srv : Servers \cup {NoServer}, call : Calls \cup {0},
                 reply : Calls \cup {Error, Garbage}]
  /\ cut \subseteq Stream /\ late \subseteq Servers
  /\ dropped \in BOOLEAN

Init ==
  /\ pc = "idle" /\ g_reqid = 0 /\ srv = NoServer /\ ids = <<>>
  /\ atDaemon = {} /\ socket = [s \in Servers |-> <<>>] /\ partial = 0 /\ dups = 0
  /\ result = [srv |-> NoServer, call |-> 0, reply |-> Error]
  /\ cut = {} /\ late = {} /\ dropped = FALSE

-----------------------------------------------------------------------------
(* mevent_trigger *)

(* A mutant: the id starts again one too late, with the version's bits.    *)
NextIdTooLate == IF g_reqid > MAXID THEN 1 ELSE g_reqid + 1

(* if (g_reqid++ > 0x0FFFFFFC) g_reqid = 1                                 *)
next_reqid == IF g_reqid >= MAXID THEN 1 ELSE g_reqid + 1

NewCall ==
  /\ pc = "idle" /\ calls < MaxCalls
  /\ g_reqid' = next_reqid
  /\ ids' = Append(ids, next_reqid)
  /\ dropped' = FALSE

Returned(s, n, m) == result' = [srv |-> s, call |-> n, reply |-> m]

(* FLAGS_SYNC: the request is sent, and the call waits.                    *)
trigger_sync(s) ==
  /\ NewCall
  /\ pc' = "get_rep" /\ srv' = s
  /\ atDaemon' = atDaemon \cup {<<s, calls + 1>>}
  /\ UNCHANGED <<socket, partial, dups, result, cut, late>>

(* An asynchronous request is not answered, and the call returns.          *)
trigger_async(s) ==
  /\ NewCall
  /\ Returned(s, calls + 1, Error)
  /\ UNCHANGED <<pc, srv, atDaemon, socket, partial, dups, cut, late>>

(* REP_ERR_SEND                                                            *)
trigger_send_fails(s) ==
  /\ "send" \in Faults
  /\ NewCall
  /\ Returned(s, calls + 1, Error)
  /\ UNCHANGED <<pc, srv, atDaemon, socket, partial, dups, cut, late>>

-----------------------------------------------------------------------------
(* The daemon and the network *)

Whole(n) == <<[call |-> n, part |-> "whole"]>>
Split(n) == <<[call |-> n, part |-> "head"], [call |-> n, part |-> "tail"]>>

Replies(s, n) == IF s \in Stream THEN {Whole(n), Split(n)} ELSE {Whole(n)}

Answer(s, n) ==
  /\ <<s, n>> \in atDaemon
  /\ \E rep \in Replies(s, n) : socket' = [socket EXCEPT ![s] = @ \o rep]
  /\ atDaemon' = atDaemon \ {<<s, n>>}
  /\ UNCHANGED <<clientVars, dups, history>>

AnswerTwice(s, n) ==
  /\ s \in Dgram /\ dups < MaxDup
  /\ <<s, n>> \in atDaemon
  /\ socket' = [socket EXCEPT ![s] = @ \o Whole(n)]
  /\ dups' = dups + 1
  /\ UNCHANGED <<clientVars, atDaemon, history>>

Loss(s, n) ==
  /\ "loss" \in Faults
  /\ <<s, n>> \in atDaemon
  /\ atDaemon' = atDaemon \ {<<s, n>>}
  /\ UNCHANGED <<clientVars, socket, dups, history>>

-----------------------------------------------------------------------------
(* udp_get_rep, tcp_get_rep *)

Return(m) ==
  /\ Returned(srv, calls, m)
  /\ pc' = "idle" /\ srv' = NoServer /\ partial' = 0
  /\ UNCHANGED <<g_reqid, ids>>

Consume(k) == socket' = [socket EXCEPT ![srv] = SubSeq(@, k + 1, Len(@))]

(* Mutants: replies are not tested; the test refuses the reply itself.     *)
AnyReply(n) == FALSE
OwnIsStale(n) == ids[n] <= g_reqid

(* if (id < g_reqid) goto rerecv                                           *)
Stale(n) == ids[n] < g_reqid

(* A message was read: it is returned, or thrown away.  What recv() read   *)
(* behind it is thrown away in both cases, and where that ends inside a    *)
(* message the stream is left there.                                       *)
Take(n, behind) ==
  /\ LET thrown == {behind[i].call : i \in DOMAIN behind}
     IN IF Stale(n)
          THEN /\ pc' = "get_rep" /\ partial' = 0
               /\ dropped' = (dropped \/ calls \in thrown \cup {n})
               /\ UNCHANGED <<g_reqid, srv, ids, result>>
          ELSE /\ Return(n)
               /\ dropped' = (dropped \/ calls \in thrown \ {n})
  /\ cut' = IF behind # <<>> /\ behind[Len(behind)].part = "head" THEN cut \cup {srv} ELSE cut

udp_get_rep ==
  /\ pc = "get_rep" /\ srv \in Dgram /\ socket[srv] # <<>>
  /\ Consume(1)
  /\ Take(Head(socket[srv]).call, <<>>)
  /\ UNCHANGED <<atDaemon, dups, late>>

(* The first recv() of recv_msg returns the first k pieces, which begin    *)
(* with a message.                                                         *)
recv_msg(k) ==
  /\ pc = "get_rep" /\ srv \in Stream \ cut
  /\ k \in 1..Len(socket[srv])
  /\ Consume(k)
  /\ LET got == SubSeq(socket[srv], 1, k)
         n == Head(got).call
         size == IF Head(got).part = "whole" THEN 1 ELSE 2
     IN IF k < size
          THEN /\ pc' = "srecv" /\ partial' = n
               /\ UNCHANGED <<g_reqid, srv, ids, result, cut, dropped>>
          ELSE Take(n, SubSeq(got, size + 1, k))
  /\ UNCHANGED <<atDaemon, dups, late>>

(* srecv() reads the rest of the message and no more.                      *)
srecv_rest ==
  /\ pc = "srecv"
  /\ Consume(1)
  /\ Take(partial, <<>>)
  /\ UNCHANGED <<atDaemon, dups, late>>

(* A stream that was left inside a message: the next recv() begins in the  *)
(* middle of it.  Bytes of its content pass for length and id: an          *)
(* impossible length, an old id or a reply.                                *)
recv_msg_astray(k) ==
  /\ pc = "get_rep" /\ srv \in cut
  /\ k \in 1..Len(socket[srv])
  /\ Consume(k)
  /\ \/ Return(Error) \/ Return(Garbage)
     \/ UNCHANGED clientVars
  /\ UNCHANGED <<atDaemon, dups, history>>

(* A mutant: an interrupted or timed out recv() is repeated.               *)
RecvAgain ==
  /\ "timeout" \in Faults
  /\ pc = "get_rep" /\ socket[srv] = <<>>
  /\ UNCHANGED vars

(* recv() gives up after net_timeout, or at once with non_block.           *)
recv_timeout ==
  /\ "timeout" \in Faults
  /\ pc = "get_rep" /\ socket[srv] = <<>>
  /\ Return(Error)
  /\ late' = late \cup {srv}
  /\ UNCHANGED <<netVars, cut, dropped>>

srecv_timeout ==
  /\ "timeout" \in Faults
  /\ pc = "srecv"
  /\ Return(Error)
  /\ late' = late \cup {srv} /\ cut' = cut \cup {srv}
  /\ UNCHANGED <<netVars, dropped>>

-----------------------------------------------------------------------------
get_rep ==
  \/ udp_get_rep \/ srecv_rest
  \/ \E k \in 1..2 * MaxCalls : recv_msg(k) \/ recv_msg_astray(k)

Next ==
  \/ \E s \in Servers : trigger_sync(s) \/ trigger_async(s) \/ trigger_send_fails(s)
  \/ \E s \in Servers, n \in Calls : Answer(s, n) \/ AnswerTwice(s, n) \/ Loss(s, n)
  \/ get_rep
  \/ recv_timeout \/ srecv_timeout

Spec == Init /\ [][Next]_vars

(* The client goes on, and its sockets have a time limit.                  *)
FairSpec == Spec /\ WF_vars(get_rep) /\ WF_vars(recv_timeout)
-----------------------------------------------------------------------------
(* protocol.txt: the request id "identifies each request, so that the      *)
(* client can tell them apart": what a call returns is an error or the     *)
(* reply to its own request.                                               *)
OwnReply == result.reply \in {Error, result.call}

(* What holds of it: whatever is lost, late or doubled, a call returns no  *)
(* other call's reply, until g_reqid has started again, and on a stream    *)
(* until it was left inside a message.                                     *)
OwnReplyBeforeWrap == calls <= MAXID /\ result.srv \notin cut => OwnReply

current == IF pc = "idle" THEN result.srv ELSE srv

(* The client throws away the reply it waits for, or leaves a stream       *)
(* inside a message, only where a call was given up before: replies to     *)
(* calls that all waited for theirs are never read together.  On datagrams *)
(* a reply is never thrown away.                                           *)
ReplyKept == (dropped => current \in late \cap Stream) /\ cut \subseteq late

(* Every call returns, however many old replies it has to skip.            *)
CallReturns == pc # "idle" ~> pc = "idle"
=============================================================================
