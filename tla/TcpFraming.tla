----------------------------- MODULE TcpFraming -----------------------------
(***************************************************************************)
(* How the daemon cuts the byte stream of a TCP connection into messages:  *)
(* tcp_recv and process_buf of event/daemon/tcp.c, for one connection.     *)
(*                                                                         *)
(* A byte is <<m, i>>, the i-th byte of the m-th message the client sends, *)
(* or Junk, what a buffer held before.  The first HDR bytes of a message   *)
(* (4 in the code) are its length, all of it included.  recv() returns any *)
(* part of what has arrived.  process_buf calls itself for the bytes that  *)
(* follow a message; each call is a step, and none of the network thread's *)
(* other work comes between them.                                          *)
(***************************************************************************)
EXTENDS Integers, Sequences

CONSTANTS
  HDR,       (* bytes of the length field                                   *)
  MINMSG,    (* the least legal length: 9 in the code                       *)
  PARSEMIN,  (* the least length parse_message takes: 21                    *)
  MAXMSG,    (* the greatest legal length: 64k                              *)
  SBSIZE,    (* the size of the buffers: 68k                                *)
  Sizes,     (* the lengths of the client's messages                        *)
  MaxMsgs,   (* bound: how many messages the client sends                   *)
  Windows,   (* how many messages a client may have sent unanswered         *)
  Faults,    (* which of these happen                                       *)
  NULL

ASSUME SizeAssumption ==
  /\ HDR \in Nat \ {0} /\ MINMSG \in Nat /\ MAXMSG \in Nat /\ SBSIZE \in Nat
  /\ HDR < MINMSG /\ MINMSG <= MAXMSG /\ MAXMSG <= SBSIZE
  /\ PARSEMIN \in Nat
ASSUME ClientAssumption ==
  /\ Sizes \subseteq MINMSG..MAXMSG
  /\ MaxMsgs \in Nat /\ Windows \subseteq Nat
ASSUME FaultAssumption == Faults \subseteq {"malloc", "close"}

VARIABLES
  window,      (* how many messages this client sends without an answer     *)
  sizes,       (* the lengths of the messages sent so far                   *)
  peer,        (* whether the client has closed its end                     *)
  stream,      (* the bytes the kernel holds for recv()                     *)
  pc,          (* "event_loop", or "process_buf" with its argument arglen   *)
  arglen,
  open,        (* tcpsock exists                                            *)
  static_buf,
  buf,         (* tcpsock->buf, a partial message                           *)
  len, pktsize, excess,  (* of tcpsock                                      *)
  parsed       (* history: what parse_message got, 0 for what is no message *)

client == <<window, sizes, peer>>
sock == <<open, buf, len, pktsize, excess>>
vars == <<client, stream, pc, arglen, sock, static_buf, parsed>>

Junk == <<0, 0>>
Bytes == {Junk} \cup ((1..MaxMsgs) \X (1..MAXMSG))
Buffers == [1..SBSIZE -> Bytes]

ASSUME NullAssumption == NULL \notin Buffers

TypeOK ==
  /\ window \in Windows
  /\ sizes \in Seq(Sizes) /\ Len(sizes) <= MaxMsgs
  /\ peer \in {"open", "closed"}
  /\ stream \in Seq(Bytes)
  /\ pc \in {"event_loop", "process_buf"}
  /\ arglen \in 0..SBSIZE
  /\ open \in BOOLEAN
  /\ static_buf \in Buffers
  /\ buf \in Buffers \cup {NULL}
  /\ len \in 0..SBSIZE /\ pktsize \in 0..MAXMSG /\ excess \in 0..SBSIZE
  /\ parsed \in Seq(0..MaxMsgs)

(* tcp_newconnection()                                                     *)
Init ==
  /\ window \in Windows
  /\ sizes = <<>> /\ peer = "open" /\ stream = <<>>
  /\ pc = "event_loop" /\ arglen = 0
  /\ open = TRUE /\ buf = NULL /\ len = 0 /\ pktsize = 0 /\ excess = 0
  /\ static_buf = [i \in 1..SBSIZE |-> Junk]
  /\ parsed = <<>>

-----------------------------------------------------------------------------
(* The client: it writes whole messages, and may close the connection.     *)
ClientSends(s) ==
  /\ peer = "open" /\ open
  /\ Len(sizes) < MaxMsgs
  /\ Len(sizes) - Len(parsed) < window
  /\ sizes' = Append(sizes, s)
  /\ stream' = stream \o [i \in 1..s |-> <<Len(sizes) + 1, i>>]
  /\ UNCHANGED <<window, peer, pc, arglen, sock, static_buf, parsed>>

ClientCloses ==
  /\ "close" \in Faults
  /\ peer = "open"
  /\ peer' = "closed"
  /\ UNCHANGED <<window, sizes, stream, pc, arglen, sock, static_buf, parsed>>

-----------------------------------------------------------------------------
(* tcp_recv() *)

(* memcpy of k bytes of s into b, after its first n.                       *)
Write(b, n, s, k) == [i \in 1..SBSIZE |-> IF i \in (n + 1)..(n + k) THEN s[i - n] ELSE b[i]]

(* recv() fills a prefix of the room it is given.                          *)
Received(room) == {k \in 1..Len(stream) : k <= room}

Consume(k) == stream' = SubSeq(stream, k + 1, Len(stream))

(* A mutant: what is too short for a length is forgotten.                  *)
ShortRecvDropped(k) ==
  /\ pc = "event_loop" /\ open /\ buf = NULL
  /\ k \in Received(SBSIZE)
  /\ static_buf' = Write(static_buf, 0, stream, k)
  /\ Consume(k)
  /\ IF k < HDR THEN UNCHANGED <<pc, arglen>>
                ELSE pc' = "process_buf" /\ arglen' = k
  /\ UNCHANGED <<client, sock, parsed>>

(* A new message: into the buffer all connections share.                   *)
tcp_recv_new(k) ==
  /\ pc = "event_loop" /\ open /\ buf = NULL
  /\ k \in Received(SBSIZE)
  /\ static_buf' = Write(static_buf, 0, stream, k)
  /\ Consume(k)
  /\ pc' = "process_buf" /\ arglen' = k
  /\ UNCHANGED <<client, sock, parsed>>

(* The rest of a partial one: into the connection's own buffer, and no     *)
(* more than the message lacks.                                            *)
tcp_recv_rest(k) ==
  /\ pc = "event_loop" /\ open /\ buf # NULL
  /\ k \in Received(pktsize - len)
  /\ buf' = Write(buf, len, stream, k)
  /\ len' = len + k
  /\ Consume(k)
  /\ pc' = "process_buf" /\ arglen' = len + k
  /\ UNCHANGED <<client, open, pktsize, excess, static_buf, parsed>>

(* close(), event_del() and tcp_socket_free()                              *)
error_exit ==
  /\ open' = FALSE /\ buf' = NULL /\ len' = 0 /\ pktsize' = 0 /\ excess' = 0
  /\ pc' = "event_loop" /\ arglen' = 0

(* recv() returns 0: the peer has closed, or the room asked for is none.   *)
tcp_recv_end ==
  /\ pc = "event_loop" /\ open
  /\ \/ peer = "closed" /\ stream = <<>>
     \/ buf # NULL /\ pktsize = len
  /\ error_exit
  /\ UNCHANGED <<client, stream, static_buf, parsed>>

-----------------------------------------------------------------------------
(* process_buf(tcpsock, Data, arglen) *)

Data == IF buf = NULL THEN static_buf ELSE buf

(* What the length field can say: the length of the message, if these are  *)
(* its first bytes, and anything if they are not.                          *)
totaltoget ==
  IF arglen < HDR THEN {HDR}
  ELSE IF \E m \in 1..Len(sizes) : \A i \in 1..HDR : Data[i] = <<m, i>>
    THEN {sizes[Data[1][1]]}
    ELSE 0..(MAXMSG + 1)

process_buf_bad_length(t) ==
  /\ pc = "process_buf"
  /\ arglen >= HDR
  /\ t > MAXMSG \/ t < MINMSG
  /\ error_exit
  /\ UNCHANGED <<client, stream, static_buf, parsed>>

LegalLength(t) == arglen < HDR \/ t \in MINMSG..MAXMSG

(* A mutant: a message that is all there is kept to be completed.          *)
WholeIsIncomplete(t) ==
  /\ pc = "process_buf"
  /\ LegalLength(t) /\ t >= arglen
  /\ buf' = IF buf = NULL
              THEN Write([i \in 1..SBSIZE |-> Junk], 0, static_buf, arglen)
              ELSE buf
  /\ len' = arglen /\ pktsize' = t
  /\ pc' = "event_loop" /\ arglen' = 0
  /\ UNCHANGED <<client, stream, open, excess, static_buf, parsed>>

(* A mutant: the second piece of a message overwrites the first.           *)
FirstPieceLost(t) ==
  /\ pc = "process_buf"
  /\ LegalLength(t) /\ t > arglen
  /\ buf' = IF buf = NULL THEN [i \in 1..SBSIZE |-> Junk] ELSE buf
  /\ len' = arglen /\ pktsize' = t
  /\ pc' = "event_loop" /\ arglen' = 0
  /\ UNCHANGED <<client, stream, open, excess, static_buf, parsed>>

(* The bytes of the message are not all there: keep them.                  *)
process_buf_incomplete(t) ==
  /\ pc = "process_buf"
  /\ LegalLength(t) /\ t > arglen
  /\ buf' = IF buf = NULL
              THEN Write([i \in 1..SBSIZE |-> Junk], 0, static_buf, arglen)
              ELSE buf
  /\ len' = arglen /\ pktsize' = t
  /\ pc' = "event_loop" /\ arglen' = 0
  /\ UNCHANGED <<client, stream, open, excess, static_buf, parsed>>

process_buf_no_memory(t) ==
  /\ "malloc" \in Faults
  /\ pc = "process_buf"
  /\ LegalLength(t) /\ t > arglen
  /\ buf = NULL
  /\ error_exit
  /\ UNCHANGED <<client, stream, static_buf, parsed>>

(* The number of the message that the first t bytes are, or 0.             *)
Message(t) ==
  LET m == Data[1][1] IN
  IF m \in 1..Len(sizes) /\ sizes[m] = t /\ \A i \in 1..t : Data[i] = <<m, i>>
    THEN m ELSE 0

(* parse_message() refuses what is too short, and accepts what the client  *)
(* sent otherwise, and perhaps some junk.                                  *)
Accepted(t) ==
  IF t < PARSEMIN THEN {FALSE} ELSE IF Message(t) = 0 THEN BOOLEAN ELSE {TRUE}

(* memmove(b, b + t, n)                                                    *)
Moved(b, t, n) == [i \in 1..SBSIZE |-> IF i <= n THEN b[t + i] ELSE b[i]]

(* Bytes follow the message: they are moved to the front and process_buf   *)
(* is called for them, with the length of the message that was parsed.     *)
ParseTheRest(t, n) ==
  /\ IF buf = NULL THEN static_buf' = Moved(static_buf, t, n) /\ UNCHANGED buf
                   ELSE buf' = Moved(buf, t, n) /\ UNCHANGED static_buf
  /\ len' = n /\ excess' = 0
  /\ pc' = "process_buf" /\ arglen' = t
  /\ UNCHANGED <<open, pktsize>>

(* A mutant: the buffer is kept after its message was parsed.              *)
BufferKept ==
  /\ pc' = "event_loop" /\ arglen' = 0
  /\ UNCHANGED <<sock, static_buf>>

(* The message was all there is: a buffer of its own is freed.             *)
BufferDone ==
  /\ buf' = NULL
  /\ IF buf = NULL THEN UNCHANGED <<len, pktsize, excess>>
                   ELSE len' = 0 /\ pktsize' = 0 /\ excess' = 0
  /\ pc' = "event_loop" /\ arglen' = 0
  /\ UNCHANGED <<open, static_buf>>

process_buf_message(t) ==
  /\ pc = "process_buf"
  /\ LegalLength(t) /\ t <= arglen
  /\ parsed' = Append(parsed, Message(t))
  /\ \E ok \in Accepted(t) :
       LET n == IF t < arglen THEN arglen - t ELSE excess IN
       IF ~ ok THEN error_exit /\ UNCHANGED static_buf
       ELSE IF n > 0 THEN ParseTheRest(t, n)
       ELSE BufferDone
  /\ UNCHANGED <<client, stream>>

-----------------------------------------------------------------------------
process_buf ==
  \E t \in totaltoget :
    \/ process_buf_bad_length(t)
    \/ process_buf_incomplete(t)
    \/ process_buf_no_memory(t)
    \/ process_buf_message(t)

tcp_recv ==
  \/ \E k \in 1..Len(stream) : tcp_recv_new(k) \/ tcp_recv_rest(k)
  \/ tcp_recv_end

Next ==
  \/ \E s \in Sizes : ClientSends(s)
  \/ ClientCloses
  \/ tcp_recv
  \/ process_buf

Spec == Init /\ [][Next]_vars
FairSpec == Spec /\ WF_vars(tcp_recv) /\ WF_vars(process_buf)
-----------------------------------------------------------------------------
(* tcp.c: "Got more than one message in the same recv(); save the amount   *)
(* of bytes exceeding so we can process it later": however the stream is   *)
(* cut by recv(), parse_message gets the client's messages, whole and in   *)
(* the order they were sent.                                               *)
ParsedInOrder == \A i \in 1..Len(parsed) : parsed[i] = i

(* What holds of it: a client that waits for each answer (every caller of  *)
(* mevent_trigger with FLAGS_SYNC) has its messages parsed whole and in    *)
(* order, in whatever pieces recv() returns them.                          *)
PatientInOrder == window = 1 => ParsedInOrder

LongEnough == \A m \in 1..Len(sizes) : sizes[m] >= PARSEMIN

(* Such a client, if its messages are legal and long enough, is not cut    *)
(* off: the daemon closes the connection after the client has, or for want *)
(* of memory for a message that is not all there.                          *)
GoodClientKept ==
  [][window = 1 /\ LongEnough /\ open /\ ~ open' =>
       peer = "closed" \/ \E t \in totaltoget : process_buf_no_memory(t)]_vars

(* And each of its messages is parsed, in however many pieces it comes,    *)
(* unless the connection is closed.                                        *)
EveryMessageParsed ==
  \A m \in 1..MaxMsgs :
    window = 1 /\ Len(sizes) >= m ~> (Len(parsed) >= m \/ ~ open)

(* A connection that waits for the rest of a message asks recv() for at    *)
(* least one byte (none would be taken for the end of the stream) and for  *)
(* no more than its buffer has room for, whatever lengths the stream       *)
(* pretends and whatever process_buf made of the bytes before; nor do the  *)
(* counters ever leave the types of TypeOK, the sizes of the buffers.      *)
RoomForTheRest ==
  /\ TypeOK
  /\ open /\ pc = "event_loop" =>
       /\ buf # NULL => len < pktsize /\ pktsize <= SBSIZE
       /\ buf = NULL => pktsize = 0
       /\ excess = 0
=============================================================================
