-------------------------- MODULE TcpFramingProofs --------------------------
(***************************************************************************)
(* A client that waits for each answer has its messages parsed whole and   *)
(* in order and is not cut off, for messages of any sizes in any pieces;   *)
(* and whatever a client sends, a connection that waits for the rest of a  *)
(* message asks recv() for at least one byte and for no more than its      *)
(* buffer holds.                                                           *)
(*                                                                         *)
(* Of such a client at the most one message is under way.  The invariant   *)
(* says where its bytes are (Patient): those that recv() returned in the   *)
(* buffer in use, from its beginning, and the rest in the stream.  The     *)
(* length that process_buf finds is then the one the client wrote, and     *)
(* what is parsed is the whole message and nothing else.                   *)
(***************************************************************************)
EXTENDS TcpFraming, SequenceTheorems, TLAPS

(* The counters of a connection, whoever is at its other end.              *)
Counters ==
  /\ excess = 0
  /\ ~open => pc = "event_loop"
  /\ buf = NULL => pktsize = 0
  /\ pc = "event_loop" /\ buf # NULL => len < pktsize

(* How many bytes of the message under way the daemon has.                 *)
Got == IF pc = "process_buf" THEN arglen ELSE IF buf = NULL THEN 0 ELSE len

(* No message is under way.                                                *)
Between == Len(parsed) = Len(sizes) /\ stream = <<>> /\ buf = NULL /\ pc = "event_loop"

(* The last message is: Got bytes of it are with the daemon.               *)
Within ==
  LET m == Len(sizes) IN
  /\ m = Len(parsed) + 1
  /\ Got + Len(stream) = sizes[m]
  /\ \A i \in 1..Len(stream) : stream[i] = <<m, Got + i>>
  /\ \A i \in 1..Got : Data[i] = <<m, i>>
  /\ pc = "event_loop" /\ buf # NULL => pktsize = IF len < HDR THEN HDR ELSE sizes[m]

Patient == ParsedInOrder /\ (open => Between \/ Within)

IInv == TypeOK /\ Counters /\ (window = 1 => Patient)
-----------------------------------------------------------------------------
(* The operators on buffers and sequences *)

(* memcpy keeps what is in front of the copy, and copies.                  *)
LEMMA WriteEffect ==
  ASSUME NEW b \in Buffers, NEW n \in Nat, NEW q, NEW k \in Nat, \A i \in 1..k : q[i] \in Bytes
  PROVE  /\ Write(b, n, q, k) \in Buffers
         /\ \A i \in 1..n : i <= SBSIZE => Write(b, n, q, k)[i] = b[i]
         /\ \A i \in (n + 1)..(n + k) : i <= SBSIZE => Write(b, n, q, k)[i] = q[i - n]
<1> SBSIZE \in Nat
  BY SizeAssumption
<1>1. ASSUME NEW i \in 1..SBSIZE
      PROVE  (IF i \in (n + 1)..(n + k) THEN q[i - n] ELSE b[i]) \in Bytes
  <2>1. CASE i \in (n + 1)..(n + k)
    BY <2>1
  <2>2. CASE i \notin (n + 1)..(n + k)
    BY <2>2 DEF Buffers
  <2> QED BY <2>1, <2>2
<1>2. Write(b, n, q, k) \in Buffers
  BY <1>1 DEF Write, Buffers
<1>3. \A i \in 1..n : i <= SBSIZE => Write(b, n, q, k)[i] = b[i]
  BY DEF Write
<1>4. \A i \in (n + 1)..(n + k) : i <= SBSIZE => Write(b, n, q, k)[i] = q[i - n]
  BY DEF Write
<1> QED BY <1>2, <1>3, <1>4

(* memmove within a buffer leaves a buffer.                                *)
LEMMA MovedTyped ==
  ASSUME NEW b \in Buffers, NEW t \in Nat, NEW n \in Nat, t + n <= SBSIZE
  PROVE  Moved(b, t, n) \in Buffers
<1> SBSIZE \in Nat
  BY SizeAssumption
<1>1. ASSUME NEW i \in 1..SBSIZE PROVE (IF i <= n THEN b[t + i] ELSE b[i]) \in Bytes
  BY DEF Buffers
<1> QED BY <1>1 DEF Moved, Buffers

(* What recv() leaves of the stream.                                       *)
LEMMA RestOfStream ==
  ASSUME NEW q \in Seq(Bytes), NEW k \in 1..Len(q)
  PROVE  /\ SubSeq(q, k + 1, Len(q)) \in Seq(Bytes)
         /\ Len(SubSeq(q, k + 1, Len(q))) = Len(q) - k
         /\ \A i \in 1..(Len(q) - k) : SubSeq(q, k + 1, Len(q))[i] = q[i + k]
<1>1. CASE k + 1 <= Len(q)
  BY <1>1
<1>2. CASE k + 1 > Len(q)
  BY <1>2
<1> QED BY <1>1, <1>2

(* The bytes of a message, and the stream that they are put behind.        *)
LEMMA StreamGrows ==
  ASSUME NEW q \in Seq(Bytes), NEW m \in 1..MaxMsgs, NEW s \in 0..MAXMSG
  PROVE  LET r == q \o [i \in 1..s |-> <<m, i>>] IN
         /\ r \in Seq(Bytes)
         /\ q = <<>> => Len(r) = s /\ \A i \in 1..s : r[i] = <<m, i>>
<1> DEFINE r == [i \in 1..s |-> <<m, i>>]
<1> s \in Nat /\ MAXMSG \in Nat
  BY SizeAssumption
<1>1. \A i \in 1..s : <<m, i>> \in Bytes
  BY DEF Bytes
<1>2. r \in Seq(Bytes) /\ Len(r) = s /\ \A i \in 1..s : r[i] = <<m, i>>
  <2>1. r \in [1..s -> Bytes] /\ \A i \in 1..s : r[i] = <<m, i>>
    BY <1>1
  <2> HIDE DEF r
  <2>2. r \in Seq(Bytes)
    BY <2>1, SeqDef
  <2>3. Len(r) \in Nat /\ 1..Len(r) = 1..s
    BY <2>1, <2>2, LenProperties
  <2>4. Len(r) = s
    <3>1. \A j : j \in 1..Len(r) <=> j \in 1..s
      BY <2>3, Zenon
    <3>2. (Len(r) > 0 => Len(r) <= s) /\ (s > 0 => s <= Len(r))
      BY <2>3, <3>1
    <3> QED BY <2>3, <3>2
  <2> QED BY <2>1, <2>2, <2>4
<1> HIDE DEF r
<1>3. q \o r \in Seq(Bytes) /\ (q = <<>> => q \o r = r)
  BY <1>2, ConcatProperties, ConcatEmptySeq
<1>4. q \o r \in Seq(Bytes) /\ (q = <<>> => Len(q \o r) = s /\ \A i \in 1..s : (q \o r)[i] = <<m, i>>)
  BY <1>2, <1>3
<1> QED BY <1>4 DEF r

-----------------------------------------------------------------------------
(* The types that the steps need *)
LEMMA Types ==
  ASSUME TypeOK
  PROVE  /\ sizes \in Seq(Sizes) /\ Len(sizes) \in 0..MaxMsgs
         /\ stream \in Seq(Bytes) /\ Len(stream) \in Nat
         /\ pc \in {"event_loop", "process_buf"}
         /\ arglen \in 0..SBSIZE
         /\ static_buf \in Buffers /\ buf \in Buffers \cup {NULL}
         /\ len \in 0..SBSIZE /\ pktsize \in 0..MAXMSG
         /\ parsed \in Seq(0..MaxMsgs) /\ Len(parsed) \in Nat
         /\ \A m \in 1..Len(sizes) : sizes[m] \in MINMSG..MAXMSG
<1>1. /\ sizes \in Seq(Sizes) /\ Len(sizes) <= MaxMsgs
      /\ stream \in Seq(Bytes)
      /\ pc \in {"event_loop", "process_buf"}
      /\ arglen \in 0..SBSIZE
      /\ static_buf \in Buffers /\ buf \in Buffers \cup {NULL}
      /\ len \in 0..SBSIZE /\ pktsize \in 0..MAXMSG
      /\ parsed \in Seq(0..MaxMsgs)
  BY Zenon DEF TypeOK
<1>2. \A m \in 1..Len(sizes) : sizes[m] \in Sizes
  BY <1>1
<1>3. \A m \in 1..Len(sizes) : sizes[m] \in MINMSG..MAXMSG
  BY <1>2, ClientAssumption
<1>4. Len(sizes) \in 0..MaxMsgs /\ Len(stream) \in Nat /\ Len(parsed) \in Nat
  BY <1>1, ClientAssumption
<1> QED BY <1>1, <1>3, <1>4

(* The lengths that process_buf goes on with.                              *)
LEMMA Lengths ==
  ASSUME IInv, NEW t \in totaltoget, LegalLength(t)
  PROVE  t \in 1..MAXMSG /\ (t <= arglen => t \in MINMSG..MAXMSG)
<1> /\ HDR \in Nat \ {0} /\ MINMSG \in Nat /\ MAXMSG \in Nat
    /\ HDR < MINMSG /\ MINMSG <= MAXMSG
  BY SizeAssumption
<1>1. arglen \in Nat
  BY Types, SizeAssumption DEF IInv
<1>2. CASE arglen < HDR
  BY <1>1, <1>2 DEF totaltoget
<1>3. CASE t \in MINMSG..MAXMSG
  BY <1>3
<1> QED BY <1>2, <1>3 DEF LegalLength

(* Of a client that waits, process_buf finds the length of its message.    *)
LEMMA PatientLength ==
  ASSUME IInv, window = 1, pc = "process_buf", NEW t \in totaltoget
  PROVE  /\ open /\ Within
         /\ t = IF arglen < HDR THEN HDR ELSE sizes[Len(sizes)]
<1>1. open /\ Within
  BY DEF IInv, Counters, Patient, Between
<1> DEFINE m == Len(sizes)
<1>2. arglen \in Nat /\ m \in 1..Len(sizes) /\ HDR \in Nat \ {0}
  BY <1>1, Types, SizeAssumption DEF IInv, Within
<1>3. \A i \in 1..arglen : Data[i] = <<m, i>>
  BY <1>1 DEF Within, Got
<1>4. CASE arglen < HDR
  BY <1>1, <1>4 DEF totaltoget
<1>5. CASE ~(arglen < HDR)
  <2>1. \A i \in 1..HDR : Data[i] = <<m, i>>
    BY <1>2, <1>3, <1>5
  <2>2. Data[1][1] = m
    BY <1>2, <2>1
  <2>3. t = sizes[m]
    BY <1>2, <1>5, <2>1, <2>2, Zenon DEF totaltoget
  <2> QED BY <1>1, <1>5, <2>3
<1> QED BY <1>4, <1>5

-----------------------------------------------------------------------------
(* The connection is new.                                                  *)
LEMMA InitIInv == Init => IInv
<1> SUFFICES ASSUME Init PROVE IInv
  OBVIOUS
<1>1. open
  BY Zenon DEF Init
<1>2. static_buf \in Buffers
  BY DEF Init, Buffers, Bytes
<1>3. TypeOK
  <2>1. open \in BOOLEAN
    BY Zenon DEF Init
  <2>2. sizes \in Seq(Sizes) /\ Len(sizes) <= MaxMsgs /\ stream \in Seq(Bytes) /\ parsed \in Seq(0..MaxMsgs)
    BY ClientAssumption DEF Init
  <2>3. /\ window \in Windows /\ peer \in {"open", "closed"} /\ pc \in {"event_loop", "process_buf"}
        /\ buf \in Buffers \cup {NULL}
    BY DEF Init
  <2>4. arglen \in 0..SBSIZE /\ len \in 0..SBSIZE /\ pktsize \in 0..MAXMSG /\ excess \in 0..SBSIZE
    BY SizeAssumption DEF Init
  <2> QED BY <1>2, <2>1, <2>2, <2>3, <2>4, Zenon DEF TypeOK
<1>4. Counters
  BY <1>1 DEF Init, Counters
<1>5. Patient
  <2>1. Len(parsed) = 0 /\ Len(sizes) = 0
    BY DEF Init
  <2>2. Between
    BY <2>1 DEF Init, Between
  <2> QED BY <2>1, <2>2 DEF Patient, ParsedInOrder
<1> QED BY <1>3, <1>4, <1>5 DEF IInv

(* The connection is closed: what was parsed counts, and no more.          *)
LEMMA Closed ==
  ASSUME IInv, error_exit, UNCHANGED <<client, stream, static_buf>>,
         parsed' \in Seq(0..MaxMsgs), window = 1 => ParsedInOrder'
  PROVE  IInv'
<1>1. open' = FALSE /\ buf' = NULL /\ len' = 0 /\ pktsize' = 0 /\ excess' = 0
      /\ pc' = "event_loop" /\ arglen' = 0
  BY Zenon DEF error_exit
<1>2. TypeOK'
  <2>1. open' \in BOOLEAN
    BY <1>1, Zenon
  <2>2. arglen' \in 0..SBSIZE /\ len' \in 0..SBSIZE /\ pktsize' \in 0..MAXMSG /\ excess' \in 0..SBSIZE
    BY <1>1, SizeAssumption
  <2>3. UNCHANGED <<window, sizes, peer>>
    BY DEF client
  <2>4. pc' \in {"event_loop", "process_buf"} /\ buf' \in Buffers \cup {NULL}
    BY <1>1
  <2> QED BY <2>1, <2>2, <2>3, <2>4, Zenon DEF IInv, TypeOK
<1>3. ~open'
  BY <1>1, Zenon
<1>4. Counters'
  BY <1>1, <1>3 DEF Counters
<1>5. window' = 1 => Patient'
  BY <1>3 DEF client, Patient
<1> QED BY <1>2, <1>4, <1>5 DEF IInv

(* The client *)

(* The client sends.                                                       *)
LEMMA SendsStep ==
  ASSUME IInv, NEW s \in Sizes, ClientSends(s)
  PROVE  IInv'
<1> DEFINE m == Len(sizes) + 1
<1>1. /\ open /\ Len(sizes) < MaxMsgs /\ Len(sizes) - Len(parsed) < window
      /\ sizes' = Append(sizes, s)
      /\ stream' = stream \o [i \in 1..s |-> <<m, i>>]
      /\ UNCHANGED <<window, peer, pc, arglen, open, buf, len, pktsize, excess, static_buf, parsed>>
  BY DEF ClientSends, sock
<1>2. /\ sizes \in Seq(Sizes) /\ Len(sizes) \in 0..MaxMsgs /\ stream \in Seq(Bytes)
      /\ Len(parsed) \in Nat
  BY Types DEF IInv
<1>3. s \in 0..MAXMSG /\ s \in MINMSG..MAXMSG
  BY ClientAssumption, SizeAssumption
<1>4. m \in 1..MaxMsgs
  BY <1>1, <1>2, ClientAssumption
<1>5. /\ sizes' \in Seq(Sizes) /\ Len(sizes') = m /\ sizes'[m] = s
  BY <1>1, <1>2
<1> HIDE DEF m
<1>6. /\ stream' \in Seq(Bytes)
      /\ stream = <<>> => Len(stream') = s /\ \A i \in 1..s : stream'[i] = <<m, i>>
  BY <1>1, <1>2, <1>3, <1>4, StreamGrows
<1>7. TypeOK'
  <2>1. Len(sizes') <= MaxMsgs
    BY <1>4, <1>5, ClientAssumption
  <2> QED BY <1>1, <1>5, <1>6, <2>1, Zenon DEF IInv, TypeOK
<1>8. Counters'
  BY <1>1 DEF IInv, Counters
<1>9. ASSUME window' = 1 PROVE Patient'
  <2>1. Patient /\ window = 1
    BY <1>1, <1>9 DEF IInv
  <2>2. Between
    BY <1>1, <1>2, <2>1 DEF Patient, Within
  <2>3. Got' = 0 /\ m = Len(parsed') + 1
    BY <1>1, <2>2 DEF Between, Got, m
  <2>4. Within'
    BY <1>1, <1>3, <1>5, <1>6, <2>2, <2>3 DEF Within, Between
  <2>5. ParsedInOrder'
    BY <1>1, <2>1 DEF Patient, ParsedInOrder
  <2> QED BY <2>4, <2>5 DEF Patient
<1> QED BY <1>7, <1>8, <1>9 DEF IInv

(* The connection ends.                                                    *)
LEMMA ClosesStep ==
  ASSUME IInv, ClientCloses \/ UNCHANGED vars
  PROVE  IInv'
<1>1. /\ peer' \in {peer, "closed"}
      /\ UNCHANGED <<window, sizes, stream, pc, arglen, open, buf, len, pktsize, excess, static_buf, parsed>>
  BY DEF ClientCloses, vars, client, sock
<1>2. TypeOK'
  <2>1. peer' \in {"open", "closed"}
    BY <1>1 DEF IInv, TypeOK
  <2> QED BY <1>1, <2>1, Zenon DEF IInv, TypeOK
<1>3. Counters'
  BY <1>1 DEF IInv, Counters
<1>4. Got' = Got /\ Data' = Data
  BY <1>1 DEF Got, Data
<1>5. window' = 1 => Patient'
  BY <1>1, <1>4 DEF IInv, Patient, Between, Within, ParsedInOrder
<1> QED BY <1>2, <1>3, <1>5 DEF IInv

-----------------------------------------------------------------------------
(* tcp_recv *)

(* tcp_recv reads the first piece of a message.                            *)
LEMMA RecvNewStep ==
  ASSUME IInv, NEW k, tcp_recv_new(k)
  PROVE  IInv'
<1>1. /\ pc = "event_loop" /\ open /\ buf = NULL
      /\ k \in 1..Len(stream) /\ k <= SBSIZE
      /\ static_buf' = Write(static_buf, 0, stream, k)
      /\ stream' = SubSeq(stream, k + 1, Len(stream))
      /\ pc' = "process_buf" /\ arglen' = k
      /\ UNCHANGED <<window, sizes, peer, open, buf, len, pktsize, excess, parsed>>
  BY DEF tcp_recv_new, Received, Consume, client, sock
<1>2. stream \in Seq(Bytes) /\ Len(stream) \in Nat /\ static_buf \in Buffers /\ SBSIZE \in Nat
  BY Types, SizeAssumption DEF IInv
<1>3. k \in Nat /\ \A i \in 1..k : stream[i] \in Bytes
  BY <1>1, <1>2
<1>4. /\ static_buf' \in Buffers
      /\ \A i \in 1..k : static_buf'[i] = stream[i]
  <2>1. /\ Write(static_buf, 0, stream, k) \in Buffers
        /\ \A i \in (0 + 1)..(0 + k) : i <= SBSIZE => Write(static_buf, 0, stream, k)[i] = stream[i - 0]
    <3>1. static_buf \in Buffers /\ k \in Nat
      BY <1>2, <1>3
    <3>2. ASSUME NEW q, \A i \in 1..k : q[i] \in Bytes
          PROVE  /\ Write(static_buf, 0, q, k) \in Buffers
                 /\ \A i \in (0 + 1)..(0 + k) : i <= SBSIZE => Write(static_buf, 0, q, k)[i] = q[i - 0]
      BY <3>1, <3>2, WriteEffect
    <3> QED BY <1>3, <3>2, Zenon
  <2>2. \A i \in 1..k : i \in (0 + 1)..(0 + k) /\ i <= SBSIZE /\ i - 0 = i
    BY <1>1, <1>2, <1>3
  <2> QED BY <1>1, <2>1, <2>2
<1>5. /\ stream' \in Seq(Bytes) /\ Len(stream') = Len(stream) - k
      /\ \A i \in 1..(Len(stream) - k) : stream'[i] = stream[i + k]
  BY <1>1, <1>2, RestOfStream
<1>6. TypeOK'
  <2>1. arglen' \in 0..SBSIZE /\ pc' \in {"event_loop", "process_buf"}
    BY <1>1, <1>2, <1>3
  <2> QED BY <1>1, <1>4, <1>5, <2>1, Zenon DEF IInv, TypeOK
<1>7. Counters'
  BY <1>1 DEF IInv, Counters
<1>8. ASSUME window' = 1 PROVE Patient'
  <2>1. Patient
    BY <1>1, <1>8 DEF IInv
  <2>2. Within
    BY <1>1, <1>2, <2>1 DEF Patient, Between
  <2>3. Got = 0 /\ Got' = k /\ Data' = static_buf'
    BY <1>1 DEF Got, Data
  <2> DEFINE m == Len(sizes)
  <2>4. /\ m = Len(parsed) + 1 /\ Len(stream) = sizes[m]
        /\ \A i \in 1..Len(stream) : stream[i] = <<m, i>>
    BY <1>2, <2>2, <2>3 DEF Within
  <2>5. \A i \in 1..(Len(stream) - k) : stream'[i] = <<m, k + i>>
    <3>1. \A i \in 1..(Len(stream) - k) : i + k \in 1..Len(stream) /\ i + k = k + i
      BY <1>1, <1>2, <1>3
    <3> QED BY <1>5, <2>4, <3>1
  <2>6. \A i \in 1..k : static_buf'[i] = <<m, i>>
    <3>1. \A i \in 1..k : i \in 1..Len(stream)
      BY <1>1, <1>2, <1>3
    <3> QED BY <1>4, <2>4, <3>1
  <2>7. k + (Len(stream) - k) = Len(stream)
    BY <1>2, <1>3
  <2>8. Within'
    <3>1. Len(sizes') = Len(parsed') + 1 /\ Len(sizes') = m
      BY <1>1, <2>4
    <3>2. Got' + Len(stream') = sizes'[Len(sizes')]
      BY <1>1, <1>5, <2>3, <2>4, <2>7
    <3>3. \A i \in 1..Len(stream') : stream'[i] = <<Len(sizes'), Got' + i>>
      BY <1>5, <2>3, <2>5, <3>1, Zenon
    <3>4. \A i \in 1..Got' : Data'[i] = <<Len(sizes'), i>>
      BY <2>3, <2>6, <3>1, Zenon
    <3>5. pc' # "event_loop"
      BY <1>1
    <3> QED BY <3>1, <3>2, <3>3, <3>4, <3>5, Zenon DEF Within
  <2>9. ParsedInOrder'
    BY <1>1, <2>1 DEF Patient, ParsedInOrder
  <2> QED BY <2>8, <2>9 DEF Patient
<1> QED BY <1>6, <1>7, <1>8 DEF IInv

(* tcp_recv reads the rest of a message.                                   *)
LEMMA RecvRestStep ==
  ASSUME IInv, NEW k, tcp_recv_rest(k)
  PROVE  IInv'
<1>1. /\ pc = "event_loop" /\ open /\ buf # NULL
      /\ k \in 1..Len(stream) /\ k <= pktsize - len
      /\ buf' = Write(buf, len, stream, k)
      /\ stream' = SubSeq(stream, k + 1, Len(stream))
      /\ pc' = "process_buf" /\ arglen' = len + k /\ len' = len + k
      /\ UNCHANGED <<window, sizes, peer, open, pktsize, excess, static_buf, parsed>>
  BY DEF tcp_recv_rest, Received, Consume, client
<1>2. /\ stream \in Seq(Bytes) /\ Len(stream) \in Nat /\ buf \in Buffers /\ SBSIZE \in Nat
      /\ len \in Nat /\ pktsize \in Nat /\ pktsize <= SBSIZE
  BY <1>1, Types, SizeAssumption DEF IInv
<1>3. k \in Nat /\ (\A i \in 1..k : stream[i] \in Bytes) /\ len + k <= SBSIZE
  BY <1>1, <1>2
<1>4. /\ buf' \in Buffers /\ buf' # NULL
      /\ \A i \in 1..len : buf'[i] = buf[i]
      /\ \A i \in (len + 1)..(len + k) : buf'[i] = stream[i - len]
  <2>1. /\ Write(buf, len, stream, k) \in Buffers
        /\ \A i \in 1..len : i <= SBSIZE => Write(buf, len, stream, k)[i] = buf[i]
        /\ \A i \in (len + 1)..(len + k) : i <= SBSIZE => Write(buf, len, stream, k)[i] = stream[i - len]
    <3>1. buf \in Buffers /\ k \in Nat /\ len \in Nat
      BY <1>2, <1>3
    <3>2. ASSUME NEW q, \A i \in 1..k : q[i] \in Bytes
          PROVE  /\ Write(buf, len, q, k) \in Buffers
                 /\ \A i \in 1..len : i <= SBSIZE => Write(buf, len, q, k)[i] = buf[i]
                 /\ \A i \in (len + 1)..(len + k) : i <= SBSIZE => Write(buf, len, q, k)[i] = q[i - len]
      BY <3>1, <3>2, WriteEffect
    <3> QED BY <1>3, <3>2, Zenon
  <2>2. \A i \in 1..(len + k) : i <= SBSIZE
    BY <1>2, <1>3
  <2>3. (\A i \in 1..len : i \in 1..(len + k)) /\ (\A i \in (len + 1)..(len + k) : i \in 1..(len + k))
    BY <1>2, <1>3
  <2> QED BY <1>1, <2>1, <2>2, <2>3, NullAssumption
<1>5. /\ stream' \in Seq(Bytes) /\ Len(stream') = Len(stream) - k
      /\ \A i \in 1..(Len(stream) - k) : stream'[i] = stream[i + k]
  BY <1>1, <1>2, RestOfStream
<1>6. TypeOK'
  <2>1. arglen' \in 0..SBSIZE /\ len' \in 0..SBSIZE /\ pc' \in {"event_loop", "process_buf"}
    BY <1>1, <1>2, <1>3
  <2>2. buf' \in Buffers \cup {NULL}
    BY <1>4
  <2> QED BY <1>1, <1>5, <2>1, <2>2, Zenon DEF IInv, TypeOK
<1>7. Counters'
  BY <1>1, <1>4 DEF IInv, Counters
<1>8. ASSUME window' = 1 PROVE Patient'
  <2>1. Patient
    BY <1>1, <1>8 DEF IInv
  <2>2. Within
    BY <1>1, <2>1 DEF Patient, Between
  <2>3. Got = len /\ Got' = len + k /\ Data = buf /\ Data' = buf'
    BY <1>1, <1>4 DEF Got, Data
  <2> DEFINE m == Len(sizes)
  <2>4. /\ m = Len(parsed) + 1 /\ len + Len(stream) = sizes[m]
        /\ \A i \in 1..Len(stream) : stream[i] = <<m, len + i>>
        /\ \A i \in 1..len : buf[i] = <<m, i>>
    BY <2>2, <2>3 DEF Within
  <2>5. \A i \in 1..(Len(stream) - k) : stream'[i] = <<m, (len + k) + i>>
    <3>1. \A i \in 1..(Len(stream) - k) : i + k \in 1..Len(stream) /\ len + (i + k) = (len + k) + i
      BY <1>1, <1>2, <1>3
    <3> QED BY <1>5, <2>4, <3>1
  <2>6. \A i \in 1..(len + k) : buf'[i] = <<m, i>>
    <3>1. \A i \in (len + 1)..(len + k) : i - len \in 1..Len(stream) /\ len + (i - len) = i
      BY <1>1, <1>2, <1>3
    <3>2. \A i \in (len + 1)..(len + k) : buf'[i] = <<m, i>>
      BY <1>4, <2>4, <3>1
    <3>3. \A i \in 1..len : buf'[i] = <<m, i>>
      BY <1>4, <2>4
    <3>4. \A i \in 1..(len + k) : i \in 1..len \/ i \in (len + 1)..(len + k)
      BY <1>2, <1>3
    <3> QED BY <3>2, <3>3, <3>4
  <2>7. (len + k) + (Len(stream) - k) = len + Len(stream)
    BY <1>2, <1>3
  <2>8. Within'
    <3>1. Len(sizes') = Len(parsed') + 1 /\ Len(sizes') = m
      BY <1>1, <2>4
    <3>2. Got' + Len(stream') = sizes'[Len(sizes')]
      BY <1>1, <1>5, <2>3, <2>4, <2>7
    <3>3. \A i \in 1..Len(stream') : stream'[i] = <<Len(sizes'), Got' + i>>
      BY <1>5, <2>3, <2>5, <3>1, Zenon
    <3>4. \A i \in 1..Got' : Data'[i] = <<Len(sizes'), i>>
      BY <2>3, <2>6, <3>1, Zenon
    <3>5. pc' # "event_loop"
      BY <1>1
    <3> QED BY <3>1, <3>2, <3>3, <3>4, <3>5, Zenon DEF Within
  <2>9. ParsedInOrder'
    BY <1>1, <2>1 DEF Patient, ParsedInOrder
  <2> QED BY <2>8, <2>9 DEF Patient
<1> QED BY <1>6, <1>7, <1>8 DEF IInv

(* The parsed messages stay in order where none is added.                  *)
LEMMA OrderKept ==
  ASSUME IInv, UNCHANGED parsed
  PROVE  parsed' \in Seq(0..MaxMsgs) /\ (window = 1 => ParsedInOrder')
BY Types DEF IInv, Patient, ParsedInOrder

(* recv() returns 0 for a client that has closed, never for want of room.  *)
LEMMA RecvEndStep ==
  ASSUME IInv, tcp_recv_end
  PROVE  IInv' /\ peer = "closed"
<1>1. IInv'
  BY OrderKept, Closed DEF tcp_recv_end
<1>2. ~(buf # NULL /\ pktsize = len)
  BY Types, SizeAssumption DEF IInv, Counters, tcp_recv_end
<1> QED BY <1>1, <1>2 DEF tcp_recv_end

-----------------------------------------------------------------------------
(* process_buf *)

(* A client that waits writes legal lengths.                               *)
LEMMA BadLengthStep ==
  ASSUME IInv, NEW t \in totaltoget, process_buf_bad_length(t)
  PROVE  IInv' /\ window # 1
<1>1. IInv'
  BY OrderKept, Closed DEF process_buf_bad_length
<1>2. ASSUME window = 1 PROVE FALSE
  <2>1. Within /\ t = IF arglen < HDR THEN HDR ELSE sizes[Len(sizes)]
    BY <1>2, PatientLength DEF process_buf_bad_length
  <2>2. /\ arglen \in Nat /\ HDR \in Nat /\ MINMSG \in Nat /\ MAXMSG \in Nat
        /\ Len(sizes) \in 1..Len(sizes) /\ \A m \in 1..Len(sizes) : sizes[m] \in MINMSG..MAXMSG
    BY <2>1, Types, SizeAssumption DEF IInv, Within
  <2>3. arglen >= HDR /\ (t > MAXMSG \/ t < MINMSG)
    BY DEF process_buf_bad_length
  <2>4. t \in MINMSG..MAXMSG
    BY <2>1, <2>2, <2>3
  <2> QED BY <2>2, <2>3, <2>4
<1> QED BY <1>1, <1>2

(* No memory for the rest of a message: the connection is closed.          *)
LEMMA NoMemoryStep ==
  ASSUME IInv, NEW t, process_buf_no_memory(t)
  PROVE  IInv'
BY OrderKept, Closed DEF process_buf_no_memory

(* process_buf waits for the rest of a message.                            *)
LEMMA IncompleteStep ==
  ASSUME IInv, NEW t \in totaltoget, process_buf_incomplete(t)
  PROVE  IInv'
<1> DEFINE empty == [i \in 1..SBSIZE |-> Junk]
<1>1. /\ pc = "process_buf" /\ LegalLength(t) /\ t > arglen
      /\ buf' = IF buf = NULL THEN Write(empty, 0, static_buf, arglen) ELSE buf
      /\ len' = arglen /\ pktsize' = t
      /\ pc' = "event_loop" /\ arglen' = 0
      /\ UNCHANGED <<window, sizes, peer, stream, open, excess, static_buf, parsed>>
  BY DEF process_buf_incomplete, client
<1>2. /\ static_buf \in Buffers /\ buf \in Buffers \cup {NULL}
      /\ arglen \in 0..SBSIZE /\ SBSIZE \in Nat /\ MAXMSG \in Nat
  BY Types, SizeAssumption DEF IInv
<1>3. t \in 1..MAXMSG
  BY <1>1, Lengths
<1>4. /\ buf' \in Buffers /\ buf' # NULL
      /\ \A i \in 1..arglen : buf'[i] = Data[i]
  <2>1. CASE buf = NULL
    <3>1. empty \in Buffers
      BY DEF Buffers, Bytes
    <3>2. \A i \in 1..arglen : static_buf[i] \in Bytes
      BY <1>2 DEF Buffers
    <3> HIDE DEF empty
    <3>3. /\ Write(empty, 0, static_buf, arglen) \in Buffers
          /\ \A i \in (0 + 1)..(0 + arglen) : i <= SBSIZE => Write(empty, 0, static_buf, arglen)[i] = static_buf[i - 0]
      BY <1>2, <3>1, <3>2, WriteEffect
    <3>4. \A i \in 1..arglen : i \in (0 + 1)..(0 + arglen) /\ i <= SBSIZE /\ i - 0 = i
      BY <1>2
    <3> QED BY <1>1, <2>1, <3>3, <3>4, NullAssumption DEF Data
  <2>2. CASE buf # NULL
    BY <1>1, <1>2, <2>2 DEF Data
  <2> QED BY <2>1, <2>2
<1>5. TypeOK'
  <2>1. /\ arglen' \in 0..SBSIZE /\ len' \in 0..SBSIZE /\ pktsize' \in 0..MAXMSG
        /\ pc' \in {"event_loop", "process_buf"} /\ buf' \in Buffers \cup {NULL}
    BY <1>1, <1>2, <1>3, <1>4
  <2> QED BY <1>1, <2>1, Zenon DEF IInv, TypeOK
<1>6. Counters'
  <2>1. len' < pktsize'
    BY <1>1, <1>2, <1>3
  <2> QED BY <1>1, <1>4, <2>1 DEF IInv, Counters
<1>7. ASSUME window' = 1 PROVE Patient'
  <2>1. window = 1 /\ Patient
    BY <1>1, <1>7 DEF IInv
  <2>2. Within /\ t = IF arglen < HDR THEN HDR ELSE sizes[Len(sizes)]
    BY <1>1, <2>1, PatientLength
  <2>3. Got = arglen /\ Got' = arglen /\ Data' = buf'
    BY <1>1, <1>4 DEF Got, Data
  <2>4. Within'
    <3>1. Len(sizes') = Len(parsed') + 1 /\ Len(sizes') = Len(sizes) /\ stream' = stream
      BY <1>1, <2>2 DEF Within
    <3>2. Got' + Len(stream') = sizes'[Len(sizes')]
      BY <1>1, <2>2, <2>3 DEF Within
    <3>3. \A i \in 1..Len(stream') : stream'[i] = <<Len(sizes'), Got' + i>>
      BY <2>2, <2>3, <3>1, Zenon DEF Within
    <3>4. \A i \in 1..Got' : Data'[i] = <<Len(sizes'), i>>
      BY <1>4, <2>2, <2>3, <3>1, Zenon DEF Within
    <3>5. pktsize' = IF len' < HDR THEN HDR ELSE sizes'[Len(sizes')]
      BY <1>1, <2>2, Zenon
    <3> QED BY <3>1, <3>2, <3>3, <3>4, <3>5, Zenon DEF Within
  <2>5. ParsedInOrder'
    BY <1>1, <2>1 DEF Patient, ParsedInOrder
  <2> QED BY <2>4, <2>5 DEF Patient
<1> QED BY <1>5, <1>6, <1>7 DEF IInv

(* What is parsed of a client that waits is its message, all of it.        *)
LEMMA PatientMessage ==
  ASSUME IInv, window = 1, NEW t \in totaltoget, pc = "process_buf", LegalLength(t), t <= arglen
  PROVE  /\ Message(t) = Len(parsed) + 1 /\ Len(sizes) = Len(parsed) + 1
         /\ t = arglen /\ stream = <<>> /\ t = sizes[Len(sizes)]
<1> DEFINE m == Len(sizes)
<1>1. Within /\ t = IF arglen < HDR THEN HDR ELSE sizes[m]
  BY PatientLength
<1>2. /\ arglen \in Nat /\ HDR \in Nat /\ MINMSG \in Nat /\ MAXMSG \in Nat /\ HDR < MINMSG
      /\ m \in 1..Len(sizes) /\ sizes[m] \in MINMSG..MAXMSG
      /\ stream \in Seq(Bytes) /\ Len(stream) \in Nat
  BY <1>1, Types, SizeAssumption DEF IInv, Within
<1>3. t = sizes[m] /\ arglen + Len(stream) = sizes[m]
  BY <1>1, <1>2 DEF Within, Got
<1>4. t = arglen /\ Len(stream) = 0
  BY <1>2, <1>3
<1>5. stream = <<>>
  BY <1>2, <1>4, EmptySeq
<1>6. \A i \in 1..t : Data[i] = <<m, i>>
  BY <1>1, <1>4 DEF Within, Got
<1>7. 1 \in 1..t
  BY <1>2, <1>3
<1>8. Data[1][1] = m
  BY <1>6, <1>7
<1>9. Message(t) = m
  BY <1>2, <1>3, <1>6, <1>8, Zenon DEF Message
<1> QED BY <1>1, <1>3, <1>4, <1>5, <1>9 DEF Within

(* Where one message follows another in order.                             *)
LEMMA OrderGrows ==
  ASSUME IInv, NEW n \in 0..MaxMsgs, parsed' = Append(parsed, n),
         window = 1 => n = Len(parsed) + 1
  PROVE  /\ parsed' \in Seq(0..MaxMsgs) /\ Len(parsed') = Len(parsed) + 1
         /\ window = 1 => ParsedInOrder'
<1>1. parsed \in Seq(0..MaxMsgs) /\ Len(parsed) \in Nat
  BY Types DEF IInv
<1>2. /\ parsed' \in Seq(0..MaxMsgs) /\ Len(parsed') = Len(parsed) + 1
      /\ parsed'[Len(parsed) + 1] = n /\ \A i \in 1..Len(parsed) : parsed'[i] = parsed[i]
  BY <1>1
<1>3. ASSUME window = 1, NEW i \in 1..Len(parsed') PROVE parsed'[i] = i
  <2>1. i \in 1..Len(parsed) \/ i = Len(parsed) + 1
    BY <1>1, <1>2
  <2> QED BY <1>2, <1>3, <2>1 DEF IInv, Patient, ParsedInOrder
<1> QED BY <1>2, <1>3 DEF ParsedInOrder

(* The number that history records for a message.                          *)
LEMMA MessageTyped ==
  ASSUME IInv, NEW t
  PROVE  Message(t) \in 0..MaxMsgs
<1>1. Len(sizes) \in 0..MaxMsgs /\ MaxMsgs \in Nat
  BY Types, ClientAssumption DEF IInv
<1>2. \A m \in 1..Len(sizes) : m \in 0..MaxMsgs
  BY <1>1
<1>3. 0 \in 0..MaxMsgs
  BY <1>1
<1>4. Message(t) \in 1..Len(sizes) \/ Message(t) = 0
  BY DEF Message
<1> QED BY <1>2, <1>3, <1>4

(* process_buf has a whole message and goes on behind it.                  *)
LEMMA MessageStep ==
  ASSUME IInv, NEW t \in totaltoget, process_buf_message(t)
  PROVE  IInv' /\ (window = 1 /\ LongEnough => open' = open)
<1> DEFINE n == IF t < arglen THEN arglen - t ELSE excess
<1>1. /\ pc = "process_buf" /\ LegalLength(t) /\ t <= arglen
      /\ parsed' = Append(parsed, Message(t))
      /\ UNCHANGED <<client, stream>>
  BY DEF process_buf_message
<1>2. PICK ok \in Accepted(t) :
        IF ~ok THEN error_exit /\ UNCHANGED static_buf
        ELSE IF n > 0 THEN ParseTheRest(t, n)
        ELSE BufferDone
  BY DEF process_buf_message
<1>3. /\ arglen \in 0..SBSIZE /\ SBSIZE \in Nat /\ MAXMSG \in Nat /\ MAXMSG <= SBSIZE
      /\ static_buf \in Buffers /\ buf \in Buffers \cup {NULL} /\ excess = 0
  BY Types, SizeAssumption DEF IInv, Counters
<1>4. t \in 1..MAXMSG
  BY <1>1, Lengths
<1>5. n \in 0..SBSIZE /\ (n > 0 => t + n <= SBSIZE)
  BY <1>1, <1>3, <1>4
<1>6. window = 1 => /\ Message(t) = Len(parsed) + 1 /\ Len(sizes) = Len(parsed) + 1
                    /\ t = arglen /\ stream = <<>> /\ t = sizes[Len(sizes)]
  BY <1>1, PatientMessage
<1>7. /\ parsed' \in Seq(0..MaxMsgs) /\ Len(parsed') = Len(parsed) + 1
      /\ window = 1 => ParsedInOrder'
  BY <1>1, <1>6, MessageTyped, OrderGrows
<1>8. ASSUME window = 1 PROVE ~(n > 0) /\ (LongEnough => ok)
  <2>1. Message(t) # 0
    BY <1>6, <1>8, Types DEF IInv
  <2>2. ASSUME LongEnough PROVE ok
    <3>1. Len(sizes) \in 1..Len(sizes)
      BY <1>6, <1>8, Types DEF IInv
    <3>2. sizes[Len(sizes)] >= PARSEMIN
      BY <2>2, <3>1, Zenon DEF LongEnough
    <3>3. ~(t < PARSEMIN)
      BY <1>4, <1>6, <1>8, <3>2, SizeAssumption
    <3> QED BY <2>1, <3>3, Zenon DEF Accepted
  <2>3. n = 0
    BY <1>3, <1>6, <1>8
  <2> QED BY <2>2, <2>3
<1> HIDE DEF n
<1>u. UNCHANGED <<window, sizes, peer, stream>>
  BY <1>1 DEF client
<1>9. CASE ~ok
  <2>1. error_exit /\ UNCHANGED <<client, stream, static_buf>>
    BY <1>1, <1>2, <1>9, Zenon
  <2> QED BY <1>7, <1>8, <1>9, <2>1, Closed
<1>10. CASE ok /\ n > 0
  <2>1. ParseTheRest(t, n)
    BY <1>2, <1>10, Zenon
  <2>2. /\ len' = n /\ excess' = 0 /\ pc' = "process_buf" /\ arglen' = t
        /\ UNCHANGED <<open, pktsize>>
    BY <2>1 DEF ParseTheRest
  <2>3. static_buf' \in Buffers /\ buf' \in Buffers \cup {NULL} /\ (buf' = NULL => buf = NULL)
    <3>1. CASE buf = NULL
      <4>1. static_buf' = Moved(static_buf, t, n) /\ buf' = buf
        BY <2>1, <3>1 DEF ParseTheRest
      <4> QED BY <1>3, <1>4, <1>5, <1>10, <3>1, <4>1, MovedTyped
    <3>2. CASE buf # NULL
      <4>1. buf' = Moved(buf, t, n) /\ static_buf' = static_buf
        BY <2>1, <3>2 DEF ParseTheRest
      <4>2. Moved(buf, t, n) \in Buffers
        BY <1>3, <1>4, <1>5, <1>10, <3>2, MovedTyped
      <4> QED BY <1>3, <4>1, <4>2, NullAssumption
    <3> QED BY <3>1, <3>2
  <2>4. TypeOK'
    <3>1. /\ arglen' \in 0..SBSIZE /\ len' \in 0..SBSIZE /\ excess' \in 0..SBSIZE
          /\ pc' \in {"event_loop", "process_buf"}
      BY <1>3, <1>4, <1>5, <2>2
    <3> QED BY <1>u, <1>7, <2>2, <2>3, <3>1, Zenon DEF IInv, TypeOK
  <2>5. Counters'
    BY <1>1, <2>2, <2>3 DEF IInv, Counters
  <2> QED BY <1>u, <1>8, <1>10, <2>4, <2>5 DEF IInv
<1>11. CASE ok /\ ~(n > 0)
  <2>1. BufferDone
    BY <1>2, <1>11, Zenon
  <2>2. buf' = NULL /\ pc' = "event_loop" /\ arglen' = 0 /\ UNCHANGED <<open, static_buf>>
    BY <2>1 DEF BufferDone
  <2>3. len' \in 0..SBSIZE /\ pktsize' = 0 /\ excess' = 0
    BY <2>1, Types, SizeAssumption DEF IInv, Counters, BufferDone
  <2>4. TypeOK'
    <3>1. /\ arglen' \in 0..SBSIZE /\ pktsize' \in 0..MAXMSG /\ excess' \in 0..SBSIZE
          /\ pc' \in {"event_loop", "process_buf"} /\ buf' \in Buffers \cup {NULL}
      BY <1>3, <2>2, <2>3
    <3> QED BY <1>u, <1>7, <2>2, <2>3, <3>1, Zenon DEF IInv, TypeOK
  <2>5. Counters'
    BY <2>2, <2>3 DEF Counters
  <2>6. window' = 1 => Patient'
    BY <1>u, <1>6, <1>7, <2>2 DEF Patient, Between
  <2> QED BY <2>2, <2>4, <2>5, <2>6 DEF IInv
<1> QED BY <1>9, <1>10, <1>11

-----------------------------------------------------------------------------
(* Every step of the connection keeps the invariant.                       *)
LEMMA NextIInv == IInv /\ [Next]_vars => IInv'
<1> SUFFICES ASSUME IInv, [Next]_vars PROVE IInv'
  OBVIOUS
<1>1. CASE \E s \in Sizes : ClientSends(s)
  BY <1>1, SendsStep
<1>2. CASE ClientCloses \/ UNCHANGED vars
  BY <1>2, ClosesStep
<1>3. CASE tcp_recv
  BY <1>3, RecvNewStep, RecvRestStep, RecvEndStep DEF tcp_recv
<1>4. CASE process_buf
  BY <1>4, BadLengthStep, IncompleteStep, NoMemoryStep, MessageStep DEF process_buf
<1> QED BY <1>1, <1>2, <1>3, <1>4 DEF Next

(* The invariant holds always.                                             *)
LEMMA AlwaysIInv == Spec => []IInv
BY InitIInv, NextIInv, PTL DEF Spec

(* Whatever lengths a client pretends, the buffers and the counters of     *)
(* tcp_recv and process_buf stay within their sizes, and a connection that *)
(* waits for more asks recv() for at least one byte.                       *)
THEOREM RoomForTheRestHolds == Spec => []RoomForTheRest
<1>1. IInv => RoomForTheRest
  <2> SUFFICES ASSUME IInv PROVE RoomForTheRest
    OBVIOUS
  <2>1. pktsize <= SBSIZE
    BY Types, SizeAssumption DEF IInv
  <2> QED BY <2>1 DEF IInv, Counters, RoomForTheRest
<1> QED BY <1>1, AlwaysIInv, PTL

(* A client that waits for each answer has its messages parsed whole and   *)
(* in the order it sent them, however recv() cuts the stream.              *)
THEOREM PatientInOrderHolds == Spec => []PatientInOrder
<1>1. IInv => PatientInOrder
  BY DEF IInv, Patient, PatientInOrder
<1> QED BY <1>1, AlwaysIInv, PTL

(* The daemon closes the connection of such a client, whose messages are   *)
(* long enough for parse_message, only after the client has, or for want   *)
(* of memory.                                                              *)
THEOREM GoodClientKeptHolds == Spec => GoodClientKept
<1>1. IInv /\ [Next]_vars =>
        [window = 1 /\ LongEnough /\ open /\ ~ open' =>
           peer = "closed" \/ \E t \in totaltoget : process_buf_no_memory(t)]_vars
  <2> SUFFICES ASSUME IInv, Next, window = 1, LongEnough, open, ~open'
               PROVE  peer = "closed" \/ \E t \in totaltoget : process_buf_no_memory(t)
    BY Zenon
  <2>1. CASE \E s \in Sizes : ClientSends(s)
    BY <2>1 DEF ClientSends, sock
  <2>2. CASE ClientCloses
    BY <2>2 DEF ClientCloses, sock
  <2>3. CASE tcp_recv
    BY <2>3, RecvEndStep DEF tcp_recv, tcp_recv_new, tcp_recv_rest, sock
  <2>4. CASE process_buf
    <3>1. PICK t \in totaltoget : \/ process_buf_bad_length(t)
                                  \/ process_buf_incomplete(t)
                                  \/ process_buf_no_memory(t)
                                  \/ process_buf_message(t)
      BY <2>4 DEF process_buf
    <3>2. CASE process_buf_bad_length(t)
      BY <3>2, BadLengthStep
    <3>3. CASE process_buf_incomplete(t)
      BY <3>3 DEF process_buf_incomplete
    <3>4. CASE process_buf_no_memory(t)
      BY <3>4
    <3>5. CASE process_buf_message(t)
      BY <3>5, MessageStep
    <3> QED BY <3>1, <3>2, <3>3, <3>4, <3>5
  <2> QED BY <2>1, <2>2, <2>3, <2>4 DEF Next
<1> QED BY <1>1, AlwaysIInv, PTL DEF Spec, GoodClientKept

=============================================================================
