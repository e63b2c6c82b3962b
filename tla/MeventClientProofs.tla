------------------------- MODULE MeventClientProofs -------------------------
(***************************************************************************)
(* A call of the client library returns no other call's reply, for any     *)
(* servers, any number of calls and any loss, delay and doubling, until    *)
(* g_reqid starts again.                                                   *)
(*                                                                         *)
(* The test of a reply compares ids, so the argument is that before the    *)
(* counter starts again the id of a call is its number (Numbered), and     *)
(* that nothing is under way but replies to calls that were made (Made).   *)
(* A reply that is not older than the call is then the call's own.         *)
(*                                                                         *)
(* And the call that waits throws its own reply away only on a stream that *)
(* a call was given up on, wherever the counter stands: until then a       *)
(* stream carries one reply at the most (Sole).                            *)
(***************************************************************************)
EXTENDS MeventClient, SequenceTheorems, TLAPS

(* What is under way belongs to a call that was made, and a call that      *)
(* waits has a server.                                                     *)
Made ==
  /\ \A d \in atDaemon : d[2] \in 1..calls
  /\ \A s \in Servers : \A i \in 1..Len(socket[s]) : socket[s][i].call \in 1..calls
  /\ partial \in 0..calls
  /\ pc # "idle" => calls > 0 /\ srv \in Servers
  /\ pc = "srecv" => partial > 0 /\ srv \in Stream

(* Before the counter starts again the id of a call is its number.         *)
Numbered ==
  calls <= MAXID => g_reqid = calls /\ \A n \in 1..calls : ids[n] = n

IInv == TypeOK /\ Made /\ Numbered /\ OwnReplyBeforeWrap

-----------------------------------------------------------------------------
(* Lemmas on sequences *)

(* The rest of what a socket holds is a sequence of the same pieces.       *)
LEMMA RestOfSeq ==
  ASSUME NEW S, NEW q \in Seq(S), NEW k \in Nat \ {0}
  PROVE  /\ SubSeq(q, k + 1, Len(q)) \in Seq(S)
         /\ \A i \in 1..Len(SubSeq(q, k + 1, Len(q))) :
              /\ i + k \in 1..Len(q)
              /\ SubSeq(q, k + 1, Len(q))[i] = q[i + k]
<1>1. CASE k + 1 <= Len(q)
  BY <1>1
<1>2. CASE k + 1 > Len(q)
  BY <1>2
<1> QED BY <1>1, <1>2

-----------------------------------------------------------------------------
(* The library starts in a state of the invariant.                         *)
LEMMA InitIInv == Init => IInv
<1> SUFFICES ASSUME Init PROVE IInv
  OBVIOUS
<1>1. calls = 0
  BY DEF Init, calls
<1>2. \A s \in Servers : Len(socket[s]) = 0
  BY DEF Init
<1>3. TypeOK
  <2>1. ids \in Seq(1..MAXID) /\ Len(ids) <= MaxCalls
    BY NumberAssumption DEF Init
  <2>2. socket \in [Servers -> Seq(Pieces)]
    BY DEF Init
  <2>3. result \in [srv : Servers \cup {NoServer}, call : Calls \cup {0},
                   reply : Calls \cup {Error, Garbage}]
    BY DEF Init
  <2>4. dropped \in BOOLEAN
    BY Zenon DEF Init
  <2>5. /\ pc \in {"idle", "get_rep", "srecv"} /\ g_reqid \in 0..MAXID
        /\ srv \in Servers \cup {NoServer} /\ partial \in Calls \cup {0}
        /\ dups \in 0..MaxDup
    BY NumberAssumption DEF Init
  <2>6. /\ atDaemon \subseteq Servers \X Calls
        /\ cut \subseteq Stream /\ late \subseteq Servers
    BY DEF Init
  <2> QED BY <2>1, <2>2, <2>3, <2>4, <2>5, <2>6, Zenon DEF TypeOK
<1>4. Made
  BY <1>1, <1>2 DEF Init, Made
<1>5. Numbered
  BY <1>1 DEF Init, Numbered
<1>6. OwnReplyBeforeWrap
  BY DEF Init, OwnReplyBeforeWrap, OwnReply, Error
<1> QED BY <1>3, <1>4, <1>5, <1>6 DEF IInv

(* A new call takes the next number and the next id.                       *)
LEMMA NewCallEffect ==
  ASSUME IInv, NewCall
  PROVE  /\ calls' = calls + 1 /\ calls + 1 \in Calls
         /\ g_reqid' \in 1..MAXID /\ ids' \in Seq(1..MAXID)
         /\ Len(ids') <= MaxCalls
         /\ Numbered' /\ dropped' \in BOOLEAN
<1>1. next_reqid \in 1..MAXID
  BY NumberAssumption DEF IInv, TypeOK, next_reqid
<1>2. /\ calls \in Nat /\ calls < MaxCalls
      /\ ids \in Seq(1..MAXID)
  BY DEF IInv, TypeOK, NewCall, calls
<1>3. calls' = calls + 1 /\ ids' \in Seq(1..MAXID)
  BY <1>1, <1>2 DEF NewCall, calls
<1>4. \A n \in 1..calls : ids'[n] = ids[n]
  BY <1>1, <1>2 DEF NewCall, calls
<1>5. ids'[calls + 1] = next_reqid
  BY <1>1, <1>2 DEF NewCall, calls
<1>6. Numbered'
  <2> SUFFICES ASSUME calls' <= MAXID
               PROVE  g_reqid' = calls' /\ \A n \in 1..calls' : ids'[n] = n
    BY DEF Numbered
  <2>1. g_reqid = calls /\ \A n \in 1..calls : ids[n] = n
    BY <1>2, <1>3, NumberAssumption DEF IInv, Numbered
  <2>2. next_reqid = calls + 1
    BY <2>1, <1>2, <1>3, NumberAssumption DEF next_reqid
  <2> QED BY <2>1, <2>2, <1>2, <1>3, <1>4, <1>5 DEF NewCall
<1>7. dropped' \in BOOLEAN
  BY Zenon DEF NewCall
<1>8. g_reqid' \in 1..MAXID
  BY <1>1 DEF NewCall
<1>9. calls + 1 \in Calls /\ Len(ids') <= MaxCalls
  BY <1>2, <1>3, NumberAssumption DEF Calls, calls
<1> QED BY <1>3, <1>6, <1>7, <1>8, <1>9, Zenon

-----------------------------------------------------------------------------
(* What is left in the socket after a recv() is typed, and of calls that   *)
(* were made.                                                              *)
LEMMA ConsumeEffect ==
  ASSUME IInv, pc # "idle", NEW k \in Nat \ {0}, Consume(k)
  PROVE  /\ socket' \in [Servers -> Seq(Pieces)]
         /\ \A s \in Servers : \A i \in 1..Len(socket'[s]) :
              socket'[s][i].call \in 1..calls
<1> DEFINE rest == SubSeq(socket[srv], k + 1, Len(socket[srv]))
<1>1. srv \in Servers /\ socket \in [Servers -> Seq(Pieces)]
  BY DEF IInv, TypeOK, Made
<1>2. socket' = [socket EXCEPT ![srv] = rest]
  BY DEF Consume
<1>3. /\ rest \in Seq(Pieces)
      /\ \A i \in 1..Len(rest) : i + k \in 1..Len(socket[srv]) /\ rest[i] = socket[srv][i + k]
  BY <1>1, RestOfSeq
<1>4. \A i \in 1..Len(rest) : rest[i].call \in 1..calls
  BY <1>1, <1>3 DEF IInv, Made
<1> HIDE DEF rest
<1>5. socket' \in [Servers -> Seq(Pieces)]
  BY <1>1, <1>2, <1>3
<1>6. ASSUME NEW s \in Servers, NEW i \in 1..Len(socket'[s])
      PROVE  socket'[s][i].call \in 1..calls
  <2>1. CASE s = srv
    BY <1>1, <1>2, <1>4, <1>6, <2>1
  <2>2. CASE s # srv
    BY <1>1, <1>2, <1>6, <2>2 DEF IInv, Made
  <2> QED BY <2>1, <2>2
<1> QED BY <1>5, <1>6

(* What every step of a waiting call keeps, when its socket holds nothing  *)
(* but pieces of calls that were made.                                     *)
LEMMA KeptWhileWaiting ==
  ASSUME IInv, pc # "idle",
         socket' \in [Servers -> Seq(Pieces)],
         \A s \in Servers : \A i \in 1..Len(socket'[s]) : socket'[s][i].call \in 1..calls,
         UNCHANGED <<g_reqid, ids, atDaemon, dups>>,
         dropped' \in BOOLEAN, late' \subseteq Servers,
         cut' \subseteq Stream, cut \subseteq cut',
         \/ pc' = "idle" /\ srv' = NoServer /\ partial' = 0
         \/ pc' = "get_rep" /\ srv' = srv /\ partial' = 0
         \/ pc' = "srecv" /\ srv' = srv /\ srv \in Stream /\ partial' \in 1..calls,
         \/ UNCHANGED result
         \/ /\ result' = [srv |-> srv, call |-> calls, reply |-> result'.reply]
            /\ result'.reply \in Calls \cup {Error, Garbage}
            /\ calls <= MAXID /\ srv \notin cut' => result'.reply \in {Error, calls}
  PROVE  IInv'
<1>1. /\ calls' = calls /\ calls \in Nat /\ calls <= MaxCalls /\ calls > 0
      /\ srv \in Servers
  BY DEF IInv, TypeOK, Made, calls
<1>2. calls \in Calls
  BY <1>1, NumberAssumption DEF Calls
<1>3. result' \in [srv : Servers \cup {NoServer}, call : Calls \cup {0},
                  reply : Calls \cup {Error, Garbage}]
  BY <1>1, <1>2 DEF IInv, TypeOK
<1>4. TypeOK'
  <2>1. partial' \in Calls \cup {0}
    BY <1>1, NumberAssumption DEF Calls
  <2> QED BY <1>1, <1>3, <2>1 DEF IInv, TypeOK
<1>5. Made'
  BY <1>1 DEF IInv, Made
<1>6. Numbered'
  BY <1>1 DEF IInv, Numbered
<1>7. OwnReplyBeforeWrap'
  BY <1>1 DEF IInv, OwnReplyBeforeWrap, OwnReply
<1> QED BY <1>4, <1>5, <1>6, <1>7 DEF IInv

(* A reply that the test lets pass is the reply to the call.               *)
LEMMA FreshIsOwn ==
  ASSUME IInv, NEW n \in 1..calls, ~Stale(n), calls <= MAXID
  PROVE  n = calls
<1>1. calls \in Nat
  BY DEF IInv, TypeOK, calls
<1>2. ids[n] = n /\ g_reqid = calls
  BY DEF IInv, Numbered
<1> QED BY <1>1, <1>2 DEF Stale

(* Taking a message off the socket.                                        *)
LEMMA TakeStep ==
  ASSUME IInv, pc # "idle", NEW k \in Nat \ {0}, Consume(k),
         NEW n \in 1..calls, NEW behind, behind # <<>> => srv \in Stream,
         Take(n, behind), UNCHANGED <<atDaemon, dups, late>>
  PROVE  IInv'
<1>1. /\ socket' \in [Servers -> Seq(Pieces)]
      /\ \A s \in Servers : \A i \in 1..Len(socket'[s]) : socket'[s][i].call \in 1..calls
  BY ConsumeEffect
<1>2. cut' \subseteq Stream /\ cut \subseteq cut' /\ late' \subseteq Servers
  BY DEF IInv, TypeOK, Take
<1>3. n \in Calls
  BY NumberAssumption DEF IInv, TypeOK, calls, Calls
<1>4. CASE Stale(n)
  <2>1. /\ pc' = "get_rep" /\ srv' = srv /\ partial' = 0
        /\ UNCHANGED <<g_reqid, ids, result>>
    BY <1>4 DEF Take
  <2>2. dropped' \in BOOLEAN
    BY <1>4, Zenon DEF Take
  <2> QED BY <1>1, <1>2, <2>1, <2>2, KeptWhileWaiting
<1>5. CASE ~Stale(n)
  <2>1. /\ pc' = "idle" /\ srv' = NoServer /\ partial' = 0
        /\ UNCHANGED <<g_reqid, ids>>
        /\ result' = [srv |-> srv, call |-> calls, reply |-> n]
    BY <1>5 DEF Take, Return, Returned
  <2>2. dropped' \in BOOLEAN
    BY <1>5, Zenon DEF Take
  <2>3. result'.reply = n
    BY <2>1
  <2>4. calls <= MAXID => n = calls
    BY <1>5, FreshIsOwn
  <2> QED BY <1>1, <1>2, <1>3, <2>1, <2>2, <2>3, <2>4, KeptWhileWaiting
<1> QED BY <1>4, <1>5

-----------------------------------------------------------------------------
(* One lemma for the calls, one for the network and one for get_rep        *)

(* A new call, whether it waits or not.                                    *)
LEMMA TriggerStep ==
  ASSUME IInv, NEW s \in Servers,
         trigger_sync(s) \/ trigger_async(s) \/ trigger_send_fails(s)
  PROVE  IInv'
<1>1. NewCall
  BY DEF trigger_sync, trigger_async, trigger_send_fails
<1>2. /\ calls' = calls + 1 /\ calls + 1 \in Calls /\ calls \in Nat
      /\ g_reqid' \in 1..MAXID /\ ids' \in Seq(1..MAXID)
      /\ Len(ids') <= MaxCalls
      /\ Numbered' /\ dropped' \in BOOLEAN
  BY <1>1, NewCallEffect DEF IInv, TypeOK, calls
<1>3. UNCHANGED <<socket, partial, dups, cut, late>>
  BY DEF trigger_sync, trigger_async, trigger_send_fails
<1>4. \/ /\ pc' = "get_rep" /\ srv' = s /\ UNCHANGED result
         /\ atDaemon' = atDaemon \cup {<<s, calls + 1>>}
      \/ /\ UNCHANGED <<pc, srv, atDaemon>>
         /\ result' = [srv |-> s, call |-> calls + 1, reply |-> Error]
  BY DEF trigger_sync, trigger_async, trigger_send_fails, Returned
<1>5. TypeOK'
  <2>1. result' \in [srv : Servers \cup {NoServer}, call : Calls \cup {0},
                    reply : Calls \cup {Error, Garbage}]
    BY <1>2, <1>4 DEF IInv, TypeOK
  <2>2. atDaemon' \subseteq Servers \X Calls
    BY <1>2, <1>4 DEF IInv, TypeOK
  <2>3. g_reqid' \in 0..MAXID
    BY <1>2, NumberAssumption
  <2> QED BY <1>2, <1>3, <1>4, <2>1, <2>2, <2>3 DEF IInv, TypeOK
<1>6. Made'
  <2>1. pc = "idle"
    BY <1>1 DEF NewCall
  <2>2. \A d \in atDaemon' : d[2] \in 1..calls'
    BY <1>2, <1>4 DEF IInv, Made
  <2>3. \A q \in Servers : \A i \in 1..Len(socket'[q]) : socket'[q][i].call \in 1..calls'
    BY <1>2, <1>3 DEF IInv, Made
  <2>4. partial' \in 0..calls'
    BY <1>2, <1>3 DEF IInv, Made
  <2> QED BY <1>2, <1>4, <2>1, <2>2, <2>3, <2>4 DEF Made
<1>7. OwnReplyBeforeWrap'
  BY <1>2, <1>3, <1>4, NumberAssumption DEF IInv, OwnReplyBeforeWrap, OwnReply
<1> QED BY <1>2, <1>5, <1>6, <1>7 DEF IInv

(* The daemon answers, and the network doubles and loses.                  *)
LEMMA NetworkStep ==
  ASSUME IInv, NEW s \in Servers, NEW n \in Calls,
         Answer(s, n) \/ AnswerTwice(s, n) \/ Loss(s, n)
  PROVE  IInv'
<1>1. n \in 1..calls
  BY DEF IInv, Made, Answer, AnswerTwice, Loss
<1>2. UNCHANGED <<clientVars, history>> /\ atDaemon' \subseteq atDaemon /\ calls' = calls
  BY DEF Answer, AnswerTwice, Loss, clientVars, calls
<1>3. dups' \in 0..MaxDup
  BY NumberAssumption DEF IInv, TypeOK, Answer, AnswerTwice, Loss
<1>4. PICK rep \in Seq(Pieces) :
        /\ socket' = [socket EXCEPT ![s] = @ \o rep]
        /\ \A i \in 1..Len(rep) : rep[i].call = n
  <2>1. /\ [call |-> n, part |-> "whole"] \in Pieces
        /\ [call |-> n, part |-> "head"] \in Pieces
        /\ [call |-> n, part |-> "tail"] \in Pieces
    BY DEF Pieces, Parts
  <2>2. /\ Whole(n) \in Seq(Pieces)
        /\ \A i \in 1..Len(Whole(n)) : Whole(n)[i].call = n
    BY <2>1 DEF Whole
  <2>3. /\ Split(n) \in Seq(Pieces)
        /\ \A i \in 1..Len(Split(n)) : Split(n)[i].call = n
    BY <2>1 DEF Split
  <2>4. CASE Answer(s, n)
    BY <2>2, <2>3, <2>4 DEF Answer, Replies
  <2>5. CASE AnswerTwice(s, n)
    BY <2>2, <2>5 DEF AnswerTwice
  <2>6. CASE Loss(s, n)
    <3>1. <<>> \in Seq(Pieces) /\ Len(<<>>) = 0
      OBVIOUS
    <3>2. socket \in [Servers -> Seq(Pieces)] /\ socket' = socket
      BY <2>6 DEF Loss, IInv, TypeOK
    <3>3. socket[s] \o <<>> = socket[s]
      BY <3>2
    <3>4. socket' = [socket EXCEPT ![s] = @ \o <<>>]
      BY <3>2, <3>3
    <3>5. \A i \in 1..Len(<<>>) : <<>>[i].call = n
      BY <3>1
    <3> QED BY <3>1, <3>4, <3>5, Zenon
  <2> QED BY <2>4, <2>5, <2>6
<1>5. /\ socket' \in [Servers -> Seq(Pieces)]
      /\ \A q \in Servers : \A i \in 1..Len(socket'[q]) : socket'[q][i].call \in 1..calls
  <2>1. socket \in [Servers -> Seq(Pieces)]
    BY DEF IInv, TypeOK
  <2>2. socket[s] \o rep \in Seq(Pieces)
    BY <1>4, <2>1
  <2>3. \A i \in 1..Len(socket[s] \o rep) : (socket[s] \o rep)[i].call \in 1..calls
    BY <1>1, <1>4, <2>1 DEF IInv, Made
  <2> QED BY <1>4, <2>1, <2>2, <2>3 DEF IInv, Made
<1>6. TypeOK'
  BY <1>2, <1>3, <1>5 DEF IInv, TypeOK, clientVars, history
<1>7. Made'
  BY <1>2, <1>5 DEF IInv, Made, clientVars
<1>8. Numbered' /\ OwnReplyBeforeWrap'
  BY <1>2 DEF IInv, Numbered, OwnReplyBeforeWrap, OwnReply, clientVars, history
<1> QED BY <1>6, <1>7, <1>8 DEF IInv

(* The first recv() of a message on a stream.                              *)
LEMMA RecvStep ==
  ASSUME IInv, NEW k \in Nat, recv_msg(k)
  PROVE  IInv'
<1> DEFINE got == SubSeq(socket[srv], 1, k)
           n == Head(got).call
           size == IF Head(got).part = "whole" THEN 1 ELSE 2
<1>1. /\ pc = "get_rep" /\ srv \in Stream /\ srv \in Servers
      /\ k \in 1..Len(socket[srv]) /\ k \in Nat \ {0} /\ Consume(k)
      /\ UNCHANGED <<atDaemon, dups, late>>
      /\ socket[srv] \in Seq(Pieces)
  BY DEF recv_msg, IInv, TypeOK, Servers
<1>2. n \in 1..calls
  <2>1. Head(got) = socket[srv][1]
    BY <1>1
  <2> QED BY <1>1, <2>1 DEF IInv, Made
<1>3. IF k < size
        THEN /\ pc' = "srecv" /\ partial' = n
             /\ UNCHANGED <<g_reqid, srv, ids, result, cut, dropped>>
        ELSE Take(n, SubSeq(got, size + 1, k))
  BY DEF recv_msg
<1> HIDE DEF n, size, got
<1>4. CASE k < size
  <2>1. /\ socket' \in [Servers -> Seq(Pieces)]
        /\ \A s \in Servers : \A i \in 1..Len(socket'[s]) : socket'[s][i].call \in 1..calls
    BY <1>1, ConsumeEffect
  <2>2. /\ pc' = "srecv" /\ partial' = n
        /\ UNCHANGED <<g_reqid, srv, ids, result, cut, dropped>>
    BY <1>3, <1>4
  <2>3. dropped' \in BOOLEAN /\ cut' \subseteq Stream /\ late' \subseteq Servers
    BY <1>1, <2>2 DEF IInv, TypeOK
  <2> QED BY <1>1, <1>2, <2>1, <2>2, <2>3, KeptWhileWaiting
<1>5. CASE ~(k < size)
  BY <1>1, <1>2, <1>3, <1>5, TakeStep
<1> QED BY <1>4, <1>5

(* The other ways in which a waiting call reads or gives up.               *)
LEMMA GetRepStep ==
  ASSUME IInv,
         \/ udp_get_rep \/ srecv_rest \/ recv_timeout \/ srecv_timeout
         \/ \E k \in Nat : recv_msg_astray(k)
  PROVE  IInv'
<1>0. /\ cut \subseteq Stream /\ late \subseteq Servers /\ dropped \in BOOLEAN
      /\ socket \in [Servers -> Seq(Pieces)]
      /\ \A s \in Servers : \A i \in 1..Len(socket[s]) : socket[s][i].call \in 1..calls
  BY DEF IInv, TypeOK, Made
<1>1. CASE udp_get_rep
  <2>1. /\ pc # "idle" /\ srv \in Servers /\ socket[srv] # <<>>
        /\ Consume(1) /\ Take(Head(socket[srv]).call, <<>>)
        /\ UNCHANGED <<atDaemon, dups, late>>
    BY <1>1 DEF udp_get_rep, Servers
  <2>2. Head(socket[srv]).call \in 1..calls
    BY <1>0, <2>1
  <2> QED BY <2>1, <2>2, TakeStep
<1>2. CASE srecv_rest
  <2>1. /\ pc = "srecv" /\ Consume(1) /\ Take(partial, <<>>)
        /\ UNCHANGED <<atDaemon, dups, late>>
    BY <1>2 DEF srecv_rest
  <2>2. partial \in 1..calls
    BY <2>1 DEF IInv, Made
  <2> QED BY <2>1, <2>2, TakeStep
<1>3. CASE recv_timeout \/ srecv_timeout
  <2>1. /\ pc # "idle" /\ Return(Error) /\ UNCHANGED <<netVars, dropped>>
        /\ late' = late \cup {srv}
    BY <1>3 DEF recv_timeout, srecv_timeout
  <2>2. srv \in Servers
    BY <2>1 DEF IInv, Made
  <2>3. cut' \subseteq Stream /\ cut \subseteq cut'
    BY <1>0, <1>3 DEF recv_timeout, srecv_timeout, IInv, Made
  <2>4. /\ pc' = "idle" /\ srv' = NoServer /\ partial' = 0
        /\ UNCHANGED <<g_reqid, ids, atDaemon, dups, socket>>
        /\ result' = [srv |-> srv, call |-> calls, reply |-> Error]
    BY <2>1 DEF Return, Returned, netVars
  <2>5. dropped' \in BOOLEAN /\ late' \subseteq Servers /\ result'.reply = Error
    BY <1>0, <2>1, <2>2, <2>4
  <2> QED BY <1>0, <2>1, <2>3, <2>4, <2>5, KeptWhileWaiting
<1>4. ASSUME NEW k \in Nat, recv_msg_astray(k)
      PROVE  IInv'
  <2>1. /\ pc = "get_rep" /\ srv \in cut /\ k \in Nat \ {0} /\ Consume(k)
        /\ UNCHANGED <<atDaemon, dups, cut, late, dropped>>
    BY <1>4 DEF recv_msg_astray, history
  <2>2. /\ socket' \in [Servers -> Seq(Pieces)]
        /\ \A s \in Servers : \A i \in 1..Len(socket'[s]) : socket'[s][i].call \in 1..calls
    BY <2>1, ConsumeEffect
  <2>3. CASE UNCHANGED clientVars
    <3>1. /\ pc' = "get_rep" /\ UNCHANGED <<g_reqid, srv, ids, partial, result>>
      BY <2>1, <2>3 DEF clientVars
    <3>2. TypeOK'
      BY <2>1, <2>2, <3>1 DEF IInv, TypeOK
    <3>3. calls' = calls
      BY <3>1 DEF calls
    <3>4. Made'
      BY <2>1, <2>2, <3>1, <3>3 DEF IInv, Made
    <3>5. Numbered' /\ OwnReplyBeforeWrap'
      BY <2>1, <3>1, <3>3 DEF IInv, Numbered, OwnReplyBeforeWrap, OwnReply
    <3> QED BY <3>2, <3>4, <3>5 DEF IInv
  <2>4. ASSUME NEW m \in {Error, Garbage}, Return(m)
        PROVE  IInv'
    <3>1. /\ pc' = "idle" /\ srv' = NoServer /\ partial' = 0
          /\ UNCHANGED <<g_reqid, ids>>
          /\ result' = [srv |-> srv, call |-> calls, reply |-> m]
      BY <2>4 DEF Return, Returned
    <3>2. result'.reply \in {Error, Garbage}
      BY <3>1
    <3>3. result' = [srv |-> srv, call |-> calls, reply |-> result'.reply]
      BY <3>1
    <3>4. dropped' \in BOOLEAN /\ late' \subseteq Servers /\ cut' \subseteq Stream
      BY <1>0, <2>1
    <3> QED BY <2>1, <2>2, <3>1, <3>2, <3>3, <3>4, KeptWhileWaiting
  <2> QED BY <1>4, <2>3, <2>4 DEF recv_msg_astray
<1> QED BY <1>1, <1>2, <1>3, <1>4

-----------------------------------------------------------------------------
(* Every step keeps the invariant.                                         *)
LEMMA StepIInv == IInv /\ [Next]_vars => IInv'
<1> SUFFICES ASSUME IInv, [Next]_vars PROVE IInv'
  OBVIOUS
<1>1. ASSUME NEW s \in Servers,
             trigger_sync(s) \/ trigger_async(s) \/ trigger_send_fails(s)
      PROVE  IInv'
  BY <1>1, TriggerStep
<1>2. ASSUME NEW s \in Servers, NEW n \in Calls,
             Answer(s, n) \/ AnswerTwice(s, n) \/ Loss(s, n)
      PROVE  IInv'
  BY <1>2, NetworkStep
<1>3. CASE get_rep
  <2>1. 1..2 * MaxCalls \subseteq Nat
    BY NumberAssumption
  <2> QED BY <1>3, <2>1, RecvStep, GetRepStep DEF get_rep
<1>4. CASE recv_timeout \/ srecv_timeout
  BY <1>4, GetRepStep
<1>5. CASE UNCHANGED vars
  BY <1>5 DEF vars, clientVars, netVars, history, IInv, TypeOK, Made, Numbered,
              OwnReplyBeforeWrap, OwnReply, calls
<1> QED BY <1>1, <1>2, <1>3, <1>4, <1>5 DEF Next

(* The inductive invariant holds in every state.                           *)
LEMMA AlwaysIInv == Spec => []IInv
BY InitIInv, StepIInv, PTL DEF Spec

(* The variables of mevent_trigger and of the sockets keep their types:    *)
(* the request id stays in the 28 bits below the version.                  *)
THEOREM TypeCorrect == Spec => []TypeOK
<1>1. IInv => TypeOK
  BY DEF IInv
<1> QED BY <1>1, AlwaysIInv, PTL

(* mevent_trigger returns an error or the reply to its own request until   *)
(* g_reqid starts again, and on a stream until it was left inside a        *)
(* message.                                                                *)
THEOREM OwnReplyBeforeWrapHolds == Spec => []OwnReplyBeforeWrap
<1>1. IInv => OwnReplyBeforeWrap
  BY DEF IInv
<1> QED BY <1>1, AlwaysIInv, PTL

-----------------------------------------------------------------------------
(* ReplyKept needs to know what is under way on a stream that no call was  *)
(* given up on: at the most the one reply to the call that waits, at the   *)
(* daemon, whole in the socket, or with its head read.  A call finds its   *)
(* own id fresh, wherever the counter stands (Fresh).                      *)
Fresh == calls > 0 => ids[calls] = g_reqid

TailOf(n) == <<[call |-> n, part |-> "tail"]>>

Waiting(s) == pc = "get_rep" /\ srv = s
Quiet(s) == \A n \in Calls : <<s, n>> \notin atDaemon

Sole(s) ==
  \/ /\ socket[s] = <<>> /\ ~(pc = "srecv" /\ srv = s)
     /\ \A n \in Calls : <<s, n>> \in atDaemon => Waiting(s) /\ n = calls
  \/ Waiting(s) /\ Quiet(s) /\ socket[s] \in {Whole(calls), Split(calls)}
  \/ pc = "srecv" /\ srv = s /\ Quiet(s) /\ partial = calls /\ socket[s] = TailOf(calls)

Kept == Fresh /\ (\A s \in Stream \ late : Sole(s)) /\ ReplyKept

(* Sequences of one and of two elements, and what is left of them.         *)
LEMMA ShortSequences ==
  ASSUME NEW S, NEW a \in S, NEW b \in S
  PROVE  /\ <<a>> \in Seq(S) /\ Len(<<a>>) = 1 /\ SubSeq(<<a>>, 2, 1) = <<>>
         /\ <<a, b>> \in Seq(S) /\ Len(<<a, b>>) = 2
         /\ SubSeq(<<a, b>>, 2, 2) = <<b>> /\ SubSeq(<<a, b>>, 3, 2) = <<>>
<1>1. <<a>> \in Seq(S) /\ Len(<<a>>) = 1
  OBVIOUS
<1>2. <<a, b>> \in Seq(S) /\ Len(<<a, b>>) = 2
  OBVIOUS
<1>3. SubSeq(<<a>>, 2, 1) = <<>>
  <2>1. SubSeq(<<a>>, 2, 1) \in Seq(S) /\ Len(SubSeq(<<a>>, 2, 1)) = 0
    BY <1>1, SubSeqProperties
  <2> QED BY <2>1, EmptySeq
<1>4. SubSeq(<<a, b>>, 3, 2) = <<>>
  <2>1. SubSeq(<<a, b>>, 3, 2) \in Seq(S) /\ Len(SubSeq(<<a, b>>, 3, 2)) = 0
    BY <1>2, SubSeqProperties
  <2> QED BY <2>1, EmptySeq
<1>5. SubSeq(<<a, b>>, 2, 2) = <<b>>
  <2> DEFINE q == SubSeq(<<a, b>>, 2, 2)
  <2>1. q \in Seq(S) /\ Len(q) = 1 /\ q[1] = <<a, b>>[2]
    BY <1>2, SubSeqProperties
  <2>2. q[1] = b
    BY <2>1
  <2> HIDE DEF q
  <2>3. q = <<b>>
    BY <2>1, <2>2
  <2> QED BY <2>3 DEF q
<1> QED BY <1>1, <1>2, <1>3, <1>4, <1>5

(* What recv() leaves of one reply.                                        *)
LEMMA OneReplyRead ==
  ASSUME NEW n \in Calls
  PROVE  /\ Whole(n) \in Seq(Pieces) /\ Len(Whole(n)) = 1 /\ SubSeq(Whole(n), 2, 1) = <<>>
         /\ Split(n) \in Seq(Pieces) /\ Len(Split(n)) = 2
         /\ SubSeq(Split(n), 2, 2) = TailOf(n) /\ SubSeq(Split(n), 3, 2) = <<>>
         /\ TailOf(n) \in Seq(Pieces) /\ Len(TailOf(n)) = 1 /\ SubSeq(TailOf(n), 2, 1) = <<>>
<1> DEFINE w == [call |-> n, part |-> "whole"]
           h == [call |-> n, part |-> "head"]
           t == [call |-> n, part |-> "tail"]
<1>1. w \in Pieces /\ h \in Pieces /\ t \in Pieces
  BY DEF Pieces, Parts
<1>2. Whole(n) = <<w>> /\ Split(n) = <<h, t>> /\ TailOf(n) = <<t>>
  BY DEF Whole, Split, TailOf
<1> HIDE DEF w, h, t
<1>3. /\ <<w>> \in Seq(Pieces) /\ Len(<<w>>) = 1 /\ SubSeq(<<w>>, 2, 1) = <<>>
      /\ <<t>> \in Seq(Pieces) /\ Len(<<t>>) = 1 /\ SubSeq(<<t>>, 2, 1) = <<>>
  BY <1>1, ShortSequences
<1>4. /\ <<h, t>> \in Seq(Pieces) /\ Len(<<h, t>>) = 2
      /\ SubSeq(<<h, t>>, 2, 2) = <<t>> /\ SubSeq(<<h, t>>, 3, 2) = <<>>
  BY <1>1, ShortSequences
<1> QED BY <1>2, <1>3, <1>4, Zenon

(* The id of the last call is the counter.                                 *)
LEMMA FreshStep == IInv /\ Fresh /\ [Next]_vars => Fresh'
<1> SUFFICES ASSUME IInv, Fresh, [Next]_vars PROVE Fresh'
  OBVIOUS
<1>1. CASE NewCall
  <2>1. ids \in Seq(1..MAXID) /\ next_reqid \in 1..MAXID
    BY NumberAssumption DEF IInv, TypeOK, next_reqid
  <2>2. ids'[Len(ids')] = next_reqid
    BY <1>1, <2>1 DEF NewCall
  <2> QED BY <1>1, <2>2 DEF Fresh, NewCall, calls
<1>2. CASE UNCHANGED <<ids, g_reqid>>
  BY <1>2 DEF Fresh, calls
<1>3. Next => NewCall \/ UNCHANGED <<ids, g_reqid>>
  <2>1. \A n, b : Take(n, b) => UNCHANGED <<ids, g_reqid>>
    BY DEF Take, Return
  <2> QED BY <2>1 DEF Next, trigger_sync, trigger_async, trigger_send_fails, Answer, AnswerTwice, Loss,
                      get_rep, udp_get_rep, srecv_rest, recv_msg, recv_msg_astray, recv_timeout,
                      srecv_timeout, Return, clientVars
<1> QED BY <1>1, <1>2, <1>3 DEF vars, clientVars

(* Where the call that waits does not look, nothing is under way.          *)
LEMMA SoleElsewhere ==
  ASSUME NEW s \in Stream, Sole(s), pc # "idle", s # srv,
         socket'[s] = socket[s], atDaemon' = atDaemon, srv' \in {srv, NoServer}
  PROVE  Sole(s)'
<1>1. s # NoServer
  BY ServerAssumption
<1> QED BY <1>1 DEF Sole, Waiting

(* A message is taken: the call returns or goes on waiting.                *)
LEMMA TakeEffect ==
  ASSUME IInv, Fresh, pc # "idle", NEW n \in 1..calls, NEW behind, Take(n, behind)
  PROVE  /\ cut' \subseteq cut \cup {srv}
         /\ current' = srv /\ srv' \in {srv, NoServer}
         /\ behind = <<>> => cut' = cut /\ (dropped' => dropped)
         /\ n = calls => pc' = "idle"
<1>1. ~Stale(calls)
  <2>1. ids[calls] = g_reqid /\ g_reqid \in Nat
    BY NumberAssumption DEF Fresh, IInv, Made, TypeOK
  <2> QED BY <2>1 DEF Stale
<1>2. cut' \subseteq cut \cup {srv} /\ (behind = <<>> => cut' = cut)
  BY DEF Take
<1>3. CASE Stale(n)
  <2>1. pc' = "get_rep" /\ srv' = srv
    BY <1>3 DEF Take
  <2>2. ASSUME behind = <<>>, dropped' PROVE dropped
    <3>1. {behind[i].call : i \in DOMAIN behind} = {}
      BY <2>2
    <3>2. dropped' = (dropped \/ calls \in {behind[i].call : i \in DOMAIN behind} \cup {n})
      BY <1>3, Zenon DEF Take
    <3>3. calls # n
      BY <1>1, <1>3
    <3>4. calls \notin {behind[i].call : i \in DOMAIN behind} \cup {n}
      BY <3>1, <3>3
    <3> QED BY <2>2, <3>2, <3>4, Zenon
  <2> QED BY <1>1, <1>2, <1>3, <2>1, <2>2 DEF current
<1>4. CASE ~Stale(n)
  <2>1. pc' = "idle" /\ srv' = NoServer /\ result'.srv = srv
    BY <1>4 DEF Take, Return, Returned
  <2>2. ASSUME behind = <<>>, dropped' PROVE dropped
    <3>1. {behind[i].call : i \in DOMAIN behind} = {}
      BY <2>2
    <3>2. dropped' = (dropped \/ calls \in {behind[i].call : i \in DOMAIN behind} \ {n})
      BY <1>4, Zenon DEF Take
    <3>3. calls \notin {behind[i].call : i \in DOMAIN behind} \ {n}
      BY <3>1
    <3> QED BY <2>2, <3>2, <3>3, Zenon
  <2> QED BY <1>2, <2>1, <2>2 DEF current
<1> QED BY <1>3, <1>4

(* ReplyKept after a step of the call that waits.                          *)
LEMMA KeptOnServer ==
  ASSUME ReplyKept, pc # "idle", current' = srv, late \subseteq late', cut' \subseteq cut \cup {srv},
         \/ srv \in late' \cap Stream
         \/ cut' = cut /\ (dropped' => dropped)
  PROVE  ReplyKept'
<1>1. current = srv
  BY DEF current
<1> QED BY <1>1 DEF ReplyKept

(* A new call: its number is fresh, so nothing under way is for it.        *)
LEMMA TriggerKept ==
  ASSUME IInv, Kept, NEW s \in Servers,
         trigger_sync(s) \/ trigger_async(s) \/ trigger_send_fails(s)
  PROVE  (\A t \in Stream \ late' : Sole(t)') /\ ReplyKept'
<1>1. NewCall
  BY DEF trigger_sync, trigger_async, trigger_send_fails
<1>2. calls' = calls + 1 /\ UNCHANGED <<socket, cut, late>> /\ pc = "idle"
  BY <1>1, NewCallEffect DEF trigger_sync, trigger_async, trigger_send_fails, NewCall
<1>3. ReplyKept'
  <2>1. ~dropped'
    BY <1>1, Zenon DEF NewCall
  <2> QED BY <1>2, <2>1 DEF Kept, ReplyKept
<1>4. ASSUME NEW t \in Stream \ late' PROVE Sole(t)'
  <2>1. socket[t] = <<>> /\ Quiet(t)
    BY <1>2, <1>4 DEF Kept, Sole, Waiting, Quiet
  <2>2. CASE trigger_sync(s)
    BY <1>2, <2>1, <2>2 DEF trigger_sync, Sole, Waiting, Quiet
  <2>3. CASE trigger_async(s) \/ trigger_send_fails(s)
    BY <1>2, <2>1, <2>3 DEF trigger_async, trigger_send_fails, Sole, Waiting, Quiet
  <2> QED BY <2>2, <2>3
<1> QED BY <1>3, <1>4

(* The daemon and the network copy, lose and delay; they make no reply.    *)
LEMMA NetworkKept ==
  ASSUME IInv, Kept, NEW s \in Servers, NEW n \in Calls,
         Answer(s, n) \/ AnswerTwice(s, n) \/ Loss(s, n)
  PROVE  (\A t \in Stream \ late' : Sole(t)') /\ ReplyKept'
<1>1. UNCHANGED <<clientVars, history>> /\ calls' = calls
  BY DEF Answer, AnswerTwice, Loss, clientVars, calls
<1>2. ReplyKept'
  BY <1>1 DEF Kept, ReplyKept, current, clientVars, history
<1>t. socket \in [Servers -> Seq(Pieces)]
  BY DEF IInv, TypeOK
<1>3. ASSUME NEW t \in Stream \ late' PROVE Sole(t)'
  <2>1. Sole(t)
    BY <1>1, <1>3 DEF Kept, history
  <2>w. Waiting(t)' = Waiting(t) /\ UNCHANGED <<pc, srv, partial>>
    BY <1>1 DEF Waiting, clientVars
  <2>2. CASE socket'[t] = socket[t] /\ \A m \in Calls : <<t, m>> \in atDaemon' => <<t, m>> \in atDaemon
    BY <1>1, <2>1, <2>2, <2>w DEF Sole, Quiet, Waiting
  <2>3. CASE Answer(s, n)
    <3>1. CASE t # s
      BY <1>t, <2>2, <2>3, <3>1 DEF Answer
    <3>2. CASE t = s
      <4>1. socket[t] = <<>> /\ Waiting(t) /\ n = calls
        BY <2>1, <2>3, <3>2 DEF Answer, Sole, Quiet
      <4>2. Quiet(t)'
        <5>1. \A m \in Calls : <<t, m>> \in atDaemon => m = n
          BY <2>1, <2>3, <3>2, <4>1 DEF Answer, Sole, Quiet
        <5> QED BY <2>3, <3>2, <5>1 DEF Answer, Quiet
      <4>3. PICK rep \in {Whole(n), Split(n)} : socket' = [socket EXCEPT ![s] = @ \o rep]
        BY <2>3 DEF Answer, Replies
      <4>4. rep \in Seq(Pieces)
        BY <4>3, OneReplyRead, Zenon
      <4>5. socket'[t] = <<>> \o rep
        BY <1>t, <3>2, <4>1, <4>3
      <4>6. <<>> \o rep = rep
        BY <4>4
      <4>7. socket'[t] \in {Whole(calls), Split(calls)}
        BY <4>1, <4>3, <4>5, <4>6, Zenon
      <4> QED BY <1>1, <2>w, <4>1, <4>2, <4>7, Zenon DEF Sole, Waiting
    <3> QED BY <3>1, <3>2
  <2>4. CASE AnswerTwice(s, n)
    <3>1. t # s
      BY <2>4, ServerAssumption DEF AnswerTwice
    <3> QED BY <1>t, <2>2, <2>4, <3>1 DEF AnswerTwice
  <2>5. CASE Loss(s, n)
    BY <2>2, <2>5 DEF Loss
  <2> QED BY <2>3, <2>4, <2>5
<1> QED BY <1>2, <1>3

(* A read of the call that waits, when the stream it reads is sole again.  *)
LEMMA ReadKept ==
  ASSUME IInv, Kept, pc # "idle", NEW s \in Servers, s = srv, NEW k \in Nat, Consume(k),
         atDaemon' = atDaemon, late' = late,
         current' = s, srv' \in {s, NoServer}, cut' \subseteq cut \cup {s},
         s \in Stream \ late => Sole(s)',
         s \notin Stream \cap late => cut' = cut /\ (dropped' => dropped)
  PROVE  (\A t \in Stream \ late' : Sole(t)') /\ ReplyKept'
<1>1. ReplyKept'
  BY KeptOnServer, Zenon DEF Kept
<1>2. socket \in [Servers -> Seq(Pieces)]
  BY DEF IInv, TypeOK
<1>3. ASSUME NEW t \in Stream \ late' PROVE Sole(t)'
  <2>1. CASE t = s
    BY <1>3, <2>1
  <2>2. CASE t # s
    <3>1. socket'[t] = socket[t]
      BY <1>2, <2>2 DEF Consume
    <3>2. Sole(t) /\ t \in Stream
      BY <1>3 DEF Kept
    <3> QED BY <2>2, <3>1, <3>2, SoleElsewhere
  <2> QED BY <2>1, <2>2
<1> QED BY <1>1, <1>3

(* The call that waits has read the one reply of its stream.               *)
LEMMA SoleTaken ==
  ASSUME NEW s \in Stream, Quiet(s), socket'[s] = <<>>, pc' = "idle", atDaemon' = atDaemon
  PROVE  Sole(s)'
BY DEF Sole, Quiet

(* udp_get_rep passes over replies that are not for this call.             *)
LEMMA UdpKept ==
  ASSUME IInv, Kept, udp_get_rep
  PROVE  (\A t \in Stream \ late' : Sole(t)') /\ ReplyKept'
<1> DEFINE n == Head(socket[srv]).call
<1>1. /\ pc # "idle" /\ srv \in Servers \ Stream /\ Consume(1)
      /\ atDaemon' = atDaemon /\ late' = late /\ Take(n, <<>>)
  BY ServerAssumption DEF udp_get_rep, Servers
<1>2. n \in 1..calls
  <2>1. socket[srv] \in Seq(Pieces) /\ socket[srv] # <<>>
    BY <1>1 DEF IInv, TypeOK, udp_get_rep
  <2>2. 1 \in 1..Len(socket[srv]) /\ Head(socket[srv]) = socket[srv][1]
    BY <2>1
  <2> QED BY <1>1, <2>2 DEF IInv, Made
<1> HIDE DEF n
<1>3. /\ current' = srv /\ srv' \in {srv, NoServer}
      /\ cut' = cut /\ (dropped' => dropped)
  BY <1>1, <1>2, TakeEffect DEF Kept
<1> QED BY <1>1, <1>3, ReadKept

(* The second read of a message on a stream takes its tail.                *)
LEMMA SrecvKept ==
  ASSUME IInv, Kept, srecv_rest
  PROVE  (\A t \in Stream \ late' : Sole(t)') /\ ReplyKept'
<1>1. /\ pc = "srecv" /\ srv \in Stream /\ srv \in Servers /\ Consume(1)
      /\ atDaemon' = atDaemon /\ late' = late /\ Take(partial, <<>>)
  BY DEF srecv_rest, IInv, Made
<1>2. partial \in 1..calls
  BY <1>1 DEF IInv, Made, TypeOK, calls
<1>3. /\ current' = srv /\ srv' \in {srv, NoServer}
      /\ cut' = cut /\ (dropped' => dropped)
      /\ partial = calls => pc' = "idle"
  BY <1>1, <1>2, TakeEffect DEF Kept
<1>4. ASSUME NEW s \in Stream \ late, s = srv PROVE Sole(s)'
  <2>1. Sole(s)
    BY <1>4 DEF Kept
  <2>2. Quiet(s) /\ partial = calls /\ socket[s] = TailOf(calls)
    BY <1>1, <1>4, <2>1 DEF Sole, Waiting
  <2>3. calls \in Calls
    BY <1>1, NumberAssumption DEF IInv, Made, TypeOK, calls, Calls
  <2>4. socket \in [Servers -> Seq(Pieces)]
    BY DEF IInv, TypeOK
  <2>5. socket'[s] = SubSeq(TailOf(calls), 1 + 1, Len(TailOf(calls)))
    BY <1>1, <1>4, <2>2, <2>4 DEF Consume
  <2>6. socket'[s] = <<>>
    BY <2>3, <2>5, OneReplyRead
  <2> QED BY <1>1, <1>3, <1>4, <2>2, <2>6, SoleTaken
<1> QED BY <1>1, <1>3, <1>4, ReadKept

(* A recv() on a stream that no call was given up on finds the reply of    *)
(* the call that waits, or its head.                                       *)
LEMMA RecvSole ==
  ASSUME IInv, Kept, NEW k, recv_msg(k), NEW s \in Stream \ late, s = srv
  PROVE  /\ Sole(s)' /\ cut' = cut /\ (dropped' => dropped)
         /\ current' = s /\ srv' \in {s, NoServer}
<1> DEFINE got == SubSeq(socket[srv], 1, k)
<1>1. /\ pc = "get_rep" /\ srv \in Servers /\ Consume(k) /\ k \in 1..Len(socket[srv])
      /\ atDaemon' = atDaemon /\ late' = late
  BY DEF recv_msg, IInv, Made
<1>2. calls \in Calls /\ calls \in 1..calls /\ socket \in [Servers -> Seq(Pieces)]
  BY <1>1, NumberAssumption DEF IInv, Made, TypeOK, calls, Calls
<1>3. Quiet(s) /\ socket[s] \in {Whole(calls), Split(calls)}
  <2>1. Sole(s)
    BY DEF Kept
  <2>2. socket[s] # <<>>
    BY <1>1, <1>2
  <2> QED BY <1>1, <2>1, <2>2 DEF Sole, Waiting
<1>4. socket'[s] = SubSeq(socket[s], k + 1, Len(socket[s]))
  BY <1>1, <1>2 DEF Consume
<1>5. CASE socket[s] = Whole(calls)
  <2>1. k = 1 /\ socket'[s] = <<>>
    BY <1>1, <1>2, <1>4, <1>5, OneReplyRead
  <2>2. got[1] = [call |-> calls, part |-> "whole"] /\ Len(got) = 1 /\ Head(got) = got[1]
    BY <1>2, <1>5, <2>1, OneReplyRead DEF Whole
  <2>3. SubSeq(got, 1 + 1, k) = <<>>
    BY <2>1, SubSeqEmpty
  <2> HIDE DEF got
  <2>4. Take(calls, <<>>)
    <3>1. Head(got).call = calls /\ (IF Head(got).part = "whole" THEN 1 ELSE 2) = 1 /\ ~(k < 1)
      BY <2>1, <2>2
    <3>2. Take(calls, SubSeq(got, 1 + 1, k))
      BY <3>1, Zenon DEF recv_msg, got
    <3> QED BY <2>3, <3>2, Zenon
  <2> QED BY <1>1, <1>2, <1>3, <2>1, <2>4, TakeEffect, SoleTaken DEF Kept
<1>6. CASE socket[s] = Split(calls)
  <2>1. k \in {1, 2} /\ Len(socket[s]) = 2
    <3>1. Len(socket[s]) = 2
      BY <1>2, <1>6, OneReplyRead
    <3> QED BY <1>1, <3>1
  <2>2. got[1] = [call |-> calls, part |-> "head"] /\ Head(got) = got[1]
    BY <1>2, <1>6, <2>1, OneReplyRead DEF Split
  <2>3. SubSeq(got, 2 + 1, 2) = <<>>
    BY SubSeqEmpty
  <2> HIDE DEF got
  <2>4. CASE k = 1
    <3>1. socket'[s] = TailOf(calls)
      BY <1>2, <1>4, <1>6, <2>1, <2>4, OneReplyRead
    <3>2. pc' = "srecv" /\ partial' = calls /\ UNCHANGED <<srv, ids, cut, dropped>>
      BY <2>2, <2>4 DEF recv_msg, got
    <3>3. Sole(s)'
      BY <1>1, <1>3, <3>1, <3>2 DEF Sole, Quiet, calls, TailOf
    <3> QED BY <3>2, <3>3 DEF current
  <2>5. CASE k = 2
    <3>1. socket'[s] = <<>>
      BY <1>2, <1>4, <1>6, <2>1, <2>5, OneReplyRead
    <3>2. Take(calls, <<>>)
      <4>1. Head(got).call = calls /\ (IF Head(got).part = "whole" THEN 1 ELSE 2) = 2 /\ ~(k < 2)
        BY <2>2, <2>5
      <4>2. Take(calls, SubSeq(got, 2 + 1, k))
        BY <4>1, Zenon DEF recv_msg, got
      <4> QED BY <2>3, <2>5, <4>2, Zenon
    <3> QED BY <1>1, <1>2, <1>3, <3>1, <3>2, TakeEffect, SoleTaken DEF Kept
  <2> QED BY <2>1, <2>4, <2>5
<1> QED BY <1>3, <1>5, <1>6

(* recv_msg throws away what it read behind its message.                   *)
LEMMA RecvKept ==
  ASSUME IInv, Kept, NEW k, recv_msg(k)
  PROVE  (\A t \in Stream \ late' : Sole(t)') /\ ReplyKept'
<1>1. /\ pc = "get_rep" /\ srv \in Stream /\ srv \in Servers /\ Consume(k) /\ k \in 1..Len(socket[srv])
      /\ atDaemon' = atDaemon /\ late' = late
  BY DEF recv_msg, IInv, Made
<1>2. CASE srv \notin late
  BY <1>1, <1>2, RecvSole, ReadKept
<1>3. CASE srv \in late
  <2> DEFINE got == SubSeq(socket[srv], 1, k)
             n == Head(got).call
             size == IF Head(got).part = "whole" THEN 1 ELSE 2
  <2>1. n \in 1..calls
    <3>1. socket[srv] \in Seq(Pieces) /\ k \in Nat /\ 1 \in 1..k /\ 1 \in 1..Len(socket[srv])
      BY <1>1 DEF IInv, TypeOK
    <3>2. Head(got) = socket[srv][1]
      BY <1>1, <3>1
    <3> QED BY <1>1, <3>1, <3>2 DEF IInv, Made
  <2>2. \/ Take(n, SubSeq(got, size + 1, k))
        \/ UNCHANGED <<srv, cut>> /\ pc' = "srecv"
    BY Zenon DEF recv_msg
  <2> HIDE DEF n, got, size
  <2>3. current' = srv /\ srv' \in {srv, NoServer} /\ cut' \subseteq cut \cup {srv}
    <3>1. CASE Take(n, SubSeq(got, size + 1, k))
      BY <1>1, <2>1, <3>1, TakeEffect DEF Kept
    <3>2. CASE UNCHANGED <<srv, cut>> /\ pc' = "srecv"
      BY <3>2 DEF current
    <3> QED BY <2>2, <3>1, <3>2
  <2>4. k \in Nat
    BY <1>1
  <2> QED BY <1>1, <1>3, <2>3, <2>4, ReadKept
<1> QED BY <1>2, <1>3

(* A stream left inside a message was given up on.                         *)
LEMMA AstrayKept ==
  ASSUME IInv, Kept, NEW k, recv_msg_astray(k)
  PROVE  (\A t \in Stream \ late' : Sole(t)') /\ ReplyKept'
<1>1. /\ pc = "get_rep" /\ srv \in Servers /\ Consume(k) /\ k \in Nat
      /\ atDaemon' = atDaemon /\ UNCHANGED <<cut, late, dropped>>
  BY DEF recv_msg_astray, IInv, Made, history
<1>2. srv \in Stream \cap late
  BY DEF recv_msg_astray, Kept, ReplyKept, IInv, TypeOK
<1>3. current' = srv /\ srv' \in {srv, NoServer}
  <2>1. CASE Return(Error) \/ Return(Garbage)
    BY <2>1 DEF Return, Returned, current
  <2>2. CASE UNCHANGED clientVars
    BY <1>1, <2>2 DEF clientVars, current
  <2> QED BY <2>1, <2>2 DEF recv_msg_astray
<1> QED BY <1>1, <1>2, <1>3, ReadKept

(* A call that is given up leaves its reply to come late.                  *)
LEMMA TimeoutKept ==
  ASSUME IInv, Kept, recv_timeout \/ srecv_timeout
  PROVE  (\A t \in Stream \ late' : Sole(t)') /\ ReplyKept'
<1>1. /\ pc # "idle" /\ Return(Error) /\ late' = late \cup {srv} /\ srv \in Servers
      /\ UNCHANGED <<socket, atDaemon, dropped>> /\ cut' \subseteq cut \cup {srv}
      /\ pc = "srecv" => srv \in Stream
      /\ pc = "get_rep" => cut' = cut
  BY DEF recv_timeout, srecv_timeout, netVars, IInv, Made
<1>2. current' = srv /\ srv' = NoServer
  BY <1>1 DEF Return, Returned, current
<1>3. ReplyKept'
  <2>1. pc \in {"get_rep", "srecv"}
    BY <1>1 DEF IInv, TypeOK
  <2>2. \/ srv \in late' \cap Stream
        \/ cut' = cut /\ (dropped' => dropped)
    BY <1>1, <2>1
  <2>3. late \subseteq late'
    BY <1>1
  <2> QED BY <1>1, <1>2, <2>2, <2>3, KeptOnServer DEF Kept
<1>4. ASSUME NEW t \in Stream \ late' PROVE Sole(t)'
  <2>1. t # srv /\ t \in Stream /\ Sole(t) /\ socket'[t] = socket[t]
    BY <1>1, <1>4 DEF Kept
  <2> QED BY <1>1, <1>2, <2>1, SoleElsewhere
<1> QED BY <1>3, <1>4

(* Every step keeps the replies apart.                                     *)
LEMMA KeptStep == IInv /\ Kept /\ [Next]_vars => Kept'
<1> SUFFICES ASSUME IInv, Kept, [Next]_vars PROVE Kept'
  OBVIOUS
<1>1. Fresh'
  BY FreshStep DEF Kept
<1>2. (\A t \in Stream \ late' : Sole(t)') /\ ReplyKept'
  <2>1. CASE \E s \in Servers : trigger_sync(s) \/ trigger_async(s) \/ trigger_send_fails(s)
    BY <2>1, TriggerKept
  <2>2. CASE \E s \in Servers, n \in Calls : Answer(s, n) \/ AnswerTwice(s, n) \/ Loss(s, n)
    BY <2>2, NetworkKept
  <2>3. CASE get_rep
    BY <2>3, UdpKept, SrecvKept, RecvKept, AstrayKept DEF get_rep
  <2>4. CASE recv_timeout \/ srecv_timeout
    BY <2>4, TimeoutKept
  <2>5. CASE UNCHANGED vars
    <3>1. UNCHANGED <<pc, srv, ids, atDaemon, socket, partial, result, cut, late, dropped>>
      BY <2>5 DEF vars, clientVars, netVars, history
    <3>2. \A t : Sole(t)' <=> Sole(t)
      BY <3>1 DEF Sole, Waiting, Quiet, calls
    <3>3. ReplyKept'
      BY <3>1 DEF Kept, ReplyKept, current
    <3> QED BY <3>1, <3>2, <3>3 DEF Kept
  <2> QED BY <2>1, <2>2, <2>3, <2>4, <2>5 DEF Next
<1> QED BY <1>1, <1>2, Zenon DEF Kept

(* mevent_trigger throws the reply it waits for away, or leaves a stream   *)
(* inside a message, only on a stream a call was given up on before, and   *)
(* on datagrams never.                                                     *)
THEOREM ReplyKeptHolds == Spec => []ReplyKept
<1>1. Init => Kept
  <2> SUFFICES ASSUME Init PROVE Kept
    OBVIOUS
  <2>1. calls = 0 /\ \A s \in Stream : socket[s] = <<>> /\ Quiet(s)
    BY DEF Init, calls, Quiet, Servers
  <2>2. Fresh /\ \A s \in Stream \ late : Sole(s)
    BY <2>1 DEF Init, Fresh, Sole, Quiet
  <2>3. ~dropped /\ cut = {}
    BY Zenon DEF Init
  <2> QED BY <2>2, <2>3 DEF Kept, ReplyKept
<1>2. IInv /\ Kept /\ [Next]_vars => Kept'
  BY KeptStep
<1>3. Kept => ReplyKept
  BY DEF Kept
<1> QED BY <1>1, <1>2, <1>3, AlwaysIInv, PTL DEF Spec

=============================================================================
