------------------------------ MODULE LiveChat ------------------------------
(***************************************************************************)
(* The desk of ChatDesk with the visitors of the site.  The push server    *)
(* tells the desk of visitors who come, go and write in the order in which *)
(* it happens, but later (livecsb.js); the pages of old messages and the   *)
(* removal of a visitor are requests to the web server, answered in any    *)
(* order or not at all.  The old messages are read from a table that grows *)
(* meanwhile, or from a copy in a cache that is not told (mevent_msg.c).   *)
(***************************************************************************)
EXTENDS ChatDesk

CONSTANTS
  MaxSessions, (* bound: sessions of a visitor                              *)
  MaxRaws,     (* bound: messages of the push server under way              *)
  MaxRequests, (* bound: requests for old messages under way                *)
  Stored,      (* how many messages with each visitor were stored at first  *)
  MaxStored    (* bound: messages stored with each visitor                  *)

ASSUME BoundsAssumption ==
  /\ {MaxSessions, MaxRaws, MaxRequests} \subseteq Nat \ {0}
  /\ {Stored, MaxStored} \subseteq [Users -> Nat]

VARIABLES
  session,  (* the session of each visitor, 0 if he is not on               *)
  sessions, (* how many sessions each visitor has had                       *)
  raws,     (* what the push server sent and the desk has not handled       *)
  stored,   (* how many messages with each visitor are stored               *)
  named,    (* whether an answer has their number as data.ntt, as           *)
            (* getMessage expects, or as data._ntt, as bill.js does         *)
  camer,    (* the cross in each box: there, clicked, or none               *)
  (* What happened, for the properties:                                     *)
  unread,   (* the visitors with a message that came while another was open *)
  wiped,    (* the visitors whose box was removed while they were on        *)
  overlap   (* the visitors with two requests for old messages at a time    *)

tableVars == <<stored, named>>
serverVars == <<session, sessions, raws, tableVars>>
history == <<unread, wiped, overlap>>
vars == <<deskVars, serverVars, camer, history>>

Init ==
  /\ DeskInit
  /\ session = [u \in Users |-> 0] /\ sessions = session
  /\ raws = <<[raw |-> "DEARUSERS"]>>
  /\ stored = Stored /\ named \in BOOLEAN
  /\ camer = [u \in Users |-> IF u \in Listed THEN "listed" ELSE "none"]
  /\ unread = {} /\ wiped = {} /\ overlap = {}

-----------------------------------------------------------------------------
(* The visitors and the push server.                                       *)

Push(r) == Len(raws) < MaxRaws /\ raws' = Append(raws, r)

Join(u) ==
  /\ session[u] = 0 /\ sessions[u] < MaxSessions
  /\ sessions' = [sessions EXCEPT ![u] = @ + 1]
  /\ session' = [session EXCEPT ![u] = sessions[u] + 1]
  /\ Push([raw |-> "JOIN", user |-> u, pub |-> sessions[u] + 1])
  /\ UNCHANGED <<deskVars, tableVars, camer, history>>

Leave(u) ==
  /\ session[u] # 0
  /\ session' = [session EXCEPT ![u] = 0]
  /\ Push([raw |-> "LEFT", user |-> u])
  /\ UNCHANGED <<deskVars, sessions, tableVars, camer, history>>

(* What a visitor writes, and the reports of his coming, his pages and his *)
(* going, which may follow him.                                            *)
Writes(u) ==
  /\ sessions[u] > 0
  /\ Push([raw |-> "LCS_DATA", user |-> u])
  /\ UNCHANGED <<deskVars, session, sessions, tableVars, camer, history>>

(* A message from the visitor or to him is stored.                         *)
msgset(u) ==
  /\ stored[u] < MaxStored[u]
  /\ stored' = [stored EXCEPT ![u] = @ + 1]
  /\ UNCHANGED <<deskVars, session, sessions, raws, named, camer, history>>

-----------------------------------------------------------------------------
(* The handlers of the desk for what the push server sent.                 *)

Handle(type) == raws # <<>> /\ Head(raws).raw = type /\ raws' = Tail(raws)

createUser ==
  /\ Handle("JOIN")
  /\ LET r == Head(raws) IN userOn(r.user, r.pub) /\ wiped' = wiped \ {r.user}
  /\ UNCHANGED <<session, sessions, tableVars, camer, unread, overlap>>

deleteUser ==
  /\ Handle("LEFT")
  /\ LET r == Head(raws) IN userOff(r.user) /\ wiped' = wiped \ {r.user}
  /\ UNCHANGED <<session, sessions, tableVars, camer, unread, overlap>>

rawLcsData ==
  /\ Handle("LCS_DATA")
  /\ LET u == Head(raws).user IN
       onData(u) /\ unread' = IF u = cUserID THEN unread ELSE unread \cup {u}
  /\ UNCHANGED <<session, sessions, tableVars, camer, wiped, overlap>>

rawLcsDearusers ==
  /\ Handle("DEARUSERS")
  /\ \E us \in SUBSET Users :
       dearUsers(us) /\ unread' = unread \cup (us \ {cUserID})
  /\ UNCHANGED <<session, sessions, tableVars, camer, wiped, overlap>>

-----------------------------------------------------------------------------
(* The administrator and the answers to his requests.                      *)

Pending(u) == \E i \in 1..Len(requests) : requests[i].user = u
Overlapping(u) ==
  overlap' = IF requests' # requests /\ Pending(u) THEN overlap \cup {u} ELSE overlap

OpenBox(u) ==
  /\ Len(requests) < MaxRequests
  /\ openChat(u)
  /\ unread' = unread \ {u}
  /\ Overlapping(u)
  /\ UNCHANGED <<serverVars, camer, wiped>>

ScrollUp ==
  /\ Len(requests) < MaxRequests
  /\ getMessage
  /\ Overlapping(cUserID)
  /\ UNCHANGED <<serverVars, camer, unread, wiped>>

(* The page is read now, or was when a copy was put into the cache.        *)
MessagesArrive ==
  /\ \E i \in 1..Len(requests) :
       LET u == requests[i].user IN
       \E t \in Stored[u]..stored[u] : getMessageAnswered(i, t, named)
  /\ UNCHANGED <<serverVars, camer, history>>

MessagesFail ==
  /\ \E i \in 1..Len(requests) : getMessageFailed(i)
  /\ UNCHANGED <<serverVars, camer, history>>

removeCamer(u) ==
  /\ camer[u] = "listed"
  /\ camer' = [camer EXCEPT ![u] = "clicked"]
  /\ UNCHANGED <<deskVars, serverVars, history>>

CamerRemoved(u) ==
  /\ camer[u] = "clicked"
  /\ camer' = [camer EXCEPT ![u] = "none"]
  /\ removeCamerAnswered(u)
  /\ unread' = unread \ {u}
  /\ wiped' = IF u \in Range(usersOn) THEN wiped \cup {u} ELSE wiped
  /\ UNCHANGED <<serverVars, overlap>>

CamerKept(u) ==
  /\ camer[u] = "clicked"
  /\ camer' = [camer EXCEPT ![u] = "listed"]
  /\ UNCHANGED <<deskVars, serverVars, history>>

Visitor(u) == Join(u) \/ Leave(u) \/ Writes(u) \/ msgset(u)
Camer(u) == removeCamer(u) \/ CamerRemoved(u) \/ CamerKept(u)
Desk == createUser \/ deleteUser \/ rawLcsData \/ rawLcsDearusers
Answers == MessagesArrive \/ MessagesFail

Next ==
  \/ \E u \in Users : Visitor(u) \/ Camer(u)
  \/ \E u \in Boxes : OpenBox(u)
  \/ ScrollUp
  \/ Desk
  \/ Answers

Spec == Init /\ [][Next]_vars

-----------------------------------------------------------------------------
(* Every variable keeps its type.                                          *)
TypeOK ==
  /\ cUserID \in Boxes
  /\ lcsCurrentPipe \in {NoPipe, GroupPipe} \cup (Users \X (1..MaxSessions))
  /\ usersOn \in Seq(Boxes)
  /\ {usersFetched, box} \subseteq SUBSET Boxes /\ Everyone \in box
  /\ {usersNew, unread, wiped, overlap} \subseteq SUBSET Users
  /\ click \subseteq box /\ dirty \subseteq box \ {Everyone}
  /\ msgbox \subseteq Boxes
  /\ {session, sessions, pubid} \subseteq [Users -> 0..MaxSessions]
  /\ {usersLoadPage, usersTotalMsg, stored} \subseteq [Users -> Nat] /\ named \in BOOLEAN
  /\ \A u \in Users : \A i \in 1..Len(recently[u]) : recently[u][i] \in [pg : Nat, ntt : Nat]
  /\ \A i \in 1..Len(requests) : requests[i] \in [user : Users, pg : Nat]
  /\ Len(raws) <= MaxRaws /\ Len(requests) <= MaxRequests
  /\ camer \in [Users -> {"listed", "clicked", "none"}]

(* The push server has nothing to tell the desk about the visitor u.       *)
Settled(u) == \A i \in 1..Len(raws) : raws[i].raw \in {"JOIN", "LEFT"} => raws[i].user # u

(* usersOn, pushed and spliced by userOn and userOff, is everyone who is   *)
(* on, each once, as far as the desk has been told; the types hold.        *)
OnlineListed ==
  /\ TypeOK
  /\ Everyone \in Range(usersOn)
  /\ \A u \in Users : Settled(u) =>
       Cardinality({i \in 1..Len(usersOn) : usersOn[i] = u}) = IF session[u] = 0 THEN 0 ELSE 1

(* What the administrator writes goes to the visitor whose box is open, in *)
(* the session he is in now, or is kept for him: the pipe that openChat    *)
(* took from the box and userOn replaced is never one that has ended.  A   *)
(* visitor who is on gets it at once, unless his box was removed while he  *)
(* was on and lost his session.                                            *)
ToOpenVisitor ==
  IF cUserID = Everyone THEN msgSend = GroupPipe
  ELSE Settled(cUserID) =>
         /\ session[cUserID] = 0 => msgSend = NoPipe
         /\ session[cUserID] # 0 =>
              \/ msgSend = <<cUserID, session[cUserID]>>
              \/ cUserID \in wiped /\ msgSend = NoPipe

(* A message that came while another box was open is marked until its box  *)
(* is opened or removed, and the box can be opened: every box but the open *)
(* one can, whose panel alone is on the screen (openChat gives and takes   *)
(* clicks, hides and shows).                                               *)
UnreadMarked ==
  /\ unread \subseteq dirty
  /\ box \ {cUserID} \subseteq click
  /\ unread \subseteq click
  /\ msgbox = {cUserID}

(* Unless two requests for the old messages of a visitor were under way at *)
(* a time (openChat and the scrolling both ask, and getMessage counts the  *)
(* pages when the answer comes): no message appears twice but on a page    *)
(* read after more had been stored, and none between two pages is left out *)
(* but by a page read before, from a copy in the cache; and getMessage     *)
(* stops asking only when the first message of all has appeared.           *)
PagesInOrder ==
  \A u \in Users \ overlap :
    LET p == recently[u] IN
    /\ \A i, j \in 1..Len(p) :
         i < j /\ p[j].ntt <= p[i].ntt => Messages(p[i]) \cap Messages(p[j]) = {}
    /\ \A i \in 1..(Len(p) - 1) : p[i].ntt <= p[i + 1].ntt =>
         \A m \in 1..p[i].ntt :
           (\A k \in Messages(p[i]) : m < k) => \E k \in Messages(p[i + 1]) : m <= k
    /\ ~MoreMessages(u) => 1 \in Messages(p[Len(p)])
=============================================================================
