------------------------------ MODULE ChatDesk ------------------------------
(***************************************************************************)
(* The desk of a site's administrator: a list of visitors, one of them     *)
(* open, and what each said (bmoon.chatb.js, oms.js).  Every operator here *)
(* is one handler of the page, over the page's state only; LiveChat adds   *)
(* the visitors, the push server and the answers to requests, and says     *)
(* when a handler runs.                                                    *)
(*                                                                         *)
(* Texts, sounds and the order of the list are left out.  The sessions of  *)
(* a visitor are numbered; a pipe is a visitor and a session of his.       *)
(***************************************************************************)
EXTENDS Integers, Sequences, FiniteSets, SequencesExt

CONSTANTS
  Users,    (* the visitors                                                 *)
  Everyone, (* "0" of the source, the box that writes to all                *)
  Listed,   (* the visitors whose boxes are in the page as it is served,    *)
            (* each with a cross to remove it                               *)
  Npp       (* the old messages on a page, 15 in the source                 *)

ASSUME UsersAssumption ==
  /\ Everyone \notin Users
  /\ Listed \subseteq Users
  /\ Npp \in Nat \ {0}

Boxes == Users \cup {Everyone}
NoPipe == <<Everyone, 0>>
GroupPipe == <<Everyone, 1>>     (* groupPubid                              *)

VARIABLES
  cUserID,
  lcsCurrentPipe,
  usersOn,
  usersFetched,
  usersNew,
  usersLoadPage,
  usersTotalMsg, (* how many messages each visitor has, 0 if not known      *)
  box,           (* the boxes of the list                                   *)
  click,         (* the boxes that a click opens                            *)
  dirty,         (* the boxes with that class                               *)
  pubid,         (* the session in that attribute of a box, 0 if none       *)
  msgbox,        (* the panels of messages on the screen                    *)
  recently,      (* the pages of old messages in each panel, as they came   *)
  requests       (* the requests for old messages under way                 *)

listVars == <<box, click, dirty, pubid>>
historyVars == <<usersFetched, usersLoadPage, usersTotalMsg, recently, requests>>
deskVars == <<cUserID, lcsCurrentPipe, usersOn, usersNew, msgbox, listVars, historyVars>>

(* onready: the channel of the site is there.                              *)
DeskInit ==
  /\ cUserID = Everyone
  /\ lcsCurrentPipe = GroupPipe
  /\ usersOn = <<Everyone>>
  /\ usersFetched = {Everyone}
  /\ usersNew = {}
  /\ usersLoadPage = [u \in Users |-> 0]
  /\ usersTotalMsg = usersLoadPage
  /\ box = Listed \cup {Everyone}
  /\ click = box
  /\ dirty = {}
  /\ pubid = [u \in Users |-> 0]
  /\ msgbox = {Everyone}
  /\ recently = [u \in Users |-> <<>>]
  /\ requests = <<>>

(* _nodeUser(u, true): a new box is clean, has no session and can be       *)
(* clicked.                                                                *)
NodeUser(u) ==
  /\ box' = box \cup {u}
  /\ click' = IF u \in box THEN click ELSE click \cup {u}

-----------------------------------------------------------------------------
(* Visitors come, go and write.                                            *)

(* A mutant: an open chat keeps the pipe it had.                           *)
OnKeepsPipe(u, s) ==
  /\ NodeUser(u)
  /\ pubid' = [pubid EXCEPT ![u] = s]
  /\ usersOn' = Append(usersOn, u)
  /\ usersNew' = IF u \in box THEN usersNew ELSE usersNew \cup {u}
  /\ UNCHANGED <<cUserID, lcsCurrentPipe, dirty, msgbox, historyVars>>

userOn(u, s) ==
  /\ NodeUser(u)
  /\ pubid' = [pubid EXCEPT ![u] = s]
  /\ usersOn' = Append(usersOn, u)
  /\ lcsCurrentPipe' = IF cUserID = u THEN <<u, s>> ELSE lcsCurrentPipe
  /\ usersNew' = IF u \in box THEN usersNew ELSE usersNew \cup {u}
  /\ UNCHANGED <<cUserID, dirty, msgbox, historyVars>>

(* usersOn.splice($.inArray(u, usersOn), 1): without u, the last one goes. *)
Spliced(u) ==
  IF u \in Range(usersOn) THEN RemoveFirst(usersOn, u) ELSE Front(usersOn)

(* A mutant: the visitor stays among those who are on.                     *)
OffStaysOn(u) ==
  /\ pubid' = [pubid EXCEPT ![u] = 0]
  /\ UNCHANGED <<cUserID, lcsCurrentPipe, usersOn, usersNew, msgbox, box, click, dirty, historyVars>>

userOff(u) ==
  /\ pubid' = [pubid EXCEPT ![u] = 0]
  /\ usersOn' = Spliced(u)
  /\ UNCHANGED <<cUserID, lcsCurrentPipe, usersNew, msgbox, box, click, dirty, historyVars>>

(* The panel of the visitor, made if need be, is on the screen if it is    *)
(* the open one.                                                           *)
NodeMsg(u) == msgbox' = IF u = cUserID THEN msgbox \cup {u} ELSE msgbox

(* A mutant: only the visitors that came in this session get dirty.        *)
DataDirtiesNew(u) ==
  /\ NodeUser(u)
  /\ NodeMsg(u)
  /\ IF cUserID # u /\ u \in usersNew
     THEN dirty' = dirty \cup {u} /\ usersFetched' = usersFetched \cup {u}
     ELSE UNCHANGED <<dirty, usersFetched>>
  /\ UNCHANGED <<cUserID, lcsCurrentPipe, usersOn, usersNew, pubid,
                 usersLoadPage, usersTotalMsg, recently, requests>>

onData(u) ==
  /\ NodeUser(u)
  /\ NodeMsg(u)
  /\ dirty' = IF cUserID # u THEN dirty \cup {u} ELSE dirty
  /\ usersFetched' = IF cUserID # u /\ u \in usersNew THEN usersFetched \cup {u} ELSE usersFetched
  /\ UNCHANGED <<cUserID, lcsCurrentPipe, usersOn, usersNew, pubid,
                 usersLoadPage, usersTotalMsg, recently, requests>>

(* The answer to LCS_DEARUSERS: the visitors us wrote while nobody was on. *)
dearUsers(us) ==
  /\ box' = box \cup us
  /\ click' = click \cup (us \ box)
  /\ dirty' = dirty \cup (us \ {cUserID})
  /\ UNCHANGED <<cUserID, lcsCurrentPipe, usersOn, usersNew, pubid, msgbox, historyVars>>

-----------------------------------------------------------------------------
(* The administrator opens a box, reads old messages, writes and removes.  *)

(* The messages on a page p.pg of old ones, read when p.ntt of them were   *)
(* stored; they are numbered as they were stored, and the pages count from *)
(* the newest.                                                             *)
Messages(p) ==
  {m \in 1..p.ntt : p.ntt - Npp * p.pg < m /\ m <= p.ntt - Npp * (p.pg - 1)}

(* getMessage asks for the next page; what it asks is fixed here.          *)
MoreMessages(u) == usersTotalMsg[u] = 0 \/ usersTotalMsg[u] > Npp * usersLoadPage[u]
Asked(u) ==
  IF MoreMessages(u)
  THEN Append(requests, [user |-> u, pg |-> usersLoadPage[u] + 1])
  ELSE requests

PipeOf(u) ==
  CASE u # Everyone /\ pubid[u] # 0 -> <<u, pubid[u]>>
    [] u = Everyone -> GroupPipe
    [] OTHER -> NoPipe

openChat(u) ==
  /\ u \in click
  /\ cUserID' = u
  /\ click' = (click \cup ({cUserID} \cap box)) \ {u}
  /\ dirty' = dirty \ {u}
  /\ msgbox' = (msgbox \ {cUserID}) \cup {u}
  /\ lcsCurrentPipe' = PipeOf(u)
  /\ requests' = IF u \in usersFetched THEN requests ELSE Asked(u)
  /\ usersFetched' = usersFetched \cup {u}
  /\ UNCHANGED <<usersOn, usersNew, box, pubid, usersLoadPage, usersTotalMsg, recently>>

(* Scrolling to the top of the panel asks for a page more.                 *)
getMessage ==
  /\ cUserID # Everyone
  /\ requests' = Asked(cUserID)
  /\ UNCHANGED <<cUserID, lcsCurrentPipe, usersOn, usersNew, msgbox, listVars,
                 usersFetched, usersLoadPage, usersTotalMsg, recently>>

(* A mutant: the pages are not counted.                                    *)
AnswerKeepsPage(i, t, named) ==
  LET u == requests[i].user
      page == [pg |-> requests[i].pg, ntt |-> t]
  IN
  /\ Messages(page) # {}
  /\ recently' = [recently EXCEPT ![u] = Append(@, page)]
  /\ usersTotalMsg' = IF named THEN [usersTotalMsg EXCEPT ![u] = t] ELSE usersTotalMsg
  /\ NodeUser(u)
  /\ requests' = RemoveAt(requests, i)
  /\ UNCHANGED <<cUserID, lcsCurrentPipe, usersOn, usersNew, msgbox, dirty, pubid,
                 usersFetched, usersLoadPage>>

(* The answer to the request i, read when t messages were stored; named    *)
(* says whether it has their number as data.ntt.  Each old message makes a *)
(* box for the visitor if there is none (onRecently).                      *)
getMessageAnswered(i, t, named) ==
  LET u == requests[i].user
      page == [pg |-> requests[i].pg, ntt |-> t]
  IN
  /\ Messages(page) # {}
  /\ recently' = [recently EXCEPT ![u] = Append(@, page)]
  /\ usersTotalMsg' = IF named THEN [usersTotalMsg EXCEPT ![u] = t] ELSE usersTotalMsg
  /\ usersLoadPage' = [usersLoadPage EXCEPT ![u] = @ + 1]
  /\ NodeUser(u)
  /\ requests' = RemoveAt(requests, i)
  /\ UNCHANGED <<cUserID, lcsCurrentPipe, usersOn, usersNew, msgbox, dirty, pubid, usersFetched>>

(* The request is lost, or refused, or there is no message on the page:    *)
(* data.raws is then left out of the answer (mjson_asm_objs), which is not *)
(* counted.                                                                *)
getMessageFailed(i) ==
  /\ requests' = RemoveAt(requests, i)
  /\ UNCHANGED <<cUserID, lcsCurrentPipe, usersOn, usersNew, msgbox, listVars,
                 usersFetched, usersLoadPage, usersTotalMsg, recently>>

(* The answer to removeCamer takes the box out of the page.                *)
removeCamerAnswered(u) ==
  /\ box' = box \ {u} /\ click' = click \ {u} /\ dirty' = dirty \ {u}
  /\ pubid' = [pubid EXCEPT ![u] = 0]
  /\ UNCHANGED <<cUserID, lcsCurrentPipe, usersOn, usersNew, msgbox, historyVars>>

(* The pipe that msgSend sends a message on; NoPipe stands for a message   *)
(* that the server keeps for the open visitor.                             *)
msgSend == IF cUserID \in Range(usersOn) THEN lcsCurrentPipe ELSE NoPipe
=============================================================================
