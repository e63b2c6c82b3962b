------------------------------- MODULE ChatBox -------------------------------
(***************************************************************************)
(* The chat widget that a site of pop puts on its pages: how it is shown   *)
(* and remembered, how it draws attention, and whom it writes to           *)
(* (bmoon.chat.js, livecs.js).  The widget has a chat window, a bar and,   *)
(* if the site wants it, a small button.  The visitor clicks and types,    *)
(* goes from page to page, and the push server reports the administrator's *)
(* comings and goings and his messages, at any moment.                     *)
(*                                                                         *)
(* Texts, sounds and positions are left out.  A session of the             *)
(* administrator is a number; 0 stands for none.                           *)
(***************************************************************************)
EXTENDS Integers, Sequences, FiniteSets

CONSTANTS
  Options,     (* the ways a site may configure the widget                  *)
  Dirs,        (* the directories in which the site has its pages           *)
  Path,        (* those whose cookies a page is given: its own one and the  *)
               (* ones above that, in this order                            *)
  MaxSessions, (* bound: sessions of the administrator                      *)
  MaxNotices,  (* bound: notices about long messages shown at a time        *)
  MaxRebinds   (* bound: openings to be bound again at a time               *)

Parts == {"max", "mid", "min"}         (* the window, the bar, the button   *)
Handlers == {"openChat", "closeChat"}  (* what a click on the bar may do    *)
Hints == {"offline", "online", "notice"}

ASSUME OptionsAssumption ==
  Options \subseteq [minable : BOOLEAN, hidemidOnMax : BOOLEAN, restoreUI : BOOLEAN,
                     restoreMsg : BOOLEAN, defaultUI : Parts, maxevent : {"click", "mouseenter"}]
ASSUME PathAssumption ==
  /\ Path \in [Dirs -> Seq(Dirs)]
  /\ \A d \in Dirs : Len(Path[d]) > 0 /\ Path[d][1] = d
ASSUME BoundsAssumption == {MaxSessions, MaxNotices, MaxRebinds} \subseteq Nat \ {0}

VARIABLES
  opts,      (* ape.opts                                                    *)
  shown,     (* the parts whose display is not none                         *)
  rendo,     (* o.rendo, the part to show again after the button            *)
  bound,     (* what is bound to maxevent on o.maxer                        *)
  onout,     (* a mouseout of o.maxer binds openChat again                  *)
  rebinds,   (* the timers of closeChat that have not fired                 *)
  mouse,     (* the mouse is over o.maxer                                   *)
  mouseover, (* o.maxer has the class of that name                          *)
  dir,       (* the directory of the page                                   *)
  lcs_ui,    (* the cookie of each directory, "" if there is none           *)
  blink,     (* o.maxer.blinkID # 0                                         *)
  recent,    (* o.recentbox has the messages of earlier pages               *)
  hint,      (* what o.hint says                                            *)
  notices,   (* the hints that the timers of msgSend will put back          *)
  admin,     (* the session behind o.adminuser                              *)
  pipe,      (* ape.lcsCurrentPipe, as the session it leads to              *)
  session,   (* lcsCurrentPipe in the session that the server keeps         *)
  (* What happened, for the properties:                                     *)
  left,      (* the parts that were shown when a page of each directory was *)
             (* last left, {} for the directory of this page                *)
  unread,    (* "here": a message came to this page that the visitor has    *)
             (* not had on the screen; "before": to an earlier page         *)
  buttoned,  (* the window came back by the button since it was last opened *)
  overtaken, (* a notice was, or was put on, while another one was pending, *)
             (* or the administrator came or went meanwhile                 *)
  missed     (* the administrator began a session between two pages         *)

uiVars == <<shown, rendo, bound, onout, rebinds, mouse, mouseover, lcs_ui>>
pageVars == <<opts, dir, left, recent>>
alertVars == <<blink, unread, buttoned>>
hintVars == <<hint, notices, overtaken>>
linkVars == <<admin, pipe, session, missed>>
vars == <<pageVars, uiVars, alertVars, hintVars, linkVars>>

Sessions == 0..MaxSessions

-----------------------------------------------------------------------------
(* Loading a page.                                                         *)

(* Set without a path, the cookie belongs to the directory of the page;    *)
(* read, it is the first that the browser lists.                           *)
setCookie(c) == lcs_ui' = [lcs_ui EXCEPT ![dir] = c]
cookie(cookies, d) ==
  LET set == {i \in 1..Len(Path[d]) : cookies[Path[d][i]] # ""}
  IN IF set = {} THEN "" ELSE cookies[Path[d][CHOOSE i \in set : \A j \in set : i <= j]]

(* The part that a page with the cookie c shows first, and what is shown   *)
(* with it.                                                                *)
InitialPart(c) ==
  LET ui == IF opts.restoreUI THEN c ELSE opts.defaultUI
  IN CASE ui = "max" -> "max"
       [] ui = "min" /\ opts.minable -> "min"
       [] OTHER -> "mid"

Beside(part) == IF part = "max" /\ ~opts.hidemidOnMax THEN {"mid"} ELSE {}
InitialShown(c) == {InitialPart(c)} \cup Beside(InitialPart(c))

(* pipeCreate, the event of the site's channel, builds the widget.  Of     *)
(* the messages of the last page nothing is left.                          *)
initUI(part) ==
  /\ shown' = {part} \cup Beside(part)
  /\ rendo' = part
  /\ bound' = IF Beside(part) # {} THEN {"closeChat"} ELSE {"openChat"}
  /\ onout' = FALSE /\ rebinds' = 0
  /\ mouse' = FALSE /\ mouseover' = FALSE
  /\ blink' = FALSE /\ recent' = FALSE
  /\ unread' = IF unread = {} THEN {} ELSE {"before"}
  /\ buttoned' = FALSE

Init ==
  /\ opts \in Options
  /\ dir \in Dirs
  /\ lcs_ui = [d \in Dirs |-> ""]
  /\ shown = InitialShown("") /\ rendo = InitialPart("")
  /\ bound = IF Beside(rendo) # {} THEN {"closeChat"} ELSE {"openChat"}
  /\ onout = FALSE /\ rebinds = 0
  /\ mouse = FALSE /\ mouseover = FALSE
  /\ blink = FALSE /\ recent = FALSE
  /\ left = [d \in Dirs |-> {}] /\ unread = {} /\ buttoned = FALSE
  /\ hint = "offline" /\ notices = <<>> /\ overtaken = FALSE
  /\ admin = 0 /\ pipe = 0 /\ session = 0 /\ missed = FALSE

(* getPipe: the page knows the pipe of the present session a only.         *)
getPipe(s, a) == IF s = a THEN a ELSE 0

(* The visitor goes to another page.  The server restores his session: the *)
(* channel comes first, with an administrator in the session a if there is *)
(* one (createUser), and then the answer to getSession, read before the    *)
(* setSession of this page reached the server.                             *)
GoToPage ==
  \E d \in Dirs, a \in {s \in Sessions : s = 0 \/ s >= session} :
    /\ initUI(InitialPart(cookie(lcs_ui, d)))
    /\ dir' = d /\ left' = [left EXCEPT ![dir] = shown, ![d] = {}]
    /\ admin' = a
    /\ pipe' = getPipe(session, a)
    /\ session' = IF a = 0 THEN session ELSE a
    /\ missed' = (a # session /\ a # 0)
    /\ hint' = (IF a = 0 THEN "offline" ELSE "online")
    /\ notices' = <<>> /\ overtaken' = FALSE
    /\ UNCHANGED <<opts, lcs_ui>>

-----------------------------------------------------------------------------
(* The visitor opens, closes and shrinks the widget.                       *)

Show(parts) ==
  /\ shown' = parts
  /\ unread' = IF "max" \notin parts THEN unread
               ELSE IF recent THEN {} ELSE unread \ {"here"}

(* Hiding the bar takes it from under the mouse; no mouseout comes.        *)
MouseStays == mouse' = (mouse /\ "mid" \in shown') /\ UNCHANGED mouseover

openChat ==
  /\ Show(IF opts.hidemidOnMax THEN (shown \ {"mid"}) \cup {"max"} ELSE shown \cup {"max"})
  /\ bound' = IF ~opts.hidemidOnMax /\ opts.maxevent = "click" THEN {"closeChat"} ELSE bound
  /\ rendo' = "max"
  /\ blink' = FALSE /\ buttoned' = FALSE
  /\ setCookie("max")
  /\ UNCHANGED <<onout, rebinds>>

(* A mutant: the toggle is not put back when the window closes.            *)
CloseKeepsToggle ==
  /\ Show((shown \ {"max"}) \cup {"mid"})
  /\ bound' = IF opts.maxevent = "mouseenter" THEN {} ELSE bound
  /\ rebinds' = IF opts.maxevent = "mouseenter" THEN rebinds + 1 ELSE rebinds
  /\ rendo' = "mid"
  /\ setCookie("mid")
  /\ UNCHANGED <<onout, blink, buttoned>>

(* Under a mouse that opens the window by entering the bar, openChat is    *)
(* bound again by a timer: the bar may appear under the mouse.             *)
closeChat ==
  /\ Show((shown \ {"max"}) \cup {"mid"})
  /\ bound' = CASE opts.maxevent = "mouseenter" -> {}
                [] opts.maxevent = "click" /\ ~opts.hidemidOnMax -> {"openChat"}
                [] OTHER -> bound
  /\ rebinds' = IF opts.maxevent = "mouseenter" THEN rebinds + 1 ELSE rebinds
  /\ rendo' = "mid"
  /\ setCookie("mid")
  /\ UNCHANGED <<onout, blink, buttoned>>

RebindTimer ==
  /\ rebinds > 0
  /\ rebinds' = rebinds - 1
  /\ IF mouseover THEN onout' = TRUE /\ UNCHANGED bound
     ELSE bound' = bound \cup {"openChat"} /\ UNCHANGED onout
  /\ UNCHANGED <<pageVars, shown, rendo, mouse, mouseover, lcs_ui, alertVars, hintVars, linkVars>>

(* What the maxer is bound to runs.                                        *)
Maxer ==
  \/ "openChat" \in bound /\ openChat
  \/ "closeChat" \in bound /\ rebinds < MaxRebinds /\ closeChat

ClickMaxer ==
  /\ opts.maxevent = "click"
  /\ "mid" \in shown
  /\ Maxer
  /\ MouseStays
  /\ UNCHANGED <<pageVars, hintVars, linkVars>>

EnterMaxer ==
  /\ opts.maxevent = "mouseenter"
  /\ "mid" \in shown /\ ~mouse
  /\ mouseover' = TRUE
  /\ \/ Maxer
     \/ bound = {} /\ UNCHANGED <<shown, rendo, bound, onout, rebinds, lcs_ui, alertVars>>
  /\ mouse' = ("mid" \in shown')
  /\ UNCHANGED <<pageVars, hintVars, linkVars>>

LeaveMaxer ==
  /\ opts.maxevent = "mouseenter"
  /\ mouse
  /\ mouse' = FALSE /\ mouseover' = FALSE
  /\ bound' = IF onout THEN bound \cup {"openChat"} ELSE bound
  /\ UNCHANGED <<pageVars, shown, rendo, onout, rebinds, lcs_ui, alertVars, hintVars, linkVars>>

ClickMider ==
  /\ "max" \in shown
  /\ rebinds < MaxRebinds
  /\ closeChat
  /\ MouseStays
  /\ UNCHANGED <<pageVars, hintVars, linkVars>>

(* The miner is in the bar and, if the bar hides, in the window too.       *)
ClickMiner ==
  /\ opts.minable
  /\ "mid" \in shown \/ (opts.hidemidOnMax /\ "max" \in shown)
  /\ Show({"min"})
  /\ setCookie("min")
  /\ MouseStays
  /\ UNCHANGED <<pageVars, rendo, bound, onout, rebinds, blink, buttoned, hintVars, linkVars>>

(* A mutant: the cookie follows rendo and not what is shown.               *)
MinCookieOfRendo ==
  /\ "min" \in shown
  /\ LET back == {rendo} \cup (IF opts.hidemidOnMax THEN {} ELSE {"mid"})
     IN Show(back \ {"min"})
  /\ setCookie(rendo)
  /\ MouseStays
  /\ buttoned' = (buttoned \/ "max" \in shown')
  /\ UNCHANGED <<pageVars, rendo, bound, onout, rebinds, blink, hintVars, linkVars>>

ClickMin ==
  /\ "min" \in shown
  /\ LET back == {rendo} \cup (IF opts.hidemidOnMax THEN {} ELSE {"mid"})
     IN Show(back \ {"min"})
  /\ setCookie(IF "max" \in shown' THEN "max" ELSE "mid")
  /\ MouseStays
  /\ buttoned' = (buttoned \/ "max" \in shown')
  /\ UNCHANGED <<pageVars, rendo, bound, onout, rebinds, blink, hintVars, linkVars>>

-----------------------------------------------------------------------------
(* Messages, and the administrator.                                        *)

(* The session that msgSend sends a message to; 0 stands for a message     *)
(* that the server keeps for later.                                        *)
msgSend == IF admin # 0 /\ pipe # 0 THEN pipe ELSE 0

(* msgSend of a message that is too long: a notice, for two seconds.  (An  *)
(* empty message changes nothing.)                                         *)
msgSendLong ==
  /\ "max" \in shown
  /\ Len(notices) < MaxNotices
  /\ notices' = Append(notices, hint)
  /\ hint' = "notice"
  /\ overtaken' = (overtaken \/ notices # <<>>)
  /\ UNCHANGED <<pageVars, uiVars, alertVars, linkVars>>

NoticeTimer ==
  /\ notices # <<>>
  /\ hint' = Head(notices)
  /\ notices' = Tail(notices)
  /\ UNCHANGED <<pageVars, uiVars, alertVars, overtaken, linkVars>>

(* adminOn and adminOff set the hint, whatever is in it.                   *)
SetHint(h) ==
  /\ hint' = h
  /\ overtaken' = (notices # <<>>)
  /\ UNCHANGED notices

(* A mutant: the pipe is looked up in the session that is kept.            *)
PipeOfOldSession ==
  /\ admin = 0
  /\ \E a \in session+1..MaxSessions :
       admin' = a /\ pipe' = getPipe(session, a) /\ session' = a /\ missed' = FALSE
  /\ SetHint("online")
  /\ UNCHANGED <<pageVars, uiVars, alertVars>>

createUser ==
  /\ admin = 0
  /\ \E a \in session+1..MaxSessions :
       admin' = a /\ pipe' = a /\ session' = a /\ missed' = FALSE
  /\ SetHint("online")
  /\ UNCHANGED <<pageVars, uiVars, alertVars>>

(* A mutant: only the pipe is given up when the administrator leaves.      *)
LeaveKeepsHint ==
  /\ admin # 0
  /\ admin' = 0 /\ pipe' = 0
  /\ UNCHANGED <<pageVars, uiVars, alertVars, session, missed, hintVars>>

deleteUser ==
  /\ admin # 0
  /\ admin' = 0 /\ pipe' = 0
  /\ SetHint("offline")
  /\ UNCHANGED <<pageVars, uiVars, alertVars, session, missed>>

Unseen == IF "max" \in shown THEN unread ELSE unread \cup {"here"}

(* A mutant: the test looks at rendo and not at what is shown.             *)
DataLooksAtRendo ==
  /\ unread' = Unseen
  /\ blink' = (blink \/ rendo # "max")
  /\ UNCHANGED <<pageVars, uiVars, buttoned, hintVars, linkVars>>

(* A message of the administrator, there or since gone.                    *)
onData ==
  /\ unread' = Unseen
  /\ blink' = (blink \/ "max" \notin shown)
  /\ UNCHANGED <<pageVars, uiVars, buttoned, hintVars, linkVars>>

(* The old messages, if the site wants them.                               *)
onRecently ==
  /\ opts.restoreMsg /\ ~recent
  /\ recent' = TRUE
  /\ unread' = IF "max" \in shown THEN unread \ {"before"} ELSE unread
  /\ UNCHANGED <<opts, dir, left, uiVars, blink, buttoned, hintVars, linkVars>>

Next ==
  \/ GoToPage
  \/ ClickMaxer \/ EnterMaxer \/ LeaveMaxer \/ RebindTimer
  \/ ClickMider \/ ClickMiner \/ ClickMin
  \/ msgSendLong \/ NoticeTimer
  \/ createUser \/ deleteUser \/ onData \/ onRecently

Spec == Init /\ [][Next]_vars

-----------------------------------------------------------------------------
(* Every variable keeps its type; several sessions, notices and timers     *)
(* (msgSend, closeChat) stay within the bounds.                            *)
TypeOK ==
  /\ opts \in Options
  /\ shown \subseteq Parts /\ rendo \in Parts
  /\ dir \in Dirs /\ lcs_ui \in [Dirs -> Parts \cup {""}] /\ left \in [Dirs -> SUBSET Parts]
  /\ bound \subseteq Handlers /\ Cardinality(bound) < 2
  /\ rebinds \in 0..MaxRebinds
  /\ {onout, mouse, mouseover, blink, recent, buttoned, overtaken, missed} \subseteq BOOLEAN
  /\ unread \subseteq {"here", "before"}
  /\ hint \in Hints
  /\ notices \in Seq(Hints) /\ Len(notices) <= MaxNotices
  /\ {admin, pipe, session} \subseteq Sessions

(* A click on the bar toggles the window as it is shown now (openChat and  *)
(* closeChat bind each other, initUI and #kol-lcs-min start in between);   *)
(* where entering the bar opens the window, openChat is bound, or a timer  *)
(* or the mouse leaving will bind it.  By the types that hold with it the  *)
(* bar never has two handlers.                                             *)
BarToggles ==
  /\ TypeOK
  /\ "mid" \in shown =>
       IF opts.maxevent = "click"
       THEN bound = (IF "max" \in shown THEN {"closeChat"} ELSE {"openChat"})
       ELSE "max" \notin shown => "openChat" \in bound \/ rebinds > 0 \/ onout

(* A directory in which the visitor has used the widget has a cookie of    *)
(* its own, and that brings the widget back as he left the last page of    *)
(* this directory, or sees it now, whichever of the five handlers he used  *)
(* last there and whatever he did on the pages of other directories since, *)
(* but for a button that was restored by it and then clicked (see          *)
(* NeverVanishes).  What he does on one page is lost on a page of another  *)
(* such directory: the cookie is set without a path.                       *)
RestoredAsLeft ==
  opts.restoreUI =>
    \A d \in Dirs : lcs_ui[d] # "" =>
      LET last == IF d = dir THEN shown ELSE left[d]
      IN  last = InitialShown(cookie(lcs_ui, d)) \/ (last = {} /\ opts.hidemidOnMax)

(* The bar blinks for the messages of this page that have not been on the  *)
(* screen, and for nothing else: onData tests the display of the window,   *)
(* which four handlers change, and only openChat ends the blinking.  There *)
(* are two gaps.  A message that was not seen before the page changed is   *)
(* forgotten, for neither initUI nor onRecently blinks; and a window that  *)
(* comes back by the button shows its messages and leaves the bar blinking.*)
UnreadBlinks ==
  /\ unread # {} => blink \/ unread = {"before"}
  /\ blink => "here" \in unread \/ buttoned

(* What the hint says of the administrator is true, unless a notice about  *)
(* a long message is on or was overtaken: its timer puts back what the     *)
(* hint said before.                                                       *)
HintTruthful ==
  ~overtaken => hint = IF notices # <<>> THEN "notice"
                       ELSE IF admin # 0 THEN "online" ELSE "offline"

(* A message goes to the administrator who is there, and is kept for later *)
(* only if nobody is; after a page on which a new session was found (the   *)
(* answer to getSession names the old one) it may be kept needlessly, but  *)
(* it never goes to a session that has ended.                              *)
ToThePresent ==
  /\ msgSend \in {0, admin}
  /\ ~missed => msgSend = admin

(* A click on #kol-lcs-min brings the widget back: something of it is      *)
(* always on the screen (initUI, the handler of o.min).                    *)
NeverVanishes == shown # {}
=============================================================================
