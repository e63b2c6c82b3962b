--------------------------- MODULE ChatBoxProofs ---------------------------
(***************************************************************************)
(* The five invariants of the chat widget, for any configuration of it and *)
(* any number of sessions, notices and timers.                             *)
(*                                                                         *)
(* Three groups of variables live apart, and so do their invariants: the   *)
(* link to the administrator (Linked), the hint (Hinted) and the display   *)
(* (Display).  The last is what BarToggles and RestoredAsLeft need         *)
(* together: of the eight sets of parts only four are ever shown, rendo    *)
(* tells which of them comes back after the button, and the handler bound  *)
(* to the bar follows rendo, also while the bar is hidden.  The cookies    *)
(* enter by two facts: a directory's own one comes first (OwnCookie), and  *)
(* a handler leaves those of the other directories alone (HandlerRestores).*)
(***************************************************************************)
EXTENDS ChatBox, FiniteSetTheorems, TLAPS

(* The pipe leads to the administrator or nowhere, and nowhere only if a   *)
(* session was missed or nobody is there.                                  *)
Linked == pipe \in {0, admin} /\ (~missed => pipe = admin)

(* What the hint has to say of the administrator.                          *)
Truth == IF admin # 0 THEN "online" ELSE "offline"

(* Unless overtaken there is one notice at most, and its timer puts the    *)
(* truth back.                                                             *)
Hinted ==
  ~overtaken =>
    /\ Len(notices) <= 1
    /\ Len(notices) = 0 => hint = Truth
    /\ Len(notices) = 1 => hint = "notice" /\ notices[1] = Truth

(* The window, as it is shown.                                             *)
Opened == IF opts.hidemidOnMax THEN {"max"} ELSE {"max", "mid"}

(* The parts on the screen, and what rendo says of them.                   *)
Shape ==
  \/ shown = Opened /\ rendo = "max"
  \/ shown = {"mid"} /\ rendo # "max"
  \/ shown = {"min"} /\ opts.minable
  \/ shown = {} /\ rendo = "min" /\ opts.hidemidOnMax

(* What is bound to the bar, shown or not.  Where entering the bar opens   *)
(* the window, closeChat is bound only on a page that began with it.       *)
Bound ==
  IF opts.maxevent = "click"
  THEN /\ bound = IF ~opts.hidemidOnMax /\ rendo = "max" THEN {"closeChat"} ELSE {"openChat"}
       /\ rebinds = 0 /\ ~onout
  ELSE \/ bound = {"closeChat"} /\ rendo = "max" /\ rebinds = 0 /\ ~onout
       \/ bound = {"openChat"}
       \/ bound = {} /\ (rebinds > 0 \/ onout)

Display == Shape /\ Bound /\ RestoredAsLeft

IInv == TypeOK /\ Linked /\ Hinted /\ Display /\ UnreadBlinks

-----------------------------------------------------------------------------
(* What TypeOK says of the numbers and sequences, one by one.              *)
LEMMA Types ==
  ASSUME TypeOK
  PROVE  /\ MaxSessions \in Nat /\ MaxNotices \in Nat /\ MaxRebinds \in Nat \ {0}
         /\ admin \in 0..MaxSessions /\ pipe \in 0..MaxSessions /\ session \in 0..MaxSessions
         /\ rebinds \in 0..MaxRebinds
         /\ notices \in Seq(Hints) /\ Len(notices) <= MaxNotices /\ hint \in Hints
         /\ opts \in [minable : BOOLEAN, hidemidOnMax : BOOLEAN, restoreUI : BOOLEAN,
                      restoreMsg : BOOLEAN, defaultUI : Parts, maxevent : {"click", "mouseenter"}]
<1>1. {MaxSessions, MaxNotices, MaxRebinds} \subseteq Nat \ {0}
  BY BoundsAssumption
<1>2. {admin, pipe, session} \subseteq 0..MaxSessions
  BY DEF TypeOK, Sessions
<1> QED
  BY <1>1, <1>2, OptionsAssumption DEF TypeOK

(* The administrator comes and goes at three actions only.                 *)
LEMMA LinkStep ==
  ASSUME TypeOK, Linked, [Next]_vars
  PROVE  Linked'
<1> USE DEF Linked
<1>1. CASE GoToPage
  BY <1>1 DEF GoToPage, getPipe
<1>2. CASE createUser \/ deleteUser
  BY <1>2 DEF createUser, deleteUser
<1>3. CASE UNCHANGED linkVars
  BY <1>3 DEF linkVars
<1>4. Next => GoToPage \/ createUser \/ deleteUser \/ UNCHANGED linkVars
  BY DEF Next, ClickMaxer, EnterMaxer, LeaveMaxer, RebindTimer, ClickMider, ClickMiner,
         ClickMin, msgSendLong, NoticeTimer, onData, onRecently
<1> QED
  BY <1>1, <1>2, <1>3, <1>4 DEF vars

(* A notice that nothing overtakes ends with what the hint said before.    *)
LEMMA HintStep ==
  ASSUME TypeOK, Hinted, [Next]_vars
  PROVE  Hinted'
<1>1. CASE GoToPage
  BY <1>1 DEF GoToPage, Hinted, Truth
<1>s. ASSUME NEW h, SetHint(h)
      PROVE  hint' = h /\ (~overtaken' => notices' = <<>> /\ Len(notices') = 0)
  <2>1. hint' = h /\ (~overtaken' => notices' = <<>>)
    BY <1>s, Zenon DEF SetHint
  <2>2. Len(<<>>) = 0
    OBVIOUS
  <2> QED
    BY <2>1, <2>2, Zenon
<1>2. CASE createUser
  <2>1. admin' # 0
    BY <1>2, Types DEF createUser
  <2> QED
    BY <1>2, <1>s, <2>1 DEF createUser, Hinted, Truth
<1>3. CASE deleteUser
  BY <1>3, <1>s DEF deleteUser, Hinted, Truth
<1>4. CASE msgSendLong
  <2>1. Truth' = Truth
    BY <1>4 DEF msgSendLong, linkVars, Truth
  <2>2. notices \in Seq(Hints) /\ hint \in Hints
    BY Types
  <2>3. ~overtaken' => ~overtaken /\ notices = <<>>
    BY <1>4 DEF msgSendLong
  <2>4. notices = <<>> => Len(notices') = 1 /\ notices'[1] = hint
    BY <1>4, <2>2 DEF msgSendLong
  <2> QED
    BY <1>4, <2>1, <2>3, <2>4 DEF msgSendLong, Hinted
<1>5. CASE NoticeTimer
  <2>1. Truth' = Truth /\ overtaken' = overtaken
    BY <1>5 DEF NoticeTimer, linkVars, Truth
  <2>2. notices \in Seq(Hints) /\ notices # <<>>
    BY <1>5, Types DEF NoticeTimer
  <2>3. Len(notices') = Len(notices) - 1 /\ hint' = notices[1] /\ Len(notices) \in Nat
    BY <1>5, <2>2 DEF NoticeTimer
  <2> QED
    BY <2>1, <2>2, <2>3 DEF Hinted
<1>6. CASE UNCHANGED <<hintVars, linkVars>>
  BY <1>6 DEF hintVars, linkVars, Hinted, Truth
<1>7. Next => GoToPage \/ createUser \/ deleteUser \/ msgSendLong \/ NoticeTimer
              \/ UNCHANGED <<hintVars, linkVars>>
  BY DEF Next, ClickMaxer, EnterMaxer, LeaveMaxer, RebindTimer, ClickMider, ClickMiner,
         ClickMin, onData, onRecently
<1> QED
  BY <1>1, <1>2, <1>3, <1>4, <1>5, <1>6, <1>7 DEF vars

-----------------------------------------------------------------------------
(* The display changes in one of ten ways.                                 *)
Unshrink ==
  /\ "min" \in shown
  /\ Show(({rendo} \cup (IF opts.hidemidOnMax THEN {} ELSE {"mid"})) \ {"min"})
  /\ setCookie(IF "max" \in shown' THEN "max" ELSE "mid")
  /\ buttoned' = (buttoned \/ "max" \in shown')
  /\ UNCHANGED <<rendo, bound, onout, rebinds, blink>>

Shrink ==
  /\ opts.minable
  /\ Show({"min"})
  /\ setCookie("min")
  /\ UNCHANGED <<rendo, bound, onout, rebinds, blink, buttoned>>

Rebinds ==
  /\ opts.maxevent = "mouseenter" \/ rebinds > 0
  /\ \/ bound' = bound \cup {"openChat"} /\ (rebinds > 0 \/ onout)
        /\ onout' = onout
     \/ onout' = TRUE /\ rebinds > 0 /\ bound' = bound
  /\ rebinds' = rebinds \/ (rebinds > 0 /\ rebinds' = rebinds - 1)
  /\ UNCHANGED <<shown, rendo, lcs_ui, alertVars>>

NewPage(d) ==
  /\ initUI(InitialPart(cookie(lcs_ui, d)))
  /\ dir' = d /\ left' = [left EXCEPT ![dir] = shown, ![d] = {}]
  /\ lcs_ui' = lcs_ui

SamePage ==
  \/ "mid" \in shown /\ "openChat" \in bound /\ openChat
  \/ "mid" \in shown /\ "closeChat" \in bound /\ rebinds < MaxRebinds /\ closeChat
  \/ "max" \in shown /\ rebinds < MaxRebinds /\ closeChat
  \/ Shrink \/ Unshrink \/ Rebinds
  \/ onData
  \/ UNCHANGED <<shown, rendo, bound, onout, rebinds, lcs_ui, alertVars>>

DisplayStep ==
  \/ \E d \in Dirs : NewPage(d)
  \/ UNCHANGED <<dir, left, recent>> /\ SamePage
  \/ onRecently

(* A step shows, hides or leaves the parts as one of the code's handlers.  *)
LEMMA DisplayChanges ==
  ASSUME TypeOK, [Next]_vars
  PROVE  opts' = opts /\ DisplayStep
<1> USE DEF DisplayStep, SamePage, uiVars, pageVars, alertVars
<1>1. CASE GoToPage
  BY <1>1 DEF GoToPage, NewPage
<1>2. CASE ClickMaxer \/ EnterMaxer
  BY <1>2 DEF ClickMaxer, EnterMaxer, Maxer
<1>3. CASE LeaveMaxer
  BY <1>3 DEF LeaveMaxer, Rebinds
<1>4. CASE RebindTimer
  BY <1>4 DEF RebindTimer, Rebinds
<1>5. CASE ClickMider
  BY <1>5 DEF ClickMider
<1>6. CASE ClickMiner
  BY <1>6 DEF ClickMiner, Shrink
<1>7. CASE ClickMin
  BY <1>7 DEF ClickMin, Unshrink
<1>8. CASE onData \/ onRecently
  BY <1>8 DEF onData, onRecently
<1>9. CASE msgSendLong \/ NoticeTimer \/ createUser \/ deleteUser \/ UNCHANGED vars
  BY <1>9 DEF msgSendLong, NoticeTimer, createUser, deleteUser, vars
<1> QED
  BY <1>1, <1>2, <1>3, <1>4, <1>5, <1>6, <1>7, <1>8, <1>9 DEF Next

(* The part a page begins with, and the handler that goes with it.         *)
LEMMA InitialParts ==
  ASSUME NEW c, opts.restoreUI \in BOOLEAN
  PROVE  /\ InitialPart(c) \in Parts
         /\ InitialPart(c) = "min" => opts.minable
         /\ InitialPart(c) = "max" => InitialShown(c) = Opened
         /\ InitialPart(c) # "max" => InitialShown(c) = {InitialPart(c)}
BY DEF InitialPart, InitialShown, Beside, Opened, Parts

(* A page is given the cookies of its own directory first.                 *)
LEMMA OwnPath ==
  ASSUME NEW d \in Dirs
  PROVE  /\ 1 \in 1..Len(Path[d]) /\ Path[d][1] = d
         /\ \A i \in 1..Len(Path[d]) : i \in Nat /\ 1 <= i
<1> PICK p \in Seq(Dirs) : p = Path[d] /\ Len(p) > 0 /\ p[1] = d
  BY PathAssumption
<1>1. Len(p) \in Nat
  OBVIOUS
<1> QED
  BY <1>1

(* Of numbers from 1 on, 1 is the least.                                   *)
LEMMA OneIsLeast ==
  ASSUME NEW S, 1 \in S, \A j \in S : j \in Nat /\ 1 <= j
  PROVE  (CHOOSE i \in S : \A j \in S : i <= j) = 1
OBVIOUS

(* The cookie that a page finds is that of its directory, if there is one. *)
LEMMA OwnCookie ==
  ASSUME NEW cookies, NEW d \in Dirs, cookies[d] # ""
  PROVE  cookie(cookies, d) = cookies[d]
<1> DEFINE set == {i \in 1..Len(Path[d]) : cookies[Path[d][i]] # ""}
           first == CHOOSE i \in set : \A j \in set : i <= j
<1>1. 1 \in set /\ \A j \in set : j \in Nat /\ 1 <= j
  BY OwnPath, Zenon
<1>2. cookie(cookies, d) = IF set = {} THEN "" ELSE cookies[Path[d][first]]
  BY Zenon DEF cookie
<1>3. first = 1
  <2> HIDE DEF set
  <2> QED
    BY <1>1, OneIsLeast
<1> QED
  BY <1>1, <1>2, <1>3, OwnPath, Zenon

(* A handler that notes what it shows keeps the promise of the cookies.    *)
LEMMA HandlerRestores ==
  ASSUME TypeOK, RestoredAsLeft, UNCHANGED <<opts, dir, left>>, NEW c \in Parts, setCookie(c),
         opts.restoreUI => shown' = InitialShown(c) \/ (shown' = {} /\ opts.hidemidOnMax)
  PROVE  RestoredAsLeft'
<1> SUFFICES ASSUME opts.restoreUI, NEW d \in Dirs, lcs_ui'[d] # ""
             PROVE  LET last == IF d = dir THEN shown' ELSE left[d]
                    IN  last = InitialShown(cookie(lcs_ui', d)) \/ (last = {} /\ opts.hidemidOnMax)
  BY DEF RestoredAsLeft, InitialShown, InitialPart, Beside
<1>1. cookie(lcs_ui', d) = lcs_ui'[d]
  BY OwnCookie
<1>2. dir \in Dirs /\ lcs_ui \in [Dirs -> Parts \cup {""}] /\ lcs_ui' = [lcs_ui EXCEPT ![dir] = c]
  BY DEF TypeOK, setCookie
<1>3. CASE d = dir
  <2>1. lcs_ui'[d] = c
    BY <1>2, <1>3
  <2> QED
    BY <1>1, <1>3, <2>1
<1>4. CASE d # dir
  <2>1. lcs_ui'[d] = lcs_ui[d]
    BY <1>2, <1>4
  <2>2. cookie(lcs_ui, d) = lcs_ui[d]
    BY <2>1, OwnCookie
  <2>3. left[d] = InitialShown(cookie(lcs_ui, d)) \/ (left[d] = {} /\ opts.hidemidOnMax)
    BY <1>4, <2>1 DEF RestoredAsLeft
  <2> QED
    BY <1>1, <1>4, <2>1, <2>2, <2>3
<1> QED
  BY <1>3, <1>4

(* So does a new page: it is shown by the cookie of its directory, and the *)
(* last one is remembered as it was.                                       *)
LEMMA PageRestores ==
  ASSUME TypeOK, RestoredAsLeft, opts' = opts, NEW n \in Dirs, NewPage(n),
         shown' = InitialShown(cookie(lcs_ui, n))
  PROVE  RestoredAsLeft'
<1> SUFFICES ASSUME opts.restoreUI, NEW d \in Dirs, lcs_ui[d] # ""
             PROVE  LET last == IF d = n THEN shown' ELSE left'[d]
                    IN  last = InitialShown(cookie(lcs_ui, d)) \/ (last = {} /\ opts.hidemidOnMax)
  BY DEF RestoredAsLeft, InitialShown, InitialPart, Beside, NewPage
<1>1. CASE d = n
  BY <1>1
<1>2. CASE d # n
  <2>1. left \in [Dirs -> SUBSET Parts] /\ dir \in Dirs
    BY DEF TypeOK
  <2>2. left'[d] = IF d = dir THEN shown ELSE left[d]
    BY <1>2, <2>1 DEF NewPage
  <2> QED
    BY <1>2, <2>2 DEF RestoredAsLeft
<1> QED
  BY <1>1, <1>2

(* Each of the ten ways keeps the display in shape.                        *)
LEMMA DisplayKept ==
  ASSUME TypeOK, Display, opts' = opts, DisplayStep
  PROVE  Display'
<1> USE DEF Display
<1>o. /\ opts.maxevent \in {"click", "mouseenter"}
      /\ opts.restoreUI \in BOOLEAN /\ opts.hidemidOnMax \in BOOLEAN /\ opts.minable \in BOOLEAN
      /\ rebinds \in Nat
  BY Types
<1>p. Opened' = Opened /\ \A c : InitialShown(c)' = InitialShown(c)
  BY DEF Opened, InitialShown, InitialPart, Beside
<1>c. \A c \in Parts : opts.restoreUI /\ (c = "min" => opts.minable) => InitialPart(c) = c
  BY DEF InitialPart, Parts
<1>1. ASSUME NEW d \in Dirs, NewPage(d) PROVE Display'
  <2> DEFINE part == InitialPart(cookie(lcs_ui, d))
  <2>0. /\ part \in Parts /\ (part = "min" => opts.minable)
        /\ part = "max" => InitialShown(cookie(lcs_ui, d)) = Opened
        /\ part # "max" => InitialShown(cookie(lcs_ui, d)) = {part}
    BY <1>o, InitialParts
  <2>1. shown' = InitialShown(cookie(lcs_ui, d)) /\ rendo' = part
    BY <1>1 DEF NewPage, initUI, InitialShown
  <2>2. Shape'
    BY <1>o, <1>p, <2>0, <2>1 DEF Shape, Parts
  <2>3. Bound'
    BY <1>1, <1>o, <2>1 DEF Bound, NewPage, initUI, Beside
  <2>4. RestoredAsLeft'
    BY <1>1, <2>1, PageRestores
  <2> QED
    BY <2>2, <2>3, <2>4
<1>2. CASE UNCHANGED <<dir, left>> /\ "mid" \in shown /\ "openChat" \in bound /\ openChat
  <2>1. shown' = Opened /\ rendo' = "max" /\ setCookie("max")
    BY <1>2, <1>o DEF openChat, Show, Shape, Opened
  <2>2. Shape'
    BY <1>p, <2>1 DEF Shape
  <2>3. Bound'
    BY <1>2, <1>o, <2>1 DEF Bound, openChat
  <2>4. opts.restoreUI => shown' = InitialShown("max")
    BY <1>c, <1>o, <2>1, InitialParts DEF Parts
  <2>5. RestoredAsLeft'
    BY <1>2, <2>1, <2>4, HandlerRestores DEF Parts
  <2> QED
    BY <2>2, <2>3, <2>5
<1>3. CASE UNCHANGED <<dir, left>> /\ ("mid" \in shown \/ "max" \in shown) /\ closeChat
  <2>1. shown' = {"mid"} /\ rendo' = "mid" /\ setCookie("mid")
    BY <1>3, <1>o DEF closeChat, Show, Shape, Opened
  <2>2. Shape'
    BY <2>1 DEF Shape
  <2>3. Bound'
    BY <1>3, <1>o, <2>1 DEF Bound, closeChat
  <2>4. opts.restoreUI => shown' = InitialShown("mid")
    BY <1>c, <1>o, <2>1, InitialParts DEF Parts
  <2>5. RestoredAsLeft'
    BY <1>3, <2>1, <2>4, HandlerRestores DEF Parts
  <2> QED
    BY <2>2, <2>3, <2>5
<1>4. CASE UNCHANGED <<dir, left>> /\ Shrink
  <2>1. shown' = {"min"} /\ setCookie("min") /\ opts.minable
    BY <1>4 DEF Shrink, Show
  <2>2. Shape'
    BY <2>1 DEF Shape
  <2>3. Bound'
    BY <1>4 DEF Bound, Shrink
  <2>4. opts.restoreUI => shown' = InitialShown("min")
    BY <1>c, <1>o, <2>1, InitialParts DEF Parts
  <2>5. RestoredAsLeft'
    BY <1>4, <2>1, <2>4, HandlerRestores DEF Parts
  <2> QED
    BY <2>2, <2>3, <2>5
<1>5. CASE UNCHANGED <<dir, left>> /\ Unshrink
  <2>1. rendo' = rendo /\ rendo \in Parts
    BY <1>5 DEF Unshrink, TypeOK
  <2>2. \/ rendo = "max" /\ shown' = Opened /\ setCookie("max")
        \/ rendo = "mid" /\ shown' = {"mid"} /\ setCookie("mid")
        \/ rendo = "min" /\ setCookie("mid") /\ ~opts.hidemidOnMax /\ shown' = {"mid"}
        \/ rendo = "min" /\ setCookie("mid") /\ opts.hidemidOnMax /\ shown' = {}
    <3>1. /\ shown' = ({rendo} \cup (IF opts.hidemidOnMax THEN {} ELSE {"mid"})) \ {"min"}
          /\ setCookie(IF "max" \in shown' THEN "max" ELSE "mid")
      BY <1>5 DEF Unshrink, Show
    <3>2. CASE rendo = "max"
      <4>1. shown' = Opened /\ "max" \in shown'
        BY <1>o, <3>1, <3>2 DEF Opened
      <4> QED
        BY <3>1, <3>2, <4>1
    <3>3. CASE rendo # "max"
      <4>1. "max" \notin shown'
        BY <3>1, <3>3
      <4>2. setCookie("mid")
        BY <3>1, <4>1
      <4> QED
        BY <1>o, <2>1, <3>1, <3>3, <4>2 DEF Parts
    <3> QED
      BY <3>2, <3>3
  <2>3. Shape'
    BY <1>p, <2>1, <2>2 DEF Shape
  <2>4. Bound'
    BY <1>5 DEF Bound, Unshrink
  <2>5. opts.restoreUI => InitialShown("max") = Opened /\ InitialShown("mid") = {"mid"}
    BY <1>c, <1>o, InitialParts DEF Parts
  <2>6. RestoredAsLeft'
    BY <1>5, <2>2, <2>5, HandlerRestores DEF Parts
  <2> QED
    BY <2>3, <2>4, <2>6
<1>6. CASE UNCHANGED <<dir, left>> /\ Rebinds
  <2>1. Shape' /\ RestoredAsLeft'
    BY <1>6, <1>p DEF Rebinds, Shape, RestoredAsLeft
  <2>2. opts.maxevent = "mouseenter" /\ bound # {"closeChat"}
    BY <1>6, <1>o DEF Rebinds, Bound
  <2>3. Bound'
    BY <1>6, <1>o, <2>2 DEF Bound, Rebinds
  <2> QED
    BY <2>1, <2>3
<1>7. CASE UNCHANGED <<dir, left, shown, rendo, bound, onout, rebinds, lcs_ui>>
  BY <1>7, <1>p DEF Shape, Bound, RestoredAsLeft
<1> QED
  BY <1>1, <1>2, <1>3, <1>4, <1>5, <1>6, <1>7 DEF DisplayStep, SamePage, onData, onRecently, uiVars

(* No message is read before the window is shown, which ends the blinking. *)
LEMMA UnreadKept ==
  ASSUME TypeOK, UnreadBlinks, DisplayStep
  PROVE  UnreadBlinks'
<1>t. unread \subseteq {"here", "before"}
  BY DEF TypeOK
<1> USE DEF UnreadBlinks
<1>1. ASSUME NEW d \in Dirs, NewPage(d) PROVE UnreadBlinks'
  BY <1>1, <1>t DEF NewPage, initUI
<1>2. CASE openChat
  BY <1>2, <1>t DEF openChat, Show
<1>3. CASE closeChat
  BY <1>3 DEF closeChat, Show
<1>4. CASE Shrink
  BY <1>4 DEF Shrink, Show
<1>5. CASE Unshrink
  BY <1>5, <1>t DEF Unshrink, Show
<1>6. CASE onData
  BY <1>6, <1>t DEF onData, Unseen
<1>7. CASE onRecently
  BY <1>7, <1>t DEF onRecently
<1>8. CASE UNCHANGED alertVars
  BY <1>8 DEF alertVars
<1> QED
  BY <1>1, <1>2, <1>3, <1>4, <1>5, <1>6, <1>7, <1>8 DEF DisplayStep, SamePage, Rebinds

-----------------------------------------------------------------------------
(* Every step keeps the types.  The bar never has two handlers because of  *)
(* what Bound says of the next state.                                      *)
LEMMA TypeStep ==
  ASSUME TypeOK, Display, Display', opts' = opts, DisplayStep, [Next]_vars
  PROVE  TypeOK'
<1>1. shown' \subseteq Parts
  BY DEF Display, Shape, Opened, Parts
<1>2. rendo' \in Parts
  <2>1. rendo \in Parts
    BY Zenon DEF TypeOK
  <2>2. \A c : InitialPart(c) \in Parts
    BY Types, InitialParts
  <2> QED
    BY <2>1, <2>2 DEF DisplayStep, NewPage, SamePage, initUI, openChat, closeChat, Shrink, Unshrink,
                      Rebinds, onData, onRecently, uiVars, Parts
<1>c. /\ dir' \in Dirs /\ lcs_ui' \in [Dirs -> Parts \cup {""}]
      /\ left' \in [Dirs -> SUBSET Parts]
  <2>1. /\ dir \in Dirs /\ lcs_ui \in [Dirs -> Parts \cup {""}] /\ left \in [Dirs -> SUBSET Parts]
        /\ shown \in SUBSET Parts
    BY DEF TypeOK
  <2>2. ASSUME NEW d \in Dirs, NewPage(d)
        PROVE  dir' \in Dirs /\ lcs_ui' = lcs_ui /\ left' \in [Dirs -> SUBSET Parts]
    BY <2>1, <2>2 DEF NewPage
  <2>3. ASSUME NEW c \in Parts, setCookie(c) PROVE lcs_ui' \in [Dirs -> Parts \cup {""}]
    BY <2>1, <2>3 DEF setCookie
  <2>4. SamePage => lcs_ui' = lcs_ui \/ \E c \in Parts : setCookie(c)
    BY DEF SamePage, openChat, closeChat, Shrink, Unshrink, Rebinds, onData, uiVars, Parts
  <2> QED
    BY <2>1, <2>2, <2>3, <2>4 DEF DisplayStep, onRecently, uiVars
<1>3. bound' \subseteq Handlers /\ Cardinality(bound') < 2
  <2>1. bound' \in {{}, {"openChat"}, {"closeChat"}}
    BY DEF Display, Bound
  <2>2. Cardinality(bound') \in {0, 1}
    BY <2>1, FS_EmptySet, FS_Singleton
  <2> QED
    BY <2>1, <2>2 DEF Handlers
<1>4. rebinds' \in 0..MaxRebinds
  <2>1. rebinds \in 0..MaxRebinds /\ MaxRebinds \in Nat
    BY Types
  <2>2. CASE rebinds < MaxRebinds /\ closeChat
    BY <2>1, <2>2 DEF closeChat
  <2>3. CASE Rebinds
    BY <2>1, <2>3 DEF Rebinds
  <2> QED
    BY <2>1, <2>2, <2>3 DEF DisplayStep, NewPage, SamePage, initUI, openChat, Shrink, Unshrink, onData,
                            onRecently, uiVars
<1>5. hint' \in Hints /\ notices' \in Seq(Hints) /\ Len(notices') <= MaxNotices
  <2>1. hint \in Hints /\ notices \in Seq(Hints) /\ Len(notices) <= MaxNotices /\ MaxNotices \in Nat
    BY Types
  <2>2. CASE GoToPage
    BY <2>1, <2>2 DEF GoToPage, Hints
  <2>3. CASE createUser \/ deleteUser
    BY <2>1, <2>3 DEF createUser, deleteUser, SetHint, Hints
  <2>4. CASE msgSendLong
    BY <2>1, <2>4 DEF msgSendLong, Hints
  <2>5. CASE NoticeTimer
    BY <2>1, <2>5 DEF NoticeTimer
  <2>6. CASE UNCHANGED <<hint, notices>>
    BY <2>1, <2>6
  <2>7. Next => GoToPage \/ createUser \/ deleteUser \/ msgSendLong \/ NoticeTimer
                \/ UNCHANGED <<hint, notices>>
    BY DEF Next, ClickMaxer, EnterMaxer, LeaveMaxer, RebindTimer, ClickMider, ClickMiner,
           ClickMin, onData, onRecently, hintVars
  <2> QED
    BY <2>2, <2>3, <2>4, <2>5, <2>6, <2>7 DEF vars, hintVars
<1>6. {admin', pipe', session'} \subseteq Sessions
  <2>1. /\ admin \in 0..MaxSessions /\ pipe \in 0..MaxSessions /\ session \in 0..MaxSessions
        /\ MaxSessions \in Nat
    BY Types
  <2>2. CASE GoToPage
    BY <2>1, <2>2 DEF GoToPage, getPipe, Sessions
  <2>3. CASE createUser \/ deleteUser
    BY <2>1, <2>3 DEF createUser, deleteUser, Sessions
  <2>4. CASE UNCHANGED linkVars
    BY <2>1, <2>4 DEF linkVars, Sessions
  <2>5. Next => GoToPage \/ createUser \/ deleteUser \/ UNCHANGED linkVars
    BY DEF Next, ClickMaxer, EnterMaxer, LeaveMaxer, RebindTimer, ClickMider, ClickMiner,
           ClickMin, msgSendLong, NoticeTimer, onData, onRecently
  <2> QED
    BY <2>2, <2>3, <2>4, <2>5 DEF vars
<1>u. unread' \subseteq {"here", "before"}
  <2>1. unread \subseteq {"here", "before"}
    BY DEF TypeOK
  <2> QED
    BY <2>1 DEF DisplayStep, NewPage, SamePage, initUI, openChat, closeChat, Show, Shrink, Unshrink,
                Rebinds, onData, Unseen, onRecently, alertVars
<1>7. {onout', mouse', mouseover', blink', recent', buttoned', overtaken', missed'} \subseteq BOOLEAN
  <2>0. /\ onout \in BOOLEAN /\ mouse \in BOOLEAN /\ mouseover \in BOOLEAN /\ blink \in BOOLEAN
        /\ recent \in BOOLEAN /\ buttoned \in BOOLEAN
        /\ overtaken \in BOOLEAN /\ missed \in BOOLEAN
    BY Zenon DEF TypeOK
  <2>1. onout' \in BOOLEAN /\ blink' \in BOOLEAN /\ recent' \in BOOLEAN
    BY <2>0, Zenon DEF DisplayStep, NewPage, SamePage, initUI, openChat, closeChat, Shrink, Unshrink,
                       Rebinds, onData, onRecently, uiVars, alertVars
  <2>b. buttoned' \in BOOLEAN
    <3>1. \/ buttoned' = buttoned \/ buttoned' = FALSE
          \/ buttoned' = (buttoned \/ "max" \in shown')
      BY Zenon DEF DisplayStep, NewPage, SamePage, initUI, openChat, closeChat, Shrink, Unshrink,
                   Rebinds, onData, onRecently, alertVars
    <3>2. ("max" \in shown') \in BOOLEAN
      OBVIOUS
    <3> QED
      BY <2>0, <3>1, <3>2, Zenon
  <2>2. mouse' \in BOOLEAN /\ mouseover' \in BOOLEAN
    <3>1. CASE GoToPage \/ LeaveMaxer
      BY <3>1, Zenon DEF GoToPage, initUI, LeaveMaxer
    <3>2. CASE EnterMaxer
      <4>1. mouseover' = TRUE /\ mouse' = ("mid" \in shown')
        BY <3>2, Zenon DEF EnterMaxer
      <4>2. ("mid" \in shown') \in BOOLEAN
        OBVIOUS
      <4> QED
        BY <4>1, <4>2, Zenon
    <3>3. CASE MouseStays
      BY <2>0, <3>3, Zenon DEF MouseStays
    <3>4. CASE UNCHANGED <<mouse, mouseover>>
      BY <2>0, <3>4, Zenon
    <3>5. Next => GoToPage \/ LeaveMaxer \/ EnterMaxer \/ MouseStays \/ UNCHANGED <<mouse, mouseover>>
      BY DEF Next, ClickMaxer, RebindTimer, ClickMider, ClickMiner, ClickMin, msgSendLong,
             NoticeTimer, createUser, deleteUser, onData, onRecently, uiVars
    <3>6. UNCHANGED vars => UNCHANGED <<mouse, mouseover>>
      BY DEF vars, uiVars
    <3> QED
      BY <3>1, <3>2, <3>3, <3>4, <3>5, <3>6
  <2>3. overtaken' \in BOOLEAN
    BY <2>0, Zenon DEF Next, GoToPage, ClickMaxer, EnterMaxer, LeaveMaxer, RebindTimer,
         ClickMider, ClickMiner, ClickMin, SetHint, msgSendLong, NoticeTimer, createUser,
         deleteUser, onData, onRecently, hintVars, vars
  <2>4. missed' \in BOOLEAN
    BY <2>0, Zenon DEF Next, GoToPage, ClickMaxer, EnterMaxer, LeaveMaxer, RebindTimer,
         ClickMider, ClickMiner, ClickMin, msgSendLong, NoticeTimer, createUser,
         deleteUser, onData, onRecently, linkVars, vars
  <2> QED
    BY <2>1, <2>b, <2>2, <2>3, <2>4, Zenon
<1>8. opts' \in Options
  BY DEF TypeOK
<1> QED
  BY <1>1, <1>2, <1>c, <1>3, <1>4, <1>5, <1>6, <1>u, <1>7, <1>8, Zenon DEF TypeOK, Sessions

(* The first page.                                                         *)
LEMMA InitIInv == Init => IInv
<1> SUFFICES ASSUME Init PROVE IInv
  OBVIOUS
<1>o. /\ opts \in Options
      /\ opts.maxevent \in {"click", "mouseenter"}
      /\ opts.restoreUI \in BOOLEAN /\ opts.hidemidOnMax \in BOOLEAN /\ opts.minable \in BOOLEAN
  BY OptionsAssumption DEF Init
<1>i. /\ lcs_ui = [d \in Dirs |-> ""] /\ dir \in Dirs /\ left = [d \in Dirs |-> {}]
      /\ shown = InitialShown("") /\ rendo = InitialPart("")
      /\ bound = IF Beside(rendo) # {} THEN {"closeChat"} ELSE {"openChat"}
      /\ rebinds = 0 /\ ~onout
  BY Zenon DEF Init
<1>j. hint = "offline" /\ notices = <<>> /\ unread = {} /\ ~blink
  BY Zenon DEF Init
<1>k. admin = 0 /\ pipe = 0 /\ session = 0 /\ rebinds = 0
  BY Zenon DEF Init
<1>1. Linked /\ Hinted /\ UnreadBlinks
  <2>1. Len(notices) = 0
    BY <1>j
  <2> QED
    BY <1>j, <1>k, <2>1 DEF Linked, Hinted, Truth, UnreadBlinks
<1>2. rendo \in Parts /\ Shape
  <2>1. /\ rendo \in Parts /\ (rendo = "min" => opts.minable)
        /\ rendo = "max" => shown = Opened
        /\ rendo # "max" => shown = {rendo}
    <3>1. /\ InitialPart("") \in Parts /\ (InitialPart("") = "min" => opts.minable)
          /\ InitialPart("") = "max" => InitialShown("") = Opened
          /\ InitialPart("") # "max" => InitialShown("") = {InitialPart("")}
      BY <1>o DEF InitialPart, InitialShown, Beside, Opened, Parts
    <3> QED
      BY <1>i, <3>1, Zenon
  <2> QED
    BY <2>1 DEF Shape, Parts
<1>3. Bound
  BY <1>o, <1>i DEF Bound, Beside
<1>4. RestoredAsLeft
  BY <1>i DEF RestoredAsLeft
<1>5. TypeOK
  <2>1. shown \subseteq Parts /\ bound \subseteq Handlers
    BY <1>2, <1>3 DEF Shape, Opened, Parts, Bound, Handlers
  <2>2. Cardinality(bound) < 2
    <3>1. bound \in {{}, {"openChat"}, {"closeChat"}}
      BY <1>3 DEF Bound
    <3>2. Cardinality(bound) \in {0, 1}
      BY <3>1, FS_EmptySet, FS_Singleton
    <3> QED
      BY <3>2
  <2>3. rebinds \in 0..MaxRebinds /\ Len(notices) <= MaxNotices /\ notices \in Seq(Hints)
    <3>1. MaxRebinds \in Nat /\ MaxNotices \in Nat
      BY BoundsAssumption
    <3>2. Len(notices) = 0 /\ notices \in Seq(Hints)
      BY <1>j
    <3> QED
      BY <1>k, <3>1, <3>2
  <2>4. {admin, pipe, session} \subseteq Sessions
    <3>1. MaxSessions \in Nat
      BY BoundsAssumption
    <3> QED
      BY <1>k, <3>1 DEF Sessions
  <2>5. {onout, mouse, mouseover, blink, recent, buttoned, overtaken, missed} \subseteq BOOLEAN
    BY Zenon DEF Init
  <2>6. hint \in Hints /\ lcs_ui \in [Dirs -> Parts \cup {""}] /\ left \in [Dirs -> SUBSET Parts]
    BY <1>i, <1>j DEF Hints
  <2>7. dir \in Dirs /\ unread \subseteq {"here", "before"}
    BY <1>i, <1>j
  <2> QED
    BY <1>o, <1>2, <2>1, <2>2, <2>3, <2>4, <2>5, <2>6, <2>7, Zenon DEF TypeOK
<1> QED
  BY <1>1, <1>2, <1>3, <1>4, <1>5 DEF IInv, Display

(* Every step of the page preserves the invariant.                         *)
LEMMA Inductive == IInv /\ [Next]_vars => IInv'
<1> SUFFICES ASSUME IInv, [Next]_vars PROVE IInv'
  OBVIOUS
<1>0. TypeOK /\ Linked /\ Hinted /\ Display /\ UnreadBlinks
  BY DEF IInv
<1>1. opts' = opts /\ DisplayStep
  BY <1>0, DisplayChanges
<1>2. Display' /\ UnreadBlinks'
  BY <1>0, <1>1, DisplayKept, UnreadKept
<1>3. TypeOK'
  BY <1>0, <1>1, <1>2, TypeStep
<1> QED
  BY <1>0, <1>2, <1>3, LinkStep, HintStep DEF IInv

(* The invariant holds always.                                             *)
LEMMA Invariance == Spec => []IInv
BY InitIInv, Inductive, PTL DEF Spec

-----------------------------------------------------------------------------
(* The bar has one handler at most, and it is the right one: a click on it *)
(* toggles the window as it is shown, and where entering it opens the      *)
(* window, openChat is bound or about to be (openChat, closeChat, initUI,  *)
(* #kol-lcs-min).                                                          *)
THEOREM BarTogglesHolds == Spec => []BarToggles
<1>1. IInv => BarToggles
  <2> SUFFICES ASSUME IInv PROVE BarToggles
    OBVIOUS
  <2>1. TypeOK /\ Shape /\ Bound
    BY DEF IInv, Display
  <2>2. opts.maxevent \in {"click", "mouseenter"}
    BY <2>1, Types
  <2> QED
    BY <2>1, <2>2 DEF BarToggles, Shape, Bound, Opened
<1> QED
  BY <1>1, Invariance, PTL

(* For any directories, a directory in which the visitor used the widget   *)
(* brings it back as he left the last page there, whichever handler ran    *)
(* last, but for the button that was restored by the cookie lcs_ui and     *)
(* then clicked.                                                           *)
THEOREM RestoredAsLeftHolds == Spec => []RestoredAsLeft
<1>1. IInv => RestoredAsLeft
  BY DEF IInv, Display
<1> QED
  BY <1>1, Invariance, PTL

(* The bar blinks for the unseen messages of this page and nothing else,   *)
(* but where the button brought the window back; only those of an earlier  *)
(* page go without (onData, openChat, initUI).                             *)
THEOREM UnreadBlinksHolds == Spec => []UnreadBlinks
<1>1. IInv => UnreadBlinks
  BY DEF IInv
<1> QED
  BY <1>1, Invariance, PTL

(* The hint tells whether the administrator is there, but for a notice     *)
(* that is on or was overtaken (msgSend, adminOn, adminOff).               *)
THEOREM HintTruthfulHolds == Spec => []HintTruthful
<1>1. IInv => HintTruthful
  <2> SUFFICES ASSUME IInv, ~overtaken
               PROVE  hint = IF notices # <<>> THEN "notice" ELSE Truth
    BY Zenon DEF HintTruthful, Truth
  <2>1. TypeOK /\ Hinted
    BY DEF IInv
  <2>2. notices \in Seq(Hints)
    BY <2>1, Types
  <2>3. notices # <<>> <=> Len(notices) # 0
    BY <2>2
  <2>4. Len(notices) = 0 => hint = Truth
    BY <2>1, Zenon DEF Hinted
  <2>5. Len(notices) = 1 => hint = "notice"
    BY <2>1, Zenon DEF Hinted
  <2>6. Len(notices) <= 1
    BY <2>1, Zenon DEF Hinted
  <2>7. Len(notices) = 0 \/ Len(notices) = 1
    <3>1. Len(notices) \in Nat
      BY <2>2
    <3>2. \A n \in Nat : n <= 1 => n = 0 \/ n = 1
      OBVIOUS
    <3> QED
      BY <2>6, <3>1, <3>2, Zenon
  <2> QED
    BY <2>3, <2>4, <2>5, <2>7, Zenon
<1> QED
  BY <1>1, Invariance, PTL

(* No message goes to a session that has ended, and none is kept for later *)
(* while the administrator is there, but after a page that found a new     *)
(* session of his (msgSend, getPipe).                                      *)
THEOREM ToThePresentHolds == Spec => []ToThePresent
<1>1. IInv => ToThePresent
  BY DEF IInv, Linked, ToThePresent, msgSend
<1> QED
  BY <1>1, Invariance, PTL
=============================================================================
