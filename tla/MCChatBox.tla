----------------------------- MODULE MCChatBox -----------------------------
(* The instance of ChatBox that TLC checks.                                *)
EXTENDS ChatBox

CONSTANT MaxTimers (* bound: timers of msgSend and closeChat under way         *)

Site(minable, hidemidOnMax, maxevent) ==
  [minable |-> minable, hidemidOnMax |-> hidemidOnMax, restoreUI |-> TRUE,
   restoreMsg |-> TRUE, defaultUI |-> "mid", maxevent |-> maxevent]

(* Every site that lets the visitor's choice be remembered, and one that   *)
(* begins with the window on every page.                                   *)
MCOptions ==
  {Site(m, h, e) : m \in BOOLEAN, h \in BOOLEAN, e \in {"click", "mouseenter"}}
    \cup {[Site(TRUE, FALSE, "click") EXCEPT !.restoreUI = FALSE, !.restoreMsg = FALSE,
                                                 !.defaultUI = "max"]}

(* The pages at the top of the site, and those in a directory of it.       *)
MCDirs == {"top", "shop"}
MCPath == [d \in MCDirs |-> IF d = "top" THEN <<"top">> ELSE <<"shop", "top">>]

FewTimers == Len(notices) + rebinds <= MaxTimers
=============================================================================
