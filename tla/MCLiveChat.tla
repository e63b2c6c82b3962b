----------------------------- MODULE MCLiveChat -----------------------------
(* The instance of LiveChat that TLC checks: a visitor in the page as it   *)
(* is served, with two pages of old messages, and one who comes later.     *)
EXTENDS LiveChat

CONSTANTS
  MaxEvents, (* bound: what Events counts                                   *)
  MaxAtOnce  (* bound: raws and requests under way together                 *)

MCStored == [u \in Users |-> IF u \in Listed THEN 3 ELSE 0]
MCMaxStored == [u \in Users |-> MCStored[u] + 1]

(* Sessions, messages stored and pages shown, of all visitors.  Where no   *)
(* visitor comes, any number of pages is read.                             *)
Events ==
  MapThenSumSet(LAMBDA u : sessions[u] + (stored[u] - Stored[u]) + Len(recently[u]), Users)
FewEvents == Events <= MaxEvents \/ \A u \in Users : sessions[u] = 0

FewAtOnce == Len(raws) + Len(requests) <= MaxAtOnce
=============================================================================
