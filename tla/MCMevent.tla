------------------------------ MODULE MCMevent ------------------------------
(* Instances of the event daemon for TLC.                                  *)
EXTENDS MeventLive, FiniteSets, TLC

PluginSymmetry == Permutations(Plugins)

(* Bound: replies that are torn or withheld.                               *)
FewAstray == Cardinality(torn \cup unsaid) <= 1
=============================================================================
