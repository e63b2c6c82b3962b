------------------------------- MODULE MCCache -------------------------------
(* An instance of Cache for TLC.                                           *)
EXTENDS Cache, TLC

Symmetries == Permutations(Entry) \cup Permutations(Key)
=============================================================================
