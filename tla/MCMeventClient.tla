--------------------------- MODULE MCMeventClient ---------------------------
(* Instances of the client library for TLC.                                *)
EXTENDS MeventClient
=============================================================================
