------------------------------ MODULE MCQueue ------------------------------
(* Queue with four addresses of queue entries, for TLC.                    *)
EXTENDS Queue
=============================================================================
