-------------------------------- MODULE Heap --------------------------------
(***************************************************************************)
(* The addresses that the linked lists of the event daemon are made of:    *)
(* those of a queue's entries, and those of the entries of a cache.        *)
(***************************************************************************)

CONSTANTS
  Entry,  (* the addresses malloc() can hand out                            *)
  NULL    (* the null pointer                                               *)

ASSUME NullAssumption == NULL \notin Entry
=============================================================================
