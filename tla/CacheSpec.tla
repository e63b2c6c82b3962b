------------------------------ MODULE CacheSpec ------------------------------
(***************************************************************************)
(* What one bucket of the cache promises: a short line of remembered       *)
(* values, the one set last in front.  Setting a key moves it to the       *)
(* front, a full line forgets its last value, and a value whose time is    *)
(* over is forgotten when it is asked for.                                 *)
(***************************************************************************)
EXTENDS Integers, Sequences, SequencesExt

CONSTANTS Key, Vals, CHAINLEN, Timeouts, NoVal

VARIABLES
  line,  (* what is remembered: [key, val, expire], the newest first        *)
  now,
  ret    (* the last operation and what it returned: [op, rv, val]          *)

vars == <<line, now, ret>>

Item(k, v, x) == [key |-> k, val |-> v, expire |-> x]

Init == line = <<>> /\ now = 0 /\ ret = [op |-> "none", rv |-> 0, val |-> NoVal]

Places(k) == {i \in DOMAIN line : line[i].key = k}
Has(k) == Places(k) # {}
Place(k) == CHOOSE i \in Places(k) : TRUE

Returns(op, rv, val) == ret' = [op |-> op, rv |-> rv, val |-> val]

(* A new value goes in front, and the oldest makes room for it.            *)
SetNew(k, v, timeout) ==
  /\ Returns("set", 1, NoVal)
  /\ UNCHANGED now
  /\ ~ Has(k)
  /\ LET kept == IF Len(line) > CHAINLEN THEN Front(line) ELSE line
         x == IF timeout = 0 THEN 0 ELSE now + timeout
     IN line' = <<Item(k, v, x)>> \o kept

(* A known key gets the value and the front place; its time stays.         *)
SetKnown(k, v) ==
  /\ Returns("set", 1, NoVal)
  /\ UNCHANGED now
  /\ Has(k)
  /\ line' = <<Item(k, v, line[Place(k)].expire)>> \o RemoveAt(line, Place(k))

Valid(k) == Has(k) /\ (line[Place(k)].expire = 0 \/ line[Place(k)].expire >= now)

Forget(k) == line' = IF Has(k) THEN RemoveAt(line, Place(k)) ELSE line

Get(k) ==
  \/ /\ Returns("get", 0, NoVal)
     /\ UNCHANGED now
     /\ ~ Valid(k) /\ Forget(k)
  \/ /\ Valid(k)
     /\ Returns("get", 1, line[Place(k)].val)
     /\ UNCHANGED <<line, now>>

Del(k) ==
  /\ Returns("del", IF Has(k) THEN 1 ELSE 0, NoVal)
  /\ UNCHANGED now
  /\ Forget(k)

(* The value changes where it is, if it is the one expected.               *)
Change(k, v) ==
  /\ Returns("change", 1, NoVal)
  /\ UNCHANGED now
  /\ Has(k)
  /\ line' = [line EXCEPT ![Place(k)].val = v]

(* Nothing happens, and the caller is told.                                *)
Refuse ==
  /\ ret' \in [op : {"set", "change"}, rv : {0, -1, -2, -3}, val : {NoVal}]
  /\ UNCHANGED <<line, now>>

Empty == Returns("empty", 1, NoVal) /\ line' = <<>> /\ UNCHANGED now

Tick == now' > now /\ UNCHANGED <<line, ret>>

Next ==
  \/ \E k \in Key, v \in Vals : SetKnown(k, v) \/ Change(k, v)
  \/ \E k \in Key, v \in Vals, timeout \in Timeouts : SetNew(k, v, timeout)
  \/ \E k \in Key : Get(k) \/ Del(k)
  \/ Refuse \/ Empty \/ Tick

Spec == Init /\ [][Next]_vars
=============================================================================
