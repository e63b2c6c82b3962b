-------------------------------- MODULE Cache --------------------------------
(***************************************************************************)
(* A bucket of the cache in lib/mevent/cache.c, with its pointers: the     *)
(* doubly linked chain of the entries whose keys have the same hash.       *)
(* Buckets share nothing, and a plugin's cache is used by its worker only, *)
(* so that an operation is one step.  The clock, g_ctime, is set by the    *)
(* daemon's network thread once a second.                                  *)
(*                                                                         *)
(* A value is a number; whether the bytes that hold it end in NUL, which   *)
(* cache_incr insists on, is left open.                                    *)
(* The fields of an entry that is not in use are NULL or 0 by convention:  *)
(* the code writes them all before it links a new entry.                   *)
(***************************************************************************)
EXTENDS Integers, FiniteSets, FiniteSetsExt, Heap

CONSTANTS
  Key,       (* keys that fall into this bucket                             *)
  MaxVal,    (* bound on the numbers that are stored                        *)
  CHAINLEN,  (* cd->chainlen: 4                                             *)
  Timeouts,  (* what the callers ask for, 0 for no limit                    *)
  MaxTime    (* bound on the clock                                          *)

ASSUME KeyAssumption == NULL \notin Key /\ IsFiniteSet(Entry)
ASSUME LenAssumption == CHAINLEN \in Nat \ {0} /\ MaxVal \in Nat
ASSUME TimeAssumption == MaxTime \in Nat /\ Timeouts \subseteq Nat

NoVal == -1
Vals == 0..MaxVal

VARIABLES
  first, last, len,       (* struct cache_chain                             *)
  next, prev, key, val, expire,  (* struct cache_entry, for every address   *)
  now,                    (* g_ctime                                        *)
  ret                     (* the last operation and what it returned        *)

chain == <<first, last, len, next, prev, key, val, expire>>
vars == <<chain, now, ret>>

TypeOK ==
  /\ {first, last} \subseteq Entry \cup {NULL}
  /\ len \in 0..(CHAINLEN + 1)
  /\ next \in [Entry -> Entry \cup {NULL}] /\ prev \in [Entry -> Entry \cup {NULL}]
  /\ key \in [Entry -> Key \cup {NULL}]
  /\ val \in [Entry -> Vals \cup {NoVal}]
  /\ expire \in [Entry -> Nat]
  /\ now \in 0..MaxTime
  /\ ret \in [op : {"none", "set", "get", "del", "change", "empty"},
              rv : {-3, -2, -1, 0, 1}, val : Vals \cup {NoVal}]

cache_create ==
  /\ first = NULL /\ last = NULL /\ len = 0
  /\ next = [e \in Entry |-> NULL] /\ prev = [e \in Entry |-> NULL]
  /\ key = [e \in Entry |-> NULL] /\ val = [e \in Entry |-> NoVal]
  /\ expire = [e \in Entry |-> 0]

Init ==
  /\ cache_create
  /\ now = 0
  /\ ret = [op |-> "none", rv |-> 0, val |-> NoVal]

Returns(op, rv, v) == ret' = [op |-> op, rv |-> rv, val |-> v]

(* The entries met on the way from first along next.                       *)
Walk ==
  LET at[i \in 1..Cardinality(Entry)] ==
        IF i = 1 THEN first
                 ELSE LET e == at[i - 1] IN IF e = NULL THEN NULL ELSE next[e]
  IN at

find_in_chain(k) ==
  LET at == Walk
      hits == {i \in DOMAIN at : at[i] # NULL /\ key[at[i]] = k}
  IN IF hits = {} THEN NULL ELSE at[Min(hits)]

(* malloc() returns an address that is not in use.                         *)
Free(e) == key[e] = NULL

-----------------------------------------------------------------------------
(* cache_set *)

(* new is linked in front; gone, if there is one, is cut off and freed.    *)
PutFirst(new, k, v, x, gone) ==
  /\ first' = new
  /\ next' = [e \in Entry |-> IF e = new THEN first
                              ELSE IF gone # NULL /\ e \in {prev[gone], gone} THEN NULL
                              ELSE next[e]]
  /\ prev' = [e \in Entry |-> IF e \in {new, gone} THEN NULL
                              ELSE IF e = first THEN new ELSE prev[e]]
  /\ key' = [e \in Entry |-> IF e = new THEN k ELSE IF e = gone THEN NULL ELSE key[e]]
  /\ val' = [e \in Entry |-> IF e = new THEN v ELSE IF e = gone THEN NoVal ELSE val[e]]
  /\ expire' = [e \in Entry |-> IF e = new THEN x ELSE IF e = gone THEN 0 ELSE expire[e]]

(* Not found: a new entry, instead of the last one when the chain is full. *)
set_new(new, k, v, x) ==
  /\ find_in_chain(k) = NULL
  /\ Free(new)
  /\ IF len <= CHAINLEN
       THEN /\ PutFirst(new, k, v, x, NULL)
            /\ last' = IF len = 0 THEN new ELSE last
            /\ len' = len + 1
       ELSE /\ PutFirst(new, k, v, x, last)
            /\ last' = prev[last]
            /\ UNCHANGED len
  /\ Returns("set", 1, NoVal)
  /\ UNCHANGED now

expire_at(timeout) == IF timeout = 0 THEN 0 ELSE now + timeout

(* Found: the value is replaced and the entry promoted to the front.       *)
set_known(k, v) ==
  LET e == find_in_chain(k) IN
  /\ e # NULL
  /\ val' = [val EXCEPT ![e] = v]
  /\ IF first = e THEN UNCHANGED <<first, last, next, prev>>
     ELSE /\ last' = IF last = e THEN prev[e] ELSE last
          /\ next' = [next EXCEPT ![prev[e]] = next[e], ![e] = first]
          /\ prev' = [a \in Entry |-> IF a = e THEN NULL
                                      ELSE IF a = next[e] THEN prev[e]
                                      ELSE IF a = first THEN e ELSE prev[a]]
          /\ first' = e
  /\ Returns("set", 1, NoVal)
  /\ UNCHANGED <<len, key, expire, now>>

(* An allocation fails: 0, and the chain as it was.                        *)
set_fails == Returns("set", 0, NoVal) /\ UNCHANGED <<chain, now>>

cache_set(k, v, timeout) ==
  \/ \E new \in Entry : set_new(new, k, v, expire_at(timeout))
  \/ set_known(k, v)
  \/ set_fails

-----------------------------------------------------------------------------
(* A mutant: an entry at the end leaves the chain's end where it is.       *)
UnlinkKeepsLast(e) ==
  /\ first' = IF first = e THEN next[e] ELSE first
  /\ next' = [a \in Entry |-> IF a = e THEN NULL ELSE IF a = prev[e] THEN next[e] ELSE next[a]]
  /\ prev' = [a \in Entry |-> IF a = e THEN NULL ELSE IF a = next[e] THEN prev[e] ELSE prev[a]]
  /\ key' = [key EXCEPT ![e] = NULL] /\ val' = [val EXCEPT ![e] = NoVal]
  /\ expire' = [expire EXCEPT ![e] = 0]
  /\ len' = len - 1
  /\ UNCHANGED last

(* e is taken out of the chain and freed.                                  *)
Unlink(e) ==
  /\ first' = IF first = e THEN next[e] ELSE first
  /\ next' = [a \in Entry |-> IF a = e THEN NULL ELSE IF a = prev[e] THEN next[e] ELSE next[a]]
  /\ prev' = [a \in Entry |-> IF a = e THEN NULL ELSE IF a = next[e] THEN prev[e] ELSE prev[a]]
  /\ last' = IF last = e THEN prev[e] ELSE last
  /\ key' = [key EXCEPT ![e] = NULL] /\ val' = [val EXCEPT ![e] = NoVal]
  /\ expire' = [expire EXCEPT ![e] = 0]
  /\ len' = len - 1

cache_del(k) ==
  LET e == find_in_chain(k) IN
  /\ IF e = NULL THEN UNCHANGED chain ELSE Unlink(e)
  /\ Returns("del", IF e = NULL THEN 0 ELSE 1, NoVal)
  /\ UNCHANGED now

(* A mutant: the last second is cut off.                                   *)
GetEarly(k) ==
  LET e == find_in_chain(k)
      over == expire[e] > 0 /\ expire[e] <= now
  IN /\ IF e = NULL THEN UNCHANGED chain /\ Returns("get", 0, NoVal)
        ELSE IF over THEN Unlink(e) /\ Returns("get", 0, NoVal)
        ELSE UNCHANGED chain /\ Returns("get", 1, val[e])
     /\ UNCHANGED now

(* A value whose time is over is deleted and not returned.                 *)
cache_get(k) ==
  LET e == find_in_chain(k)
      over == expire[e] > 0 /\ expire[e] < now
  IN /\ IF e = NULL THEN UNCHANGED chain /\ Returns("get", 0, NoVal)
        ELSE IF over THEN Unlink(e) /\ Returns("get", 0, NoVal)
        ELSE UNCHANGED chain /\ Returns("get", 1, val[e])
     /\ UNCHANGED now

(* Compare and swap; it does not look at the time.                         *)
cache_cas(k, old, new) ==
  LET e == find_in_chain(k) IN
  /\ UNCHANGED <<first, last, len, next, prev, key, expire, now>>
  /\ \/ e = NULL /\ Returns("change", -1, NoVal) /\ UNCHANGED val
     \/ e # NULL /\ val[e] # old /\ Returns("change", 0, NoVal) /\ UNCHANGED val
     \/ e # NULL /\ val[e] = old /\ Returns("change", -2, NoVal) /\ UNCHANGED val
     \/ e # NULL /\ val[e] = old /\ Returns("change", 1, NoVal) /\ val' = [val EXCEPT ![e] = new]

(* The number grows by one; -2 if the value is no text, and -3 if there is *)
(* no memory for a longer text.                                            *)
cache_incr(k) ==
  LET e == find_in_chain(k) IN
  /\ UNCHANGED <<first, last, len, next, prev, key, expire, now>>
  /\ \/ e = NULL /\ Returns("change", -1, NoVal) /\ UNCHANGED val
     \/ e # NULL /\ (\E rv \in {-2, -3} : Returns("change", rv, NoVal)) /\ UNCHANGED val
     \/ /\ e # NULL /\ val[e] < MaxVal
        /\ Returns("change", 1, NoVal)
        /\ val' = [val EXCEPT ![e] = @ + 1]

(* sys_cmd_cache_empty: cache_free() and cache_create().                   *)
cache_empty ==
  /\ first' = NULL /\ last' = NULL /\ len' = 0
  /\ next' = [e \in Entry |-> NULL] /\ prev' = [e \in Entry |-> NULL]
  /\ key' = [e \in Entry |-> NULL] /\ val' = [e \in Entry |-> NoVal]
  /\ expire' = [e \in Entry |-> 0]
  /\ Returns("empty", 1, NoVal)
  /\ UNCHANGED now

set_current_time ==
  /\ now' \in (now + 1)..MaxTime
  /\ UNCHANGED <<chain, ret>>

Next ==
  \/ \E k \in Key, v \in Vals, timeout \in Timeouts : cache_set(k, v, timeout)
  \/ \E k \in Key : cache_get(k) \/ cache_del(k) \/ cache_incr(k)
  \/ \E k \in Key, old, new \in Vals : cache_cas(k, old, new)
  \/ cache_empty
  \/ set_current_time

Spec == Init /\ [][Next]_vars
-----------------------------------------------------------------------------
(* The chain in both directions: next leads from first over len entries,   *)
(* all in use and of different keys, to last and then NULL, and prev leads *)
(* back.  No entry in use is out of reach, so none is leaked, and  *)
(* the types hold: the bucket never takes more than CHAINLEN + 1 entries.  *)
ChainWellFormed ==
  /\ TypeOK
  /\ \A i \in 1..len : Walk[i] # NULL /\ key[Walk[i]] # NULL
  /\ len > 0 => last = Walk[len] /\ next[last] = NULL /\ prev[first] = NULL
  /\ len = 0 => first = NULL /\ last = NULL
  /\ \A i \in 2..len : prev[Walk[i]] = Walk[i - 1]
  /\ \A i, j \in 1..len : key[Walk[i]] = key[Walk[j]] => i = j
  /\ len = Cardinality({e \in Entry : key[e] # NULL})

(* The chain as the line of CacheSpec.                                     *)
Line ==
  LET at == Walk IN
  [i \in 1..len |-> [key |-> key[at[i]], val |-> val[at[i]], expire |-> expire[at[i]]]]

Abs == INSTANCE CacheSpec WITH line <- Line

(* The pointers implement the line of CacheSpec: what a get returns is the *)
(* value set last, a full bucket forgets the key that was set longest ago, *)
(* and no operation that fails changes anything.                           *)
ImplementsCacheSpec == Abs!Spec
=============================================================================
