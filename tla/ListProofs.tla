----------------------------- MODULE ListProofs -----------------------------
(***************************************************************************)
(* The two linked lists of the event daemon: the queue of queue.c          *)
(* implements the double ended line of QueueSpec, and a bucket of cache.c  *)
(* is a well formed chain and implements the line of CacheSpec, for any    *)
(* entries, keys, values, length of the chain and times.                   *)
(*                                                                         *)
(* The queue: the inductive invariant is the conjunction of the three      *)
(* invariants of Queue: the types, the chain of pointers, and that no      *)
(* entry is linked in twice.  The last one is needed to keep the second:   *)
(* queue_put writes prev of the top entry and of the new one, and that     *)
(* leaves every other link alone only because the entries of the line are  *)
(* all different.                                                          *)
(*                                                                         *)
(* The bucket: the inductive invariant says that there is a sequence of    *)
(* entries that the pointers spell out (Linked).  What the recursive Walk  *)
(* visits then follows from the least place where it would differ from the *)
(* sequence, and with it what find_in_chain finds.  Every change of the    *)
(* pointers is a cut (Cut), a link in front (Put), or one after the other. *)
(***************************************************************************)
EXTENDS Queue, Cache, SequenceTheorems, FiniteSetTheorems, WellFoundedInduction, TLAPS

-----------------------------------------------------------------------------
(* The queue                                                               *)

QueueInv == QueueTypeOK /\ LineIsChain /\ NoEntryTwice

(* What is known of the entry a put links in: it differs from every entry  *)
(* of the line and from the one the worker holds.                          *)
LEMMA FreshEntry ==
  ASSUME QueueTypeOK, NEW e \in Entry, Fresh(e)
  PROVE  /\ \A i \in 1..Len(line) : line[i] # e
         /\ e # got
BY DEF QueueTypeOK, Fresh, Waiting

(* queue_put keeps the chain: the old top, if there is one, now points at  *)
(* the new entry, which ends the chain.                                    *)
LEMMA QueuePutKeeps ==
  ASSUME QueueInv, NEW e \in Entry, queue_put(e)
  PROVE  QueueInv'
<1> USE NullAssumption DEF QueueInv, QueueTypeOK, queue_put, queue_entry_create
<1>1. e # got /\ \A i \in 1..Len(line) : line[i] # e
  BY FreshEntry
<1>2. /\ Len(line') = Len(line) + 1
      /\ line'[Len(line) + 1] = e
      /\ \A i \in 1..Len(line) : line'[i] = line[i]
      /\ line' \in Seq(Entry)
  OBVIOUS
<1>3. QueueTypeOK'
  BY <1>2
<1>4. NoEntryTwice'
  BY <1>1, <1>2 DEF NoEntryTwice
<1>5. LineIsChain'
  <2>1. CASE top = NULL
    <3>1. Len(line) = 0
      BY <2>1 DEF LineIsChain
    <3> QED
      BY <2>1, <3>1, <1>2 DEF LineIsChain
  <2>2. CASE top # NULL
    <3>1. Len(line) > 0 /\ top = line[Len(line)] /\ top \in Entry
      BY <2>2 DEF LineIsChain
    <3>2. link'[e] = NULL /\ link'[top] = e
      BY <2>2, <3>1, <1>1
    <3>3. \A i \in 1..(Len(line) - 1) : link'[line[i]] = line[i + 1]
      <4> TAKE i \in 1..(Len(line) - 1)
      <4>1. line[i] # top /\ line[i] # e /\ line[i] \in Entry
        BY <3>1, <1>1 DEF NoEntryTwice
      <4> QED
        BY <4>1, <2>2 DEF LineIsChain
    <3> QED
      BY <2>2, <3>1, <3>2, <3>3, <1>2 DEF LineIsChain
  <2> QED
    BY <2>1, <2>2
<1> QED
  BY <1>3, <1>4, <1>5

(* queue_cas keeps the chain: the new entry points at the old bottom.      *)
LEMMA QueueCasKeeps ==
  ASSUME QueueInv, NEW e \in Entry, queue_cas(e)
  PROVE  QueueInv'
<1> USE NullAssumption DEF QueueInv, QueueTypeOK, queue_cas, queue_entry_create
<1>1. e # got /\ \A i \in 1..Len(line) : line[i] # e
  BY FreshEntry
<1>2. /\ Len(line') = Len(line) + 1
      /\ line'[1] = e
      /\ \A i \in 1..Len(line) : line'[i + 1] = line[i]
      /\ line' \in Seq(Entry)
  OBVIOUS
<1>3. QueueTypeOK'
  BY <1>2
<1>4. NoEntryTwice'
  <2>1. \A i \in 2..Len(line') : i - 1 \in 1..Len(line) /\ line'[i] = line[i - 1]
    BY <1>2
  <2> QED
    BY <1>1, <1>2, <2>1 DEF NoEntryTwice
<1>5. LineIsChain'
  <2>1. CASE top = NULL
    <3>1. Len(line) = 0
      BY <2>1 DEF LineIsChain
    <3> QED
      BY <2>1, <3>1, <1>2 DEF LineIsChain
  <2>2. CASE top # NULL
    <3>1. Len(line) > 0 /\ bottom = line[1] /\ top = line[Len(line)]
      BY <2>2 DEF LineIsChain
    <3>2. link'[e] = line[1]
      BY <2>2, <3>1
    <3>3. \A i \in 1..Len(line) : link'[line[i]] = link[line[i]]
      BY <2>2, <1>1
    <3>4. \A i \in 2..Len(line') : i - 1 \in 1..Len(line) /\ line'[i] = line[i - 1]
      BY <1>2
    <3>5. link'[line'[1]] = line'[2]
      BY <3>1, <3>2, <1>2
    <3>6. \A i \in 2..Len(line') :
             link'[line'[i]] = IF i = Len(line') THEN NULL ELSE line'[i + 1]
      BY <3>3, <3>4, <1>2 DEF LineIsChain
    <3>7. top' = line'[Len(line')] /\ bottom' = line'[1] /\ size' = Len(line')
      BY <2>2, <3>1, <1>2 DEF LineIsChain
    <3> QED
      BY <3>1, <3>5, <3>6, <3>7, <1>2 DEF LineIsChain
  <2> QED
    BY <2>1, <2>2
<1> QED
  BY <1>3, <1>4, <1>5

(* queue_get takes the first entry of the line and keeps the chain of the  *)
(* rest.                                                                   *)
LEMMA QueueGetKeeps ==
  ASSUME QueueInv, queue_get
  PROVE  /\ QueueInv'
         /\ line # <<>>
         /\ got' = Head(line)
<1> USE NullAssumption DEF QueueInv, QueueTypeOK, queue_get
<1>1. Len(line) > 0 /\ line # <<>> /\ bottom = line[1] /\ bottom \in Entry
  BY DEF LineIsChain
<1>2. /\ line' = Tail(line)
      /\ Len(line') = Len(line) - 1
      /\ \A i \in 1..Len(line') : line'[i] = line[i + 1]
      /\ line' \in Seq(Entry)
  BY <1>1
<1>3. got' = line[1]
  BY <1>1
<1>4. QueueTypeOK'
  BY <1>1, <1>2 DEF LineIsChain
<1>5. NoEntryTwice'
  BY <1>1, <1>2, <1>3 DEF NoEntryTwice
<1>6. LineIsChain'
  <2>1. CASE Len(line) = 1
    BY <2>1, <1>1, <1>2 DEF LineIsChain
  <2>2. CASE Len(line) > 1
    <3>1. link[bottom] = line[2] /\ line[2] \in Entry
      BY <2>2, <1>1 DEF LineIsChain
    <3>2. bottom' = line'[1] /\ top' = line'[Len(line')]
      BY <2>2, <3>1, <1>1, <1>2 DEF LineIsChain
    <3> QED
      BY <2>2, <3>2, <1>1, <1>2 DEF LineIsChain
  <2>3. Len(line) \in Nat
    OBVIOUS
  <2> QED
    BY <2>1, <2>2, <2>3, <1>1 DEF LineIsChain
<1> QED
  BY <1>1, <1>3, <1>4, <1>5, <1>6

(* Every step of the queue keeps the three invariants.                     *)
LEMMA QueueKeeps == QueueInv /\ [QueueNext]_queueVars => QueueInv'
<1> SUFFICES ASSUME QueueInv, [QueueNext]_queueVars PROVE QueueInv'
  OBVIOUS
<1>1. ASSUME NEW e \in Entry, queue_put(e) PROVE QueueInv'
  BY <1>1, QueuePutKeeps
<1>2. ASSUME NEW e \in Entry, queue_cas(e) PROVE QueueInv'
  BY <1>2, QueueCasKeeps
<1>3. CASE queue_get
  BY <1>3, QueueGetKeeps
<1>4. CASE queue_entry_free
  BY <1>4, NullAssumption DEF queue_entry_free, QueueInv, QueueTypeOK, LineIsChain, NoEntryTwice, list
<1>5. CASE UNCHANGED queueVars
  BY <1>5 DEF queueVars, list, QueueInv, QueueTypeOK, LineIsChain, NoEntryTwice
<1> QED
  BY <1>1, <1>2, <1>3, <1>4, <1>5 DEF QueueNext

(* The queue is created empty, and satisfies the invariants.               *)
LEMMA QueueInitInv == QueueInit => QueueInv
BY DEF QueueInit, queue_create, QueueInv, QueueTypeOK, LineIsChain, NoEntryTwice

(* For any set of entries, following the prev pointers from bottom visits  *)
(* exactly the entries that are due, in order, and size counts them; no    *)
(* entry is linked in twice or served twice.                               *)
THEOREM QueueChain == QueueSystem => [](QueueTypeOK /\ LineIsChain /\ NoEntryTwice)
BY QueueInitInv, QueueKeeps, PTL DEF QueueSystem, QueueInv

(* For any set of entries, queue.c's linked list is a double ended line.   *)
THEOREM QueueRefinement == QueueSystem => ImplementsQueueSpec
<1>1. QueueInit => QueueAbs!Init
  BY DEF QueueInit, QueueAbs!Init
<1>2. QueueInv /\ [QueueNext]_queueVars => [QueueAbs!Next]_(QueueAbs!vars)
  <2> SUFFICES ASSUME QueueInv, [QueueNext]_queueVars PROVE [QueueAbs!Next]_(QueueAbs!vars)
    OBVIOUS
  <2> USE DEF QueueAbs!Next, QueueAbs!vars
  <2>1. ASSUME NEW e \in Entry, queue_put(e) PROVE QueueAbs!PutBack(e)
    BY <2>1 DEF queue_put, Fresh, Waiting, QueueAbs!PutBack, QueueAbs!Waiting
  <2>2. ASSUME NEW e \in Entry, queue_cas(e) PROVE QueueAbs!PutFront(e)
    BY <2>2 DEF queue_cas, Fresh, Waiting, QueueAbs!PutFront, QueueAbs!Waiting
  <2>3. CASE queue_get
    BY <2>3, QueueGetKeeps DEF queue_get, QueueAbs!TakeFront
  <2>4. CASE queue_entry_free
    BY <2>4 DEF queue_entry_free, QueueAbs!Release
  <2>5. CASE UNCHANGED queueVars
    BY <2>5 DEF queueVars
  <2> QED
    BY <2>1, <2>2, <2>3, <2>4, <2>5 DEF QueueNext
<1> QED
  BY <1>1, <1>2, QueueInitInv, QueueKeeps, PTL DEF QueueSystem, ImplementsQueueSpec, QueueAbs!Spec

-----------------------------------------------------------------------------
(* The bucket of the cache                                                 *)

(* The null pointer is no entry and no key, and the entries are finite.   *)
LEMMA Addresses == NULL \notin Entry \cup Key /\ IsFiniteSet(Entry)
BY NullAssumption, KeyAssumption

(* A set of natural numbers has a least element.                           *)
LEMMA Least ==
  ASSUME NEW T \in SUBSET Nat, T # {}
  PROVE  \E x \in T : \A y \in T : x <= y
<1> DEFINE R == OpToRel(<, Nat)
<1>1. IsWellFoundedOn(R, Nat)
  BY NatLessThanWellFounded, Zenon
<1>2. \A x, y \in Nat : y < x => <<y, x>> \in R
  BY DEF OpToRel
<1> HIDE DEF R
<1>3. PICK x \in T : \A y \in T : ~(<<y, x>> \in R)
  BY <1>1, WFMin, Zenon
<1>4. ASSUME NEW y \in T PROVE x <= y
  <2>1. x \in Nat /\ y \in Nat
    OBVIOUS
  <2>2. ~(y < x)
    BY <1>2, <1>3, <2>1, Zenon
  <2> QED BY <2>1, <2>2
<1> QED BY <1>4

-----------------------------------------------------------------------------
(* Sequences                                                               *)

Has(q, v) == \E i \in 1..Len(q) : q[i] = v
Distinct(q) == \A i, j \in 1..Len(q) : q[i] = q[j] => i = j
Without(q, i) == SubSeq(q, 1, i - 1) \o SubSeq(q, i + 1, Len(q))
Front1(e, q) == <<e>> \o q

(* The place of the element k of Without(q, i) in q.                       *)
Old(i, k) == IF k < i THEN k ELSE k + 1

(* A sequence without its element i.                                       *)
LEMMA WithoutEffect ==
  ASSUME NEW S, NEW q \in Seq(S), NEW i \in 1..Len(q)
  PROVE  /\ Without(q, i) \in Seq(S) /\ Len(Without(q, i)) = Len(q) - 1
         /\ \A k \in 1..(Len(q) - 1) : Without(q, i)[k] = q[Old(i, k)]
<1> DEFINE a == SubSeq(q, 1, i - 1)
           b == SubSeq(q, i + 1, Len(q))
<1>1. /\ a \in Seq(S) /\ Len(a) = i - 1 /\ \A k \in 1..(i - 1) : a[k] = q[k]
  <2>1. CASE i = 1
    BY <2>1
  <2>2. CASE i > 1
    BY <2>2
  <2> QED BY <2>1, <2>2
<1>2. /\ b \in Seq(S) /\ Len(b) = Len(q) - i /\ \A k \in 1..(Len(q) - i) : b[k] = q[k + i]
  <2>1. CASE i = Len(q)
    BY <2>1
  <2>2. CASE i < Len(q)
    BY <2>2
  <2> QED BY <2>1, <2>2
<1>3. Without(q, i) = a \o b
  BY DEF Without
<1> HIDE DEF a, b
<1>4. /\ a \o b \in Seq(S) /\ Len(a \o b) = Len(q) - 1
      /\ \A k \in 1..(Len(q) - 1) : (a \o b)[k] = IF k <= i - 1 THEN a[k] ELSE b[k - (i - 1)]
  <2>1. /\ a \o b \in Seq(S) /\ Len(a \o b) = Len(a) + Len(b)
        /\ \A k \in 1..(Len(a) + Len(b)) : (a \o b)[k] = IF k <= Len(a) THEN a[k] ELSE b[k - Len(a)]
    BY <1>1, <1>2, ConcatProperties
  <2>2. Len(a) + Len(b) = Len(q) - 1
    BY <1>1, <1>2
  <2> QED BY <1>1, <2>1, <2>2
<1>5. ASSUME NEW k \in 1..(Len(q) - 1)
      PROVE  (a \o b)[k] = q[Old(i, k)]
  <2>1. CASE k < i
    BY <1>1, <1>4, <2>1 DEF Old
  <2>2. CASE ~(k < i)
    <3>1. k - (i - 1) \in 1..(Len(q) - i) /\ (k - (i - 1)) + i = k + 1
      BY <2>2
    <3>2. b[k - (i - 1)] = q[k + 1]
      BY <1>2, <3>1
    <3>3. ~(k < i) /\ ~(k <= i - 1)
      BY <2>2
    <3> QED BY <1>4, <3>2, <3>3 DEF Old
  <2> QED BY <2>1, <2>2
<1> QED BY <1>3, <1>4, <1>5

(* Every place but i is that of an element that stays.                     *)
LEMMA OldPlaces ==
  ASSUME NEW n \in Nat, NEW i \in 1..n
  PROVE  /\ \A k \in 1..(n - 1) : Old(i, k) \in 1..n /\ Old(i, k) # i
         /\ \A j, k \in 1..(n - 1) : Old(i, j) = Old(i, k) => j = k
         /\ \A j \in 1..n : j # i => \E k \in 1..(n - 1) : Old(i, k) = j
<1>1. \A k \in 1..(n - 1) : Old(i, k) \in 1..n /\ Old(i, k) # i
  BY DEF Old
<1>2. \A j, k \in 1..(n - 1) : Old(i, j) = Old(i, k) => j = k
  BY DEF Old
<1>3. ASSUME NEW j \in 1..n, j # i PROVE \E k \in 1..(n - 1) : Old(i, k) = j
  <2>1. CASE j < i
    <3>1. j \in 1..(n - 1) /\ Old(i, j) = j
      BY <2>1 DEF Old
    <3> QED BY <3>1
  <2>2. CASE j > i
    <3>1. j - 1 \in 1..(n - 1) /\ Old(i, j - 1) = j
      BY <2>2 DEF Old
    <3> QED BY <3>1
  <2> QED BY <1>3, <2>1, <2>2
<1> QED BY <1>1, <1>2, <1>3

(* A sequence with a new first element.                                    *)
LEMMA Front1Effect ==
  ASSUME NEW S, NEW q \in Seq(S), NEW e \in S
  PROVE  /\ Front1(e, q) \in Seq(S) /\ Len(Front1(e, q)) = Len(q) + 1 /\ Front1(e, q)[1] = e
         /\ \A k \in 1..Len(q) : Front1(e, q)[k + 1] = q[k]
         /\ \A k \in 2..(Len(q) + 1) : k - 1 \in 1..Len(q) /\ Front1(e, q)[k] = q[k - 1]
BY DEF Front1

-----------------------------------------------------------------------------
(* Pointers                                                                *)

(* From f along nx to l, and back along pv: the sequence q.                *)
Chain(q, f, l, nx, pv) ==
  /\ q \in Seq(Entry)
  /\ f = IF Len(q) = 0 THEN NULL ELSE q[1]
  /\ l = IF Len(q) = 0 THEN NULL ELSE q[Len(q)]
  /\ \A i \in 1..Len(q) : nx[q[i]] = IF i = Len(q) THEN NULL ELSE q[i + 1]
  /\ \A i \in 1..Len(q) : pv[q[i]] = IF i = 1 THEN NULL ELSE q[i - 1]

(* An entry is linked in front.                                            *)
LEMMA Put ==
  ASSUME NEW q, NEW f, NEW l, NEW nx, NEW pv, Chain(q, f, l, nx, pv), Distinct(q),
         NEW e \in Entry, ~Has(q, e), NEW nx2, NEW pv2,
         nx2[e] = f, \A a \in Entry \ {e} : nx2[a] = nx[a],
         pv2[e] = NULL, \A a \in Entry \ {e} : pv2[a] = IF a = f THEN e ELSE pv[a]
  PROVE  Chain(Front1(e, q), e, IF Len(q) = 0 THEN e ELSE l, nx2, pv2) /\ Distinct(Front1(e, q))
<1> DEFINE p == Front1(e, q)
           n == Len(q)
<1>1. q \in Seq(Entry) /\ n \in Nat /\ \A i \in 1..n : q[i] \in Entry /\ q[i] # e
  BY DEF Chain, Has
<1>2. /\ p \in Seq(Entry) /\ Len(p) = n + 1 /\ p[1] = e
      /\ \A k \in 1..n : p[k + 1] = q[k]
      /\ \A k \in 2..(n + 1) : k - 1 \in 1..n /\ p[k] = q[k - 1]
  BY <1>1 DEF Front1
<1> HIDE DEF p
<1>3. /\ e = p[1] /\ Len(p) # 0
      /\ (IF n = 0 THEN e ELSE l) = p[Len(p)]
  BY <1>1, <1>2 DEF Chain
<1>4. ASSUME NEW i \in 1..Len(p) PROVE nx2[p[i]] = IF i = Len(p) THEN NULL ELSE p[i + 1]
  <2>1. CASE i = 1
    <3>1. nx2[p[i]] = IF n = 0 THEN NULL ELSE q[1]
      BY <1>2, <2>1 DEF Chain
    <3> QED BY <1>1, <1>2, <2>1, <3>1
  <2>2. CASE i # 1
    <3>1. i \in 2..(n + 1) /\ i - 1 \in 1..n /\ p[i] = q[i - 1]
      BY <1>1, <1>2, <2>2
    <3>2. nx2[p[i]] = IF i - 1 = n THEN NULL ELSE q[(i - 1) + 1]
      BY <1>1, <3>1 DEF Chain
    <3>3. i - 1 # n => p[i + 1] = q[(i - 1) + 1]
      BY <1>1, <1>2, <3>1
    <3> QED BY <1>1, <1>2, <3>1, <3>2, <3>3
  <2> QED BY <2>1, <2>2
<1>5. ASSUME NEW i \in 1..Len(p) PROVE pv2[p[i]] = IF i = 1 THEN NULL ELSE p[i - 1]
  <2>1. CASE i = 1
    BY <1>2, <2>1
  <2>2. CASE i # 1
    <3>1. i \in 2..(n + 1) /\ i - 1 \in 1..n /\ p[i] = q[i - 1]
      BY <1>1, <1>2, <2>2
    <3>2. CASE i = 2
      <4>1. q[1] = f /\ p[i] = q[1]
        BY <1>1, <3>1, <3>2 DEF Chain
      <4> QED BY <1>1, <1>2, <3>1, <3>2, <4>1
    <3>3. CASE i # 2
      <4>1. i - 1 # 1 /\ 1 \in 1..n /\ i - 1 \in 2..(n + 1) /\ f = q[1]
        BY <1>1, <3>1, <3>3 DEF Chain
      <4>2. q[i - 1] # f
        BY <3>1, <4>1 DEF Distinct
      <4>3. pv2[p[i]] = pv[q[i - 1]] /\ pv[q[i - 1]] = q[(i - 1) - 1]
        BY <1>1, <3>1, <4>1, <4>2 DEF Chain
      <4>4. p[i - 1] = q[(i - 1) - 1]
        BY <1>2, <4>1
      <4> QED BY <2>2, <4>3, <4>4
    <3> QED BY <3>2, <3>3
  <2> QED BY <2>1, <2>2
<1>6. Distinct(p)
  <2> SUFFICES ASSUME NEW i \in 1..Len(p), NEW j \in 1..Len(p), p[i] = p[j], i < j PROVE FALSE
    BY <1>1, <1>2 DEF Distinct
  <2>1. j \in 2..(n + 1) /\ j - 1 \in 1..n /\ p[j] = q[j - 1]
    BY <1>1, <1>2
  <2>2. CASE i = 1
    BY <1>1, <1>2, <2>1, <2>2
  <2>3. CASE i # 1
    <3>1. i - 1 \in 1..n /\ p[i] = q[i - 1]
      BY <1>1, <1>2, <2>3
    <3> QED BY <2>1, <3>1 DEF Distinct
  <2> QED BY <2>2, <2>3
<1>7. Chain(p, e, IF n = 0 THEN e ELSE l, nx2, pv2)
  BY <1>2, <1>3, <1>4, <1>5 DEF Chain
<1> QED BY <1>6, <1>7 DEF p

(* An entry is cut out.                                                    *)
LEMMA Cut ==
  ASSUME NEW q, NEW f, NEW l, NEW nx, NEW pv, Chain(q, f, l, nx, pv), Distinct(q),
         NEW i \in 1..Len(q), NEW nx2, NEW pv2,
         \A a \in Entry \ {q[i]} : nx2[a] = IF a = pv[q[i]] THEN nx[q[i]] ELSE nx[a],
         \A a \in Entry \ {q[i]} : pv2[a] = IF a = nx[q[i]] THEN pv[q[i]] ELSE pv[a]
  PROVE  /\ Distinct(Without(q, i))
         /\ Chain(Without(q, i), IF f = q[i] THEN nx[q[i]] ELSE f,
                                 IF l = q[i] THEN pv[q[i]] ELSE l, nx2, pv2)
<1> DEFINE p == Without(q, i)
           n == Len(q)
<1>1. q \in Seq(Entry) /\ n \in Nat /\ i \in 1..n /\ \A j \in 1..n : q[j] \in Entry /\ q[j] # NULL
  BY Addresses DEF Chain
<1>2. /\ p \in Seq(Entry) /\ Len(p) = n - 1
      /\ \A k \in 1..(n - 1) : p[k] = q[Old(i, k)]
  BY <1>1, WithoutEffect
<1>3. /\ \A k \in 1..(n - 1) : Old(i, k) \in 1..n /\ Old(i, k) # i
      /\ \A j, k \in 1..(n - 1) : Old(i, j) = Old(i, k) => j = k
  BY <1>1, OldPlaces
<1>4. \A j, k \in 1..n : q[j] = q[k] => j = k
  BY DEF Distinct
<1>5. /\ f = q[1] /\ l = q[n] /\ (f = q[i] <=> i = 1) /\ (l = q[i] <=> i = n)
      /\ nx[q[i]] = IF i = n THEN NULL ELSE q[i + 1]
      /\ pv[q[i]] = IF i = 1 THEN NULL ELSE q[i - 1]
      /\ \A j \in 1..n : nx[q[j]] = IF j = n THEN NULL ELSE q[j + 1]
      /\ \A j \in 1..n : pv[q[j]] = IF j = 1 THEN NULL ELSE q[j - 1]
  BY <1>1, <1>4 DEF Chain
<1> HIDE DEF p, n
<1>6. Distinct(p)
  <2>1. ASSUME NEW j \in 1..(n - 1), NEW k \in 1..(n - 1), p[j] = p[k] PROVE j = k
    <3>1. q[Old(i, j)] = q[Old(i, k)] /\ Old(i, j) \in 1..n /\ Old(i, k) \in 1..n
      BY <1>2, <1>3, <2>1
    <3>2. Old(i, j) = Old(i, k)
      BY <1>4, <3>1
    <3> QED BY <1>3, <3>2
  <2> QED BY <1>2, <2>1 DEF Distinct
<1>7. (IF f = q[i] THEN nx[q[i]] ELSE f) = IF n - 1 = 0 THEN NULL ELSE p[1]
  <2>1. CASE n = 1
    BY <1>1, <1>5, <2>1
  <2>2. CASE n # 1
    <3>1. p[1] = IF 1 < i THEN q[1] ELSE q[2]
      BY <1>1, <1>2, <2>2 DEF Old
    <3> QED BY <1>1, <1>5, <2>2, <3>1
  <2> QED BY <2>1, <2>2
<1>8. (IF l = q[i] THEN pv[q[i]] ELSE l) = IF n - 1 = 0 THEN NULL ELSE p[n - 1]
  <2>1. CASE n = 1
    BY <1>1, <1>5, <2>1
  <2>2. CASE n # 1
    <3>1. p[n - 1] = IF n - 1 < i THEN q[n - 1] ELSE q[n]
      BY <1>1, <1>2, <2>2 DEF Old
    <3> QED BY <1>1, <1>5, <2>2, <3>1
  <2> QED BY <2>1, <2>2
<1>9. ASSUME NEW k \in 1..(n - 1) PROVE nx2[p[k]] = IF k = n - 1 THEN NULL ELSE p[k + 1]
  <2>1. p[k] = q[Old(i, k)] /\ Old(i, k) \in 1..n /\ q[Old(i, k)] \in Entry \ {q[i]}
    BY <1>1, <1>2, <1>3, <1>4
  <2>2. k # n - 1 => p[k + 1] = q[Old(i, k + 1)]
    BY <1>1, <1>2
  <2>3. CASE k = i - 1
    <3>1. Old(i, k) = i - 1 /\ Old(i, k + 1) = i + 1 /\ i # 1
      BY <1>1, <2>3 DEF Old
    <3>2. nx2[p[k]] = nx[q[i]]
      <4>1. p[k] = pv[q[i]] /\ p[k] \in Entry \ {q[i]}
        BY <1>5, <2>1, <3>1
      <4> QED BY <4>1
    <3> QED BY <1>1, <1>5, <2>2, <2>3, <3>1, <3>2
  <2>4. CASE k # i - 1
    <3>1. /\ i # 1 => i - 1 \in 1..n /\ i - 1 # Old(i, k)
          /\ Old(i, k) = n <=> k = n - 1
          /\ k # n - 1 => Old(i, k + 1) = Old(i, k) + 1
      BY <1>1, <2>4 DEF Old
    <3>2. q[Old(i, k)] # pv[q[i]]
      <4>1. CASE i = 1
        BY <1>1, <1>5, <2>1, <4>1
      <4>2. CASE i # 1
        <5>1. pv[q[i]] = q[i - 1] /\ i - 1 \in 1..n /\ i - 1 # Old(i, k)
          BY <1>5, <3>1, <4>2
        <5> QED BY <1>4, <2>1, <5>1
      <4> QED BY <4>1, <4>2
    <3>3. nx2[p[k]] = nx[q[Old(i, k)]]
      BY <2>1, <3>2
    <3> QED BY <1>5, <2>1, <2>2, <3>1, <3>3
  <2> QED BY <2>3, <2>4
<1>10. ASSUME NEW k \in 1..(n - 1) PROVE pv2[p[k]] = IF k = 1 THEN NULL ELSE p[k - 1]
  <2>1. p[k] = q[Old(i, k)] /\ Old(i, k) \in 1..n /\ q[Old(i, k)] \in Entry \ {q[i]}
    BY <1>1, <1>2, <1>3, <1>4
  <2>2. k # 1 => p[k - 1] = q[Old(i, k - 1)]
    BY <1>1, <1>2
  <2>3. CASE k = i
    <3>1. Old(i, k) = i + 1 /\ Old(i, k - 1) = i - 1 /\ i # n
      BY <1>1, <2>3 DEF Old
    <3>2. pv2[p[k]] = pv[q[i]]
      <4>1. p[k] = nx[q[i]] /\ p[k] \in Entry \ {q[i]}
        BY <1>5, <2>1, <3>1
      <4> QED BY <4>1
    <3> QED BY <1>1, <1>5, <2>2, <2>3, <3>1, <3>2
  <2>4. CASE k # i
    <3>1. /\ i # n => i + 1 \in 1..n /\ i + 1 # Old(i, k)
          /\ Old(i, k) = 1 <=> k = 1
          /\ k # 1 => Old(i, k - 1) = Old(i, k) - 1
      BY <1>1, <2>4 DEF Old
    <3>2. q[Old(i, k)] # nx[q[i]]
      <4>1. CASE i = n
        BY <1>1, <1>5, <2>1, <4>1
      <4>2. CASE i # n
        <5>1. nx[q[i]] = q[i + 1] /\ i + 1 \in 1..n /\ i + 1 # Old(i, k)
          BY <1>5, <3>1, <4>2
        <5> QED BY <1>4, <2>1, <5>1
      <4> QED BY <4>1, <4>2
    <3>3. pv2[p[k]] = pv[q[Old(i, k)]]
      BY <2>1, <3>2
    <3> QED BY <1>5, <2>1, <2>2, <3>1, <3>3
  <2> QED BY <2>3, <2>4
<1>11. Chain(p, IF f = q[i] THEN nx[q[i]] ELSE f, IF l = q[i] THEN pv[q[i]] ELSE l, nx2, pv2)
  BY <1>2, <1>7, <1>8, <1>9, <1>10 DEF Chain
<1> QED BY <1>6, <1>11 DEF p

-----------------------------------------------------------------------------
(* Walk and find_in_chain                                                  *)

(* The entries in use are those of q, and have different keys.             *)
Keyed(q, ky) ==
  /\ \A i, j \in 1..Len(q) : ky[q[i]] = ky[q[j]] => i = j
  /\ \A e \in Entry : ky[e] # NULL <=> Has(q, e)

(* The bucket is the sequence q of entries.                                *)
Linked(q) == Chain(q, first, last, next, prev) /\ Len(q) = len /\ Keyed(q, key)

(* What one knows of it.                                                   *)
LEMMA LinkedFacts ==
  ASSUME NEW q, Linked(q)
  PROVE  /\ q \in Seq(Entry) /\ len \in Nat /\ Len(q) = len /\ Distinct(q)
         /\ \A i \in 1..len : q[i] \in Entry /\ q[i] # NULL /\ key[q[i]] # NULL
<1>1. q \in Seq(Entry) /\ len \in Nat /\ Len(q) = len
  BY DEF Linked, Chain
<1>2. \A i \in 1..len : q[i] \in Entry /\ q[i] # NULL
  BY <1>1, Addresses
<1>3. Distinct(q)
  BY DEF Linked, Keyed, Distinct
<1>4. \A i \in 1..len : key[q[i]] # NULL
  BY <1>1, <1>2 DEF Linked, Keyed, Has
<1> QED BY <1>1, <1>2, <1>3, <1>4

(* It is not longer than there are entries, and len counts those in use.   *)
LEMMA LenCounts ==
  ASSUME NEW q, Linked(q)
  PROVE  /\ Cardinality(Entry) \in Nat /\ len <= Cardinality(Entry)
         /\ len = Cardinality({e \in Entry : key[e] # NULL})
<1> DEFINE U == {e \in Entry : key[e] # NULL}
           D == 1..len
<1>1. /\ q \in Seq(Entry) /\ len \in Nat /\ Len(q) = len
      /\ \A i, j \in D : q[i] = q[j] => i = j
      /\ \A i \in D : q[i] \in U
  BY LinkedFacts DEF Distinct
<1>2. \A e \in U : \E i \in D : q[i] = e
  BY <1>1 DEF Linked, Keyed, Has
<1>3. q \in [D -> U]
  BY <1>1
<1>4. IsFiniteSet(D) /\ Cardinality(D) = len
  <2>1. IsFiniteSet(1..len) /\ Cardinality(1..len) = IF 1 > len THEN 0 ELSE len - 1 + 1
    BY <1>1, FS_Interval
  <2> QED BY <1>1, <2>1
<1>5. IsFiniteSet(Entry) /\ Cardinality(Entry) \in Nat
  BY Addresses, FS_CardinalityType
<1> HIDE DEF D
<1>6. ExistsBijection(D, U)
  <2>1. q \in Injection(D, U)
    BY <1>1, <1>3 DEF Injection, IsInjective
  <2>2. q \in Surjection(D, U)
    BY <1>2, <1>3 DEF Surjection
  <2> QED BY <2>1, <2>2 DEF Bijection, ExistsBijection
<1>7. IsFiniteSet(U) /\ Cardinality(U) = len
  BY <1>4, <1>6, FS_Bijection
<1>8. Cardinality(U) <= Cardinality(Entry)
  BY <1>5, FS_Subset
<1> QED BY <1>5, <1>7, <1>8

(* One step of the walk.                                                   *)
Pace(f, i) == IF i = 1 THEN first ELSE IF f[i - 1] = NULL THEN NULL ELSE next[f[i - 1]]

(* The walk is defined if anything walks like that.                        *)
LEMMA WalkPaces ==
  ASSUME NEW f, f = [i \in 1..Cardinality(Entry) |-> Pace(f, i)]
  PROVE  Walk = [i \in 1..Cardinality(Entry) |-> Pace(Walk, i)]
<1> DEFINE P(g) == g = [i \in 1..Cardinality(Entry) |-> Pace(g, i)]
<1>1. Walk = CHOOSE g : P(g)
  BY Zenon DEF Walk, Pace
<1>2. P(f)
  BY Zenon
<1> HIDE DEF P
<1>3. P(CHOOSE g : P(g))
  BY <1>2, Zenon
<1>4. P(Walk)
  BY <1>1, <1>3, Zenon
<1> QED BY <1>4, Zenon DEF P

(* The walk visits the sequence, and then NULL.                            *)
LEMMA WalkIs ==
  ASSUME NEW q, Linked(q)
  PROVE  /\ DOMAIN Walk = 1..Cardinality(Entry)
         /\ \A i \in 1..Cardinality(Entry) : Walk[i] = IF i <= len THEN q[i] ELSE NULL
<1> DEFINE N == Cardinality(Entry)
           w == [i \in 1..N |-> IF i <= len THEN q[i] ELSE NULL]
<1>1. N \in Nat /\ len \in Nat /\ len <= N /\ Len(q) = len
  BY LenCounts, LinkedFacts
<1>2. \A i \in 1..len : q[i] # NULL
  BY LinkedFacts
<1>3. /\ first = IF len = 0 THEN NULL ELSE q[1]
      /\ \A i \in 1..len : next[q[i]] = IF i = len THEN NULL ELSE q[i + 1]
  BY <1>1 DEF Linked, Chain
<1> HIDE DEF N
<1>4. ASSUME NEW i \in 1..N PROVE w[i] = Pace(w, i)
  <2>1. CASE i = 1
    BY <1>1, <1>3, <2>1 DEF Pace
  <2>2. CASE i # 1
    <3>1. i - 1 \in 1..N /\ w[i - 1] = IF i - 1 <= len THEN q[i - 1] ELSE NULL
      BY <1>1, <2>2
    <3>2. CASE i - 1 <= len
      <4>1. i - 1 \in 1..len /\ w[i - 1] = q[i - 1] /\ w[i - 1] # NULL
        BY <1>1, <1>2, <2>2, <3>1, <3>2
      <4>2. next[w[i - 1]] = IF i - 1 = len THEN NULL ELSE q[i]
        BY <1>3, <4>1
      <4>3. i - 1 = len <=> ~(i <= len)
        BY <1>1, <3>2
      <4> QED BY <2>2, <4>1, <4>2, <4>3 DEF Pace
    <3>3. CASE ~(i - 1 <= len)
      <4>1. ~(i <= len)
        BY <1>1, <3>3
      <4> QED BY <2>2, <3>1, <3>3, <4>1 DEF Pace
    <3> QED BY <3>2, <3>3
  <2> QED BY <2>1, <2>2
<1>5. w = [i \in 1..N |-> Pace(w, i)]
  BY <1>4
<1>6. Walk = [i \in 1..N |-> Pace(Walk, i)]
  BY <1>5, WalkPaces, Zenon DEF N
<1>7. \A i \in 1..N : w[i] = IF i <= len THEN q[i] ELSE NULL
  OBVIOUS
<1> HIDE DEF w
<1> DEFINE Bad == {i \in 1..N : Walk[i] # w[i]}
<1>8. Bad = {}
  <2> SUFFICES ASSUME Bad # {} PROVE FALSE
    OBVIOUS
  <2>1. Bad \in SUBSET Nat
    BY <1>1
  <2>2. PICK b \in Bad : \A y \in Bad : b <= y
    BY <2>1, Least
  <2>3. b \in 1..N /\ Walk[b] # w[b] /\ Walk[b] = Pace(Walk, b) /\ w[b] = Pace(w, b)
    BY <1>4, <1>6
  <2>4. CASE b = 1
    BY <2>3, <2>4 DEF Pace
  <2>5. CASE b # 1
    <3>1. b - 1 \in 1..N /\ ~(b <= b - 1)
      BY <1>1, <2>3, <2>5
    <3>2. Walk[b - 1] = w[b - 1]
      BY <2>2, <3>1
    <3> QED BY <2>3, <3>2 DEF Pace
  <2> QED BY <2>4, <2>5
<1>9. DOMAIN Walk = 1..N
  BY <1>6
<1> QED BY <1>7, <1>8, <1>9 DEF N

(* The search finds the one entry with the key, or there is none.          *)
LEMMA FindIs ==
  ASSUME NEW q, Linked(q), NEW k
  PROVE  \/ find_in_chain(k) = NULL /\ \A i \in 1..len : key[q[i]] # k
         \/ \E i \in 1..len : find_in_chain(k) = q[i] /\ key[q[i]] = k
<1> DEFINE N == Cardinality(Entry)
           hits == {i \in DOMAIN Walk : Walk[i] # NULL /\ key[Walk[i]] = k}
<1>1. N \in Nat /\ len \in Nat /\ len <= N /\ \A i \in 1..len : q[i] # NULL
  BY LenCounts, LinkedFacts
<1>2. DOMAIN Walk = 1..N /\ \A i \in 1..N : Walk[i] = IF i <= len THEN q[i] ELSE NULL
  BY WalkIs
<1>3. \A i, j \in 1..len : key[q[i]] = key[q[j]] => i = j
  BY LinkedFacts DEF Linked, Keyed
<1>4. find_in_chain(k) = IF hits = {} THEN NULL ELSE Walk[Min(hits)]
  BY Zenon DEF find_in_chain
<1> HIDE DEF N
<1>5. hits = {i \in 1..len : key[q[i]] = k}
  <2>1. \A i \in 1..N : Walk[i] # NULL <=> i \in 1..len
    BY <1>1, <1>2
  <2>2. \A i \in 1..len : i \in 1..N /\ Walk[i] = q[i]
    BY <1>1, <1>2
  <2> QED BY <1>2, <2>1, <2>2
<1>6. CASE hits = {}
  BY <1>4, <1>5, <1>6
<1>7. CASE hits # {}
  <2>1. PICK i \in 1..len : key[q[i]] = k
    BY <1>5, <1>7
  <2>2. hits = {i}
    BY <1>3, <1>5, <2>1
  <2>3. Min(hits) = i
    <3>1. i \in Nat
      BY <1>1
    <3> QED BY <2>2, <3>1 DEF Min
  <2>4. find_in_chain(k) = q[i]
    BY <1>1, <1>2, <1>4, <1>7, <2>3
  <2> QED BY <2>1, <2>4
<1> QED BY <1>6, <1>7

-----------------------------------------------------------------------------
(* The keys of the chain                                                   *)

(* Without one of its elements a sequence has the others.                  *)
LEMMA WithoutHas ==
  ASSUME NEW S, NEW q \in Seq(S), NEW i \in 1..Len(q), Distinct(q), NEW v
  PROVE  Has(Without(q, i), v) <=> Has(q, v) /\ v # q[i]
<1> DEFINE p == Without(q, i)
           n == Len(q)
<1>1. n \in Nat /\ i \in 1..n /\ Len(p) = n - 1 /\ \A k \in 1..(n - 1) : p[k] = q[Old(i, k)]
  BY WithoutEffect
<1>2. /\ \A k \in 1..(n - 1) : Old(i, k) \in 1..n /\ Old(i, k) # i
      /\ \A j \in 1..n : j # i => \E k \in 1..(n - 1) : Old(i, k) = j
  BY <1>1, OldPlaces
<1>3. \A j, k \in 1..n : q[j] = q[k] => j = k
  BY DEF Distinct
<1> HIDE DEF p, n
<1>4. Has(p, v) => \E j \in 1..n : q[j] = v /\ v # q[i]
  BY <1>1, <1>2, <1>3 DEF Has
<1>5. ASSUME NEW j \in 1..n, q[j] = v, v # q[i] PROVE Has(p, v)
  <2>1. PICK k \in 1..(n - 1) : Old(i, k) = j
    BY <1>2, <1>5
  <2> QED BY <1>1, <1>5, <2>1 DEF Has
<1> QED BY <1>4, <1>5 DEF Has, p, n

(* A key is taken out with its entry.                                      *)
LEMMA CutKeys ==
  ASSUME NEW q \in Seq(Entry), NEW ky, Keyed(q, ky), NEW i \in 1..Len(q), NEW ky2,
         ky2[q[i]] = NULL, \A a \in Entry \ {q[i]} : ky2[a] = ky[a]
  PROVE  Keyed(Without(q, i), ky2)
<1> DEFINE p == Without(q, i)
           n == Len(q)
<1>1. /\ n \in Nat /\ i \in 1..n /\ Len(p) = n - 1
      /\ \A k \in 1..(n - 1) : p[k] = q[Old(i, k)]
  BY WithoutEffect
<1>2. /\ \A k \in 1..(n - 1) : Old(i, k) \in 1..n /\ Old(i, k) # i
      /\ \A j, k \in 1..(n - 1) : Old(i, j) = Old(i, k) => j = k
  BY <1>1, OldPlaces
<1>3. Distinct(q)
  BY DEF Keyed, Distinct
<1>4. \A v : Has(p, v) <=> Has(q, v) /\ v # q[i]
  BY <1>3, WithoutHas
<1>5. \A j, k \in 1..n : (q[j] = q[k] \/ ky[q[j]] = ky[q[k]]) => j = k
  BY DEF Keyed
<1> HIDE DEF p, n
<1>6. \A k \in 1..(n - 1) : p[k] \in Entry \ {q[i]}
  <2>1. \A j \in 1..n : q[j] \in Entry
    BY DEF n
  <2>2. ASSUME NEW k \in 1..(n - 1) PROVE p[k] \in Entry \ {q[i]}
    <3>1. p[k] = q[Old(i, k)] /\ Old(i, k) \in 1..n /\ Old(i, k) # i
      BY <1>1, <1>2
    <3> QED BY <1>1, <1>5, <2>1, <3>1
  <2> QED BY <2>2
<1>7. ASSUME NEW j \in 1..(n - 1), NEW k \in 1..(n - 1), ky2[p[j]] = ky2[p[k]] PROVE j = k
  <2>1. ky[q[Old(i, j)]] = ky[q[Old(i, k)]]
    BY <1>1, <1>6, <1>7
  <2> QED BY <1>2, <1>5, <2>1
<1>8. ASSUME NEW e \in Entry PROVE ky2[e] # NULL <=> Has(p, e)
  BY <1>4 DEF Keyed
<1> QED BY <1>1, <1>7, <1>8 DEF Keyed, p

(* The key of e, which is in use no more or not yet, is new to q.          *)
KeyComes(q, e, ky, ky2) ==
  /\ Keyed(q, ky) /\ ky[e] = NULL /\ ky2[e] # NULL
  /\ \A i \in 1..Len(q) : ky[q[i]] # ky2[e]
  /\ \A a \in Entry \ {e} : ky2[a] = ky[a]

(* A new key comes with its entry.                                         *)
LEMMA PutKeys ==
  ASSUME NEW q \in Seq(Entry), NEW e \in Entry, NEW ky, NEW ky2, KeyComes(q, e, ky, ky2)
  PROVE  Keyed(Front1(e, q), ky2) /\ ~Has(q, e)
<1> USE DEF KeyComes
<1> DEFINE p == Front1(e, q)
           n == Len(q)
<1>1. /\ n \in Nat /\ Len(p) = n + 1 /\ p[1] = e
      /\ \A j \in 1..n : p[j + 1] = q[j]
      /\ \A j \in 2..(n + 1) : j - 1 \in 1..n /\ p[j] = q[j - 1]
  BY DEF Front1
<1>2. ~Has(q, e)
  BY DEF Keyed
<1>3. \A j \in 1..n : q[j] \in Entry \ {e}
  BY <1>2 DEF Has
<1> HIDE DEF p
<1>4. \A v : Has(p, v) <=> v = e \/ Has(q, v)
  <2>1. ASSUME NEW v, Has(p, v) PROVE v = e \/ Has(q, v)
    <3>1. PICK j \in 1..Len(p) : p[j] = v
      BY <2>1 DEF Has
    <3>2. CASE j = 1
      BY <1>1, <3>1, <3>2
    <3>3. CASE j # 1
      <4>1. j - 1 \in 1..n /\ q[j - 1] = v
        BY <1>1, <3>1, <3>3
      <4> QED BY <4>1 DEF Has
    <3> QED BY <3>2, <3>3
  <2>2. ASSUME NEW v, Has(q, v) PROVE Has(p, v)
    <3>1. PICK j \in 1..n : q[j] = v
      BY <2>2 DEF Has
    <3>2. j + 1 \in 1..Len(p) /\ p[j + 1] = v
      BY <1>1, <3>1
    <3> QED BY <3>2 DEF Has
  <2>3. Has(p, e)
    BY <1>1 DEF Has
  <2> QED BY <2>1, <2>2, <2>3
<1>5. \A j \in 1..n : ky2[q[j]] = ky[q[j]] /\ ky2[q[j]] # ky2[e]
  BY <1>3
<1>6. ASSUME NEW i \in 1..Len(p), NEW j \in 1..Len(p), ky2[p[i]] = ky2[p[j]], i < j PROVE FALSE
  <2>1. j \in 2..(n + 1) /\ j - 1 \in 1..n /\ p[j] = q[j - 1]
    BY <1>1, <1>6
  <2>2. CASE i = 1
    BY <1>1, <1>5, <1>6, <2>1, <2>2
  <2>3. CASE i # 1
    <3>1. i - 1 \in 1..n /\ p[i] = q[i - 1]
      BY <1>1, <2>3
    <3>2. ky[q[i - 1]] = ky[q[j - 1]]
      BY <1>5, <1>6, <2>1, <3>1
    <3>3. i - 1 = j - 1
      BY <2>1, <3>1, <3>2 DEF Keyed
    <3> QED BY <1>1, <1>6, <3>3
  <2> QED BY <2>2, <2>3
<1>7. \A i, j \in 1..Len(p) : ky2[p[i]] = ky2[p[j]] => i = j
  <2>1. ASSUME NEW i \in 1..Len(p), NEW j \in 1..Len(p), ky2[p[i]] = ky2[p[j]] PROVE i = j
    <3>1. ~(i < j) /\ ~(j < i)
      BY <1>6, <2>1
    <3> QED BY <3>1
  <2> QED BY <2>1
<1>8. ASSUME NEW a \in Entry PROVE ky2[a] # NULL <=> Has(p, a)
  BY <1>4 DEF Keyed
<1> QED BY <1>2, <1>7, <1>8 DEF Keyed, p

-----------------------------------------------------------------------------
(* The operations                                                          *)

(* An entry leaves the chain (cache_del, and cache_get when its time is    *)
(* over).                                                                  *)
LEMMA UnlinkStep ==
  ASSUME TypeOK, NEW q, Linked(q), NEW i \in 1..len, Unlink(q[i])
  PROVE  Linked(Without(q, i))'
<1> DEFINE e == q[i]
           p == Without(q, i)
<1>1. /\ q \in Seq(Entry) /\ len \in Nat /\ Len(q) = len /\ Distinct(q) /\ i \in 1..Len(q)
      /\ e \in Entry /\ Chain(q, first, last, next, prev) /\ Keyed(q, key)
  BY LinkedFacts DEF Linked
<1>2. /\ first' = IF first = e THEN next[e] ELSE first
      /\ last' = IF last = e THEN prev[e] ELSE last
      /\ key' = [key EXCEPT ![e] = NULL] /\ len' = len - 1
      /\ \A a \in Entry \ {e} : next'[a] = IF a = prev[e] THEN next[e] ELSE next[a]
      /\ \A a \in Entry \ {e} : prev'[a] = IF a = next[e] THEN prev[e] ELSE prev[a]
  BY DEF Unlink
<1>3. Chain(p, first', last', next', prev')
  BY <1>1, <1>2, Cut
<1>4. key'[e] = NULL /\ \A a \in Entry \ {e} : key'[a] = key[a]
  BY <1>1, <1>2 DEF TypeOK
<1>5. Keyed(p, key')
  BY <1>1, <1>4, CutKeys
<1>6. Len(p) = len'
  BY <1>1, <1>2, WithoutEffect
<1> QED BY <1>3, <1>5, <1>6 DEF Linked

(* A new entry goes in front, and the last one of a full chain goes        *)
(* (cache_set).                                                            *)
LEMMA NewStep ==
  ASSUME TypeOK, NEW q, Linked(q), NEW new \in Entry, NEW k \in Key, NEW v, NEW x,
         set_new(new, k, v, x), NEW n, n = len
  PROVE  /\ \A i \in 1..n : key[q[i]] # k
         /\ Linked(Front1(new, IF n <= CHAINLEN THEN q ELSE Without(q, n)))'
<1>1. /\ q \in Seq(Entry) /\ len \in Nat /\ Len(q) = len /\ Distinct(q)
      /\ Chain(q, first, last, next, prev) /\ Keyed(q, key)
      /\ \A i \in 1..len : q[i] \in Entry /\ q[i] # NULL /\ key[q[i]] # NULL
  BY LinkedFacts DEF Linked
<1>2. \A i \in 1..len : key[q[i]] # k
  BY <1>1, FindIs DEF set_new
<1>3. key[new] = NULL /\ k # NULL /\ new # NULL /\ CHAINLEN \in Nat /\ CHAINLEN >= 1
  BY Addresses, LenAssumption DEF set_new, Free
<1>4. \A i \in 1..len : q[i] # new
  BY <1>1, <1>3
<1>5. CASE len <= CHAINLEN
  <2>1. PutFirst(new, k, v, x, NULL) /\ last' = (IF len = 0 THEN new ELSE last) /\ len' = len + 1
    BY <1>5 DEF set_new
  <2>2. /\ next'[new] = first /\ \A a \in Entry \ {new} : next'[a] = next[a]
        /\ prev'[new] = NULL /\ \A a \in Entry \ {new} : prev'[a] = IF a = first THEN new ELSE prev[a]
        /\ key'[new] = k /\ \A a \in Entry \ {new} : key'[a] = key[a]
        /\ first' = new
    BY <2>1, Addresses DEF PutFirst
  <2>3. Keyed(Front1(new, q), key') /\ ~Has(q, new)
    <3>1. \A i \in 1..Len(q) : key[q[i]] # k
      BY <1>1, <1>2
    <3>2. q \in Seq(Entry) /\ Keyed(q, key) /\ key[new] = NULL /\ k # NULL
      BY <1>1, <1>3
    <3>3. key'[new] = k /\ \A a \in Entry \ {new} : key'[a] = key[a]
      BY <2>2
    <3>4. KeyComes(q, new, key, key')
      BY <3>1, <3>2, <3>3 DEF KeyComes
    <3> QED BY <3>2, <3>4, PutKeys
  <2>4. Chain(Front1(new, q), new, IF Len(q) = 0 THEN new ELSE last, next', prev')
    BY <1>1, <2>2, <2>3, Put
  <2>5. Len(Front1(new, q)) = len'
    BY <1>1, <2>1, Front1Effect
  <2>6. Linked(Front1(new, q))'
    BY <1>1, <2>1, <2>2, <2>3, <2>4, <2>5 DEF Linked
  <2> QED BY <1>2, <1>5, <2>6
<1>6. CASE ~(len <= CHAINLEN)
  <2> DEFINE gone == last
             p == Without(q, n)
             nx == [a \in Entry |-> IF a = prev[gone] THEN next[gone] ELSE next[a]]
             pv == [a \in Entry |-> IF a = gone THEN NULL ELSE prev[a]]
             ky == [key EXCEPT ![gone] = NULL]
  <2>1. PutFirst(new, k, v, x, gone) /\ last' = prev[gone] /\ len' = len
    BY <1>6 DEF set_new
  <2>2. /\ len >= 2 /\ len \in 1..Len(q) /\ gone = q[len] /\ gone \in Entry /\ gone # new
        /\ next[gone] = NULL /\ prev[gone] = q[len - 1] /\ first = q[1] /\ first # gone
    <3>1. len >= 2
      BY <1>1, <1>3, <1>6
    <3> QED BY <1>1, <1>4, <3>1 DEF Chain, Distinct
  <2>3. /\ next'[new] = first /\ \A a \in Entry \ {new} : next'[a] = nx[a]
        /\ prev'[new] = NULL /\ \A a \in Entry \ {new} : prev'[a] = IF a = first THEN new ELSE pv[a]
        /\ key'[new] = k /\ \A a \in Entry \ {new} : key'[a] = ky[a]
        /\ first' = new
    BY <2>1, <2>2, Addresses DEF PutFirst, TypeOK
  <2>4. /\ \A a \in Entry \ {gone} : nx[a] = IF a = prev[gone] THEN next[gone] ELSE next[a]
        /\ \A a \in Entry \ {gone} : pv[a] = IF a = next[gone] THEN prev[gone] ELSE prev[a]
        /\ ky[gone] = NULL /\ \A a \in Entry \ {gone} : ky[a] = key[a]
    BY <2>2, Addresses DEF TypeOK
  <2> HIDE DEF p, nx, pv, ky
  <2>5. Distinct(p) /\ Chain(p, first, prev[gone], nx, pv)
    BY <1>1, <2>2, <2>4, Cut DEF p
  <2>6. Keyed(p, ky)
    BY <1>1, <2>2, <2>4, CutKeys DEF p
  <2>7. /\ p \in Seq(Entry) /\ Len(p) = len - 1 /\ \A i \in 1..(len - 1) : p[i] = q[i]
    <3>1. /\ p \in Seq(Entry) /\ Len(p) = Len(q) - 1
          /\ \A i \in 1..(Len(q) - 1) : p[i] = q[Old(n, i)]
      BY <1>1, <2>2, WithoutEffect DEF p
    <3>2. \A i \in 1..(len - 1) : Old(n, i) = i
      BY <1>1 DEF Old
    <3> QED BY <1>1, <3>1, <3>2
  <2>8. \A i \in 1..Len(p) : ky[p[i]] # k
    <3> SUFFICES ASSUME NEW i \in 1..(len - 1) PROVE ky[p[i]] # k
      BY <2>7
    <3>1. i \in 1..len /\ i # len /\ p[i] = q[i]
      BY <1>1, <2>7
    <3>2. q[i] # gone
      BY <1>1, <2>2, <3>1 DEF Distinct
    <3> QED BY <1>1, <1>2, <2>4, <3>1, <3>2
  <2>9. ky[new] = NULL
    BY <1>3, <2>2, <2>4
  <2>10. Keyed(Front1(new, p), key') /\ ~Has(p, new)
    <3>1. p \in Seq(Entry) /\ k # NULL
      BY <1>3, <2>7
    <3>2. key'[new] = k /\ \A a \in Entry \ {new} : key'[a] = ky[a]
      BY <2>3
    <3>3. KeyComes(p, new, ky, key')
      BY <2>6, <2>8, <2>9, <3>1, <3>2 DEF KeyComes
    <3> QED BY <3>1, <3>3, PutKeys
  <2>11. Chain(Front1(new, p), new, IF Len(p) = 0 THEN new ELSE prev[gone], next', prev')
    BY <2>3, <2>5, <2>10, Put
  <2>12. Len(Front1(new, p)) = len' /\ Len(p) # 0
    <3>1. Len(Front1(new, p)) = Len(p) + 1
      BY <2>7, Front1Effect
    <3> QED BY <1>1, <2>1, <2>2, <2>7, <3>1
  <2>13. Linked(Front1(new, p))'
    BY <2>1, <2>3, <2>10, <2>11, <2>12 DEF Linked, p
  <2> QED BY <1>2, <1>6, <2>13 DEF p
<1> QED BY <1>5, <1>6

(* The entry of a known key is promoted to the front (cache_set).          *)
LEMMA KnownStep ==
  ASSUME TypeOK, NEW q, Linked(q), NEW k, NEW v, NEW i \in 1..len,
         find_in_chain(k) = q[i], set_known(k, v)
  PROVE  Linked(IF i = 1 THEN q ELSE Front1(q[i], Without(q, i)))'
<1> DEFINE e == q[i]
<1>1. /\ q \in Seq(Entry) /\ len \in Nat /\ Len(q) = len /\ Distinct(q) /\ i \in 1..Len(q)
      /\ e \in Entry /\ key[e] # NULL /\ Chain(q, first, last, next, prev) /\ Keyed(q, key)
      /\ \A j \in 1..len : q[j] \in Entry
  BY LinkedFacts DEF Linked
<1>2. first = q[1]
  BY <1>1 DEF Chain
<1>3. len' = len /\ key' = key
  BY DEF set_known
<1>4. CASE i = 1
  <2>1. UNCHANGED <<first, last, next, prev>>
    BY <1>2, <1>4 DEF set_known
  <2> QED BY <1>1, <1>3, <1>4, <2>1 DEF Linked
<1>5. CASE i # 1
  <2> DEFINE p == Without(q, i)
             nx == [a \in Entry |-> IF a = prev[e] THEN next[e] ELSE next[a]]
             pv == [a \in Entry |-> IF a = next[e] THEN prev[e] ELSE prev[a]]
             ky == [key EXCEPT ![e] = NULL]
  <2>1. first # e
    BY <1>1, <1>2, <1>5 DEF Distinct
  <2>2. /\ last' = IF last = e THEN prev[e] ELSE last
        /\ next' = [next EXCEPT ![prev[e]] = next[e], ![e] = first]
        /\ prev' = [a \in Entry |-> IF a = e THEN NULL ELSE IF a = next[e] THEN prev[e]
                                    ELSE IF a = first THEN e ELSE prev[a]]
        /\ first' = e
    BY <2>1 DEF set_known
  <2>3. next[e] # first
    <3>1. next[e] = IF i = len THEN NULL ELSE q[i + 1]
      BY <1>1 DEF Chain
    <3>2. i # len => i + 1 \in 1..len /\ i + 1 # 1 /\ 1 \in 1..len
      BY <1>1
    <3>3. first # NULL
      BY <1>1, <1>2, Addresses
    <3> QED BY <1>1, <1>2, <3>1, <3>2, <3>3 DEF Distinct
  <2>4. /\ next'[e] = first /\ \A a \in Entry \ {e} : next'[a] = nx[a]
        /\ prev'[e] = NULL /\ \A a \in Entry \ {e} : prev'[a] = IF a = first THEN e ELSE pv[a]
    BY <1>1, <2>2, <2>3 DEF TypeOK
  <2>5. /\ \A a \in Entry \ {e} : nx[a] = IF a = prev[e] THEN next[e] ELSE next[a]
        /\ \A a \in Entry \ {e} : pv[a] = IF a = next[e] THEN prev[e] ELSE prev[a]
        /\ ky[e] = NULL /\ \A a \in Entry \ {e} : ky[a] = key[a]
    BY <1>1 DEF TypeOK
  <2> HIDE DEF p, nx, pv, ky
  <2>6. Distinct(p) /\ Chain(p, first, last', nx, pv)
    BY <1>1, <2>1, <2>2, <2>5, Cut DEF p
  <2>7. Keyed(p, ky)
    BY <1>1, <2>5, CutKeys DEF p
  <2>8. p \in Seq(Entry) /\ Len(p) = len - 1 /\ len # 1
    <3>1. p \in Seq(Entry) /\ Len(p) = Len(q) - 1
      BY <1>1, WithoutEffect DEF p
    <3> QED BY <1>1, <1>5, <3>1
  <2>9. \A j \in 1..Len(p) : ky[p[j]] # key[e]
    <3> SUFFICES ASSUME NEW j \in 1..(len - 1) PROVE ky[p[j]] # key[e]
      BY <2>8
    <3>1. p[j] = q[Old(i, j)] /\ Old(i, j) \in 1..len /\ Old(i, j) # i
      <4>1. \A m \in 1..(Len(q) - 1) : p[m] = q[Old(i, m)]
        BY <1>1, WithoutEffect DEF p
      <4>2. \A m \in 1..(len - 1) : Old(i, m) \in 1..len /\ Old(i, m) # i
        BY <1>1, OldPlaces
      <4> QED BY <1>1, <4>1, <4>2
    <3>2. p[j] \in Entry \ {e} /\ key[p[j]] # key[e]
      BY <1>1, <3>1 DEF Keyed
    <3> QED BY <2>5, <3>2
  <2>10. key'[e] = key[e] /\ \A a \in Entry \ {e} : key'[a] = ky[a]
    BY <1>3, <2>5
  <2>11. Keyed(Front1(e, p), key') /\ ~Has(p, e)
    <3>1. p \in Seq(Entry) /\ key[e] # NULL /\ ky[e] = NULL /\ e \in Entry
      BY <1>1, <2>5, <2>8
    <3> HIDE DEF e
    <3>2. KeyComes(p, e, ky, key')
      BY <2>7, <2>9, <2>10, <3>1 DEF KeyComes
    <3> QED BY <3>1, <3>2, PutKeys
  <2>12. Chain(Front1(e, p), e, IF Len(p) = 0 THEN e ELSE last', next', prev')
    BY <1>1, <2>4, <2>6, <2>11, Put
  <2>13. Len(Front1(e, p)) = len' /\ Len(p) # 0
    BY <1>1, <1>3, <2>8, Front1Effect
  <2>14. Linked(Front1(e, p))'
    BY <2>2, <2>11, <2>12, <2>13 DEF Linked, p
  <2> QED BY <1>5, <2>14 DEF p
<1> QED BY <1>4, <1>5

(* The rest of the bucket may change, and the chain stays.                 *)
LEMMA SameStep ==
  ASSUME NEW q, Linked(q), UNCHANGED <<first, last, len, next, prev, key>>
  PROVE  Linked(q)'
BY DEF Linked

(* The types, one by one.                                                  *)
LEMMA Types ==
  TypeOK <=> /\ first \in Entry \cup {NULL} /\ last \in Entry \cup {NULL}
             /\ len \in 0..(CHAINLEN + 1)
             /\ next \in [Entry -> Entry \cup {NULL}] /\ prev \in [Entry -> Entry \cup {NULL}]
             /\ key \in [Entry -> Key \cup {NULL}]
             /\ val \in [Entry -> Vals \cup {NoVal}]
             /\ expire \in [Entry -> Nat]
             /\ now \in 0..MaxTime
             /\ ret \in [op : {"none", "set", "get", "del", "change", "empty"},
                         rv : {-3, -2, -1, 0, 1}, val : Vals \cup {NoVal}]
BY DEF TypeOK

(* What an operation returns is of the type of ret.                        *)
LEMMA ReturnsType ==
  ASSUME NEW op \in {"none", "set", "get", "del", "change", "empty"},
         NEW rv \in {-3, -2, -1, 0, 1}, NEW v \in Vals \cup {NoVal}, Returns(op, rv, v)
  PROVE  ret' \in [op : {"none", "set", "get", "del", "change", "empty"},
                   rv : {-3, -2, -1, 0, 1}, val : Vals \cup {NoVal}]
BY DEF Returns

(* Every step keeps the types.                                             *)
LEMMA UnlinkType ==
  ASSUME TypeOK, NEW q, Linked(q), NEW i \in 1..len, Unlink(q[i]), UNCHANGED now,
         ret' \in [op : {"none", "set", "get", "del", "change", "empty"},
                   rv : {-3, -2, -1, 0, 1}, val : Vals \cup {NoVal}]
  PROVE  TypeOK'
<1> DEFINE e == q[i]
<1>1. e \in Entry /\ len \in Nat /\ CHAINLEN \in Nat
  BY LinkedFacts, LenAssumption
<1>2. Unlink(e)
  OBVIOUS
<1> HIDE DEF e
<1>3. /\ first' \in Entry \cup {NULL} /\ last' \in Entry \cup {NULL}
      /\ next' \in [Entry -> Entry \cup {NULL}] /\ prev' \in [Entry -> Entry \cup {NULL}]
  BY <1>1, <1>2, Types DEF Unlink
<1>4. /\ key' \in [Entry -> Key \cup {NULL}] /\ val' \in [Entry -> Vals \cup {NoVal}]
      /\ expire' \in [Entry -> Nat]
  <2>1. /\ key \in [Entry -> Key \cup {NULL}] /\ val \in [Entry -> Vals \cup {NoVal}]
        /\ expire \in [Entry -> Nat]
    BY Types
  <2>2. key' = [key EXCEPT ![e] = NULL] /\ val' = [val EXCEPT ![e] = NoVal]
        /\ expire' = [expire EXCEPT ![e] = 0]
    BY <1>2 DEF Unlink
  <2> QED BY <1>1, <2>1, <2>2
<1>5. len' \in 0..(CHAINLEN + 1) /\ now' \in 0..MaxTime
  BY <1>1, <1>2, Types DEF Unlink
<1> QED BY <1>3, <1>4, <1>5 DEF TypeOK

LEMMA NewType ==
  ASSUME TypeOK, NEW q, Linked(q), NEW new \in Entry, NEW k \in Key, NEW v \in Vals, NEW x \in Nat,
         set_new(new, k, v, x)
  PROVE  TypeOK'
<1>1. /\ first \in Entry \cup {NULL} /\ last \in Entry \cup {NULL} /\ len \in 0..(CHAINLEN + 1)
      /\ next \in [Entry -> Entry \cup {NULL}] /\ prev \in [Entry -> Entry \cup {NULL}]
      /\ key \in [Entry -> Key \cup {NULL}] /\ val \in [Entry -> Vals \cup {NoVal}]
      /\ expire \in [Entry -> Nat] /\ now' \in 0..MaxTime /\ CHAINLEN \in Nat /\ CHAINLEN >= 1
  BY Types, LenAssumption DEF set_new
<1>2. PICK gone : PutFirst(new, k, v, x, gone)
  BY DEF set_new
<1>3. /\ first' \in Entry \cup {NULL}
      /\ next' \in [Entry -> Entry \cup {NULL}] /\ prev' \in [Entry -> Entry \cup {NULL}]
  BY <1>1, <1>2 DEF PutFirst
<1>4. /\ key' \in [Entry -> Key \cup {NULL}] /\ val' \in [Entry -> Vals \cup {NoVal}]
      /\ expire' \in [Entry -> Nat]
  BY <1>1, <1>2 DEF PutFirst
<1>5. len' \in 0..(CHAINLEN + 1) /\ last' \in Entry \cup {NULL}
  <2>1. CASE len <= CHAINLEN
    BY <1>1, <2>1 DEF set_new
  <2>2. CASE ~(len <= CHAINLEN)
    <3>1. last = q[len] /\ q[len] \in Entry
      BY <1>1, <2>2, LinkedFacts DEF Linked, Chain
    <3> QED BY <1>1, <2>2, <3>1 DEF set_new
  <2> QED BY <2>1, <2>2
<1>6. ret' \in [op : {"none", "set", "get", "del", "change", "empty"},
                rv : {-3, -2, -1, 0, 1}, val : Vals \cup {NoVal}]
  BY ReturnsType DEF set_new
<1> QED BY <1>1, <1>3, <1>4, <1>5, <1>6 DEF TypeOK

LEMMA KnownType ==
  ASSUME TypeOK, NEW q, Linked(q), NEW k, NEW v \in Vals, NEW i \in 1..len,
         find_in_chain(k) = q[i], set_known(k, v)
  PROVE  TypeOK'
<1> DEFINE e == q[i]
<1>1. /\ first \in Entry \cup {NULL} /\ last \in Entry \cup {NULL} /\ len' \in 0..(CHAINLEN + 1)
      /\ next \in [Entry -> Entry \cup {NULL}] /\ prev \in [Entry -> Entry \cup {NULL}]
      /\ key' \in [Entry -> Key \cup {NULL}] /\ val \in [Entry -> Vals \cup {NoVal}]
      /\ expire' \in [Entry -> Nat] /\ now' \in 0..MaxTime
  BY Types DEF set_known
<1>2. e \in Entry
  BY LinkedFacts
<1>3. ret' \in [op : {"none", "set", "get", "del", "change", "empty"},
                rv : {-3, -2, -1, 0, 1}, val : Vals \cup {NoVal}]
  BY ReturnsType DEF set_known
<1>4. val' \in [Entry -> Vals \cup {NoVal}]
  BY <1>1, <1>2 DEF set_known
<1>5. /\ first' \in Entry \cup {NULL} /\ last' \in Entry \cup {NULL}
      /\ next' \in [Entry -> Entry \cup {NULL}] /\ prev' \in [Entry -> Entry \cup {NULL}]
  <2>1. CASE first = e
    BY <1>1, <2>1 DEF set_known
  <2>2. CASE first # e
    BY <1>1, <1>2, <2>2 DEF set_known
  <2> QED BY <2>1, <2>2
<1> QED BY <1>1, <1>3, <1>4, <1>5 DEF TypeOK

-----------------------------------------------------------------------------
(* The line of CacheSpec                                                   *)

Item == [key : Key \cup {NULL}, val : Vals \cup {NoVal}, expire : Nat]
Items(q, ky, vl, ex) ==
  [i \in 1..Len(q) |-> [key |-> ky[q[i]], val |-> vl[q[i]], expire |-> ex[q[i]]]]

(* The line is made of the entries of the chain.                           *)
LEMMA LineIs ==
  ASSUME NEW q
  PROVE  Linked(q) => Line = Items(q, key, val, expire)
<1> SUFFICES ASSUME Linked(q) PROVE Line = Items(q, key, val, expire)
  OBVIOUS
<1>1. len \in Nat /\ Cardinality(Entry) \in Nat /\ len <= Cardinality(Entry) /\ Len(q) = len
  BY LinkedFacts, LenCounts
<1>2. \A i \in 1..len : i \in 1..Cardinality(Entry) /\ i <= len
  BY <1>1
<1>3. \A i \in 1..len : Walk[i] = q[i]
  BY <1>2, WalkIs
<1> QED BY <1>1, <1>3 DEF Line, Items

(* So it is in the next state.                                             *)
LEMMA LineNext ==
  ASSUME NEW p
  PROVE  Linked(p)' => Line' = Items(p, key', val', expire')
<1>1. Linked(p) => Line = Items(p, key, val, expire)
  BY LineIs
<1>2. (Linked(p) => Line = Items(p, key, val, expire))'
  BY <1>1, PTL
<1> QED BY <1>2

(* A function on an interval is a sequence.                                *)
LEMMA FunctionIsSeq ==
  ASSUME NEW S, NEW n \in Nat, NEW f \in [1..n -> S]
  PROVE  f \in Seq(S) /\ Len(f) = n
OBVIOUS

(* The items of a sequence of entries.                                     *)
LEMMA ItemsAre ==
  ASSUME NEW q \in Seq(Entry), NEW ky \in [Entry -> Key \cup {NULL}],
         NEW vl \in [Entry -> Vals \cup {NoVal}], NEW ex \in [Entry -> Nat]
  PROVE  /\ Items(q, ky, vl, ex) \in Seq(Item) /\ Len(Items(q, ky, vl, ex)) = Len(q)
         /\ \A i \in 1..Len(q) : Items(q, ky, vl, ex)[i] =
              [key |-> ky[q[i]], val |-> vl[q[i]], expire |-> ex[q[i]]]
<1>1. Len(q) \in Nat /\ \A i \in 1..Len(q) : q[i] \in Entry
  OBVIOUS
<1>2. \A i \in 1..Len(q) : [key |-> ky[q[i]], val |-> vl[q[i]], expire |-> ex[q[i]]] \in Item
  BY <1>1 DEF Item
<1>3. Items(q, ky, vl, ex) \in [1..Len(q) -> Item]
  BY <1>2 DEF Items
<1>4. Items(q, ky, vl, ex) \in Seq(Item) /\ Len(Items(q, ky, vl, ex)) = Len(q)
  BY <1>1, <1>3, FunctionIsSeq
<1>5. \A i \in 1..Len(q) : Items(q, ky, vl, ex)[i] =
        [key |-> ky[q[i]], val |-> vl[q[i]], expire |-> ex[q[i]]]
  BY DEF Items
<1> QED BY <1>4, <1>5

(* The place of a key in the line is that of its entry.                    *)
LEMMA PlaceIs ==
  ASSUME TypeOK, NEW q, Linked(q), NEW k
  PROVE  /\ Line \in Seq(Item) /\ Len(Line) = len
         /\ \A i \in 1..len : Line[i] = [key |-> key[q[i]], val |-> val[q[i]], expire |-> expire[q[i]]]
         /\ Abs!Has(k) <=> \E i \in 1..len : key[q[i]] = k
         /\ \A i \in 1..len : key[q[i]] = k => Abs!Place(k) = i
<1>1. q \in Seq(Entry) /\ Len(q) = len /\ len \in Nat /\ \A i, j \in 1..len : key[q[i]] = key[q[j]] => i = j
  BY LinkedFacts DEF Linked, Keyed
<1>2. /\ Line \in Seq(Item) /\ Len(Line) = len
      /\ \A i \in 1..len : Line[i] = [key |-> key[q[i]], val |-> val[q[i]], expire |-> expire[q[i]]]
  <2>1. Line = Items(q, key, val, expire)
    BY LineIs
  <2>2. /\ key \in [Entry -> Key \cup {NULL}] /\ val \in [Entry -> Vals \cup {NoVal}]
        /\ expire \in [Entry -> Nat]
    BY Types
  <2>3. /\ Items(q, key, val, expire) \in Seq(Item) /\ Len(Items(q, key, val, expire)) = Len(q)
        /\ \A i \in 1..Len(q) : Items(q, key, val, expire)[i] =
             [key |-> key[q[i]], val |-> val[q[i]], expire |-> expire[q[i]]]
    BY <1>1, <2>2, ItemsAre
  <2> QED BY <1>1, <2>1, <2>3
<1>3. DOMAIN Line = 1..len /\ \A i \in 1..len : Line[i].key = key[q[i]]
  BY <1>2
<1>4. Abs!Places(k) = {i \in 1..len : key[q[i]] = k}
  BY <1>3 DEF Abs!Places
<1>5. ASSUME NEW i \in 1..len, key[q[i]] = k PROVE Abs!Place(k) = i
  <2>1. Abs!Places(k) = {i}
    BY <1>1, <1>4, <1>5
  <2> QED BY <2>1 DEF Abs!Place
<1>6. Abs!Has(k) <=> \E i \in 1..len : key[q[i]] = k
  BY <1>4 DEF Abs!Has
<1> QED BY <1>2, <1>5, <1>6

(* The same in the next state.                                             *)
LEMMA NextItems ==
  ASSUME NEW p \in Seq(Entry), Linked(p)', key' \in [Entry -> Key \cup {NULL}],
         val' \in [Entry -> Vals \cup {NoVal}], expire' \in [Entry -> Nat], NEW n, n = Len(p)
  PROVE  /\ Line' \in Seq(Item) /\ Len(Line') = n
         /\ \A j \in 1..n : Line'[j] = [key |-> key'[p[j]], val |-> val'[p[j]], expire |-> expire'[p[j]]]
<1>1. Line' = Items(p, key', val', expire')
  BY LineNext
<1>2. /\ Items(p, key', val', expire') \in Seq(Item) /\ Len(Items(p, key', val', expire')) = Len(p)
      /\ \A i \in 1..Len(p) : Items(p, key', val', expire')[i] =
           [key |-> key'[p[i]], val |-> val'[p[i]], expire |-> expire'[p[i]]]
  BY ItemsAre
<1> QED BY <1>1, <1>2

(* Two lines are the same if their items are.                              *)
LEMMA SameLine ==
  ASSUME NEW a \in Seq(Item), NEW b \in Seq(Item), NEW n \in Nat, Len(a) = n, Len(b) = n,
         \A i \in 1..n : a[i] = b[i]
  PROVE  a = b
BY SeqEqual

(* A step keeps the types and the chain, and is one of CacheSpec.          *)
Kept == TypeOK' /\ (\E p : Linked(p)') /\ [Abs!Next]_(Abs!vars)

(* An entry leaves: its key is forgotten.                                  *)
LEMMA Forgets ==
  ASSUME TypeOK, NEW q, Linked(q), NEW k, NEW i \in 1..len, key[q[i]] = k, Unlink(q[i]), TypeOK'
  PROVE  (\E p : Linked(p)') /\ Abs!Forget(k)
<1> DEFINE p == Without(q, i)
<1>1. Linked(p)'
  BY UnlinkStep
<1>2. /\ q \in Seq(Entry) /\ Len(q) = len /\ len \in Nat /\ i \in 1..Len(q) /\ Distinct(q)
      /\ \A j \in 1..len : q[j] \in Entry
  BY LinkedFacts
<1>3. /\ p \in Seq(Entry) /\ Len(p) = len - 1
      /\ \A j \in 1..(len - 1) : p[j] = q[Old(i, j)] /\ Old(i, j) \in 1..len /\ Old(i, j) # i
  <2>1. p \in Seq(Entry) /\ Len(p) = Len(q) - 1 /\ \A j \in 1..(Len(q) - 1) : p[j] = q[Old(i, j)]
    BY <1>2, WithoutEffect
  <2>2. \A j \in 1..(len - 1) : Old(i, j) \in 1..len /\ Old(i, j) # i
    BY <1>2, OldPlaces
  <2> QED BY <1>2, <2>1, <2>2
<1> HIDE DEF p
<1>4. /\ Line \in Seq(Item) /\ Len(Line) = len /\ Abs!Has(k) /\ Abs!Place(k) = i
      /\ \A j \in 1..len : Line[j] = [key |-> key[q[j]], val |-> val[q[j]], expire |-> expire[q[j]]]
  BY PlaceIs
<1>5. /\ key' \in [Entry -> Key \cup {NULL}] /\ val' \in [Entry -> Vals \cup {NoVal}]
      /\ expire' \in [Entry -> Nat]
  BY DEF TypeOK
<1>6. /\ Line' \in Seq(Item) /\ Len(Line') = len - 1
      /\ \A j \in 1..(len - 1) :
           Line'[j] = [key |-> key'[p[j]], val |-> val'[p[j]], expire |-> expire'[p[j]]]
  BY <1>1, <1>3, <1>5, NextItems
<1>7. /\ Without(Line, i) \in Seq(Item) /\ Len(Without(Line, i)) = len - 1
      /\ \A j \in 1..(len - 1) : Without(Line, i)[j] = Line[Old(i, j)]
  <2>1. /\ Without(Line, i) \in Seq(Item) /\ Len(Without(Line, i)) = Len(Line) - 1
        /\ \A j \in 1..(Len(Line) - 1) : Without(Line, i)[j] = Line[Old(i, j)]
    <3>1. Line \in Seq(Item) /\ i \in 1..Len(Line)
      BY <1>2, <1>4
    <3> QED BY <3>1, WithoutEffect
  <2> QED BY <1>4, <2>1
<1>8. ASSUME NEW a \in Entry, a # q[i] PROVE key'[a] = key[a] /\ val'[a] = val[a] /\ expire'[a] = expire[a]
  BY <1>8, Types DEF Unlink
<1>9. ASSUME NEW j \in 1..(len - 1) PROVE Line'[j] = Without(Line, i)[j]
  <2>1. p[j] \in Entry /\ p[j] # q[i] /\ p[j] = q[Old(i, j)] /\ Old(i, j) \in 1..len
    BY <1>2, <1>3 DEF Distinct
  <2>2. key'[p[j]] = key[p[j]] /\ val'[p[j]] = val[p[j]] /\ expire'[p[j]] = expire[p[j]]
    BY <1>8, <2>1
  <2> QED BY <1>4, <1>6, <1>7, <2>1, <2>2
<1>10. Line' = Without(Line, i)
  <2>1. len - 1 \in Nat
    BY <1>2
  <2> QED BY <1>6, <1>7, <1>9, <2>1, SameLine
<1>11. Abs!Forget(k)
  BY <1>4, <1>10 DEF Abs!Forget, Abs!RemoveAt, Without
<1> QED BY <1>1, <1>11

(* A new key comes, and the last one of a full chain goes.                 *)
LEMMA NewSets ==
  ASSUME TypeOK, NEW q, Linked(q), NEW new \in Entry, NEW k \in Key, NEW v \in Vals,
         NEW t \in Timeouts, set_new(new, k, v, expire_at(t))
  PROVE  TypeOK' /\ (\E p : Linked(p)') /\ Abs!SetNew(k, v, t)
<1> DEFINE x == expire_at(t)
<1>1. now \in Nat /\ t \in Nat /\ x \in Nat /\ x = IF t = 0 THEN 0 ELSE now + t
  BY Types, TimeAssumption DEF expire_at
<1>2. TypeOK'
  BY <1>1, NewType
<1>3. PICK n : n = len
  OBVIOUS
<1> DEFINE r == IF n <= CHAINLEN THEN q ELSE Without(q, n)
           p == Front1(new, r)
<1>4. Linked(p)' /\ \A i \in 1..n : key[q[i]] # k
  BY <1>3, NewStep
<1>5. /\ q \in Seq(Entry) /\ n \in Nat /\ Len(q) = n /\ Distinct(q) /\ CHAINLEN \in Nat /\ CHAINLEN >= 1
      /\ \A i \in 1..n : q[i] \in Entry /\ q[i] # new
  BY <1>3, LinkedFacts, LenAssumption DEF set_new, Free
<1>6. PICK m \in Nat : m = IF n <= CHAINLEN THEN n ELSE n - 1
  BY <1>5
<1>7. r \in Seq(Entry) /\ Len(r) = m /\ m <= n /\ \A j \in 1..m : r[j] = q[j]
  <2>1. CASE n <= CHAINLEN
    BY <1>5, <1>6, <2>1
  <2>2. CASE ~(n <= CHAINLEN)
    <3>1. n \in 1..Len(q) /\ m = n - 1 /\ r = Without(q, n)
      BY <1>5, <1>6, <2>2
    <3>2. r \in Seq(Entry) /\ Len(r) = Len(q) - 1 /\ \A j \in 1..(Len(q) - 1) : r[j] = q[Old(n, j)]
      <4>1. q \in Seq(Entry) /\ n \in 1..Len(q)
        BY <1>5, <3>1
      <4> HIDE DEF r
      <4> QED BY <3>1, <4>1, WithoutEffect
    <3>3. \A j \in 1..m : Old(n, j) = j
      BY <1>5, <3>1 DEF Old
    <3> QED BY <1>5, <3>1, <3>2, <3>3
  <2> QED BY <2>1, <2>2
<1> HIDE DEF r
<1>8. /\ p \in Seq(Entry) /\ Len(p) = m + 1 /\ p[1] = new
      /\ \A j \in 2..(m + 1) : j - 1 \in 1..m /\ p[j] = q[j - 1]
  <2>1. /\ p \in Seq(Entry) /\ Len(p) = Len(r) + 1 /\ p[1] = new
        /\ \A j \in 2..(Len(r) + 1) : j - 1 \in 1..Len(r) /\ p[j] = r[j - 1]
    <3>1. r \in Seq(Entry)
      BY <1>7
    <3> QED BY <3>1 DEF Front1
  <2> QED BY <1>7, <2>1
<1> HIDE DEF p
<1>9. /\ Line \in Seq(Item) /\ Len(Line) = n /\ ~Abs!Has(k)
      /\ \A j \in 1..n : Line[j] = [key |-> key[q[j]], val |-> val[q[j]], expire |-> expire[q[j]]]
  BY <1>3, <1>4, PlaceIs
<1>10. /\ key' \in [Entry -> Key \cup {NULL}] /\ val' \in [Entry -> Vals \cup {NoVal}]
       /\ expire' \in [Entry -> Nat]
  BY <1>2 DEF TypeOK
<1>11. /\ Line' \in Seq(Item) /\ Len(Line') = m + 1
       /\ \A j \in 1..(m + 1) :
            Line'[j] = [key |-> key'[p[j]], val |-> val'[p[j]], expire |-> expire'[p[j]]]
  BY <1>4, <1>8, <1>10, NextItems
<1> DEFINE it == [key |-> k, val |-> v, expire |-> x]
           kept == IF Len(Line) > CHAINLEN THEN SubSeq(Line, 1, Len(Line) - 1) ELSE Line
<1>12. /\ key'[new] = k /\ val'[new] = v /\ expire'[new] = x
       /\ \A j \in 1..m : key'[q[j]] = key[q[j]] /\ val'[q[j]] = val[q[j]] /\ expire'[q[j]] = expire[q[j]]
  <2>1. CASE n <= CHAINLEN
    <3>1. PutFirst(new, k, v, x, NULL)
      BY <1>3, <2>1 DEF set_new
    <3>2. \A j \in 1..m : q[j] \in Entry /\ q[j] # new /\ q[j] # NULL
      BY <1>5, <1>6, <2>1, Addresses
    <3> QED BY <3>1, <3>2 DEF PutFirst
  <2>2. CASE ~(n <= CHAINLEN)
    <3>1. PutFirst(new, k, v, x, last) /\ last = q[n]
      BY <1>3, <1>5, <2>2 DEF set_new, Linked, Chain
    <3>2. \A j \in 1..m : q[j] \in Entry /\ q[j] # new /\ q[j] # q[n]
      <4>1. \A j \in 1..m : j \in 1..n /\ n \in 1..n /\ j # n
        BY <1>5, <1>6, <2>2
      <4> QED BY <1>5, <4>1 DEF Distinct
    <3> QED BY <3>1, <3>2 DEF PutFirst
  <2> QED BY <2>1, <2>2
<1>13. it \in Item
  BY <1>1 DEF Item
<1>14. kept \in Seq(Item) /\ Len(kept) = m /\ \A j \in 1..m : kept[j] = Line[j]
  <2>1. CASE n <= CHAINLEN
    BY <1>5, <1>6, <1>9, <2>1
  <2>2. CASE ~(n <= CHAINLEN)
    <3>1. kept = SubSeq(Line, 1, n - 1) /\ m = n - 1
      BY <1>5, <1>6, <1>9, <2>2
    <3> QED BY <1>5, <1>9, <2>2, <3>1
  <2> QED BY <2>1, <2>2
<1> HIDE DEF kept, it
<1>15. /\ Front1(it, kept) \in Seq(Item) /\ Len(Front1(it, kept)) = m + 1 /\ Front1(it, kept)[1] = it
       /\ \A j \in 2..(m + 1) : j - 1 \in 1..m /\ Front1(it, kept)[j] = Line[j - 1]
  <2>1. /\ Front1(it, kept) \in Seq(Item) /\ Len(Front1(it, kept)) = Len(kept) + 1 /\ Front1(it, kept)[1] = it
        /\ \A j \in 2..(Len(kept) + 1) : j - 1 \in 1..Len(kept) /\ Front1(it, kept)[j] = kept[j - 1]
    <3>1. kept \in Seq(Item) /\ it \in Item
      BY <1>13, <1>14
    <3> QED BY <3>1 DEF Front1
  <2> QED BY <1>14, <2>1
<1>16. ASSUME NEW j \in 1..(m + 1) PROVE Line'[j] = Front1(it, kept)[j]
  <2>1. CASE j = 1
    BY <1>8, <1>11, <1>12, <1>15, <2>1 DEF it
  <2>2. CASE j # 1
    <3>1. j \in 2..(m + 1) /\ j - 1 \in 1..m /\ j - 1 \in 1..n
      BY <1>5, <1>7, <2>2
    <3>2. Line'[j] = [key |-> key'[p[j]], val |-> val'[p[j]], expire |-> expire'[p[j]]] /\ p[j] = q[j - 1]
      BY <1>8, <1>11, <3>1
    <3>3. Front1(it, kept)[j] = [key |-> key[q[j - 1]], val |-> val[q[j - 1]], expire |-> expire[q[j - 1]]]
      BY <1>9, <1>15, <3>1
    <3>4. /\ key'[q[j - 1]] = key[q[j - 1]] /\ val'[q[j - 1]] = val[q[j - 1]]
          /\ expire'[q[j - 1]] = expire[q[j - 1]]
      BY <1>12, <3>1
    <3> QED BY <3>2, <3>3, <3>4
  <2> QED BY <2>1, <2>2
<1>17. Line' = Front1(it, kept)
  <2>1. m + 1 \in Nat
    OBVIOUS
  <2> QED BY <1>11, <1>15, <1>16, <2>1, SameLine
<1>18. Abs!Returns("set", 1, NoVal) /\ now' = now
  BY DEF set_new, Returns, Abs!Returns
<1>19. Abs!SetNew(k, v, t)
  BY <1>9, <1>17, <1>18 DEF Abs!SetNew, Abs!Front, Abs!Item, Front1, kept, it, expire_at
<1> QED BY <1>2, <1>4, <1>19

(* A known key gets its value and the first place.                         *)
LEMMA KnownSets ==
  ASSUME TypeOK, NEW q, Linked(q), NEW k, NEW v \in Vals, NEW i \in 1..len,
         find_in_chain(k) = q[i], key[q[i]] = k, set_known(k, v)
  PROVE  TypeOK' /\ (\E p : Linked(p)') /\ Abs!SetKnown(k, v)
<1>1. TypeOK'
  BY KnownType
<1> DEFINE p == IF i = 1 THEN q ELSE Front1(q[i], Without(q, i))
           it == [key |-> k, val |-> v, expire |-> expire[q[i]]]
           rest == Without(Line, i)
<1>2. Linked(p)'
  BY KnownStep
<1>3. PICK n : n = len
  OBVIOUS
<1>4. /\ q \in Seq(Entry) /\ n \in Nat /\ Len(q) = n /\ i \in 1..n /\ i \in 1..Len(q) /\ Distinct(q)
      /\ \A j \in 1..n : q[j] \in Entry
  BY <1>3, LinkedFacts
<1>5. \A j \in 1..(n - 1) : Old(i, j) \in 1..n /\ Old(i, j) # i
  BY <1>4, OldPlaces
<1>6. p \in Seq(Entry) /\ Len(p) = n /\ p[1] = q[i] /\ \A j \in 2..n : p[j] = q[Old(i, j - 1)]
  <2>1. CASE i = 1
    <3>1. p = q /\ \A j \in 2..n : Old(i, j - 1) = j
      BY <1>4, <2>1 DEF Old
    <3> QED BY <1>4, <2>1, <3>1
  <2>2. CASE i # 1
    <3> DEFINE r == Without(q, i)
    <3>1. p = Front1(q[i], r)
      BY <2>2
    <3>2. r \in Seq(Entry) /\ Len(r) = Len(q) - 1 /\ \A j \in 1..(Len(q) - 1) : r[j] = q[Old(i, j)]
      BY <1>4, WithoutEffect
    <3> HIDE DEF r, p
    <3>3. q[i] \in Entry
      BY <1>4
    <3>4. /\ p \in Seq(Entry) /\ Len(p) = Len(r) + 1 /\ p[1] = q[i]
          /\ \A j \in 2..(Len(r) + 1) : j - 1 \in 1..Len(r) /\ p[j] = r[j - 1]
      BY <3>1, <3>2, <3>3 DEF Front1
    <3> QED BY <1>4, <3>2, <3>4
  <2> QED BY <2>1, <2>2
<1> HIDE DEF p
<1>7. /\ Line \in Seq(Item) /\ Len(Line) = n /\ Abs!Has(k) /\ Abs!Place(k) = i
      /\ \A j \in 1..n : Line[j] = [key |-> key[q[j]], val |-> val[q[j]], expire |-> expire[q[j]]]
  BY <1>3, PlaceIs
<1>8. /\ key' \in [Entry -> Key \cup {NULL}] /\ val' \in [Entry -> Vals \cup {NoVal}]
      /\ expire' \in [Entry -> Nat]
  BY <1>1 DEF TypeOK
<1>9. /\ Line' \in Seq(Item) /\ Len(Line') = n
      /\ \A j \in 1..n : Line'[j] = [key |-> key'[p[j]], val |-> val'[p[j]], expire |-> expire'[p[j]]]
  BY <1>2, <1>6, <1>8, NextItems
<1>10. key' = key /\ expire' = expire /\ val' = [val EXCEPT ![q[i]] = v]
       /\ key \in [Entry -> Key \cup {NULL}] /\ val \in [Entry -> Vals \cup {NoVal}]
       /\ expire \in [Entry -> Nat]
  BY Types DEF set_known
<1>11. it \in Item
  BY <1>4, <1>10 DEF Item
<1>12. rest \in Seq(Item) /\ Len(rest) = n - 1 /\ \A j \in 1..(n - 1) : rest[j] = Line[Old(i, j)]
  <2>1. Line \in Seq(Item) /\ i \in 1..Len(Line)
    BY <1>4, <1>7
  <2>2. /\ rest \in Seq(Item) /\ Len(rest) = Len(Line) - 1
        /\ \A j \in 1..(Len(Line) - 1) : rest[j] = Line[Old(i, j)]
    BY <2>1, WithoutEffect
  <2> QED BY <1>7, <2>2
<1> HIDE DEF rest, it
<1>13. /\ Front1(it, rest) \in Seq(Item) /\ Len(Front1(it, rest)) = n /\ Front1(it, rest)[1] = it
       /\ \A j \in 2..n : j - 1 \in 1..(n - 1) /\ Front1(it, rest)[j] = Line[Old(i, j - 1)]
  <2>1. rest \in Seq(Item) /\ it \in Item
    BY <1>11, <1>12
  <2>2. /\ Front1(it, rest) \in Seq(Item) /\ Len(Front1(it, rest)) = Len(rest) + 1 /\ Front1(it, rest)[1] = it
        /\ \A j \in 2..(Len(rest) + 1) : j - 1 \in 1..Len(rest) /\ Front1(it, rest)[j] = rest[j - 1]
    BY <2>1 DEF Front1
  <2> QED BY <1>4, <1>12, <2>2
<1>14. ASSUME NEW j \in 1..n PROVE Line'[j] = Front1(it, rest)[j]
  <2>1. CASE j = 1
    BY <1>4, <1>6, <1>9, <1>10, <1>13, <2>1 DEF it
  <2>2. CASE j # 1
    <3> DEFINE o == Old(i, j - 1)
    <3>1. j \in 2..n /\ j - 1 \in 1..(n - 1)
      BY <1>4, <2>2
    <3>2. o \in 1..n /\ o # i /\ q[o] \in Entry /\ q[o] # q[i] /\ p[j] = q[o]
      BY <1>4, <1>5, <1>6, <3>1 DEF Distinct
    <3>3. Line'[j] = [key |-> key'[q[o]], val |-> val'[q[o]], expire |-> expire'[q[o]]]
      BY <1>9, <3>2
    <3>4. Front1(it, rest)[j] = [key |-> key[q[o]], val |-> val[q[o]], expire |-> expire[q[o]]]
      BY <1>7, <1>13, <3>1, <3>2
    <3>5. val'[q[o]] = val[q[o]]
      BY <1>10, <3>2
    <3> QED BY <1>10, <3>3, <3>4, <3>5
  <2> QED BY <2>1, <2>2
<1>15. Line' = Front1(it, rest)
  BY <1>4, <1>9, <1>13, <1>14, SameLine
<1>16. Abs!Returns("set", 1, NoVal) /\ now' = now
  BY DEF set_known, Returns, Abs!Returns
<1>17. Line[i].expire = expire[q[i]]
  BY <1>4, <1>7
<1>18. Abs!SetKnown(k, v)
  BY <1>7, <1>15, <1>16, <1>17 DEF Abs!SetKnown, Abs!RemoveAt, Abs!Item, Front1, Without, it, rest
<1> QED BY <1>1, <1>2, <1>18

(* A value changes where it is.                                            *)
LEMMA ValueChanges ==
  ASSUME TypeOK, NEW q, Linked(q), NEW k, NEW v \in Vals, NEW i \in 1..len, key[q[i]] = k,
         val' = [val EXCEPT ![q[i]] = v], Returns("change", 1, NoVal),
         UNCHANGED <<first, last, len, next, prev, key, expire, now>>
  PROVE  TypeOK' /\ (\E p : Linked(p)') /\ Abs!Change(k, v)
<1>1. Linked(q)'
  BY SameStep
<1>2. PICK n : n = len
  OBVIOUS
<1>3. /\ q \in Seq(Entry) /\ n \in Nat /\ Len(q) = n /\ i \in 1..n /\ Distinct(q)
      /\ \A j \in 1..n : q[j] \in Entry
  BY <1>2, LinkedFacts
<1>4. /\ key \in [Entry -> Key \cup {NULL}] /\ val \in [Entry -> Vals \cup {NoVal}]
      /\ expire \in [Entry -> Nat] /\ val' \in [Entry -> Vals \cup {NoVal}]
  <2>1. val \in [Entry -> Vals \cup {NoVal}] /\ q[i] \in Entry
    BY <1>3, Types
  <2> QED BY <2>1, Types
<1>5. TypeOK'
  <2>1. ret' \in [op : {"none", "set", "get", "del", "change", "empty"},
                  rv : {-3, -2, -1, 0, 1}, val : Vals \cup {NoVal}]
    BY ReturnsType
  <2> QED BY <1>4, <2>1 DEF TypeOK
<1>6. /\ Line \in Seq(Item) /\ Len(Line) = n /\ Abs!Has(k) /\ Abs!Place(k) = i
      /\ \A j \in 1..n : Line[j] = [key |-> key[q[j]], val |-> val[q[j]], expire |-> expire[q[j]]]
  BY <1>2, PlaceIs
<1>7. /\ Line' \in Seq(Item) /\ Len(Line') = n
      /\ \A j \in 1..n : Line'[j] = [key |-> key[q[j]], val |-> val'[q[j]], expire |-> expire[q[j]]]
  BY <1>1, <1>3, <1>4, NextItems
<1> DEFINE new == [Line EXCEPT ![i] = [key |-> key[q[i]], val |-> v, expire |-> expire[q[i]]]]
<1>8. new \in Seq(Item) /\ Len(new) = n
  <2>1. [key |-> key[q[i]], val |-> v, expire |-> expire[q[i]]] \in Item
    BY <1>3, <1>4 DEF Item
  <2> QED BY <1>3, <1>6, <2>1
<1>9. ASSUME NEW j \in 1..n PROVE Line'[j] = new[j]
  <2>1. CASE j = i
    BY <1>3, <1>4, <1>6, <1>7, <2>1
  <2>2. CASE j # i
    <3>1. q[j] \in Entry /\ q[j] # q[i]
      BY <1>3, <2>2 DEF Distinct
    <3>2. val'[q[j]] = val[q[j]] /\ new[j] = Line[j]
      BY <1>3, <1>4, <1>6, <2>2, <3>1
    <3> QED BY <1>6, <1>7, <3>2
  <2> QED BY <2>1, <2>2
<1>10. new = [Line EXCEPT ![i].val = v]
  <2>1. Line[i] = [key |-> key[q[i]], val |-> val[q[i]], expire |-> expire[q[i]]]
    BY <1>3, <1>6
  <2>2. [Line[i] EXCEPT !.val = v] = [key |-> key[q[i]], val |-> v, expire |-> expire[q[i]]]
    BY <2>1
  <2> QED BY <2>2
<1> HIDE DEF new
<1>11. Line' = new
  BY <1>3, <1>7, <1>8, <1>9, SameLine
<1>12. Abs!Change(k, v)
  BY <1>6, <1>10, <1>11 DEF Abs!Change, Abs!Returns, Returns
<1> QED BY <1>1, <1>5, <1>12

-----------------------------------------------------------------------------
(* The operations                                                          *)

(* The chain as it was, whatever is returned.                              *)
LEMMA NothingChanges ==
  ASSUME TypeOK, NEW q, Linked(q), UNCHANGED chain, now' \in 0..MaxTime,
         ret' \in [op : {"none", "set", "get", "del", "change", "empty"},
                   rv : {-3, -2, -1, 0, 1}, val : Vals \cup {NoVal}]
  PROVE  TypeOK' /\ (\E p : Linked(p)') /\ Line' = Line
<1>1. UNCHANGED <<first, last, len, next, prev, key, val, expire>>
  BY DEF chain
<1>2. Linked(q)'
  BY <1>1, SameStep
<1>3. TypeOK'
  BY <1>1 DEF TypeOK
<1>4. Line' = Items(q, key', val', expire') /\ Line = Items(q, key, val, expire)
  BY <1>2, LineNext, LineIs
<1>5. Line' = Line
  BY <1>1, <1>4
<1> QED BY <1>2, <1>3, <1>5

(* An operation that does nothing says so.                                 *)
LEMMA Refuses ==
  ASSUME TypeOK, NEW q, Linked(q), UNCHANGED chain, UNCHANGED now,
         NEW op \in {"set", "change"}, NEW rv \in {0, -1, -2, -3}, Returns(op, rv, NoVal)
  PROVE  Kept
<1>1. ret' \in [op : {"none", "set", "get", "del", "change", "empty"},
                rv : {-3, -2, -1, 0, 1}, val : Vals \cup {NoVal}]
  BY DEF Returns
<1>2. now' \in 0..MaxTime
  BY Types
<1>3. TypeOK' /\ (\E p : Linked(p)') /\ Line' = Line
  BY <1>1, <1>2, NothingChanges
<1>4. ret' \in [op : {"set", "change"}, rv : {0, -1, -2, -3}, val : {NoVal}]
  BY DEF Returns
<1>5. Abs!Refuse
  BY <1>3, <1>4 DEF Abs!Refuse
<1> QED BY <1>3, <1>5 DEF Kept, Abs!Next

(* cache_set is one of SetNew, SetKnown and Refuse.                        *)
LEMMA SetKeeps ==
  ASSUME TypeOK, NEW q, Linked(q), NEW k \in Key, NEW v \in Vals, NEW t \in Timeouts,
         cache_set(k, v, t)
  PROVE  Kept
<1>1. ASSUME NEW new \in Entry, set_new(new, k, v, expire_at(t)) PROVE Kept
  <2>1. TypeOK' /\ (\E p : Linked(p)') /\ Abs!SetNew(k, v, t)
    BY <1>1, NewSets
  <2> QED BY <2>1 DEF Kept, Abs!Next
<1>2. CASE set_known(k, v)
  <2>1. find_in_chain(k) # NULL
    BY <1>2 DEF set_known
  <2>2. PICK i \in 1..len : find_in_chain(k) = q[i] /\ key[q[i]] = k
    BY <2>1, FindIs
  <2>3. TypeOK' /\ (\E p : Linked(p)') /\ Abs!SetKnown(k, v)
    BY <1>2, <2>2, KnownSets
  <2> QED BY <2>3 DEF Kept, Abs!Next
<1>3. CASE set_fails
  <2>1. UNCHANGED chain /\ UNCHANGED now /\ Returns("set", 0, NoVal)
    BY <1>3 DEF set_fails
  <2> QED BY <2>1, Refuses
<1> QED BY <1>1, <1>2, <1>3 DEF cache_set

(* cache_get forgets a value whose time is over, and only that.            *)
LEMMA GetKeeps ==
  ASSUME TypeOK, NEW q, Linked(q), NEW k \in Key, cache_get(k)
  PROVE  Kept
<1>1. now \in 0..MaxTime /\ now' = now /\ now \in Nat
  BY Types, TimeAssumption DEF cache_get
<1>2. CASE find_in_chain(k) = NULL
  <2>1. UNCHANGED chain /\ Returns("get", 0, NoVal)
    BY <1>2 DEF cache_get
  <2>2. \A i \in 1..len : key[q[i]] # k
    <3>1. \A i \in 1..len : q[i] # NULL
      BY LinkedFacts
    <3> QED BY <1>2, <3>1, FindIs
  <2>3. ~Abs!Has(k)
    BY <2>2, PlaceIs
  <2>4. ret' \in [op : {"none", "set", "get", "del", "change", "empty"},
                  rv : {-3, -2, -1, 0, 1}, val : Vals \cup {NoVal}]
    BY <2>1, ReturnsType
  <2>5. TypeOK' /\ (\E p : Linked(p)') /\ Line' = Line
    BY <1>1, <2>1, <2>4, NothingChanges
  <2>6. Abs!Get(k)
    BY <1>1, <2>1, <2>3, <2>5 DEF Abs!Get, Abs!Valid, Abs!Forget, Abs!Returns, Returns
  <2> QED BY <2>5, <2>6 DEF Kept, Abs!Next
<1>3. CASE find_in_chain(k) # NULL
  <2>1. PICK i \in 1..len : find_in_chain(k) = q[i] /\ key[q[i]] = k
    BY <1>3, FindIs
  <2>2. expire[q[i]] \in Nat /\ val[q[i]] \in Vals \cup {NoVal}
    BY LinkedFacts, Types
  <2>3. /\ Abs!Has(k) /\ Abs!Place(k) = i
        /\ Line[i].expire = expire[q[i]] /\ Line[i].val = val[q[i]]
    <3>1. Abs!Has(k) /\ Abs!Place(k) = i
      BY <2>1, PlaceIs
    <3>2. Line[i] = [key |-> key[q[i]], val |-> val[q[i]], expire |-> expire[q[i]]]
      BY PlaceIs
    <3> QED BY <3>1, <3>2
  <2>4. CASE expire[q[i]] > 0 /\ expire[q[i]] < now
    <3>1. Unlink(q[i]) /\ Returns("get", 0, NoVal)
      BY <1>3, <2>1, <2>4 DEF cache_get
    <3>2. ret' \in [op : {"none", "set", "get", "del", "change", "empty"},
                    rv : {-3, -2, -1, 0, 1}, val : Vals \cup {NoVal}]
      BY <3>1, ReturnsType
    <3>3. TypeOK'
      BY <1>1, <3>1, <3>2, UnlinkType
    <3>4. (\E p : Linked(p)') /\ Abs!Forget(k)
      BY <2>1, <3>1, <3>3, Forgets
    <3>5. ~Abs!Valid(k)
      BY <1>1, <2>2, <2>3, <2>4 DEF Abs!Valid
    <3>6. Abs!Get(k)
      BY <1>1, <3>1, <3>4, <3>5 DEF Abs!Get, Abs!Returns, Returns
    <3> QED BY <3>3, <3>4, <3>6 DEF Kept, Abs!Next
  <2>5. CASE ~(expire[q[i]] > 0 /\ expire[q[i]] < now)
    <3>1. UNCHANGED chain /\ Returns("get", 1, val[q[i]])
      BY <1>3, <2>1, <2>5 DEF cache_get
    <3>2. ret' \in [op : {"none", "set", "get", "del", "change", "empty"},
                    rv : {-3, -2, -1, 0, 1}, val : Vals \cup {NoVal}]
      BY <2>2, <3>1, ReturnsType
    <3>3. TypeOK' /\ (\E p : Linked(p)') /\ Line' = Line
      BY <1>1, <3>1, <3>2, NothingChanges
    <3>4. Abs!Valid(k)
      BY <1>1, <2>2, <2>3, <2>5 DEF Abs!Valid
    <3>5. Abs!Get(k)
      BY <1>1, <2>3, <3>1, <3>3, <3>4 DEF Abs!Get, Abs!Returns, Returns
    <3> QED BY <3>3, <3>5 DEF Kept, Abs!Next
  <2> QED BY <2>4, <2>5
<1> QED BY <1>2, <1>3

(* cache_del forgets the key, if it is there.                              *)
LEMMA DelKeeps ==
  ASSUME TypeOK, NEW q, Linked(q), NEW k \in Key, cache_del(k)
  PROVE  Kept
<1>1. now \in 0..MaxTime /\ now' = now
  BY Types DEF cache_del
<1>2. CASE find_in_chain(k) = NULL
  <2>1. UNCHANGED chain /\ Returns("del", 0, NoVal)
    BY <1>2 DEF cache_del
  <2>2. \A i \in 1..len : key[q[i]] # k
    <3>1. \A i \in 1..len : q[i] # NULL
      BY LinkedFacts
    <3> QED BY <1>2, <3>1, FindIs
  <2>3. ~Abs!Has(k)
    BY <2>2, PlaceIs
  <2>4. ret' \in [op : {"none", "set", "get", "del", "change", "empty"},
                  rv : {-3, -2, -1, 0, 1}, val : Vals \cup {NoVal}]
    BY <2>1, ReturnsType
  <2>5. TypeOK' /\ (\E p : Linked(p)') /\ Line' = Line
    BY <1>1, <2>1, <2>4, NothingChanges
  <2>6. Abs!Del(k)
    BY <1>1, <2>1, <2>3, <2>5 DEF Abs!Del, Abs!Forget, Abs!Returns, Returns
  <2> QED BY <2>5, <2>6 DEF Kept, Abs!Next
<1>3. CASE find_in_chain(k) # NULL
  <2>1. PICK i \in 1..len : find_in_chain(k) = q[i] /\ key[q[i]] = k
    BY <1>3, FindIs
  <2>2. Unlink(q[i]) /\ Returns("del", 1, NoVal)
    BY <1>3, <2>1 DEF cache_del
  <2>3. ret' \in [op : {"none", "set", "get", "del", "change", "empty"},
                  rv : {-3, -2, -1, 0, 1}, val : Vals \cup {NoVal}]
    BY <2>2, ReturnsType
  <2>4. TypeOK'
    BY <1>1, <2>2, <2>3, UnlinkType
  <2>5. (\E p : Linked(p)') /\ Abs!Forget(k)
    BY <2>1, <2>2, <2>4, Forgets
  <2>6. Abs!Has(k)
    BY <2>1, PlaceIs
  <2>7. Abs!Del(k)
    BY <1>1, <2>2, <2>5, <2>6 DEF Abs!Del, Abs!Returns, Returns
  <2> QED BY <2>4, <2>5, <2>7 DEF Kept, Abs!Next
<1> QED BY <1>2, <1>3

(* cache_cas changes the value it expects, or nothing.                     *)
LEMMA CasKeeps ==
  ASSUME TypeOK, NEW q, Linked(q), NEW k \in Key, NEW old \in Vals, NEW new \in Vals,
         cache_cas(k, old, new)
  PROVE  Kept
<1>1. UNCHANGED <<first, last, len, next, prev, key, expire, now>>
  BY DEF cache_cas
<1>2. ASSUME NEW rv \in {0, -1, -2, -3}, Returns("change", rv, NoVal), UNCHANGED val PROVE Kept
  <2>1. UNCHANGED chain /\ UNCHANGED now
    BY <1>1, <1>2 DEF chain
  <2> QED BY <1>2, <2>1, Refuses
<1>3. CASE /\ find_in_chain(k) # NULL /\ Returns("change", 1, NoVal)
           /\ val' = [val EXCEPT ![find_in_chain(k)] = new]
  <2>1. PICK i \in 1..len : find_in_chain(k) = q[i] /\ key[q[i]] = k
    BY <1>3, FindIs
  <2>2. val' = [val EXCEPT ![q[i]] = new] /\ key[q[i]] = k /\ Returns("change", 1, NoVal)
    BY <1>3, <2>1
  <2>3. TypeOK' /\ (\E p : Linked(p)') /\ Abs!Change(k, new)
    BY ONLY TypeOK, Linked(q), <1>1, <2>2, ValueChanges
  <2> QED BY <2>3 DEF Kept, Abs!Next
<1> QED BY <1>2, <1>3 DEF cache_cas

(* cache_incr adds one to a number below the bound, or does nothing.       *)
LEMMA IncrKeeps ==
  ASSUME TypeOK, NEW q, Linked(q), NEW k \in Key, cache_incr(k)
  PROVE  Kept
<1>1. UNCHANGED <<first, last, len, next, prev, key, expire, now>>
  BY DEF cache_incr
<1>2. ASSUME NEW rv \in {0, -1, -2, -3}, Returns("change", rv, NoVal), UNCHANGED val PROVE Kept
  <2>1. UNCHANGED chain /\ UNCHANGED now
    BY <1>1, <1>2 DEF chain
  <2> QED BY <1>2, <2>1, Refuses
<1>3. CASE /\ find_in_chain(k) # NULL /\ val[find_in_chain(k)] < MaxVal
           /\ Returns("change", 1, NoVal)
           /\ val' = [val EXCEPT ![find_in_chain(k)] = @ + 1]
  <2>1. PICK i \in 1..len : find_in_chain(k) = q[i] /\ key[q[i]] = k
    BY <1>3, FindIs
  <2>2. PICK v : v = val[q[i]] + 1
    OBVIOUS
  <2>3. /\ val' = [val EXCEPT ![q[i]] = v] /\ val[q[i]] < MaxVal
        /\ key[q[i]] = k /\ Returns("change", 1, NoVal)
    BY <1>3, <2>1, <2>2
  <2>4. v \in Vals
    <3>1. val[q[i]] \in Vals \cup {NoVal}
      BY LinkedFacts, Types
    <3> QED BY <2>2, <2>3, <3>1, LenAssumption DEF Vals, NoVal
  <2>5. TypeOK' /\ (\E p : Linked(p)') /\ Abs!Change(k, v)
    BY ONLY TypeOK, Linked(q), <1>1, <2>3, <2>4, ValueChanges
  <2> QED BY <2>4, <2>5 DEF Kept, Abs!Next
<1> QED BY <1>2, <1>3 DEF cache_incr

(* The empty chain.                                                        *)
LEMMA EmptyLinked ==
  first = NULL /\ last = NULL /\ len = 0 /\ key = [e \in Entry |-> NULL]
    => Linked(<<>>) /\ Line = <<>>
<1> SUFFICES ASSUME first = NULL, last = NULL, len = 0, key = [e \in Entry |-> NULL]
             PROVE  Linked(<<>>) /\ Line = <<>>
  OBVIOUS
<1>1. <<>> \in Seq(Entry) /\ Len(<<>>) = 0
  OBVIOUS
<1>2. Chain(<<>>, first, last, next, prev)
  BY <1>1 DEF Chain
<1>3. Keyed(<<>>, key)
  BY <1>1 DEF Keyed, Has
<1>4. Linked(<<>>)
  BY <1>1, <1>2, <1>3 DEF Linked
<1>5. Line = <<>>
  BY DEF Line
<1> QED BY <1>4, <1>5

(* cache_empty leaves nothing.                                             *)
LEMMA EmptyKeeps ==
  ASSUME TypeOK, cache_empty
  PROVE  Kept
<1>1. /\ first' = NULL /\ last' = NULL /\ len' = 0 /\ key' = [e \in Entry |-> NULL]
      /\ next' = [e \in Entry |-> NULL] /\ prev' = [e \in Entry |-> NULL]
      /\ val' = [e \in Entry |-> NoVal] /\ expire' = [e \in Entry |-> 0]
      /\ Returns("empty", 1, NoVal) /\ now' = now
  BY DEF cache_empty
<1>2. (first = NULL /\ last = NULL /\ len = 0 /\ key = [e \in Entry |-> NULL]
         => Linked(<<>>) /\ Line = <<>>)'
  BY EmptyLinked, PTL
<1>3. Linked(<<>>)' /\ Line' = <<>>
  BY <1>1, <1>2
<1>4. TypeOK'
  <2>1. ret' \in [op : {"none", "set", "get", "del", "change", "empty"},
                  rv : {-3, -2, -1, 0, 1}, val : Vals \cup {NoVal}]
    BY <1>1, ReturnsType
  <2> QED BY <1>1, <2>1, LenAssumption DEF TypeOK
<1>5. Abs!Empty
  BY <1>1, <1>3 DEF Abs!Empty, Abs!Returns, Returns
<1> QED BY <1>3, <1>4, <1>5 DEF Kept, Abs!Next

(* set_current_time moves the clock on.                                    *)
LEMMA TimeKeeps ==
  ASSUME TypeOK, NEW q, Linked(q), set_current_time
  PROVE  Kept
<1>1. UNCHANGED chain /\ ret' = ret /\ now' \in (now + 1)..MaxTime
  BY DEF set_current_time
<1>2. now' \in 0..MaxTime /\ now' > now
  BY <1>1, Types, TimeAssumption
<1>3. ret' \in [op : {"none", "set", "get", "del", "change", "empty"},
                rv : {-3, -2, -1, 0, 1}, val : Vals \cup {NoVal}]
  BY <1>1, Types
<1>4. TypeOK' /\ (\E p : Linked(p)') /\ Line' = Line
  BY <1>1, <1>2, <1>3, NothingChanges
<1>5. Abs!Tick
  BY <1>1, <1>2, <1>4 DEF Abs!Tick
<1> QED BY <1>4, <1>5 DEF Kept, Abs!Next

-----------------------------------------------------------------------------
(* The inductive invariant, and the theorems                               *)

IInv == TypeOK /\ \E q : Linked(q)

(* cache_create makes an empty chain.                                      *)
LEMMA InitIInv == Init => IInv /\ Abs!Init
<1> SUFFICES ASSUME Init PROVE IInv /\ Abs!Init
  OBVIOUS
<1>1. Linked(<<>>) /\ Line = <<>>
  BY EmptyLinked DEF Init, cache_create
<1>2. TypeOK
  BY LenAssumption, TimeAssumption DEF Init, cache_create, TypeOK
<1>3. Abs!Init
  BY <1>1 DEF Init, Abs!Init
<1> QED BY <1>1, <1>2, <1>3 DEF IInv

(* Every step keeps the invariant, and is one of CacheSpec.                *)
LEMMA NextKeeps == IInv /\ [Next]_vars => IInv' /\ [Abs!Next]_(Abs!vars)
<1> SUFFICES ASSUME TypeOK, NEW q, Linked(q), [Next]_vars
             PROVE  Kept
  BY DEF IInv, Kept
<1>1. ASSUME NEW k \in Key, NEW v \in Vals, NEW t \in Timeouts, cache_set(k, v, t) PROVE Kept
  BY <1>1, SetKeeps
<1>2. ASSUME NEW k \in Key, cache_get(k) PROVE Kept
  BY <1>2, GetKeeps
<1>3. ASSUME NEW k \in Key, cache_del(k) PROVE Kept
  BY <1>3, DelKeeps
<1>4. ASSUME NEW k \in Key, cache_incr(k) PROVE Kept
  BY <1>4, IncrKeeps
<1>5. ASSUME NEW k \in Key, NEW old \in Vals, NEW new \in Vals, cache_cas(k, old, new) PROVE Kept
  BY <1>5, CasKeeps
<1>6. CASE cache_empty
  BY <1>6, EmptyKeeps
<1>7. CASE set_current_time
  BY <1>7, TimeKeeps
<1>8. CASE UNCHANGED vars
  <2>1. UNCHANGED chain /\ now' = now /\ ret' = ret
    BY <1>8 DEF vars
  <2>2. TypeOK' /\ (\E p : Linked(p)') /\ Line' = Line
    BY <2>1, Types, NothingChanges
  <2> QED BY <2>1, <2>2 DEF Kept, Abs!vars
<1> QED BY <1>1, <1>2, <1>3, <1>4, <1>5, <1>6, <1>7, <1>8 DEF Next

(* The sequence the pointers spell out is what ChainWellFormed asks for.   *)
LEMMA IInvImplies == IInv => ChainWellFormed
<1> SUFFICES ASSUME TypeOK, NEW q, Linked(q) PROVE ChainWellFormed
  BY DEF IInv
<1>1. /\ len \in Nat /\ Cardinality(Entry) \in Nat /\ len <= Cardinality(Entry)
      /\ len = Cardinality({e \in Entry : key[e] # NULL})
  BY LenCounts, LinkedFacts
<1>2. \A i \in 1..len : Walk[i] = q[i]
  <2>1. \A i \in 1..Cardinality(Entry) : Walk[i] = IF i <= len THEN q[i] ELSE NULL
    BY WalkIs
  <2>2. \A i \in 1..len : i \in 1..Cardinality(Entry) /\ i <= len
    BY <1>1
  <2> QED BY <2>1, <2>2
<1>3. \A i \in 1..len : Walk[i] # NULL /\ key[Walk[i]] # NULL
  BY <1>2, LinkedFacts
<1>4. /\ first = IF len = 0 THEN NULL ELSE q[1]
      /\ last = IF len = 0 THEN NULL ELSE q[len]
      /\ \A i \in 1..len : next[q[i]] = IF i = len THEN NULL ELSE q[i + 1]
      /\ \A i \in 1..len : prev[q[i]] = IF i = 1 THEN NULL ELSE q[i - 1]
      /\ \A i, j \in 1..len : key[q[i]] = key[q[j]] => i = j
  BY LinkedFacts DEF Linked, Chain, Keyed
<1>5. ASSUME len > 0 PROVE last = Walk[len] /\ next[last] = NULL /\ prev[first] = NULL
  <2>1. len \in Nat /\ len # 0
    BY <1>1, <1>5
  <2>2. 1 \in 1..len /\ len \in 1..len
    BY <2>1
  <2>3. first = q[1] /\ last = q[len]
    BY <1>4, <2>1
  <2> QED BY <1>2, <1>4, <2>2, <2>3
<1>6. \A i \in 2..len : prev[Walk[i]] = Walk[i - 1]
  <2>1. \A i \in 2..len : i \in 1..len /\ i - 1 \in 1..len /\ i # 1
    BY <1>1
  <2> QED BY <1>2, <1>4, <2>1
<1>7. \A i, j \in 1..len : key[Walk[i]] = key[Walk[j]] => i = j
  BY <1>2, <1>4
<1> QED BY <1>1, <1>3, <1>4, <1>5, <1>6, <1>7 DEF ChainWellFormed

(* For any keys, entries, length of the chain and times: next leads from   *)
(* first over all the entries in use, of different keys and never more     *)
(* than CHAINLEN + 1, to last, and prev leads back.                        *)
THEOREM ChainWellFormedHolds == Spec => []ChainWellFormed
BY InitIInv, NextKeeps, IInvImplies, PTL DEF Spec

(* For any keys, values, entries, length of the chain and times: cache.c's *)
(* bucket is the line of CacheSpec.                                        *)
THEOREM CacheRefinement == Spec => ImplementsCacheSpec
BY InitIInv, NextKeeps, PTL DEF Spec, ImplementsCacheSpec, Abs!Spec
=============================================================================
