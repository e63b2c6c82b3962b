--------------------------- MODULE LiveChatProofs ---------------------------
(***************************************************************************)
(* The four invariants of the administrator's desk, for any visitors, any  *)
(* numbers of messages stored, of messages on a page and of sessions, and  *)
(* any number of messages and requests under way.                          *)
(*                                                                         *)
(* What the desk believes of a visitor and what the push server knows of   *)
(* him differ by the raws under way.  These say that he came and that he   *)
(* went by turns, beginning with what is news to the desk and ending with  *)
(* how he is now (News): so the desk is right about him as soon as none is *)
(* left, and userOff always finds him in usersOn.                          *)
(***************************************************************************)
EXTENDS LiveChat, SequenceTheorems, TLAPS

FS == INSTANCE FiniteSetTheorems

Raw == [raw : {"DEARUSERS"}] \cup [raw : {"LEFT", "LCS_DATA"}, user : Users]
         \cup [raw : {"JOIN"}, user : Users, pub : (1..MaxSessions)]
Request == [user : Users, pg : Nat]
Page == [pg : Nat, ntt : Nat]

(* The raws of q that say that u came or went.                             *)
About(r, u) == r.raw \in {"JOIN", "LEFT"} /\ r.user = u
Told(q, u) == {i \in 1..Len(q) : About(q[i], u)}

(* What q tells of u, whom the desk takes to be on or not, and who is in   *)
(* the session s, or in none if s is 0.                                    *)
News(q, u, on, s) ==
  /\ \A i \in Told(q, u) : (\A k \in Told(q, u) : i <= k) => (q[i].raw = "JOIN" <=> ~on)
  /\ \A i, j \in Told(q, u) :
       i < j /\ (\A k \in Told(q, u) : k <= i \/ j <= k) => q[i].raw # q[j].raw
  /\ \A i \in Told(q, u) : (\A k \in Told(q, u) : k <= i) =>
       /\ q[i].raw = "JOIN" <=> s # 0
       /\ q[i].raw = "JOIN" => q[i].pub = s
  /\ Told(q, u) = {} => (on <=> s # 0)

-----------------------------------------------------------------------------
(* Sequences                                                               *)

Has(q, v) == \E i \in 1..Len(q) : q[i] = v
Distinct(q) == \A i, j \in 1..Len(q) : q[i] = q[j] => i = j

(* Range and Has are the same.                                             *)
LEMMA RangeHas ==
  ASSUME NEW S, NEW q \in Seq(S), NEW v
  PROVE  v \in Range(q) <=> Has(q, v)
BY DEF Range, Has

(* A sequence without one of its elements.                                 *)
LEMMA RemoveAtEffect ==
  ASSUME NEW S, NEW q \in Seq(S), NEW i \in 1..Len(q)
  PROVE  /\ RemoveAt(q, i) \in Seq(S) /\ Len(RemoveAt(q, i)) = Len(q) - 1
         /\ \A k \in 1..(Len(q) - 1) : RemoveAt(q, i)[k] = IF k < i THEN q[k] ELSE q[k + 1]
<1> DEFINE a == SubSeq(q, 1, i - 1)
           b == SubSeq(q, i + 1, Len(q))
<1>1. /\ a \in Seq(S) /\ Len(a) = i - 1 /\ \A k \in 1..(i - 1) : a[k] = q[k]
  <2>1. CASE i = 1
    BY <2>1
  <2>2. CASE i > 1
    BY <2>2
  <2> QED BY <2>1, <2>2
<1>2. /\ b \in Seq(S) /\ Len(b) = Len(q) - i /\ \A k \in 1..(Len(q) - i) : b[k] = q[k + i]
  <2>1. CASE i = Len(q)
    BY <2>1
  <2>2. CASE i < Len(q)
    BY <2>2
  <2> QED BY <2>1, <2>2
<1>3. RemoveAt(q, i) = a \o b
  BY DEF RemoveAt
<1> HIDE DEF a, b
<1>4. /\ a \o b \in Seq(S) /\ Len(a \o b) = Len(q) - 1
      /\ \A k \in 1..(Len(q) - 1) : (a \o b)[k] = IF k <= i - 1 THEN a[k] ELSE b[k - (i - 1)]
  BY <1>1, <1>2
<1>5. ASSUME NEW k \in 1..(Len(q) - 1)
      PROVE  (a \o b)[k] = IF k < i THEN q[k] ELSE q[k + 1]
  <2>1. CASE k < i
    BY <1>1, <1>4, <2>1
  <2>2. CASE ~(k < i)
    <3>1. k - (i - 1) \in 1..(Len(q) - i) /\ (k - (i - 1)) + i = k + 1
      BY <2>2
    <3>2. b[k - (i - 1)] = q[k + 1]
      BY <1>2, <3>1
    <3>3. ~(k < i) /\ ~(k <= i - 1)
      BY <2>2
    <3> QED BY <1>4, <3>2, <3>3
  <2> QED BY <2>1, <2>2
<1> QED BY <1>3, <1>4, <1>5

(* userOn adds a visitor who is not in the list.                           *)
LEMMA AppendNew ==
  ASSUME NEW S, NEW q \in Seq(S), NEW u \in S, ~Has(q, u), Distinct(q)
  PROVE  /\ Append(q, u) \in Seq(S) /\ Distinct(Append(q, u))
         /\ \A v : Has(Append(q, u), v) <=> Has(q, v) \/ v = u
<1>1. /\ Append(q, u) \in Seq(S) /\ Len(Append(q, u)) = Len(q) + 1
      /\ \A k \in 1..Len(q) : Append(q, u)[k] = q[k]
      /\ Append(q, u)[Len(q) + 1] = u
  OBVIOUS
<1>2. \A k : k \in 1..(Len(q) + 1) <=> k \in 1..Len(q) \/ k = Len(q) + 1
  OBVIOUS
<1>3. Len(q) + 1 \notin 1..Len(q)
  OBVIOUS
<1> DEFINE r == Append(q, u)
<1> HIDE DEF r
<1>4. Distinct(r)
  BY <1>1, <1>2, <1>3 DEF Distinct, Has, r
<1>5. ASSUME NEW v PROVE Has(r, v) <=> Has(q, v) \/ v = u
  BY <1>1, <1>2 DEF Has, r
<1> QED BY <1>1, <1>4, <1>5 DEF r

(* userOff takes a visitor out who is in the list once.                    *)
LEMMA RemoveKnown ==
  ASSUME NEW S, NEW q \in Seq(S), NEW u \in S, Has(q, u), Distinct(q)
  PROVE  /\ RemoveFirst(q, u) \in Seq(S) /\ Distinct(RemoveFirst(q, u))
         /\ \A v : Has(RemoveFirst(q, u), v) <=> Has(q, v) /\ v # u
<1>1. PICK i \in 1..Len(q) : q[i] = u
  BY DEF Has
<1>2. {k \in 1..Len(q) : q[k] = u} = {i}
  BY <1>1 DEF Distinct
<1>3. SelectInSeq(q, LAMBDA v : v = u) = i
  <2>1. Min({i}) = i
    BY DEF Min
  <2> QED BY <1>2, <2>1 DEF SelectInSeq
<1>4. RemoveFirst(q, u) = RemoveAt(q, i)
  BY <1>1, <1>3 DEF RemoveFirst
<1> DEFINE r == RemoveAt(q, i)
<1>5. /\ r \in Seq(S) /\ Len(r) = Len(q) - 1
      /\ \A k \in 1..(Len(q) - 1) : r[k] = IF k < i THEN q[k] ELSE q[k + 1]
  BY RemoveAtEffect
<1> HIDE DEF r
<1>6. Distinct(r)
  BY <1>5 DEF Distinct
<1>7. ASSUME NEW v PROVE Has(r, v) <=> Has(q, v) /\ v # u
  <2>1. ASSUME NEW k \in 1..(Len(q) - 1) PROVE Has(q, r[k]) /\ r[k] # u
    <3>1. CASE k < i
      BY <1>1, <1>5, <2>1, <3>1 DEF Distinct, Has
    <3>2. CASE ~(k < i)
      <4>1. k + 1 \in 1..Len(q) /\ k + 1 # i /\ r[k] = q[k + 1]
        BY <1>5, <3>2
      <4> QED BY <1>1, <4>1 DEF Distinct, Has
    <3> QED BY <3>1, <3>2
  <2>2. ASSUME NEW k \in 1..Len(q), q[k] # u PROVE Has(r, q[k])
    <3>1. CASE k < i
      BY <1>5, <2>2, <3>1 DEF Has
    <3>2. CASE ~(k < i)
      <4>1. k - 1 \in 1..(Len(q) - 1) /\ ~(k - 1 < i) /\ (k - 1) + 1 = k
        BY <1>1, <2>2, <3>2
      <4>2. r[k - 1] = q[k]
        BY <1>5, <4>1
      <4> QED BY <1>5, <4>1, <4>2 DEF Has
    <3> QED BY <3>1, <3>2
  <2> QED BY <1>5, <2>1, <2>2 DEF Has
<1> QED BY <1>4, <1>5, <1>6, <1>7 DEF r
-----------------------------------------------------------------------------
(* The raws under way                                                      *)

(* What the push server sends goes behind the rest.                        *)
LEMMA Pushed ==
  ASSUME NEW q \in Seq(Raw), NEW r \in Raw
  PROVE  /\ Append(q, r) \in Seq(Raw) /\ Len(Append(q, r)) = Len(q) + 1
         /\ \A i \in 1..Len(q) : Append(q, r)[i] = q[i]
         /\ Append(q, r)[Len(q) + 1] = r
         /\ \A u, i : i \in Told(Append(q, r), u) <=>
                        i \in Told(q, u) \/ (i = Len(q) + 1 /\ About(r, u))
         /\ \A u : \A i \in Told(q, u) : i \in Nat /\ i < Len(q) + 1
<1>1. /\ Append(q, r) \in Seq(Raw) /\ Len(Append(q, r)) = Len(q) + 1
      /\ \A i \in 1..Len(q) : Append(q, r)[i] = q[i]
      /\ Append(q, r)[Len(q) + 1] = r
  OBVIOUS
<1>2. \A i : i \in 1..(Len(q) + 1) <=> i \in 1..Len(q) \/ i = Len(q) + 1
  OBVIOUS
<1>3. Len(q) + 1 \notin 1..Len(q)
  OBVIOUS
<1> DEFINE p == Append(q, r)
<1> HIDE DEF p
<1>4. ASSUME NEW u, NEW i
      PROVE  i \in Told(p, u) <=> i \in Told(q, u) \/ (i = Len(q) + 1 /\ About(r, u))
  BY <1>1, <1>2, <1>3 DEF Told, p
<1>5. \A u : \A i \in Told(q, u) : i \in Nat /\ i < Len(q) + 1
  BY DEF Told
<1> QED BY <1>1, <1>4, <1>5 DEF p

(* A raw about somebody else changes nothing.                              *)
LEMMA PushOther ==
  ASSUME NEW q \in Seq(Raw), NEW r \in Raw, NEW u, ~About(r, u), NEW on, NEW s, News(q, u, on, s)
  PROVE  News(Append(q, r), u, on, s) /\ Told(Append(q, r), u) = Told(q, u)
<1> DEFINE p == Append(q, r)
<1>1. /\ \A i \in 1..Len(q) : p[i] = q[i]
      /\ \A i : i \in Told(p, u) <=> i \in Told(q, u)
  BY Pushed
<1> HIDE DEF p
<1>2. Told(p, u) = Told(q, u)
  BY <1>1
<1>3. \A i \in Told(q, u) : p[i] = q[i]
  BY <1>1 DEF Told
<1> QED BY <1>2, <1>3, Zenon DEF News, p

(* A visitor comes when he is not there, or goes when he is.               *)
LEMMA PushTurn ==
  ASSUME NEW q \in Seq(Raw), NEW r \in Raw, NEW u, About(r, u), NEW on, NEW s, News(q, u, on, s),
         r.raw = "JOIN" <=> s = 0,
         NEW t, r.raw = "JOIN" <=> t # 0, r.raw = "JOIN" => r.pub = t
  PROVE  News(Append(q, r), u, on, t) /\ Told(Append(q, r), u) # {}
<1> DEFINE p == Append(q, r)
           n == Len(q) + 1
<1>1. /\ \A i \in 1..Len(q) : p[i] = q[i]
      /\ p[n] = r
      /\ \A i : i \in Told(p, u) <=> i \in Told(q, u) \/ i = n
      /\ \A i \in Told(q, u) : i \in Nat /\ i < n
  BY Pushed
<1>2. n \in Nat
  OBVIOUS
<1> HIDE DEF p, n
<1>3. \A i \in Told(q, u) : p[i] = q[i]
  BY <1>1 DEF Told
<1>4. ASSUME NEW i \in Told(p, u), \A k \in Told(p, u) : i <= k PROVE p[i].raw = "JOIN" <=> ~on
  <2>1. CASE i = n
    <3>1. Told(q, u) = {}
      <4>1. ASSUME NEW k \in Told(q, u) PROVE FALSE
        <5>1. k \in Told(p, u) /\ k \in Nat /\ k < n
          BY <1>1
        <5>2. n <= k
          BY <1>4, <2>1, <5>1
        <5> QED BY <1>2, <5>1, <5>2
      <4> QED BY <4>1
    <3> QED BY <1>1, <2>1, <3>1 DEF News
  <2>2. CASE i \in Told(q, u)
    BY <1>1, <1>3, <1>4, <2>2 DEF News
  <2> QED BY <1>1, <2>1, <2>2
<1>5. ASSUME NEW i \in Told(p, u), NEW j \in Told(p, u), i < j, \A k \in Told(p, u) : k <= i \/ j <= k
      PROVE  p[i].raw # p[j].raw
  <2>1. i \in Told(q, u)
    BY <1>1, <1>2, <1>5
  <2>2. CASE j = n
    <3>1. \A k \in Told(q, u) : k <= i
      BY <1>1, <1>2, <1>5, <2>2
    <3>2. q[i].raw = "JOIN" <=> s # 0
      BY <2>1, <3>1 DEF News
    <3>3. q[i].raw = "JOIN" \/ q[i].raw = "LEFT"
      BY <2>1 DEF Told, About
    <3>4. r.raw = "JOIN" \/ r.raw = "LEFT"
      BY DEF About
    <3>5. p[i] = q[i] /\ p[j] = r
      BY <1>1, <1>3, <2>1, <2>2
    <3> QED BY <3>2, <3>3, <3>4, <3>5
  <2>3. CASE j \in Told(q, u)
    BY <1>1, <1>3, <1>5, <2>1, <2>3 DEF News
  <2> QED BY <1>1, <2>2, <2>3
<1>6. ASSUME NEW i \in Told(p, u), \A k \in Told(p, u) : k <= i
      PROVE  (p[i].raw = "JOIN" <=> t # 0) /\ (p[i].raw = "JOIN" => p[i].pub = t)
  <2>1. n \in Told(p, u)
    BY <1>1
  <2>2. n <= i
    BY <1>6, <2>1
  <2>3. i = n
    BY <1>1, <1>2, <2>2
  <2> QED BY <1>1, <2>3
<1>7. n \in Told(p, u)
  BY <1>1
<1>8. Told(p, u) # {}
  BY <1>7
<1> QED BY <1>4, <1>5, <1>6, <1>8 DEF News, p

(* The desk takes the first of the raws.                                   *)
LEMMA Popped ==
  ASSUME NEW q \in Seq(Raw), q # <<>>
  PROVE  /\ Tail(q) \in Seq(Raw) /\ Len(Tail(q)) = Len(q) - 1 /\ Head(q) = q[1] /\ Head(q) \in Raw
         /\ \A i \in 1..Len(Tail(q)) : Tail(q)[i] = q[i + 1]
         /\ \A u : \A i \in Told(Tail(q), u) : i \in Nat /\ i + 1 \in Told(q, u) /\ Tail(q)[i] = q[i + 1]
         /\ \A u : \A i \in Told(q, u) : i \in Nat /\ (i = 1 \/ (i - 1 \in Told(Tail(q), u) /\ i > 1))
         /\ \A u : 1 \in Told(q, u) <=> About(Head(q), u)
<1>1. /\ Tail(q) \in Seq(Raw) /\ Len(Tail(q)) = Len(q) - 1 /\ Head(q) = q[1] /\ Head(q) \in Raw
      /\ \A i \in 1..Len(Tail(q)) : Tail(q)[i] = q[i + 1]
      /\ Len(q) \in Nat /\ Len(q) > 0
  OBVIOUS
<1> DEFINE p == Tail(q)
<1> HIDE DEF p
<1>2. ASSUME NEW u, NEW i \in Told(p, u) PROVE i \in Nat /\ i + 1 \in Told(q, u) /\ p[i] = q[i + 1]
  BY <1>1 DEF Told, p
<1>3. ASSUME NEW u, NEW i \in Told(q, u), i # 1 PROVE i - 1 \in Told(p, u) /\ i > 1
  <2>1. i \in 1..Len(q) /\ About(q[i], u)
    BY DEF Told
  <2>2. i - 1 \in 1..Len(p) /\ (i - 1) + 1 = i
    BY <1>1, <1>3, <2>1 DEF p
  <2>3. p[i - 1] = q[i]
    BY <1>1, <2>2 DEF p
  <2> QED BY <1>3, <2>1, <2>2, <2>3 DEF Told
<1>4. \A u : \A i \in Told(q, u) : i \in Nat
  BY DEF Told
<1>5. \A u : 1 \in Told(q, u) <=> About(q[1], u)
  BY <1>1 DEF Told
<1> QED BY <1>1, <1>2, <1>3, <1>4, <1>5 DEF p

(* A raw about somebody else, taken, changes nothing.                      *)
LEMMA PopOther ==
  ASSUME NEW q \in Seq(Raw), q # <<>>, NEW u, ~About(Head(q), u), NEW on, NEW s, News(q, u, on, s)
  PROVE  News(Tail(q), u, on, s) /\ (Told(Tail(q), u) = {} => Told(q, u) = {})
<1> DEFINE p == Tail(q)
<1>1. /\ \A i \in Told(p, u) : i \in Nat /\ i + 1 \in Told(q, u) /\ p[i] = q[i + 1]
      /\ \A i \in Told(q, u) : i \in Nat /\ i > 1 /\ i - 1 \in Told(p, u)
  BY Popped
<1> HIDE DEF p
<1>2. Told(p, u) = {} => Told(q, u) = {}
  BY <1>1
<1>3. ASSUME NEW i \in Told(p, u), \A k \in Told(p, u) : i <= k PROVE p[i].raw = "JOIN" <=> ~on
  <2>1. \A k \in Told(q, u) : i + 1 <= k
    BY <1>1, <1>3
  <2> QED BY <1>1, <2>1 DEF News
<1>4. ASSUME NEW i \in Told(p, u), NEW j \in Told(p, u), i < j, \A k \in Told(p, u) : k <= i \/ j <= k
      PROVE  p[i].raw # p[j].raw
  <2>1. ASSUME NEW k \in Told(q, u) PROVE k <= i + 1 \/ j + 1 <= k
    <3>1. i \in Nat /\ j \in Nat /\ k \in Nat /\ k - 1 \in Told(p, u)
      BY <1>1
    <3>2. k - 1 <= i \/ j <= k - 1
      BY <1>4, <3>1
    <3> QED BY <3>1, <3>2
  <2>2. i + 1 < j + 1 /\ i + 1 \in Told(q, u) /\ j + 1 \in Told(q, u)
    BY <1>1, <1>4
  <2>3. q[i + 1].raw # q[j + 1].raw
    BY <2>1, <2>2, Zenon DEF News
  <2> QED BY <1>1, <2>3
<1>5. ASSUME NEW i \in Told(p, u), \A k \in Told(p, u) : k <= i
      PROVE  (p[i].raw = "JOIN" <=> s # 0) /\ (p[i].raw = "JOIN" => p[i].pub = s)
  <2>1. \A k \in Told(q, u) : k <= i + 1
    BY <1>1, <1>5
  <2> QED BY <1>1, <2>1 DEF News
<1> QED BY <1>2, <1>3, <1>4, <1>5 DEF News, p

(* The desk hears that u came, whom it did not take to be on, or that he   *)
(* went, whom it did.                                                      *)
LEMMA PopTurn ==
  ASSUME NEW q \in Seq(Raw), q # <<>>, NEW u, About(Head(q), u), NEW on, NEW s, News(q, u, on, s)
  PROVE  /\ Head(q).raw = "JOIN" <=> ~on
         /\ News(Tail(q), u, Head(q).raw = "JOIN", s)
         /\ Told(Tail(q), u) = {} => /\ Head(q).raw = "JOIN" <=> s # 0
                                     /\ Head(q).raw = "JOIN" => Head(q).pub = s
<1> DEFINE p == Tail(q)
           r == Head(q)
<1>1. /\ \A i \in Told(p, u) : i \in Nat /\ i + 1 \in Told(q, u) /\ p[i] = q[i + 1]
      /\ \A i \in Told(q, u) : i \in Nat /\ (i = 1 \/ (i - 1 \in Told(p, u) /\ i > 1))
      /\ 1 \in Told(q, u) /\ r = q[1]
  BY Popped
<1>2. r.raw = "JOIN" \/ r.raw = "LEFT"
  BY DEF About
<1> HIDE DEF p, r
<1>2a. \A i \in Told(q, u) : q[i].raw = "JOIN" \/ q[i].raw = "LEFT"
  BY DEF Told, About
<1>3. r.raw = "JOIN" <=> ~on
  <2>1. \A k \in Told(q, u) : 1 <= k
    BY <1>1
  <2> QED BY <1>1, <2>1 DEF News
<1>4. ASSUME NEW i \in Told(p, u), \A k \in Told(p, u) : i <= k
      PROVE  p[i].raw = "JOIN" <=> ~(r.raw = "JOIN")
  <2>1. \A k \in Told(q, u) : k <= 1 \/ i + 1 <= k
    BY <1>1, <1>4
  <2>2. 1 < i + 1
    <3>1. i \in 1..Len(p)
      BY DEF Told
    <3> QED BY <3>1
  <2>3. q[1].raw # q[i + 1].raw
    BY <1>1, <2>1, <2>2, Zenon DEF News
  <2> QED BY <1>1, <1>2, <1>2a, <2>3
<1>5. ASSUME NEW i \in Told(p, u), NEW j \in Told(p, u), i < j, \A k \in Told(p, u) : k <= i \/ j <= k
      PROVE  p[i].raw # p[j].raw
  <2>0. i > 0
    <3>1. i \in 1..Len(p)
      BY DEF Told
    <3> QED BY <3>1
  <2>1. ASSUME NEW k \in Told(q, u) PROVE k <= i + 1 \/ j + 1 <= k
    <3>1. i \in Nat /\ j \in Nat /\ k \in Nat /\ (k = 1 \/ k - 1 \in Told(p, u))
      BY <1>1
    <3>2. k = 1 \/ k - 1 <= i \/ j <= k - 1
      BY <1>5, <3>1
    <3> QED BY <2>0, <3>1, <3>2
  <2>2. i + 1 < j + 1 /\ i + 1 \in Told(q, u) /\ j + 1 \in Told(q, u)
    BY <1>1, <1>5
  <2>3. q[i + 1].raw # q[j + 1].raw
    BY <2>1, <2>2, Zenon DEF News
  <2> QED BY <1>1, <2>3
<1>6. ASSUME NEW i \in Told(p, u), \A k \in Told(p, u) : k <= i
      PROVE  (p[i].raw = "JOIN" <=> s # 0) /\ (p[i].raw = "JOIN" => p[i].pub = s)
  <2>1. \A k \in Told(q, u) : k <= i + 1
    BY <1>1, <1>6
  <2> QED BY <1>1, <2>1 DEF News
<1>7. ASSUME Told(p, u) = {}
      PROVE  (r.raw = "JOIN" <=> s # 0) /\ (r.raw = "JOIN" => r.pub = s)
  <2>1. \A k \in Told(q, u) : k <= 1
    BY <1>1, <1>7
  <2> QED BY <1>1, <2>1 DEF News
<1>8. News(p, u, r.raw = "JOIN", s)
  BY <1>4, <1>5, <1>6, <1>7, Zenon DEF News
<1> QED BY <1>3, <1>7, <1>8 DEF p, r
(* What is told of u depends on whether he is taken to be on.              *)
LEMMA NewsSame ==
  ASSUME NEW q, NEW u, NEW a, NEW b, NEW s, a <=> b, News(q, u, a, s)
  PROVE  News(q, u, b, s)
BY DEF News

-----------------------------------------------------------------------------
(* Who is on, and how he is reached                                        *)

Pipes == {NoPipe, GroupPipe} \cup (Users \X (1..MaxSessions))

(* The list of those who are on, and the raws that will change it.         *)
Roster ==
  /\ raws \in Seq(Raw) /\ Len(raws) <= MaxRaws
  /\ session \in [Users -> 0..MaxSessions] /\ sessions \in [Users -> 0..MaxSessions]
  /\ usersOn \in Seq(Boxes) /\ Distinct(usersOn) /\ Has(usersOn, Everyone)
  /\ \A u \in Users : News(raws, u, Has(usersOn, u), session[u])

(* The box of u, and the pipe if it is open, have his session, or lost it. *)
Reach(u) ==
  /\ pubid[u] = session[u] \/ (pubid[u] = 0 /\ u \in wiped)
  /\ cUserID = u =>
       lcsCurrentPipe = <<u, session[u]>> \/ (lcsCurrentPipe = NoPipe /\ u \in wiped)

(* Those about whom no raw is under way are reached.                       *)
Links ==
  /\ cUserID \in Boxes /\ lcsCurrentPipe \in Pipes /\ pubid \in [Users -> 0..MaxSessions]
  /\ cUserID = Everyone => lcsCurrentPipe = GroupPipe
  /\ \A u \in Users : Told(raws, u) = {} /\ Has(usersOn, u) => Reach(u)

(* A visitor comes or goes, or somebody writes: r is under way.            *)
LEMMA PushStep ==
  ASSUME Roster, Links, NEW r \in Raw, NEW u \in Users, Push(r), NEW t \in 0..MaxSessions,
         \/ /\ About(r, u) /\ (r.raw = "JOIN" <=> session[u] = 0)
            /\ (r.raw = "JOIN" <=> t # 0) /\ (r.raw = "JOIN" => r.pub = t)
         \/ ~About(r, u) /\ t = session[u],
         \A v \in Users \ {u} : ~About(r, v),
         session' = [session EXCEPT ![u] = t], sessions' \in [Users -> 0..MaxSessions],
         UNCHANGED <<usersOn, cUserID, lcsCurrentPipe, pubid, wiped>>
  PROVE  Roster' /\ Links'
<1>1. raws \in Seq(Raw) /\ raws' = Append(raws, r) /\ Len(raws) < MaxRaws
  BY DEF Roster, Push
<1>2. MaxRaws \in Nat
  BY BoundsAssumption
<1>3. raws' \in Seq(Raw) /\ Len(raws') <= MaxRaws
  <2>1. raws' \in Seq(Raw) /\ Len(raws') = Len(raws) + 1 /\ Len(raws) \in Nat
    BY <1>1
  <2> QED BY <1>1, <1>2, <2>1
<1>4. session' \in [Users -> 0..MaxSessions] /\ session'[u] = t
      /\ \A v \in Users \ {u} : session'[v] = session[v]
  BY DEF Roster
<1>5. ASSUME NEW v \in Users
      PROVE  /\ News(raws', v, Has(usersOn, v), session'[v])
             /\ Told(raws', v) = {} => Told(raws, v) = {} /\ session'[v] = session[v]
  <2>1. News(raws, v, Has(usersOn, v), session[v])
    BY DEF Roster
  <2>2. CASE ~About(r, v)
    <3>1. session'[v] = session[v]
      BY <1>4, <2>2
    <3> QED BY <1>1, <2>1, <2>2, <3>1, PushOther
  <2>3. CASE About(r, v)
    <3>1. /\ v = u /\ (r.raw = "JOIN" <=> session[u] = 0)
          /\ (r.raw = "JOIN" <=> t # 0) /\ (r.raw = "JOIN" => r.pub = t)
      BY <2>3
    <3>2. News(Append(raws, r), u, Has(usersOn, u), t) /\ Told(Append(raws, r), u) # {}
      BY <1>1, <2>1, <2>3, <3>1, PushTurn
    <3> QED BY <1>1, <1>4, <3>1, <3>2
  <2> QED BY <2>2, <2>3
<1>6. Roster'
  BY <1>3, <1>4, <1>5 DEF Roster
<1>7. ASSUME NEW v \in Users, Told(raws', v) = {}, Has(usersOn, v) PROVE Reach(v)'
  <2>1. Told(raws, v) = {} /\ session'[v] = session[v]
    BY <1>5, <1>7
  <2>2. Reach(v)
    BY <1>7, <2>1 DEF Links
  <2> QED BY <2>1, <2>2 DEF Reach
<1>8. Links'
  BY <1>7 DEF Links
<1> QED BY <1>6, <1>8

(* The visitors.                                                           *)
LEMMA VisitorStep ==
  ASSUME Roster, Links, NEW u \in Users, Join(u) \/ Leave(u) \/ Writes(u)
  PROVE  Roster' /\ Links'
<1>0. /\ session \in [Users -> 0..MaxSessions] /\ sessions \in [Users -> 0..MaxSessions]
      /\ MaxSessions \in Nat
  BY BoundsAssumption DEF Roster
<1>1. CASE Join(u)
  <2> DEFINE r == [raw |-> "JOIN", user |-> u, pub |-> sessions[u] + 1]
             t == sessions[u] + 1
  <2>1. t \in 1..MaxSessions
    BY <1>0, <1>1 DEF Join
  <2>2. r \in Raw
    BY <2>1 DEF Raw
  <2>3. /\ Push(r) /\ session[u] = 0 /\ session' = [session EXCEPT ![u] = t]
        /\ sessions' = [sessions EXCEPT ![u] = @ + 1]
        /\ UNCHANGED <<usersOn, cUserID, lcsCurrentPipe, pubid, wiped>>
    BY <1>1 DEF Join, deskVars, listVars, history
  <2>4. sessions' \in [Users -> 0..MaxSessions]
    BY <1>0, <2>1, <2>3
  <2>5. r.raw = "JOIN" /\ r.pub = t /\ r.user = u /\ t # 0 /\ t \in 0..MaxSessions
    BY <1>0, <2>1
  <2> HIDE DEF r, t
  <2>6. About(r, u) /\ \A v \in Users \ {u} : ~About(r, v)
    BY <2>5 DEF About
  <2> QED BY <2>2, <2>3, <2>4, <2>5, <2>6, PushStep
<1>2. CASE Leave(u)
  <2> DEFINE r == [raw |-> "LEFT", user |-> u]
  <2>1. r \in Raw /\ r.raw = "LEFT" /\ r.user = u /\ 0 \in 0..MaxSessions
    BY <1>0 DEF Raw
  <2>2. /\ Push(r) /\ session[u] # 0 /\ session' = [session EXCEPT ![u] = 0] /\ sessions' = sessions
        /\ UNCHANGED <<usersOn, cUserID, lcsCurrentPipe, pubid, wiped>>
    BY <1>2 DEF Leave, deskVars, listVars, history
  <2> HIDE DEF r
  <2>3. About(r, u) /\ \A v \in Users \ {u} : ~About(r, v)
    BY <2>1 DEF About
  <2> QED BY <1>0, <2>1, <2>2, <2>3, PushStep
<1>3. CASE Writes(u)
  <2> DEFINE r == [raw |-> "LCS_DATA", user |-> u]
  <2>1. r \in Raw /\ r.raw = "LCS_DATA"
    BY DEF Raw
  <2>2. /\ Push(r) /\ session' = session /\ sessions' = sessions
        /\ UNCHANGED <<usersOn, cUserID, lcsCurrentPipe, pubid, wiped>>
    BY <1>3 DEF Writes, deskVars, listVars, history
  <2> HIDE DEF r
  <2>3. \A v : ~About(r, v)
    BY <2>1 DEF About
  <2>4. session[u] \in 0..MaxSessions /\ session' = [session EXCEPT ![u] = session[u]]
    BY <1>0, <2>2
  <2> QED BY <1>0, <2>1, <2>2, <2>3, <2>4, PushStep
<1> QED BY <1>1, <1>2, <1>3

(* The desk takes a raw that is about nobody's coming or going.            *)
LEMMA TakenStep ==
  ASSUME Roster, Links, raws # <<>>, raws' = Tail(raws), Head(raws).raw \notin {"JOIN", "LEFT"},
         UNCHANGED <<session, sessions, usersOn, cUserID, lcsCurrentPipe, pubid, wiped>>
  PROVE  Roster' /\ Links'
<1>1. raws \in Seq(Raw) /\ Len(raws) <= MaxRaws /\ MaxRaws \in Nat
  BY BoundsAssumption DEF Roster
<1>2. raws' \in Seq(Raw) /\ Len(raws') <= MaxRaws
  BY <1>1
<1>3. ASSUME NEW v \in Users
      PROVE  /\ News(raws', v, Has(usersOn, v), session[v])
             /\ Told(raws', v) = {} => Told(raws, v) = {}
  <2>1. News(raws, v, Has(usersOn, v), session[v]) /\ ~About(Head(raws), v)
    BY DEF Roster, About
  <2> QED BY <1>1, <2>1, PopOther
<1>4. Roster'
  BY <1>2, <1>3 DEF Roster
<1>5. \A v \in Users : Reach(v) => Reach(v)'
  BY DEF Reach
<1>6. Links'
  BY <1>3, <1>5 DEF Links
<1> QED BY <1>4, <1>6

(* The raw that the desk takes says that somebody came or went.            *)
LEMMA TurnTaken ==
  ASSUME Roster, Links, raws # <<>>, raws' = Tail(raws), NEW u \in Users, About(Head(raws), u),
         UNCHANGED <<session, sessions, cUserID>>,
         usersOn' \in Seq(Boxes), Distinct(usersOn'),
         \A v : Has(usersOn', v) <=> (IF v = u THEN Head(raws).raw = "JOIN" ELSE Has(usersOn, v)),
         lcsCurrentPipe' \in Pipes, pubid' \in [Users -> 0..MaxSessions], wiped' = wiped \ {u},
         cUserID # u => lcsCurrentPipe' = lcsCurrentPipe,
         \A v \in Users \ {u} : pubid'[v] = pubid[v],
         Head(raws).raw = "JOIN" =>
           /\ pubid'[u] = Head(raws).pub
           /\ cUserID = u => lcsCurrentPipe' = <<u, Head(raws).pub>>
  PROVE  Roster' /\ Links'
<1>1. /\ raws \in Seq(Raw) /\ Len(raws) <= MaxRaws /\ MaxRaws \in Nat
      /\ session \in [Users -> 0..MaxSessions] /\ sessions \in [Users -> 0..MaxSessions]
      /\ Has(usersOn, Everyone) /\ Everyone \notin Users
  BY BoundsAssumption, UsersAssumption DEF Roster
<1>2. raws' \in Seq(Raw) /\ Len(raws') <= MaxRaws
  BY <1>1
<1> DEFINE r == Head(raws)
<1> HIDE DEF r
<1>3. /\ News(raws', u, Has(usersOn', u), session[u])
      /\ Told(raws', u) = {} => (r.raw = "JOIN" => r.pub = session[u])
  <2>1. News(raws, u, Has(usersOn, u), session[u])
    BY DEF Roster
  <2>2. /\ News(Tail(raws), u, r.raw = "JOIN", session[u])
        /\ Told(Tail(raws), u) = {} => (r.raw = "JOIN" => r.pub = session[u])
    BY <1>1, <2>1, PopTurn DEF r
  <2>3. (r.raw = "JOIN") <=> Has(usersOn', u)
    BY DEF r
  <2> QED BY <2>2, <2>3, NewsSame
<1>4. ASSUME NEW v \in Users \ {u}
      PROVE  /\ News(raws', v, Has(usersOn', v), session[v])
             /\ Told(raws', v) = {} => Told(raws, v) = {}
             /\ Has(usersOn', v) <=> Has(usersOn, v)
  <2>1. News(raws, v, Has(usersOn, v), session[v]) /\ ~About(Head(raws), v)
    BY DEF Roster, About
  <2>2. News(raws', v, Has(usersOn, v), session[v]) /\ (Told(raws', v) = {} => Told(raws, v) = {})
    BY <1>1, <2>1, PopOther
  <2>3. Has(usersOn, v) <=> Has(usersOn', v)
    OBVIOUS
  <2> QED BY <2>2, <2>3, NewsSame
<1>5. Roster'
  <2>1. \A v \in Users : News(raws', v, Has(usersOn', v), session[v])
    BY <1>3, <1>4
  <2> QED BY <1>1, <1>2, <2>1 DEF Roster
<1>6. ASSUME NEW v \in Users, Told(raws', v) = {}, Has(usersOn', v) PROVE Reach(v)'
  <2>1. CASE v = u
    <3>1. r.raw = "JOIN" /\ r.pub = session[u]
      BY <1>3, <1>6, <2>1 DEF r
    <3> QED BY <2>1, <3>1 DEF Reach, r
  <2>2. CASE v # u
    <3>1. Reach(v)
      BY <1>4, <1>6, <2>2 DEF Links
    <3> QED BY <2>2, <3>1 DEF Reach
  <2> QED BY <2>1, <2>2
<1>7. cUserID' = Everyone => lcsCurrentPipe' = GroupPipe
  BY <1>1 DEF Links
<1>8. Links'
  BY <1>6, <1>7 DEF Links
<1> QED BY <1>5, <1>8

(* The four handlers of the desk.                                          *)
LEMMA DeskStep ==
  ASSUME Roster, Links, Desk
  PROVE  Roster' /\ Links'
<1>0. /\ raws \in Seq(Raw) /\ usersOn \in Seq(Boxes) /\ Distinct(usersOn)
      /\ pubid \in [Users -> 0..MaxSessions] /\ MaxSessions \in Nat
      /\ lcsCurrentPipe \in Pipes
  BY BoundsAssumption DEF Roster, Links
<1>r. raws # <<>> => Head(raws) \in Raw
  BY <1>0
<1> DEFINE r == Head(raws)
           u == r.user
<1>1. CASE createUser
  <2>1. /\ raws # <<>> /\ raws' = Tail(raws) /\ r.raw = "JOIN" /\ userOn(u, r.pub)
        /\ wiped' = wiped \ {u} /\ UNCHANGED <<session, sessions>>
    BY <1>1 DEF createUser, Handle
  <2>2. u \in Users /\ r.pub \in 1..MaxSessions
    BY <1>r, <2>1 DEF Raw
  <2>3. /\ pubid' = [pubid EXCEPT ![u] = r.pub] /\ usersOn' = Append(usersOn, u)
        /\ lcsCurrentPipe' = IF cUserID = u THEN <<u, r.pub>> ELSE lcsCurrentPipe
        /\ cUserID' = cUserID
    BY <2>1 DEF userOn
  <2>4. About(r, u) /\ u \in Boxes /\ r.pub \in 0..MaxSessions
    BY <1>0, <2>1, <2>2 DEF About, Boxes
  <2> HIDE DEF r, u
  <2>5. ~Has(usersOn, u)
    <3>1. News(raws, u, Has(usersOn, u), session[u])
      BY <2>2 DEF Roster
    <3>2. raws \in Seq(Raw) /\ raws # <<>> /\ About(Head(raws), u)
      BY <1>0, <2>1, <2>4 DEF r
    <3>3. Head(raws).raw = "JOIN" <=> ~Has(usersOn, u)
      BY <3>1, <3>2, PopTurn, Zenon
    <3> QED BY <2>1, <3>3 DEF r
  <2>6. /\ usersOn' \in Seq(Boxes) /\ Distinct(usersOn')
        /\ \A v : Has(usersOn', v) <=> Has(usersOn, v) \/ v = u
    BY <1>0, <2>3, <2>4, <2>5, AppendNew
  <2>7. lcsCurrentPipe' \in Pipes
    BY <1>0, <2>2, <2>3 DEF Pipes
  <2>8. /\ pubid' \in [Users -> 0..MaxSessions] /\ pubid'[u] = r.pub
        /\ \A v \in Users \ {u} : pubid'[v] = pubid[v]
    BY <1>0, <2>2, <2>3, <2>4
  <2>9. \A v : Has(usersOn', v) <=> (IF v = u THEN r.raw = "JOIN" ELSE Has(usersOn, v))
    BY <2>1, <2>6
  <2> QED BY <2>1, <2>2, <2>3, <2>4, <2>6, <2>7, <2>8, <2>9, TurnTaken DEF r
<1>2. CASE deleteUser
  <2>1. /\ raws # <<>> /\ raws' = Tail(raws) /\ r.raw = "LEFT" /\ userOff(u)
        /\ wiped' = wiped \ {u} /\ UNCHANGED <<session, sessions>>
    BY <1>2 DEF deleteUser, Handle
  <2>2. u \in Users
    BY <1>r, <2>1 DEF Raw
  <2>3. /\ pubid' = [pubid EXCEPT ![u] = 0] /\ usersOn' = Spliced(u)
        /\ UNCHANGED <<lcsCurrentPipe, cUserID>>
    BY <2>1 DEF userOff
  <2>4. About(r, u) /\ u \in Boxes /\ 0 \in 0..MaxSessions
    BY <1>0, <2>1, <2>2 DEF About, Boxes
  <2> HIDE DEF r, u
  <2>5. Has(usersOn, u)
    <3>1. News(raws, u, Has(usersOn, u), session[u])
      BY <2>2 DEF Roster
    <3>2. raws \in Seq(Raw) /\ raws # <<>> /\ About(Head(raws), u)
      BY <1>0, <2>1, <2>4 DEF r
    <3>3. Head(raws).raw = "JOIN" <=> ~Has(usersOn, u)
      BY <3>1, <3>2, PopTurn, Zenon
    <3> QED BY <2>1, <3>3 DEF r
  <2>6. usersOn' = RemoveFirst(usersOn, u)
    BY <1>0, <2>3, <2>5, RangeHas DEF Spliced
  <2>7. /\ usersOn' \in Seq(Boxes) /\ Distinct(usersOn')
        /\ \A v : Has(usersOn', v) <=> Has(usersOn, v) /\ v # u
    BY <1>0, <2>4, <2>5, <2>6, RemoveKnown
  <2>8. /\ pubid' \in [Users -> 0..MaxSessions]
        /\ \A v \in Users \ {u} : pubid'[v] = pubid[v]
    BY <1>0, <2>2, <2>3, <2>4
  <2>9. /\ \A v : Has(usersOn', v) <=> (IF v = u THEN r.raw = "JOIN" ELSE Has(usersOn, v))
        /\ r.raw # "JOIN" /\ lcsCurrentPipe' \in Pipes
    BY <1>0, <2>1, <2>3, <2>7
  <2> QED BY <2>1, <2>2, <2>3, <2>4, <2>7, <2>8, <2>9, TurnTaken DEF r
<1>3. CASE rawLcsData
  <2>1. /\ raws # <<>> /\ raws' = Tail(raws) /\ r.raw = "LCS_DATA"
        /\ UNCHANGED <<session, sessions, usersOn, cUserID, lcsCurrentPipe, pubid, wiped>>
    BY <1>3 DEF rawLcsData, Handle, onData
  <2> QED BY <2>1, TakenStep
<1>4. CASE rawLcsDearusers
  <2>1. /\ raws # <<>> /\ raws' = Tail(raws) /\ r.raw = "DEARUSERS"
        /\ UNCHANGED <<session, sessions, usersOn, cUserID, lcsCurrentPipe, pubid, wiped>>
    BY <1>4 DEF rawLcsDearusers, Handle, dearUsers
  <2> QED BY <2>1, TakenStep
<1> QED BY <1>1, <1>2, <1>3, <1>4 DEF Desk
(* The pipe that openChat takes from a box.                                *)
LEMMA PipeOfBox ==
  ASSUME NEW u
  PROVE  /\ u = Everyone => PipeOf(u) = GroupPipe
         /\ u # Everyone /\ pubid[u] # 0 => PipeOf(u) = <<u, pubid[u]>>
         /\ u # Everyone /\ pubid[u] = 0 => PipeOf(u) = NoPipe
<1>1. ASSUME u = Everyone PROVE PipeOf(u) = GroupPipe
  BY <1>1, Zenon DEF PipeOf
<1>2. ASSUME u # Everyone, pubid[u] # 0 PROVE PipeOf(u) = <<u, pubid[u]>>
  BY <1>2, Zenon DEF PipeOf
<1>3. ASSUME u # Everyone, pubid[u] = 0 PROVE PipeOf(u) = NoPipe
  BY <1>3, Zenon DEF PipeOf
<1> QED BY <1>1, <1>2, <1>3

(* Neither the visitors nor the list change.                               *)
LEMMA RosterKept ==
  ASSUME Roster, UNCHANGED <<raws, session, sessions, usersOn>>
  PROVE  Roster'
BY DEF Roster

(* The administrator opens a box.                                          *)
LEMMA OpenStep ==
  ASSUME Roster, Links, NEW u \in Boxes, OpenBox(u)
  PROVE  Roster' /\ Links'
<1>1. /\ UNCHANGED <<raws, session, sessions, usersOn, pubid, wiped>>
      /\ cUserID' = u /\ lcsCurrentPipe' = PipeOf(u)
  BY DEF OpenBox, openChat, serverVars
<1>2. pubid \in [Users -> 0..MaxSessions] /\ MaxSessions \in Nat /\ Everyone \notin Users
  BY BoundsAssumption, UsersAssumption DEF Links
<1>3. lcsCurrentPipe' \in Pipes /\ (u = Everyone => lcsCurrentPipe' = GroupPipe)
  <2>1. CASE u = Everyone
    BY <1>1, <2>1, PipeOfBox DEF Pipes
  <2>2. CASE u # Everyone
    <3>1. u \in Users /\ pubid[u] \in 0..MaxSessions
      BY <1>2, <2>2 DEF Boxes
    <3>2. pubid[u] = 0 \/ <<u, pubid[u]>> \in Users \X (1..MaxSessions)
      BY <1>2, <3>1
    <3> QED BY <1>1, <2>2, <3>2, PipeOfBox DEF Pipes
  <2> QED BY <2>1, <2>2
<1>4. ASSUME NEW v \in Users, Told(raws, v) = {}, Has(usersOn, v) PROVE Reach(v)'
  <2>1. Reach(v) /\ News(raws, v, Has(usersOn, v), session[v]) /\ v # Everyone
    BY <1>2, <1>4 DEF Links, Roster
  <2>2. session[v] # 0
    BY <1>4, <2>1 DEF News
  <2>3. PipeOf(v) = <<v, session[v]>> \/ (PipeOf(v) = NoPipe /\ v \in wiped)
    BY <2>1, <2>2, PipeOfBox DEF Reach
  <2> QED BY <1>1, <2>1, <2>3 DEF Reach
<1>5. Links'
  BY <1>1, <1>3, <1>4 DEF Links
<1> QED BY <1>1, <1>5, RosterKept

(* A box is removed, and with it the session of a visitor who is on.       *)
LEMMA RemovedStep ==
  ASSUME Roster, Links, NEW u \in Users, CamerRemoved(u)
  PROVE  Roster' /\ Links'
<1>1. /\ UNCHANGED <<raws, session, sessions, usersOn, cUserID, lcsCurrentPipe>>
      /\ pubid' = [pubid EXCEPT ![u] = 0]
      /\ wiped' = IF u \in Range(usersOn) THEN wiped \cup {u} ELSE wiped
  BY DEF CamerRemoved, removeCamerAnswered, serverVars
<1>2. pubid \in [Users -> 0..MaxSessions] /\ MaxSessions \in Nat /\ usersOn \in Seq(Boxes)
  BY BoundsAssumption DEF Links, Roster
<1>3. pubid' \in [Users -> 0..MaxSessions]
  BY <1>1, <1>2
<1>4. ASSUME NEW v \in Users, Told(raws, v) = {}, Has(usersOn, v) PROVE Reach(v)'
  <2>1. Reach(v)
    BY <1>4 DEF Links
  <2>2. v \in Range(usersOn)
    BY <1>2, <1>4, RangeHas
  <2>3. pubid'[v] = pubid[v] \/ (pubid'[v] = 0 /\ v \in wiped')
    BY <1>1, <1>2, <2>2
  <2> QED BY <1>1, <2>1, <2>3 DEF Reach
<1>5. Links'
  BY <1>1, <1>3, <1>4 DEF Links
<1> QED BY <1>1, <1>5, RosterKept

(* Nothing of it changes.                                                  *)
LEMMA LinksKept ==
  ASSUME Roster, Links,
         UNCHANGED <<raws, session, sessions, usersOn, cUserID, lcsCurrentPipe, pubid, wiped>>
  PROVE  Roster' /\ Links'
<1>1. \A v \in Users : Reach(v) => Reach(v)'
  BY DEF Reach
<1>2. Links'
  BY <1>1 DEF Links
<1> QED BY <1>2, RosterKept

(* Every step keeps the list and the links.                                *)
LEMMA RosterStep ==
  ASSUME Roster, Links, [Next]_vars
  PROVE  Roster' /\ Links'
<1> DEFINE Kept == UNCHANGED <<raws, session, sessions, usersOn, cUserID, lcsCurrentPipe, pubid, wiped>>
<1>1. ASSUME NEW u \in Users, Camer(u) PROVE CamerRemoved(u) \/ Kept
  BY <1>1 DEF Camer, removeCamer, CamerKept, deskVars, listVars, serverVars, history
<1>2. ScrollUp => Kept
  BY DEF ScrollUp, getMessage, listVars, serverVars
<1>3. Answers => Kept
  <2>1. MessagesArrive => Kept
    BY DEF MessagesArrive, getMessageAnswered, serverVars, history
  <2>2. MessagesFail => Kept
    BY DEF MessagesFail, getMessageFailed, listVars, serverVars, history
  <2> QED BY <2>1, <2>2 DEF Answers
<1>4. UNCHANGED vars \/ (\E u \in Users : msgset(u)) => Kept
  BY DEF vars, deskVars, listVars, serverVars, history, msgset
<1>5. Kept => Roster' /\ Links'
  BY LinksKept
<1>6. \/ \E u \in Users : Join(u) \/ Leave(u) \/ Writes(u) \/ CamerRemoved(u)
      \/ \E u \in Boxes : OpenBox(u)
      \/ Desk \/ Kept
  BY <1>1, <1>2, <1>3, <1>4 DEF Next, Visitor
<1> HIDE DEF Kept
<1> QED BY <1>5, <1>6, VisitorStep, RemovedStep, OpenStep, DeskStep

-----------------------------------------------------------------------------
(* The boxes of the list                                                   *)

Marks ==
  /\ cUserID \in Boxes
  /\ box \subseteq Boxes /\ Everyone \in box /\ click \subseteq box
  /\ dirty \subseteq box \ {Everyone} /\ unread \subseteq Users
  /\ UnreadMarked

(* The requests for old messages.                                          *)
Wanted == requests \in Seq(Request) /\ Len(requests) <= MaxRequests

(* Every step keeps the unread boxes marked and all but the open one       *)
(* clickable.                                                              *)
LEMMA MarksStep ==
  ASSUME Marks, Wanted, raws \in Seq(Raw), [Next]_vars
  PROVE  Marks'
<1> USE UsersAssumption DEF Marks, UnreadMarked, Boxes
<1> DEFINE Kept == UNCHANGED <<cUserID, box, click, dirty, unread, msgbox>>
<1>r. raws # <<>> => Head(raws) \in Raw
  OBVIOUS
<1>1. ASSUME NEW u \in Users, Visitor(u) PROVE Kept
  BY <1>1 DEF Visitor, Join, Leave, Writes, msgset, deskVars, listVars, history
<1>2. ASSUME NEW u \in Users, Camer(u) PROVE CamerRemoved(u) \/ Kept
  BY <1>2 DEF Camer, removeCamer, CamerKept, deskVars, listVars, history
<1>3. ScrollUp \/ MessagesFail => Kept
  BY DEF ScrollUp, getMessage, MessagesFail, getMessageFailed, listVars, history
<1>4. deleteUser \/ UNCHANGED vars => Kept
  BY DEF deleteUser, userOff, vars, deskVars, listVars, history
<1>5. Kept => Marks'
  OBVIOUS
<1>6. ASSUME NEW u \in Users, CamerRemoved(u) PROVE Marks'
  BY <1>6 DEF CamerRemoved, removeCamerAnswered
<1>7. ASSUME NEW u \in Boxes, OpenBox(u) PROVE Marks'
  BY <1>7 DEF OpenBox, openChat
<1>8. ASSUME NEW u \in Users, NodeUser(u), UNCHANGED <<cUserID, dirty, unread, msgbox>> PROVE Marks'
  BY <1>8 DEF NodeUser
<1>9. createUser => Marks'
  <2> SUFFICES ASSUME createUser PROVE Marks'
    OBVIOUS
  <2>1. Head(raws).user \in Users
    BY <1>r DEF createUser, Handle, Raw
  <2> QED BY <1>8, <2>1 DEF createUser, userOn
<1>10. MessagesArrive => Marks'
  <2> SUFFICES ASSUME MessagesArrive PROVE Marks'
    OBVIOUS
  <2>1. PICK i \in 1..Len(requests) : \E t : getMessageAnswered(i, t, named)
    BY DEF MessagesArrive
  <2>2. requests[i].user \in Users
    <3>1. requests[i] \in Request
      BY DEF Wanted
    <3> QED BY <3>1 DEF Request
  <2> QED BY <1>8, <2>1, <2>2 DEF MessagesArrive, getMessageAnswered, history
<1>11. rawLcsData => Marks'
  <2> SUFFICES ASSUME rawLcsData PROVE Marks'
    OBVIOUS
  <2> DEFINE u == Head(raws).user
  <2>1. u \in Users
    BY <1>r DEF rawLcsData, Handle, Raw
  <2>2. /\ NodeUser(u) /\ NodeMsg(u) /\ cUserID' = cUserID
        /\ dirty' = IF cUserID # u THEN dirty \cup {u} ELSE dirty
        /\ unread' = IF u = cUserID THEN unread ELSE unread \cup {u}
    BY DEF rawLcsData, onData
  <2> HIDE DEF u
  <2> QED BY <2>1, <2>2 DEF NodeUser, NodeMsg
<1>12. rawLcsDearusers => Marks'
  <2> SUFFICES ASSUME rawLcsDearusers PROVE Marks'
    OBVIOUS
  <2>1. PICK us \in SUBSET Users : dearUsers(us) /\ unread' = unread \cup (us \ {cUserID})
    BY DEF rawLcsDearusers
  <2> QED BY <2>1 DEF dearUsers
<1> HIDE DEF Kept, Marks
<1> QED BY <1>1, <1>2, <1>3, <1>4, <1>5, <1>6, <1>7, <1>9, <1>10, <1>11, <1>12 DEF Next, Desk, Answers

-----------------------------------------------------------------------------
(* The pages of old messages                                               *)

(* At most one request for the old messages of u, and for the next page.   *)
OneAsked(u) ==
  \A i \in 1..Len(requests) : requests[i].user = u =>
    /\ requests[i].pg = usersLoadPage[u] + 1
    /\ \A j \in 1..Len(requests) : requests[j].user = u => i = j

(* The n pages p in the panel of a visitor, who has t messages as far as   *)
(* the desk knows: in order, none of them empty, and t is what the last    *)
(* one said.                                                               *)
Shown(p, n, t) ==
  /\ Len(p) = n
  /\ \A i \in 1..Len(p) : p[i].pg = i /\ Npp * (i - 1) < p[i].ntt
  /\ t # 0 => n > 0 /\ t = p[n].ntt

(* The pages that came, and at most one on the way, unless two were under  *)
(* way at a time.                                                          *)
Reading ==
  /\ usersLoadPage \in [Users -> Nat] /\ usersTotalMsg \in [Users -> Nat]
  /\ recently \in [Users -> Seq(Page)]
  /\ ~named => \A u \in Users : usersTotalMsg[u] = 0
  /\ \A u \in Users \ overlap :
       OneAsked(u) /\ Shown(recently[u], usersLoadPage[u], usersTotalMsg[u])

(* A page more.                                                            *)
LEMMA ShownMore ==
  ASSUME NEW p \in Seq(Page), NEW n \in Nat, NEW t \in Nat, Shown(p, n, t),
         NEW k \in Nat, Npp * n < k, NEW s, s = k \/ s = 0
  PROVE  Shown(Append(p, [pg |-> n + 1, ntt |-> k]), n + 1, s)
<1> DEFINE g == [pg |-> n + 1, ntt |-> k]
           q == Append(p, g)
<1>1. g \in Page /\ g.pg = n + 1 /\ g.ntt = k
  BY DEF Page
<1> HIDE DEF g
<1>2. /\ Len(q) = n + 1 /\ q[n + 1] = g
      /\ \A i \in 1..n : q[i] = p[i]
  BY <1>1 DEF Shown
<1>3. \A i \in 1..(n + 1) : i \in 1..n \/ i = n + 1
  OBVIOUS
<1>4. (n + 1) - 1 = n /\ n + 1 > 0
  OBVIOUS
<1> HIDE DEF q
<1>5. ASSUME NEW i \in 1..(n + 1) PROVE q[i].pg = i /\ Npp * (i - 1) < q[i].ntt
  <2>1. CASE i \in 1..n
    BY <1>2, <2>1 DEF Shown
  <2>2. CASE i = n + 1
    BY <1>1, <1>2, <1>4, <2>2
  <2> QED BY <1>3, <2>1, <2>2
<1>6. s # 0 => s = q[n + 1].ntt
  BY <1>1, <1>2
<1>7. Shown(q, n + 1, s)
  BY <1>2, <1>4, <1>5, <1>6 DEF Shown
<1> QED BY <1>7 DEF q, g

(* What such pages show (mmisc_pagediv and ORDER BY intime DESC): a page   *)
(* begins where the one before ended, but for what was stored in between.  *)
LEMMA ShownOrder ==
  ASSUME NEW p \in Seq(Page), NEW n \in Nat, NEW t \in Nat, Shown(p, n, t)
  PROVE  /\ \A i, j \in 1..Len(p) :
              i < j /\ p[j].ntt <= p[i].ntt => Messages(p[i]) \cap Messages(p[j]) = {}
         /\ \A i \in 1..(Len(p) - 1) : p[i].ntt <= p[i + 1].ntt =>
              \A m \in 1..p[i].ntt :
                (\A k \in Messages(p[i]) : m < k) => \E k \in Messages(p[i + 1]) : m <= k
         /\ ~(t = 0 \/ t > Npp * n) => 1 \in Messages(p[Len(p)])
<1>0. Npp \in Nat /\ Npp > 0 /\ Len(p) = n
  BY UsersAssumption DEF Shown
<1>1. ASSUME NEW i \in 1..n
      PROVE  /\ p[i].pg = i /\ p[i].ntt \in Nat /\ Npp * (i - 1) < p[i].ntt
             /\ Npp * i \in Nat /\ Npp * (i - 1) \in Nat /\ Npp * i = Npp * (i - 1) + Npp
  <2>1. p[i] \in Page
    BY <1>0
  <2>2. p[i].ntt \in Nat
    BY <2>1 DEF Page
  <2>3. p[i].pg = i /\ Npp * (i - 1) < p[i].ntt
    BY <1>0 DEF Shown
  <2>4. Npp * i \in Nat /\ Npp * (i - 1) \in Nat /\ Npp * i = Npp * (i - 1) + Npp
    BY <1>0
  <2> QED BY <2>2, <2>3, <2>4
<1>2. ASSUME NEW i \in 1..n, NEW m
      PROVE  m \in Messages(p[i]) <=>
               /\ m \in 1..p[i].ntt
               /\ p[i].ntt - Npp * i < m /\ m <= p[i].ntt - Npp * (i - 1)
  BY <1>1 DEF Messages
<1>3. ASSUME NEW i \in 1..n, NEW j \in 1..n, i < j, p[j].ntt <= p[i].ntt, NEW m,
             m \in Messages(p[i]), m \in Messages(p[j])
      PROVE  FALSE
  <2>1. Npp * i <= Npp * (j - 1)
    <3>1. i \in Nat /\ j - 1 \in Nat /\ i <= j - 1
      BY <1>3
    <3>2. \E d \in Nat : j - 1 = i + d
      <4>1. (j - 1) - i \in Nat /\ j - 1 = i + ((j - 1) - i)
        BY <3>1
      <4> QED BY <4>1
    <3>3. PICK d \in Nat : j - 1 = i + d
      BY <3>2
    <3>4. Npp * (i + d) = Npp * i + Npp * d /\ Npp * d \in Nat /\ Npp * i \in Nat
      BY <1>0, <3>1
    <3> QED BY <3>3, <3>4
  <2>2. p[i].ntt - Npp * i < m /\ m \in Int /\ m <= p[j].ntt - Npp * (j - 1)
    <3>1. m \in 1..p[i].ntt /\ p[i].ntt - Npp * i < m /\ m <= p[j].ntt - Npp * (j - 1)
      BY <1>2, <1>3, Zenon
    <3> QED BY <3>1
  <2> HIDE DEF Messages
  <2>3. Npp * i \in Nat /\ p[i].ntt \in Nat
    BY <1>1, Zenon
  <2>4. Npp * (j - 1) \in Nat /\ p[j].ntt \in Nat
    BY <1>1, Zenon
  <2> QED BY <1>3, <2>1, <2>2, <2>3, <2>4
<1>4. ASSUME NEW i \in 1..(n - 1), p[i].ntt <= p[i + 1].ntt, NEW m \in 1..p[i].ntt,
             \A k \in Messages(p[i]) : m < k
      PROVE  \E k \in Messages(p[i + 1]) : m <= k
  <2>1. i \in 1..n /\ i + 1 \in 1..n /\ (i + 1) - 1 = i
    OBVIOUS
  <2>2. /\ p[i].ntt \in Nat /\ p[i + 1].ntt \in Nat /\ Npp * i \in Nat /\ Npp * i < p[i + 1].ntt
        /\ Npp * (i + 1) = Npp * i + Npp /\ Npp * i = Npp * (i - 1) + Npp /\ Npp * (i - 1) \in Nat
        /\ Npp * (i - 1) < p[i].ntt
    BY <1>1, <2>1
  <2> DEFINE k == p[i + 1].ntt - Npp * i
             l == p[i].ntt - Npp * (i - 1)
  <2>3. k \in Messages(p[i + 1])
    <3>1. k \in 1..p[i + 1].ntt
      BY <2>2
    <3>2. p[i + 1].ntt - Npp * (i + 1) < k
      BY <1>0, <2>2
    <3>3. k <= p[i + 1].ntt - Npp * ((i + 1) - 1)
      BY <2>1, <2>2
    <3> QED BY <1>2, <2>1, <3>1, <3>2, <3>3
  <2>4. m <= k
    <3>1. l \in Messages(p[i])
      <4>1. l \in 1..p[i].ntt /\ p[i].ntt - Npp * i < l /\ l <= p[i].ntt - Npp * (i - 1)
        <5>1. \A N, a, b \in Nat : a < N /\ b = a + Npp =>
                N - a \in 1..N /\ N - b < N - a /\ N - a <= N - a
          BY <1>0
        <5>2. Npp * i \in Nat /\ Npp * (i - 1) \in Nat /\ p[i].ntt \in Nat
          BY <2>2
        <5> QED BY <2>2, <5>1, <5>2, Zenon
      <4> HIDE DEF l
      <4> QED BY <1>2, <2>1, <4>1, Zenon
    <3>2. m < l
      BY <1>4, <3>1
    <3>3. m \notin Messages(p[i])
      <4>1. ASSUME m \in Messages(p[i]) PROVE FALSE
        <5>1. m < m
          BY <1>4, <4>1
        <5> QED BY <5>1
      <4> QED BY <4>1
    <3>4. ~(p[i].ntt - Npp * i < m)
      BY <1>2, <2>1, <2>2, <3>2, <3>3
    <3> QED BY <1>4, <2>2, <3>4
  <2> QED BY <2>3, <2>4
<1>5. ASSUME t # 0, ~(t > Npp * n) PROVE 1 \in Messages(p[n])
  <2>1. n > 0 /\ t = p[n].ntt
    BY <1>5 DEF Shown
  <2>2. n \in 1..n
    BY <2>1
  <2>3. /\ p[n].ntt \in Nat /\ Npp * (n - 1) < p[n].ntt /\ Npp * n \in Nat /\ Npp * (n - 1) \in Nat
    BY <1>1, <2>2
  <2>4. 1 \in 1..p[n].ntt /\ p[n].ntt - Npp * n < 1 /\ 1 <= p[n].ntt - Npp * (n - 1)
    BY <1>5, <2>1, <2>3
  <2> QED BY <1>2, <2>2, <2>4
<1> HIDE DEF Messages
<1>6. \A i, j \in 1..n : i < j /\ p[j].ntt <= p[i].ntt => Messages(p[i]) \cap Messages(p[j]) = {}
  BY <1>3
<1> QED BY <1>0, <1>4, <1>5, <1>6

(* openChat or the scrolling asks for a page.                              *)
LEMMA AskStep ==
  ASSUME Wanted, Reading, NEW u \in Users, Len(requests) < MaxRequests,
         requests' \in {requests, Asked(u)}, Overlapping(u),
         UNCHANGED <<usersLoadPage, usersTotalMsg, recently, named>>
  PROVE  Wanted' /\ Reading'
<1>1. /\ requests \in Seq(Request) /\ Len(requests) \in Nat /\ MaxRequests \in Nat
      /\ usersLoadPage \in [Users -> Nat]
  BY BoundsAssumption DEF Wanted, Reading
<1>2. CASE requests' = requests
  <2>1. overlap' = overlap
    BY <1>2 DEF Overlapping
  <2> QED BY <1>2, <2>1 DEF Wanted, Reading, OneAsked
<1>3. CASE requests' # requests
  <2> DEFINE r == [user |-> u, pg |-> usersLoadPage[u] + 1]
             n == Len(requests) + 1
  <2>1. requests' = Append(requests, r)
    BY <1>3 DEF Asked
  <2>2. r \in Request /\ r.user = u /\ r.pg = usersLoadPage[u] + 1
    <3>1. usersLoadPage[u] \in Nat
      BY <1>1
    <3> QED BY <3>1 DEF Request
  <2> HIDE DEF r
  <2>3. /\ requests' \in Seq(Request) /\ Len(requests') = n /\ requests'[n] = r
        /\ \A i \in 1..Len(requests) : requests'[i] = requests[i]
        /\ \A i : i \in 1..n <=> i \in 1..Len(requests) \/ i = n
        /\ n <= MaxRequests
    BY <1>1, <2>1, <2>2
  <2> HIDE DEF n
  <2>4. Wanted'
    BY <2>3 DEF Wanted
  <2>5. overlap' = IF Pending(u) THEN overlap \cup {u} ELSE overlap
    BY <1>3 DEF Overlapping
  <2>6. ASSUME NEW v \in Users \ overlap', NEW i \in 1..n, requests'[i].user = v
        PROVE  /\ requests'[i].pg = usersLoadPage[v] + 1
               /\ \A j \in 1..n : requests'[j].user = v => i = j
    <3>1. v \in Users \ overlap /\ (v = u => ~Pending(u))
      BY <2>5, <2>6
    <3>2. CASE v = u
      <4>1. \A k \in 1..Len(requests) : requests'[k].user # u
        BY <2>3, <3>1, <3>2 DEF Pending
      <4>2. i = n /\ \A j \in 1..n : requests'[j].user = v => j = n
        BY <2>3, <2>6, <3>2, <4>1
      <4> QED BY <2>2, <2>3, <3>2, <4>2
    <3>3. CASE v # u
      <4>1. i \in 1..Len(requests) /\ \A j \in 1..n : requests'[j].user = v => j \in 1..Len(requests)
        BY <2>2, <2>3, <2>6, <3>3
      <4>2. /\ requests[i].user = v
            /\ \A j \in 1..n : requests'[j].user = v => requests[j].user = v
        BY <2>3, <2>6, <4>1
      <4>3. OneAsked(v)
        BY <3>1 DEF Reading
      <4>4. requests'[i].pg = usersLoadPage[v] + 1
        BY <2>3, <4>1, <4>2, <4>3 DEF OneAsked
      <4>5. \A j \in 1..n : requests'[j].user = v => i = j
        BY <4>1, <4>2, <4>3 DEF OneAsked
      <4> QED BY <4>4, <4>5
    <3> QED BY <3>2, <3>3
  <2>7. ASSUME NEW v \in Users \ overlap'
        PROVE  Shown(recently'[v], usersLoadPage'[v], usersTotalMsg'[v])
    BY <2>5 DEF Reading
  <2>8. ASSUME NEW v \in Users \ overlap' PROVE OneAsked(v)'
    <3>1. usersLoadPage' = usersLoadPage /\ Len(requests') = n
      BY <2>3
    <3> QED BY <2>6, <3>1 DEF OneAsked
  <2>9. Reading'
    BY <2>7, <2>8 DEF Reading
  <2> QED BY <2>4, <2>9
<1> QED BY <1>2, <1>3

(* A request ends.                                                         *)
LEMMA EndedRequest ==
  ASSUME Wanted, NEW i \in 1..Len(requests), requests' = RemoveAt(requests, i)
  PROVE  /\ Wanted' /\ Len(requests') = Len(requests) - 1
         /\ \A k \in 1..Len(requests') : \E l \in 1..Len(requests) \ {i} :
              /\ requests'[k] = requests[l]
              /\ l = IF k < i THEN k ELSE k + 1
<1>1. requests \in Seq(Request) /\ Len(requests) \in Nat /\ Len(requests) <= MaxRequests /\ MaxRequests \in Nat
  BY BoundsAssumption DEF Wanted
<1>2. /\ requests' \in Seq(Request) /\ Len(requests') = Len(requests) - 1
      /\ \A k \in 1..(Len(requests) - 1) :
           requests'[k] = IF k < i THEN requests[k] ELSE requests[k + 1]
  BY <1>1, RemoveAtEffect
<1>3. ASSUME NEW k \in 1..Len(requests')
      PROVE  \E l \in 1..Len(requests) \ {i} : requests'[k] = requests[l] /\ l = IF k < i THEN k ELSE k + 1
  <2>1. CASE k < i
    BY <1>1, <1>2, <2>1
  <2>2. CASE ~(k < i)
    <3>1. k + 1 \in 1..Len(requests) \ {i} /\ requests'[k] = requests[k + 1]
      BY <1>1, <1>2, <2>2
    <3> QED BY <2>2, <3>1
  <2> QED BY <2>1, <2>2
<1>4. Wanted'
  BY <1>1, <1>2 DEF Wanted
<1> QED BY <1>2, <1>3, <1>4

(* A page comes, and is counted and shown behind the others.               *)
LEMMA AnswerStep ==
  ASSUME Wanted, Reading, NEW i \in 1..Len(requests), NEW t \in Nat,
         getMessageAnswered(i, t, named), UNCHANGED <<overlap, named>>
  PROVE  Wanted' /\ Reading'
<1> DEFINE u == requests[i].user
           g == requests[i].pg
           page == [pg |-> g, ntt |-> t]
<1>1. requests[i] \in Request /\ requests \in Seq(Request)
  BY DEF Wanted
<1>2. u \in Users /\ g \in Nat
  BY <1>1 DEF Request
<1>3. /\ recently' = [recently EXCEPT ![u] = Append(@, page)]
      /\ usersTotalMsg' = IF named THEN [usersTotalMsg EXCEPT ![u] = t] ELSE usersTotalMsg
      /\ usersLoadPage' = [usersLoadPage EXCEPT ![u] = @ + 1]
      /\ requests' = RemoveAt(requests, i)
      /\ Messages(page) # {}
  BY DEF getMessageAnswered
<1> HIDE DEF u, g
<1>p. page \in Page /\ page.pg = g /\ page.ntt = t
  BY <1>2 DEF Page
<1>q. Npp * (g - 1) < t
  <2>1. PICK m \in 1..page.ntt : m <= page.ntt - Npp * (page.pg - 1)
    BY <1>3 DEF Messages
  <2>2. Npp \in Int /\ Npp * (g - 1) \in Int
    BY <1>2, UsersAssumption
  <2> HIDE DEF page
  <2> QED BY <1>p, <2>1, <2>2
<1> HIDE DEF page
<1>4. /\ usersLoadPage \in [Users -> Nat] /\ usersTotalMsg \in [Users -> Nat]
      /\ recently \in [Users -> Seq(Page)]
  BY DEF Reading
<1>5. /\ usersLoadPage' \in [Users -> Nat] /\ usersLoadPage'[u] = usersLoadPage[u] + 1
      /\ \A v \in Users \ {u} : usersLoadPage'[v] = usersLoadPage[v]
  BY <1>2, <1>3, <1>4
<1>6. /\ recently' \in [Users -> Seq(Page)] /\ recently'[u] = Append(recently[u], page)
      /\ \A v \in Users \ {u} : recently'[v] = recently[v]
  <2>1. recently[u] \in Seq(Page)
    BY <1>2, <1>4
  <2>2. Append(recently[u], page) \in Seq(Page)
    BY <1>p, <2>1
  <2> QED BY <1>2, <1>3, <1>4, <2>2
<1>7. /\ usersTotalMsg' \in [Users -> Nat] /\ (usersTotalMsg'[u] = t \/ usersTotalMsg'[u] = 0)
      /\ \A v \in Users \ {u} : usersTotalMsg'[v] = usersTotalMsg[v]
      /\ ~named => \A v \in Users : usersTotalMsg'[v] = 0
  <2>1. CASE named
    BY <1>2, <1>3, <1>4, <2>1
  <2>2. CASE ~named
    BY <1>2, <1>3, <1>4, <2>2 DEF Reading
  <2> QED BY <2>1, <2>2
<1>8. ASSUME NEW v \in Users \ overlap
      PROVE  Shown(recently'[v], usersLoadPage'[v], usersTotalMsg'[v])
  <2>1. Shown(recently[v], usersLoadPage[v], usersTotalMsg[v])
    BY DEF Reading
  <2>2. CASE v = u
    <3>1. g = usersLoadPage[u] + 1
      BY <2>2 DEF Reading, OneAsked, u, g
    <3>2. /\ usersLoadPage[u] \in Nat /\ usersTotalMsg[u] \in Nat /\ recently[u] \in Seq(Page)
      BY <1>2, <1>4
    <3>3. Npp * usersLoadPage[u] < t
      <4>1. g - 1 = usersLoadPage[u]
        BY <3>1, <3>2
      <4> QED BY <1>q, <4>1
    <3>4. Shown(Append(recently[u], [pg |-> usersLoadPage[u] + 1, ntt |-> t]),
                usersLoadPage[u] + 1, usersTotalMsg'[u])
      BY <1>7, <2>1, <2>2, <3>2, <3>3, ShownMore
    <3> QED BY <1>5, <1>6, <2>2, <3>1, <3>4 DEF page
  <2>3. CASE v # u
    BY <1>5, <1>6, <1>7, <2>1, <2>3
  <2> QED BY <2>2, <2>3
<1>9. /\ Wanted' /\ Len(requests') = Len(requests) - 1
      /\ \A k \in 1..Len(requests') : \E l \in 1..Len(requests) \ {i} :
           requests'[k] = requests[l] /\ l = IF k < i THEN k ELSE k + 1
  BY <1>3, EndedRequest
<1>10. ASSUME NEW v \in Users \ overlap, NEW k \in 1..Len(requests'), requests'[k].user = v
       PROVE  /\ requests'[k].pg = usersLoadPage'[v] + 1
              /\ \A j \in 1..Len(requests') : requests'[j].user = v => k = j
  <2>1. PICK l \in 1..Len(requests) \ {i} : requests'[k] = requests[l] /\ l = IF k < i THEN k ELSE k + 1
    BY <1>9
  <2>2. v # u
    BY <1>10, <2>1 DEF Reading, OneAsked, u
  <2>3. requests[l].pg = usersLoadPage[v] + 1
    BY <1>10, <2>1 DEF Reading, OneAsked
  <2>4. ASSUME NEW j \in 1..Len(requests'), requests'[j].user = v PROVE k = j
    <3>1. PICK m \in 1..Len(requests) \ {i} : requests'[j] = requests[m] /\ m = IF j < i THEN j ELSE j + 1
      BY <1>9
    <3>2. l = m
      BY <1>10, <2>1, <2>4, <3>1 DEF Reading, OneAsked
    <3>3. i \in Int /\ k \in Int /\ j \in Int
      OBVIOUS
    <3> QED BY <2>1, <3>1, <3>2, <3>3
  <2> QED BY <1>5, <2>1, <2>2, <2>3, <2>4
<1>11. ASSUME NEW v \in Users \ overlap PROVE OneAsked(v)'
  BY <1>10 DEF OneAsked
<1>12. Reading'
  BY <1>5, <1>6, <1>7, <1>8, <1>11 DEF Reading
<1> QED BY <1>9, <1>12

(* A request fails, and nothing came.                                      *)
LEMMA FailStep ==
  ASSUME Wanted, Reading, NEW i \in 1..Len(requests), getMessageFailed(i), UNCHANGED <<overlap, named>>
  PROVE  Wanted' /\ Reading'
<1>1. requests' = RemoveAt(requests, i) /\ UNCHANGED <<usersLoadPage, usersTotalMsg, recently>>
  BY DEF getMessageFailed
<1>2. /\ Wanted'
      /\ \A k \in 1..Len(requests') : \E l \in 1..Len(requests) \ {i} :
           requests'[k] = requests[l] /\ l = IF k < i THEN k ELSE k + 1
  BY <1>1, EndedRequest
<1>3. ASSUME NEW v \in Users \ overlap, NEW k \in 1..Len(requests'), requests'[k].user = v
      PROVE  /\ requests'[k].pg = usersLoadPage[v] + 1
             /\ \A j \in 1..Len(requests') : requests'[j].user = v => k = j
  <2>1. PICK l \in 1..Len(requests) \ {i} : requests'[k] = requests[l] /\ l = IF k < i THEN k ELSE k + 1
    BY <1>2
  <2>2. requests[l].pg = usersLoadPage[v] + 1
    BY <1>3, <2>1 DEF Reading, OneAsked
  <2>3. ASSUME NEW j \in 1..Len(requests'), requests'[j].user = v PROVE k = j
    <3>1. PICK m \in 1..Len(requests) \ {i} : requests'[j] = requests[m] /\ m = IF j < i THEN j ELSE j + 1
      BY <1>2
    <3>2. l = m
      BY <1>3, <2>1, <2>3, <3>1 DEF Reading, OneAsked
    <3>3. i \in Int /\ k \in Int /\ j \in Int
      OBVIOUS
    <3> QED BY <2>1, <3>1, <3>2, <3>3
  <2> QED BY <2>1, <2>2, <2>3
<1>4. ASSUME NEW v \in Users \ overlap PROVE OneAsked(v)'
  BY <1>1, <1>3 DEF OneAsked
<1>5. ASSUME NEW v \in Users \ overlap
      PROVE  Shown(recently'[v], usersLoadPage'[v], usersTotalMsg'[v])
  BY <1>1 DEF Reading
<1>6. Reading'
  BY <1>1, <1>4, <1>5 DEF Reading
<1> QED BY <1>2, <1>6

-----------------------------------------------------------------------------
(* The inductive invariant                                                 *)

(* The rest of the page; the box of everyone has no old messages to fetch. *)
Rest ==
  /\ usersFetched \subseteq Boxes /\ Everyone \in usersFetched
  /\ usersNew \subseteq Users /\ stored \in [Users -> Nat] /\ named \in BOOLEAN
  /\ wiped \subseteq Users /\ overlap \subseteq Users
  /\ camer \in [Users -> {"listed", "clicked", "none"}]

IInv == Roster /\ Links /\ Marks /\ Wanted /\ Reading /\ Rest

(* Every step keeps the pages in order.                                    *)
LEMMA ReadingStep ==
  ASSUME IInv, [Next]_vars
  PROVE  Wanted' /\ Reading'
<1> USE DEF IInv
<1> DEFINE Kept == UNCHANGED <<requests, usersLoadPage, usersTotalMsg, recently, overlap, named>>
<1>1. ASSUME NEW u \in Users, Visitor(u) \/ Camer(u) PROVE Kept
  <2>1. Visitor(u) => Kept
    BY DEF Visitor, Join, Leave, Writes, msgset, tableVars, deskVars, historyVars, history
  <2>2. Camer(u) => Kept
    BY DEF Camer, removeCamer, CamerRemoved, removeCamerAnswered, CamerKept, serverVars, tableVars, deskVars, historyVars, history
  <2> QED BY <1>1, <2>1, <2>2
<1>2. Desk => Kept
  BY DEF Desk, createUser, userOn, deleteUser, userOff, rawLcsData, onData, rawLcsDearusers,
         dearUsers, historyVars, tableVars
<1>3. UNCHANGED vars => Kept
  BY DEF vars, deskVars, historyVars, history, serverVars, tableVars
<1>4. Kept => Wanted' /\ Reading'
  BY DEF Wanted, Reading, OneAsked
<1>5. ASSUME NEW u \in Boxes, OpenBox(u) PROVE Wanted' /\ Reading'
  <2>1. /\ Len(requests) < MaxRequests /\ Overlapping(u)
        /\ requests' = IF u \in usersFetched THEN requests ELSE Asked(u)
        /\ UNCHANGED <<usersLoadPage, usersTotalMsg, recently, named>>
    BY <1>5 DEF OpenBox, openChat, serverVars, tableVars
  <2>2. CASE u \in Users
    <3>1. requests' \in {requests, Asked(u)}
      BY <2>1
    <3> QED BY <2>1, <2>2, <3>1, AskStep
  <2>3. CASE u = Everyone
    <3>1. requests' = requests
      BY <2>1, <2>3 DEF Rest
    <3>2. Kept
      BY <2>1, <3>1 DEF Overlapping
    <3> QED BY <1>4, <3>2
  <2> QED BY <2>2, <2>3 DEF Boxes
<1>6. ScrollUp => Wanted' /\ Reading'
  <2> SUFFICES ASSUME ScrollUp PROVE Wanted' /\ Reading'
    OBVIOUS
  <2>1. cUserID \in Users
    BY DEF ScrollUp, getMessage, Links, Boxes
  <2>2. /\ Len(requests) < MaxRequests /\ Overlapping(cUserID) /\ requests' \in {requests, Asked(cUserID)}
        /\ UNCHANGED <<usersLoadPage, usersTotalMsg, recently, named>>
    BY DEF ScrollUp, getMessage, serverVars, tableVars
  <2> QED BY <2>1, <2>2, AskStep
<1>7. Answers => Wanted' /\ Reading'
  <2>1. MessagesArrive => Wanted' /\ Reading'
    <3> SUFFICES ASSUME MessagesArrive PROVE Wanted' /\ Reading'
      OBVIOUS
    <3>1. PICK i \in 1..Len(requests) :
            \E t \in Stored[requests[i].user]..stored[requests[i].user] : getMessageAnswered(i, t, named)
      BY DEF MessagesArrive
    <3>2. requests[i] \in Request
      BY DEF Wanted
    <3>3. requests[i].user \in Users
      BY <3>2 DEF Request
    <3>4. Stored[requests[i].user] \in Nat
      BY <3>3, BoundsAssumption
    <3>5. stored[requests[i].user] \in Nat
      BY <3>3 DEF Rest
    <3>6. PICK t \in Nat : getMessageAnswered(i, t, named)
      BY <3>1, <3>4, <3>5
    <3>7. UNCHANGED <<overlap, named>>
      BY DEF MessagesArrive, history, serverVars, tableVars
    <3> QED BY <3>6, <3>7, AnswerStep
  <2>2. MessagesFail => Wanted' /\ Reading'
    BY FailStep DEF MessagesFail, history, serverVars, tableVars
  <2> QED BY <2>1, <2>2 DEF Answers
<1> HIDE DEF Kept, IInv
<1> QED BY <1>1, <1>2, <1>3, <1>4, <1>5, <1>6, <1>7 DEF Next

(* Every step keeps the rest.                                              *)
LEMMA RestStep ==
  ASSUME IInv, [Next]_vars
  PROVE  Rest'
<1> USE DEF Boxes
<1>1. Rest /\ Wanted /\ Marks /\ raws \in Seq(Raw)
  BY DEF IInv, Roster
<1>2. raws # <<>> => Head(raws) \in Raw
  BY <1>1
<1>3. ASSUME NEW u \in Users, Visitor(u) PROVE Rest'
  <2>1. CASE Join(u) \/ Leave(u) \/ Writes(u)
    BY <1>1, <2>1 DEF Rest, Join, Leave, Writes, tableVars, deskVars, historyVars, history
  <2>2. CASE msgset(u)
    BY <1>1, <2>2 DEF Rest, msgset, deskVars, historyVars, history
  <2> QED BY <1>3, <2>1, <2>2 DEF Visitor
<1>4. ASSUME NEW u \in Users, Camer(u) PROVE Rest'
  <2>1. CASE removeCamer(u) \/ CamerKept(u)
    BY <1>1, <2>1 DEF Rest, removeCamer, CamerKept, serverVars, tableVars, deskVars, historyVars, history
  <2>2. CASE CamerRemoved(u)
    BY <1>1, <2>2 DEF Rest, CamerRemoved, removeCamerAnswered, serverVars, tableVars, historyVars
  <2> QED BY <1>4, <2>1, <2>2 DEF Camer
<1>5. ASSUME NEW u \in Boxes, OpenBox(u) PROVE Rest'
  <2>1. CASE u = Everyone
    <3>1. overlap' = overlap
      BY <1>1, <1>5, <2>1 DEF Rest, OpenBox, openChat, Overlapping
    <3> QED BY <1>1, <1>5, <3>1 DEF Rest, OpenBox, openChat, serverVars, tableVars
  <2>2. CASE u \in Users
    BY <1>1, <1>5, <2>2 DEF Rest, OpenBox, openChat, serverVars, tableVars, Overlapping
  <2> QED BY <2>1, <2>2
<1>6. ScrollUp => Rest'
  <2> SUFFICES ASSUME ScrollUp PROVE Rest'
    OBVIOUS
  <2>1. cUserID \in Users
    BY <1>1 DEF ScrollUp, getMessage, Marks
  <2> QED BY <1>1, <2>1 DEF Rest, ScrollUp, getMessage, serverVars, tableVars, Overlapping
<1>7. Desk => Rest'
  <2>1. createUser => Rest'
    <3> SUFFICES ASSUME createUser PROVE Rest'
      OBVIOUS
    <3>1. Head(raws).user \in Users
      BY <1>2 DEF createUser, Handle, Raw
    <3> QED BY <1>1, <3>1 DEF Rest, createUser, userOn, tableVars, historyVars
  <2>2. deleteUser => Rest'
    BY <1>1 DEF Rest, deleteUser, userOff, tableVars, historyVars
  <2>3. rawLcsData => Rest'
    <3> SUFFICES ASSUME rawLcsData PROVE Rest'
      OBVIOUS
    <3>1. Head(raws).user \in Users
      BY <1>2 DEF rawLcsData, Handle, Raw
    <3> QED BY <1>1, <3>1 DEF Rest, rawLcsData, onData, tableVars
  <2>4. rawLcsDearusers => Rest'
    BY <1>1 DEF Rest, rawLcsDearusers, dearUsers, tableVars, historyVars
  <2> QED BY <2>1, <2>2, <2>3, <2>4 DEF Desk
<1>8. Answers => Rest'
  <2>1. MessagesArrive => Rest'
    <3> SUFFICES ASSUME MessagesArrive PROVE Rest'
      OBVIOUS
    <3>1. PICK i \in 1..Len(requests) : \E t : getMessageAnswered(i, t, named)
      BY DEF MessagesArrive
    <3>2. requests[i] \in Request
      BY <1>1 DEF Wanted
    <3>3. requests[i].user \in Users
      BY <3>2 DEF Request
    <3> QED BY <1>1, <3>1, <3>3 DEF Rest, MessagesArrive, getMessageAnswered, history, serverVars, tableVars
  <2>2. MessagesFail => Rest'
    BY <1>1 DEF Rest, MessagesFail, getMessageFailed, history, serverVars, tableVars
  <2> QED BY <2>1, <2>2 DEF Answers
<1>9. UNCHANGED vars => Rest'
  BY <1>1 DEF Rest, vars, deskVars, historyVars, history, serverVars, tableVars
<1> QED BY <1>3, <1>4, <1>5, <1>6, <1>7, <1>8, <1>9 DEF Next

(* The page as it is served, before anybody comes.                         *)
LEMMA InitIInv == Init => IInv
<1> SUFFICES ASSUME Init PROVE IInv
  OBVIOUS
<1> USE UsersAssumption, BoundsAssumption DEF Boxes
<1>1. /\ MaxSessions \in Nat /\ MaxRaws \in Nat /\ MaxRaws >= 1 /\ MaxRequests \in Nat
  OBVIOUS
<1>2. /\ raws = <<[raw |-> "DEARUSERS"]>> /\ usersOn = <<Everyone>> /\ session = [u \in Users |-> 0]
      /\ pubid = [u \in Users |-> 0] /\ sessions = session
      /\ cUserID = Everyone /\ lcsCurrentPipe = GroupPipe
  BY DEF Init, DeskInit
<1>3. Roster
  <2>1. [raw |-> "DEARUSERS"] \in Raw
    BY DEF Raw
  <2>2. raws \in Seq(Raw) /\ Len(raws) = 1 /\ raws[1].raw = "DEARUSERS"
    BY <1>2, <2>1
  <2>3. usersOn \in Seq(Boxes) /\ Len(usersOn) = 1 /\ usersOn[1] = Everyone
    BY <1>2
  <2>4. Distinct(usersOn) /\ Has(usersOn, Everyone)
    BY <2>3 DEF Distinct, Has
  <2>5. ASSUME NEW u \in Users PROVE News(raws, u, Has(usersOn, u), session[u])
    <3>1. Told(raws, u) = {}
      BY <2>2 DEF Told, About
    <3>2. ~Has(usersOn, u) /\ session[u] = 0
      BY <1>2, <2>3 DEF Has
    <3> QED BY <3>1, <3>2, Zenon DEF News
  <2>6. session \in [Users -> 0..MaxSessions]
    BY <1>1, <1>2
  <2> QED BY <1>1, <1>2, <2>2, <2>3, <2>4, <2>5, <2>6 DEF Roster
<1>4. Links
  <2>1. ASSUME NEW u \in Users PROVE ~Has(usersOn, u)
    BY <1>2 DEF Has
  <2>2. pubid \in [Users -> 0..MaxSessions]
    BY <1>1, <1>2
  <2> QED BY <1>2, <2>1, <2>2 DEF Links, Pipes
<1>5. Marks
  BY DEF Marks, UnreadMarked, Init, DeskInit
<1>6. Wanted /\ Reading
  <2>1. requests = <<>> /\ Len(requests) = 0 /\ requests \in Seq(Request)
    BY DEF Init, DeskInit
  <2>2. /\ usersLoadPage = [u \in Users |-> 0] /\ recently = [u \in Users |-> <<>>]
        /\ usersTotalMsg = usersLoadPage
    BY DEF Init, DeskInit
  <2>3. ASSUME NEW u \in Users
        PROVE  /\ usersTotalMsg[u] = 0 /\ Shown(recently[u], usersLoadPage[u], usersTotalMsg[u])
    BY <2>2 DEF Shown
  <2>4. Wanted
    BY <1>1, <2>1 DEF Wanted
  <2> QED BY <2>1, <2>2, <2>3, <2>4 DEF Reading, OneAsked
<1>7. Rest
  BY DEF Rest, Init, DeskInit
<1> QED BY <1>3, <1>4, <1>5, <1>6, <1>7 DEF IInv

(* Every step keeps the invariant.                                         *)
LEMMA NextIInv == IInv /\ [Next]_vars => IInv'
<1> SUFFICES ASSUME IInv, [Next]_vars PROVE IInv'
  OBVIOUS
<1>1. Roster' /\ Links'
  BY RosterStep DEF IInv
<1>2. Marks'
  BY MarksStep DEF IInv, Roster
<1>3. Wanted' /\ Reading'
  BY ReadingStep
<1>4. Rest'
  BY RestStep
<1> QED BY <1>1, <1>2, <1>3, <1>4 DEF IInv

(* The invariant holds throughout.                                         *)
LEMMA Invariance == Spec => []IInv
BY InitIInv, NextIInv, PTL DEF Spec


-----------------------------------------------------------------------------
(* The types follow.                                                       *)
LEMMA TypeOKHolds == IInv => TypeOK
<1> SUFFICES ASSUME IInv PROVE TypeOK
  OBVIOUS
<1>1. /\ cUserID \in Boxes /\ lcsCurrentPipe \in {NoPipe, GroupPipe} \cup (Users \X (1..MaxSessions))
      /\ usersOn \in Seq(Boxes)
  BY DEF IInv, Links, Pipes, Roster
<1>2. {usersFetched, box} \subseteq SUBSET Boxes /\ Everyone \in box
  BY DEF IInv, Rest, Marks
<1>3. {usersNew, unread, wiped, overlap} \subseteq SUBSET Users
  BY DEF IInv, Rest, Marks
<1>4. click \subseteq box /\ dirty \subseteq box \ {Everyone}
  BY DEF IInv, Marks
<1>5. msgbox \subseteq Boxes
  BY <1>1 DEF IInv, Marks, UnreadMarked
<1>6. {session, sessions, pubid} \subseteq [Users -> 0..MaxSessions]
  BY DEF IInv, Roster, Links
<1>7. /\ {usersLoadPage, usersTotalMsg, stored} \subseteq [Users -> Nat] /\ named \in BOOLEAN
      /\ \A u \in Users : \A i \in 1..Len(recently[u]) : recently[u][i] \in [pg : Nat, ntt : Nat]
  <2>1. usersLoadPage \in [Users -> Nat] /\ usersTotalMsg \in [Users -> Nat] /\ stored \in [Users -> Nat]
    BY DEF IInv, Reading, Rest
  <2>2. named \in BOOLEAN
    BY DEF IInv, Rest
  <2>3. \A u \in Users : recently[u] \in Seq(Page)
    BY DEF IInv, Reading
  <2>4. \A u \in Users : \A i \in 1..Len(recently[u]) : recently[u][i] \in Page
    BY <2>3
  <2> QED BY <2>1, <2>2, <2>4 DEF Page
<1>8. \A i \in 1..Len(requests) : requests[i] \in [user : Users, pg : Nat]
  <2>1. requests \in Seq(Request)
    BY DEF IInv, Wanted
  <2>2. \A i \in 1..Len(requests) : requests[i] \in Request
    BY <2>1
  <2> QED BY <2>2 DEF Request
<1>9. /\ Len(raws) <= MaxRaws /\ Len(requests) <= MaxRequests
      /\ camer \in [Users -> {"listed", "clicked", "none"}]
  BY DEF IInv, Roster, Wanted, Rest
<1> QED BY <1>1, <1>2, <1>3, <1>4, <1>5, <1>6, <1>7, <1>8, <1>9 DEF TypeOK

(* Nothing left to tell the desk of a visitor: it takes him for what he is. *)
LEMMA SettledNews ==
  ASSUME IInv, NEW u \in Users, Settled(u)
  PROVE  /\ Told(raws, u) = {}
         /\ Has(usersOn, u) <=> session[u] # 0
         /\ Has(usersOn, u) => Reach(u)
<1>1. Told(raws, u) = {}
  BY DEF Settled, Told, About
<1>2. News(raws, u, Has(usersOn, u), session[u])
  BY DEF IInv, Roster
<1>3. Has(usersOn, u) <=> session[u] # 0
  BY <1>1, <1>2, Zenon DEF News
<1>4. Has(usersOn, u) => Reach(u)
  BY <1>1 DEF IInv, Links
<1> QED BY <1>1, <1>3, <1>4

(* usersOn is everyone who is on, each of them once, as far as the desk    *)
(* has been told (userOn and userOff), and the types hold.                 *)
THEOREM OnlineListedHolds == Spec => []OnlineListed
<1>1. IInv => OnlineListed
  <2> SUFFICES ASSUME IInv PROVE OnlineListed
    OBVIOUS
  <2>1. usersOn \in Seq(Boxes) /\ Distinct(usersOn) /\ Has(usersOn, Everyone)
    BY DEF IInv, Roster
  <2>2. Everyone \in Range(usersOn)
    BY <2>1, RangeHas
  <2>3. \A S : Cardinality(S) = FS!Cardinality(S)
    BY DEF Cardinality, FS!Cardinality
  <2>4. ASSUME NEW u \in Users, Settled(u)
        PROVE  Cardinality({i \in 1..Len(usersOn) : usersOn[i] = u}) = IF session[u] = 0 THEN 0 ELSE 1
    <3> DEFINE P == {i \in 1..Len(usersOn) : usersOn[i] = u}
    <3>1. Has(usersOn, u) <=> session[u] # 0
      BY <2>4, SettledNews
    <3>2. CASE session[u] = 0
      <4>1. P = {}
        BY <3>1, <3>2 DEF Has
      <4>2. Cardinality(P) = 0
        BY <2>3, <4>1, FS!FS_EmptySet, Zenon
      <4> QED BY <3>2, <4>2
    <3>3. CASE session[u] # 0
      <4>1. PICK i \in 1..Len(usersOn) : usersOn[i] = u
        BY <3>1, <3>3 DEF Has
      <4>2. P = {i}
        BY <2>1, <4>1 DEF Distinct
      <4>3. Cardinality(P) = 1
        BY <2>3, <4>2, FS!FS_Singleton, Zenon
      <4> QED BY <3>3, <4>3
    <3> QED BY <3>2, <3>3
  <2> QED BY <2>2, <2>4, TypeOKHolds DEF OnlineListed
<1> QED BY <1>1, Invariance, PTL

(* What the administrator writes (msgSend) goes to the visitor whose box   *)
(* is open, in the session he is in now, or is kept for him; only a box    *)
(* that was removed while he was on loses him.                             *)
THEOREM ToOpenVisitorHolds == Spec => []ToOpenVisitor
<1>1. IInv => ToOpenVisitor
  <2> SUFFICES ASSUME IInv PROVE ToOpenVisitor
    OBVIOUS
  <2>1. /\ usersOn \in Seq(Boxes) /\ Has(usersOn, Everyone) /\ cUserID \in Boxes
        /\ cUserID = Everyone => lcsCurrentPipe = GroupPipe
    BY DEF IInv, Roster, Links
  <2>2. msgSend = IF Has(usersOn, cUserID) THEN lcsCurrentPipe ELSE NoPipe
    BY <2>1, RangeHas DEF msgSend
  <2>3. CASE cUserID = Everyone
    BY <2>1, <2>2, <2>3 DEF ToOpenVisitor
  <2>4. CASE cUserID # Everyone
    <3>1. cUserID \in Users
      BY <2>1, <2>4 DEF Boxes
    <3>2. ASSUME Settled(cUserID)
          PROVE  /\ Has(usersOn, cUserID) <=> session[cUserID] # 0
                 /\ Has(usersOn, cUserID) => Reach(cUserID)
      BY <3>1, <3>2, SettledNews
    <3> QED BY <2>2, <2>4, <3>2 DEF ToOpenVisitor, Reach
  <2> QED BY <2>3, <2>4
<1> QED BY <1>1, Invariance, PTL

(* A message that came while another box was open is marked until its box  *)
(* is opened or removed, and every box but the open one, whose panel alone *)
(* is on the screen, can be opened (onData, dearUsers, openChat).          *)
THEOREM UnreadMarkedHolds == Spec => []UnreadMarked
<1>1. IInv => UnreadMarked
  BY DEF IInv, Marks
<1> QED BY <1>1, Invariance, PTL

(* Unless two requests for them were under way at a time, no old message  *)
(* of a visitor appears twice but on a page read after more had been       *)
(* stored, none is left out but before a page from the cache, and          *)
(* getMessage stops asking only at the first of all.                       *)
THEOREM PagesInOrderHolds == Spec => []PagesInOrder
<1>1. IInv => PagesInOrder
  <2> SUFFICES ASSUME IInv PROVE PagesInOrder
    OBVIOUS
  <2>1. ASSUME NEW u \in Users \ overlap
        PROVE  /\ recently[u] \in Seq(Page) /\ usersLoadPage[u] \in Nat /\ usersTotalMsg[u] \in Nat
               /\ Shown(recently[u], usersLoadPage[u], usersTotalMsg[u])
    BY DEF IInv, Reading
  <2> HIDE DEF Messages
  <2> QED BY <2>1, ShownOrder DEF PagesInOrder, MoreMessages
<1> QED BY <1>1, Invariance, PTL

=============================================================================
