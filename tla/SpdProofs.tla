------------------------------ MODULE SpdProofs ------------------------------
(***************************************************************************)
(* The table of plans, for any posts, places, windows, lookups and changes *)
(* under way: a post is one plan, a plan that searches find is measured,   *)
(* the robot confirms no long ride that repeats, and a decision nobody     *)
(* holds a copy of is final.                                               *)
(*                                                                         *)
(* A change carries a whole plan as some page copied it, so a row is as    *)
(* good as the changes under way, and those as the copies they are made    *)
(* of.  The invariant says what is right in every copy, wherever it is:    *)
(* with the robot before (Taken) and while (Looked) it is looked up, on    *)
(* the moderator's page (Shown) and under way (Sent).  Each of these       *)
(* depends on the table by the posts of its rows only, and these never     *)
(* change.                                                                 *)
(***************************************************************************)
EXTENDS Spd, SequenceTheorems, TLAPS

FS == INSTANCE FiniteSetTheorems

(* The two properties of a plan r of the post o.                           *)
MeasuredWay(r) ==
  /\ Located(r.rect) /\ r.geo = r.rect /\ r.km = Distance(r.rect)
  /\ r.statu = "SPD_RBT_OK" =>
       r.cityid["e"] = r.rect["e"] /\ r.cityid["s"] \in {0, r.rect["s"]}

Right(r, o) ==
  /\ r.statu \in Confirmed => MeasuredWay(r)
  /\ r.statu = "SPD_RBT_OK" /\ o \in Repeating => r.km <= LONG

(* The copy p is of a row, and says so if its ride repeats.                *)
Ours(p) == p.id \in Ids /\ (plan[p.id].oid \in Repeating => p.repeat)

Taken(p) == p \in PagePlan /\ Ours(p) /\ p.cityid["s"] = 0

JobAt == [Ends -> {"point", "city", "end"}]

Looked(j) ==
  /\ j \in [plan : PagePlan, at : JobAt]
  /\ Ours(j.plan)
  /\ \A x \in Ends : j.at[x] = "city" => j.plan.ll[x] # 0
  /\ j.plan.cityid["s"] \in {0, j.plan.ll["s"]}
  /\ j.at["s"] # "end" => j.plan.cityid["s"] = 0

Sent(m) == m \in Mod /\ m.statu # "SPD_FRESH" /\ Right(m, plan[m.id].oid)

Shown(p) == p \in PagePlan /\ (Located(p.ll) => p.km = Distance(p.ll))

(* The table: what has not been changed yet has no city.                   *)
Rows ==
  /\ plan \in Seq(Row)
  /\ \A i, j \in Ids : plan[i].oid = plan[j].oid => i = j
  /\ \A i \in Ids : /\ Right(plan[i], plan[i].oid)
                    /\ plan[i].statu = "SPD_FRESH" => plan[i].cityid["s"] = 0

Copies ==
  /\ \A p \in batch : Taken(p)
  /\ \A j \in BagToSet(jobs) : Looked(j)
  /\ \A m \in BagToSet(mods) : Sent(m)
  /\ Shown(page)

IInv ==
  /\ Rows /\ Copies
  /\ windows \in [Posts -> 0..MaxWindows]
  /\ robot \in {"resting", "asking", "parsing", "stopped"} /\ ntt \in Nat

-----------------------------------------------------------------------------
(* Lemmas on bags and places *)

(* Adding to a bag and removing from it, by what is in it.                 *)
LEMMA BagAddDomain ==
  ASSUME NEW B, NEW x
  PROVE  BagToSet(BagAdd(B, x)) = BagToSet(B) \cup {x}
BY DEF BagAdd, BagToSet

(* Removing adds nothing.                                                  *)
LEMMA BagRemoveDomain ==
  ASSUME NEW B, NEW x
  PROVE  BagToSet(BagRemove(B, x)) \subseteq BagToSet(B)
BY DEF BagRemove, BagToSet

(* Nothing is in the empty bag.                                            *)
LEMMA EmptyBagDomain == BagToSet(EmptyBag) = {}
BY DEF EmptyBag, BagToSet, SetToBag

(* The distance of two places is a number of kilometres.                   *)
LEMMA DistanceNat ==
  ASSUME NEW ll \in Place
  PROVE  Distance(ll) \in Nat
<1>1. ll["s"] \in Nat /\ ll["e"] \in Nat
  BY DEF Place, Ends
<1> QED BY <1>1 DEF Distance

(* The column defaults are places, but no end is located there.            *)
LEMMA NowhereFacts ==
  /\ Nowhere \in Place /\ Nowhere["s"] = 0 /\ ~Located(Nowhere)
  /\ \A ll : Located(ll) => ll # Nowhere
BY DEF Nowhere, Place, Ends, Located

(* What the pages do to a copy: one field changes.                         *)
LEMMA StatuChanged ==
  ASSUME NEW p \in PagePlan, NEW v \in PLAN_ST
  PROVE  LET q == [p EXCEPT !.statu = v] IN
         /\ q \in PagePlan /\ q.statu = v
         /\ q.id = p.id /\ q.repeat = p.repeat /\ q.cityid = p.cityid /\ q.rect = p.rect
         /\ q.km = p.km /\ q.geo = p.geo /\ q.ll = p.ll
BY DEF PagePlan

(* The map service found the place of one end.                             *)
LEMMA PlaceChanged ==
  ASSUME NEW p \in PagePlan, NEW x \in Ends, NEW v \in Nat
  PROVE  LET q == [p EXCEPT !.ll[x] = v] IN
         /\ q \in PagePlan /\ q.ll = [p.ll EXCEPT ![x] = v]
         /\ q.id = p.id /\ q.repeat = p.repeat /\ q.cityid = p.cityid /\ q.statu = p.statu
<1>1. p.ll \in [Ends -> Nat]
  BY DEF PagePlan, Place
<1>2. [p.ll EXCEPT ![x] = v] \in Place
  BY <1>1 DEF Place
<1> QED BY <1>2 DEF PagePlan

(* The server found the city of one end.                                   *)
LEMMA CityChanged ==
  ASSUME NEW p \in PagePlan, NEW x \in Ends, NEW v \in Nat
  PROVE  LET q == [p EXCEPT !.cityid[x] = v] IN
         /\ q \in PagePlan /\ q.cityid = [p.cityid EXCEPT ![x] = v]
         /\ q.id = p.id /\ q.repeat = p.repeat /\ q.ll = p.ll /\ q.statu = p.statu
<1>1. p.cityid \in [Ends -> Nat]
  BY DEF PagePlan, Place
<1>2. [p.cityid EXCEPT ![x] = v] \in Place
  BY <1>1 DEF Place
<1> QED BY <1>2 DEF PagePlan

(* The way between the two places is measured.                             *)
LEMMA MeasuredFields ==
  ASSUME NEW p \in PagePlan
  PROVE  /\ Measured(p) \in PagePlan
         /\ Measured(p).rect = p.ll /\ Measured(p).geo = p.ll /\ Measured(p).km = Distance(p.ll)
         /\ Measured(p).id = p.id /\ Measured(p).repeat = p.repeat /\ Measured(p).statu = p.statu
         /\ Measured(p).cityid = p.cityid /\ Measured(p).ll = p.ll
<1>1. p.ll \in Place
  BY DEF PagePlan
<1>2. Distance(p.ll) \in Nat
  BY <1>1, DistanceNat
<1> QED BY <1>1, <1>2 DEF Measured, PagePlan

(* A copy that is sent is a change to its row; a plan that is not          *)
(* confirmed is right whatever it says.                                    *)
LEMMA ColumnsFields ==
  ASSUME NEW p \in PagePlan, p.id \in Ids
  PROVE  /\ Columns(p) \in Mod /\ Columns(p).id = p.id /\ Columns(p).statu = p.statu
         /\ p.statu \in Confirmed =>
              /\ Columns(p).rect = p.rect /\ Columns(p).geo = p.geo /\ Columns(p).km = p.km
              /\ p.statu = "SPD_RBT_OK" => Columns(p).cityid = p.cityid
<1>1. /\ p.statu \in PLAN_ST /\ p.rect \in Place /\ p.geo \in Place /\ p.km \in Nat /\ p.cityid \in Place
  BY DEF PagePlan
<1>2. Nowhere \in Place
  BY NowhereFacts
<1>3. CASE p.statu \in Confirmed
  BY <1>1, <1>2, <1>3 DEF Columns, Mod
<1>4. CASE p.statu \notin Confirmed
  BY <1>1, <1>2, <1>4 DEF Columns, Mod
<1> QED BY <1>3, <1>4

(* A change to rejected or deleted asks for nothing.                       *)
LEMMA SentUnconfirmed ==
  ASSUME NEW p \in PagePlan, p.id \in Ids, p.statu \in {"SPD_RBTED", "DELETE"}
  PROVE  Sent(Columns(p))
<1>1. Columns(p) \in Mod /\ Columns(p).statu = p.statu
  BY ColumnsFields
<1> QED BY <1>1 DEF Sent, Right, Confirmed

-----------------------------------------------------------------------------
(* Rows are added and changed, and stay the rows of their posts.           *)
Grown == Ids \subseteq Ids' /\ \A i \in Ids : plan'[i].oid = plan[i].oid

(* The copies after a step, measured by the table before it.               *)
CopiesAfter ==
  /\ \A p \in batch' : Taken(p)
  /\ \A j \in BagToSet(jobs') : Looked(j)
  /\ \A m \in BagToSet(mods') : Sent(m)
  /\ page' \in PagePlan /\ (Located(page'.ll) => page'.km = Distance(page'.ll))

(* The copies stay right when rows are added or changed.                   *)
LEMMA Carry == Grown /\ CopiesAfter => Copies'
<1> SUFFICES ASSUME Grown, CopiesAfter PROVE Copies'
  OBVIOUS
<1>1. Mod \subseteq Mod' /\ PagePlan \subseteq PagePlan'
  BY DEF Grown, Mod, PagePlan
<1>2. \A p : Ours(p) => Ours(p)'
  BY DEF Grown, Ours
<1>3. \A p \in batch' : Taken(p)'
  BY <1>1, <1>2 DEF CopiesAfter, Taken
<1>4. \A j \in BagToSet(jobs') : Looked(j)'
  <2> SUFFICES ASSUME NEW j \in BagToSet(jobs') PROVE Looked(j)'
    OBVIOUS
  <2>1. Looked(j)
    BY DEF CopiesAfter
  <2>2. j \in [plan : PagePlan', at : JobAt]
    BY <1>1, <2>1 DEF Looked
  <2> QED BY <1>2, <2>1, <2>2 DEF Looked
<1>5. \A m \in BagToSet(mods') : Sent(m)'
  <2> SUFFICES ASSUME NEW m \in BagToSet(mods') PROVE Sent(m)'
    OBVIOUS
  <2>1. Sent(m)
    BY DEF CopiesAfter
  <2>2. m \in Mod /\ m.id \in Ids
    BY <2>1 DEF Sent, Mod
  <2>3. plan'[m.id].oid = plan[m.id].oid
    BY <2>2 DEF Grown
  <2> QED BY <1>1, <2>1, <2>2, <2>3 DEF Sent
<1>6. Shown(page)'
  BY <1>1 DEF CopiesAfter, Shown
<1> QED BY <1>3, <1>4, <1>5, <1>6 DEF Copies

(* The parts of CopiesAfter that a step leaves alone.                      *)
LEMMA Untouched ==
  ASSUME Copies
  PROVE  /\ batch' = batch => \A p \in batch' : Taken(p)
         /\ jobs' = jobs => \A j \in BagToSet(jobs') : Looked(j)
         /\ mods' = mods => \A m \in BagToSet(mods') : Sent(m)
         /\ page' = page => page' \in PagePlan /\ (Located(page'.ll) => page'.km = Distance(page'.ll))
BY DEF Copies, Shown

(* A step that does not write the table.                                   *)
LEMMA TableKept ==
  ASSUME Rows, plan' = plan
  PROVE  Rows' /\ Grown
BY DEF Rows, Grown, Ids

-----------------------------------------------------------------------------
(* The table changes. *)

(* plan_cmd_plan_add looks for the post before it adds it.                 *)
LEMMA AddStep ==
  ASSUME Rows, NEW o \in Posts, plan_cmd_plan_add(o)
  PROVE  Rows' /\ Grown
<1>1. CASE plan_spd_exist(o)
  <2>1. plan' = plan
    BY <1>1 DEF plan_cmd_plan_add
  <2> QED BY <2>1, TableKept
<1>2. CASE ~plan_spd_exist(o)
  <2>1. PICK known \in BOOLEAN : plan' = Append(plan, NewRow(o, known))
    BY <1>2, Zenon DEF plan_cmd_plan_add
  <2> DEFINE r == NewRow(o, known)
  <2>2. r \in Row /\ r.oid = o /\ r.statu = "SPD_FRESH" /\ r.cityid = Nowhere
    BY NowhereFacts DEF NewRow, Row, PLAN_ST
  <2> HIDE DEF r
  <2>3. plan \in Seq(Row) /\ Len(plan) \in Nat
    BY DEF Rows
  <2>4. /\ plan' \in Seq(Row) /\ Len(plan') = Len(plan) + 1
        /\ plan'[Len(plan) + 1] = r /\ \A i \in 1..Len(plan) : plan'[i] = plan[i]
    BY <2>1, <2>2, <2>3, AppendProperties DEF r
  <2>5. \A i \in Ids' : i \in Ids \/ i = Len(plan) + 1
    BY <2>3, <2>4 DEF Ids
  <2>6. Ids \subseteq Ids'
    BY <2>3, <2>4 DEF Ids
  <2>7. \A i \in Ids : plan'[i] = plan[i] /\ plan[i].oid # o
    BY <1>2, <2>4 DEF plan_spd_exist, Ids
  <2>8. Right(r, o) /\ r.cityid["s"] = 0
    BY <2>2, NowhereFacts DEF Right, Confirmed
  <2>9. \A i, j \in Ids' : plan'[i].oid = plan'[j].oid => i = j
    BY <2>2, <2>4, <2>5, <2>7 DEF Rows
  <2>10. \A i \in Ids' : /\ Right(plan'[i], plan'[i].oid)
                         /\ plan'[i].statu = "SPD_FRESH" => plan'[i].cityid["s"] = 0
    <3> SUFFICES ASSUME NEW i \in Ids'
                 PROVE  /\ Right(plan'[i], plan'[i].oid)
                        /\ plan'[i].statu = "SPD_FRESH" => plan'[i].cityid["s"] = 0
      OBVIOUS
    <3>1. CASE i \in Ids
      <4>1. plan'[i] = plan[i]
        BY <2>7, <3>1
      <4>2. Right(plan[i], plan[i].oid) /\ (plan[i].statu = "SPD_FRESH" => plan[i].cityid["s"] = 0)
        BY <3>1, Zenon DEF Rows
      <4> QED BY <4>1, <4>2, Zenon
    <3>2. CASE i = Len(plan) + 1
      BY <2>2, <2>4, <2>8, <3>2
    <3> QED BY <2>5, <3>1, <3>2
  <2> QED BY <2>4, <2>6, <2>7, <2>9, <2>10 DEF Rows, Grown
<1> QED BY <1>1, <1>2

(* The row that a change leaves.                                           *)
LEMMA RowAfter ==
  ASSUME NEW r \in Row, NEW m \in Mod, m.statu # "SPD_FRESH", Right(m, r.oid)
  PROVE  /\ Changed(r, m) \in Row /\ Changed(r, m).oid = r.oid
         /\ Right(Changed(r, m), r.oid) /\ Changed(r, m).statu # "SPD_FRESH"
<1> DEFINE g == IF m.geo = Nowhere THEN r.geo ELSE m.geo
           q == [r EXCEPT !.statu = m.statu, !.cityid = m.cityid, !.rect = m.rect, !.km = m.km, !.geo = g]
<1>1. /\ m.statu \in PLAN_ST /\ m.cityid \in Place /\ m.rect \in Place /\ m.km \in Nat
      /\ m.geo \in Place /\ r.geo \in Place
  BY DEF Mod, Row
<1>2. g \in Place
  BY <1>1
<1>3. Changed(r, m) = q
  BY DEF Changed
<1> HIDE DEF g
<1>4. /\ q \in Row /\ q.oid = r.oid /\ q.statu = m.statu /\ q.cityid = m.cityid
      /\ q.rect = m.rect /\ q.km = m.km /\ q.geo = g
  BY <1>1, <1>2 DEF Row
<1> HIDE DEF q
<1>5. MeasuredWay(m) => g = m.rect
  BY NowhereFacts DEF MeasuredWay, g
<1>6. MeasuredWay(m) => MeasuredWay(q)
  BY <1>4, <1>5 DEF MeasuredWay
<1>7. Right(q, r.oid)
  BY <1>4, <1>6 DEF Right
<1> QED BY <1>3, <1>4, <1>7

(* plan_cmd_plan_up writes a copy that is right for the post of its row.   *)
LEMMA UpStep ==
  ASSUME Rows, NEW m, Sent(m), plan_cmd_plan_up(m)
  PROVE  Rows' /\ Grown
<1> DEFINE q == Changed(plan[m.id], m)
<1>1. m \in Mod /\ m.id \in Ids /\ plan \in Seq(Row)
  BY DEF Sent, Mod, Rows
<1>2. plan[m.id] \in Row
  BY <1>1 DEF Ids
<1>3. q \in Row /\ q.oid = plan[m.id].oid /\ Right(q, plan[m.id].oid) /\ q.statu # "SPD_FRESH"
  BY <1>1, <1>2, RowAfter DEF Sent
<1>4. plan' = [plan EXCEPT ![m.id] = q]
  BY DEF plan_cmd_plan_up
<1> HIDE DEF q
<1>5. /\ plan' \in Seq(Row) /\ Len(plan') = Len(plan)
      /\ \A i \in 1..Len(plan) : plan'[i] = IF i = m.id THEN q ELSE plan[i]
  BY <1>1, <1>3, <1>4, ExceptSeq DEF Ids
<1>6. Ids' = Ids /\ \A i \in Ids : plan'[i].oid = plan[i].oid
  BY <1>3, <1>5 DEF Ids
<1>7. \A i \in Ids : /\ Right(plan'[i], plan'[i].oid)
                     /\ plan'[i].statu = "SPD_FRESH" => plan'[i].cityid["s"] = 0
  <2> SUFFICES ASSUME NEW i \in Ids
               PROVE  /\ Right(plan'[i], plan'[i].oid)
                      /\ plan'[i].statu = "SPD_FRESH" => plan'[i].cityid["s"] = 0
    OBVIOUS
  <2>1. CASE i = m.id
    <3>1. plan'[i] = q /\ plan'[i].oid = plan[m.id].oid
      BY <1>3, <1>5, <2>1 DEF Ids
    <3> QED BY <1>3, <3>1
  <2>2. CASE i # m.id
    <3>1. plan'[i] = plan[i]
      BY <1>5, <2>2 DEF Ids
    <3>2. Right(plan[i], plan[i].oid) /\ (plan[i].statu = "SPD_FRESH" => plan[i].cityid["s"] = 0)
      BY Zenon DEF Rows
    <3> QED BY <3>1, <3>2, Zenon
  <2> QED BY <2>1, <2>2
<1> QED BY <1>5, <1>6, <1>7 DEF Rows, Grown

-----------------------------------------------------------------------------
(* The robot. *)

(* The job after one of its callbacks.                                     *)
LEMMA LookedOn ==
  ASSUME NEW j, Looked(j), NEW x \in Ends, NEW p \in PagePlan, NEW at \in {"point", "city", "end"},
         p.id = j.plan.id, p.repeat = j.plan.repeat,
         at = "city" => p.ll[x] # 0,
         \A y \in Ends \ {x} : p.ll[y] = j.plan.ll[y],
         p.cityid["s"] \in {0, p.ll["s"]},
         (IF x = "s" THEN at ELSE j.at["s"]) # "end" => p.cityid["s"] = 0
  PROVE  Looked([plan |-> p, at |-> [j.at EXCEPT ![x] = at]])
<1> DEFINE k == [plan |-> p, at |-> [j.at EXCEPT ![x] = at]]
<1>1. j.at \in JobAt /\ Ours(j.plan)
  BY DEF Looked
<1>2. [j.at EXCEPT ![x] = at] \in JobAt
  BY <1>1 DEF JobAt
<1>3. \A y \in Ends : [j.at EXCEPT ![x] = at][y] = IF y = x THEN at ELSE j.at[y]
  BY <1>1 DEF JobAt
<1>4. k \in [plan : PagePlan, at : JobAt] /\ k.plan = p /\ k.at = [j.at EXCEPT ![x] = at]
  BY <1>2
<1>5. Ours(p)
  BY <1>1 DEF Ours
<1>6. \A y \in Ends : k.at[y] = "city" => p.ll[y] # 0
  BY <1>3, <1>4 DEF Looked
<1>7. k.at["s"] # "end" => p.cityid["s"] = 0
  BY <1>3, <1>4 DEF Ends
<1> HIDE DEF k
<1>8. Looked(k)
  BY <1>4, <1>5, <1>6, <1>7 DEF Looked
<1> QED BY <1>8 DEF k

(* The lookups after a callback of one of them.                            *)
LEMMA JobsAfter ==
  ASSUME Copies, NEW j \in BagToSet(jobs), NEW x, NEW p, NEW at, Continue(j, x, p, at),
         Looked([plan |-> p, at |-> [j.at EXCEPT ![x] = at]])
  PROVE  \A k \in BagToSet(jobs') : Looked(k)
<1> DEFINE k == [plan |-> p, at |-> [j.at EXCEPT ![x] = at]]
<1>1. jobs' = BagRemove(jobs, j) \/ jobs' = BagAdd(BagRemove(jobs, j), k)
  BY DEF Continue
<1> HIDE DEF k
<1>2. BagToSet(jobs') \subseteq BagToSet(jobs) \cup {k}
  BY <1>1, BagAddDomain, BagRemoveDomain
<1> QED BY <1>2 DEF Copies, k

(* What the robot sends of a plan.                                         *)
LEMMA RobotModFields ==
  ASSUME NEW p \in PagePlan, p.id \in Ids
  PROVE  /\ p.statu = "SPD_RBTED" => Sent(RobotMod(p))
         /\ p.statu # "SPD_RBTED" =>
              /\ RobotMod(p) \in Mod /\ RobotMod(p).id = p.id /\ RobotMod(p).statu = "SPD_RBT_OK"
              /\ RobotMod(p).rect = p.rect /\ RobotMod(p).geo = p.geo /\ RobotMod(p).km = p.km
              /\ RobotMod(p).cityid = p.cityid
<1> DEFINE v == IF p.statu = "SPD_RBTED" THEN p.statu ELSE "SPD_RBT_OK"
           q == [p EXCEPT !.statu = v]
<1>1. RobotMod(p) = Columns(q)
  BY DEF RobotMod, PagePlan
<1>2. v \in PLAN_ST
  BY DEF PLAN_ST
<1>3. /\ q \in PagePlan /\ q.statu = v /\ q.id = p.id /\ q.cityid = p.cityid /\ q.rect = p.rect
      /\ q.km = p.km /\ q.geo = p.geo
  BY <1>2, StatuChanged
<1> HIDE DEF q
<1>4. CASE p.statu = "SPD_RBTED"
  BY <1>1, <1>3, <1>4, SentUnconfirmed
<1>5. CASE p.statu # "SPD_RBTED"
  BY <1>1, <1>3, <1>5, ColumnsFields DEF Confirmed
<1> QED BY <1>4, <1>5

(* The changes under way after a page posted one, once or twice.           *)
LEMMA ModsAfter ==
  ASSUME Copies, NEW m, Sent(m), mods' = BagAdd(mods, m) \/ mods' = BagAdd(BagAdd(mods, m), m)
  PROVE  \A k \in BagToSet(mods') : Sent(k)
<1>1. BagToSet(mods') \subseteq BagToSet(mods) \cup {m}
  BY BagAddDomain
<1> QED BY <1>1 DEF Copies

(* The place of an end arrives.                                            *)
LEMMA PointStep ==
  ASSUME Copies, NEW j \in BagToSet(jobs), NEW x \in Ends, NEW point \in Points[x], getPoint(j, x, point)
  PROVE  \A k \in BagToSet(jobs') : Looked(k)
<1> DEFINE p == [j.plan EXCEPT !.ll[x] = point]
<1>1. Looked(j)
  BY DEF Copies
<1>2. j.plan \in PagePlan /\ point \in Nat \ {0}
  <2>1. Points \in [{"s", "e"} -> SUBSET (Nat \ {0})]
    BY PointAssumption
  <2> QED BY <1>1, <2>1 DEF Looked, Ends
<1>3. j.at[x] = "point" /\ Continue(j, x, p, "city")
  BY DEF getPoint
<1>4. /\ p \in PagePlan /\ p.ll = [j.plan.ll EXCEPT ![x] = point]
      /\ p.id = j.plan.id /\ p.repeat = j.plan.repeat /\ p.cityid = j.plan.cityid
  BY <1>2, PlaceChanged
<1> HIDE DEF p
<1>5. \A y \in Ends : p.ll[y] = IF y = x THEN point ELSE j.plan.ll[y]
  <2>1. j.plan.ll \in [Ends -> Nat]
    BY <1>2 DEF PagePlan, Place
  <2> QED BY <1>4, <2>1
<1>6. /\ p.cityid["s"] \in {0, p.ll["s"]}
      /\ (IF x = "s" THEN "city" ELSE j.at["s"]) # "end" => p.cityid["s"] = 0
  <2>1. CASE x = "s"
    <3>1. p.cityid["s"] = 0
      BY <1>1, <1>3, <1>4, <2>1 DEF Looked
    <3> QED BY <3>1
  <2>2. CASE x # "s"
    <3>1. p.ll["s"] = j.plan.ll["s"]
      BY <1>5, <2>2 DEF Ends
    <3> QED BY <1>1, <1>4, <2>2, <3>1 DEF Looked
  <2> QED BY <2>1, <2>2
<1>7. Looked([plan |-> p, at |-> [j.at EXCEPT ![x] = "city"]])
  BY <1>1, <1>2, <1>4, <1>5, <1>6, LookedOn
<1> QED BY <1>3, <1>7, JobsAfter

(* A callback that ends without a change to places and cities.             *)
LEMMA LookedEnds ==
  ASSUME NEW j, Looked(j), NEW x \in Ends, NEW p \in PagePlan,
         p.id = j.plan.id, p.repeat = j.plan.repeat, p.ll = j.plan.ll, p.cityid["s"] = j.plan.cityid["s"]
  PROVE  Looked([plan |-> p, at |-> [j.at EXCEPT ![x] = "end"]])
<1>1. /\ p.cityid["s"] \in {0, p.ll["s"]}
      /\ (IF x = "s" THEN "end" ELSE j.at["s"]) # "end" => p.cityid["s"] = 0
  BY DEF Looked
<1> QED BY <1>1, LookedOn

(* A callback that never comes.                                            *)
LEMMA NoAnswerStep ==
  ASSUME Copies, NEW j \in BagToSet(jobs), NEW x \in Ends, NoAnswer(j, x)
  PROVE  \A k \in BagToSet(jobs') : Looked(k)
<1>1. Looked(j) /\ j.plan \in PagePlan /\ Continue(j, x, j.plan, "end")
  BY DEF Copies, NoAnswer, Looked
<1>2. Looked([plan |-> j.plan, at |-> [j.at EXCEPT ![x] = "end"]])
  BY <1>1, LookedEnds
<1> QED BY <1>1, <1>2, JobsAfter

(* A lookup that finds nothing rejects the plan.                           *)
LEMMA FailsStep ==
  ASSUME Copies, NEW j \in BagToSet(jobs), NEW x \in Ends, LookupFails(j, x)
  PROVE  (\A k \in BagToSet(jobs') : Looked(k)) /\ (\A k \in BagToSet(mods') : Sent(k))
<1> DEFINE p == [j.plan EXCEPT !.statu = "SPD_RBTED"]
<1>1. Looked(j) /\ j.plan \in PagePlan /\ j.plan.id \in Ids
  BY DEF Copies, Looked, Ours
<1>2. Continue(j, x, p, "end") /\ mods' = BagAdd(mods, RobotMod(p))
  BY DEF LookupFails, parsePlanErr
<1>3. /\ p \in PagePlan /\ p.statu = "SPD_RBTED" /\ p.id = j.plan.id /\ p.repeat = j.plan.repeat
      /\ p.ll = j.plan.ll /\ p.cityid = j.plan.cityid
  <2>1. "SPD_RBTED" \in PLAN_ST
    BY DEF PLAN_ST
  <2> QED BY <1>1, <2>1, StatuChanged
<1> HIDE DEF p
<1>4. Looked([plan |-> p, at |-> [j.at EXCEPT ![x] = "end"]])
  BY <1>1, <1>3, LookedEnds
<1>5. Sent(RobotMod(p))
  BY <1>1, <1>3, RobotModFields
<1> QED BY <1>2, <1>4, <1>5, JobsAfter, ModsAfter

(* The city of the start arrives.                                          *)
LEMMA StartStep ==
  ASSUME Copies, NEW j \in BagToSet(jobs), getCityOfStart(j)
  PROVE  \A k \in BagToSet(jobs') : Looked(k)
<1> DEFINE p == [j.plan EXCEPT !.cityid["s"] = j.plan.ll["s"]]
<1>1. Looked(j) /\ j.plan \in PagePlan /\ Continue(j, "s", p, "end") /\ "s" \in Ends
  BY DEF Copies, Looked, getCityOfStart, Ends
<1>2. j.plan.ll["s"] \in Nat /\ j.plan.cityid \in [Ends -> Nat]
  BY <1>1 DEF PagePlan, Place
<1>3. /\ p \in PagePlan /\ p.id = j.plan.id /\ p.repeat = j.plan.repeat /\ p.ll = j.plan.ll
      /\ p.cityid = [j.plan.cityid EXCEPT !["s"] = j.plan.ll["s"]]
  BY <1>1, <1>2, CityChanged
<1>4. p.cityid["s"] = p.ll["s"]
  BY <1>1, <1>2, <1>3
<1> HIDE DEF p
<1>5. Looked([plan |-> p, at |-> [j.at EXCEPT !["s"] = "end"]])
  BY <1>1, <1>3, <1>4, LookedOn
<1> QED BY <1>1, <1>5, JobsAfter

(* The way is measured: if the plan is confirmed, its places are known,    *)
(* and if it repeats the way is not long.                                  *)
LEMMA EndStep ==
  ASSUME Copies, NEW j \in BagToSet(jobs), getCityOfEnd(j)
  PROVE  (\A k \in BagToSet(jobs') : Looked(k)) /\ (\A k \in BagToSet(mods') : Sent(k))
<1> DEFINE p == [j.plan EXCEPT !.cityid["e"] = j.plan.ll["e"]]
           long == p.repeat /\ Distance(p.ll) > LONG
           r == IF long THEN [p EXCEPT !.statu = "SPD_RBTED"] ELSE p
           q == Measured(r)
           m == RobotMod(q)
<1>1. /\ Looked(j) /\ j.plan \in PagePlan /\ j.at["e"] = "city" /\ "e" \in Ends /\ "s" \in Ends
      /\ Ours(j.plan)
  BY DEF Copies, Looked, getCityOfEnd, Ends
<1>2. \/ j.plan.ll["s"] = 0 /\ Continue(j, "e", p, "end") /\ mods' = mods
      \/ /\ p.ll["s"] # 0 /\ Continue(j, "e", q, "end")
         /\ mods' = BagAdd(mods, m) \/ mods' = BagAdd(BagAdd(mods, m), m)
  <2>1. \/ p.ll["s"] = 0 /\ Continue(j, "e", p, "end") /\ mods' = mods
        \/ /\ p.ll["s"] # 0 /\ Continue(j, "e", q, "end")
           /\ mods' = BagAdd(mods, m) \/ mods' = BagAdd(BagAdd(mods, m), m)
    BY Zenon DEF getCityOfEnd
  <2>2. p.ll = j.plan.ll
    BY <1>1 DEF PagePlan
  <2> QED BY <2>1, <2>2, Zenon
<1>3. j.plan.ll["e"] \in Nat \ {0} /\ j.plan.ll \in Place /\ j.plan.cityid \in [Ends -> Nat]
  BY <1>1 DEF Looked, PagePlan, Place
<1>4. /\ p \in PagePlan /\ p.id = j.plan.id /\ p.repeat = j.plan.repeat /\ p.ll = j.plan.ll
      /\ p.cityid = [j.plan.cityid EXCEPT !["e"] = j.plan.ll["e"]]
  BY <1>1, <1>3, CityChanged
<1>5. p.cityid["e"] = p.ll["e"] /\ p.cityid["s"] = j.plan.cityid["s"]
  BY <1>1, <1>3, <1>4
<1> HIDE DEF p
<1>6. /\ r \in PagePlan /\ r.id = p.id /\ r.repeat = p.repeat /\ r.ll = p.ll /\ r.cityid = p.cityid
      /\ long => r.statu = "SPD_RBTED"
  <2>1. "SPD_RBTED" \in PLAN_ST
    BY DEF PLAN_ST
  <2>2. CASE long
    BY <1>4, <2>1, <2>2, StatuChanged
  <2>3. CASE ~long
    BY <1>4, <2>3
  <2> QED BY <2>2, <2>3
<1> HIDE DEF r
<1>7. /\ q \in PagePlan /\ q.rect = p.ll /\ q.geo = p.ll /\ q.km = Distance(p.ll)
      /\ q.id = j.plan.id /\ q.repeat = j.plan.repeat /\ q.statu = r.statu
      /\ q.cityid = p.cityid /\ q.ll = j.plan.ll
  BY <1>4, <1>6, MeasuredFields
<1> HIDE DEF q
<1>8. CASE j.plan.ll["s"] = 0 /\ Continue(j, "e", p, "end") /\ mods' = mods
  <2>1. Looked([plan |-> p, at |-> [j.at EXCEPT !["e"] = "end"]])
    BY <1>1, <1>4, <1>5, LookedEnds
  <2> QED BY <1>8, <2>1, JobsAfter DEF Copies
<1>9. CASE /\ p.ll["s"] # 0 /\ Continue(j, "e", q, "end")
           /\ mods' = BagAdd(mods, m) \/ mods' = BagAdd(BagAdd(mods, m), m)
  <2>1. Looked([plan |-> q, at |-> [j.at EXCEPT !["e"] = "end"]])
    <3>1. q.cityid["s"] = j.plan.cityid["s"]
      BY <1>5, <1>7
    <3> QED BY <1>1, <1>7, <3>1, LookedEnds
  <2>2. q.id \in Ids
    BY <1>1, <1>7 DEF Ours
  <2>3. Sent(m)
    <3>1. CASE q.statu = "SPD_RBTED"
      BY <1>7, <2>2, <3>1, RobotModFields
    <3>2. CASE q.statu # "SPD_RBTED"
      <4>1. /\ m \in Mod /\ m.id = q.id /\ m.statu = "SPD_RBT_OK" /\ m.rect = q.rect /\ m.geo = q.geo
            /\ m.km = q.km /\ m.cityid = q.cityid
        BY <1>7, <2>2, <3>2, RobotModFields
      <4> HIDE DEF m
      <4>2. Located(p.ll)
        BY <1>3, <1>4, <1>9 DEF Located, Ends
      <4>3. p.cityid["s"] \in {0, p.ll["s"]}
        BY <1>1, <1>4, <1>5 DEF Looked
      <4>4. MeasuredWay(m)
        BY <1>5, <1>7, <4>1, <4>2, <4>3 DEF MeasuredWay
      <4>5. plan[m.id].oid \in Repeating => m.km <= LONG
        <5>1. plan[m.id].oid \in Repeating => p.repeat
          BY <1>1, <1>4, <1>7, <4>1 DEF Ours
        <5>2. ~long
          BY <1>6, <1>7, <3>2
        <5>3. Distance(p.ll) \in Nat /\ LONG \in Nat
          BY <1>3, <1>4, DistanceNat, LimitAssumption
        <5> QED BY <1>7, <4>1, <5>1, <5>2, <5>3
      <4> QED BY <4>1, <4>4, <4>5 DEF Sent, Right
    <3> QED BY <3>1, <3>2
  <2> HIDE DEF m
  <2> QED BY <1>9, <2>1, <2>3, JobsAfter, ModsAfter
<1> QED BY <1>2, <1>8, <1>9

(* A fresh plan has no city yet.                                           *)
LEMMA CopyTyped ==
  ASSUME Rows, NEW i \in Ids
  PROVE  /\ Copy(i) \in PagePlan /\ Copy(i).id = i /\ Copy(i).ll = Nowhere /\ Copy(i).cityid = plan[i].cityid
         /\ Ours(Copy(i))
<1>1. plan[i] \in Row
  BY DEF Rows, Ids
<1> DEFINE b == plan[i].oid \in Repeating
<1>2. b \in BOOLEAN
  OBVIOUS
<1>3. Copy(i) = [id |-> i, repeat |-> b, statu |-> plan[i].statu,
                 cityid |-> plan[i].cityid, rect |-> plan[i].rect, km |-> plan[i].km,
                 geo |-> Nowhere, ll |-> Nowhere]
  BY Zenon DEF Copy
<1>4. plan[i].oid \in Repeating => b
  BY Zenon
<1> HIDE DEF b
<1>5. /\ Copy(i) \in PagePlan /\ Copy(i).id = i /\ Copy(i).ll = Nowhere
      /\ Copy(i).cityid = plan[i].cityid /\ Copy(i).repeat = b
  BY <1>1, <1>2, <1>3, NowhereFacts DEF PagePlan, Row
<1>6. Ours(Copy(i))
  BY <1>4, <1>5 DEF Ours
<1> QED BY <1>5, <1>6

(* The robot is given fresh plans, which have no city yet.                 *)
LEMMA GetPlansStep ==
  ASSUME Rows, spd_post_robot_data_get
  PROVE  \A p \in batch' : Taken(p)
<1>1. PICK S \in SUBSET Fresh : batch' = {Copy(i) : i \in S}
  BY DEF spd_post_robot_data_get
<1>2. ASSUME NEW i \in S PROVE Taken(Copy(i))
  <2>1. i \in Ids /\ plan[i].statu = "SPD_FRESH"
    BY DEF Fresh
  <2>2. plan[i].cityid["s"] = 0
    BY <2>1, Zenon DEF Rows
  <2>3. Copy(i) \in PagePlan /\ Copy(i).cityid = plan[i].cityid /\ Ours(Copy(i))
    BY <2>1, CopyTyped
  <2> QED BY <2>2, <2>3 DEF Taken
<1> QED BY <1>1, <1>2

(* The robot starts to look a plan up.                                     *)
LEMMA ParseStep ==
  ASSUME Copies, NEW p \in batch, jobs' = BagAdd(jobs, [plan |-> p, at |-> [x \in Ends |-> "point"]])
  PROVE  \A j \in BagToSet(jobs') : Looked(j)
<1> DEFINE j == [plan |-> p, at |-> [x \in Ends |-> "point"]]
<1>1. Taken(p)
  BY DEF Copies
<1>2. [x \in Ends |-> "point"] \in JobAt /\ \A x \in Ends : [y \in Ends |-> "point"][x] = "point"
  BY DEF JobAt
<1>3. j \in [plan : PagePlan, at : JobAt] /\ j.plan = p /\ \A x \in Ends : j.at[x] = "point"
  BY <1>1, <1>2 DEF Taken
<1> HIDE DEF j
<1>4. Looked(j)
  BY <1>1, <1>3 DEF Looked, Taken
<1>5. BagToSet(jobs') = BagToSet(jobs) \cup {j}
  BY BagAddDomain DEF j
<1> QED BY <1>4, <1>5 DEF Copies

-----------------------------------------------------------------------------
(* The moderator. *)

(* The moderator's page is given a plan.                                   *)
LEMMA GetPlanStep ==
  ASSUME Rows, NEW n, spd_post_do_data_get(n)
  PROVE  page' \in PagePlan /\ (Located(page'.ll) => page'.km = Distance(page'.ll))
<1>1. PICK i \in Ids : page' = Copy(i)
  BY DEF spd_post_do_data_get, Unconfirmed
<1> QED BY <1>1, CopyTyped, NowhereFacts

(* The empty plan of a page just loaded.                                   *)
LEMMA NoPlanTyped == NoPlan \in PagePlan /\ NoPlan.ll = Nowhere
<1>1. "SPD_FRESH" \in PLAN_ST /\ Nowhere \in Place
  BY NowhereFacts DEF PLAN_ST
<1> QED BY <1>1 DEF NoPlan, PagePlan

(* The moderator's page is loaded.                                         *)
LEMMA OnreadyStep ==
  ASSUME page' = NoPlan
  PROVE  page' \in PagePlan /\ (Located(page'.ll) => page'.km = Distance(page'.ll))
BY NoPlanTyped, NowhereFacts

(* upPlan measures the way again as soon as both ends are located.         *)
LEMMA CorrectStep ==
  ASSUME Copies, NEW x \in Ends, NEW point \in Corrections[x], upPlan(x, point)
  PROVE  page' \in PagePlan /\ (Located(page'.ll) => page'.km = Distance(page'.ll))
<1> DEFINE ll == [page.ll EXCEPT ![x] = point]
           km == IF Located(ll) THEN Distance(ll) ELSE page.km
<1>1. page \in PagePlan /\ (Located(page.ll) => page.km = Distance(page.ll))
  BY DEF Copies, Shown
<1>2. point \in Nat
  <2>1. Corrections \in [{"s", "e"} -> SUBSET (Nat \ {0})]
    BY PointAssumption
  <2> QED BY <2>1 DEF Ends
<1>3. ll \in Place
  BY <1>1, <1>2 DEF PagePlan, Place
<1>4. km \in Nat
  BY <1>1, <1>3, DistanceNat DEF PagePlan
<1>5. CASE page.id = 0
  BY <1>1, <1>5 DEF upPlan
<1>6. CASE page.id # 0
  <2>1. page' = [page EXCEPT !.ll = ll, !.km = km]
    BY <1>1, <1>6 DEF upPlan, PagePlan
  <2>2. Located(ll) => km = Distance(ll)
    OBVIOUS
  <2> HIDE DEF ll, km
  <2>3. page' \in PagePlan /\ page'.ll = ll /\ page'.km = km
    BY <1>1, <1>3, <1>4, <2>1 DEF PagePlan
  <2> QED BY <2>2, <2>3
<1> QED BY <1>5, <1>6

(* What is saved was measured by upPlan.                                   *)
LEMMA SaveStep ==
  ASSUME Copies, savePlan
  PROVE  /\ \A k \in BagToSet(mods') : Sent(k)
         /\ page' \in PagePlan /\ (Located(page'.ll) => page'.km = Distance(page'.ll))
<1>1. /\ page \in PagePlan /\ page.id # 0 /\ Located(page.ll) /\ page.km = Distance(page.ll)
      /\ page' = [page EXCEPT !.rect = page.ll, !.geo = page.ll]
      /\ mods' = BagAdd(mods, Columns([page' EXCEPT !.statu = "SPD_OK"]))
  BY DEF Copies, Shown, savePlan
<1>2. page.ll \in Place /\ page.id \in Ids
  BY <1>1 DEF PagePlan
<1>3. /\ page' \in PagePlan /\ page'.rect = page.ll /\ page'.geo = page.ll /\ page'.km = page.km
      /\ page'.ll = page.ll /\ page'.id = page.id
  BY <1>1, <1>2 DEF PagePlan
<1> DEFINE q == [page' EXCEPT !.statu = "SPD_OK"]
<1>4. /\ q \in PagePlan /\ q.statu = "SPD_OK" /\ q.rect = page.ll /\ q.geo = page.ll
      /\ q.km = page.km /\ q.id = page.id
  BY <1>3 DEF PagePlan, PLAN_ST
<1> HIDE DEF q
<1>5. /\ Columns(q) \in Mod /\ Columns(q).statu = "SPD_OK" /\ Columns(q).rect = page.ll
      /\ Columns(q).geo = page.ll /\ Columns(q).km = page.km
  BY <1>2, <1>4, ColumnsFields DEF Confirmed
<1>6. Sent(Columns(q))
  <2> DEFINE m == Columns(q)
  <2>1. MeasuredWay(m)
    BY <1>1, <1>5 DEF MeasuredWay
  <2> QED BY <1>5, <2>1 DEF Sent, Right
<1>7. mods' = BagAdd(mods, Columns(q))
  BY <1>1 DEF q
<1> QED BY <1>1, <1>3, <1>6, <1>7, ModsAfter

(* delPlan posts the plan shown as deleted.                                *)
LEMMA DelStep ==
  ASSUME Copies, delPlan
  PROVE  \A k \in BagToSet(mods') : Sent(k)
<1> DEFINE q == [page EXCEPT !.statu = "DELETE"]
<1>1. page \in PagePlan /\ page.id \in Ids /\ mods' = BagAdd(mods, Columns(q))
  BY DEF Copies, Shown, delPlan, PagePlan
<1>2. q \in PagePlan /\ q.statu = "DELETE" /\ q.id = page.id
  <2>1. "DELETE" \in PLAN_ST
    BY DEF PLAN_ST
  <2> QED BY <1>1, <2>1, StatuChanged
<1> HIDE DEF q
<1>3. Sent(Columns(q))
  BY <1>1, <1>2, SentUnconfirmed
<1> QED BY <1>1, <1>3, ModsAfter

-----------------------------------------------------------------------------
(* A step that leaves the table alone and keeps the copies right.          *)
LEMMA CopiesStep ==
  ASSUME IInv, plan' = plan, windows' = windows, CopiesAfter,
         robot' \in {"resting", "asking", "parsing", "stopped"}, ntt' \in Nat
  PROVE  IInv'
<1>1. Rows' /\ Grown
  BY TableKept DEF IInv
<1>2. Copies'
  BY <1>1, Carry
<1> QED BY <1>1, <1>2 DEF IInv

(* Spiders only add rows.                                                  *)
LEMMA SpiderStep == IInv /\ Spider => IInv'
<1> SUFFICES ASSUME IInv, Spider PROVE IInv'
  OBVIOUS
<1>1. UNCHANGED <<robot, batch, jobs, mods, page, ntt>>
  BY DEF Spider, parseList, parseNode, robotVars, pageVars
<1>2. CopiesAfter
  BY <1>1, Untouched DEF IInv, CopiesAfter
<1>3. Rows' /\ Grown
  <2>1. CASE parseList
    BY <2>1, TableKept DEF parseList, IInv
  <2>2. CASE \E o \in Posts : parseNode(o)
    BY <2>2, AddStep DEF parseNode, IInv
  <2> QED BY <2>1, <2>2 DEF Spider
<1>4. windows' \in [Posts -> 0..MaxWindows]
  <2>1. windows \in [Posts -> 0..MaxWindows] /\ MaxWindows \in Nat
    BY LimitAssumption DEF IInv
  <2>2. CASE parseList
    <3>1. \A o \in Posts : (IF plan_spd_exist(o) THEN windows[o] ELSE windows[o] + 1) \in 0..MaxWindows
      BY <2>1, <2>2 DEF parseList
    <3> QED BY <2>2, <3>1 DEF parseList
  <2>3. CASE \E o \in Posts : parseNode(o)
    BY <2>1, <2>3 DEF parseNode
  <2> QED BY <2>2, <2>3 DEF Spider
<1>5. Copies'
  BY <1>2, <1>3, Carry
<1> QED BY <1>1, <1>3, <1>4, <1>5 DEF IInv

(* The plugin applies a change, or it is lost.                             *)
LEMMA PluginStep == IInv /\ Plugin => IInv'
<1> SUFFICES ASSUME IInv, NEW m \in BagToSet(mods), plan_cmd_plan_up(m) \/ ModLost(m) PROVE IInv'
  BY DEF Plugin
<1>1. UNCHANGED <<windows, robot, batch, jobs, page, ntt>> /\ mods' = BagRemove(mods, m)
  BY DEF plan_cmd_plan_up, ModLost, robotVars, pageVars
<1>2. BagToSet(mods') \subseteq BagToSet(mods)
  BY <1>1, BagRemoveDomain
<1>3. CopiesAfter
  <2>1. \A k \in BagToSet(mods') : Sent(k)
    BY <1>2 DEF IInv, Copies
  <2> QED BY <1>1, <2>1, Untouched DEF IInv, CopiesAfter
<1>4. Rows' /\ Grown
  <2>1. CASE plan_cmd_plan_up(m)
    BY <2>1, UpStep DEF IInv, Copies
  <2>2. CASE ModLost(m)
    BY <2>2, TableKept DEF ModLost, IInv
  <2> QED BY <2>1, <2>2
<1>5. Copies'
  BY <1>3, <1>4, Carry
<1> QED BY <1>1, <1>4, <1>5 DEF IInv

(* The callbacks of the robot's lookups.                                   *)
LEMMA JobStep == IInv /\ Job => IInv'
<1> SUFFICES ASSUME IInv, NEW j \in BagToSet(jobs),
                    \/ \E x \in Ends : \/ \E point \in Points[x] : getPoint(j, x, point)
                                       \/ LookupFails(j, x)
                                       \/ NoAnswer(j, x)
                    \/ getCityOfStart(j)
                    \/ getCityOfEnd(j)
             PROVE  IInv'
  BY DEF Job
<1>1. UNCHANGED <<plan, windows, robot, batch, page, ntt>>
  BY DEF getPoint, LookupFails, NoAnswer, getCityOfStart, getCityOfEnd, pageVars
<1>2. (\A k \in BagToSet(jobs') : Looked(k)) /\ (\A k \in BagToSet(mods') : Sent(k))
  <2>1. ASSUME NEW x \in Ends, NEW point \in Points[x], getPoint(j, x, point)
        PROVE  (\A k \in BagToSet(jobs') : Looked(k)) /\ mods' = mods
    BY <2>1, PointStep DEF IInv, getPoint
  <2>2. ASSUME NEW x \in Ends, LookupFails(j, x)
        PROVE  (\A k \in BagToSet(jobs') : Looked(k)) /\ (\A k \in BagToSet(mods') : Sent(k))
    BY <2>2, FailsStep DEF IInv
  <2>3. ASSUME NEW x \in Ends, NoAnswer(j, x)
        PROVE  (\A k \in BagToSet(jobs') : Looked(k)) /\ mods' = mods
    BY <2>3, NoAnswerStep DEF IInv, NoAnswer
  <2>4. ASSUME getCityOfStart(j)
        PROVE  (\A k \in BagToSet(jobs') : Looked(k)) /\ mods' = mods
    BY <2>4, StartStep DEF IInv, getCityOfStart
  <2>5. ASSUME getCityOfEnd(j)
        PROVE  (\A k \in BagToSet(jobs') : Looked(k)) /\ (\A k \in BagToSet(mods') : Sent(k))
    BY <2>5, EndStep DEF IInv
  <2>6. mods' = mods => \A k \in BagToSet(mods') : Sent(k)
    BY Untouched DEF IInv
  <2> QED BY <2>1, <2>2, <2>3, <2>4, <2>5, <2>6, Zenon
<1>3. CopiesAfter
  BY <1>1, <1>2, Untouched DEF IInv, CopiesAfter
<1> QED BY <1>1, <1>3, CopiesStep DEF IInv

(* The robot's page.                                                       *)
LEMMA RobotStep == IInv /\ Robot => IInv'
<1> SUFFICES ASSUME IInv, Robot PROVE IInv'
  OBVIOUS
<1>1. UNCHANGED <<plan, windows, mods, page, ntt>> /\ robot' \in {"resting", "asking", "parsing", "stopped"}
  BY DEF IInv, Robot, getPlans, getPlansAnswered, getPlansRefused, getPlansLost,
         parsePlan, parsePlanEnds, pageVars
<1>2. (\A p \in batch' : Taken(p)) /\ (\A j \in BagToSet(jobs') : Looked(j))
  <2>1. CASE getPlansAnswered
    BY <2>1, GetPlansStep, Untouched DEF getPlansAnswered, IInv
  <2>2. CASE \E p \in batch : parsePlan(p)
    <3>1. PICK p \in batch : parsePlan(p)
      BY <2>2
    <3>2. \A j \in BagToSet(jobs') : Looked(j)
      BY <3>1, ParseStep DEF parsePlan, IInv
    <3>3. \A q \in batch' : Taken(q)
      BY <3>1 DEF parsePlan, IInv, Copies
    <3> QED BY <3>2, <3>3
  <2>3. CASE getPlans \/ getPlansRefused \/ getPlansLost \/ parsePlanEnds
    BY <2>3, Untouched DEF getPlans, getPlansRefused, getPlansLost, parsePlanEnds, IInv
  <2> QED BY <2>1, <2>2, <2>3 DEF Robot
<1>3. CopiesAfter
  BY <1>1, <1>2, Untouched DEF IInv, CopiesAfter
<1> QED BY <1>1, <1>3, CopiesStep DEF IInv

(* The moderator's count is a number.                                      *)
LEMMA CountType == plan \in Seq(Row) => Cardinality(Unconfirmed) \in Nat
<1> SUFFICES ASSUME plan \in Seq(Row) PROVE Cardinality(Unconfirmed) \in Nat
  OBVIOUS
<1>1. Len(plan) \in Nat
  OBVIOUS
<1>2. FS!IsFiniteSet(Ids)
  BY <1>1, FS!FS_Interval, 1 \in Int, Len(plan) \in Int DEF Ids
<1>3. Unconfirmed \subseteq Ids
  BY DEF Unconfirmed
<1>4. FS!IsFiniteSet(Unconfirmed)
  BY <1>2, <1>3, FS!FS_Subset, Zenon
<1>5. FS!Cardinality(Unconfirmed) \in Nat
  BY <1>4, FS!FS_CardinalityType, Zenon
<1>6. \A S : Cardinality(S) = FS!Cardinality(S)
  BY DEF Cardinality, FS!Cardinality
<1> QED BY <1>5, <1>6

(* The moderator's page.                                                   *)
LEMMA ModeratorStep == IInv /\ Moderator => IInv'
<1> SUFFICES ASSUME IInv, Moderator PROVE IInv'
  OBVIOUS
<1>1. UNCHANGED <<plan, windows, robot, batch, jobs>>
  BY DEF Moderator, onready, getPlan, savePlan, delPlan, markDraged, autoChanged, robotVars
<1> DEFINE PageAfter == page' \in PagePlan /\ (Located(page'.ll) => page'.km = Distance(page'.ll))
           ModsRight == \A k \in BagToSet(mods') : Sent(k)
<1>2. (mods' = mods => ModsRight) /\ (page' = page => PageAfter)
  BY Untouched DEF IInv
<1>3. PageAfter /\ ModsRight /\ ntt' \in Nat
  <2>1. CASE onready
    <3>1. Cardinality(Unconfirmed) \in Nat
      <4>1. plan \in Seq(Row)
        BY DEF IInv, Rows
      <4> QED BY <4>1, CountType
    <3> QED BY <1>2, <2>1, <3>1, OnreadyStep DEF onready
  <2>2. CASE getPlan
    <3>1. ntt' \in Nat
      BY <2>2 DEF getPlan, IInv
    <3> QED BY <1>2, <2>2, <3>1, GetPlanStep DEF getPlan, IInv
  <2>3. CASE savePlan
    BY <2>3, SaveStep DEF savePlan, IInv
  <2>4. CASE delPlan
    BY <1>2, <2>4, DelStep DEF delPlan, IInv, pageVars
  <2>5. CASE \E x \in Ends : \E point \in Corrections[x] : markDraged(x, point) \/ autoChanged(x, point)
    <3>0. PICK x \in Ends : \E point \in Corrections[x] : markDraged(x, point) \/ autoChanged(x, point)
      BY <2>5
    <3>1. PICK point \in Corrections[x] : markDraged(x, point) \/ autoChanged(x, point)
      BY <3>0
    <3>2. upPlan(x, point) /\ UNCHANGED <<mods, ntt>>
      BY <3>1 DEF markDraged, autoChanged
    <3> QED BY <1>2, <3>2, CorrectStep DEF IInv
  <2> QED BY <2>1, <2>2, <2>3, <2>4, <2>5 DEF Moderator
<1>4. CopiesAfter
  BY <1>1, <1>3, Untouched DEF IInv, CopiesAfter
<1> QED BY <1>1, <1>3, <1>4, CopiesStep DEF IInv

(* The empty table.                                                        *)
LEMMA InitIInv == Init => IInv
<1> SUFFICES ASSUME Init PROVE IInv
  OBVIOUS
<1>1. Rows
  <2>1. plan = <<>> /\ Ids = {}
    BY DEF Init, Ids
  <2> QED BY <2>1 DEF Rows
<1>2. Copies
  <2>1. BagToSet(jobs) = {} /\ BagToSet(mods) = {} /\ batch = {}
    BY EmptyBagDomain DEF Init
  <2>2. page \in PagePlan /\ page.ll = Nowhere
    BY NoPlanTyped DEF Init
  <2> QED BY <2>1, <2>2, NowhereFacts DEF Copies, Shown
<1>3. 0 \in 0..MaxWindows
  BY LimitAssumption
<1> QED BY <1>1, <1>2, <1>3 DEF IInv, Init

(* Every step preserves the invariant.                                     *)
LEMMA NextIInv == IInv /\ [Next]_vars => IInv'
<1> SUFFICES ASSUME IInv, [Next]_vars PROVE IInv'
  OBVIOUS
<1>1. CASE Next
  BY <1>1, SpiderStep, PluginStep, JobStep, RobotStep, ModeratorStep DEF Next
<1>2. CASE UNCHANGED vars
  <2>1. UNCHANGED <<plan, windows, robot, batch, jobs, mods, page, ntt>>
    BY <1>2 DEF vars, robotVars, pageVars
  <2>2. CopiesAfter
    BY <2>1, Untouched DEF IInv, CopiesAfter
  <2> QED BY <2>1, <2>2, CopiesStep DEF IInv
<1> QED BY <1>1, <1>2

(* The invariant holds always.                                             *)
LEMMA Invariance == Spec => []IInv
BY InitIInv, NextIInv, PTL DEF Spec

-----------------------------------------------------------------------------
(* The properties of the table *)

(* A post becomes one plan, however many windows send it and however often *)
(* (plan_cmd_plan_add), and every change under way names a row.            *)
THEOREM OnePlanPerPostHolds == Spec => []OnePlanPerPost
<1>1. IInv => OnePlanPerPost
  <2> SUFFICES ASSUME IInv PROVE OnePlanPerPost
    OBVIOUS
  <2>1. batch \subseteq PagePlan
    BY DEF IInv, Copies, Taken
  <2>2. BagToSet(jobs) \subseteq [plan : PagePlan, at : [Ends -> {"point", "city", "end"}]]
    BY DEF IInv, Copies, Looked, JobAt
  <2>3. BagToSet(mods) \subseteq Mod
    BY DEF IInv, Copies, Sent
  <2>4. page \in PagePlan
    BY DEF IInv, Copies, Shown
  <2>5. TypeOK
    BY <2>1, <2>2, <2>3, <2>4 DEF IInv, Rows, TypeOK
  <2> QED BY <2>5 DEF IInv, Rows, OnePlanPerPost
<1> QED BY <1>1, Invariance, PTL

(* A plan that searches find is measured, its columns about the same two   *)
(* places, whatever old copies were written (getCityOfEnd, upPlan,         *)
(* plan_cmd_plan_up).                                                      *)
THEOREM ConfirmedMeasuredHolds == Spec => []ConfirmedMeasured
<1>1. IInv => ConfirmedMeasured
  BY DEF IInv, Rows, Right, MeasuredWay, ConfirmedMeasured
<1> QED BY <1>1, Invariance, PTL

(* The robot confirms no long ride that repeats, for any LONG and any      *)
(* answers of the map (getCityOfEnd, spd_post_robot_data_mod).             *)
THEOREM NoLongRepeatHolds == Spec => []NoLongRepeat
<1>1. IInv => NoLongRepeat
  BY DEF IInv, Rows, Right, NoLongRepeat
<1> QED BY <1>1, Invariance, PTL

-----------------------------------------------------------------------------
(* What is decided stays decided *)

(* Nobody holds a copy of plan i: what Settled asks for, holder by holder. *)
NotTaken(i) == \A p \in batch : p.id # i
NotLooked(i) == \A j \in BagToSet(jobs) : j.plan.id # i
NotSent(i) == \A m \in BagToSet(mods) : m.id # i
NotShown(i) == page.id # i

(* Settled is the state of the row and the four holders.                   *)
LEMMA SettledParts ==
  ASSUME NEW i
  PROVE  Settled(i) <=> /\ plan[i].statu \in Confirmed \cup {"DELETE"}
                        /\ NotTaken(i) /\ NotLooked(i) /\ NotSent(i) /\ NotShown(i)
BY DEF Settled, NotTaken, NotLooked, NotSent, NotShown

(* A callback puts the plan it worked on back, and what it posts is that   *)
(* plan.                                                                   *)
LEMMA LookedStays ==
  ASSUME NEW i, NotLooked(i), NEW j \in BagToSet(jobs), NEW x, NEW p, NEW at,
         p.id = j.plan.id, Continue(j, x, p, at)
  PROVE  NotLooked(i)'
<1> DEFINE k == [plan |-> p, at |-> [j.at EXCEPT ![x] = at]]
<1>1. jobs' = BagRemove(jobs, j) \/ jobs' = BagAdd(BagRemove(jobs, j), k)
  BY DEF Continue
<1>2. k.plan.id = j.plan.id /\ j.plan.id # i
  BY DEF NotLooked
<1> HIDE DEF k
<1>3. BagToSet(jobs') \subseteq BagToSet(jobs) \cup {k}
  BY <1>1, BagAddDomain, BagRemoveDomain
<1> QED BY <1>2, <1>3 DEF NotLooked

(* Changes posted for another plan.                                        *)
LEMMA SentStays ==
  ASSUME NEW i, NotSent(i), NEW m, m.id # i,
         mods' \in {mods, BagAdd(mods, m), BagAdd(BagAdd(mods, m), m)}
  PROVE  NotSent(i)'
<1>1. BagToSet(mods') \subseteq BagToSet(mods) \cup {m}
  BY BagAddDomain
<1> QED BY <1>1 DEF NotSent

(* What the robot posts is about the plan it looked up.                    *)
LEMMA RobotModId ==
  ASSUME NEW p \in PagePlan
  PROVE  RobotMod(p).id = p.id
<1> DEFINE v == IF p.statu = "SPD_RBTED" THEN p.statu ELSE "SPD_RBT_OK"
           q == [p EXCEPT !.statu = v]
<1>1. RobotMod(p) = Columns(q)
  BY DEF RobotMod
<1>2. q.id = p.id
  BY DEF PagePlan
<1> HIDE DEF q
<1>3. Columns(q).id = q.id
  BY DEF Columns
<1> QED BY <1>1, <1>2, <1>3

(* The callbacks of the lookups make no copy of another plan.              *)
LEMMA JobSettled ==
  ASSUME IInv, NEW i, NotLooked(i), NotSent(i), Job
  PROVE  NotLooked(i)' /\ NotSent(i)'
<1>0. PICK j \in BagToSet(jobs) :
        \/ \E x \in Ends : \/ \E point \in Points[x] : getPoint(j, x, point)
                           \/ LookupFails(j, x)
                           \/ NoAnswer(j, x)
        \/ getCityOfStart(j)
        \/ getCityOfEnd(j)
  BY DEF Job
<1>1. j.plan \in PagePlan /\ j.plan.id # i
  BY DEF IInv, Copies, Looked, NotLooked
<1>2. mods' = mods => NotSent(i)'
  BY DEF NotSent
<1>3. ASSUME NEW x \in Ends, NEW point \in Points[x], getPoint(j, x, point)
      PROVE  NotLooked(i)' /\ NotSent(i)'
  <2> DEFINE p == [j.plan EXCEPT !.ll[x] = point]
  <2>1. p.id = j.plan.id
    BY <1>1 DEF PagePlan
  <2>2. Continue(j, x, p, "city") /\ mods' = mods
    BY <1>3 DEF getPoint
  <2> QED BY <1>2, <2>1, <2>2, LookedStays
<1>4. ASSUME NEW x \in Ends, LookupFails(j, x)
      PROVE  NotLooked(i)' /\ NotSent(i)'
  <2> DEFINE p == [j.plan EXCEPT !.statu = "SPD_RBTED"]
  <2>1. p \in PagePlan /\ p.id = j.plan.id
    BY <1>1, StatuChanged, "SPD_RBTED" \in PLAN_ST DEF PLAN_ST
  <2>2. Continue(j, x, p, "end") /\ mods' = BagAdd(mods, RobotMod(p))
    BY <1>4 DEF LookupFails, parsePlanErr
  <2> HIDE DEF p
  <2>3. RobotMod(p).id # i
    BY <1>1, <2>1, RobotModId
  <2> QED BY <2>1, <2>2, <2>3, LookedStays, SentStays
<1>5. ASSUME NEW x \in Ends, NoAnswer(j, x)
      PROVE  NotLooked(i)' /\ NotSent(i)'
  BY <1>2, <1>5, LookedStays DEF NoAnswer
<1>6. ASSUME getCityOfStart(j)
      PROVE  NotLooked(i)' /\ NotSent(i)'
  <2> DEFINE p == [j.plan EXCEPT !.cityid["s"] = j.plan.ll["s"]]
  <2>1. p.id = j.plan.id
    BY <1>1 DEF PagePlan
  <2>2. Continue(j, "s", p, "end") /\ mods' = mods
    BY <1>6 DEF getCityOfStart
  <2> QED BY <1>2, <2>1, <2>2, LookedStays
<1>7. ASSUME getCityOfEnd(j)
      PROVE  NotLooked(i)' /\ NotSent(i)'
  <2> DEFINE p == [j.plan EXCEPT !.cityid["e"] = j.plan.ll["e"]]
             long == p.repeat /\ Distance(p.ll) > LONG
             r == IF long THEN [p EXCEPT !.statu = "SPD_RBTED"] ELSE p
             q == Measured(r)
  <2>1. p \in PagePlan /\ p.id = j.plan.id
    <3>1. "e" \in Ends /\ j.plan.ll["e"] \in Nat
      BY <1>1 DEF PagePlan, Place, Ends
    <3> QED BY <1>1, <3>1, CityChanged
  <2>2. \/ Continue(j, "e", p, "end") /\ mods' = mods
        \/ /\ Continue(j, "e", q, "end")
           /\ mods' \in {BagAdd(mods, RobotMod(q)), BagAdd(BagAdd(mods, RobotMod(q)), RobotMod(q))}
    BY <1>7 DEF getCityOfEnd
  <2> HIDE DEF p
  <2>3. r \in PagePlan /\ r.id = p.id
    BY <2>1, StatuChanged, "SPD_RBTED" \in PLAN_ST DEF PLAN_ST
  <2> HIDE DEF r
  <2>4. q \in PagePlan /\ q.id = r.id
    BY <2>3, MeasuredFields
  <2> HIDE DEF q
  <2>5. RobotMod(q).id # i
    BY <1>1, <2>1, <2>3, <2>4, RobotModId
  <2>6. CASE Continue(j, "e", p, "end") /\ mods' = mods
    BY <1>2, <2>1, <2>6, LookedStays
  <2>7. CASE /\ Continue(j, "e", q, "end")
             /\ mods' \in {BagAdd(mods, RobotMod(q)), BagAdd(BagAdd(mods, RobotMod(q)), RobotMod(q))}
    <3>1. q.id = j.plan.id
      BY <2>1, <2>3, <2>4
    <3> QED BY <2>5, <2>7, <3>1, LookedStays, SentStays
  <2> QED BY <2>2, <2>6, <2>7
<1> QED BY <1>0, <1>3, <1>4, <1>5, <1>6, <1>7, Zenon

(* The robot asks for fresh plans, and looks up those it was given.        *)
LEMMA RobotSettled ==
  ASSUME IInv, NEW i, plan[i].statu # "SPD_FRESH", NotTaken(i), NotLooked(i), Robot
  PROVE  NotTaken(i)' /\ NotLooked(i)'
<1>1. CASE getPlansAnswered
  <2>1. PICK S \in SUBSET Fresh : batch' = {Copy(k) : k \in S}
    BY <1>1 DEF getPlansAnswered, spd_post_robot_data_get
  <2>2. \A k : Copy(k).id = k
    BY DEF Copy
  <2>3. i \notin S
    BY DEF Fresh
  <2>4. NotTaken(i)'
    BY <2>1, <2>2, <2>3 DEF NotTaken
  <2> QED BY <1>1, <2>4 DEF getPlansAnswered, NotLooked
<1>2. CASE \E p \in batch : parsePlan(p)
  <2>1. PICK p \in batch : parsePlan(p)
    BY <1>2
  <2> DEFINE j == [plan |-> p, at |-> [x \in Ends |-> "point"]]
  <2>2. j.plan.id # i /\ jobs' = BagAdd(jobs, j) /\ batch' \subseteq batch
    BY <2>1 DEF NotTaken, parsePlan
  <2> HIDE DEF j
  <2>3. BagToSet(jobs') = BagToSet(jobs) \cup {j}
    BY <2>2, BagAddDomain
  <2> QED BY <2>2, <2>3 DEF NotTaken, NotLooked
<1>3. CASE getPlans \/ getPlansRefused \/ getPlansLost \/ parsePlanEnds
  BY <1>3 DEF getPlans, getPlansRefused, getPlansLost, parsePlanEnds, NotTaken, NotLooked
<1> QED BY <1>1, <1>2, <1>3 DEF Robot

(* The moderator is shown unconfirmed plans, and sends the one shown.      *)
LEMMA ModeratorSettled ==
  ASSUME IInv, NEW i \in Ids, plan[i].statu # "SPD_RBTED", NotShown(i), NotSent(i), Moderator
  PROVE  NotShown(i)' /\ NotSent(i)'
<1>0. page \in PagePlan /\ page.id # i
  BY DEF IInv, Copies, Shown, NotShown
<1>1. CASE onready
  <2>1. page'.id = 0 /\ mods' = mods
    BY <1>1 DEF onready, NoPlan
  <2> QED BY <2>1 DEF NotShown, NotSent, Ids
<1>2. CASE getPlan
  <2>1. PICK k \in Unconfirmed : page' = Copy(k)
    BY <1>2 DEF getPlan, spd_post_do_data_get
  <2>2. page'.id = k /\ k # i
    BY <2>1 DEF Copy, Unconfirmed
  <2>3. mods' = mods
    BY <1>2 DEF getPlan
  <2> QED BY <2>2, <2>3 DEF NotShown, NotSent
<1>3. CASE savePlan
  <2> DEFINE q == [page EXCEPT !.rect = page.ll, !.geo = page.ll]
             r == [q EXCEPT !.statu = "SPD_OK"]
  <2>1. page' = q /\ mods' = BagAdd(mods, Columns(r))
    BY <1>3 DEF savePlan
  <2>2. q.id = page.id /\ r.id = page.id
    BY <1>0 DEF PagePlan
  <2> HIDE DEF q, r
  <2>3. Columns(r).id = r.id
    BY DEF Columns
  <2>4. NotSent(i)'
    BY <1>0, <2>1, <2>2, <2>3, SentStays
  <2> QED BY <1>0, <2>1, <2>2, <2>4 DEF NotShown
<1>4. CASE delPlan
  <2> DEFINE r == [page EXCEPT !.statu = "DELETE"]
  <2>1. page' = page /\ mods' = BagAdd(mods, Columns(r))
    BY <1>4 DEF delPlan, pageVars
  <2>2. r.id = page.id
    BY <1>0 DEF PagePlan
  <2> HIDE DEF r
  <2>3. Columns(r).id = r.id
    BY DEF Columns
  <2>4. NotSent(i)'
    BY <1>0, <2>1, <2>2, <2>3, SentStays
  <2> QED BY <1>0, <2>1, <2>4 DEF NotShown
<1>5. CASE \E x \in Ends : \E point \in Corrections[x] : markDraged(x, point) \/ autoChanged(x, point)
  <2>1. PICK x \in Ends : \E point \in Corrections[x] : markDraged(x, point) \/ autoChanged(x, point)
    BY <1>5
  <2>2. PICK point \in Corrections[x] : upPlan(x, point) /\ mods' = mods
    BY <2>1 DEF markDraged, autoChanged
  <2>3. page'.id = page.id
    BY <1>0, <2>2 DEF upPlan, PagePlan
  <2> QED BY <1>0, <2>2, <2>3 DEF NotShown, NotSent
<1> QED BY <1>1, <1>2, <1>3, <1>4, <1>5 DEF Moderator

(* A decision nobody holds a copy of is final: no page is offered the plan *)
(* again, and no change names it (spd_post_robot_data_get,                 *)
(* spd_post_do_data_get, plan_cmd_plan_up).                                *)
THEOREM SettledForGoodHolds == Spec => SettledForGood
<1> DEFINE Final == \A i \in Ids : Settled(i) => plan'[i] = plan[i] /\ Settled(i)'
<1>1. IInv /\ [Next]_vars => [Final]_vars
  <2> SUFFICES ASSUME IInv, Next, NEW i \in Ids, Settled(i)
               PROVE  plan'[i] = plan[i] /\ Settled(i)'
    OBVIOUS
  <2>0. /\ plan[i].statu \notin {"SPD_FRESH", "SPD_RBTED"}
        /\ plan[i].statu \in Confirmed \cup {"DELETE"}
        /\ NotTaken(i) /\ NotLooked(i) /\ NotSent(i) /\ NotShown(i)
        /\ plan \in Seq(Row)
    BY SettledParts DEF Confirmed, IInv, Rows
  <2> DEFINE Left == /\ plan'[i] = plan[i]
                     /\ NotTaken(i)' /\ NotLooked(i)' /\ NotSent(i)' /\ NotShown(i)'
  <2>1. ASSUME Spider PROVE Left
    <3>1. UNCHANGED <<batch, jobs, mods, page>>
      BY <2>1 DEF Spider, parseList, parseNode, robotVars, pageVars
    <3>2. plan'[i] = plan[i]
      <4>1. plan' = plan \/ \E o \in Posts : \E known \in BOOLEAN : plan' = Append(plan, NewRow(o, known))
        BY <2>1 DEF Spider, parseList, parseNode, plan_cmd_plan_add
      <4>2. ASSUME NEW r, plan' = Append(plan, r) PROVE plan'[i] = plan[i]
        BY <2>0, <4>2 DEF Ids
      <4> QED BY <4>1, <4>2
    <3> QED BY <2>0, <3>1, <3>2 DEF NotTaken, NotLooked, NotSent, NotShown
  <2>2. ASSUME Plugin PROVE Left
    <3>1. PICK m \in BagToSet(mods) : plan_cmd_plan_up(m) \/ ModLost(m)
      BY <2>2 DEF Plugin
    <3>2. m.id # i
      BY <2>0 DEF NotSent
    <3>3. UNCHANGED <<batch, jobs, page>> /\ mods' = BagRemove(mods, m) /\ plan'[i] = plan[i]
      BY <3>1, <3>2, <2>0 DEF plan_cmd_plan_up, ModLost, robotVars, pageVars, Ids
    <3>4. NotSent(i)'
      BY <2>0, <3>3, BagRemoveDomain DEF NotSent
    <3> QED BY <2>0, <3>3, <3>4 DEF NotTaken, NotLooked, NotShown
  <2>3. ASSUME Job PROVE Left
    <3>1. UNCHANGED <<plan, batch, page>>
      BY <2>3 DEF Job, getPoint, LookupFails, NoAnswer, getCityOfStart, getCityOfEnd, pageVars
    <3> QED BY <2>0, <2>3, <3>1, JobSettled DEF NotTaken, NotShown
  <2>4. ASSUME Robot PROVE Left
    <3>1. UNCHANGED <<plan, mods, page>>
      BY <2>4 DEF Robot, getPlans, getPlansAnswered, getPlansRefused, getPlansLost,
                  parsePlan, parsePlanEnds, pageVars
    <3> QED BY <2>0, <2>4, <3>1, RobotSettled DEF NotSent, NotShown
  <2>5. ASSUME Moderator PROVE Left
    <3>1. UNCHANGED <<plan, batch, jobs>>
      BY <2>5 DEF Moderator, onready, getPlan, savePlan, delPlan, markDraged, autoChanged, robotVars
    <3> QED BY <2>0, <2>5, <3>1, ModeratorSettled DEF NotTaken, NotLooked
  <2>6. Left
    BY <2>1, <2>2, <2>3, <2>4, <2>5 DEF Next
  <2> QED
    BY <2>0, <2>6 DEF Settled, NotTaken, NotLooked, NotSent, NotShown
<1> QED BY <1>1, Invariance, PTL DEF Spec, SettledForGood
=============================================================================
