--------------------------- MODULE PlanPageProofs ---------------------------
(***************************************************************************)
(* The four invariants of the page on which a visitor looks for a ride,    *)
(* for any table of plans, any limits of the search and any number of      *)
(* choices and searches.                                                   *)
(*                                                                         *)
(* The search of the plugin enters by one fact (OutcomeCounts): it never   *)
(* counts more plans than it returns.  What the page does with the answers *)
(* is in four parts of the invariant, one for each of the properties.      *)
(***************************************************************************)
EXTENDS PlanPage, FiniteSetTheorems, TLAPS

LookupType == [end : Ends, choice : Choices \ {0}, kind : {"point", "city", "location"}]

(* No lookup asks for a choice that was not made.                          *)
Asked == \A l \in lookups : l.choice <= chosen[l.end]

(* The links are those of the current plan among the pnum counted; there   *)
(* are no plans once they are to fade out.                                 *)
LinksOf(n, num) == {l \in {"prev", "next"} : IF l = "prev" THEN n > 0 ELSE n < num - 1}
Turning ==
  IF Stays(result) THEN pnum <= mplans /\ pcur < pnum /\ links = LinksOf(pcur, pnum)
  ELSE mplans = 0

(* A search that crossed no other one is the only one under way, and until *)
(* its answer there is nothing to see, but for a form that the visitor     *)
(* fetched with the fading mc-continue.                                    *)
Verdict ==
  ~crossed =>
    /\ searches <= 1
    /\ searches = 1 => ~Stays(result) /\ (Stays(noresult) => toggled)
    /\ Stays(result) /\ Stays(noresult) => toggled

(* What an end without trouble lacks is being looked up, for the choice    *)
(* that was made last and for no other.                                    *)
AskedFor(x, kinds) == \E k \in kinds : Lookup(x, chosen[x], k) \in lookups
Agreeing(x) ==
  ~trouble[x] =>
    /\ \A l \in lookups : l.end = x => l.choice = chosen[x]
    /\ addr[x] = chosen[x] \/ AskedFor(x, {"location"})
    /\ ll[x] = chosen[x] \/ AskedFor(x, {"point", "location"})
    /\ cityid[x] = chosen[x] \/ AskedFor(x, {"city", "location"})

(* What is on the screen, or awaited, comes from a search that had two     *)
(* points; a clean one still has them.                                     *)
Sought ==
  /\ searches > 0 \/ result # Hidden \/ noresult # Hidden => rect["s"] # 0 /\ rect["e"] # 0
  /\ clean => lookups = {} /\ rect = ll /\ \A x \in Ends : ~trouble[x]

IInv ==
  /\ TypeOK /\ Asked /\ Turning /\ Verdict /\ Sought
  /\ \A x \in Ends : Agreeing(x)

-----------------------------------------------------------------------------
(* The search.                                                             *)

(* The limits of the queries, as numbers.                                  *)
LEMMA Limits ==
  /\ GeoaMin \in Nat \ {0} /\ GeoMax \in Nat \ {0} /\ GeoaMin <= GeoMax
  /\ MaxChoices \in Nat /\ MaxSearches \in Nat
<1>1. {GeoaMin, GeoaMax, GeoMax, MaxChoices, MaxSearches} \subseteq Nat \ {0}
  BY SizeAssumption, Zenon
<1> QED
  BY <1>1, GeoAssumption

(* Rows that were not counted, fewer than GeoaMin of them, do not use up   *)
(* the count when the surplus is trimmed.                                  *)
LEMMA TrimmedCounts ==
  ASSUME NEW rows \in Nat, NEW ttnum \in Nat,
         0 < ttnum, ttnum <= rows, rows - ttnum < GeoaMin
  PROVE  LET out == Trimmed(rows, ttnum)
         IN out.found => out.plans \in Nat /\ out.ntt \in Nat /\ 0 < out.ntt /\ out.ntt <= out.plans
BY Limits DEF Trimmed

(* What joins two queries has all the rows of the second, and at most      *)
(* those of the first besides.                                             *)
LEMMA JoinedRows ==
  ASSUME NEW a \in SUBSET Plans, NEW b \in SUBSET Plans, b # {}
  PROVE  /\ Cardinality(a) \in Nat /\ Cardinality(b) \in Nat /\ Cardinality(a \cup b) \in Nat
         /\ 0 < Cardinality(b) /\ Cardinality(b) <= Cardinality(a \cup b)
         /\ Cardinality(a \cup b) - Cardinality(b) <= Cardinality(a)
<1>1. IsFiniteSet(Plans)
  BY SizeAssumption
<1>2. IsFiniteSet(a) /\ IsFiniteSet(b) /\ IsFiniteSet(a \cup b) /\ IsFiniteSet(a \cap b)
  <2>1. (a \cup b) \in SUBSET Plans /\ (a \cap b) \in SUBSET Plans
    OBVIOUS
  <2> QED
    BY <1>1, <2>1, FS_Subset
<1>3. /\ Cardinality(a) \in Nat /\ Cardinality(b) \in Nat /\ Cardinality(a \cup b) \in Nat
      /\ Cardinality(a \cap b) \in Nat
  BY <1>2, FS_CardinalityType
<1>4. Cardinality(b) # 0
  BY <1>2, FS_EmptySet
<1>5. Cardinality(a \cap b) <= Cardinality(a)
  <2>1. (a \cap b) \in SUBSET a
    OBVIOUS
  <2> QED
    BY <1>2, <2>1, FS_Subset
<1>6. Cardinality(a \cup b) = Cardinality(a) + Cardinality(b) - Cardinality(a \cap b)
  BY <1>2, FS_Union
<1> QED
  BY <1>3, <1>4, <1>5, <1>6

(* plan_cmd_plan_match counts a plan at least, and no more than it returns.*)
LEMMA OutcomeCounts ==
  ASSUME NEW out \in Outcomes, out.found
  PROVE  out.plans \in Nat /\ out.ntt \in Nat /\ 0 < out.ntt /\ out.ntt <= out.plans
<1> PICK a \in SUBSET Plans, b \in SUBSET Plans, x \in SUBSET Plans :
      out = plan_cmd_plan_match(a, b, x)
  BY DEF Outcomes
<1> DEFINE kept == IF Cardinality(a) > GeoaMax THEN {} ELSE a
<1>k. kept \in SUBSET Plans
  OBVIOUS
<1>n. Cardinality(kept) \in Nat
  BY <1>k, SizeAssumption, FS_Subset, FS_CardinalityType
<1> HIDE DEF kept
<1>1. CASE Cardinality(kept) >= GeoaMin
  <2>1. ~(Cardinality(kept) < GeoaMin)
    BY <1>1, <1>n, Limits
  <2>2. out = Trimmed(Cardinality(kept), Cardinality(kept))
    BY <1>1, <2>1, Zenon DEF plan_cmd_plan_match, kept
  <2> QED
    BY <1>1, <1>n, <2>2, Limits, TrimmedCounts
<1>2. CASE Cardinality(kept) < GeoaMin /\ b # {}
  <2>1. ~(Cardinality(kept) >= GeoaMin)
    BY <1>2, <1>n, Limits
  <2>2. out = Trimmed(Cardinality(kept \cup b), Cardinality(b))
    BY <1>2, <2>1, Zenon DEF plan_cmd_plan_match, kept
  <2> QED
    BY <1>2, <1>k, <2>2, Limits, JoinedRows, TrimmedCounts
<1>3. CASE Cardinality(kept) < GeoaMin /\ b = {} /\ x # {}
  <2>1. ~(Cardinality(kept) >= GeoaMin)
    BY <1>3, <1>n, Limits
  <2>2. out = Trimmed(Cardinality(kept \cup x), Cardinality(x))
    BY <1>3, <2>1, Zenon DEF plan_cmd_plan_match, kept
  <2> QED
    BY <1>3, <1>k, <2>2, Limits, JoinedRows, TrimmedCounts
<1>4. CASE Cardinality(kept) < GeoaMin /\ b = {} /\ x = {}
  <2>1. ~(Cardinality(kept) >= GeoaMin)
    BY <1>4, <1>n, Limits
  <2>2. out = NoMatch
    BY <1>4, <2>1, Zenon DEF plan_cmd_plan_match, kept
  <2> QED
    BY <2>2 DEF NoMatch
<1> QED
  BY <1>1, <1>2, <1>3, <1>4, <1>n, Limits

-----------------------------------------------------------------------------
(* What TypeOK says, one variable at a time.                               *)
LEMMA Types ==
  ASSUME TypeOK
  PROVE  /\ chosen \in [Ends -> Choices] /\ addr \in [Ends -> Choices] /\ ll \in [Ends -> Choices]
         /\ cityid \in [Ends -> Choices] /\ rect \in [Ends -> Choices] /\ km \in [Ends -> Choices]
         /\ \A x \in Ends : addr[x] <= chosen[x] /\ ll[x] <= chosen[x]
         /\ lookups \subseteq LookupType
         /\ searches \in 0..MaxSearches /\ mplans \in Nat /\ pnum \in Nat /\ pcur \in Nat
         /\ links \subseteq {"prev", "next"}
         /\ result \in Elements /\ noresult \in Elements
         /\ trouble \in [Ends -> BOOLEAN]
         /\ "s" \in Ends /\ "e" \in Ends
BY Zenon DEF TypeOK, LookupType, Ends

(* What the effects do to an element, and where they leave it.             *)
LEMMA Effects ==
  ASSUME NEW e \in Elements
  PROVE  /\ fadeOut(e) \in Elements /\ fadeIn(e) \in Elements
         /\ FadedOut(e) \in Elements /\ toggle(e) \in Elements
         /\ ~Stays(fadeOut(e)) /\ Stays(fadeIn(e))
         /\ e.fx # "none" => (Stays(FadedOut(e)) <=> Stays(e))
         /\ e = Hidden => fadeOut(e) = Hidden
         /\ e.shown \/ e.fx # "none" => e # Hidden
         /\ e.shown /\ ~Stays(e) => e.fx = "out"
<1>1. PICK b \in BOOLEAN, f \in {"none", "out", "out in"} : e = [shown |-> b, fx |-> f]
  BY DEF Elements
<1>2. e.shown = b /\ e.fx = f
  BY <1>1
<1>3. (e = Hidden) <=> (~b /\ f = "none")
  BY <1>1, <1>2 DEF Hidden
<1> QED
  BY <1>1, <1>2, <1>3 DEF Elements, Hidden, fadeOut, fadeIn, FadedOut, toggle, Stays

(* The ends and their lookups change at four actions only.                 *)
LEMMA EndSteps ==
  ASSUME [Next]_vars
  PROVE  \/ \E x \in Ends : autoChanged(x) \/ markDraged(x)
         \/ \E l \in lookups : LookupAnswered(l) \/ LookupFailed(l)
         \/ UNCHANGED endVars
BY DEF Next, matchPlan, MatchAnswered, MatchFailed, TurnOver, Continue, FadeEnds, vars

(* Asked and Agreeing do not depend on what is searched and shown.         *)
LEMMA ChooseKeeps ==
  ASSUME TypeOK, Asked, NEW y \in Ends, autoChanged(y) \/ markDraged(y),
         \A x \in Ends : Agreeing(x)
  PROVE  Asked' /\ \A x \in Ends : Agreeing(x)'
<1> DEFINE c == chosen[y] + 1
<1>t. /\ chosen \in [Ends -> Choices] /\ addr \in [Ends -> Choices]
      /\ lookups \subseteq LookupType /\ trouble \in [Ends -> BOOLEAN]
  BY Types
<1>c. c \in Nat /\ \A x \in Ends : chosen[x] \in Nat
  BY <1>t, Limits DEF Choices
<1>1. /\ chosen' = [chosen EXCEPT ![y] = c]
      /\ trouble' = [trouble EXCEPT ![y] = Pending(y) # {}]
      /\ ll' = ll /\ cityid' = cityid
  BY DEF autoChanged, markDraged, Choose
<1>2. \/ /\ addr' = [addr EXCEPT ![y] = c]
         /\ lookups' = lookups \cup {Lookup(y, c, "point"), Lookup(y, c, "city")}
      \/ /\ addr' = addr
         /\ lookups' = lookups \cup {Lookup(y, c, "location")}
  BY DEF autoChanged, markDraged
<1>3. \A l \in lookups' : l \in lookups \/ (l.end = y /\ l.choice = c)
  BY <1>2 DEF Lookup
<1>4. Asked'
  <2> SUFFICES ASSUME NEW l \in lookups' PROVE l.choice <= chosen'[l.end]
    BY DEF Asked
  <2>1. CASE l \in lookups
    <3>1. l.end \in Ends /\ l.choice \in Nat /\ l.choice <= chosen[l.end]
      BY <1>t, <2>1, Limits DEF LookupType, Asked, Choices
    <3>2. chosen[l.end] <= chosen'[l.end]
      BY <1>t, <1>c, <1>1, <3>1
    <3> QED
      BY <1>t, <1>c, <1>1, <3>1, <3>2
  <2>2. CASE l.end = y /\ l.choice = c
    BY <1>t, <1>c, <1>1, <2>2
  <2> QED
    BY <1>3, <2>1, <2>2
<1>5. ASSUME NEW x \in Ends PROVE Agreeing(x)'
  <2>1. CASE x # y
    <3>1. /\ chosen'[x] = chosen[x] /\ trouble'[x] = trouble[x] /\ addr'[x] = addr[x]
          /\ ll'[x] = ll[x] /\ cityid'[x] = cityid[x]
      BY <1>t, <1>1, <1>2, <2>1
    <3>2. \A l \in lookups' : l.end = x => l \in lookups
      BY <1>3, <2>1
    <3>3. \A kinds : AskedFor(x, kinds) => AskedFor(x, kinds)'
      BY <1>2, <3>1 DEF AskedFor
    <3>4. Agreeing(x)
      OBVIOUS
    <3> QED
      BY <3>1, <3>2, <3>3, <3>4 DEF Agreeing
  <2>2. CASE x = y
    <3> SUFFICES ASSUME ~trouble'[x] PROVE Agreeing(x)'
      BY DEF Agreeing
    <3>1. Pending(y) = {}
      BY <1>t, <1>1, <2>2
    <3>2. \A l \in lookups : l.end # y
      BY <3>1 DEF Pending
    <3>3. chosen'[x] = c
      BY <1>t, <1>1, <2>2
    <3>4. \A l \in lookups' : l.end = x => l.choice = chosen'[x]
      BY <1>3, <2>2, <3>2, <3>3
    <3>5. CASE /\ addr' = [addr EXCEPT ![y] = c]
               /\ lookups' = lookups \cup {Lookup(y, c, "point"), Lookup(y, c, "city")}
      <4>1. addr'[x] = chosen'[x]
        BY <1>t, <2>2, <3>3, <3>5
      <4>2. AskedFor(x, {"point", "location"})' /\ AskedFor(x, {"city", "location"})'
        BY <2>2, <3>3, <3>5 DEF AskedFor
      <4> QED
        BY <3>4, <4>1, <4>2 DEF Agreeing
    <3>6. CASE lookups' = lookups \cup {Lookup(y, c, "location")}
      <4>1. /\ AskedFor(x, {"location"})' /\ AskedFor(x, {"point", "location"})'
            /\ AskedFor(x, {"city", "location"})'
        BY <2>2, <3>3, <3>6 DEF AskedFor
      <4> QED
        BY <3>4, <4>1 DEF Agreeing
    <3> QED
      BY <1>2, <3>5, <3>6
  <2> QED
    BY <2>1, <2>2
<1> QED
  BY <1>4, <1>5

(* An answer, or none, to a lookup keeps the ends in agreement.            *)
LEMMA AnswerKeeps ==
  ASSUME TypeOK, Asked, NEW l \in lookups, LookupAnswered(l) \/ LookupFailed(l),
         \A x \in Ends : Agreeing(x)
  PROVE  Asked' /\ \A x \in Ends : Agreeing(x)'
<1>t. /\ chosen \in [Ends -> Choices] /\ addr \in [Ends -> Choices] /\ ll \in [Ends -> Choices]
      /\ cityid \in [Ends -> Choices]
      /\ lookups \subseteq LookupType /\ trouble \in [Ends -> BOOLEAN]
  BY Types
<1>l. /\ l.end \in Ends /\ l = Lookup(l.end, l.choice, l.kind)
      /\ l.kind \in {"point", "city", "location"}
  BY <1>t DEF LookupType, Lookup
<1>1. CASE LookupAnswered(l)
  <2>1. chosen' = chosen /\ trouble' = trouble
    BY <1>1 DEF LookupAnswered
  <2>2. \/ /\ l.kind = "point" /\ ll' = [ll EXCEPT ![l.end] = l.choice]
           /\ lookups' = lookups \ {l} /\ addr' = addr /\ cityid' = cityid
        \/ /\ l.kind = "city" /\ cityid' = [cityid EXCEPT ![l.end] = l.choice]
           /\ lookups' = lookups \ {l} /\ addr' = addr /\ ll' = ll
        \/ /\ l.kind = "location" /\ ll' = [ll EXCEPT ![l.end] = l.choice]
           /\ addr' = [addr EXCEPT ![l.end] = l.choice]
           /\ lookups' = (lookups \ {l}) \cup {Lookup(l.end, l.choice, "city")}
           /\ cityid' = cityid
    BY <1>1 DEF LookupAnswered, Point, CityOf
  <2>3. \A m \in lookups' : m \in lookups \/ (m.end = l.end /\ m.choice = l.choice)
    BY <2>2 DEF Lookup
  <2>4. Asked'
    BY <2>1, <2>3 DEF Asked
  <2>5. ASSUME NEW x \in Ends PROVE Agreeing(x)'
    <3> SUFFICES ASSUME ~trouble[x] PROVE Agreeing(x)'
      BY <2>1 DEF Agreeing
    <3>0. /\ \A m \in lookups : m.end = x => m.choice = chosen[x]
          /\ addr[x] = chosen[x] \/ AskedFor(x, {"location"})
          /\ ll[x] = chosen[x] \/ AskedFor(x, {"point", "location"})
          /\ cityid[x] = chosen[x] \/ AskedFor(x, {"city", "location"})
      BY DEF Agreeing
    <3>1. \A m \in lookups' : m.end = x => m.choice = chosen'[x]
      BY <2>1, <2>3, <3>0
    <3>2. CASE x # l.end
      <4>1. addr'[x] = addr[x] /\ ll'[x] = ll[x] /\ cityid'[x] = cityid[x]
        BY <1>t, <1>l, <2>2, <3>2
      <4>2. \A k : Lookup(x, chosen[x], k) # l
        BY <3>2 DEF Lookup
      <4>3. \A kinds : AskedFor(x, kinds) => AskedFor(x, kinds)'
        BY <2>1, <2>2, <4>2 DEF AskedFor
      <4> QED
        BY <2>1, <3>0, <3>1, <4>1, <4>3 DEF Agreeing
    <3>3. CASE x = l.end
      <4>1. l.choice = chosen[x] /\ l = Lookup(x, chosen[x], l.kind)
        BY <1>l, <3>0, <3>3
      <4>2. \A k : k # l.kind /\ Lookup(x, chosen[x], k) \in lookups
                    => Lookup(x, chosen[x], k) \in lookups'
        <5>1. \A k : k # l.kind => Lookup(x, chosen[x], k) # l
          BY DEF Lookup
        <5> QED
          BY <2>2, <5>1
      <4>3. CASE l.kind = "point"
        <5>1. ll'[x] = chosen[x] /\ addr' = addr /\ cityid' = cityid
          BY <1>t, <2>2, <3>3, <4>1, <4>3
        <5>2. /\ AskedFor(x, {"location"}) => AskedFor(x, {"location"})'
              /\ AskedFor(x, {"city", "location"}) => AskedFor(x, {"city", "location"})'
          BY <2>1, <4>2, <4>3 DEF AskedFor
        <5> QED
          BY <2>1, <3>0, <3>1, <5>1, <5>2 DEF Agreeing
      <4>4. CASE l.kind = "city"
        <5>1. cityid'[x] = chosen[x] /\ addr' = addr /\ ll' = ll
          BY <1>t, <2>2, <3>3, <4>1, <4>4
        <5>2. /\ AskedFor(x, {"location"}) => AskedFor(x, {"location"})'
              /\ AskedFor(x, {"point", "location"}) => AskedFor(x, {"point", "location"})'
          BY <2>1, <4>2, <4>4 DEF AskedFor
        <5> QED
          BY <2>1, <3>0, <3>1, <5>1, <5>2 DEF Agreeing
      <4>5. CASE l.kind = "location"
        <5>1. ll'[x] = chosen[x] /\ addr'[x] = chosen[x]
          BY <1>t, <2>2, <3>3, <4>1, <4>5
        <5>2. Lookup(x, chosen[x], "city") \in lookups'
          BY <2>2, <3>3, <4>1, <4>5
        <5>3. AskedFor(x, {"city", "location"})'
          BY <2>1, <5>2 DEF AskedFor
        <5> QED
          BY <2>1, <3>1, <5>1, <5>3 DEF Agreeing
      <4> QED
        BY <1>l, <4>3, <4>4, <4>5
    <3> QED
      BY <3>2, <3>3
  <2> QED
    BY <2>4, <2>5
<1>2. CASE LookupFailed(l)
  <2>1. /\ chosen' = chosen /\ addr' = addr /\ ll' = ll /\ cityid' = cityid
        /\ lookups' = lookups \ {l} /\ trouble' = [trouble EXCEPT ![l.end] = TRUE]
    BY <1>2 DEF LookupFailed
  <2>2. Asked'
    BY <2>1 DEF Asked
  <2>3. ASSUME NEW x \in Ends PROVE Agreeing(x)'
    <3>1. CASE x = l.end
      BY <1>t, <2>1, <3>1 DEF Agreeing
    <3>2. CASE x # l.end
      <4>1. trouble'[x] = trouble[x]
        BY <1>t, <2>1, <3>2
      <4>2. \A k : Lookup(x, chosen[x], k) # l
        BY <3>2 DEF Lookup
      <4>3. \A kinds : AskedFor(x, kinds) => AskedFor(x, kinds)'
        BY <2>1, <4>2 DEF AskedFor
      <4> QED
        BY <2>1, <4>1, <4>3 DEF Agreeing
    <3> QED
      BY <3>1, <3>2
  <2> QED
    BY <2>2, <2>3
<1> QED
  BY <1>1, <1>2

(* Whatever happens, an end without trouble agrees with itself or is being *)
(* looked up.                                                              *)
LEMMA EndsKept ==
  ASSUME TypeOK, Asked, \A x \in Ends : Agreeing(x), [Next]_vars
  PROVE  Asked' /\ \A x \in Ends : Agreeing(x)'
<1>1. CASE UNCHANGED endVars
  BY <1>1 DEF endVars, Asked, Agreeing, AskedFor
<1> QED
  BY <1>1, EndSteps, ChooseKeeps, AnswerKeeps

-----------------------------------------------------------------------------
(* What is searched and shown changes at six actions only.                 *)
LEMMA ShowSteps ==
  ASSUME [Next]_vars
  PROVE  \/ matchPlan \/ MatchAnswered \/ MatchFailed \/ Continue \/ FadeEnds
         \/ \E l \in {"prev", "next"} : TurnOver(l)
         \/ UNCHANGED searchVars
BY DEF Next, autoChanged, markDraged, Choose, LookupAnswered, LookupFailed, vars

(* An answer shows its first plan.                                         *)
LEMMA AnswerShows ==
  ASSUME MatchAnswered
  PROVE  \/ /\ mplans' \in Nat /\ pnum' \in Nat /\ 0 < pnum' /\ pnum' <= mplans'
            /\ pcur' = 0 /\ links' = LinksOf(0, pnum')
            /\ result' = fadeIn(result) /\ noresult' = noresult
         \/ noresult' = fadeIn(noresult) /\ UNCHANGED <<mplans, pnum, pcur, links, result>>
<1> PICK out \in Outcomes :
      IF out.found THEN Found(out)
      ELSE noresult' = fadeIn(noresult) /\ UNCHANGED <<mplans, pnum, pcur, links, result>>
  BY DEF MatchAnswered
<1>1. CASE out.found
  <2>1. /\ mplans' = out.plans /\ pnum' = out.ntt /\ pcur' = 0
        /\ links' = LinksOf(0, out.ntt) /\ result' = fadeIn(result) /\ noresult' = noresult
    BY <1>1 DEF Found, rendPlan, LinksOf
  <2> QED
    BY <1>1, <2>1, OutcomeCounts
<1> QED
  BY <1>1

(* What fades out or in again ends as it was to.                           *)
LEMMA FadeStays ==
  ASSUME TypeOK, FadeEnds
  PROVE  /\ Stays(result)' <=> Stays(result)
         /\ Stays(noresult)' <=> Stays(noresult)
<1>1. result \in Elements /\ noresult \in Elements
  BY Types
<1>2. CASE result.fx # "none" /\ result' = FadedOut(result) /\ UNCHANGED noresult
  BY <1>1, <1>2, Effects
<1>3. CASE noresult.fx # "none" /\ noresult' = FadedOut(noresult) /\ UNCHANGED result
  BY <1>1, <1>3, Effects
<1> QED
  BY <1>2, <1>3 DEF FadeEnds

(* A click on a link turns to a plan that was counted, or the plans are    *)
(* gone and it does nothing.                                               *)
LEMMA TurnOverStep ==
  ASSUME TypeOK, Turning, NEW l \in {"prev", "next"}, TurnOver(l)
  PROVE  /\ mplans' = mplans /\ pnum' = pnum /\ noresult' = noresult /\ result.shown
         /\ \/ /\ Stays(result) /\ result' = fadeIn(result)
               /\ pcur' \in Nat /\ pcur' < pnum /\ links' = LinksOf(pcur', pnum)
            \/ ~Stays(result) /\ UNCHANGED <<pcur, links, result>>
<1>t. mplans \in Nat /\ pnum \in Nat /\ pcur \in Nat
  BY Types
<1> DEFINE n == IF l = "prev" THEN pcur - 1 ELSE pcur + 1
<1>1. /\ result.shown /\ l \in links /\ mplans' = mplans /\ pnum' = pnum /\ noresult' = noresult
      /\ IF n \in 0..mplans-1 THEN rendPlan(n, pnum) ELSE UNCHANGED <<pcur, links, result>>
  BY DEF TurnOver
<1>2. CASE Stays(result)
  <2>1. pnum <= mplans /\ pcur < pnum /\ links = LinksOf(pcur, pnum)
    BY <1>2 DEF Turning
  <2>2. IF l = "prev" THEN pcur > 0 ELSE pcur < pnum - 1
    BY <1>1, <2>1 DEF LinksOf
  <2>3. n \in Nat /\ n < pnum /\ n \in 0..mplans-1
    BY <1>t, <2>1, <2>2
  <2>4. rendPlan(n, pnum)
    BY <1>1, <2>3
  <2>5. pcur' = n /\ links' = LinksOf(n, pnum) /\ result' = fadeIn(result)
    BY <2>4 DEF rendPlan, LinksOf
  <2> HIDE DEF n
  <2> QED
    BY <1>1, <1>2, <2>3, <2>5
<1>3. CASE ~Stays(result)
  <2>1. ~(n \in 0..mplans-1)
    BY <1>3 DEF Turning
  <2> QED
    BY <1>1, <1>3, <2>1
<1> QED
  BY <1>2, <1>3

(* The numbers stay numbers, and the links lead to plans that were counted.*)
LEMMA TurningKept ==
  ASSUME TypeOK, Turning, [Next]_vars
  PROVE  /\ Turning'
         /\ mplans' \in Nat /\ pnum' \in Nat /\ pcur' \in Nat /\ links' \subseteq {"prev", "next"}
<1>t. /\ mplans \in Nat /\ pnum \in Nat /\ pcur \in Nat /\ links \subseteq {"prev", "next"}
      /\ result \in Elements
  BY Types
<1>e. ~Stays(fadeOut(result)) /\ Stays(fadeIn(result))
  BY <1>t, Effects
<1>1. CASE matchPlan
  <2>1. mplans' = 0 /\ UNCHANGED <<pnum, pcur, links>> /\ ~Stays(result')
    BY <1>1, <1>e DEF matchPlan, HideAll
  <2> QED
    BY <1>t, <2>1 DEF Turning
<1>2. CASE MatchAnswered
  <2>1. CASE /\ mplans' \in Nat /\ pnum' \in Nat /\ 0 < pnum' /\ pnum' <= mplans'
             /\ pcur' = 0 /\ links' = LinksOf(0, pnum') /\ result' = fadeIn(result)
    BY <1>e, <2>1 DEF Turning, LinksOf
  <2>2. CASE UNCHANGED <<mplans, pnum, pcur, links, result>>
    BY <2>2, <1>t DEF Turning, LinksOf
  <2> QED
    BY <1>2, <2>1, <2>2, AnswerShows
<1>3. CASE \E l \in {"prev", "next"} : TurnOver(l)
  <2> PICK l \in {"prev", "next"} : TurnOver(l)
    BY <1>3
  <2>1. CASE /\ Stays(result) /\ result' = fadeIn(result) /\ mplans' = mplans /\ pnum' = pnum
             /\ pcur' \in Nat /\ pcur' < pnum /\ links' = LinksOf(pcur', pnum)
    BY <1>t, <1>e, <2>1 DEF Turning, LinksOf
  <2>2. CASE UNCHANGED <<mplans, pnum, pcur, links, result>>
    BY <2>2, <1>t DEF Turning, LinksOf
  <2> QED
    BY <2>1, <2>2, TurnOverStep
<1>4. CASE UNCHANGED <<mplans, pnum, pcur, links, result>>
  BY <1>4, <1>t DEF Turning, LinksOf
<1>5. CASE FadeEnds
  <2>1. UNCHANGED <<mplans, pnum, pcur, links>> /\ (Stays(result)' <=> Stays(result))
    BY <1>5, FadeStays DEF FadeEnds
  <2> QED
    BY <1>t, <2>1 DEF Turning, LinksOf
<1> QED
  BY <1>1, <1>2, <1>3, <1>4, <1>5, ShowSteps DEF MatchFailed, Continue, searchVars, showVars

(* The number of searches under way stays within its bound.                *)
LEMMA SearchCount ==
  ASSUME TypeOK, [Next]_vars
  PROVE  searches' \in 0..MaxSearches
<1>t. searches \in 0..MaxSearches /\ MaxSearches \in Nat
  BY Types, Limits
<1>1. CASE matchPlan
  BY <1>1, <1>t DEF matchPlan
<1>2. CASE MatchAnswered \/ MatchFailed
  BY <1>2, <1>t DEF MatchAnswered, MatchFailed
<1>3. CASE UNCHANGED searches
  BY <1>3, <1>t
<1> QED
  BY <1>1, <1>2, <1>3, ShowSteps DEF Continue, TurnOver, FadeEnds, searchVars

(* A search shows one verdict, and no other step shows another.            *)
LEMMA VerdictKept ==
  ASSUME TypeOK, Turning, Verdict, [Next]_vars
  PROVE  Verdict'
<1>t. searches \in Nat /\ result \in Elements /\ noresult \in Elements
  BY Types, Limits
<1>1. CASE matchPlan
  <2>1. ~Stays(result') /\ ~Stays(noresult')
    BY <1>1, <1>t, Effects DEF matchPlan, HideAll
  <2>2. CASE UNCHANGED <<searches, crossed>>
    BY <2>1, <2>2 DEF Verdict
  <2>3. CASE searches' = searches + 1 /\ crossed' = (searches > 0)
    <3>1. ~crossed' => ~(searches > 0)
      BY <2>3, Zenon
    <3>2. ~(searches > 0) => searches' <= 1
      BY <1>t, <2>3
    <3> QED
      BY <2>1, <3>1, <3>2, Zenon DEF Verdict
  <2> QED
    BY <1>1, <2>2, <2>3 DEF matchPlan
<1>2. CASE MatchAnswered
  <2>1. searches > 0 /\ searches' = searches - 1 /\ crossed' = crossed /\ toggled' = toggled
    BY <1>2 DEF MatchAnswered
  <2>2. \/ noresult' = noresult
        \/ result' = result
    BY <1>2, AnswerShows
  <2> QED
    BY <1>t, <2>1, <2>2 DEF Verdict
<1>3. CASE MatchFailed
  BY <1>3, <1>t DEF MatchFailed, Verdict, showVars
<1>4. CASE Continue
  BY <1>4, <1>t DEF Continue, Verdict
<1>5. CASE \E l \in {"prev", "next"} : TurnOver(l)
  <2> PICK l \in {"prev", "next"} : TurnOver(l)
    BY <1>5
  <2>1. UNCHANGED <<searches, crossed, toggled>>
    BY DEF TurnOver
  <2>2. noresult' = noresult /\ (Stays(result') => Stays(result))
    BY TurnOverStep
  <2> QED
    BY <2>1, <2>2 DEF Verdict
<1>6. CASE UNCHANGED searchVars
  BY <1>6 DEF searchVars, showVars, Verdict
<1>7. CASE FadeEnds
  <2>1. UNCHANGED <<searches, crossed, toggled>>
    BY <1>7 DEF FadeEnds
  <2> QED
    BY <1>7, <2>1, FadeStays DEF Verdict
<1> QED
  BY <1>1, <1>2, <1>3, <1>4, <1>5, <1>6, <1>7, ShowSteps

(* A search begins with two points, and what is on the screen began with a *)
(* search.                                                                 *)
LEMMA SoughtKept ==
  ASSUME TypeOK, Turning, Sought, [Next]_vars
  PROVE  Sought'
<1>t. searches \in Nat /\ result \in Elements /\ noresult \in Elements
  BY Types, Limits
<1>e. /\ result.shown \/ result.fx # "none" => result # Hidden
      /\ noresult.fx # "none" => noresult # Hidden
      /\ result = Hidden => fadeOut(result) = Hidden
      /\ noresult = Hidden => fadeOut(noresult) = Hidden
  BY <1>t, Effects
<1>1. CASE matchPlan
  <2>1. CASE ll["s"] = 0 \/ ll["e"] = 0
    BY <1>1, <1>t, <1>e, <2>1 DEF matchPlan, HideAll, Sought, endVars
  <2>2. CASE ~(ll["s"] = 0 \/ ll["e"] = 0)
    BY <1>1, <1>t, <2>2 DEF matchPlan, RectOfEnds, Sought, endVars
  <2> QED
    BY <2>1, <2>2
<1>2. CASE MatchAnswered
  BY <1>2, <1>t DEF MatchAnswered, Sought, endVars
<1>3. CASE MatchFailed
  BY <1>3, <1>t DEF MatchFailed, Sought, showVars, endVars
<1>4. CASE Continue
  BY <1>4, <1>e DEF Continue, Sought, endVars
<1>5. CASE \E l \in {"prev", "next"} : TurnOver(l)
  BY <1>5, <1>e DEF TurnOver, Sought, endVars
<1>6. CASE \E x \in Ends : autoChanged(x) \/ markDraged(x)
  BY <1>6 DEF autoChanged, markDraged, Choose, searchVars, showVars, Sought
<1>7. CASE \E l \in lookups : LookupAnswered(l) \/ LookupFailed(l)
  BY <1>7 DEF LookupAnswered, LookupFailed, searchVars, showVars, Sought
<1>8. CASE UNCHANGED vars
  BY <1>8 DEF vars, endVars, searchVars, showVars, Sought
<1>9. CASE FadeEnds
  BY <1>9, <1>e DEF FadeEnds, Sought, endVars
<1> QED
  BY <1>1, <1>2, <1>3, <1>4, <1>5, <1>6, <1>7, <1>8, <1>9 DEF Next

-----------------------------------------------------------------------------
(* The ends of the next state: choices that were made, and lookups of such.*)
LEMMA EndTypes ==
  ASSUME TypeOK, Asked, [Next]_vars
  PROVE  /\ chosen' \in [Ends -> Choices] /\ addr' \in [Ends -> Choices] /\ ll' \in [Ends -> Choices]
         /\ cityid' \in [Ends -> Choices] /\ km' \in [Ends -> Choices]
         /\ \A x \in Ends : addr'[x] <= chosen'[x] /\ ll'[x] <= chosen'[x]
         /\ lookups' \subseteq LookupType
         /\ trouble' \in [Ends -> BOOLEAN]
<1>t. /\ chosen \in [Ends -> Choices] /\ addr \in [Ends -> Choices] /\ ll \in [Ends -> Choices]
      /\ cityid \in [Ends -> Choices] /\ km \in [Ends -> Choices]
      /\ \A x \in Ends : addr[x] <= chosen[x] /\ ll[x] <= chosen[x]
      /\ lookups \subseteq LookupType
      /\ trouble \in [Ends -> BOOLEAN]
  BY Types
<1>n. MaxChoices \in Nat
  BY Limits
<1>1. ASSUME NEW y \in Ends, autoChanged(y) \/ markDraged(y)
      PROVE  /\ chosen' \in [Ends -> Choices] /\ addr' \in [Ends -> Choices]
             /\ ll' \in [Ends -> Choices] /\ cityid' \in [Ends -> Choices] /\ km' \in [Ends -> Choices]
             /\ \A x \in Ends : addr'[x] <= chosen'[x] /\ ll'[x] <= chosen'[x]
             /\ lookups' \subseteq LookupType
             /\ trouble' \in [Ends -> BOOLEAN]
  <2> DEFINE c == chosen[y] + 1
  <2>0. /\ chosen[y] < MaxChoices /\ chosen' = [chosen EXCEPT ![y] = c]
        /\ trouble' = [trouble EXCEPT ![y] = Pending(y) # {}]
        /\ ll' = ll /\ cityid' = cityid /\ km' = km
        /\ addr' \in {addr, [addr EXCEPT ![y] = c]}
        /\ \A l \in lookups' : l \in lookups \/ \E k \in {"point", "city", "location"} : l = Lookup(y, c, k)
    BY <1>1 DEF autoChanged, markDraged, Choose
  <2>1. c \in Choices \ {0}
    BY <1>t, <1>n, <2>0 DEF Choices
  <2>2. chosen' \in [Ends -> Choices] /\ addr' \in [Ends -> Choices]
    BY <1>t, <2>0, <2>1
  <2>3. \A x \in Ends : chosen[x] <= chosen'[x] /\ addr[x] \in Nat /\ ll[x] \in Nat /\ chosen[x] \in Nat
    BY <1>t, <1>n, <2>0 DEF Choices
  <2>4. \A x \in Ends : addr'[x] <= chosen'[x] /\ ll'[x] <= chosen'[x]
    BY <1>t, <2>0, <2>3
  <2>5. lookups' \subseteq LookupType
    BY <1>t, <2>0, <2>1 DEF LookupType, Lookup
  <2>6. trouble' \in [Ends -> BOOLEAN]
    <3>1. (Pending(y) # {}) \in BOOLEAN
      OBVIOUS
    <3> QED
      BY <1>t, <2>0, <3>1, Zenon
  <2> QED
    BY <1>t, <2>0, <2>2, <2>4, <2>5, <2>6
<1>2. ASSUME NEW l \in lookups, LookupAnswered(l) \/ LookupFailed(l)
      PROVE  /\ chosen' \in [Ends -> Choices] /\ addr' \in [Ends -> Choices]
             /\ ll' \in [Ends -> Choices] /\ cityid' \in [Ends -> Choices] /\ km' \in [Ends -> Choices]
             /\ \A x \in Ends : addr'[x] <= chosen'[x] /\ ll'[x] <= chosen'[x]
             /\ lookups' \subseteq LookupType
             /\ trouble' \in [Ends -> BOOLEAN]
  <2>0. /\ l.end \in Ends /\ l.choice \in Choices \ {0} /\ l.choice <= chosen[l.end]
    BY <1>t DEF LookupType, Asked
  <2>1. /\ chosen' = chosen
        /\ trouble' \in {trouble, [trouble EXCEPT ![l.end] = TRUE]}
        /\ ll' \in {ll, [ll EXCEPT ![l.end] = l.choice]}
        /\ addr' \in {addr, [addr EXCEPT ![l.end] = l.choice]}
        /\ cityid' \in {cityid, [cityid EXCEPT ![l.end] = l.choice]}
        /\ km' \in {km, ll'}
        /\ \A m \in lookups' : m \in lookups \/ m = Lookup(l.end, l.choice, "city")
    BY <1>2 DEF LookupAnswered, LookupFailed, Point, CityOf, rendDirect
  <2>2. /\ addr' \in [Ends -> Choices] /\ ll' \in [Ends -> Choices] /\ cityid' \in [Ends -> Choices]
    BY <1>t, <2>0, <2>1
  <2>3. \A x \in Ends : addr'[x] <= chosen'[x] /\ ll'[x] <= chosen'[x]
    BY <1>t, <2>0, <2>1
  <2>4. lookups' \subseteq LookupType
    BY <1>t, <2>0, <2>1 DEF LookupType, Lookup
  <2>5. trouble' \in [Ends -> BOOLEAN]
    BY <1>t, <2>1, Zenon
  <2> QED
    BY <1>t, <2>1, <2>2, <2>3, <2>4, <2>5
<1>3. CASE UNCHANGED endVars
  BY <1>t, <1>3 DEF endVars
<1> QED
  BY <1>1, <1>2, <1>3, EndSteps

(* Every step preserves the types.                                         *)
LEMMA TypeStep ==
  ASSUME TypeOK, Asked, Turning, [Next]_vars
  PROVE  TypeOK'
<1>1. rect' \in [Ends -> Choices]
  <2>1. rect \in [Ends -> Choices] /\ ll \in [Ends -> Choices]
    BY Types
  <2>2. rect' \in {rect, ll}
    BY ShowSteps DEF matchPlan, RectOfEnds, MatchAnswered, MatchFailed, Continue, TurnOver, FadeEnds,
                     searchVars
  <2> QED
    BY <2>1, <2>2
<1>2. {clean', crossed', toggled'} \subseteq BOOLEAN
  <2>0. clean \in BOOLEAN /\ crossed \in BOOLEAN /\ toggled \in BOOLEAN
    BY Zenon DEF TypeOK
  <2>3. toggled' \in {toggled, TRUE, FALSE}
    BY ShowSteps, Zenon DEF matchPlan, MatchAnswered, MatchFailed, Continue, TurnOver, FadeEnds,
                            searchVars
  <2>4. crossed' = crossed \/ crossed' = (searches > 0)
    BY ShowSteps, Zenon DEF matchPlan, MatchAnswered, MatchFailed, Continue, TurnOver, FadeEnds,
                            searchVars
  <2>5. \/ clean' = clean \/ clean' = FALSE
        \/ clean' = (lookups = {} /\ \A x \in Ends : ~trouble[x])
    BY Zenon DEF Next, autoChanged, markDraged, Choose, LookupAnswered, LookupFailed, matchPlan,
                 MatchAnswered, MatchFailed, Continue, TurnOver, FadeEnds, vars
  <2>6. crossed' \in BOOLEAN
    <3>1. (searches > 0) \in BOOLEAN
      OBVIOUS
    <3> QED
      BY <2>0, <2>4, <3>1, Zenon
  <2>7. clean' \in BOOLEAN
    BY <2>0, <2>5, Zenon
  <2> QED
    BY <2>0, <2>3, <2>6, <2>7, Zenon
<1>e. {result', noresult'} \subseteq Elements
  <2>0. result \in Elements /\ noresult \in Elements
    BY Types
  <2>1. result' \in {result, fadeOut(result), fadeIn(result), FadedOut(result)}
    <3>1. MatchAnswered => result' \in {result, fadeIn(result)}
      BY AnswerShows, Zenon
    <3> QED
      BY <3>1, ShowSteps, Zenon DEF matchPlan, HideAll, MatchFailed, Continue, TurnOver, rendPlan,
                                    FadeEnds, searchVars, showVars
  <2>2. noresult' \in {noresult, fadeOut(noresult), fadeIn(noresult), FadedOut(noresult), toggle(noresult)}
    <3>1. MatchAnswered => noresult' \in {noresult, fadeIn(noresult)}
      BY AnswerShows, Zenon
    <3> QED
      BY <3>1, ShowSteps, Zenon DEF matchPlan, HideAll, MatchFailed, Continue, TurnOver,
                                    FadeEnds, searchVars, showVars
  <2>3. result' \in Elements
    BY <2>0, <2>1, Effects
  <2>4. noresult' \in Elements
    BY <2>0, <2>2, Effects
  <2> QED
    BY <2>3, <2>4
<1>3. /\ {chosen', addr', ll', cityid', rect', km'} \subseteq [Ends -> Choices]
      /\ \A x \in Ends : addr'[x] <= chosen'[x] /\ ll'[x] <= chosen'[x]
      /\ lookups' \subseteq LookupType
      /\ trouble' \in [Ends -> BOOLEAN]
  BY <1>1, EndTypes, Zenon
<1>4. {mplans', pnum', pcur'} \subseteq Nat /\ links' \subseteq {"prev", "next"}
  BY TurningKept, Zenon
<1>5. searches' \in 0..MaxSearches
  BY SearchCount
<1> QED
  BY <1>2, <1>e, <1>3, <1>4, <1>5, Zenon DEF TypeOK, LookupType

(* The page as it is loaded.                                               *)
LEMMA InitIInv == Init => IInv
<1> SUFFICES ASSUME Init PROVE IInv
  OBVIOUS
<1>1. /\ chosen = [x \in Ends |-> 0] /\ addr = chosen /\ ll = chosen /\ cityid = chosen
      /\ rect = chosen /\ km = chosen /\ lookups = {} /\ searches = 0
      /\ mplans = 0 /\ pnum = 0 /\ pcur = 0 /\ links = {}
      /\ trouble = [x \in Ends |-> FALSE]
  BY Zenon DEF Init
<1>2. result = Hidden /\ noresult = Hidden /\ ~clean
  BY Zenon DEF Init
<1>e. Hidden \in Elements /\ ~Stays(Hidden)
  BY DEF Hidden, Elements, Stays
<1>3. TypeOK
  <2>1. chosen \in [Ends -> Choices] /\ \A x \in Ends : chosen[x] <= chosen[x]
    BY <1>1, Limits DEF Choices
  <2>2. searches \in 0..MaxSearches /\ {mplans, pnum, pcur} \subseteq Nat
    BY <1>1, Limits
  <2>3. {result, noresult} \subseteq Elements /\ {clean, crossed, toggled} \subseteq BOOLEAN
    BY <1>2, <1>e, Zenon DEF Init
  <2>4. trouble \in [Ends -> BOOLEAN]
    BY <1>1, Zenon
  <2>5. {chosen, addr, ll, cityid, rect, km} \subseteq [Ends -> Choices]
    BY <1>1, <2>1, Zenon
  <2>6. lookups \subseteq LookupType /\ links \subseteq {"prev", "next"}
    BY <1>1, Zenon
  <2> QED
    BY <1>1, <2>1, <2>2, <2>3, <2>4, <2>5, <2>6, Zenon DEF TypeOK, LookupType
<1>4. Asked /\ Turning /\ Sought
  BY <1>1, <1>2, <1>e DEF Asked, Turning, Sought
<1>5. Verdict
  BY <1>1, <1>2, <1>e DEF Verdict
<1>6. \A x \in Ends : Agreeing(x)
  BY <1>1 DEF Agreeing
<1> QED
  BY <1>3, <1>4, <1>5, <1>6 DEF IInv

(* Every step of the page preserves the invariant.                         *)
LEMMA Inductive == IInv /\ [Next]_vars => IInv'
<1> SUFFICES ASSUME IInv, [Next]_vars PROVE IInv'
  OBVIOUS
<1>1. TypeOK /\ Asked /\ Turning /\ Verdict /\ Sought /\ \A x \in Ends : Agreeing(x)
  BY DEF IInv
<1>2. TypeOK'
  BY <1>1, TypeStep
<1> QED
  BY <1>1, <1>2, EndsKept, TurningKept, VerdictKept, SoughtKept DEF IInv

(* The invariant holds always.                                             *)
LEMMA Invariance == Spec => []IInv
BY InitIInv, Inductive, PTL DEF Spec

-----------------------------------------------------------------------------
(* While plans are on the screen the current one exists, and so does the   *)
(* one each link leads to, for any rows that plan_cmd_plan_match collects, *)
(* counts and trims, whatever searches cross and however long they fade;   *)
(* only links on their way out lead nowhere.  The assumption that GeoaMin  *)
(* is at most GeoMax is needed: the rows left from geoa could use up the   *)
(* count otherwise.                                                        *)
THEOREM LinksLeadToPlansHolds == Spec => []LinksLeadToPlans
<1>1. IInv => LinksLeadToPlans
  <2> SUFFICES ASSUME IInv PROVE LinksLeadToPlans
    OBVIOUS
  <2>1. TypeOK /\ Turning
    BY DEF IInv
  <2>2. mplans \in Nat /\ pnum \in Nat /\ pcur \in Nat /\ result \in Elements
    BY <2>1, Types
  <2>3. ASSUME Stays(result)
        PROVE  /\ pcur \in 0..mplans-1 /\ pcur < pnum
               /\ "prev" \in links => pcur - 1 \in 0..mplans-1
               /\ "next" \in links => pcur + 1 \in 0..mplans-1
    BY <2>1, <2>2, <2>3 DEF Turning, LinksOf
  <2>4. ASSUME result.shown, ~Stays(result)
        PROVE  result.fx = "out" /\ mplans = 0
    BY <2>1, <2>2, <2>4, Effects DEF Turning
  <2> QED
    BY <2>1, <2>3, <2>4, Zenon DEF LinksLeadToPlans
<1> QED
  BY <1>1, Invariance, PTL

(* A search finds plans or offers the form, never both, but where the      *)
(* visitor asked for it or searches overlapped (matchPlan, rendMatch).     *)
THEOREM OneVerdictHolds == Spec => []OneVerdict
<1>1. IInv => OneVerdict
  BY DEF IInv, Verdict, OneVerdict
<1> QED
  BY <1>1, Invariance, PTL

(* Address, point and city of an end belong to the same choice once all is *)
(* looked up, for any order of the answers that upPlan stores, if each     *)
(* choice waited for the lookups of the last and none of its own failed.   *)
THEOREM EndsAgreeHolds == Spec => []EndsAgree
<1>1. IInv => EndsAgree
  <2> SUFFICES ASSUME IInv, NEW x \in Ends, ~trouble[x], Pending(x) = {}
               PROVE  addr[x] = chosen[x] /\ ll[x] = chosen[x] /\ cityid[x] = chosen[x]
    BY DEF EndsAgree
  <2>1. \A kinds : ~AskedFor(x, kinds)
    <3>1. \A k : Lookup(x, chosen[x], k).end = x
      BY DEF Lookup
    <3>2. \A l \in lookups : l.end # x
      BY DEF Pending
    <3> QED
      BY <3>1, <3>2, Zenon DEF AskedFor
  <2> QED
    BY <2>1 DEF IInv, Agreeing
<1> QED
  BY <1>1, Invariance, PTL

(* The plan that a visitor leaves is measured; if the ends had come to     *)
(* rest when he searched, and he chose none since, its rectangle, its      *)
(* addresses and its cities are of the same choices (matchPlan, leavePlan).*)
THEOREM LeavesWhatHeSoughtHolds == Spec => []LeavesWhatHeSought
<1>1. IInv => LeavesWhatHeSought
  <2> SUFFICES ASSUME IInv, noresult.shown
               PROVE  /\ \A x \in Ends : rect[x] # 0
                      /\ clean => rect = addr /\ rect = cityid
    BY DEF LeavesWhatHeSought, leavePlan
  <2>1. TypeOK /\ Sought /\ \A x \in Ends : Agreeing(x)
    BY DEF IInv
  <2>2. \A x \in Ends : rect[x] # 0
    <3>1. noresult # Hidden
      BY <2>1, Types, Effects
    <3> QED
      BY <2>1, <3>1 DEF Sought, Ends
  <2>3. ASSUME clean PROVE rect = addr /\ rect = cityid
    <3>1. lookups = {} /\ rect = ll /\ \A x \in Ends : ~trouble[x]
      BY <2>1, <2>3 DEF Sought
    <3>2. \A x \in Ends : addr[x] = chosen[x] /\ ll[x] = chosen[x] /\ cityid[x] = chosen[x]
      BY <2>1, <3>1 DEF Agreeing, AskedFor
    <3>3. addr \in [Ends -> Choices] /\ ll \in [Ends -> Choices] /\ cityid \in [Ends -> Choices]
      BY <2>1, Types
    <3> QED
      BY <3>1, <3>2, <3>3
  <2> QED
    BY <2>2, <2>3
<1> QED
  BY <1>1, Invariance, PTL
=============================================================================
