------------------------------ MODULE PlanPage ------------------------------
(***************************************************************************)
(* The page of dida on which a visitor looks for a ride (index.js): he     *)
(* chooses the two ends by their names or by dragging a marker, searches,  *)
(* turns over the rides found and, if there are none or none that he       *)
(* likes, leaves his own plan.  The map service and the web server answer  *)
(* each request later, in any order, and o.plan collects the answers.  The *)
(* search itself is plan_cmd_plan_match of the plan plugin.                *)
(*                                                                         *)
(* The choices of an end are numbered, and an address, a point or a city   *)
(* is the number of the choice it came from; 0 stands for none.  Dates,    *)
(* texts and the map are left out.                                         *)
(***************************************************************************)
EXTENDS Integers, FiniteSets

CONSTANTS
  Plans,       (* the plans in the table                                    *)
  GeoaMin,     (* geoaMin, geoaMax and geoMax of the configuration          *)
  GeoaMax,
  GeoMax,
  MaxChoices,  (* bound: choices of an end                                  *)
  MaxSearches  (* bound: searches under way                                 *)

ASSUME SizeAssumption ==
  /\ IsFiniteSet(Plans)
  /\ {GeoaMin, GeoaMax, GeoMax, MaxChoices, MaxSearches} \subseteq Nat \ {0}

(* The plans that geoa adds to those of the query that follows it are too  *)
(* few to outnumber what is returned.                                      *)
ASSUME GeoAssumption == GeoaMin <= GeoMax

Ends == {"s", "e"}
Choices == 0..MaxChoices

VARIABLES
  chosen,   (* the last choice of each end                                  *)
  addr,     (* saddr and eaddr of o.plan                                    *)
  ll,       (* sll and ell                                                  *)
  cityid,   (* scityid and ecityid                                          *)
  rect,     (* rect, with sgeo, egeo and km: the ends of the last search    *)
  km,       (* the ends whose distance is on the screen                     *)
  lookups,  (* the questions to the map service, and for cities, under way  *)
  searches, (* the number of searches under way                             *)
  mplans,   (* the number of o.mplans                                       *)
  pnum,     (* o._pnum                                                      *)
  pcur,     (* o._pcur                                                      *)
  links,    (* the links on the screen of mc-prev and mc-next               *)
  result,   (* mc-result and mc-nav on the screen                           *)
  noresult, (* mc-noresult, the form for a plan, on the screen              *)
  (* What happened, for the properties:                                     *)
  trouble,  (* an end chosen while a lookup of it was under way, or with a  *)
            (* lookup that failed                                           *)
  clean,    (* at the last search all was looked up without trouble, and    *)
            (* no end was chosen since                                      *)
  crossed,  (* the last search began while another was under way            *)
  toggled   (* the visitor asked for the form since the last search         *)

endVars == <<chosen, addr, ll, cityid, km, lookups, trouble>>
showVars == <<mplans, pnum, pcur, links, result, noresult>>
searchVars == <<rect, searches, showVars, crossed, toggled>>
vars == <<endVars, searchVars, clean>>

(* An element of the page: shown if it takes part in the layout and can be *)
(* clicked, at whatever opacity, and the effects that jQuery has queued    *)
(* for it, from the one under way: none, a fading out, or a fading in      *)
(* after that.  A fading in shows the element when it begins, and what is  *)
(* left of it then does nothing; a fading out hides it when it ends.       *)
Elements == [shown : BOOLEAN, fx : {"none", "out", "out in"}]
Hidden == [shown |-> FALSE, fx |-> "none"]

(* An effect that follows one of its kind does nothing.  An in between two *)
(* outs is left out: the element is shown until the last one ends.         *)
fadeOut(e) == [shown |-> e.shown, fx |-> IF e = Hidden THEN "none" ELSE "out"]
fadeIn(e) ==
  [shown |-> e.shown \/ e.fx = "none", fx |-> IF e.fx = "none" THEN "none" ELSE "out in"]
FadedOut(e) == [shown |-> e.fx = "out in", fx |-> "none"]
toggle(e) == [shown |-> ~e.shown, fx |-> e.fx]

(* The element is shown once its effects are over.                         *)
Stays(e) == IF e.fx = "none" THEN e.shown ELSE e.fx = "out in"

Init ==
  /\ chosen = [x \in Ends |-> 0] /\ addr = chosen /\ ll = chosen /\ cityid = chosen
  /\ rect = chosen /\ km = chosen
  /\ lookups = {} /\ searches = 0
  /\ mplans = 0 /\ pnum = 0 /\ pcur = 0 /\ links = {}
  /\ result = Hidden /\ noresult = Hidden
  /\ trouble = [x \in Ends |-> FALSE]
  /\ clean = FALSE /\ crossed = FALSE /\ toggled = FALSE

-----------------------------------------------------------------------------
(* The search of the plan plugin: the plans a of the same cities; if they  *)
(* are too few or too many, those b about the same way, or at last x.  The *)
(* rows are kept under their ids, so that those of a stay among them.      *)

NoMatch == [found |-> FALSE, plans |-> 0, ntt |-> 0]

(* A mutant: ttnum stays what the query said.                              *)
TrimmedUncounted(rows, ttnum) ==
  [found |-> TRUE, plans |-> IF ttnum > GeoMax THEN GeoMax ELSE rows, ntt |-> ttnum]

(* The plans beyond nmax are taken out, and ttnum goes down with each.     *)
Trimmed(rows, ttnum) ==
  IF ttnum > GeoMax
  THEN [found |-> TRUE, plans |-> GeoMax, ntt |-> ttnum - (rows - GeoMax)]
  ELSE [found |-> TRUE, plans |-> rows, ntt |-> ttnum]

plan_cmd_plan_match(a, b, x) ==
  LET kept == IF Cardinality(a) > GeoaMax THEN {} ELSE a
  IN CASE Cardinality(kept) >= GeoaMin -> Trimmed(Cardinality(kept), Cardinality(kept))
       [] Cardinality(kept) < GeoaMin /\ b # {} -> Trimmed(Cardinality(kept \cup b), Cardinality(b))
       [] Cardinality(kept) < GeoaMin /\ b = {} /\ x # {} ->
            Trimmed(Cardinality(kept \cup x), Cardinality(x))
       [] OTHER -> NoMatch

Outcomes == {plan_cmd_plan_match(a, b, x) : a, b, x \in SUBSET Plans}

-----------------------------------------------------------------------------
(* The two ends.                                                           *)

Pending(x) == {l \in lookups : l.end = x}
Lookup(x, c, k) == [end |-> x, choice |-> c, kind |-> k]

Choose(x) ==
  /\ chosen[x] < MaxChoices
  /\ chosen' = [chosen EXCEPT ![x] = @ + 1]
  /\ trouble' = [trouble EXCEPT ![x] = Pending(x) # {}]
  /\ clean' = FALSE
  /\ UNCHANGED searchVars

(* A name is confirmed: its address at once, its point and its city later. *)
autoChanged(x) ==
  LET c == chosen[x] + 1 IN
  /\ Choose(x)
  /\ addr' = [addr EXCEPT ![x] = c]
  /\ lookups' = lookups \cup {Lookup(x, c, "point"), Lookup(x, c, "city")}
  /\ UNCHANGED <<ll, cityid, km>>

(* A marker was dragged: its place is asked for.                           *)
markDraged(x) ==
  /\ ll[x] # 0
  /\ Choose(x)
  /\ lookups' = lookups \cup {Lookup(x, chosen[x] + 1, "location")}
  /\ UNCHANGED <<addr, ll, cityid, km>>

(* Where the end e changes, the distance is shown anew.                    *)
rendDirect(x) == km' = IF x = "e" /\ ll["s"] # 0 THEN ll' ELSE km

Point(l) ==
  /\ ll' = [ll EXCEPT ![l.end] = l.choice]
  /\ rendDirect(l.end)

(* A mutant: the answer for one end is stored for the other.               *)
CityOfStart(l) == cityid' = [cityid EXCEPT !["s"] = l.choice]

CityOf(l) == cityid' = [cityid EXCEPT ![l.end] = l.choice]

LookupAnswered(l) ==
  /\ \/ /\ l.kind = "point" /\ Point(l)
        /\ lookups' = lookups \ {l}
        /\ UNCHANGED <<addr, cityid>>
     \/ /\ l.kind = "city" /\ CityOf(l)
        /\ lookups' = lookups \ {l}
        /\ UNCHANGED <<addr, ll, km>>
     \/ /\ l.kind = "location" /\ Point(l)
        /\ addr' = [addr EXCEPT ![l.end] = l.choice]
        /\ lookups' = (lookups \ {l}) \cup {Lookup(l.end, l.choice, "city")}
        /\ UNCHANGED cityid
  /\ UNCHANGED <<chosen, trouble, clean, searchVars>>

(* There is no such place or city, or no answer.                           *)
LookupFailed(l) ==
  /\ lookups' = lookups \ {l}
  /\ trouble' = [trouble EXCEPT ![l.end] = TRUE]
  /\ UNCHANGED <<chosen, addr, ll, cityid, km, clean, searchVars>>

-----------------------------------------------------------------------------
(* Searching, turning over the plans and leaving one.                      *)

(* What is on the screen fades out, in 400 ms, but the plans are gone at   *)
(* once.                                                                   *)
HideAll == result' = fadeOut(result) /\ noresult' = fadeOut(noresult) /\ mplans' = 0

(* A mutant: the rectangle of the first search is used for all.            *)
RectOnce == rect' = IF rect["s"] = 0 THEN ll ELSE rect

RectOfEnds == rect' = ll

matchPlan ==
  /\ HideAll
  /\ IF ll["s"] = 0 \/ ll["e"] = 0
     THEN UNCHANGED <<rect, searches, clean, crossed>>
     ELSE /\ searches < MaxSearches
          /\ searches' = searches + 1
          /\ RectOfEnds
          /\ clean' = (lookups = {} /\ \A x \in Ends : ~trouble[x])
          /\ crossed' = (searches > 0)
  /\ toggled' = FALSE
  /\ UNCHANGED <<endVars, pnum, pcur, links>>

(* rendMatch: the plan n of num, counted from 0.                           *)
rendPlan(n, num) ==
  /\ pcur' = n
  /\ links' = {l \in {"prev", "next"} : IF l = "prev" THEN n > 0 ELSE n < num - 1}
  /\ result' = fadeIn(result)

(* A mutant: the form is shown with the plans.                             *)
FoundOrForm(out) ==
  /\ mplans' = out.plans /\ pnum' = out.ntt
  /\ rendPlan(0, out.ntt)
  /\ noresult' = fadeIn(noresult)

Found(out) ==
  /\ mplans' = out.plans /\ pnum' = out.ntt
  /\ rendPlan(0, out.ntt)
  /\ UNCHANGED noresult

MatchAnswered ==
  /\ searches > 0
  /\ searches' = searches - 1
  /\ \E out \in Outcomes :
       IF out.found THEN Found(out)
       ELSE noresult' = fadeIn(noresult) /\ UNCHANGED <<mplans, pnum, pcur, links, result>>
  /\ UNCHANGED <<endVars, rect, clean, crossed, toggled>>

(* Another error, or no answer: the page says so, or goes on waiting.      *)
MatchFailed ==
  /\ searches > 0
  /\ searches' = searches - 1
  /\ UNCHANGED <<endVars, rect, showVars, clean, crossed, toggled>>

(* A plan that is not there has no rect: the click throws before it        *)
(* changes anything.                                                       *)
TurnOver(l) ==
  LET n == IF l = "prev" THEN pcur - 1 ELSE pcur + 1 IN
  /\ result.shown /\ l \in links
  /\ IF n \in 0..mplans-1 THEN rendPlan(n, pnum) ELSE UNCHANGED <<pcur, links, result>>
  /\ UNCHANGED <<endVars, rect, searches, mplans, pnum, noresult, clean, crossed, toggled>>

(* mc-continue, beside the links.                                          *)
Continue ==
  /\ result.shown
  /\ noresult' = toggle(noresult)
  /\ toggled' = TRUE
  /\ UNCHANGED <<endVars, rect, searches, mplans, pnum, pcur, links, result, clean, crossed>>

(* The 400 ms are over.                                                    *)
FadeEnds ==
  /\ \/ result.fx # "none" /\ result' = FadedOut(result) /\ UNCHANGED noresult
     \/ noresult.fx # "none" /\ noresult' = FadedOut(noresult) /\ UNCHANGED result
  /\ UNCHANGED <<endVars, rect, searches, mplans, pnum, pcur, links, clean, crossed, toggled>>

(* What leavePlan posts: the plan as it stands.                            *)
leavePlan == [addr |-> addr, cityid |-> cityid, rect |-> rect]

Next ==
  \/ \E x \in Ends : autoChanged(x) \/ markDraged(x)
  \/ \E l \in lookups : LookupAnswered(l) \/ LookupFailed(l)
  \/ matchPlan \/ MatchAnswered \/ MatchFailed
  \/ \E l \in {"prev", "next"} : TurnOver(l)
  \/ Continue \/ FadeEnds

Spec == Init /\ [][Next]_vars

-----------------------------------------------------------------------------
(* Every variable keeps its type; an end that has a point was chosen.      *)
TypeOK ==
  /\ {chosen, addr, ll, cityid, rect, km} \subseteq [Ends -> Choices]
  /\ \A x \in Ends : addr[x] <= chosen[x] /\ ll[x] <= chosen[x]
  /\ lookups \subseteq [end : Ends, choice : Choices \ {0}, kind : {"point", "city", "location"}]
  /\ searches \in 0..MaxSearches
  /\ {mplans, pnum, pcur} \subseteq Nat
  /\ links \subseteq {"prev", "next"}
  /\ {result, noresult} \subseteq Elements
  /\ {clean, crossed, toggled} \subseteq BOOLEAN
  /\ trouble \in [Ends -> BOOLEAN]

(* While plans are on the screen the current one exists, and so does the   *)
(* one each link leads to: _ntt, which the plugin counts apart from the    *)
(* plans it collects from two queries and trims, never exceeds them.  The  *)
(* links that a new search left without plans are the only ones on which a *)
(* click throws, and those are fading out, with nothing to fade in after   *)
(* that.  The types hold with it: no link leads below 0.                   *)
LinksLeadToPlans ==
  /\ TypeOK
  /\ result.shown =>
       \/ /\ pcur \in 0..mplans-1 /\ pcur < pnum
          /\ "prev" \in links => pcur - 1 \in 0..mplans-1
          /\ "next" \in links => pcur + 1 \in 0..mplans-1
       \/ result.fx = "out" /\ mplans = 0

(* A search either finds plans or offers the form; once what was there     *)
(* before has faded out, both are on the screen only if the visitor asked  *)
(* for it or searches overlapped.                                          *)
OneVerdict == Stays(result) /\ Stays(noresult) => toggled \/ crossed

(* Address, point and city of an end belong to the same choice once all is *)
(* looked up, if each choice waited for the lookups of the last one and    *)
(* none of its own failed: upPlan stores them in three steps.              *)
EndsAgree ==
  \A x \in Ends :
    ~trouble[x] /\ Pending(x) = {} => {addr[x], ll[x], cityid[x]} = {chosen[x]}

(* The plan that a visitor leaves is measured, and it is the one he looked *)
(* for: its rectangle, set by matchPlan, is that of its addresses and      *)
(* cities, if the ends had come to rest when he searched and he chose none *)
(* since.  A form that is fading out can be sent, too.                     *)
LeavesWhatHeSought ==
  noresult.shown =>
    /\ \A x \in Ends : leavePlan.rect[x] # 0
    /\ clean => leavePlan.rect = leavePlan.addr /\ leavePlan.rect = leavePlan.cityid
=============================================================================
