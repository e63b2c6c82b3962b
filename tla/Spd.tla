-------------------------------- MODULE Spd --------------------------------
(***************************************************************************)
(* How dida collects rides from other sites.  A spider script in a browser *)
(* window lists a site's posts and adds the ones the server does not have  *)
(* (58.js; edeng.js, ganji.js and liebiao.js do the same).  A robot page   *)
(* asks for the fresh plans, looks up their two ends with a map service    *)
(* and posts what it found (robot.js; robot-g.js does the same with        *)
(* another map).  What the robot could not confirm a moderator corrects on *)
(* a map and saves or deletes (post.js).  The server (ospd.c) keeps the    *)
(* table of plans; the plan plugin applies the changes one at a time, but  *)
(* every change is asynchronous and carries the whole plan as the page     *)
(* copied it, possibly long ago.                                           *)
(*                                                                         *)
(* A place is a point of a line, its city the number of that point, and    *)
(* the way between two places their distance.  Texts, dates and telephone  *)
(* numbers are left out.                                                   *)
(***************************************************************************)
EXTENDS Integers, Sequences, FiniteSets, Bags, BagsExt

CONSTANTS
  Posts,       (* the posts of the site, each with its ori and oid          *)
  Repeating,   (* the posts about a ride that repeats: repeat > 0           *)
  Points,      (* the places the map service finds for each end: positive   *)
               (* numbers, several if its answers differ from time to time  *)
  Corrections, (* bound: the places a moderator chooses for each end        *)
  LONG,        (* the 120 km of the robot's test                            *)
  ROBOT_LIMIT, (* the LIMIT 100 of the robot's query                        *)
  MaxWindows,  (* bound: windows of one post at a time                      *)
  MaxJobs,     (* bound: plans the robot looks up at a time                 *)
  MaxMods      (* bound: changes under way to the server at a time          *)

ASSUME PostAssumption == Repeating \subseteq Posts
ASSUME PointAssumption ==
  {Points, Corrections} \subseteq [{"s", "e"} -> SUBSET (Nat \ {0})]
ASSUME LimitAssumption ==
  /\ LONG \in Nat
  /\ {ROBOT_LIMIT, MaxWindows, MaxJobs} \subseteq Nat \ {0}
  /\ MaxMods \in Nat /\ MaxMods >= 2

Ends == {"s", "e"}                    (* the start and the end of a ride    *)
Nowhere == [x \in Ends |-> 0]         (* the column defaults of the table   *)
PLAN_ST == {"SPD_OK", "SPD_RBT_OK", "DELETE", "SPD_FRESH", "SPD_RBTED"}
Confirmed == {"SPD_OK", "SPD_RBT_OK"} (* what a search for rides finds      *)

Distance(ll) == IF ll["s"] < ll["e"] THEN ll["e"] - ll["s"] ELSE ll["s"] - ll["e"]
Located(ll) == \A x \in Ends : ll[x] # 0

VARIABLES
  plan,     (* the table: row i is the plan with id i                       *)
  windows,  (* how many windows each post is open in                        *)
  robot,    (* the robot's page: resting, asking, parsing o.plans, stopped  *)
  batch,    (* the rest of o.plans                                          *)
  jobs,     (* the plans being looked up, with the place of each callback   *)
  mods,     (* the changes under way to the plan plugin                     *)
  page,     (* o.plan of the moderator's page                               *)
  ntt       (* mgd._ntt of the moderator's page                             *)

robotVars == <<robot, batch, jobs>>
pageVars == <<page, ntt>>
vars == <<plan, windows, robotVars, mods, pageVars>>

Ids == 1..Len(plan)
Size(B) == BagCardinality(B)

(* A plan as a page holds it: the columns of the query, and what the page  *)
(* adds to them.  sgeo and egeo are not among the columns.                 *)
Copy(i) == [id |-> i, repeat |-> plan[i].oid \in Repeating, statu |-> plan[i].statu,
            cityid |-> plan[i].cityid, rect |-> plan[i].rect, km |-> plan[i].km,
            geo |-> Nowhere, ll |-> Nowhere]
NoPlan == [id |-> 0, repeat |-> FALSE, statu |-> "SPD_FRESH", cityid |-> Nowhere,
           rect |-> Nowhere, km |-> 0, geo |-> Nowhere, ll |-> Nowhere]

(* What arrives at the plugin of a plan sent to it.  The rect, the km and  *)
(* the cities of a plan that is not confirmed are overwritten before they  *)
(* are used again: they are dropped.                                       *)
Columns(p) ==
  IF p.statu \in Confirmed
  THEN [id |-> p.id, statu |-> p.statu, rect |-> p.rect, km |-> p.km, geo |-> p.geo,
        cityid |-> IF p.statu = "SPD_RBT_OK" THEN p.cityid ELSE Nowhere]
  ELSE [id |-> p.id, statu |-> p.statu, rect |-> Nowhere, km |-> 0, geo |-> p.geo,
        cityid |-> Nowhere]

Init ==
  /\ plan = <<>>
  /\ windows = [o \in Posts |-> 0]
  /\ robot = "resting" /\ batch = {} /\ jobs = EmptyBag
  /\ mods = EmptyBag
  /\ page = NoPlan /\ ntt = 0

-----------------------------------------------------------------------------
(* The spider and the server's table.                                      *)

plan_spd_exist(o) == \E i \in Ids : plan[i].oid = o

(* A list page, loaded again every ten minutes, asks which of its posts    *)
(* the server lacks and opens a window for each.                           *)
parseList ==
  /\ \A o \in Posts : ~plan_spd_exist(o) => windows[o] < MaxWindows
  /\ windows' = [o \in Posts |-> IF plan_spd_exist(o) THEN windows[o] ELSE windows[o] + 1]
  /\ UNCHANGED <<plan, robotVars, mods, pageVars>>

(* spd_do_data_add looks up the city of the post; a city it does not find  *)
(* leaves cityid 0.                                                        *)
NewRow(o, known) == [oid |-> o, known |-> known, statu |-> "SPD_FRESH",
                     cityid |-> Nowhere, geo |-> Nowhere, rect |-> Nowhere, km |-> 0]

(* A mutant: the plugin does not look whether it has the post.             *)
AddUnchecked(o) == \E known \in BOOLEAN : plan' = Append(plan, NewRow(o, known))

plan_cmd_plan_add(o) ==
  IF plan_spd_exist(o) THEN UNCHANGED plan
  ELSE \E known \in BOOLEAN : plan' = Append(plan, NewRow(o, known))

(* A window of a post sends it, and the plugin serves the request.  The    *)
(* answer, which does not wait for the plugin, closes the window; without  *)
(* one the window loads the post again.  (A request under way is a window  *)
(* that has not sent yet: nobody can tell them apart.)                     *)
parseNode(o) ==
  /\ windows[o] > 0
  /\ plan_cmd_plan_add(o)
  /\ windows' \in {windows, [windows EXCEPT ![o] = @ - 1]}
  /\ UNCHANGED <<robotVars, mods, pageVars>>

(* The plan plugin writes the columns that came, sgeo and egeo only if the *)
(* page measured the way.                                                  *)
Changed(r, m) ==
  [r EXCEPT !.statu = m.statu, !.cityid = m.cityid, !.rect = m.rect, !.km = m.km,
            !.geo = IF m.geo = Nowhere THEN r.geo ELSE m.geo]

plan_cmd_plan_up(m) ==
  /\ mods' = BagRemove(mods, m)
  /\ plan' = [plan EXCEPT ![m.id] = Changed(plan[m.id], m)]
  /\ UNCHANGED <<windows, robotVars, pageVars>>

(* The page's post or the server's asynchronous request does not arrive;   *)
(* no page hears of it.                                                    *)
ModLost(m) ==
  /\ mods' = BagRemove(mods, m)
  /\ UNCHANGED <<plan, windows, robotVars, pageVars>>

-----------------------------------------------------------------------------
(* The robot.                                                              *)

(* A mutant: the query does not ask for the state.                         *)
FreshOrNot == {i \in Ids : plan[i].known}

Fresh == {i \in Ids : plan[i].statu = "SPD_FRESH" /\ plan[i].known}

spd_post_robot_data_get ==
  \E S \in SUBSET Fresh :
    /\ S # {} /\ Cardinality(S) <= ROBOT_LIMIT
    /\ S = Fresh \/ Cardinality(S) = ROBOT_LIMIT
    /\ batch' = {Copy(i) : i \in S}

(* The robot asks a minute after it was done.                              *)
getPlans ==
  /\ robot = "resting"
  /\ robot' = "asking"
  /\ UNCHANGED <<plan, windows, batch, jobs, mods, pageVars>>

(* The answer: a first batch of the fresh plans, ...                       *)
getPlansAnswered ==
  /\ robot = "asking"
  /\ spd_post_robot_data_get
  /\ robot' = "parsing"
  /\ UNCHANGED <<plan, windows, jobs, mods, pageVars>>

(* ... or an error, which is what the server calls an empty list too: the  *)
(* robot waits another minute.                                             *)
getPlansRefused ==
  /\ robot = "asking"
  /\ robot' = "resting"
  /\ UNCHANGED <<plan, windows, batch, jobs, mods, pageVars>>

(* Or the request fails: getJSON was given no function for that, no timer  *)
(* is set, and the robot stops until somebody loads its page again.        *)
getPlansLost ==
  /\ robot = "asking"
  /\ robot' = "stopped"
  /\ UNCHANGED <<plan, windows, batch, jobs, mods, pageVars>>

(* Every five seconds the next plan, both of its ends at once.             *)
parsePlan(p) ==
  /\ robot = "parsing" /\ Size(jobs) < MaxJobs
  /\ batch' = batch \ {p}
  /\ jobs' = BagAdd(jobs, [plan |-> p, at |-> [x \in Ends |-> "point"]])
  /\ UNCHANGED <<plan, windows, robot, mods, pageVars>>

(* A mutant: the last plan does not set the timer.                         *)
ParsePlanStops == robot = "parsing" /\ batch = {} /\ UNCHANGED vars

parsePlanEnds ==
  /\ robot = "parsing" /\ batch = {}
  /\ robot' = "resting"
  /\ UNCHANGED <<plan, windows, batch, jobs, mods, pageVars>>

(* Callback x of job j has run and left the plan as p; the job is over     *)
(* when no callback is outstanding.                                        *)
Continue(j, x, p, at) ==
  LET k == [plan |-> p, at |-> [j.at EXCEPT ![x] = at]]
  IN  jobs' = IF \A y \in Ends : k.at[y] = "end" THEN BagRemove(jobs, j)
              ELSE BagAdd(BagRemove(jobs, j), k)

(* spd_post_robot_data_mod: anything but a failed lookup is confirmed.     *)
RobotMod(p) == Columns([p EXCEPT !.statu = IF @ = "SPD_RBTED" THEN @ ELSE "SPD_RBT_OK"])

parsePlanErr(j, x) ==
  LET p == [j.plan EXCEPT !.statu = "SPD_RBTED"]
  IN  /\ Size(mods) < MaxMods
      /\ Continue(j, x, p, "end")
      /\ mods' = BagAdd(mods, RobotMod(p))

getPoint(j, x, point) ==
  /\ j.at[x] = "point"
  /\ Continue(j, x, [j.plan EXCEPT !.ll[x] = point], "city")
  /\ UNCHANGED <<plan, windows, robot, batch, mods, pageVars>>

(* No such place, or a place in none of the cities of the server.          *)
LookupFails(j, x) ==
  /\ j.at[x] # "end"
  /\ parsePlanErr(j, x)
  /\ UNCHANGED <<plan, windows, robot, batch, pageVars>>

getCityOfStart(j) ==
  /\ j.at["s"] = "city"
  /\ Continue(j, "s", [j.plan EXCEPT !.cityid["s"] = j.plan.ll["s"]], "end")
  /\ UNCHANGED <<plan, windows, robot, batch, mods, pageVars>>

Measured(p) == [p EXCEPT !.rect = p.ll, !.geo = p.ll, !.km = Distance(p.ll)]

(* A mutant: the test for a long way comes before the way is measured.     *)
TestBeforeMeasure(j) ==
  LET p == [j.plan EXCEPT !.cityid["e"] = j.plan.ll["e"]]
      q == Measured(IF p.repeat /\ p.km > LONG THEN [p EXCEPT !.statu = "SPD_RBTED"] ELSE p)
  IN  /\ j.at["e"] = "city" /\ p.ll["s"] # 0 /\ Size(mods) < MaxMods
      /\ Continue(j, "e", q, "end")
      /\ mods' = BagAdd(mods, RobotMod(q))
      /\ UNCHANGED <<plan, windows, robot, batch, pageVars>>

(* The callback of the end measures the way.  A column arrives as text, so *)
(* the city number 0 of the table passes the test plan.scityid for one.    *)
(* Without a starting point the callback dies of plan.sll.join.            *)
getCityOfEnd(j) ==
  LET p == [j.plan EXCEPT !.cityid["e"] = j.plan.ll["e"]]
      long == p.repeat /\ Distance(p.ll) > LONG
      q == Measured(IF long THEN [p EXCEPT !.statu = "SPD_RBTED"] ELSE p)
      m == RobotMod(q)
  IN  /\ j.at["e"] = "city"
      /\ IF p.ll["s"] = 0 THEN Continue(j, "e", p, "end") /\ UNCHANGED mods
         ELSE /\ Size(mods) + (IF long THEN 2 ELSE 1) <= MaxMods
              /\ Continue(j, "e", q, "end")
              /\ mods' = IF long THEN BagAdd(BagAdd(mods, m), m) ELSE BagAdd(mods, m)
      /\ UNCHANGED <<plan, windows, robot, batch, pageVars>>

(* The map or the city service never answers.                              *)
NoAnswer(j, x) ==
  /\ j.at[x] # "end"
  /\ Continue(j, x, j.plan, "end")
  /\ UNCHANGED <<plan, windows, robot, batch, mods, pageVars>>

-----------------------------------------------------------------------------
(* The moderator's page.                                                   *)

Unconfirmed == {i \in Ids : plan[i].statu = "SPD_RBTED"}

(* Any one unconfirmed plan but the one shown; the page says so when there *)
(* is none, and keeps what it shows.                                       *)
spd_post_do_data_get(exceptid) ==
  \E i \in Unconfirmed \ {exceptid} : page' = Copy(i)

(* The page is loaded, with the number of plans to look at, and asks for   *)
(* the first.                                                              *)
onready ==
  /\ page' = NoPlan
  /\ ntt' = Cardinality(Unconfirmed)
  /\ UNCHANGED <<plan, windows, robotVars, mods>>

(* The page was loaded, next was clicked, or a save or a deletion was      *)
(* answered.  The server's answer is about another plan than the one       *)
(* shown: what is done with that one while the answer is under way might   *)
(* as well be done before.                                                 *)
getPlan ==
  /\ ntt > 0
  /\ spd_post_do_data_get(page.id)
  /\ ntt' = ntt - 1
  /\ UNCHANGED <<plan, windows, robotVars, mods>>

(* A mutant: the way is not measured again.                                *)
UpPlanKeepsKm(x, point) ==
  IF page.id = 0 THEN UNCHANGED page ELSE page' = [page EXCEPT !.ll[x] = point]

(* The city of the new place, looked up after it, changes nothing else     *)
(* that a moderator's plan carries and is left out here; so is what a page *)
(* without a plan writes into its empty object, which is never sent.       *)
upPlan(x, point) ==
  LET ll == [page.ll EXCEPT ![x] = point]
  IN  IF page.id = 0 THEN UNCHANGED page
      ELSE page' = [page EXCEPT !.ll = ll, !.km = IF Located(ll) THEN Distance(ll) ELSE @]

(* A marker was dragged and the map says where it is now.  The answer is   *)
(* taken for the plan the page shows when it comes, whichever was shown    *)
(* when the marker was dragged: the question leaves nothing behind.        *)
markDraged(x, point) ==
  /\ upPlan(x, point)
  /\ UNCHANGED <<plan, windows, robotVars, mods, ntt>>

(* A place was chosen from the list under the field.                       *)
autoChanged(x, point) ==
  /\ upPlan(x, point)
  /\ UNCHANGED <<plan, windows, robotVars, mods, ntt>>

(* km stays as it is: upPlan computed it.  Without an id the plugin        *)
(* refuses the plan.                                                       *)
savePlan ==
  /\ page.id # 0 /\ Located(page.ll) /\ Size(mods) < MaxMods
  /\ page' = [page EXCEPT !.rect = page.ll, !.geo = page.ll]
  /\ mods' = BagAdd(mods, Columns([page' EXCEPT !.statu = "SPD_OK"]))
  /\ UNCHANGED <<plan, windows, robotVars, ntt>>

delPlan ==
  /\ page.id # 0 /\ Size(mods) < MaxMods
  /\ mods' = BagAdd(mods, Columns([page EXCEPT !.statu = "DELETE"]))
  /\ UNCHANGED <<plan, windows, robotVars, pageVars>>

-----------------------------------------------------------------------------

Spider == parseList \/ \E o \in Posts : parseNode(o)

Plugin == \E m \in BagToSet(mods) : plan_cmd_plan_up(m) \/ ModLost(m)

Job == \E j \in BagToSet(jobs) :
         \/ \E x \in Ends : \/ \E point \in Points[x] : getPoint(j, x, point)
                            \/ LookupFails(j, x)
                            \/ NoAnswer(j, x)
         \/ getCityOfStart(j)
         \/ getCityOfEnd(j)

Robot ==
  \/ getPlans \/ getPlansAnswered \/ getPlansRefused \/ getPlansLost
  \/ \E p \in batch : parsePlan(p)
  \/ parsePlanEnds

Moderator ==
  \/ onready \/ getPlan \/ savePlan \/ delPlan
  \/ \E x \in Ends : \E point \in Corrections[x] : markDraged(x, point) \/ autoChanged(x, point)

Next == Spider \/ Plugin \/ Job \/ Robot \/ Moderator

(* The robot's page stays open: its timers fire and its requests end, with *)
(* an answer or without one.  Nothing is assumed of the server, the spider *)
(* and the moderator.                                                      *)
Fairness == WF_vars(Robot) /\ WF_vars(Job)

Spec == Init /\ [][Next]_vars /\ Fairness

-----------------------------------------------------------------------------

Place == [Ends -> Nat]
Mod == [id : Ids, statu : PLAN_ST, cityid : Place, rect : Place, km : Nat, geo : Place]
PagePlan == [id : Ids \cup {0}, repeat : BOOLEAN, statu : PLAN_ST, cityid : Place,
             rect : Place, km : Nat, geo : Place, ll : Place]
Row == [oid : Posts, known : BOOLEAN, statu : PLAN_ST, cityid : Place, geo : Place,
        rect : Place, km : Nat]

(* The shape of the table, the pages and what is under way: in particular  *)
(* every change names a row that exists.                                   *)
TypeOK ==
  /\ plan \in Seq(Row)
  /\ windows \in [Posts -> 0..MaxWindows]
  /\ robot \in {"resting", "asking", "parsing", "stopped"}
  /\ batch \subseteq PagePlan
  /\ BagToSet(jobs) \subseteq [plan : PagePlan, at : [Ends -> {"point", "city", "end"}]]
  /\ BagToSet(mods) \subseteq Mod
  /\ page \in PagePlan /\ ntt \in Nat

(* A post becomes one plan, although a list that is loaded again opens a   *)
(* second window for it before the first one's request was served, and a   *)
(* window sends it again: the plugin looks for it before it inserts it     *)
(* (plan_cmd_plan_add).  The types hold with it: rows are never removed.   *)
OnePlanPerPost == TypeOK /\ \A i, j \in Ids : plan[i].oid = plan[j].oid => i = j

(* A plan that searches find has been measured, and its rect, its sgeo and *)
(* egeo and its km are about the same two places, whatever older copies of *)
(* it, measured or not, were written before and after (robot.js 104-110,   *)
(* post.js 137-139 and 183-187).  The cities of a plan the robot confirmed *)
(* are those of its two places, but the start's may be missing (see        *)
(* MachineOkLocated).                                                      *)
ConfirmedMeasured ==
  \A i \in Ids : plan[i].statu \in Confirmed =>
    /\ Located(plan[i].rect)
    /\ plan[i].geo = plan[i].rect
    /\ plan[i].km = Distance(plan[i].rect)
    /\ plan[i].statu = "SPD_RBT_OK" =>
         /\ plan[i].cityid["e"] = plan[i].rect["e"]
         /\ plan[i].cityid["s"] \in {0, plan[i].rect["s"]}

(* The robot never confirms a ride that repeats over a long way, although  *)
(* it posts such a plan twice, and an earlier lookup of the same plan may  *)
(* have found nearer places (robot.js 111-114, ospd.c 173).                *)
NoLongRepeat ==
  \A i \in Ids : plan[i].statu = "SPD_RBT_OK" /\ plan[i].oid \in Repeating
                => plan[i].km <= LONG

(* Nobody holds a copy of plan i, and it is confirmed or deleted.          *)
Settled(i) ==
  /\ plan[i].statu \in Confirmed \cup {"DELETE"}
  /\ \A p \in batch \cup BagToSet(mods) \cup {page} : p.id # i
  /\ \A j \in BagToSet(jobs) : j.plan.id # i

(* Old copies can undo a decision: a robot that looked a plan up twice, or *)
(* a moderator's page that still shows it.  But once no page holds a copy  *)
(* and no change is under way, the decision is final: neither page is ever *)
(* offered the plan again (ospd.c 87 and 153).                             *)
SettledForGood == [][\A i \in Ids : Settled(i) => plan'[i] = plan[i] /\ Settled(i)']_vars

(* The robot asks for fresh plans again and again, through failed lookups, *)
(* lookups without an answer, callbacks that die and errors of the server, *)
(* unless one answer to this very question is lost: that stops it for good *)
(* (robot.js 47-58).                                                       *)
RobotPolls == []<><<getPlans>>_vars \/ <>[](robot = "stopped")

(* mevent_plan.h calls PLAN_ST_SPD_RBT_OK "machine confirmed ok", and      *)
(* robot.js 61 says that the lookup produces scityid, ecityid, rect and    *)
(* km: a plan the robot confirmed has the city of its start.               *)
MachineOkLocated == \A i \in Ids : plan[i].statu = "SPD_RBT_OK" => Located(plan[i].cityid)
=============================================================================
