------------------------------- MODULE Routes -------------------------------
(***************************************************************************)
(* What the main column shows.  A tab whose code comes with the page is    *)
(* drawn at once; any other shows a placeholder until its modules have     *)
(* come, unless they are here already.  The column is drawn anew at every  *)
(* change the view models report, whatever is still on its way.            *)
(***************************************************************************)
EXTENDS Naturals, Sequences

CONSTANTS
  Tab,      \* the tabs and routes
  Needs,    \* [Tab -> set of modules]: empty if the tab comes with the page
  Home      \* the tab shown first

Module == UNION {Needs[t] : t \in Tab}
(* What the configurations keep to. *)
RouteAssumption == Home \in Tab /\ Needs[Home] = {}

VARIABLES
  loader,    \* [Module -> "unasked", "loading", "ready" or "failed"]
  category,  \* the active tab
  column,    \* what is in the column: a sequence of [kind, tab]
  waiting    \* placeholders' continuations to come: [tab, here]

routeVars == <<loader, category, column, waiting>>

Shown(kind, t) == [kind |-> kind, tab |-> t]
Ready(t) == \A m \in Needs[t] : loader[m] = "ready"
Broken(t) == \E m \in Needs[t] : loader[m] = "failed"

RoutesInit ==
  /\ loader = [m \in Module |-> "unasked"]
  /\ category = Home /\ column = <<Shown("view", Home)>> /\ waiting = {}

(* An import is begun once; one that failed is answered as failed for the  *)
(* rest of the visit.                                                      *)
Ensure(ms) == [m \in Module |-> IF m \in ms /\ loader[m] = "unasked" THEN "loading" ELSE loader[m]]

(* The column is emptied first: no placeholder of before is in it.         *)
Draw(t) ==
  LET old == {[tab |-> w.tab, here |-> FALSE] : w \in waiting}
  IN IF Ready(t)
       THEN column' = <<Shown("view", t)>> /\ waiting' = old /\ UNCHANGED loader
       ELSE /\ column' = <<Shown("placeholder", t)>>
            /\ waiting' = old \cup {[tab |-> t, here |-> TRUE]}
            /\ loader' = Ensure(Needs[t])

(* setActiveCategory: a tab, a link with a hash, a button of the banner.   *)
Choose(t) ==
  /\ t # category /\ category' = t /\ Draw(t)

(* Any view model that has something to tell, a poll's feed among them.    *)
Redraw == Draw(category) /\ UNCHANGED category

(* A link to a program or a supplier asks for the modules it shares with   *)
(* the tabs.                                                               *)
Permalink(ms) ==
  /\ loader' = Ensure(ms) /\ loader' # loader
  /\ UNCHANGED <<category, column, waiting>>

Loaded(m) ==
  /\ loader[m] = "loading" /\ loader' = [loader EXCEPT ![m] = "ready"]
  /\ UNCHANGED <<category, column, waiting>>
LoadFails(m) ==
  /\ loader[m] = "loading" /\ loader' = [loader EXCEPT ![m] = "failed"]
  /\ UNCHANGED <<category, column, waiting>>

(* Mutant: the tab alone is looked at.                                     *)
StillThereByTab(w) == w.tab = category
StillThere(w) == w.tab = category /\ w.here

(* The placeholder, if it is in the column, leaves it.                     *)
WithoutPlaceholder(w) ==
  IF w.here
    THEN LET i == CHOOSE i \in DOMAIN column : column[i].kind = "placeholder"
         IN SubSeq(column, 1, i - 1) \o SubSeq(column, i + 1, Len(column))
    ELSE column

(* Everything asked for has come.                                          *)
Arrived(w) ==
  /\ Ready(w.tab) /\ waiting' = waiting \ {w}
  /\ column' = IF StillThere(w)
                 THEN Append(WithoutPlaceholder(w), Shown("view", w.tab))
                 ELSE column
  /\ UNCHANGED <<loader, category>>

(* Mutant: a failure is not told.                                          *)
NeverArrivesUntold(w) ==
  /\ Broken(w.tab) /\ waiting' = waiting \ {w}
  /\ UNCHANGED <<loader, category, column>>

(* One failure is enough: the placeholder, wherever it is, tells it.       *)
NeverArrives(w) ==
  /\ Broken(w.tab) /\ waiting' = waiting \ {w}
  /\ column' = IF w.here THEN <<Shown("failed", w.tab)>> ELSE column
  /\ UNCHANGED <<loader, category>>

RoutesNext ==
  \/ \E t \in Tab : Choose(t)
  \/ Redraw
  \/ \E t \in Tab : Permalink(Needs[t])
  \/ \E m \in Module : Loaded(m)
  \/ \E m \in Module : LoadFails(m)
  \/ \E w \in waiting : Arrived(w)
  \/ \E w \in waiting : NeverArrives(w)

(* An import comes or fails, and its continuations run; those of a         *)
(* placeholder in the column are queued before it can be replaced.         *)
Settles(t) == \E w \in waiting : w.here /\ w.tab = t /\ (Arrived(w) \/ NeverArrives(w))
RoutesFairness ==
  /\ \A m \in Module : WF_routeVars(Loaded(m) \/ LoadFails(m))
  /\ \A t \in Tab : WF_routeVars(Settles(t))

RoutesSpec == RoutesInit /\ [][RoutesNext]_routeVars /\ RoutesFairness

-----------------------------------------------------------------------------
(* However loads and redraws fall, the column holds one thing, of the tab  *)
(* that is chosen (MainFeedRouter.ts:134-142, main.ts:178-179).            *)
OneThingShown == Len(column) = 1 /\ column[1].tab = category

(* A tab chosen and not left comes to show itself, or that it cannot.      *)
TabComes ==
  \A t \in Tab :
    (category = t) ~> (category # t \/ column[1].kind \in {"view", "failed"})
=============================================================================
