----------------------------- MODULE Explorers -----------------------------
(***************************************************************************)
(* The programs' and the suppliers' explorer: a search box and filters     *)
(* over a list that comes with the page, and how much the wire says of     *)
(* each.  The programs' box filters at once; the suppliers' waits for a    *)
(* pause.  The active tab is drawn anew, its box included, at every change *)
(* of either view model or of the feed.                                    *)
(***************************************************************************)
EXTENDS Naturals, FiniteSets

CONSTANTS
  Entry,           \* the programs and the suppliers
  Supplier,        \* those that are suppliers
  Facet, Value,    \* what can be chosen from, and the choices
  Has,             \* [Entry -> [Facet -> set of values]]
  Text, Trim,      \* what a box can hold, and [Text -> Text]
  Empty,           \* the empty text
  Says,            \* [Entry -> set of trimmed texts found in it]
  Story, Mentions, \* the wire's stories, and [Story -> set of entries]
  MaxKeys          \* bound: what the reader does

(* What the configurations keep to. *)
ExplorerAssumption ==
  /\ Supplier \subseteq Entry /\ Empty \in Text /\ Trim[Empty] = Empty
  /\ \A x \in Text : Trim[x] \in Text /\ Trim[Trim[x]] = Trim[x]
  /\ \A e \in Entry : Empty \in Says[e]

VARIABLES
  tab,     \* the explorer on screen, or "elsewhere"
  box,     \* [explorer -> text in its search box on screen]
  input,   \* the suppliers' searchInput
  query,   \* [explorer -> searchQuery]
  timer,   \* whether the debouncer's timer is set
  facets,  \* [explorer -> [Facet -> value or "all"]]
  feed,    \* the stories of the feed's view model
  page,    \* the list last drawn: [list, news]
  keys

explorerVars == <<tab, box, input, query, timer, facets, feed, page, keys>>

Explorer == {"programs", "suppliers"}
Entries(x) == IF x = "suppliers" THEN Supplier ELSE Entry \ Supplier
Blank == [list |-> {}, news |-> {}]

ExplorerInit ==
  /\ tab = "elsewhere" /\ box = [x \in Explorer |-> Empty] /\ input = Empty
  /\ query = [x \in Explorer |-> Empty] /\ timer = FALSE
  /\ facets = [x \in Explorer |-> [f \in Facet |-> "all"]]
  /\ feed \in SUBSET Story /\ page = Blank /\ keys = 0

Key == keys < MaxKeys /\ keys' = keys + 1

-----------------------------------------------------------------------------
(* getFilteredSuppliers and filterPrograms. *)
Fits(e, chosen) == \A f \in Facet : chosen[f] = "all" \/ chosen[f] \in Has[e][f]
Found(x, q, chosen) == {e \in Entries(x) : q \in Says[e] /\ Fits(e, chosen)}

(* getRelatedStoriesForProgram: by its tag or by its names in the story. *)
Related(es, stories) == {pair \in stories \X es : pair[2] \in Mentions[pair[1]]}

(* The suppliers' box takes the text typed, the programs' the query. *)
Draw ==
  IF tab' = "elsewhere" THEN page' = Blank /\ UNCHANGED box
  ELSE /\ page' = [list |-> Found(tab', query'[tab'], facets'[tab']),
                   news |-> Related(Found(tab', query'[tab'], facets'[tab']), feed')]
       /\ box' = [box EXCEPT ![tab'] = IF tab' = "suppliers" THEN input' ELSE query'["programs"]]

ChooseTab ==
  /\ Key /\ tab' \in (Explorer \cup {"elsewhere"}) \ {tab}
  /\ UNCHANGED <<input, query, timer, facets, feed>> /\ Draw

TypeProgram(x) ==
  /\ tab = "programs" /\ Key /\ x # box[tab]
  /\ UNCHANGED <<tab, input, timer, facets, feed>>
  /\ query' = [query EXCEPT !["programs"] = Trim[x]]
  /\ IF query' = query THEN box' = [box EXCEPT !["programs"] = x] /\ UNCHANGED page ELSE Draw

TypeSupplier(x) ==
  /\ tab = "suppliers" /\ Key /\ x # box[tab]
  /\ box' = [box EXCEPT !["suppliers"] = x] /\ input' = x /\ timer' = TRUE
  /\ UNCHANGED <<tab, query, facets, feed, page>>

(* Mutant: a new query draws nothing. *)
TakenSilently == UNCHANGED <<page, box>>
Taken == Draw

(* The pause is over, on whichever tab: what was typed last is looked for. *)
Pause ==
  /\ timer /\ timer' = FALSE
  /\ UNCHANGED <<tab, input, facets, feed, keys>>
  /\ query' = [query EXCEPT !["suppliers"] = Trim[input]]
  /\ IF query' = query THEN UNCHANGED <<page, box>> ELSE Taken

PickFacet ==
  /\ tab \in Explorer /\ Key
  /\ \E f \in Facet, v \in Value \cup {"all"} :
       facets[tab][f] # v /\ facets' = [facets EXCEPT ![tab][f] = v]
  /\ UNCHANGED <<tab, input, query, timer, feed>> /\ Draw

(* A poll's feed, told by the feed's view model and by both of these. *)
FeedComes ==
  /\ feed' \in SUBSET Story
  /\ UNCHANGED <<tab, input, query, timer, facets, keys>> /\ Draw

ExplorerNext ==
  \/ ChooseTab
  \/ \E x \in Text : TypeProgram(x)
  \/ \E x \in Text : TypeSupplier(x)
  \/ Pause \/ PickFacet \/ FeedComes

ExplorerFairness == WF_explorerVars(Pause)
ExplorerSpec == ExplorerInit /\ [][ExplorerNext]_explorerVars /\ ExplorerFairness

-----------------------------------------------------------------------------
(* Once the reader stops, the list is of what stands in the box: no text,
   left in a box by a redraw or still waiting for its pause when the tab was
   left, stays without its list. *)
BoxTellsList ==
  <>[](tab \in Explorer => page.list = Found(tab, Trim[box[tab]], facets[tab]))
=============================================================================
