------------------------------ MODULE MCReading -----------------------------
(***************************************************************************)
(* What a reader or a curator waits for in the browser, part by part: the  *)
(* feed, a tab's code, an explorer's list, the graph's canvas, a panel's   *)
(* call.  The parts share no variable, so a behaviour is of one of them    *)
(* and the others rest where they began.                                   *)
(***************************************************************************)
EXTENDS Integers, Sequences, FiniteSets, TLC

CONSTANTS
  Nothing,
  MaxStamp, MaxChanges, MaxFaults, MaxEdits, MaxSaves,         \* Desk
  Tab, Needs, Home,                                            \* Routes
  Node, CategoryOf, Link, Ends, Seen, Centre, Around,          \* GraphView
  Today, Week, MaxViews, MaxActs,
  Entry, Supplier, Facet, Value, Has, Text, Trim, Empty,       \* Explorers
  Says, Story, Mentions, MaxKeys,
  Candidate, FormAsk, FormPresses,                             \* DeskForms
  Queue, RowsOf, DetailOf, Candidates, Shadowed, Known,        \* TopicDesk
  TopicAsk, TopicPresses

VARIABLES
  part,       \* the component this behaviour is of
  \* Desk
  served, cached, hydration, poll, lastGeneratedAt, clusters, river, gone, saves, publish,
  rows, changes, faults, edits, meant, spoiled,
  \* Routes
  loader, category, column, waiting,
  \* GraphView
  board, span, date, playing, filter, selected, hovered, asked, views, heat, framing, held,
  acts,
  \* Explorers
  tab, box, input, query, timer, facets, feed, page, keys,
  \* DeskForms
  undecided, onDesk, reviewing, mode, field, sending, notice, busy, told, formAsks, formPresses,
  formSettled,
  \* TopicDesk
  filed, active, version, queue, rowsShown, loading, detail, submitting, topicAsks,
  topicPresses, topicSettled

Screen == INSTANCE Desk
Tabs == INSTANCE Routes
Graph == INSTANCE GraphView WITH None <- Nothing
Lists == INSTANCE Explorers
Forms == INSTANCE DeskForms WITH
  Ask <- FormAsk, MaxPresses <- FormPresses, Nil <- Nothing,
  asks <- formAsks, presses <- formPresses, settled <- formSettled
Governance == INSTANCE TopicDesk WITH
  Ask <- TopicAsk, MaxPresses <- TopicPresses, Nil <- Nothing,
  asks <- topicAsks, presses <- topicPresses, settled <- topicSettled

screenVars == <<served, cached, hydration, poll, lastGeneratedAt, clusters, river, gone, saves,
    publish, rows, changes, faults, edits, meant, spoiled>>
tabsVars == <<loader, category, column, waiting>>
graphVars == <<board, span, date, playing, filter, selected, hovered, asked, views, heat, framing,
    held, acts>>
listsVars == <<tab, box, input, query, timer, facets, feed, page, keys>>
formsVars == <<undecided, onDesk, reviewing, mode, field, sending, notice, busy, told, formAsks,
    formPresses, formSettled>>
governanceVars == <<filed, active, version, queue, rowsShown, loading, detail, submitting, topicAsks,
    topicPresses, topicSettled>>

vars == <<part,
  screenVars, tabsVars, graphVars, listsVars, formsVars, governanceVars>>

-----------------------------------------------------------------------------
(* A step of one component: it is the one looked at, and the others stay.  *)
OnlyScreen == part = "screen" /\ UNCHANGED <<part,
  tabsVars, graphVars, listsVars, formsVars, governanceVars>>
OnlyTabs == part = "tabs" /\ UNCHANGED <<part,
  screenVars, graphVars, listsVars, formsVars, governanceVars>>
OnlyGraph == part = "graph" /\ UNCHANGED <<part,
  screenVars, tabsVars, listsVars, formsVars, governanceVars>>
OnlyLists == part = "lists" /\ UNCHANGED <<part,
  screenVars, tabsVars, graphVars, formsVars, governanceVars>>
OnlyForms == part = "forms" /\ UNCHANGED <<part,
  screenVars, tabsVars, graphVars, listsVars, governanceVars>>
OnlyGovernance == part = "governance" /\ UNCHANGED <<part,
  screenVars, tabsVars, graphVars, listsVars, formsVars>>

ScreenSteps ==
  \/ \E t \in Screen!Stamp : OnlyScreen /\ Screen!Serve(t)
  \/ OnlyScreen /\ Screen!Expire
  \/ OnlyScreen /\ Screen!Open
  \/ OnlyScreen /\ Screen!Hydrate
  \/ OnlyScreen /\ Screen!HydrationFails
  \/ OnlyScreen /\ Screen!Check
  \/ OnlyScreen /\ Screen!Unchanged
  \/ OnlyScreen /\ Screen!Sync
  \/ OnlyScreen /\ Screen!CheckFails
  \/ OnlyScreen /\ Screen!Saved
  \/ OnlyScreen /\ Screen!SaveFails
  \/ OnlyScreen /\ Screen!Delete
  \/ OnlyScreen /\ Screen!Publish
  \/ \E t \in Screen!Stamp : OnlyScreen /\ Screen!Publishes(t)
  \/ OnlyScreen /\ Screen!PublishFails

TabsSteps ==
  \/ \E t \in Tab : OnlyTabs /\ Tabs!Choose(t)
  \/ OnlyTabs /\ Tabs!Redraw
  \/ \E t \in Tab : OnlyTabs /\ Tabs!Permalink(Needs[t])
  \/ \E m \in Tabs!Module : OnlyTabs /\ Tabs!Loaded(m)
  \/ \E m \in Tabs!Module : OnlyTabs /\ Tabs!LoadFails(m)
  \/ \E w \in waiting : OnlyTabs /\ Tabs!Arrived(w)
  \/ \E w \in waiting : OnlyTabs /\ Tabs!NeverArrives(w)

GraphSteps ==
  \/ OnlyGraph /\ Graph!Drawn
  \/ \E c \in Centre : OnlyGraph /\ Graph!Answered(c)
  \/ \E c \in Centre : OnlyGraph /\ Graph!Failed(c)
  \/ OnlyGraph /\ Graph!PlaybackTick
  \/ OnlyGraph /\ Graph!Step
  \/ OnlyGraph /\ Graph!TogglePlay
  \/ OnlyGraph /\ Graph!Scrub
  \/ OnlyGraph /\ Graph!SetCategory
  \/ OnlyGraph /\ Graph!PointerDown
  \/ OnlyGraph /\ Graph!Drag
  \/ OnlyGraph /\ Graph!Hover
  \/ OnlyGraph /\ Graph!PointerUp
  \/ OnlyGraph /\ Graph!SelectNeighbour
  \/ OnlyGraph /\ Graph!Focus
  \/ OnlyGraph /\ Graph!FocusNodes
  \/ OnlyGraph /\ Graph!ResetView
  \/ \E v \in Graph!View : OnlyGraph /\ Graph!Frame(v)

ListsSteps ==
  \/ OnlyLists /\ Lists!ChooseTab
  \/ \E x \in Text : OnlyLists /\ Lists!TypeProgram(x)
  \/ \E x \in Text : OnlyLists /\ Lists!TypeSupplier(x)
  \/ OnlyLists /\ Lists!Pause
  \/ OnlyLists /\ Lists!PickFacet
  \/ OnlyLists /\ Lists!FeedComes

FormsSteps ==
  \/ OnlyForms /\ Forms!LoadCandidates
  \/ \E c \in Candidate : OnlyForms /\ Forms!ReviewCandidate(c)
  \/ \E a \in FormAsk : OnlyForms /\ Forms!ServeCandidates(a)
  \/ \E a \in FormAsk : OnlyForms /\ Forms!ServeDecision(a)
  \/ \E c \in Candidate : OnlyForms /\ Forms!DecidedElsewhere(c)
  \/ \E a \in FormAsk : OnlyForms /\ Forms!CandidatesCome(a)
  \/ \E a \in FormAsk : OnlyForms /\ Forms!CandidatesFail(a)
  \/ \E a \in FormAsk : OnlyForms /\ Forms!DecisionComes(a)
  \/ \E a \in FormAsk : OnlyForms /\ Forms!DecisionFails(a)
  \/ \E m \in Forms!Mode : OnlyForms /\ Forms!SetMode(m)
  \/ OnlyForms /\ Forms!WriteField
  \/ OnlyForms /\ Forms!SubmitStory
  \/ \E a \in FormAsk : OnlyForms /\ Forms!ServeStory(a)
  \/ \E a \in FormAsk : OnlyForms /\ Forms!StoryTaken(a)
  \/ \E a \in FormAsk : OnlyForms /\ Forms!StoryFails(a)
  \/ \E b \in Forms!Bar : OnlyForms /\ Forms!PressBar(b)
  \/ \E a \in FormAsk : OnlyForms /\ Forms!ServeBar(a)
  \/ \E a \in FormAsk : OnlyForms /\ Forms!BarDone(a)
  \/ \E a \in FormAsk : OnlyForms /\ Forms!BarFails(a)

GovernanceSteps ==
  \/ \E q \in Queue : OnlyGovernance /\ Governance!SetActiveQueue(q)
  \/ OnlyGovernance /\ Governance!RefreshQueue
  \/ \E r \in Governance!Row : OnlyGovernance /\ Governance!OpenDetail(r)
  \/ OnlyGovernance /\ Governance!ClearDetail
  \/ \E r \in Governance!Row : OnlyGovernance /\ Governance!Reject(r)
  \/ \E r \in Governance!Row : OnlyGovernance /\ Governance!Adopt(r)
  \/ \E t \in Known, c \in {"suppress", "restore"} : OnlyGovernance /\ Governance!QuickTool(t, c)
  \/ \E a \in TopicAsk : OnlyGovernance /\ Governance!ServeRead(a)
  \/ \E a \in TopicAsk : OnlyGovernance /\ Governance!ServeSubmit(a)
  \/ \E q \in Queue, r \in Governance!Row : OnlyGovernance /\ Governance!GovernedElsewhere(q, r)
  \/ \E a \in TopicAsk : OnlyGovernance /\ Governance!QueueComes(a)
  \/ \E a \in TopicAsk : OnlyGovernance /\ Governance!QueueFails(a)
  \/ \E a \in TopicAsk : OnlyGovernance /\ Governance!DetailComes(a)
  \/ \E a \in TopicAsk : OnlyGovernance /\ Governance!DetailFails(a)
  \/ \E a \in TopicAsk : OnlyGovernance /\ Governance!VersionComes(a)
  \/ \E a \in TopicAsk : OnlyGovernance /\ Governance!ChangeMade(a)
  \/ \E a \in TopicAsk : OnlyGovernance /\ Governance!ChangeRefused(a)
  \/ \E a \in TopicAsk : OnlyGovernance /\ Governance!ChangeFails(a)

Next ==
  \/ ScreenSteps
  \/ TabsSteps
  \/ GraphSteps
  \/ ListsSteps
  \/ FormsSteps
  \/ GovernanceSteps

Init ==
  /\ part \in {"screen", "tabs", "graph", "lists", "forms", "governance"}
  /\ Screen!DeskInit
  /\ Tabs!RoutesInit
  /\ Graph!BoardInit
  /\ Lists!ExplorerInit
  /\ part # "lists" => feed = {}
  /\ Forms!DeskFormsInit
  /\ part # "forms" => undecided = {}
  /\ Governance!TopicDeskInit

(* What the parts' own specifications assume, of the part looked at.       *)
Fairness ==
  /\ WF_screenVars(part = "screen" /\ Screen!Expire)
  /\ WF_screenVars(part = "screen" /\ Screen!Hydrate)
  /\ WF_screenVars(part = "screen" /\ Screen!Check)
  /\ WF_screenVars(part = "screen" /\ (Screen!Unchanged \/ Screen!Sync))
  /\ WF_screenVars(part = "screen" /\ Screen!Saved)
  /\ \A m \in Tabs!Module : WF_tabsVars(part = "tabs" /\ (Tabs!Loaded(m) \/ Tabs!LoadFails(m)))
  /\ \A t \in Tab : WF_tabsVars(part = "tabs" /\ Tabs!Settles(t))
  /\ WF_graphVars(part = "graph" /\ Graph!PlaybackTick)
  /\ \A v \in Graph!View : WF_graphVars(part = "graph" /\ Graph!Frame(v))
  /\ WF_listsVars(part = "lists" /\ Lists!Pause)
  /\ \A a \in FormAsk : WF_formsVars(part = "forms" /\ Forms!CallEnds(a))
  /\ \A a \in TopicAsk : WF_governanceVars(part = "governance" /\ Governance!TopicCallEnds(a))

Spec == Init /\ [][Next]_vars /\ Fairness

-----------------------------------------------------------------------------
(* The page comes to show the feed that is served, an older one after a    *)
(* rollback too (feedSyncService.ts:116-159, main.ts:64-90, 266-275).      *)
FeedReachesScreen == Screen!FeedReachesScreen

(* The publish after a deletion tells of it (EditorViewModel.ts:211-216).  *)
PublishTellsDeletion == Screen!PublishTellsDeletion

(* A tab chosen and not left comes to show itself, or that it cannot       *)
(* (MainFeedRouter.ts:134-142).                                            *)
TabComes == Tabs!TabComes

(* Left alone, the graph's playback ends and no canvas goes on drawing     *)
(* (KnowledgeGraphViewModel.ts, KnowledgeGraphCanvas.ts).                  *)
CanvasRests == Graph!CanvasRests

(* Once the reader stops typing, the list is of what stands in the box     *)
(* (SuppliersViewModel.ts, ProgramsViewModel.ts).                          *)
BoxTellsList == Lists!BoxTellsList

(* No panel stays locked: a review, a story sent or a topic's change ends, *)
(* whatever becomes of its calls (SupplierCandidatesPanelViewModel.ts,     *)
(* CuratorIngestViewModel.ts, TopicGovernanceViewModel.ts).                *)
PanelsUnlock == Forms!DeskUnlocks /\ Governance!ChangeEnds

(* However loads, redraws and answers fall, the column holds one thing, of *)
(* the tab that is chosen, and a panel whose list came undisturbed shows   *)
(* what the server holds (MainFeedRouter.ts, main.ts,                      *)
(* SupplierCandidatesPanelViewModel.ts, TopicGovernanceViewModel.ts).      *)
ColumnIsTrue == Tabs!OneThingShown /\ Forms!CandidatesShown /\ Governance!QueueIsTrue

(* What the configurations keep to.                                        *)
ReadingAssumption ==
  /\ Tabs!RouteAssumption /\ Graph!GraphViewAssumption /\ Lists!ExplorerAssumption
  /\ Forms!DeskCallsAssumption
  /\ Governance!DeskCallsAssumption /\ Governance!TopicDeskAssumption
ASSUME ReadingAssumed == ReadingAssumption

(***************************************************************************)
(* The values.  Two tabs need code of their own, one chunk of it shared.   *)
(* Three names stand in a row in the graph, the second link seen later     *)
(* than the first.  A programme and two suppliers; a text typed with a     *)
(* blank after it.  Five queues, two of them of the same candidate.        *)
(***************************************************************************)
ChunksOf == "stories" :> {} @@ "programs" :> {"programsVm", "suppliersVm", "programsView"}
            @@ "suppliers" :> {"suppliersVm", "suppliersView"}

Categories == "n1" :> "platform" @@ "n2" :> "threat" @@ "n3" :> "threat"
EndsOf == "l12" :> {"n1", "n2"} @@ "l23" :> {"n2", "n3"}
SeenOn == "l12" :> <<0, 1>> @@ "l23" :> <<1, 2>>
LinksAround == Nothing :> {"l12", "l23"} @@ "n1" :> {"l12"}

TiersOf == "p1" :> [tier |-> {"two"}] @@ "s1" :> [tier |-> {"one"}] @@ "s2" :> [tier |-> {"two"}]
Trimmed == "" :> "" @@ "a" :> "a" @@ "a " :> "a"
TextsOf == "p1" :> {""} @@ "s1" :> {"", "a"} @@ "s2" :> {""}
MentionsOf == "story" :> {"p1", "s1"}

QueuedRows == [pendingCandidates |-> {"c1"}, nearDuplicateCandidates |-> {"c1"},
               provisionalTopics |-> {"t1"}, aliasCollisions |-> {},
               assignmentDisagreements |-> {"d1", "d2"}]
DetailsOf == [pendingCandidates |-> "evidence", nearDuplicateCandidates |-> "evidence",
              provisionalTopics |-> "independence", aliasCollisions |-> Nothing,
              assignmentDisagreements |-> "diff"]
=============================================================================
