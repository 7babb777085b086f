------------------------------ MODULE MCServing -----------------------------
(***************************************************************************)
(* What readers and curators are answered and shown, part by part: the     *)
(* edge's copies, sessions and the rate limit, the lists read page by      *)
(* page, and the dialogs, panels and offline shell of the browser.  The    *)
(* parts share no variable, so a behaviour is of one of them and the       *)
(* others rest where they began.                                           *)
(***************************************************************************)
EXTENDS Access, TLC

CONSTANTS
  Nothing,
  EdgePasses, EdgeChanges, EdgePurges, EdgeCalls,              \* Edge
  Archived, Query, Browse, Matches, Unreadable,                \* ArchivePages
  ArchivePage, ArchiveClock, ArchiveSearches,
  Cluster, MaxDate, MaxStamp, MaxEvents, TopicPage,            \* TopicPages
  Single, Several, MaxElements,                                \* Modals
  Builds, MaxDeploys, MaxVisits, MaxOutages,                   \* Offline
  Thread, Subject, Called, ThreadPage, MaxGrowth, MaxReads,    \* ThreadView
  Story, Body, MaxPatterns,                                    \* StoryColumn
  Hypothesis, PatternAsk, PatternPresses,                      \* PatternDesk
  Table, FirstTable, Column, Sortable, DefaultSort, Filter,    \* KnowledgeDesk
  RowsOfPage, MaxRows, TableAsk, TablePresses

VARIABLES
  part,       \* the component this behaviour is of
  \* Edge
  address, edgeNow, passes, version, replacedAt, copy, feedCopy, edgeCalls, edgeShown, purges,
  floor,
  \* ArchivePages
  archiveClock, archivedAt, query, listed, cursor, loading, loadingMore, failed, searches,
  searchesAsked, lastSearch, overtaken,
  \* TopicPages
  date, stamp, elsewhere, registry, events, step, topicCursor, topicFound, times, standing,
  \* Modals
  kind, stack, inPage, leaving, bodyLocked, deskOpen, drawing, signedIn,
  \* Offline
  deployed, online, worker, indexPage, rootPage, cachedChunk, page, store, banner, fading,
  prompt, invited, deploys, visits, outages, brokenAgain,
  \* ThreadView
  rows, filter, list, chosen, heading, timeline, listing, telling, dialog, reads,
  \* StoryColumn: drawers
  cards, expanded, drawn, told, frame, link,
  \* StoryColumn: banner
  chunk, fetching, carousel, container, bannerPending, banners,
  \* PatternDesk
  verdict, wording, shelf, pill, waiting, editing, draft, patternAsks, patternPresses,
  patternSettled,
  \* KnowledgeDesk
  matching, question, answer, asking, knowledgeFailed, overlapped, knowledgeAsks,
  knowledgePresses, knowledgeSettled

Cache == INSTANCE Edge WITH
  MaxPasses <- EdgePasses, MaxChanges <- EdgeChanges, MaxPurges <- EdgePurges,
  MaxCalls <- EdgeCalls, now <- edgeNow, calls <- edgeCalls, shown <- edgeShown
Archive == INSTANCE ArchivePages WITH
  Story <- Archived, PageSize <- ArchivePage, MaxClock <- ArchiveClock,
  MaxCalls <- ArchiveSearches, clock <- archiveClock, calls <- searches, asked <- searchesAsked
Topics == INSTANCE TopicPages WITH
  Limit <- TopicPage, cursor <- topicCursor, found <- topicFound
Dialogs == INSTANCE Modals
Shell == INSTANCE Offline
Threads == INSTANCE ThreadView WITH PageSize <- ThreadPage, None <- Nothing
Stories == INSTANCE StoryColumn WITH NoLink <- Nothing, pending <- bannerPending
PatternPanel == INSTANCE PatternDesk WITH
  Ask <- PatternAsk, MaxPresses <- PatternPresses, Nil <- Nothing,
  asks <- patternAsks, presses <- patternPresses, settled <- patternSettled
KnowledgePanel == INSTANCE KnowledgeDesk WITH
  Ask <- TableAsk, MaxPresses <- TablePresses, Nil <- Nothing,
  failed <- knowledgeFailed, asks <- knowledgeAsks, presses <- knowledgePresses,
  settled <- knowledgeSettled

edgeVars == <<address, edgeNow, passes, version, replacedAt, copy, feedCopy, edgeCalls, edgeShown,
    purges, floor>>
archiveVars == <<archiveClock, archivedAt, query, listed, cursor, loading, loadingMore, failed,
    searches, searchesAsked, lastSearch, overtaken>>
topicsVars == <<date, stamp, elsewhere, registry, events, step, topicCursor, topicFound, times,
    standing>>
dialogsVars == <<kind, stack, inPage, leaving, bodyLocked, deskOpen, drawing, signedIn>>
shellVars == <<deployed, online, worker, indexPage, rootPage, cachedChunk, page, store, banner,
    fading, prompt, invited, deploys, visits, outages, brokenAgain>>
threadsVars == <<rows, filter, list, chosen, heading, timeline, listing, telling, dialog, reads>>
drawersVars == <<cards, expanded, drawn, told, frame, link>>
bannerVars == <<chunk, fetching, carousel, container, bannerPending, banners>>
patternsVars == <<verdict, wording, shelf, pill, waiting, editing, draft, patternAsks, patternPresses,
    patternSettled>>
knowledgeVars == <<matching, question, answer, asking, knowledgeFailed, overlapped, knowledgeAsks,
    knowledgePresses, knowledgeSettled>>

vars == <<part,
  edgeVars, accessVars, rateVars, archiveVars, topicsVars, dialogsVars, shellVars,
  threadsVars, drawersVars, bannerVars, patternsVars, knowledgeVars>>

-----------------------------------------------------------------------------
(* A step of one component: it is the one looked at, and the others stay.  *)
OnlyEdge == part = "edge" /\ UNCHANGED <<part,
  accessVars, rateVars, archiveVars, topicsVars, dialogsVars, shellVars, threadsVars,
  drawersVars, bannerVars, patternsVars, knowledgeVars>>
OnlyAccess == part = "access" /\ UNCHANGED <<part,
  edgeVars, rateVars, archiveVars, topicsVars, dialogsVars, shellVars, threadsVars,
  drawersVars, bannerVars, patternsVars, knowledgeVars>>
OnlyLimiter == part = "limiter" /\ UNCHANGED <<part,
  edgeVars, accessVars, archiveVars, topicsVars, dialogsVars, shellVars, threadsVars,
  drawersVars, bannerVars, patternsVars, knowledgeVars>>
OnlyArchive == part = "archive" /\ UNCHANGED <<part,
  edgeVars, accessVars, rateVars, topicsVars, dialogsVars, shellVars, threadsVars,
  drawersVars, bannerVars, patternsVars, knowledgeVars>>
OnlyTopics == part = "topics" /\ UNCHANGED <<part,
  edgeVars, accessVars, rateVars, archiveVars, dialogsVars, shellVars, threadsVars,
  drawersVars, bannerVars, patternsVars, knowledgeVars>>
OnlyDialogs == part = "dialogs" /\ UNCHANGED <<part,
  edgeVars, accessVars, rateVars, archiveVars, topicsVars, shellVars, threadsVars,
  drawersVars, bannerVars, patternsVars, knowledgeVars>>
OnlyShell == part = "shell" /\ UNCHANGED <<part,
  edgeVars, accessVars, rateVars, archiveVars, topicsVars, dialogsVars, threadsVars,
  drawersVars, bannerVars, patternsVars, knowledgeVars>>
OnlyThreads == part = "threads" /\ UNCHANGED <<part,
  edgeVars, accessVars, rateVars, archiveVars, topicsVars, dialogsVars, shellVars,
  drawersVars, bannerVars, patternsVars, knowledgeVars>>
OnlyDrawers == part = "drawers" /\ UNCHANGED <<part,
  edgeVars, accessVars, rateVars, archiveVars, topicsVars, dialogsVars, shellVars,
  threadsVars, bannerVars, patternsVars, knowledgeVars>>
OnlyBanner == part = "banner" /\ UNCHANGED <<part,
  edgeVars, accessVars, rateVars, archiveVars, topicsVars, dialogsVars, shellVars,
  threadsVars, drawersVars, patternsVars, knowledgeVars>>
OnlyPatterns == part = "patterns" /\ UNCHANGED <<part,
  edgeVars, accessVars, rateVars, archiveVars, topicsVars, dialogsVars, shellVars,
  threadsVars, drawersVars, bannerVars, knowledgeVars>>
OnlyKnowledge == part = "knowledge" /\ UNCHANGED <<part,
  edgeVars, accessVars, rateVars, archiveVars, topicsVars, dialogsVars, shellVars,
  threadsVars, drawersVars, bannerVars, patternsVars>>

EdgeSteps ==
  \/ \E s \in Cache!Lengths : OnlyEdge /\ Cache!Pass(s)
  \/ OnlyEdge /\ Cache!Change
  \/ OnlyEdge /\ Cache!Hit
  \/ OnlyEdge /\ Cache!StaleHit
  \/ OnlyEdge /\ Cache!Miss
  \/ \E c \in edgeCalls : OnlyEdge /\ Cache!Read(c)
  \/ \E c \in edgeCalls : OnlyEdge /\ Cache!ReadFeedCopy(c)
  \/ \E c \in edgeCalls : OnlyEdge /\ Cache!ReadFeed(c)
  \/ \E c \in edgeCalls : OnlyEdge /\ Cache!Respond(c)
  \/ \E c \in edgeCalls : OnlyEdge /\ Cache!Fail(c)
  \/ OnlyEdge /\ Cache!PurgeList
  \/ OnlyEdge /\ Cache!PurgeFeed
  \/ \E p, f \in BOOLEAN : OnlyEdge /\ Cache!PurgeNamed(p, f)

AccessSteps ==
  \/ OnlyAccess /\ Day
  \/ OnlyAccess /\ RaiseEpoch
  \/ OnlyAccess /\ Rotate
  \/ OnlyAccess /\ DropSecret
  \/ OnlyAccess /\ SignIn
  \/ OnlyAccess /\ Redirect
  \/ OnlyAccess /\ SignedIn
  \/ OnlyAccess /\ CheckSession
  \/ OnlyAccess /\ Lock
  \/ \E e \in DeskEndpoint, whole \in BOOLEAN : OnlyAccess /\ Act(e, whole)
  \/ \E e \in {Passcode, PasscodeOfTheDay}, right \in BOOLEAN :
       OnlyAccess /\ LogIn(e, right)
  \/ \E c \in calls : OnlyAccess /\ CheckPasscode(c)
  \/ \E c \in calls : OnlyAccess /\ LoggedIn(c)
  \/ \E c \in calls : OnlyAccess /\ Serve(c)
  \/ \E c \in calls : OnlyAccess /\ SessionAnswered(c)
  \/ \E c \in calls : OnlyAccess /\ LockAnswered(c)
  \/ \E c \in calls : OnlyAccess /\ ActAnswered(c)
  \/ \E c \in calls : OnlyAccess /\ CallLost(c)

LimiterSteps ==
  \/ \E c \in Caller : OnlyLimiter /\ LetThrough(c)
  \/ \E c \in Caller : OnlyLimiter /\ TurnAway(c)
  \/ OnlyLimiter /\ Tick

ArchiveSteps ==
  \/ \E xs \in SUBSET Archived : OnlyArchive /\ Archive!ArchiveBatch(xs)
  \/ \E x \in Archived : OnlyArchive /\ Archive!Return(x)
  \/ \E q \in Query : OnlyArchive /\ Archive!Search(q)
  \/ OnlyArchive /\ Archive!LoadMore
  \/ \E call \in searches : OnlyArchive /\ Archive!SearchAnswered(call)
  \/ \E call \in searches : OnlyArchive /\ Archive!MoreAnswered(call)
  \/ \E call \in searches : OnlyArchive /\ Archive!SearchFails(call)
  \/ \E call \in searches : OnlyArchive /\ Archive!MoreFails(call)

TopicsSteps ==
  \/ \E c \in Cluster, d \in 1..MaxDate, t \in 1..MaxStamp : OnlyTopics /\ Topics!Assign(c, d, t)
  \/ \E c \in Cluster : OnlyTopics /\ Topics!TakeOut(c)
  \/ \E c \in Cluster, d \in 1..MaxDate : OnlyTopics /\ Topics!Redate(c, d)
  \/ \E t \in 1..MaxStamp : OnlyTopics /\ Topics!AssignElsewhere(t)
  \/ OnlyTopics /\ Topics!Govern
  \/ OnlyTopics /\ Topics!ComeIn
  \/ OnlyTopics /\ Topics!MorePlease
  \/ OnlyTopics /\ Topics!Resolve
  \/ OnlyTopics /\ Topics!Refused
  \/ OnlyTopics /\ Topics!Failed
  \/ OnlyTopics /\ Topics!ReadRows
  \/ OnlyTopics /\ Topics!GoAway

DialogsSteps ==
  \/ \E k \in Single \cup Several : OnlyDialogs /\ Dialogs!OpenDossier(k)
  \/ \E e \in Dialogs!Element : OnlyDialogs /\ Dialogs!CloseButton(e)
  \/ \E in \in BOOLEAN : OnlyDialogs /\ Dialogs!DeskChanges(in)
  \/ OnlyDialogs /\ Dialogs!OpenDesk
  \/ OnlyDialogs /\ Dialogs!DrawSignIn
  \/ OnlyDialogs /\ Dialogs!DrawDesk
  \/ OnlyDialogs /\ Dialogs!CloseDesk
  \/ OnlyDialogs /\ Dialogs!Toggle
  \/ OnlyDialogs /\ Dialogs!EscapeDialog
  \/ OnlyDialogs /\ Dialogs!EscapeDesk
  \/ \E e \in Dialogs!Element : OnlyDialogs /\ Dialogs!Leave(e)

ShellSteps ==
  \/ \E b \in Shell!Build : OnlyShell /\ Shell!Deploy(b)
  \/ OnlyShell /\ Shell!VisitOnline
  \/ OnlyShell /\ Shell!VisitOffline
  \/ OnlyShell /\ Shell!LoadChunk
  \/ OnlyShell /\ Shell!Hydrate
  \/ OnlyShell /\ Shell!HydrateOffline
  \/ OnlyShell /\ Shell!Prune
  \/ OnlyShell /\ Shell!GoOffline
  \/ OnlyShell /\ Shell!GoOnline
  \/ OnlyShell /\ Shell!Fade
  \/ OnlyShell /\ Shell!Invite
  \/ OnlyShell /\ Shell!Dismiss
  \/ OnlyShell /\ Shell!Answered

ThreadsSteps ==
  \/ \E t \in Thread : OnlyThreads /\ Threads!Grow(t)
  \/ OnlyThreads /\ Threads!DrawTab
  \/ OnlyThreads /\ Threads!SetStatusFilter
  \/ \E f \in Threads!ThreadFilter : OnlyThreads /\ Threads!ListComes(f)
  \/ \E f \in Threads!ThreadFilter : OnlyThreads /\ Threads!ListFails(f)
  \/ \E t \in Thread : OnlyThreads /\ Threads!Click(t)
  \/ \E t \in Thread : OnlyThreads /\ Threads!DetailComes(t)
  \/ \E t \in Thread : OnlyThreads /\ Threads!DetailFails(t)
  \/ \E s \in Subject : OnlyThreads /\ Threads!OpenDialog(s)
  \/ OnlyThreads /\ Threads!DialogComes
  \/ OnlyThreads /\ Threads!CloseDialog

DrawersSteps ==
  \/ \E among \in SUBSET Story : OnlyDrawers /\ Stories!ColumnChanges(among)
  \/ \E d \in Stories!Drawer : OnlyDrawers /\ Stories!ToggleDrawerOf(d)
  \/ \E d \in Stories!Drawer : OnlyDrawers /\ Stories!FollowLink(d)
  \/ OnlyDrawers /\ Stories!Scroll
  \/ OnlyDrawers /\ Stories!LinkArrives
  \/ \E out \in SUBSET drawn : OnlyDrawers /\ Stories!LookAt(out)

BannerSteps ==
  \/ \E h \in BOOLEAN : OnlyBanner /\ Stories!DrawColumn(h)
  \/ \E m \in {"vm", "view"} : OnlyBanner /\ Stories!ChunkComes(m)
  \/ \E m \in {"vm", "view"} : OnlyBanner /\ Stories!ChunkLost(m)
  \/ OnlyBanner /\ Stories!MountBanner
  \/ \E n \in 1..MaxPatterns : OnlyBanner /\ Stories!PatternsCome(n)
  \/ OnlyBanner /\ Stories!PatternsFail
  \/ \E by \in {-1, 1} : OnlyBanner /\ Stories!Turn(by)
  \/ OnlyBanner /\ Stories!ToggleDrawer
  \/ OnlyBanner /\ Stories!Dismiss

PatternsSteps ==
  \/ OnlyPatterns /\ PatternPanel!Refresh
  \/ \E f \in PatternPanel!Pill : OnlyPatterns /\ PatternPanel!SetFilter(f)
  \/ \E h \in Hypothesis : OnlyPatterns /\ PatternPanel!StartEditing(h)
  \/ OnlyPatterns /\ PatternPanel!CancelEditing
  \/ \E t \in Hypothesis \cup {Nothing} : OnlyPatterns /\ PatternPanel!Write(t)
  \/ \E h \in Hypothesis : OnlyPatterns /\ PatternPanel!SaveEdit(h)
  \/ \E h \in Hypothesis, k \in {"approve", "reject"} : OnlyPatterns /\ PatternPanel!Judge(h, k)
  \/ \E a \in PatternAsk : OnlyPatterns /\ PatternPanel!ServeList(a)
  \/ \E a \in PatternAsk : OnlyPatterns /\ PatternPanel!ServeReview(a)
  \/ \E a \in PatternAsk : OnlyPatterns /\ PatternPanel!ListAnswered(a)
  \/ \E a \in PatternAsk : OnlyPatterns /\ PatternPanel!ListFailed(a)
  \/ \E a \in PatternAsk : OnlyPatterns /\ PatternPanel!ReviewAnswered(a)
  \/ \E a \in PatternAsk : OnlyPatterns /\ PatternPanel!ReviewFailed(a)

KnowledgeSteps ==
  \/ \E t \in Table : OnlyKnowledge /\ KnowledgePanel!SetTable(t)
  \/ \E f \in Filter : OnlyKnowledge /\ KnowledgePanel!TypeFilter(f)
  \/ \E c \in Column : OnlyKnowledge /\ KnowledgePanel!SetSort(c)
  \/ OnlyKnowledge /\ KnowledgePanel!NextPage
  \/ OnlyKnowledge /\ KnowledgePanel!PrevPage
  \/ \E a \in TableAsk : OnlyKnowledge /\ KnowledgePanel!ServeTable(a)
  \/ \E t \in Table, f \in Filter : OnlyKnowledge /\ KnowledgePanel!RowsChange(t, f)
  \/ \E a \in TableAsk : OnlyKnowledge /\ KnowledgePanel!TableComes(a)
  \/ \E a \in TableAsk : OnlyKnowledge /\ KnowledgePanel!TableFails(a)

Next ==
  \/ EdgeSteps
  \/ AccessSteps
  \/ LimiterSteps
  \/ ArchiveSteps
  \/ TopicsSteps
  \/ DialogsSteps
  \/ ShellSteps
  \/ ThreadsSteps
  \/ DrawersSteps
  \/ BannerSteps
  \/ PatternsSteps
  \/ KnowledgeSteps

Init ==
  /\ part \in {"edge", "access", "limiter", "archive", "topics", "dialogs", "shell", "threads", "drawers", "banner", "patterns", "knowledge"}
  /\ Cache!EdgeInit
  /\ part # "edge" => address = CHOOSE a \in Cache!Address : TRUE
  /\ AccessInit
  /\ RateInit
  /\ Archive!ArchivePageInit
  /\ Topics!TopicPageInit
  /\ part # "topics" => date = [n \in Cluster |-> 0]
  /\ Dialogs!ModalInit
  /\ part # "dialogs" => signedIn = FALSE
  /\ Shell!OfflineInit
  /\ Threads!ThreadsViewInit
  /\ Stories!DrawersInit
  /\ Stories!BannerInit
  /\ PatternPanel!PatternDeskInit
  /\ part # "patterns" => verdict = [h \in Hypothesis |-> "draft"]
  /\ KnowledgePanel!KnowledgeInit
  /\ part # "knowledge" => matching = [t \in Table |-> [f \in Filter |-> 0]]

Spec == Init /\ [][Next]_vars

-----------------------------------------------------------------------------
(* What a read answers: at the edge nothing staler than its lifetimes let  *)
(* it be, nor older than a purge; in the archive one search's stories, and *)
(* in a topic each article that stood still, once.  (edgeCache.ts,         *)
(* ArchiveViewModel.ts, topicReadHandler.ts.)                              *)
ReadsAreTrue ==
  /\ Cache!StaleAtMost /\ Cache!PurgeIsSeen
  /\ Archive!ListIsOneSearch /\ Topics!StandingShownOnce

(* An Escape closes one thing, though two listeners hear it (main.ts:251,  *)
(* modalManager.ts).                                                       *)
OneKeyOneThing == Dialogs!OneKeyOneThing

(* The installed page: a wrong answer under a script's name breaks one     *)
(* visit, and its banners tell what they say (sw.js:87-106, main.ts).      *)
ShellIsTrue == Shell!BrokenOnce /\ Shell!BannersAreTrue

(* What is on screen is what its view model holds: the page scrolls unless *)
(* a dialog is open; drawers and their buttons agree; the banner shows the *)
(* pattern its dots point at; a timeline is its thread's; a panel's rows   *)
(* are those of its filter (modalManager.ts, summaryAutoCollapseService.ts,*)
(* PublicPatternViewModel.ts, ThreadExplorerViewModel.ts,                  *)
(* PatternReviewViewModel.ts, CuratorKnowledgeBaseViewModel.ts).           *)
ScreensAreTrue ==
  /\ Dialogs!LockFollowsStack /\ Stories!DrawersAgree /\ Stories!BannerIsTrue
  /\ Threads!TimelineIsItsThreads
  /\ PatternPanel!PatternDeskIsTrue /\ KnowledgePanel!KnowledgeDeskIsTrue

(* What the configurations keep to.                                        *)
ServingAssumption ==
  /\ Cache!EdgeAssumption /\ AccessAssumption /\ RateAssumption
  /\ Archive!ArchivePageAssumption /\ Topics!TopicPageAssumption
  /\ Shell!OfflineAssumption /\ Threads!ThreadViewAssumption
  /\ Stories!DrawerAssumption /\ Stories!BannerAssumption
  /\ PatternPanel!DeskCallsAssumption
  /\ KnowledgePanel!DeskCallsAssumption /\ KnowledgePanel!KnowledgeDeskAssumption
ASSUME ServingAssumed == ServingAssumption

(***************************************************************************)
(* The values.  A word of a search tells of two of three stories; two      *)
(* threads are of one subject; one of two stories has no sources to        *)
(* unfold.                                                                 *)
(***************************************************************************)
MatchesOf == "blank" :> {"b1", "b2", "b3"} @@ "word" :> {"b1", "b3"}
CalledBy == "s1" :> {"t1", "t2"}
Bodies == {<<"s1", "ssb">>, <<"s1", "sources">>, <<"s2", "ssb">>}
=============================================================================
