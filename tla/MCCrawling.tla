----------------------------- MODULE MCCrawling -----------------------------
(***************************************************************************)
(* One crawl's parts on small instances, in the order a crawl runs them:   *)
(* its feeds, its stories and their briefs, what it harvests for the next  *)
(* crawl, the graph, and the suppliers and patterns curators review.  They *)
(* hand each other values and share no variable, so a behaviour is of one  *)
(* part, and the others rest where they began.                             *)
(***************************************************************************)
EXTENDS Enrichment, Patterns, Sequences, TLC

CONSTANTS
  Nothing,
  Feed, Item, Order, Body, Trait, SocialFeed, Expert,                \* FeedReading
  Parliament, Unsafe, BatchSize, Threshold, Cooldown,
  Report, Feeds, Carried, Post, Authority, Likenesses, Ages,         \* Crawl
  Snapshots, Decisions, Keyed, MaxClusters, MaxAttempts,
  Name, Domain, Digests, MinMentions, MinSources, MaxCrawls,         \* Harvest
  Story, Node, Edge, Ends, Names, Tells, Category, MaxWeight,        \* Graph
  Limit,
  Pair, Listed, OnFile, Reviewer, MaxMentions, MaxDrafts,            \* Suppliers
  MaxReviews

VARIABLES
  part,       \* the component this behaviour is of
  \* FeedReading
  breaker, shelf, up, queue, pending, handed,
  \* Crawl
  stage, fetched, wire, alike, groups, placed, stories, decided, rowsRead, homepage,
  attempts, turn, circuitOpen,
  \* Harvest
  discovered, reputation, entitySync, sourceSync, crawls, known, acked,
  \* Graph
  nodes, weight, told, unsent, missed, reader,
  \* Suppliers
  candidate, links, review, drafts, reviews

Reading == INSTANCE FeedReading WITH
  Article <- Item, Social <- SocialFeed, NoTag <- Nothing
Homepage == INSTANCE Crawl WITH
  Article <- Report, Items <- Carried, Social <- Post
Credits == INSTANCE Harvest WITH NoRow <- Nothing
Links == INSTANCE Graph
Directory == INSTANCE Suppliers WITH NoPair <- Nothing

feedsVars == <<breaker, shelf, up, queue, pending, handed>>
storiesVars == <<stage, fetched, wire, alike, groups, placed, stories, decided, rowsRead, homepage,
    attempts, turn, circuitOpen>>
harvestVars == <<discovered, reputation, entitySync, sourceSync, crawls, known, acked>>
graphVars == <<nodes, weight, told, unsent, missed, reader>>
directoryVars == <<candidate, links, review, drafts, reviews>>

vars == <<part,
  feedsVars, storiesVars, enrichVars, harvestVars, graphVars, directoryVars, patternVars>>

-----------------------------------------------------------------------------
(* A step of one component: it is the one looked at, and the others stay.  *)
OnlyFeeds == part = "feeds" /\ UNCHANGED <<part,
  storiesVars, enrichVars, harvestVars, graphVars, directoryVars, patternVars>>
OnlyStories == part = "stories" /\ UNCHANGED <<part,
  feedsVars, enrichVars, harvestVars, graphVars, directoryVars, patternVars>>
OnlyBriefs == part = "briefs" /\ UNCHANGED <<part,
  feedsVars, storiesVars, harvestVars, graphVars, directoryVars, patternVars>>
OnlyHarvest == part = "harvest" /\ UNCHANGED <<part,
  feedsVars, storiesVars, enrichVars, graphVars, directoryVars, patternVars>>
OnlyGraph == part = "graph" /\ UNCHANGED <<part,
  feedsVars, storiesVars, enrichVars, harvestVars, directoryVars, patternVars>>
OnlyDirectory == part = "directory" /\ UNCHANGED <<part,
  feedsVars, storiesVars, enrichVars, harvestVars, graphVars, patternVars>>
OnlyDetected == part = "patterns" /\ UNCHANGED <<part,
  feedsVars, storiesVars, enrichVars, harvestVars, graphVars, directoryVars>>

FeedsSteps ==
  \/ OnlyFeeds /\ Reading!StartCrawl
  \/ OnlyFeeds /\ Reading!AskBatch
  \/ OnlyFeeds /\ Reading!Wait
  \/ OnlyFeeds /\ Reading!Restart
  \/ \E f \in Feed : OnlyFeeds /\ Reading!Unchanged(f)
  \/ \E f \in Feed : OnlyFeeds /\ Reading!Read(f)
  \/ \E f \in Feed : OnlyFeeds /\ Reading!TooLong(f)
  \/ \E f \in Feed : OnlyFeeds /\ Reading!Fails(f)
  \/ \E f \in Feed : OnlyFeeds /\ Reading!Publish(f)
  \/ \E f \in Feed : OnlyFeeds /\ Reading!Turn(f)

StoriesSteps ==
  \/ OnlyStories /\ Homepage!Begin
  \/ OnlyStories /\ Homepage!Fetch
  \/ OnlyStories /\ Homepage!Bail
  \/ OnlyStories /\ Homepage!Gather
  \/ OnlyStories /\ Homepage!Group
  \/ OnlyStories /\ Homepage!Rank
  \/ OnlyStories /\ Homepage!Lock
  \/ OnlyStories /\ Homepage!Overlay
  \/ OnlyStories /\ Homepage!OverlayUnread
  \/ OnlyStories /\ Homepage!GeminiRefuses
  \/ OnlyStories /\ Homepage!GeminiFails
  \/ OnlyStories /\ Homepage!GeminiGarbles
  \/ OnlyStories /\ Homepage!GeminiBriefs
  \/ OnlyStories /\ Homepage!WorkersBriefs
  \/ OnlyStories /\ Homepage!WorkersFails
  \/ OnlyStories /\ Homepage!Extract
  \/ OnlyStories /\ Homepage!Publish
  \/ OnlyStories /\ Homepage!Exit

BriefsSteps ==
  \/ OnlyBriefs /\ Need
  \/ OnlyBriefs /\ Recall
  \/ OnlyBriefs /\ GeminiAnswers
  \/ OnlyBriefs /\ GeminiIsCorrected
  \/ OnlyBriefs /\ GeminiErrs
  \/ OnlyBriefs /\ GeminiIsSkipped
  \/ OnlyBriefs /\ RecallWorkers
  \/ OnlyBriefs /\ WorkersAnswers
  \/ OnlyBriefs /\ FallBack
  \/ OnlyBriefs /\ NewProcess

HarvestSteps ==
  \/ \E digest \in Digests : OnlyHarvest /\ Credits!Count(digest)
  \/ \E e \in entitySync, applied \in BOOLEAN : OnlyHarvest /\ Credits!WriteEntity(e, applied)
  \/ \E u \in sourceSync, applied, answered \in BOOLEAN : OnlyHarvest /\ Credits!WriteSource(u, applied, answered)
  \/ OnlyHarvest /\ Credits!Die

GraphSteps ==
  \/ OnlyGraph /\ Links!ExtractTriplets
  \/ \E n \in Node : OnlyGraph /\ Links!WriteNode(n)
  \/ \E n \in Node : OnlyGraph /\ Links!MissNode(n)
  \/ \E e \in Edge : OnlyGraph /\ Links!WriteEdge(e)
  \/ \E e \in Edge : OnlyGraph /\ Links!RefuseEdge(e)
  \/ \E e \in Edge : OnlyGraph /\ Links!MissEdge(e)
  \/ \E n \in Node, f \in {"all"} \cup {Category[m] : m \in Node} : OnlyGraph /\ Links!ReadCenter(n, f)
  \/ OnlyGraph /\ Links!Hop1
  \/ OnlyGraph /\ Links!Hop2
  \/ OnlyGraph /\ Links!ReadNodes
  \/ OnlyGraph /\ Links!Leave

DirectorySteps ==
  \/ \E p \in Pair, n \in 1..MaxMentions : OnlyDirectory /\ Directory!Draft(p, n)
  \/ \E r \in Reviewer, p \in Pair, verdict \in {"approved", "rejected"} : OnlyDirectory /\ Directory!Consider(r, p, verdict)
  \/ \E r \in Reviewer : OnlyDirectory /\ Directory!ReadTier(r)
  \/ \E r \in Reviewer : OnlyDirectory /\ Directory!WriteLink(r)
  \/ \E r \in Reviewer : OnlyDirectory /\ Directory!WriteStatus(r)
  \/ \E r \in Reviewer : OnlyDirectory /\ Directory!Abandon(r)

DetectedSteps ==
  \/ \E p \in Pattern, g, w \in EngineAnswer : OnlyDetected /\ Detect(p, g, w)
  \/ \E c \in Curator, f \in {"all", "draft", "approved", "rejected"} : OnlyDetected /\ List(c, f)
  \/ \E c \in Curator, p \in Pattern, a \in {"approve", "reject", "edit"} : OnlyDetected /\ Ask(c, p, a)
  \/ \E c \in Curator : OnlyDetected /\ Review(c)
  \/ \E c \in Curator : OnlyDetected /\ ReviewLost(c)

Next ==
  \/ FeedsSteps
  \/ StoriesSteps
  \/ BriefsSteps
  \/ HarvestSteps
  \/ GraphSteps
  \/ DirectorySteps
  \/ DetectedSteps

Init ==
  /\ part \in {"feeds", "stories", "briefs", "harvest", "graph", "directory", "patterns"}
  /\ Reading!FeedInit
  /\ part # "feeds" => shelf = [f \in Feed |-> IF f = "wire" THEN {"a1"} ELSE {}]
  /\ Homepage!CrawlInit
  /\ EnrichInit
  /\ part # "briefs" => platform = FALSE
  /\ Credits!HarvestInit
  /\ Links!GraphInit
  /\ Directory!SupplierInit
  /\ PatternInit

(* What the parts' own specifications assume, of the part looked at.       *)
Fairness ==
  /\ WF_feedsVars(part = "feeds" /\ Reading!StartCrawl) /\ WF_feedsVars(part = "feeds" /\ Reading!AskBatch)
  /\ SF_feedsVars(part = "feeds" /\ Reading!Wait)
  /\ \A f \in Feed : WF_feedsVars(part = "feeds" /\ Reading!Answered(f))
  /\ WF_storiesVars(part = "stories" /\ Homepage!CrawlStep)

Spec == Init /\ [][Next]_vars /\ Fairness

-----------------------------------------------------------------------------
(* A feed that answers from some moment on is out of quarantine again and  *)
(* again, however it failed before (fowlerCircuitBreaker.ts:60).           *)
QuarantineEnds == part = "feeds" => Reading!QuarantineEnds

(* The stories of a crawl: a 304 loses nothing a former crawl of this      *)
(* process did not read; every report is told once; every story of the     *)
(* homepage is briefed, none twice, and none a curator deleted, whatever   *)
(* the snapshot put back (fowlerCircuitBreaker.ts, clusterEngine.ts,       *)
(* ingest.ts, curatorOverrideSync.ts).                                     *)
StoriesAreSound ==
  Reading!UnchangedWasRead /\ Homepage!EveryArticleOnce /\ Homepage!HomepageIsSound

(* A crawl ends, whatever the feeds and the models answer.                 *)
CrawlEnds == Homepage!CrawlEnds

(* A promotion survives the crawl (curatorOverrideSync.ts:8-9).            *)
PromotedStays == Homepage!PromotedStays

(* The rows a crawl adds to are true though its writes fail one by one: a  *)
(* stored promotion was earned in the crawl that wrote it, and a publisher *)
(* is credited once for each crawl; a pass whose calls succeed leaves all  *)
(* the homepage tells in the graph, and an answer read meanwhile holds     *)
(* both ends of its edges; an approved supplier is in the directory,       *)
(* wherever its review stopped (entityHarvester.ts, sourceTracker.ts,      *)
(* graphSync.ts, graphQueryHandler.ts, curatorSupplierCandidateHandler.ts). *)
RowsAreTrue ==
  /\ Credits!PromotionIsEarned /\ Credits!CreditedOnce
  /\ Links!GraphHoldsHomepage /\ Links!AnswerIsClosed
  /\ Directory!ApprovedIsLinked

(* What the configurations keep to.                                        *)
CrawlingAssumption ==
  /\ Reading!FeedAssumption /\ Homepage!CrawlAssumption /\ EnrichmentAssumption
  /\ Credits!HarvestAssumption /\ Links!GraphAssumption /\ Directory!SupplierAssumption
ASSUME CrawlingAssumed == CrawlingAssumption

(***************************************************************************)
(* The values.                                                             *)
(***************************************************************************)
(* Two feeds, one of them Parliament's, whose items carry no link.         *)
Bodies == "wire" :> {{"a1"}, {"a1", "a2"}} @@ "sansad" :> {{"a3"}, {}}
Traits == "a1" :> {"keyword"} @@ "a2" :> {"entity"} @@ "a3" :> {"unlinked"}
AskedInTurn == <<"wire", "sansad">>

(* Three reports and a post over three feeds, one address in two of them;  *)
(* homepages found on disk and rows of curator_overrides.                  *)
FeedsInTurn == <<"f1", "f2", "f3">>
ItemsOf == "f1" :> <<"p", "q">> @@ "f2" :> <<"q", "post">> @@ "f3" :> <<"r">>
Authorities == "p" :> 1 @@ "q" :> 3 @@ "r" :> 2 @@ "post" :> 4
Resemblances == {{{"p", "q"}}, {{"p", "r"}, {"q", "r"}}, {{"q", "post"}, {"post", "r"}}, {{"p", "post"}}}
AgesOf == {{}, {"q"}, Report}
Found(a, mark) == [id |-> a, mark |-> mark, briefed |-> TRUE]
OnDiskHomepages == {<<Found("p", "none")>>, <<Found("q", "none"), Found("p", "promote")>>,
                    <<Found("r", "ignore"), Found("q", "promote")>>}
NoRows == [a \in Report |-> "none"]
RowsFound == {NoRows} \cup {[NoRows EXCEPT ![a] = d] : a \in {"p", "q"}, d \in {"promote", "delete"}}
             \cup {[NoRows EXCEPT !["r"] = "ignore"], [NoRows EXCEPT !["q"] = "demote"]}

(* Three crawls' findings about two names and two publishers.              *)
ToldOf(names, by, others, first) == [names |-> names, primary |-> by, related |-> others, first |-> first]
Findings == {
  [raw |-> <<"wire", "wire", "daily">>, fresh |-> <<"wire", "daily">>,
   stories |-> <<ToldOf({"amca"}, "wire", {"daily"}, "daily"), ToldOf({"amca", "kusha"}, "wire", {}, "wire")>>],
  [raw |-> <<"wire", "daily", "daily">>, fresh |-> <<"wire", "daily", "daily">>,
   stories |-> <<ToldOf({"amca"}, "wire", {}, "wire"), ToldOf({"amca"}, "daily", {"wire"}, "daily"),
                 ToldOf({"amca", "kusha"}, "daily", {}, "daily")>>],
  [raw |-> <<"daily">>, fresh |-> <<"daily">>,
   stories |-> <<ToldOf({"kusha", "amca"}, "daily", {}, "daily"), ToldOf({"kusha"}, "daily", {}, "daily"),
                 ToldOf({"kusha"}, "daily", {}, "daily")>>] }

(* Three names in a row.                                                   *)
EndsOf == "e12" :> {"n1", "n2"} @@ "e23" :> {"n2", "n3"}
NamesIn == "g1" :> {"n1", "n2"} @@ "g2" :> {"n1", "n2", "n3"}
LinksIn == "g1" :> {"e12"} @@ "g2" :> {"e12", "e23"}
CategoryOf == "n1" :> "platform" @@ "n2" :> "platform" @@ "n3" :> "facility"
=============================================================================
