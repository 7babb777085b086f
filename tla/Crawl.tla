------------------------------- MODULE Crawl -------------------------------
(***************************************************************************)
(* One crawl, from the feeds to the homepage: feeds are fetched in         *)
(* batches, the articles grouped into stories, curators' decisions laid    *)
(* over them, every story briefed by a model or by the local extractor,    *)
(* and the first MaxClusters published.  What a crawl writes to the        *)
(* database on the way is in the other modules.                            *)
(*                                                                         *)
(* An article is its address; a story goes by its primary article, as in   *)
(* a crawl without the durable store, which renames it.  Texts are reduced *)
(* to which pairs of articles are similar, and scores to the order they    *)
(* give the stories: nothing after clusterArticles sorts by score.         *)
(***************************************************************************)
EXTENDS Integers, Sequences, FiniteSets, SequencesExt

CONSTANTS
  Article,
  Feeds,        \* a sequence of feeds
  Items,        \* [feed -> sequence of the relevant articles it carries]
  Social,       \* SUBSET Article: posts, not reports
  Authority,    \* [Article -> Nat], injective: by source tier, then by date
  Likenesses,   \* what may resemble what: sets of pairs {x, y}
  Ages,         \* what may be older than maxAgeHours: sets of articles
  Snapshots,    \* homepages a crawl may find on disk
  Decisions,    \* curator_overrides it may find: [Article -> kind of row]
  Keyed,        \* there is a Gemini key
  MaxClusters,  \* 30 in the code
  MaxAttempts   \* MAX_GEMINI_ATTEMPTS, 2

(* What the configurations keep to.                                        *)
CrawlAssumption ==
  /\ Len(Feeds) \in Nat /\ \A i \in 1..Len(Feeds) : Items[Feeds[i]] \in Seq(Article)
  /\ Authority \in [Article -> Nat] /\ MaxClusters \in Nat
  /\ Decisions \subseteq [Article -> {"none", "promote", "ignore", "demote", "delete"}]
  /\ \A s \in Snapshots :
       /\ s \in Seq([id : Article, mark : {"none", "promote", "ignore"}, briefed : BOOLEAN])
       /\ \A i, j \in DOMAIN s : s[i].id = s[j].id => i = j

VARIABLES
  stage,      \* what the crawl does next
  fetched,    \* feeds asked so far
  wire,       \* articles, in the order of the feeds
  alike, groups, placed,
  stories,    \* the stories, as sequences of [id, mark, briefed]
  decided,    \* the rows of curator_overrides
  rowsRead,   \* they were read
  homepage,   \* the committed snapshot
  attempts, turn, circuitOpen    \* the brief being asked for

crawlVars == <<stage, fetched, wire, alike, groups, placed, stories, decided,
               rowsRead, homepage, attempts, turn, circuitOpen>>

Undecided == [x \in Article |-> "none"]
Ids(s) == {s[i].id : i \in DOMAIN s}

CrawlInit ==
  /\ stage = "idle" /\ fetched = 0 /\ wire = <<>>
  /\ alike = {} /\ groups = <<>> /\ placed = 0
  /\ stories = <<>> /\ decided = Undecided /\ rowsRead = FALSE
  /\ homepage = <<>>
  /\ attempts = 0 /\ turn = "gemini" /\ circuitOpen = FALSE

(* A new process: the previous snapshot, the rows and the texts it finds.  *)
Begin ==
  /\ stage = "idle"
  /\ homepage' \in Snapshots \cup {homepage}
  /\ decided' \in Decisions
  /\ alike' \in Likenesses
  /\ stage' = "fetch"
  /\ fetched' = 0 /\ wire' = <<>>
  /\ stories' = <<>> /\ rowsRead' = FALSE
  /\ attempts' = 0 /\ turn' = "gemini" /\ circuitOpen' = FALSE
  /\ UNCHANGED <<groups, placed>>

(***************************************************************************)
(* Feeds.  A batch is waited for as a whole and its answers are taken in   *)
(* the order of the feeds, so that the feeds may as well be asked one by   *)
(* one; one that fails, times out or has not changed answers with nothing. *)
(***************************************************************************)
Answer(feed, answers) == IF answers THEN Items[feed] ELSE <<>>

Fetch ==
  /\ stage = "fetch" /\ fetched < Len(Feeds)
  /\ \E answers \in BOOLEAN : wire' = wire \o Answer(Feeds[fetched + 1], answers)
  /\ fetched' = fetched + 1
  /\ UNCHANGED <<stage, alike, groups, placed, stories, decided, rowsRead, homepage,
                 attempts, turn, circuitOpen>>

(* What a filter leaves of a sequence: the elements at some places of it.  *)
Nth(places, k) == CHOOSE i \in places : Cardinality({j \in places : j <= i}) = k
At(s, places) == [k \in 1..Cardinality(places) |-> s[Nth(places, k)]]

Unique(s) == At(s, {i \in DOMAIN s : \A j \in DOMAIN s : j < i => s[j] # s[i]})
Fresh(old) == At(wire, {i \in DOMAIN wire : wire[i] \notin old})

(* The commit guard: nothing found, or nothing fresh, leaves the snapshot. *)
Bail ==
  /\ stage = "fetch" /\ fetched = Len(Feeds)
  /\ \E old \in Ages : Fresh(old) = <<>>
  /\ stage' = "idle" /\ wire' = <<>> /\ alike' = {}
  /\ UNCHANGED <<fetched, groups, placed, stories, decided, rowsRead, homepage,
                 attempts, turn, circuitOpen>>

Gather ==
  /\ stage = "fetch" /\ fetched = Len(Feeds)
  /\ \E old \in Ages : Fresh(old) # <<>> /\ wire' = Unique(Fresh(old))
  /\ stage' = "group" /\ groups' = <<>> /\ placed' = 0
  /\ UNCHANGED <<fetched, alike, stories, decided, rowsRead, homepage,
                 attempts, turn, circuitOpen>>

(***************************************************************************)
(* clusterArticles.  An article joins the first group that holds one it    *)
(* resembles, and no other, or starts a group.                             *)
(***************************************************************************)
Resembles(x, group) == \E y \in group : {x, y} \in alike \/ x = y
Fits(x) == {i \in DOMAIN groups : Resembles(x, groups[i])}

(* Mutant: no break after the first group.                                 *)
JoinAll(x) == Fits(x)
Joined(x) == {i \in Fits(x) : \A j \in Fits(x) : i <= j}

Group ==
  /\ stage = "group" /\ placed < Len(wire)
  /\ LET x == wire[placed + 1]
     IN groups' = IF Joined(x) = {} THEN Append(groups, {x})
                  ELSE [i \in DOMAIN groups |-> IF i \in Joined(x) THEN groups[i] \cup {x}
                                                ELSE groups[i]]
  /\ placed' = placed + 1
  /\ UNCHANGED <<stage, fetched, wire, alike, stories, decided, rowsRead, homepage,
                 attempts, turn, circuitOpen>>

(* pickPrimarySource, among the reports; a group of posts alone is left to *)
(* the river.                                                              *)
Reports(group) == group \ Social
Primary(group) == CHOOSE x \in Reports(group) : \A y \in Reports(group) : Authority[y] <= Authority[x]
Covered == {i \in DOMAIN groups : Reports(groups[i]) # {}}

(* The stories in the order of their scores, which the texts decide.       *)
Rank ==
  /\ stage = "group" /\ placed = Len(wire)
  /\ \E order \in SetToSeqs(Covered) :
       stories' = [i \in DOMAIN order |->
                     [id |-> Primary(groups[order[i]]), mark |-> "none", briefed |-> FALSE]]
  /\ stage' = "lock" /\ alike' = {}
  /\ UNCHANGED <<fetched, wire, groups, placed, decided, rowsRead, homepage,
                 attempts, turn, circuitOpen>>

(***************************************************************************)
(* preserveCuratorOverrides: a story the snapshot marks keeps its mark and *)
(* its brief; one the crawl did not find is put back, promoted ones first, *)
(* the last of them foremost.  No story stands twice in a snapshot.        *)
(***************************************************************************)
Locked(s) == At(s, {i \in DOMAIN s : s[i].mark # "none"})

PutBack(s, locked, promoted) ==
  At(locked, {i \in DOMAIN locked : /\ locked[i].id \notin Ids(s)
                                    /\ (locked[i].mark = "promote") = promoted})

Remarked(t, locked) ==
  IF t.id \in Ids(locked)
  THEN LET l == CHOOSE i \in DOMAIN locked : locked[i].id = t.id
       IN [t EXCEPT !.mark = locked[l].mark, !.briefed = locked[l].briefed \/ t.briefed]
  ELSE t

Preserve(s, locked) ==
  Reverse(PutBack(s, locked, TRUE)) \o [i \in DOMAIN s |-> Remarked(s[i], locked)]
    \o PutBack(s, locked, FALSE)

Lock ==
  /\ stage = "lock"
  /\ stories' = Preserve(stories, Locked(homepage))
  /\ stage' = "overlay"
  /\ wire' = <<>> /\ groups' = <<>> /\ placed' = 0
  /\ UNCHANGED <<fetched, alike, decided, rowsRead, homepage, attempts, turn, circuitOpen>>

(***************************************************************************)
(* applyD1CuratorOverrides: deletions first, then each row over the story  *)
(* it names, where it stands.  A row carries the brief the curator saw.    *)
(***************************************************************************)
Undeleted(s) == At(s, {i \in DOMAIN s : decided[s[i].id] # "delete"})

Overruled(t) ==
  IF decided[t.id] \in {"none", "delete"} THEN t
  ELSE [id |-> t.id, briefed |-> TRUE,
        mark |-> IF decided[t.id] = "demote" THEN "none" ELSE decided[t.id]]

Overlay ==
  /\ stage = "overlay"
  /\ LET left == Undeleted(stories)
     IN stories' = [i \in DOMAIN left |-> Overruled(left[i])]
  /\ rowsRead' = TRUE
  /\ stage' = "brief"
  /\ UNCHANGED <<fetched, wire, alike, groups, placed, decided, homepage,
                 attempts, turn, circuitOpen>>

(* The read fails, and the snapshot's marks are all there is.              *)
OverlayUnread ==
  /\ stage = "overlay"
  /\ stage' = "brief"
  /\ UNCHANGED <<fetched, wire, alike, groups, placed, stories, decided, rowsRead, homepage,
                 attempts, turn, circuitOpen>>

(***************************************************************************)
(* Briefs, one story after another: Gemini, asked again only after an      *)
(* answer that does not parse or validate; then Workers AI, once; then the *)
(* local extractor, which always has one.  No two stories of a crawl have  *)
(* the same headline and address, so the caches of a new process miss.     *)
(***************************************************************************)
Unbriefed == {i \in DOMAIN stories : ~stories[i].briefed}
Current == CHOOSE i \in Unbriefed : \A j \in Unbriefed : i <= j

Briefing == stage = "brief" /\ Unbriefed # {}
BriefVars == <<stage, fetched, wire, alike, groups, placed, decided, rowsRead, homepage>>
Brief == stories' = [stories EXCEPT ![Current].briefed = TRUE]

Askable == Keyed /\ ~circuitOpen /\ turn = "gemini"

(* 401, 403, 404, 429: the rest of the run does without.                   *)
GeminiRefuses ==
  /\ Briefing /\ Askable
  /\ circuitOpen' = TRUE
  /\ attempts' = 0 /\ turn' = "workers"
  /\ UNCHANGED <<BriefVars, stories>>

GeminiFails ==
  /\ Briefing /\ Askable
  /\ attempts' = 0 /\ turn' = "workers"
  /\ UNCHANGED <<BriefVars, stories, circuitOpen>>

(* Mutant: asked until it parses.                                          *)
SecondTryAlways(n) == TRUE
SecondTry(n) == n + 1 < MaxAttempts

GeminiGarbles ==
  /\ Briefing /\ Askable
  /\ attempts' = IF SecondTry(attempts) THEN (attempts + 1) % MaxAttempts ELSE 0
  /\ turn' = IF SecondTry(attempts) THEN "gemini" ELSE "workers"
  /\ UNCHANGED <<BriefVars, stories, circuitOpen>>

GeminiBriefs ==
  /\ Briefing /\ Askable
  /\ Brief /\ attempts' = 0
  /\ UNCHANGED <<BriefVars, turn, circuitOpen>>

(* No answer, or one that does not validate, is not asked for again.       *)
WorkersBriefs ==
  /\ Briefing /\ ~Askable /\ turn # "extractor"
  /\ Brief /\ turn' = "gemini" /\ attempts' = 0
  /\ UNCHANGED <<BriefVars, circuitOpen>>

WorkersFails ==
  /\ Briefing /\ ~Askable /\ turn # "extractor"
  /\ turn' = "extractor"
  /\ UNCHANGED <<BriefVars, stories, attempts, circuitOpen>>

Extract ==
  /\ Briefing /\ turn = "extractor"
  /\ Brief /\ turn' = "gemini" /\ attempts' = 0
  /\ UNCHANGED <<BriefVars, circuitOpen>>

(* The first MaxClusters, ignored ones among them; an empty crawl publishes *)
(* the seeds, which are stories of no article here.                         *)
Cut(s) == SubSeq(s, 1, IF Len(s) < MaxClusters THEN Len(s) ELSE MaxClusters)

Publish ==
  /\ stage = "brief" /\ Unbriefed = {}
  /\ homepage' = Cut(stories)
  /\ stage' = "published"
  /\ UNCHANGED <<fetched, wire, alike, groups, placed, stories, decided, rowsRead,
                 attempts, turn, circuitOpen>>

Exit ==
  /\ stage = "published"
  /\ stage' = "idle" /\ stories' = <<>> /\ decided' = Undecided /\ rowsRead' = FALSE
  /\ circuitOpen' = FALSE /\ turn' = "gemini" /\ fetched' = 0
  /\ UNCHANGED <<wire, alike, groups, placed, homepage, attempts>>

CrawlStep ==
  \/ Fetch \/ Bail \/ Gather \/ Group \/ Rank \/ Lock \/ Overlay \/ OverlayUnread
  \/ GeminiRefuses \/ GeminiFails \/ GeminiGarbles \/ GeminiBriefs
  \/ WorkersBriefs \/ WorkersFails \/ Extract
  \/ Publish \/ Exit

CrawlNext == Begin \/ CrawlStep
CrawlSpec == CrawlInit /\ [][CrawlNext]_crawlVars /\ WF_crawlVars(CrawlStep)

-----------------------------------------------------------------------------
(* Every report of the crawl is told in exactly one story, its primary a   *)
(* report; a post tells none alone (clusterEngine.ts).                     *)
EveryArticleOnce ==
  stage = "lock" =>
    /\ \A x \in ToSet(wire) \ Social : Cardinality({i \in DOMAIN groups : x \in groups[i]}) = 1
    /\ Cardinality(Ids(stories)) = Len(stories)
    /\ Ids(stories) = {Primary(groups[i]) : i \in Covered}
    /\ Ids(stories) \cap Social = {}

(* What a crawl publishes has a brief for every story, no story twice, and *)
(* none a curator deleted if the decisions could be read, whatever the     *)
(* snapshot put back (ingest.ts, curatorOverrideSync.ts).                  *)
HomepageIsSound ==
  stage = "published" =>
    /\ \A i \in DOMAIN homepage : homepage[i].briefed
    /\ Cardinality(Ids(homepage)) = Len(homepage)
    /\ rowsRead => \A x \in Ids(homepage) : decided[x] # "delete"

(* A crawl ends, whatever the feeds and the models answer.                 *)
CrawlEnds == stage # "idle" ~> stage = "idle"

(* What the code promises and does not keep: a promotion survives the      *)
(* crawl (curatorOverrideSync.ts:8-9).  The raised score moves nothing.    *)
PromotedStays ==
  (stage = "published" /\ rowsRead) =>
    \A x \in Ids(stories) : decided[x] = "promote" => x \in Ids(homepage)
=============================================================================
