--------------------------- MODULE DurableIngest ---------------------------
(***************************************************************************)
(* Durable ingestion: the checkpointed write of one crawl into D1 (the     *)
(* ledger, articles, clusters, lineage) and R2 (cluster payloads), and the *)
(* gate it puts before the homepage.                                       *)
(*                                                                         *)
(* One crawler runs at a time: the workflow's concurrency group queues the *)
(* others.  It can be killed at any step (the job's time limit), every     *)
(* remote call can fail without effect, and every write can take effect    *)
(* while its answer is lost.  A crawl of an input met before is a retry.   *)
(*                                                                         *)
(* Abstractions.  An article, an event and an input are values: an input   *)
(* stands for one set of article contents, hence for one run id, and the   *)
(* crawler groups it into the events EventsOf[input], in rank order.       *)
(* The payload hash of a cluster is its event and the score the crawl gave *)
(* it, since the score is the part that moves with the clock.  The batches *)
(* of persistClusters are cut into one step per cluster and kind of        *)
(* statement: a plan of more than 100 statements is several transactions.  *)
(***************************************************************************)
EXTENDS Integers, Sequences, FiniteSets

CONSTANTS
  Article,        \* durable article ids
  Event,          \* what one in-memory cluster of a crawl is about
  Members,        \* [Event -> Seq(Article)]: its articles, the primary source first
  Input,          \* the inputs the feeds can produce
  EventsOf,       \* [Input -> Seq(Event)]: how the crawler clusters an input
  Score,          \* the values the time-dependent part of a payload takes
  None,           \* no event, no input, no score
  HomepageSize,   \* clusters shown on the homepage (30 in the code)
  MaxClusterIds,  \* bound: how many cluster UUIDs are in use at once
  MaxFaults       \* bound: how many failures and kills occur

ASSUME IngestAssumption ==
  /\ Members \in [Event -> Seq(Article)]
  /\ EventsOf \in [Input -> Seq(Event)]
  /\ \A i \in Input : \E j \in DOMAIN EventsOf[i] : Members[EventsOf[i][j]] # << >>
  /\ None \notin Event /\ None \notin Input /\ None \notin Score
  /\ HomepageSize \in Nat
  /\ MaxClusterIds \in Nat
  /\ MaxFaults \in Nat

ClusterId == 1..MaxClusterIds
NoCluster == 0

-----------------------------------------------------------------------------
(* The ledger's stages and the order atOrBefore compares them in.          *)

Stage == {"started", "articles_persisted", "clusters_persisted",
          "classified", "publishable", "published"}
Status == Stage \cup {"absent", "failed_retryable"}

Ordinal == [s \in Status |->
  CASE s = "started" -> 0
    [] s = "articles_persisted" -> 1
    [] s = "clusters_persisted" -> 2
    [] s = "classified" -> 3
    [] s = "publishable" -> 4
    [] s = "published" -> 5
    [] OTHER -> -1]

AtOrBefore(s, t) == Ordinal[s] <= Ordinal[t]

\* Mutant: a guard that lets a published run fail.
PermittedAfterPublish(old, new) ==
  \/ old = new
  \/ /\ old \in Stage
     /\ new = "failed_retryable" \/ Ordinal[new] = Ordinal[old] + 1
  \/ old = "failed_retryable" /\ new = "started"

\* ingestion_run_transition_guard: what the database lets a status become.
Permitted(old, new) ==
  \/ old = new
  \/ /\ old \in Stage \ {"published"}
     /\ new = "failed_retryable" \/ Ordinal[new] = Ordinal[old] + 1
  \/ old = "failed_retryable" /\ new = "started"

-----------------------------------------------------------------------------
VARIABLES
  \* D1
  run,        \* ingestion_runs.status, "absent" before the first crawl
  articles,   \* source_articles
  manifest,   \* ingestion_cluster_manifest
  cluster,    \* story_clusters
  source,     \* cluster_sources
  lineage,    \* cluster_lineage
  orphan,     \* ingestion_orphan_candidates, by payload key
  \* R2
  blob,       \* the clusters whose payload object exists
  \* the site
  homepage,   \* the deployed snapshot: its run and the clusters it shows
  \* the crawler process
  pc, input, score, plan, k, draft,
  \* how many faults there were
  faults

d1 == <<run, articles, manifest, cluster, source, lineage, orphan>>
attempt == <<input, score, plan, draft>>
vars == <<run, articles, manifest, cluster, source, lineage, orphan, blob,
          homepage, pc, input, score, plan, k, draft, faults>>

ManifestRow == [run : Input, event : Event, score : Score, id : ClusterId]
ClusterRow == [status : {"absent", "active", "merged"},
               event : Event \cup {None},
               into : ClusterId \cup {NoCluster}]
\* target is the id the planner gave the cluster, id the one it is written under.
PlanEntry == [event : Event, id : ClusterId, target : ClusterId,
              merges : SUBSET ClusterId, splits : SUBSET ClusterId]
Snapshot == [run : Input \cup {None}, shown : SUBSET ClusterId]

NoRow == [status |-> "absent", event |-> None, into |-> NoCluster]
\* The snapshot file committed with the repository: no run produced it.
NoSnapshot == [run |-> None, shown |-> {}]

ArticlesOf(e) == {Members[e][m] : m \in DOMAIN Members[e]}
InputArticles(i) == UNION {ArticlesOf(EventsOf[i][j]) : j \in DOMAIN EventsOf[i]}
Exists(c) == cluster[c].status # "absent"
Active == {c \in ClusterId : cluster[c].status = "active"}
PlanIds == {plan[j].id : j \in DOMAIN plan}

Init ==
  /\ run = [i \in Input |-> "absent"]
  /\ articles = {}
  /\ manifest = {}
  /\ cluster = [c \in ClusterId |-> NoRow]
  /\ source = {}
  /\ lineage = {}
  /\ orphan = [c \in ClusterId |-> "none"]
  /\ blob = {}
  /\ homepage = NoSnapshot
  /\ pc = "idle"
  /\ input = None
  /\ score = None
  /\ plan = << >>
  /\ k = 1
  /\ draft = {}
  /\ faults = 0

-----------------------------------------------------------------------------
(* How a step of the crawler ends.  Caught(at) is where an error thrown at *)
(* pc = at is handled: "fail_clusters" and "fail_orphans" are the inner    *)
(* handlers of persistDurableInput, "fail_persist" its outer one,          *)
(* "fail_once" the handlers of markDurableClassified and of the pipeline,  *)
(* and "exit" the end of the process, for a step nothing catches.          *)

Caught(at) ==
  CASE at \in {"manifest", "articles", "articles_done", "clusters_done"} -> "fail_persist"
    [] at = "payloads" -> "fail_clusters"
    [] at \in {"insert", "attach", "link"} -> "fail_orphans"
    [] at \in {"rewrite", "rewrite_done", "archive", "snapshot"} -> "fail_once"
    [] OTHER -> "exit"

Fault == faults < MaxFaults /\ faults' = faults + 1

\* A remote call that took effect: its answer arrives, or is lost and read as an error.
Answer(next) ==
  \/ pc' = next /\ UNCHANGED faults
  \/ pc' = Caught(pc) /\ Fault

\* One turn of a loop over the plan's clusters; "after" follows the last one.
Turn(after) ==
  /\ Answer(IF k = Len(plan) THEN after ELSE pc)
  /\ k' = IF k = Len(plan) THEN 1 ELSE k + 1

\* The remote calls of these steps can fail and leave nothing behind.
CanFail == {"plan", "start", "resume", "manifest", "articles", "articles_done",
            "payloads", "insert", "attach", "link", "clusters_done", "classify",
            "mark", "rewrite", "rewrite_done", "archive", "publishable",
            "snapshot", "published", "deploy"}

CallFails ==
  /\ pc \in CanFail
  /\ Fault
  /\ pc' = Caught(pc)
  /\ k' = 1
  /\ UNCHANGED <<d1, blob, homepage, attempt>>

\* The process ends; the next one starts from its own checkout.
Gone ==
  /\ pc' = "idle"
  /\ input' = None /\ score' = None /\ plan' = << >> /\ k' = 1 /\ draft' = {}
  /\ UNCHANGED <<d1, blob, homepage>>

Exit == pc = "exit" /\ Gone /\ UNCHANGED faults

Killed == pc \notin {"idle", "exit"} /\ Fault /\ Gone

-----------------------------------------------------------------------------
(* Planning: prepareDurableInputs, loadExistingMembership,                 *)
(* finalizeDurablePlan and restoreManifestIdentities.                      *)

\* A new UUID is an id nothing refers to; one that left no trace is as good as new.
Unused ==
  {c \in ClusterId :
    /\ ~ Exists(c) /\ c \notin blob /\ orphan[c] = "none"
    /\ \A m \in manifest : m.id # c
    /\ \A j \in DOMAIN plan : plan[j].id # c /\ plan[j].target # c}

BeginCrawl(i, s) ==
  /\ pc = "idle"
  /\ Len(EventsOf[i]) <= Cardinality(Unused)
  /\ pc' = "plan"
  /\ input' = i
  /\ score' = s
  /\ UNCHANGED <<d1, blob, homepage, plan, k, draft, faults>>

\* The atomic commit guard: with no fresh article the pipeline returns before it
\* writes anything, and the workflow deploys the snapshot it checked out.
BailOut ==
  /\ pc = "idle"
  /\ homepage' = NoSnapshot
  /\ UNCHANGED <<d1, blob, pc, k, attempt, faults>>

HoldersOf(a) == {c \in Active : <<c, a>> \in source}
Known(e) == {a \in ArticlesOf(e) : HoldersOf(a) # {}}

\* Of the rows the lookup returns for an article the last one counts, and the
\* query fixes no order.
MembershipRead(e) ==
  {f \in [Known(e) -> Active] : \A a \in Known(e) : f[a] \in HoldersOf(a)}

\* Mutant: the planner forgets which clusters it has handed out.
NothingClaimed == {}

Claimed == {plan[j].target : j \in DOMAIN plan}

\* A cluster of the plan under id, where prev are the clusters that held its event.
Planned(e, id, prev) ==
  [event |-> e, id |-> id, target |-> id,
   merges |-> (prev \ Claimed) \ {id}, splits |-> prev \cap Claimed]

\* All unused ids are alike: take the least.
Fresh == {c \in Unused : \A u \in Unused : c <= u}

\* The first article whose cluster is still free hands it on.
PlanByMembership(e) ==
  /\ Known(e) # {}
  /\ \E last \in MembershipRead(e) :
       LET prev == {last[a] : a \in Known(e)}
           free == {m \in DOMAIN Members[e] :
                      Members[e][m] \in Known(e) /\ last[Members[e][m]] \notin Claimed}
           ids == IF free = {} THEN Fresh
                  ELSE {last[Members[e][m]] : m \in {m \in free : \A n \in free : m <= n}}
       IN  \E id \in ids : plan' = Append(plan, Planned(e, id, prev))

\* Fingerprints count only when none of the articles is known.
PlanByFingerprint(e) ==
  /\ Known(e) = {}
  /\ LET same == {c \in Active : cluster[c].event = e} IN
     \/ /\ same = {}
        /\ \E id \in Fresh : plan' = Append(plan, Planned(e, id, {}))
     \/ \E c \in same, id \in Fresh \cup same :
          /\ IF c \in Claimed THEN id \in Fresh ELSE id = c
          /\ plan' = Append(plan, Planned(e, id, {c}))

PlanCluster ==
  /\ pc = "plan"
  /\ Len(plan) < Len(EventsOf[input])
  /\ LET e == EventsOf[input][Len(plan) + 1] IN PlanByMembership(e) \/ PlanByFingerprint(e)
  /\ UNCHANGED <<d1, blob, homepage, pc, input, score, k, draft, faults>>

\* A cluster written before under the same event and payload hash gets that id
\* back; the lineage keeps the id the planner chose.
Recorded(entry) ==
  {m \in manifest : m.run = input /\ m.event = entry.event /\ m.score = score}

RestoreManifest ==
  /\ pc = "plan"
  /\ Len(plan) = Len(EventsOf[input])
  /\ plan' = [j \in DOMAIN plan |->
       IF Recorded(plan[j]) = {} THEN plan[j]
       ELSE [plan[j] EXCEPT !.id = (CHOOSE m \in Recorded(plan[j]) : TRUE).id]]
  /\ pc' = "start"
  /\ UNCHANGED <<d1, blob, homepage, input, score, k, draft, faults>>

-----------------------------------------------------------------------------
(* The ledger row: insert or keep it, then resume where its status says.   *)

\* Mutant: a run whose articles are stored is taken to have its payloads too.
BlockWithoutPayloads(s) ==
  IF AtOrBefore(s, "started") THEN "manifest"
  ELSE IF AtOrBefore(s, "articles_persisted") THEN "insert"
  ELSE "classify"

FirstBlock(s) ==
  IF AtOrBefore(s, "started") THEN "manifest"
  ELSE IF AtOrBefore(s, "articles_persisted") THEN "payloads"
  ELSE "classify"

StartRun ==
  /\ pc = "start"
  /\ run' = IF run[input] = "absent" THEN [run EXCEPT ![input] = "started"] ELSE run
  /\ Answer(IF run'[input] = "failed_retryable" THEN "resume" ELSE FirstBlock(run'[input]))
  /\ UNCHANGED <<articles, manifest, cluster, source, lineage, orphan, blob,
                 homepage, k, attempt>>

\* Mutant: the retry goes on without reopening the run.
ResumeWithoutReopening ==
  /\ pc = "resume"
  /\ Answer(FirstBlock("started"))
  /\ UNCHANGED <<d1, blob, homepage, k, attempt>>

ResumeRun ==
  /\ pc = "resume"
  /\ run' = [run EXCEPT ![input] = "started"]
  /\ Answer(FirstBlock("started"))
  /\ UNCHANGED <<articles, manifest, cluster, source, lineage, orphan, blob,
                 homepage, k, attempt>>

\* advance(): the write the transition guard may refuse.
Checkpoint(at, stage, next) ==
  /\ pc = at
  /\ Permitted(run[input], stage)
  /\ run' = [run EXCEPT ![input] = stage]
  /\ Answer(next)
  /\ UNCHANGED <<articles, manifest, cluster, source, lineage, orphan, blob,
                 homepage, k, attempt>>

-----------------------------------------------------------------------------
(* The first block of persistDurableInput: manifest, then articles.        *)

RowOf(entry) == [run |-> input, event |-> entry.event, score |-> score, id |-> entry.id]

\* UNIQUE (ingestion_run_id, cluster_id); the primary key is what Recorded reads.
Collides(entry) ==
  /\ Recorded(entry) = {}
  /\ \E m \in manifest : m.run = input /\ m.id = entry.id

UpsertManifest ==
  /\ pc = "manifest"
  /\ ~ Collides(plan[k])
  /\ manifest' = IF Recorded(plan[k]) = {} THEN manifest \cup {RowOf(plan[k])} ELSE manifest
  /\ Turn("articles")
  /\ UNCHANGED <<run, articles, cluster, source, lineage, orphan, blob, homepage, attempt>>

ManifestRejected ==
  /\ pc = "manifest"
  /\ Collides(plan[k])
  /\ pc' = Caught(pc)
  /\ k' = 1
  /\ UNCHANGED <<d1, blob, homepage, attempt, faults>>

PersistArticles ==
  /\ pc = "articles"
  /\ articles' = articles \cup InputArticles(input)
  /\ Answer("articles_done")
  /\ UNCHANGED <<run, manifest, cluster, source, lineage, orphan, blob, homepage, k, attempt>>

ArticlesPersisted == Checkpoint("articles_done", "articles_persisted", "payloads")

-----------------------------------------------------------------------------
(* The second block: payloads to R2, then the statements of persistClusters. *)

WritePayload ==
  /\ pc = "payloads"
  /\ blob' = blob \cup {plan[k].id}
  /\ Turn("insert")
  /\ UNCHANGED <<d1, homepage, attempt>>

InsertCluster ==
  /\ pc = "insert"
  /\ cluster' = [cluster EXCEPT ![plan[k].id] =
       [status |-> "active", event |-> plan[k].event, into |-> NoCluster]]
  /\ Turn("attach")
  /\ UNCHANGED <<run, articles, manifest, source, lineage, orphan, blob, homepage, attempt>>

\* Mutant: only the primary source is attached.
AttachPrimaryOnly ==
  /\ pc = "attach"
  /\ source' = source \cup {<<plan[k].id, Members[plan[k].event][m]>> :
                              m \in DOMAIN Members[plan[k].event] \cap {1}}
  /\ Turn("link")
  /\ UNCHANGED <<run, articles, manifest, cluster, lineage, orphan, blob, homepage, attempt>>

AttachSources ==
  /\ pc = "attach"
  /\ source' = source \cup ({plan[k].id} \X ArticlesOf(plan[k].event))
  /\ orphan' = IF orphan[plan[k].id] = "pending"
               THEN [orphan EXCEPT ![plan[k].id] = "adopted"] ELSE orphan
  /\ Turn("link")
  /\ UNCHANGED <<run, articles, manifest, cluster, lineage, blob, homepage, attempt>>

\* Every set of merged clusters has one that redirects out of it: no cycle.
Acyclic(rows) ==
  \A S \in SUBSET {c \in ClusterId : rows[c].status = "merged"} :
    S # {} => \E c \in S : rows[c].into \notin S

Redirected(entry) ==
  [c \in ClusterId |->
    IF c \in entry.merges
    THEN [cluster[c] EXCEPT !.status = "merged", !.into = entry.target]
    ELSE cluster[c]]

\* Mutant: no foreign key on the successor.
LinkableToAnything(entry) == Acyclic(Redirected(entry))

\* cluster_lineage and the redirect both reference the successor's row, and
\* the redirect triggers refuse a cycle.
Linkable(entry) ==
  \/ entry.merges \cup entry.splits = {}
  \/ Exists(entry.target) /\ Acyclic(Redirected(entry))

LinkCluster ==
  /\ pc = "link"
  /\ Linkable(plan[k])
  /\ cluster' = Redirected(plan[k])
  /\ lineage' = lineage \cup ((plan[k].merges \cup plan[k].splits) \X {plan[k].target})
  /\ Turn("clusters_done")
  /\ UNCHANGED <<run, articles, manifest, source, orphan, blob, homepage, attempt>>

LinkRejected ==
  /\ pc = "link"
  /\ ~ Linkable(plan[k])
  /\ pc' = Caught(pc)
  /\ k' = 1
  /\ UNCHANGED <<d1, blob, homepage, attempt, faults>>

ClustersPersisted == Checkpoint("clusters_done", "clusters_persisted", "classify")

-----------------------------------------------------------------------------
(* The rest of the pipeline, as far as the ledger is concerned.            *)

\* Mutant: clusters without a row are classified too.
ClassifyAnything == TRUE

\* topic_assignment_runs.cluster_id references story_clusters.  A plan without
\* articles is not classified at all.
Classifiable ==
  \/ \A j \in DOMAIN plan : ArticlesOf(plan[j].event) = {}
  \/ \A j \in DOMAIN plan : Exists(plan[j].id)

Classify ==
  /\ pc = "classify"
  /\ pc' = IF Classifiable THEN "mark" ELSE Caught(pc)
  /\ UNCHANGED <<d1, blob, homepage, k, attempt, faults>>

Mark ==
  /\ pc = "mark"
  /\ pc' = IF AtOrBefore("classified", run[input]) THEN "archive" ELSE "rewrite"
  /\ UNCHANGED <<d1, blob, homepage, k, attempt, faults>>

RewritePayload ==
  /\ pc = "rewrite"
  /\ blob' = blob \cup {plan[k].id}
  /\ Turn("rewrite_done")
  /\ UNCHANGED <<d1, homepage, attempt>>

Classified == Checkpoint("rewrite_done", "classified", "archive")

\* Archive sync as the gate sees it; ArchiveSync models what it does to the
\* archive.  Its failure is the failed call that CallFails takes to "fail_once".
Archived ==
  /\ pc = "archive"
  /\ pc' = IF AtOrBefore("publishable", run[input]) THEN "snapshot" ELSE "publishable"
  /\ UNCHANGED <<d1, blob, homepage, k, attempt, faults>>

Publishable == Checkpoint("publishable", "publishable", "snapshot")

\* The curators' overrides decide which of the ranked clusters remain.
WriteSnapshot ==
  /\ pc = "snapshot"
  /\ \E shown \in SUBSET PlanIds :
       /\ Cardinality(shown) <= HomepageSize
       /\ draft' = shown
  /\ pc' = IF run[input] = "published" THEN "deploy" ELSE "published"
  /\ UNCHANGED <<d1, blob, homepage, input, score, plan, k, faults>>

Published == Checkpoint("published", "published", "deploy")

\* The workflow builds and deploys only after the crawler ended well.
Deploy ==
  /\ pc = "deploy"
  /\ homepage' = [run |-> input, shown |-> draft]
  /\ pc' = "exit"
  /\ UNCHANGED <<d1, blob, k, attempt, faults>>

-----------------------------------------------------------------------------
(* failRun: one batch, its own errors swallowed.  The guard refuses it for *)
(* a published run.                                                        *)

MarkFailed ==
  run' = IF Permitted(run[input], "failed_retryable")
         THEN [run EXCEPT ![input] = "failed_retryable"] ELSE run

Swallowed == Fault /\ UNCHANGED <<run, orphan>>

FailClusters ==
  /\ pc = "fail_clusters"
  /\ \/ MarkFailed /\ UNCHANGED <<orphan, faults>>
     \/ Swallowed
  /\ pc' = "fail_persist"
  /\ UNCHANGED <<articles, manifest, cluster, source, lineage, blob, homepage, k, attempt>>

FailWithOrphans ==
  /\ pc = "fail_orphans"
  /\ \/ /\ MarkFailed
        /\ orphan' = [c \in ClusterId |-> IF c \in PlanIds THEN "pending" ELSE orphan[c]]
        /\ UNCHANGED faults
     \/ Swallowed
  /\ pc' = "fail_persist"
  /\ UNCHANGED <<articles, manifest, cluster, source, lineage, blob, homepage, k, attempt>>

\* The outer handler reads the run first; marking a failed run again is no change.
FailOnce ==
  /\ pc \in {"fail_persist", "fail_once"}
  /\ \/ MarkFailed /\ UNCHANGED <<orphan, faults>>
     \/ Swallowed
  /\ pc' = "exit"
  /\ UNCHANGED <<articles, manifest, cluster, source, lineage, blob, homepage, k, attempt>>

-----------------------------------------------------------------------------
Persist ==
  \/ StartRun \/ ResumeRun
  \/ UpsertManifest \/ ManifestRejected \/ PersistArticles \/ ArticlesPersisted
  \/ WritePayload \/ InsertCluster \/ AttachSources \/ LinkCluster \/ LinkRejected
  \/ ClustersPersisted

Finish ==
  \/ Classify \/ Mark \/ RewritePayload \/ Classified
  \/ Archived \/ Publishable \/ WriteSnapshot \/ Published \/ Deploy

Fail == FailClusters \/ FailWithOrphans \/ FailOnce

\* The process goes on by itself; the cron starts the next one.
Work == PlanCluster \/ RestoreManifest \/ Persist \/ Finish \/ Fail \/ Exit

\* Nothing runs between two crawls; none starts once the bound on ids is met.
Rest == pc = "idle" /\ UNCHANGED vars

Next ==
  \/ Rest
  \/ BailOut
  \/ \E i \in Input, s \in Score : BeginCrawl(i, s)
  \/ Work
  \/ CallFails
  \/ Killed

Spec == Init /\ [][Next]_vars

\* A crawler that is not killed keeps going, and the cron keeps starting crawls
\* of every input the feeds still produce.
FairSpec ==
  /\ Spec
  /\ WF_vars(Work)
  /\ \A i \in Input : SF_vars(\E s \in Score : BeginCrawl(i, s))

-----------------------------------------------------------------------------
(* Properties                                                              *)

\* Every variable stays within its type, and a plan is as long as its input.
TypeOK ==
  /\ run \in [Input -> Status]
  /\ articles \in SUBSET Article
  /\ manifest \in SUBSET ManifestRow
  /\ cluster \in [ClusterId -> ClusterRow]
  /\ source \in SUBSET (ClusterId \X Article)
  /\ lineage \in SUBSET (ClusterId \X ClusterId)
  /\ orphan \in [ClusterId -> {"none", "pending", "adopted"}]
  /\ blob \in SUBSET ClusterId
  /\ homepage \in Snapshot
  /\ pc \in CanFail \cup {"idle", "exit", "fail_clusters", "fail_orphans",
                         "fail_persist", "fail_once"}
  /\ input \in Input \cup {None}
  /\ score \in Score \cup {None}
  /\ plan \in Seq(PlanEntry)
  /\ k \in Nat \ {0}
  /\ draft \in SUBSET ClusterId
  /\ faults \in 0..MaxFaults

PastArticles == Stage \ {"started"}
PastClusters == PastArticles \ {"articles_persisted"}

\* "Recovery resumes from the last completed run stage and never treats a
\* partial write as successful ingestion": a run recorded at or past
\* articles_persisted has all its articles stored, and one at or past
\* clusters_persisted has each of them attached to a persisted cluster,
\* whatever was killed, retried or skipped on the way (persistDurableInput).
RecordedStageIsTrue ==
  \A i \in Input :
    /\ run[i] \in PastArticles => InputArticles(i) \subseteq articles
    /\ run[i] \in PastClusters =>
         \A a \in InputArticles(i) : \E c \in ClusterId : <<c, a>> \in source /\ Exists(c)

\* The transition guard never refuses a checkpoint: the stage each block skips
\* to on resume agrees with the status the database holds (atOrBefore).
NoRefusedCheckpoint ==
  /\ pc = "resume" => run[input] = "failed_retryable"
  /\ pc = "articles_done" => Permitted(run[input], "articles_persisted")
  /\ pc = "clusters_done" => Permitted(run[input], "clusters_persisted")
  /\ pc = "rewrite_done" => Permitted(run[input], "classified")
  /\ pc = "publishable" => Permitted(run[input], "publishable")
  /\ pc = "published" => Permitted(run[input], "published")

\* The deployed homepage comes from a run the ledger holds as published, and
\* shows only clusters that D1 has rows for (runIngestionPipeline's gates).
HomepageIsComplete ==
  homepage.run # None =>
    /\ run[homepage.run] = "published"
    /\ \A c \in homepage.shown : Exists(c)

\* Lineage stays usable: every successor it names has a row, every redirect is
\* recorded in it, and following redirects always leaves the merged clusters,
\* also after a retry gave clusters other ids (buildLineageStatements).
LineageResolves ==
  /\ \A l \in lineage : Exists(l[2])
  /\ \A c \in ClusterId : cluster[c].status = "merged" => <<c, cluster[c].into>> \in lineage
  /\ Acyclic(cluster)

\* No cluster becomes visible in D1 before its payload is in R2, and no run
\* passes clusters_persisted unless every cluster of the crawl's plan is there
\* with its payload and articles, and waits for no adoption (persistClusters).
PayloadBeforeRow ==
  [][/\ \A c \in ClusterId : Exists(c)' /\ ~ Exists(c) => c \in blob
     /\ \A i \in Input :
          run'[i] = "clusters_persisted" /\ run[i] # "clusters_persisted" =>
            \A j \in DOMAIN plan :
              /\ Exists(plan[j].id) /\ plan[j].id \in blob
              /\ orphan[plan[j].id] # "pending"
              /\ {plan[j].id} \X ArticlesOf(plan[j].event) \subseteq source]_vars

\* The planner never gives two events of one crawl the same cluster, whichever
\* clusters hold their articles by now (the claimed set of finalizeDurablePlan).
EventsKeepApart ==
  \A j, l \in DOMAIN plan : j # l => plan[j].target # plan[l].target

\* What a status means to the rest of the system.
Entry(s) ==
  CASE s = "absent" -> "absent"
    [] s = "failed_retryable" -> "failed"
    [] s = "published" -> "published"
    [] OTHER -> "open"

Ledger == INSTANCE IngestLedger WITH
  ledger <- [i \in Input |-> Entry(run[i])],
  site <- homepage.run

\* The checkpoints, retries and failures of a crawl implement the ledger: a run
\* is published at most once and for good, and the site only ever moves to a
\* published run.
ImplementsLedger == Ledger!Spec

\* While crawls of the input go on and failures end, a failed run is completed.
FailedRunCompletes ==
  \A i \in Input : run[i] = "failed_retryable" ~> run[i] = "published"
=============================================================================
