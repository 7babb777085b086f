------------------------ MODULE DurableIngestProofs ------------------------
(* Theorems about DurableIngest, for every input, plan and number of faults. *)
EXTENDS DurableIngest, TLAPS

Loops == {"manifest", "payloads", "insert", "attach", "link", "rewrite"}
Failing == {"fail_clusters", "fail_orphans", "fail_persist", "fail_once"}

\* The crawl at hand: what it works on, how far its plan and its loop are.
CrawlOK ==
  /\ pc # "idle" => input \in Input /\ score \in Score
  /\ pc = "idle" => plan = << >>
  /\ pc \in Loops => k <= Len(plan)
  /\ pc \notin Loops \cup Failing \cup {"exit"} => k = 1
  /\ pc = "plan" => Len(plan) <= Len(EventsOf[input])
  /\ pc \notin {"idle", "plan", "exit"} => Len(plan) = Len(EventsOf[input])
  /\ \A j \in DOMAIN plan : plan[j].event = EventsOf[input][j]

\* What the ledger says of the input while the crawl is at a step.
StatusOK ==
  /\ pc = "resume" => run[input] = "failed_retryable"
  /\ pc \in {"manifest", "articles", "articles_done"} => run[input] = "started"
  /\ pc \in {"payloads", "insert", "attach", "link", "clusters_done"} =>
       run[input] = "articles_persisted"
  /\ pc \in {"classify", "mark"} => run[input] \in PastClusters
  /\ pc \in {"rewrite", "rewrite_done"} => run[input] = "clusters_persisted"
  /\ pc = "archive" => run[input] \in {"classified", "publishable", "published"}
  /\ pc = "publishable" => run[input] = "classified"
  /\ pc = "snapshot" => run[input] \in {"publishable", "published"}
  /\ pc = "published" => run[input] = "publishable"
  /\ pc = "deploy" => run[input] = "published"

\* The site's snapshot comes from a published run.
PublishedOK ==
  homepage.run # None => homepage.run \in Input /\ run[homepage.run] = "published"

\* Clusters written so far by the loops of the second block.
WrittenOK ==
  /\ pc = "payloads" => \A j \in 1..(k - 1) : plan[j].id \in blob
  /\ pc \in {"insert", "attach", "link", "clusters_done"} =>
       \A j \in DOMAIN plan : plan[j].id \in blob
  /\ pc = "insert" => \A j \in 1..(k - 1) : Exists(plan[j].id)
  /\ pc \in {"attach", "link", "clusters_done"} \cup
            {"mark", "rewrite", "rewrite_done", "archive", "publishable", "snapshot"} =>
       \A j \in DOMAIN plan : Exists(plan[j].id)
  /\ pc = "attach" => \A j \in 1..(k - 1) :
       /\ {plan[j].id} \X ArticlesOf(plan[j].event) \subseteq source
       /\ orphan[plan[j].id] # "pending"
  /\ pc \in {"link", "clusters_done"} => \A j \in DOMAIN plan :
       /\ {plan[j].id} \X ArticlesOf(plan[j].event) \subseteq source
       /\ orphan[plan[j].id] # "pending"
  /\ pc = "articles_done" => InputArticles(input) \subseteq articles

\* What the plan refers to exists, and what the crawl is about to show does.
RefersOK ==
  /\ \A j \in DOMAIN plan : \A c \in plan[j].merges \cup plan[j].splits : Exists(c)
  /\ \A c \in draft : Exists(c)

-----------------------------------------------------------------------------
(* Types and the crawl at hand.                                            *)

\* A plan grows by one entry and keeps the others.
LEMMA PlanGrows ==
  ASSUME NEW p \in Seq(PlanEntry), NEW e \in PlanEntry
  PROVE  /\ Append(p, e) \in Seq(PlanEntry)
         /\ Len(Append(p, e)) = Len(p) + 1
         /\ Len(p) \in Nat
         /\ DOMAIN p = 1..Len(p)
         /\ DOMAIN Append(p, e) = 1..(Len(p) + 1)
         /\ \A j \in 1..Len(p) : Append(p, e)[j] = p[j]
         /\ Append(p, e)[Len(p) + 1] = e
  OBVIOUS

\* What a planned cluster looks like.
LEMMA PlannedType ==
  ASSUME NEW e \in Event, NEW id \in ClusterId, NEW prev \in SUBSET ClusterId
  PROVE  /\ Planned(e, id, prev) \in PlanEntry
         /\ Planned(e, id, prev).event = e
         /\ Planned(e, id, prev).target = id
         /\ Planned(e, id, prev).merges \cup Planned(e, id, prev).splits \subseteq prev
  BY DEF Planned, PlanEntry

\* Planning a cluster appends an entry for the next event: its target is still
\* free, and its predecessors are active.
LEMMA PlanClusterAppends ==
  ASSUME TypeOK, CrawlOK, PlanCluster
  PROVE  \E e \in Event, id \in ClusterId, prev \in SUBSET Active :
           /\ e = EventsOf[input][Len(plan) + 1]
           /\ id \notin Claimed
           /\ plan' = Append(plan, Planned(e, id, prev))
PROOF
<1> DEFINE e == EventsOf[input][Len(plan) + 1]
<1>1. e \in Event
  BY IngestAssumption DEF TypeOK, CrawlOK, PlanCluster
<1>2. \A c \in Fresh : c \in ClusterId /\ c \notin Claimed
  BY DEF Fresh, Unused, Claimed
<1>3. CASE PlanByMembership(e)
  <2>1. PICK last \in MembershipRead(e) :
          LET prev == {last[a] : a \in Known(e)}
              free == {m \in DOMAIN Members[e] :
                         Members[e][m] \in Known(e) /\ last[Members[e][m]] \notin Claimed}
              ids == IF free = {} THEN Fresh
                     ELSE {last[Members[e][m]] : m \in {m \in free : \A n \in free : m <= n}}
          IN  \E id \in ids : plan' = Append(plan, Planned(e, id, prev))
    BY <1>3 DEF PlanByMembership
  <2> DEFINE prev == {last[a] : a \in Known(e)}
             free == {m \in DOMAIN Members[e] :
                        Members[e][m] \in Known(e) /\ last[Members[e][m]] \notin Claimed}
  <2>2. \A a \in Known(e) : last[a] \in Active
    BY DEF MembershipRead
  <2>3. PICK id \in IF free = {} THEN Fresh
                    ELSE {last[Members[e][m]] : m \in {m \in free : \A n \in free : m <= n}} :
          plan' = Append(plan, Planned(e, id, prev))
    BY <2>1
  <2>4. id \in ClusterId /\ id \notin Claimed
    BY <1>2, <2>2, <2>3 DEF Active
  <2>5. prev \in SUBSET Active
    BY <2>2
  <2> QED BY <1>1, <2>3, <2>4, <2>5
<1>4. CASE PlanByFingerprint(e)
  <2> DEFINE same == {c \in Active : cluster[c].event = e}
  <2>1. CASE \E id \in Fresh : plan' = Append(plan, Planned(e, id, {}))
    BY <1>1, <1>2, <2>1
  <2>2. CASE \E c \in same, id \in Fresh \cup same :
               /\ IF c \in Claimed THEN id \in Fresh ELSE id = c
               /\ plan' = Append(plan, Planned(e, id, {c}))
    <3>1. PICK c \in same, id \in Fresh \cup same :
            /\ IF c \in Claimed THEN id \in Fresh ELSE id = c
            /\ plan' = Append(plan, Planned(e, id, {c}))
      BY <2>2
    <3>2. id \in ClusterId /\ id \notin Claimed
      BY <1>2, <3>1 DEF Active
    <3> QED BY <1>1, <3>1, <3>2
  <2> QED BY <1>4, <2>1, <2>2 DEF PlanByFingerprint
<1> QED BY <1>3, <1>4 DEF PlanCluster

\* The cluster a loop is at is one of the plan's.
LEMMA AtCluster ==
  ASSUME TypeOK, CrawlOK, pc \in Loops
  PROVE  /\ input \in Input /\ score \in Score
         /\ k \in 1..Len(plan) /\ k \in DOMAIN plan /\ Len(plan) \in Nat
         /\ plan[k] \in PlanEntry
         /\ plan[k].id \in ClusterId /\ plan[k].target \in ClusterId
         /\ plan[k].event \in Event
         /\ plan[k].merges \in SUBSET ClusterId /\ plan[k].splits \in SUBSET ClusterId
PROOF
<1>1. k \in 1..Len(plan) /\ Len(plan) \in Nat /\ DOMAIN plan = 1..Len(plan)
  BY DEF TypeOK, CrawlOK
<1>2. plan[k] \in PlanEntry
  BY <1>1 DEF TypeOK
<1>3. input \in Input /\ score \in Score
  BY DEF CrawlOK, Loops
<1> QED BY <1>1, <1>2, <1>3 DEF PlanEntry

\* The articles of an event and of an input are articles, and an input that is
\* crawled has a cluster.
LEMMA ArticlesType ==
  /\ \A e \in Event : ArticlesOf(e) \in SUBSET Article
  /\ \A i \in Input : InputArticles(i) \in SUBSET Article
  /\ \A i \in Input : EventsOf[i] \in Seq(Event) /\ Len(EventsOf[i]) >= 1
PROOF
<1>1. \A e \in Event : ArticlesOf(e) \in SUBSET Article
  BY IngestAssumption DEF ArticlesOf
<1>2. \A i \in Input : EventsOf[i] \in Seq(Event) /\ Len(EventsOf[i]) >= 1
  <2> SUFFICES ASSUME NEW i \in Input
               PROVE  EventsOf[i] \in Seq(Event) /\ Len(EventsOf[i]) >= 1
    OBVIOUS
  <2>1. EventsOf[i] \in Seq(Event)
    BY IngestAssumption
  <2>2. PICK j \in DOMAIN EventsOf[i] : TRUE
    BY IngestAssumption
  <2> QED BY <2>1, <2>2
<1>3. \A i \in Input : InputArticles(i) \in SUBSET Article
  BY <1>1, <1>2 DEF InputArticles
<1> QED BY <1>1, <1>2, <1>3

\* Where an error goes; an error never leads back to a step of the crawl.
LEMMA CaughtAt ==
  /\ \A at : Caught(at) \in Failing \cup {"exit"}
  /\ \A at \in {"manifest", "articles", "articles_done", "clusters_done"} :
       Caught(at) = "fail_persist"
  /\ Caught("plan") = "exit"
PROOF
<1>1. ASSUME NEW at PROVE Caught(at) \in Failing \cup {"exit"}
  BY DEF Caught, Failing
<1>2. ASSUME NEW at \in {"manifest", "articles", "articles_done", "clusters_done"}
      PROVE Caught(at) = "fail_persist"
  BY DEF Caught
<1>3. Caught("plan") = "exit"
  BY DEF Caught
<1> QED BY <1>1, <1>2, <1>3

\* A fault keeps the count within its bound.
LEMMA FaultCount == TypeOK /\ Fault => faults' \in 0..MaxFaults
  BY IngestAssumption DEF TypeOK, Fault

\* A step goes where it says or, with a fault, to a handler or the end.
LEMMA AnswerType ==
  ASSUME TypeOK, NEW next, Answer(next)
  PROVE  /\ pc' \in {next} \cup Failing \cup {"exit"}
         /\ faults' \in 0..MaxFaults
PROOF
<1>1. CASE pc' = next /\ UNCHANGED faults
  BY <1>1 DEF TypeOK
<1>2. CASE pc' = Caught(pc) /\ Fault
  BY <1>2, CaughtAt, FaultCount
<1> QED BY <1>1, <1>2 DEF Answer

\* One turn of a loop: on to the next cluster, past the last one, or to a handler.
LEMMA TurnType ==
  ASSUME TypeOK, CrawlOK, pc \in Loops, NEW after, Turn(after)
  PROVE  /\ pc' \in {pc, after} \cup Failing \cup {"exit"}
         /\ pc' = pc /\ pc # after => k < Len(plan) /\ k' = k + 1
         /\ pc' = after /\ pc # after /\ after \notin Failing \cup {"exit"} =>
              k = Len(plan) /\ k' = 1
         /\ k' \in Nat \ {0}
         /\ faults' \in 0..MaxFaults
PROOF
<1>1. k \in 1..Len(plan) /\ Len(plan) \in Nat
  BY AtCluster
<1>2. pc \notin Failing \cup {"exit"}
  BY DEF Loops, Failing
<1>3. CASE k = Len(plan)
  BY <1>1, <1>2, <1>3, CaughtAt, FaultCount DEF Turn, Answer, TypeOK
<1>4. CASE k # Len(plan)
  BY <1>1, <1>2, <1>4, CaughtAt, FaultCount DEF Turn, Answer, TypeOK
<1> QED BY <1>3, <1>4

\* The order of the stages, and what it makes of the guard.
LEMMA StageOrder ==
  /\ Ordinal["started"] = 0 /\ Ordinal["articles_persisted"] = 1
  /\ Ordinal["clusters_persisted"] = 2 /\ Ordinal["classified"] = 3
  /\ Ordinal["publishable"] = 4 /\ Ordinal["published"] = 5
  /\ Ordinal["failed_retryable"] = -1 /\ Ordinal["absent"] = -1
  BY DEF Ordinal, Status, Stage

\* Redirecting an entry's predecessors keeps the rows' type.
LEMMA RedirectedType ==
  ASSUME TypeOK, CrawlOK, pc \in Loops
  PROVE  Redirected(plan[k]) \in [ClusterId -> ClusterRow]
PROOF
<1>1. plan[k].target \in ClusterId
  BY AtCluster
<1>2. ASSUME NEW c \in ClusterId
      PROVE  /\ cluster[c] \in ClusterRow
             /\ [cluster[c] EXCEPT !.status = "merged", !.into = plan[k].target] \in ClusterRow
  BY <1>1 DEF TypeOK, ClusterRow
<1> QED BY <1>2 DEF Redirected

\* The plan, input and score change only at the ends of a crawl and in planning.
LEMMA TypeInit == Init => TypeOK /\ CrawlOK
  BY IngestAssumption
  DEF Init, TypeOK, CrawlOK, Loops, Failing, NoRow, NoSnapshot, ClusterRow, Snapshot,
      Status, Stage, NoCluster

LEMMA TypeStep == TypeOK /\ CrawlOK /\ [Next]_vars => TypeOK' /\ CrawlOK'
PROOF
<1> SUFFICES ASSUME TypeOK, CrawlOK, [Next]_vars
             PROVE  TypeOK' /\ CrawlOK'
  OBVIOUS
<1>1. ASSUME NEW i \in Input, NEW s \in Score, BeginCrawl(i, s)
      PROVE  TypeOK' /\ CrawlOK'
  BY <1>1, ArticlesType, IngestAssumption
  DEF BeginCrawl, TypeOK, CrawlOK, d1, Loops, Failing, CanFail
<1>b. CASE BailOut
  BY <1>b DEF BailOut, TypeOK, CrawlOK, d1, attempt, Loops, Failing, Snapshot, NoSnapshot
<1>2. CASE PlanCluster
  <2>1. PICK e \in Event, id \in ClusterId, prev \in SUBSET Active :
          /\ e = EventsOf[input][Len(plan) + 1]
          /\ plan' = Append(plan, Planned(e, id, prev))
    BY <1>2, PlanClusterAppends
  <2>2. Planned(e, id, prev) \in PlanEntry /\ Planned(e, id, prev).event = e
    BY PlannedType DEF Active
  <2>3. TypeOK'
    BY <1>2, <2>1, <2>2, PlanGrows DEF PlanCluster, TypeOK, d1
  <2>4. CrawlOK'
    BY <1>2, <2>1, <2>2, PlanGrows, ArticlesType
    DEF PlanCluster, TypeOK, CrawlOK, Loops, Failing
  <2> QED BY <2>3, <2>4
<1>3. CASE RestoreManifest
  <2> DEFINE at(j) == IF Recorded(plan[j]) = {} THEN plan[j]
                      ELSE [plan[j] EXCEPT !.id = (CHOOSE m \in Recorded(plan[j]) : TRUE).id]
  <2>1. \A j \in DOMAIN plan : at(j) \in PlanEntry /\ at(j).event = plan[j].event
    <3> SUFFICES ASSUME NEW j \in DOMAIN plan
                 PROVE  at(j) \in PlanEntry /\ at(j).event = plan[j].event
      OBVIOUS
    <3>1. plan[j] \in PlanEntry
      BY DEF TypeOK
    <3>2. CASE Recorded(plan[j]) = {}
      BY <3>1, <3>2
    <3>3. CASE Recorded(plan[j]) # {}
      <4>1. (CHOOSE m \in Recorded(plan[j]) : TRUE) \in ManifestRow
        BY <3>3 DEF Recorded, TypeOK
      <4> QED BY <3>1, <3>3, <4>1 DEF PlanEntry, ManifestRow
    <3> QED BY <3>2, <3>3
  <2>2. plan' = [j \in DOMAIN plan |-> at(j)]
    BY <1>3 DEF RestoreManifest
  <2> HIDE DEF at
  <2>3. plan' \in Seq(PlanEntry) /\ Len(plan') = Len(plan) /\ DOMAIN plan' = DOMAIN plan
        /\ \A j \in DOMAIN plan : plan'[j].event = plan[j].event
    BY <2>1, <2>2 DEF TypeOK
  <2>4. TypeOK'
    BY <1>3, <2>3 DEF RestoreManifest, TypeOK, d1, CanFail
  <2>5. CrawlOK'
    BY <1>3, <2>3 DEF RestoreManifest, TypeOK, CrawlOK, Loops, Failing
  <2> QED BY <2>4, <2>5
<1>4. CASE StartRun
  BY <1>4, ArticlesType, AnswerType
  DEF StartRun, TypeOK, CrawlOK, d1, attempt,
      Loops, Failing, CanFail, FirstBlock, AtOrBefore, Status, Stage
<1>5. CASE ResumeRun
  BY <1>5, ArticlesType, AnswerType
  DEF ResumeRun, TypeOK, CrawlOK, d1, attempt,
      Loops, Failing, CanFail, FirstBlock, AtOrBefore, Status, Stage, Ordinal
<1>6. CASE UpsertManifest
  BY <1>6, AtCluster, TurnType
  DEF UpsertManifest, TypeOK, CrawlOK, d1, attempt,
      Loops, Failing, CanFail, RowOf, ManifestRow
<1>7. CASE ManifestRejected
  BY <1>7, CaughtAt, FaultCount
  DEF ManifestRejected, TypeOK, CrawlOK, d1, attempt,
      Loops, Failing, CanFail
<1>8. CASE PersistArticles
  BY <1>8, ArticlesType, AnswerType
  DEF PersistArticles, TypeOK, CrawlOK, d1, attempt,
      Loops, Failing, CanFail
<1>9. CASE WritePayload
  BY <1>9, AtCluster, TurnType
  DEF WritePayload, TypeOK, CrawlOK, d1, attempt,
      Loops, Failing, CanFail
<1>10. CASE InsertCluster
  BY <1>10, AtCluster, TurnType
  DEF InsertCluster, TypeOK, CrawlOK, d1, attempt,
      Loops, Failing, CanFail, ClusterRow
<1>11. CASE AttachSources
  BY <1>11, AtCluster, ArticlesType, TurnType
  DEF AttachSources, TypeOK, CrawlOK, d1, attempt,
      Loops, Failing, CanFail
<1>12. CASE LinkCluster
  <2>1. cluster' \in [ClusterId -> ClusterRow]
    BY <1>12, RedirectedType DEF LinkCluster, Loops
  <2>2. lineage' \in SUBSET (ClusterId \X ClusterId)
    BY <1>12, AtCluster DEF LinkCluster, Loops, TypeOK
  <2> QED
    BY <1>12, <2>1, <2>2, AtCluster, TurnType
    DEF LinkCluster, TypeOK, CrawlOK, d1, attempt, Loops, Failing, CanFail
<1>13. CASE LinkRejected
  BY <1>13, CaughtAt, FaultCount
  DEF LinkRejected, TypeOK, CrawlOK, d1, attempt,
      Loops, Failing, CanFail
<1>14. CASE Classify
  BY <1>14, CaughtAt, FaultCount
  DEF Classify, TypeOK, CrawlOK, d1, attempt,
      Loops, Failing, CanFail
<1>15. CASE Mark
  BY <1>15, ArticlesType
  DEF Mark, TypeOK, CrawlOK, d1, attempt,
      Loops, Failing, CanFail
<1>16. CASE RewritePayload
  BY <1>16, AtCluster, TurnType
  DEF RewritePayload, TypeOK, CrawlOK, d1, attempt,
      Loops, Failing, CanFail
<1>17. CASE Archived
  BY <1>17, CaughtAt, FaultCount
  DEF Archived, TypeOK, CrawlOK, d1, attempt,
      Loops, Failing, CanFail
<1>18. CASE WriteSnapshot
  <2>1. PlanIds \in SUBSET ClusterId
    <3>1. \A j \in DOMAIN plan : plan[j] \in PlanEntry
      BY DEF TypeOK
    <3> QED BY <3>1 DEF PlanIds, PlanEntry
  <2>2. draft' \in SUBSET ClusterId
    BY <1>18, <2>1 DEF WriteSnapshot
  <2>3. pc = "snapshot" /\ pc' \in {"deploy", "published"}
    BY <1>18 DEF WriteSnapshot
  <2>4. UNCHANGED <<d1, blob, homepage, input, score, plan, k, faults>>
    BY <1>18 DEF WriteSnapshot
  <2>5. TypeOK'
    BY <2>2, <2>3, <2>4 DEF TypeOK, d1, CanFail
  <2> QED
    BY <2>3, <2>4, <2>5 DEF CrawlOK, Loops, Failing
<1>19. CASE Deploy
  BY <1>19, CaughtAt, FaultCount
  DEF Deploy, TypeOK, CrawlOK, d1, attempt,
      Loops, Failing, CanFail, Snapshot
<1>20. CASE FailClusters
  BY <1>20, CaughtAt, FaultCount
  DEF FailClusters, TypeOK, CrawlOK, d1, attempt,
      Loops, Failing, CanFail, MarkFailed, Swallowed, Status
<1>21. CASE FailWithOrphans
  BY <1>21, CaughtAt, FaultCount
  DEF FailWithOrphans, TypeOK, CrawlOK, d1, attempt,
      Loops, Failing, CanFail, MarkFailed, Swallowed, Status
<1>22. CASE FailOnce
  BY <1>22, CaughtAt, FaultCount
  DEF FailOnce, TypeOK, CrawlOK, d1, attempt,
      Loops, Failing, CanFail, MarkFailed, Swallowed, Status
<1>23. CASE CallFails
  BY <1>23, CaughtAt, FaultCount
  DEF CallFails, TypeOK, CrawlOK, d1, attempt,
      Loops, Failing, CanFail
<1>24. CASE Exit
  BY <1>24, CaughtAt, FaultCount
  DEF Exit, TypeOK, CrawlOK, d1, attempt,
      Loops, Failing, CanFail, Gone
<1>25. CASE Killed
  BY <1>25, CaughtAt, FaultCount
  DEF Killed, TypeOK, CrawlOK, d1, attempt,
      Loops, Failing, CanFail, Gone
<1>26. ASSUME NEW at \in {"articles_done", "clusters_done", "rewrite_done", "publishable", "published"},
             NEW stage \in Stage,
             NEW next \in {"payloads", "classify", "archive", "snapshot", "deploy"},
             Checkpoint(at, stage, next)
      PROVE  TypeOK' /\ CrawlOK'
  BY <1>26, ArticlesType, AnswerType
  DEF Checkpoint, TypeOK, CrawlOK, d1, attempt, Loops, Failing, CanFail, Status
<1>27. CASE UNCHANGED vars
  BY <1>27 DEF vars, TypeOK, CrawlOK
<1> QED
  BY <1>1, <1>b, <1>2, <1>3, <1>4, <1>5, <1>6, <1>7, <1>8, <1>9, <1>10, <1>11, <1>12, <1>13, <1>14, <1>15, <1>16, <1>17, <1>18, <1>19, <1>20, <1>21, <1>22, <1>23, <1>24, <1>25, <1>26, <1>27
  DEF Next, Rest, Work, Persist, Finish, Fail, ArticlesPersisted, ClustersPersisted,
      Classified, Publishable, Published, Stage

\* Every variable stays within its type, for every set of inputs and plans.
THEOREM TypeCorrect == Spec => []TypeOK
PROOF
<1>1. Spec => [](TypeOK /\ CrawlOK)
  BY TypeInit, TypeStep, PTL DEF Spec
<1> QED BY <1>1, PTL

-----------------------------------------------------------------------------
(* The ledger: what the status is at each step, and the abstract ledger.   *)

LEMMA StatusInit == Init => StatusOK /\ PublishedOK
  BY DEF Init, StatusOK, PublishedOK, NoSnapshot

\* Where a crawl goes on, for each status it can find.
LEMMA FirstBlockAt ==
  /\ FirstBlock("started") = "manifest"
  /\ FirstBlock("articles_persisted") = "payloads"
  /\ \A s \in PastClusters : FirstBlock(s) = "classify"
  BY StageOrder DEF FirstBlock, AtOrBefore, PastClusters, PastArticles, Stage

LEMMA StatusStep ==
  TypeOK /\ CrawlOK /\ StatusOK /\ PublishedOK /\ [Next]_vars => StatusOK' /\ PublishedOK'
PROOF
<1> SUFFICES ASSUME TypeOK, CrawlOK, StatusOK, PublishedOK, [Next]_vars
             PROVE  StatusOK' /\ PublishedOK'
  OBVIOUS
<1>1. CASE (\E i \in Input, s \in Score : BeginCrawl(i, s)) \/ PlanCluster \/ RestoreManifest
  BY <1>1 DEF BeginCrawl, PlanCluster, RestoreManifest, StatusOK, PublishedOK, d1
<1>b. CASE BailOut
  BY <1>b DEF BailOut, NoSnapshot, StatusOK, PublishedOK, d1, attempt
<1>2. CASE StartRun
  <2>1. /\ input \in Input /\ run' \in [Input -> Status] /\ UNCHANGED <<input, homepage>>
        /\ \A i \in Input : run[i] = "published" => run'[i] = "published"
        /\ run'[input] # "absent"
    BY <1>2 DEF StartRun, TypeOK, CrawlOK, attempt, Status, Stage
  <2> DEFINE next == IF run'[input] = "failed_retryable" THEN "resume"
                     ELSE FirstBlock(run'[input])
  <2>3. pc' \in {next} \cup Failing \cup {"exit"}
    BY <1>2, AnswerType DEF StartRun
  <2>4. PublishedOK'
    BY <2>1 DEF PublishedOK
  <2>5. CASE run'[input] \in {"failed_retryable", "started", "articles_persisted"}
    BY <2>1, <2>3, <2>4, <2>5, FirstBlockAt DEF StatusOK, Failing
  <2>6. CASE run'[input] \in PastClusters
    BY <2>1, <2>3, <2>4, <2>6, FirstBlockAt DEF StatusOK, Failing, PastClusters, PastArticles, Stage
  <2> QED
    BY <2>1, <2>4, <2>5, <2>6 DEF Status, Stage, PastClusters, PastArticles
<1>3. CASE ResumeRun
  BY <1>3, AnswerType, StageOrder, FirstBlockAt
  DEF ResumeRun, TypeOK, CrawlOK, StatusOK, PublishedOK, d1, attempt, Loops, Failing
<1>4. CASE UpsertManifest
  BY <1>4, TurnType
  DEF UpsertManifest, TypeOK, CrawlOK, StatusOK, PublishedOK, d1, attempt, Loops, Failing
<1>5. CASE ManifestRejected
  BY <1>5, CaughtAt
  DEF ManifestRejected, TypeOK, CrawlOK, StatusOK, PublishedOK, d1, attempt, Loops, Failing
<1>6. CASE PersistArticles
  BY <1>6, AnswerType
  DEF PersistArticles, TypeOK, CrawlOK, StatusOK, PublishedOK, d1, attempt, Loops, Failing
<1>7. CASE WritePayload
  BY <1>7, TurnType
  DEF WritePayload, TypeOK, CrawlOK, StatusOK, PublishedOK, d1, attempt, Loops, Failing
<1>8. CASE InsertCluster
  BY <1>8, TurnType
  DEF InsertCluster, TypeOK, CrawlOK, StatusOK, PublishedOK, d1, attempt, Loops, Failing
<1>9. CASE AttachSources
  BY <1>9, TurnType
  DEF AttachSources, TypeOK, CrawlOK, StatusOK, PublishedOK, d1, attempt, Loops, Failing
<1>10. CASE LinkCluster
  BY <1>10, TurnType
  DEF LinkCluster, TypeOK, CrawlOK, StatusOK, PublishedOK, d1, attempt, Loops, Failing
<1>11. CASE LinkRejected
  BY <1>11, CaughtAt
  DEF LinkRejected, TypeOK, CrawlOK, StatusOK, PublishedOK, d1, attempt, Loops, Failing
<1>12. CASE Classify
  BY <1>12, CaughtAt
  DEF Classify, TypeOK, CrawlOK, StatusOK, PublishedOK, d1, attempt, Loops, Failing
<1>13. CASE Mark
  BY <1>13, StageOrder
  DEF Mark, TypeOK, CrawlOK, StatusOK, PublishedOK, d1, attempt, Loops, Failing, AtOrBefore, PastClusters, PastArticles, Stage
<1>14. CASE RewritePayload
  BY <1>14, TurnType
  DEF RewritePayload, TypeOK, CrawlOK, StatusOK, PublishedOK, d1, attempt, Loops, Failing
<1>15. CASE Archived
  BY <1>15, StageOrder
  DEF Archived, TypeOK, CrawlOK, StatusOK, PublishedOK, d1, attempt, Loops, Failing, AtOrBefore
<1>16. CASE WriteSnapshot
  BY <1>16, StageOrder
  DEF WriteSnapshot, TypeOK, CrawlOK, StatusOK, PublishedOK, d1, attempt, Loops, Failing
<1>17. CASE Deploy
  BY <1>17, StageOrder
  DEF Deploy, TypeOK, CrawlOK, StatusOK, PublishedOK, d1, attempt, Loops, Failing, Snapshot
<1>18. CASE FailClusters \/ FailWithOrphans \/ FailOnce
  <2>1. /\ input \in Input /\ run \in [Input -> Status]
        /\ \/ run' = run
           \/ /\ Permitted(run[input], "failed_retryable")
              /\ run' = [run EXCEPT ![input] = "failed_retryable"]
    BY <1>18 DEF FailClusters, FailWithOrphans, FailOnce, MarkFailed, Swallowed, CrawlOK, TypeOK
  <2>2. pc' \in {"fail_persist", "exit"} /\ UNCHANGED <<homepage, input>>
    BY <1>18 DEF FailClusters, FailWithOrphans, FailOnce, attempt
  <2> QED
    BY <2>1, <2>2 DEF StatusOK, PublishedOK, Permitted, Stage
<1>19. CASE CallFails
  BY <1>19, CaughtAt DEF CallFails, StatusOK, PublishedOK, d1, attempt, Failing
<1>20. CASE Exit \/ Killed
  BY <1>20 DEF Exit, Killed, Gone, StatusOK, PublishedOK, d1
<1>21. CASE ArticlesPersisted
  BY <1>21, AnswerType
  DEF ArticlesPersisted, Checkpoint, TypeOK, CrawlOK, StatusOK, PublishedOK, d1, attempt, Failing,
      PastClusters, PastArticles, Stage
<1>22. CASE ClustersPersisted
  BY <1>22, AnswerType
  DEF ClustersPersisted, Checkpoint, TypeOK, CrawlOK, StatusOK, PublishedOK, d1, attempt, Failing,
      PastClusters, PastArticles, Stage
<1>23. CASE Classified
  BY <1>23, AnswerType
  DEF Classified, Checkpoint, TypeOK, CrawlOK, StatusOK, PublishedOK, d1, attempt, Failing,
      PastClusters, PastArticles, Stage
<1>24. CASE Publishable
  BY <1>24, AnswerType
  DEF Publishable, Checkpoint, TypeOK, CrawlOK, StatusOK, PublishedOK, d1, attempt, Failing,
      PastClusters, PastArticles, Stage
<1>25. CASE Published
  BY <1>25, AnswerType
  DEF Published, Checkpoint, TypeOK, CrawlOK, StatusOK, PublishedOK, d1, attempt, Failing,
      PastClusters, PastArticles, Stage
<1>26. CASE UNCHANGED vars
  BY <1>26 DEF vars, StatusOK, PublishedOK
<1> QED
  BY <1>1, <1>b, <1>2, <1>3, <1>4, <1>5, <1>6, <1>7, <1>8, <1>9, <1>10, <1>11, <1>12, <1>13, <1>14, <1>15, <1>16, <1>17, <1>18, <1>19, <1>20, <1>21, <1>22, <1>23, <1>24, <1>25, <1>26
  DEF Next, Rest, Work, Persist, Finish, Fail

-----------------------------------------------------------------------------
(* What the crawl has written.                                             *)

\* Nothing stored is ever taken away, whichever step is taken.
LEMMA StoresGrow ==
  ASSUME TypeOK, CrawlOK, [Next]_vars
  PROVE  /\ articles \subseteq articles' /\ source \subseteq source' /\ blob \subseteq blob'
         /\ \A c \in ClusterId : Exists(c) => Exists(c)'
PROOF
<1>1. CASE InsertCluster
  BY <1>1, AtCluster DEF InsertCluster, Loops, TypeOK, Exists, attempt
<1>2. CASE LinkCluster
  BY <1>2 DEF LinkCluster, Redirected, TypeOK, Exists, ClusterRow, attempt
<1>3. CASE PersistArticles \/ AttachSources \/ WritePayload \/ RewritePayload
  BY <1>3 DEF PersistArticles, AttachSources, WritePayload, RewritePayload, Exists, d1
<1>4. CASE UNCHANGED <<articles, source, blob, cluster>>
  BY <1>4 DEF Exists
<1>5. CASE StartRun \/ ResumeRun \/ UpsertManifest \/ ManifestRejected \/ LinkRejected
           \/ Classify \/ Mark \/ Archived \/ WriteSnapshot \/ Deploy \/ Fail
  BY <1>4, <1>5
  DEF StartRun, ResumeRun, UpsertManifest, ManifestRejected, LinkRejected, Classify, Mark,
      Archived, WriteSnapshot, Deploy, Fail, FailClusters, FailWithOrphans, FailOnce, d1
<1>6. CASE ArticlesPersisted \/ ClustersPersisted \/ Classified \/ Publishable \/ Published
  BY <1>4, <1>6
  DEF ArticlesPersisted, ClustersPersisted, Classified, Publishable, Published, Checkpoint
<1>7. CASE \/ BailOut \/ \E i \in Input, s \in Score : BeginCrawl(i, s)
           \/ PlanCluster \/ RestoreManifest \/ CallFails \/ Exit \/ Killed
  BY <1>4, <1>7
  DEF BailOut, BeginCrawl, PlanCluster, RestoreManifest, CallFails, Exit, Killed, Gone, d1
<1>8. CASE UNCHANGED vars
  BY <1>4, <1>8 DEF vars
<1> QED
  BY <1>1, <1>2, <1>3, <1>5, <1>6, <1>7, <1>8 DEF Next, Rest, Work, Persist, Finish

\* Some cluster of every crawl has articles.
LEMMA PlanHasArticles ==
  ASSUME TypeOK, CrawlOK, pc = "classify"
  PROVE  \E j \in DOMAIN plan : ArticlesOf(plan[j].event) # {}
PROOF
<1>1. input \in Input /\ DOMAIN plan = DOMAIN EventsOf[input]
  BY IngestAssumption DEF CrawlOK, TypeOK
<1>2. PICK j \in DOMAIN EventsOf[input] : Members[EventsOf[input][j]] # << >>
  BY <1>1, IngestAssumption
<1>3. EventsOf[input][j] \in Event
  BY <1>1, IngestAssumption
<1>4. Members[EventsOf[input][j]] \in Seq(Article)
  BY <1>3, IngestAssumption
<1>5. 1 \in DOMAIN Members[EventsOf[input][j]]
  BY <1>2, <1>4
<1>6. plan[j].event = EventsOf[input][j]
  BY <1>1 DEF CrawlOK
<1> QED BY <1>1, <1>5, <1>6 DEF ArticlesOf

LEMMA RefersInit == Init => RefersOK
  BY DEF Init, RefersOK

LEMMA RefersStep ==
  TypeOK /\ CrawlOK /\ WrittenOK /\ RefersOK /\ [Next]_vars => RefersOK'
PROOF
<1> SUFFICES ASSUME TypeOK, CrawlOK, WrittenOK, RefersOK, [Next]_vars
             PROVE  RefersOK'
  OBVIOUS
<1>0. \A c \in ClusterId : Exists(c) => Exists(c)'
  BY StoresGrow
<1>p. \A j \in DOMAIN plan : plan[j] \in PlanEntry
  BY DEF TypeOK
<1>u. CASE UNCHANGED <<plan, draft>>
  BY <1>0, <1>p, <1>u DEF RefersOK, PlanEntry, TypeOK
<1>1. CASE PlanCluster
  <2>1. PICK e \in Event, id \in ClusterId, prev \in SUBSET Active :
          plan' = Append(plan, Planned(e, id, prev))
    BY <1>1, PlanClusterAppends
  <2>2. /\ Planned(e, id, prev) \in PlanEntry
        /\ Planned(e, id, prev).merges \cup Planned(e, id, prev).splits \subseteq prev
    BY PlannedType DEF Active
  <2>3. UNCHANGED <<cluster, draft>>
    BY <1>1 DEF PlanCluster, d1
  <2>4. \A c \in prev : Exists(c)
    BY DEF Active, Exists
  <2>5. \A j \in DOMAIN plan' : \A c \in plan'[j].merges \cup plan'[j].splits : Exists(c)
    BY <2>1, <2>2, <2>4, PlanGrows DEF RefersOK, TypeOK
  <2> QED BY <2>3, <2>5 DEF RefersOK, Exists
<1>2. CASE RestoreManifest
  <2>1. UNCHANGED <<cluster, draft>>
    BY <1>2 DEF RestoreManifest, d1
  <2> DEFINE at(j) == IF Recorded(plan[j]) = {} THEN plan[j]
                      ELSE [plan[j] EXCEPT !.id = (CHOOSE m \in Recorded(plan[j]) : TRUE).id]
  <2>2. \A j \in DOMAIN plan : at(j).merges = plan[j].merges /\ at(j).splits = plan[j].splits
    BY <1>p DEF PlanEntry
  <2>3. plan' = [j \in DOMAIN plan |-> at(j)]
    BY <1>2 DEF RestoreManifest
  <2> HIDE DEF at
  <2>4. \A j \in DOMAIN plan' : j \in DOMAIN plan /\ plan'[j].merges = plan[j].merges
                                /\ plan'[j].splits = plan[j].splits
    BY <2>2, <2>3
  <2> QED BY <2>1, <2>4 DEF RefersOK, Exists
<1>3. CASE WriteSnapshot
  <2>1. UNCHANGED <<cluster, plan>> /\ draft' \subseteq PlanIds
    BY <1>3 DEF WriteSnapshot, d1
  <2>2. \A c \in PlanIds : Exists(c)
    BY <1>3 DEF WriteSnapshot, WrittenOK, PlanIds
  <2> QED BY <2>1, <2>2 DEF RefersOK, Exists
<1>4. CASE Exit \/ Killed
  BY <1>4 DEF Exit, Killed, Gone, RefersOK
<1>5. CASE \/ BailOut \/ \E i \in Input, s \in Score : BeginCrawl(i, s)
           \/ StartRun \/ ResumeRun \/ UpsertManifest \/ ManifestRejected \/ PersistArticles
           \/ WritePayload \/ InsertCluster \/ AttachSources \/ LinkCluster \/ LinkRejected
           \/ Classify \/ Mark \/ RewritePayload \/ Archived \/ Deploy \/ Fail \/ CallFails
  BY <1>5, <1>u
  DEF BailOut, BeginCrawl, StartRun, ResumeRun, UpsertManifest, ManifestRejected, PersistArticles,
      WritePayload, InsertCluster, AttachSources, LinkCluster, LinkRejected, Classify, Mark,
      RewritePayload, Archived, Deploy, Fail, FailClusters, FailWithOrphans, FailOnce,
      CallFails, attempt
<1>6. CASE ArticlesPersisted \/ ClustersPersisted \/ Classified \/ Publishable \/ Published
  BY <1>6, <1>u
  DEF ArticlesPersisted, ClustersPersisted, Classified, Publishable, Published, Checkpoint, attempt
<1>7. CASE UNCHANGED vars
  BY <1>7, <1>u DEF vars
<1> QED
  BY <1>1, <1>2, <1>3, <1>4, <1>5, <1>6, <1>7 DEF Next, Rest, Work, Persist, Finish

\* Each loop has done its work for the clusters behind it, and for all of them
\* when it is over.
LEMMA WrittenInit == Init => WrittenOK
  BY DEF Init, WrittenOK

LEMMA WrittenStep == TypeOK /\ CrawlOK /\ WrittenOK /\ [Next]_vars => WrittenOK'
PROOF
<1> SUFFICES ASSUME TypeOK, CrawlOK, WrittenOK, [Next]_vars
             PROVE  WrittenOK'
  OBVIOUS
<1>0. \A c \in ClusterId : Exists(c) => Exists(c)'
  BY StoresGrow
<1>p. /\ \A j \in DOMAIN plan : plan[j] \in PlanEntry /\ plan[j].id \in ClusterId
      /\ Len(plan) \in Nat /\ DOMAIN plan = 1..Len(plan)
  <2>1. \A j \in DOMAIN plan : plan[j] \in PlanEntry
    BY DEF TypeOK
  <2>2. Len(plan) \in Nat /\ DOMAIN plan = 1..Len(plan)
    BY DEF TypeOK
  <2> QED BY <2>1, <2>2 DEF PlanEntry
<1>k. /\ \A j \in 1..k : j = k \/ j \in 1..(k - 1)
      /\ 1..((k + 1) - 1) = 1..k
      /\ k <= Len(plan) => 1..k \subseteq DOMAIN plan /\ 1..(k - 1) \subseteq DOMAIN plan
  BY <1>p DEF TypeOK
<1>l. pc \in Loops => k <= Len(plan)
  BY DEF CrawlOK
<1>1. CASE \/ BailOut \/ \E i \in Input, s \in Score : BeginCrawl(i, s)
           \/ PlanCluster \/ RestoreManifest \/ Exit \/ Killed
  BY <1>1 DEF BailOut, BeginCrawl, PlanCluster, RestoreManifest, Exit, Killed, Gone, d1, attempt, WrittenOK
<1>2. CASE StartRun \/ ResumeRun
  <2>1. pc' \in {"resume", "manifest", "payloads", "classify"} \cup Failing \cup {"exit"}
    <3>1. \A s : FirstBlock(s) \in {"manifest", "payloads", "classify"}
      BY DEF FirstBlock
    <3> QED BY <1>2, <3>1, AnswerType DEF StartRun, ResumeRun
  <2>2. k' = 1
    BY <1>2 DEF StartRun, ResumeRun, CrawlOK, Loops, Failing
  <2> QED BY <2>1, <2>2 DEF WrittenOK, Failing
<1>3. CASE UpsertManifest
  <2>1. pc' \in {"manifest", "articles"} \cup Failing \cup {"exit"}
    BY <1>3, TurnType DEF UpsertManifest, Loops
  <2> QED BY <2>1 DEF WrittenOK, Failing
<1>4. CASE ManifestRejected \/ LinkRejected \/ CallFails
  BY <1>4, CaughtAt DEF ManifestRejected, LinkRejected, CallFails, WrittenOK, Failing
<1>5. CASE PersistArticles
  <2>1. pc' \in {"articles_done"} \cup Failing \cup {"exit"}
    BY <1>5, AnswerType DEF PersistArticles
  <2>2. InputArticles(input) \subseteq articles' /\ input' = input
    BY <1>5 DEF PersistArticles, attempt
  <2> QED BY <2>1, <2>2 DEF WrittenOK, Failing, InputArticles
<1>6. CASE WritePayload
  <2>1. /\ pc' \in {"payloads", "insert"} \cup Failing \cup {"exit"}
        /\ pc' = "payloads" => k' = k + 1
        /\ pc' = "insert" => k = Len(plan) /\ k' = 1
    BY <1>6, TurnType DEF WritePayload, Loops, Failing
  <2>2. \A j \in 1..k : plan[j].id \in blob'
    BY <1>6, <1>k DEF WritePayload, WrittenOK
  <2>3. UNCHANGED plan
    BY <1>6 DEF WritePayload, attempt
  <2>4. pc' = "payloads" => \A j \in 1..(k' - 1) : plan'[j].id \in blob'
    BY <2>1, <2>2, <2>3, <1>k
  <2>5. pc' = "insert" => (\A j \in DOMAIN plan' : plan'[j].id \in blob') /\ k' = 1
    BY <2>1, <2>2, <2>3, <1>p
  <2> QED BY <2>1, <2>4, <2>5 DEF WrittenOK, Failing
<1>7. CASE InsertCluster
  <2>1. /\ pc' \in {"insert", "attach"} \cup Failing \cup {"exit"}
        /\ pc' = "insert" => k' = k + 1
        /\ pc' = "attach" => k = Len(plan) /\ k' = 1
    BY <1>7, TurnType DEF InsertCluster, Loops, Failing
  <2>2. UNCHANGED <<plan, blob>> /\ pc = "insert"
    BY <1>7 DEF InsertCluster, attempt
  <2>3. \A j \in 1..k : cluster'[plan[j].id].status # "absent"
    <3>1. \A j \in 1..(k - 1) : cluster'[plan[j].id].status # "absent"
      BY <2>2, <1>0, <1>p, <1>k, <1>l DEF WrittenOK, Exists, Loops
    <3>2. cluster'[plan[k].id].status # "absent"
      BY <1>7, AtCluster DEF InsertCluster, Loops, TypeOK
    <3> QED BY <3>1, <3>2, <1>k
  <2>4. pc' = "insert" => \A j \in 1..(k' - 1) : cluster'[plan'[j].id].status # "absent"
    BY <2>1, <2>2, <2>3, <1>k
  <2>5. pc' = "attach" =>
          (\A j \in DOMAIN plan' : cluster'[plan'[j].id].status # "absent") /\ k' = 1
    BY <2>1, <2>2, <2>3, <1>p
  <2>6. pc' \in {"insert", "attach"} => \A j \in DOMAIN plan' : plan'[j].id \in blob'
    BY <2>2 DEF WrittenOK
  <2> QED BY <2>1, <2>4, <2>5, <2>6 DEF WrittenOK, Failing, Exists
<1>8. CASE AttachSources
  <2>1. /\ pc' \in {"attach", "link"} \cup Failing \cup {"exit"}
        /\ pc' = "attach" => k' = k + 1
        /\ pc' = "link" => k = Len(plan) /\ k' = 1
    BY <1>8, TurnType DEF AttachSources, Loops, Failing
  <2>2. UNCHANGED <<plan, blob, cluster>> /\ pc = "attach"
    BY <1>8 DEF AttachSources, attempt
  <2>3. \A j \in 1..k : /\ {plan[j].id} \X ArticlesOf(plan[j].event) \subseteq source'
                        /\ orphan'[plan[j].id] # "pending"
    <3>1. \A j \in 1..(k - 1) : /\ {plan[j].id} \X ArticlesOf(plan[j].event) \subseteq source
                                /\ orphan[plan[j].id] # "pending"
                                /\ plan[j].id \in ClusterId
      BY <2>2, <1>p, <1>k, <1>l DEF WrittenOK, Loops
    <3>2. /\ source' = source \cup ({plan[k].id} \X ArticlesOf(plan[k].event))
          /\ orphan' = IF orphan[plan[k].id] = "pending"
                       THEN [orphan EXCEPT ![plan[k].id] = "adopted"] ELSE orphan
      BY <1>8 DEF AttachSources
    <3>3. orphan \in [ClusterId -> {"none", "pending", "adopted"}] /\ k \in Nat \ {0}
      BY DEF TypeOK
    <3>4. plan[k].id \in ClusterId
      BY <2>2, AtCluster DEF Loops
    <3>5. orphan'[plan[k].id] # "pending" /\ \A c \in ClusterId :
            orphan[c] # "pending" => orphan'[c] # "pending"
      BY <3>2, <3>3, <3>4
    <3>6. ASSUME NEW j \in 1..k
          PROVE  /\ {plan[j].id} \X ArticlesOf(plan[j].event) \subseteq source'
                 /\ orphan'[plan[j].id] # "pending"
      <4>1. CASE j = k
        BY <3>2, <3>5, <4>1
      <4>2. CASE j # k
        <5>1. j \in 1..(k - 1)
          BY <4>2, <1>k
        <5> QED BY <3>1, <3>2, <3>5, <5>1
      <4> QED BY <4>1, <4>2
    <3> QED BY <3>6
  <2>4. pc' = "attach" => \A j \in 1..(k' - 1) :
          /\ {plan[j].id} \X ArticlesOf(plan[j].event) \subseteq source'
          /\ orphan'[plan[j].id] # "pending"
    BY <2>1, <2>3, <1>k
  <2>5. pc' = "link" => \A j \in DOMAIN plan :
          /\ {plan[j].id} \X ArticlesOf(plan[j].event) \subseteq source'
          /\ orphan'[plan[j].id] # "pending"
    BY <2>1, <2>3, <1>p
  <2>6. \A j \in DOMAIN plan : plan[j].id \in blob /\ Exists(plan[j].id)
    BY <2>2 DEF WrittenOK
  <2>7. \A j \in DOMAIN plan' : plan'[j].id \in blob' /\ cluster'[plan'[j].id].status # "absent"
    BY <2>2, <2>6 DEF Exists
  <2>8. CASE pc' = "attach"
    BY <2>2, <2>4, <2>7, <2>8 DEF WrittenOK, Exists
  <2>9. CASE pc' = "link"
    BY <2>2, <2>5, <2>7, <2>9 DEF WrittenOK, Exists
  <2> QED
    BY <2>1, <2>8, <2>9 DEF WrittenOK, Failing
<1>9. CASE LinkCluster
  <2>1. pc' \in {"link", "clusters_done"} \cup Failing \cup {"exit"}
    BY <1>9, TurnType DEF LinkCluster, Loops
  <2>2. pc = "link" /\ UNCHANGED <<plan, blob, source, orphan>>
    BY <1>9 DEF LinkCluster, attempt
  <2>3. \A j \in DOMAIN plan : cluster'[plan[j].id].status # "absent"
    BY <2>2, <1>0, <1>p DEF WrittenOK, Exists
  <2> QED BY <2>1, <2>2, <2>3 DEF WrittenOK, Failing, Exists, ArticlesOf
<1>10. CASE Classify
  <2>1. pc' \in {"mark"} \cup Failing \cup {"exit"} /\ (pc' = "mark" => Classifiable)
    BY <1>10, CaughtAt DEF Classify, Failing
  <2>2. UNCHANGED <<plan, cluster>>
    BY <1>10 DEF Classify, attempt, d1
  <2>3. pc' = "mark" => \A j \in DOMAIN plan : Exists(plan[j].id)
    BY <1>10, <2>1, PlanHasArticles DEF Classify, Classifiable
  <2> QED BY <2>1, <2>2, <2>3 DEF WrittenOK, Failing, Exists
<1>11. CASE Mark \/ Archived
  BY <1>11 DEF Mark, Archived, WrittenOK, d1, attempt, Exists
<1>12. CASE RewritePayload
  <2>1. pc' \in {"rewrite", "rewrite_done"} \cup Failing \cup {"exit"}
    BY <1>12, TurnType DEF RewritePayload, Loops
  <2>2. pc = "rewrite" /\ UNCHANGED <<plan, cluster>>
    BY <1>12 DEF RewritePayload, attempt, d1
  <2> QED BY <2>1, <2>2 DEF WrittenOK, Failing, Exists
<1>13. CASE WriteSnapshot \/ Deploy \/ Fail
  BY <1>13
  DEF WriteSnapshot, Deploy, Fail, FailClusters, FailWithOrphans, FailOnce, WrittenOK
<1>14. CASE ArticlesPersisted \/ ClustersPersisted \/ Published
  <2>1. pc' \in {"payloads", "classify", "deploy"} \cup Failing \cup {"exit"}
    BY <1>14, AnswerType DEF ArticlesPersisted, ClustersPersisted, Published, Checkpoint
  <2>2. pc' = "payloads" => k' = 1
    BY <1>14, <2>1, AnswerType
    DEF ArticlesPersisted, ClustersPersisted, Published, Checkpoint, CrawlOK, Loops, Failing
  <2> QED BY <2>1, <2>2 DEF WrittenOK, Failing
<1>15. CASE Classified \/ Publishable
  <2>1. pc' \in {"archive", "snapshot"} \cup Failing \cup {"exit"}
    BY <1>15, AnswerType DEF Classified, Publishable, Checkpoint
  <2>2. pc \in {"rewrite_done", "publishable"} /\ UNCHANGED <<plan, cluster>>
    BY <1>15 DEF Classified, Publishable, Checkpoint, attempt
  <2> QED BY <2>1, <2>2 DEF WrittenOK, Failing, Exists
<1>16. CASE UNCHANGED vars
  BY <1>16 DEF vars, WrittenOK, Exists
<1> QED
  BY <1>1, <1>2, <1>3, <1>4, <1>5, <1>6, <1>7, <1>8, <1>9, <1>10, <1>11, <1>12, <1>13, <1>14, <1>15, <1>16
  DEF Next, Rest, Work, Persist, Finish

-----------------------------------------------------------------------------
(* The inductive invariant, and how a step can change the ledger.          *)

IInv == TypeOK /\ CrawlOK /\ StatusOK /\ PublishedOK /\ WrittenOK /\ RefersOK

LEMMA Inductive == Spec => []IInv
PROOF
<1>1. Init => IInv
  BY TypeInit, StatusInit, WrittenInit, RefersInit DEF IInv
<1>2. IInv /\ [Next]_vars => IInv'
  BY TypeStep, StatusStep, WrittenStep, RefersStep DEF IInv
<1> QED BY <1>1, <1>2, PTL DEF Spec

Becomes(s) == run' = [run EXCEPT ![input] = s] /\ UNCHANGED homepage

\* The writes a step can make to the ledger, and where it makes them.
LEMMA RunStep ==
  ASSUME IInv, [Next]_vars
  PROVE  \/ UNCHANGED run
         \/ /\ input \in Input
            /\ \/ Becomes("started") /\ run[input] \in {"absent", "failed_retryable"}
               \/ Becomes("failed_retryable") /\ run[input] \in Stage \ {"published"}
               \/ Becomes("articles_persisted") /\ pc = "articles_done" /\ run[input] = "started"
               \/ Becomes("clusters_persisted") /\ pc = "clusters_done"
                  /\ run[input] = "articles_persisted"
               \/ Becomes("classified") /\ run[input] = "clusters_persisted"
               \/ Becomes("publishable") /\ run[input] = "classified"
               \/ Becomes("published") /\ run[input] = "publishable"
PROOF
<1> USE DEF IInv, Becomes
<1>1. CASE StartRun
  BY <1>1 DEF StartRun, CrawlOK
<1>2. CASE ResumeRun
  BY <1>2 DEF ResumeRun, CrawlOK, StatusOK
<1>3. CASE Fail
  BY <1>3 DEF Fail, FailClusters, FailWithOrphans, FailOnce, MarkFailed, Swallowed, Permitted,
     CrawlOK, TypeOK, Status, Stage
<1>4. CASE ArticlesPersisted \/ ClustersPersisted \/ Classified \/ Publishable \/ Published
  BY <1>4 DEF ArticlesPersisted, ClustersPersisted, Classified, Publishable, Published,
     Checkpoint, CrawlOK, StatusOK
<1>5. CASE UpsertManifest \/ ManifestRejected \/ PersistArticles \/ WritePayload \/ InsertCluster
           \/ AttachSources \/ LinkCluster \/ LinkRejected \/ Classify \/ Mark
           \/ RewritePayload \/ Archived \/ WriteSnapshot \/ Deploy
  BY <1>5
  DEF UpsertManifest, ManifestRejected, PersistArticles, WritePayload, InsertCluster,
      AttachSources, LinkCluster, LinkRejected, Classify, Mark, RewritePayload, Archived,
      WriteSnapshot, Deploy, d1
<1>6. CASE \/ BailOut \/ \E i \in Input, s \in Score : BeginCrawl(i, s)
           \/ PlanCluster \/ RestoreManifest \/ CallFails \/ Exit \/ Killed \/ UNCHANGED vars
  BY <1>6 DEF BailOut, BeginCrawl, PlanCluster, RestoreManifest, CallFails, Exit, Killed, Gone, d1, vars
<1> QED
  BY <1>1, <1>2, <1>3, <1>4, <1>5, <1>6 DEF Next, Rest, Work, Persist, Finish

-----------------------------------------------------------------------------
(* Safety.                                                                 *)

\* The transition guard refuses no checkpoint of any crawl (advance, atOrBefore).
THEOREM CheckpointsAccepted == Spec => []NoRefusedCheckpoint
PROOF
<1>1. IInv => NoRefusedCheckpoint
  BY DEF IInv, StatusOK, NoRefusedCheckpoint, Permitted, Stage, Ordinal, Status
<1> QED BY <1>1, Inductive, PTL

LEMMA StagesStep == IInv /\ RecordedStageIsTrue /\ [Next]_vars => RecordedStageIsTrue'
PROOF
<1> SUFFICES ASSUME IInv, RecordedStageIsTrue, [Next]_vars, NEW i \in Input
             PROVE  /\ run'[i] \in PastArticles => InputArticles(i) \subseteq articles'
                    /\ run'[i] \in PastClusters =>
                         \A a \in InputArticles(i) : \E c \in ClusterId :
                           <<c, a>> \in source' /\ cluster'[c].status # "absent"
  BY DEF RecordedStageIsTrue, Exists
<1> USE DEF IInv
<1>1. /\ articles \subseteq articles' /\ source \subseteq source'
      /\ \A c \in ClusterId : cluster[c].status # "absent" => cluster'[c].status # "absent"
  BY StoresGrow DEF Exists
<1>2. CASE run'[i] \in PastArticles => run[i] \in PastArticles
  <2>1. CASE run'[i] \in PastClusters => run[i] \in PastClusters
    BY <1>1, <1>2, <2>1 DEF RecordedStageIsTrue, Exists
  <2>2. CASE run'[i] \in PastClusters /\ run[i] \notin PastClusters
    <3>1. i = input /\ pc = "clusters_done"
      BY <2>2, RunStep DEF Becomes, TypeOK, PastClusters, PastArticles, Stage
    <3>2. ASSUME NEW a \in InputArticles(i)
          PROVE  \E c \in ClusterId : <<c, a>> \in source /\ cluster[c].status # "absent"
      <4>1. PICK j \in DOMAIN EventsOf[i] : a \in ArticlesOf(EventsOf[i][j])
        BY DEF InputArticles
      <4>2. j \in DOMAIN plan /\ plan[j].event = EventsOf[i][j]
        <5>1. Len(plan) = Len(EventsOf[i])
          BY <3>1 DEF CrawlOK
        <5>2. j \in DOMAIN plan
          BY <5>1, IngestAssumption DEF TypeOK
        <5> QED BY <3>1, <5>2 DEF CrawlOK
      <4>3. plan[j].id \in ClusterId
        <5>1. plan[j] \in PlanEntry
          BY <4>2 DEF TypeOK
        <5> QED BY <5>1 DEF PlanEntry
      <4>4. /\ {plan[j].id} \X ArticlesOf(plan[j].event) \subseteq source
            /\ cluster[plan[j].id].status # "absent"
        BY <3>1, <4>2 DEF WrittenOK, Exists
      <4> QED BY <4>1, <4>2, <4>3, <4>4
    <3> QED BY <1>1, <1>2, <3>2 DEF RecordedStageIsTrue
  <2> QED BY <2>1, <2>2
<1>3. CASE run'[i] \in PastArticles /\ run[i] \notin PastArticles
  <2>1. i = input /\ pc = "articles_done" /\ run'[i] \notin PastClusters
    BY <1>3, RunStep DEF Becomes, TypeOK, PastClusters, PastArticles, Stage
  <2>2. InputArticles(i) \subseteq articles
    BY <2>1 DEF WrittenOK
  <2> QED BY <1>1, <2>1, <2>2
<1> QED BY <1>2, <1>3

\* A recorded stage is true whatever was killed, retried, lost or skipped: the
\* articles of a run past articles_persisted are stored, and those of a run past
\* clusters_persisted are attached to clusters (persistDurableInput).
THEOREM StagesAreTrue == Spec => []RecordedStageIsTrue
PROOF
<1>1. Init => RecordedStageIsTrue
  BY DEF Init, RecordedStageIsTrue, PastArticles, PastClusters, Stage
<1>2. IInv /\ RecordedStageIsTrue /\ [Next]_vars => RecordedStageIsTrue'
  BY StagesStep
<1> QED BY <1>1, <1>2, Inductive, PTL DEF Spec

\* Who writes cluster rows and lineage, and who deploys.
LEMMA WriterStep ==
  ASSUME [Next]_vars
  PROVE  /\ InsertCluster \/ LinkCluster \/ UNCHANGED <<cluster, lineage>>
         /\ Deploy \/ BailOut \/ UNCHANGED homepage
PROOF
<1>1. CASE InsertCluster \/ LinkCluster \/ Deploy \/ BailOut
  BY <1>1 DEF BailOut, InsertCluster, LinkCluster, Deploy, d1
<1>2. CASE \/ StartRun \/ ResumeRun \/ UpsertManifest \/ ManifestRejected \/ PersistArticles
           \/ WritePayload \/ AttachSources \/ LinkRejected \/ Classify \/ Mark
           \/ RewritePayload \/ Archived \/ WriteSnapshot \/ Fail
  BY <1>2
  DEF StartRun, ResumeRun, UpsertManifest, ManifestRejected, PersistArticles, WritePayload,
      AttachSources, LinkRejected, Classify, Mark, RewritePayload, Archived, WriteSnapshot,
      Fail, FailClusters, FailWithOrphans, FailOnce, d1
<1>3. CASE ArticlesPersisted \/ ClustersPersisted \/ Classified \/ Publishable \/ Published
  BY <1>3 DEF ArticlesPersisted, ClustersPersisted, Classified, Publishable, Published, Checkpoint
<1>4. CASE \/ \E i \in Input, s \in Score : BeginCrawl(i, s)
           \/ PlanCluster \/ RestoreManifest \/ CallFails \/ Exit \/ Killed \/ UNCHANGED vars
  BY <1>4 DEF BeginCrawl, PlanCluster, RestoreManifest, CallFails, Exit, Killed, Gone, d1, vars
<1> QED
  BY <1>1, <1>2, <1>3, <1>4 DEF Next, Rest, Work, Persist, Finish

LEMMA HomepageStep == IInv /\ IInv' /\ HomepageIsComplete /\ [Next]_vars => HomepageIsComplete'
PROOF
<1> SUFFICES ASSUME IInv, IInv', HomepageIsComplete, [Next]_vars
             PROVE  HomepageIsComplete'
  OBVIOUS
<1>1. homepage'.run # None => run'[homepage'.run] = "published"
  BY DEF IInv, PublishedOK
<1>2. \A c \in ClusterId : cluster[c].status # "absent" => cluster'[c].status # "absent"
  BY StoresGrow DEF IInv, Exists
<1>3. CASE Deploy
  <2>1. homepage'.shown = draft /\ UNCHANGED cluster
    BY <1>3 DEF Deploy, d1
  <2> QED BY <1>1, <2>1 DEF HomepageIsComplete, IInv, RefersOK, Exists
<1>4. CASE UNCHANGED homepage
  <2>1. homepage.shown \subseteq ClusterId
    BY DEF IInv, TypeOK, Snapshot
  <2> QED BY <1>1, <1>2, <1>4, <2>1 DEF HomepageIsComplete, Exists
<1>5. CASE BailOut
  BY <1>5 DEF BailOut, NoSnapshot, HomepageIsComplete
<1> QED BY <1>3, <1>4, <1>5, WriterStep

\* The site only ever shows a published run and clusters that have rows, for
\* every interleaving of crashes and retries (runIngestionPipeline's gates).
THEOREM HomepageComplete == Spec => []HomepageIsComplete
PROOF
<1>1. Init => HomepageIsComplete
  BY DEF Init, HomepageIsComplete, NoSnapshot
<1>2. IInv /\ IInv' /\ HomepageIsComplete /\ [Next]_vars => HomepageIsComplete'
  BY HomepageStep
<1> QED BY <1>1, <1>2, Inductive, PTL DEF Spec

\* Fewer redirects make no cycle.
LEMMA AcyclicFewer ==
  ASSUME NEW rows, NEW fewer, Acyclic(rows),
         \A c \in ClusterId : fewer[c].status = "merged" => fewer[c] = rows[c]
  PROVE  Acyclic(fewer)
  BY DEF Acyclic

LEMMA LineageStep == IInv /\ LineageResolves /\ [Next]_vars => LineageResolves'
PROOF
<1> SUFFICES ASSUME IInv, LineageResolves, [Next]_vars
             PROVE  LineageResolves'
  OBVIOUS
<1> USE DEF IInv
<1>1. \A c \in ClusterId : cluster[c].status # "absent" => cluster'[c].status # "absent"
  BY StoresGrow DEF Exists
<1>2. \A l \in lineage : l[2] \in ClusterId
  BY DEF TypeOK
<1>3. CASE InsertCluster
  <2>1. \A c \in ClusterId : cluster'[c].status = "merged" => cluster'[c] = cluster[c]
    BY <1>3 DEF InsertCluster, TypeOK
  <2>2. Acyclic(cluster')
    BY <2>1, AcyclicFewer DEF LineageResolves
  <2>3. lineage' = lineage
    BY <1>3 DEF InsertCluster
  <2>4. \A l \in lineage' : cluster'[l[2]].status # "absent"
    BY <1>1, <1>2, <2>3 DEF LineageResolves, Exists
  <2>5. \A c \in ClusterId : cluster'[c].status = "merged" => <<c, cluster'[c].into>> \in lineage'
    BY <2>1, <2>3 DEF LineageResolves
  <2> QED BY <2>2, <2>4, <2>5 DEF LineageResolves, Acyclic, Exists
<1>4. CASE LinkCluster
  <2>1. /\ plan[k].target \in ClusterId
        /\ plan[k].merges \in SUBSET ClusterId
    BY <1>4, AtCluster DEF LinkCluster, Loops
  <2>2. /\ cluster' = Redirected(plan[k])
        /\ lineage' = lineage \cup ((plan[k].merges \cup plan[k].splits) \X {plan[k].target})
        /\ Linkable(plan[k])
    BY <1>4 DEF LinkCluster
  <2>3. Acyclic(cluster')
    <3>1. CASE plan[k].merges \cup plan[k].splits = {}
      <4>1. \A c \in ClusterId : cluster'[c] = cluster[c]
        BY <2>2, <3>1 DEF Redirected
      <4> QED BY <4>1, AcyclicFewer DEF LineageResolves
    <3>2. CASE plan[k].merges \cup plan[k].splits # {}
      BY <2>2, <3>2 DEF Linkable
    <3> QED BY <3>1, <3>2
  <2>4. \A l \in lineage' : cluster'[l[2]].status # "absent"
    <3>1. ASSUME NEW l \in (plan[k].merges \cup plan[k].splits) \X {plan[k].target}
          PROVE  cluster'[l[2]].status # "absent"
      BY <1>1, <2>1, <2>2, <3>1 DEF Linkable, Exists
    <3> QED BY <1>1, <1>2, <2>2, <3>1 DEF LineageResolves, Exists
  <2>5. \A c \in ClusterId : cluster'[c].status = "merged" => <<c, cluster'[c].into>> \in lineage'
    <3> SUFFICES ASSUME NEW c \in ClusterId, cluster'[c].status = "merged"
                 PROVE  <<c, cluster'[c].into>> \in lineage'
      OBVIOUS
    <3>1. CASE c \in plan[k].merges
      <4>1. cluster'[c].into = plan[k].target
        BY <2>2, <3>1 DEF Redirected, TypeOK, ClusterRow
      <4> QED BY <2>2, <3>1, <4>1
    <3>2. CASE c \notin plan[k].merges
      BY <2>2, <3>2 DEF Redirected, LineageResolves
    <3> QED BY <3>1, <3>2
  <2> QED BY <2>3, <2>4, <2>5 DEF LineageResolves, Acyclic, Exists
<1>5. CASE UNCHANGED <<cluster, lineage>>
  BY <1>5 DEF LineageResolves, Acyclic, Exists
<1> QED BY <1>3, <1>4, <1>5, WriterStep

\* Lineage never names a cluster without a row and redirects never cycle, also
\* when retries give clusters other ids than the lineage was planned with.
THEOREM LineageSound == Spec => []LineageResolves
PROOF
<1>1. Init => LineageResolves
  BY DEF Init, LineageResolves, Acyclic, NoRow
<1>2. IInv /\ LineageResolves /\ [Next]_vars => LineageResolves'
  BY LineageStep
<1> QED BY <1>1, <1>2, Inductive, PTL DEF Spec

LEMMA ApartStep == IInv /\ EventsKeepApart /\ [Next]_vars => EventsKeepApart'
PROOF
<1> SUFFICES ASSUME IInv, EventsKeepApart, [Next]_vars
             PROVE  EventsKeepApart'
  OBVIOUS
<1> USE DEF IInv
<1>1. CASE UNCHANGED plan
  BY <1>1 DEF EventsKeepApart
<1>2. CASE plan' = << >>
  BY <1>2 DEF EventsKeepApart
<1>3. CASE PlanCluster
  <2>1. PICK e \in Event, id \in ClusterId, prev \in SUBSET Active :
          id \notin Claimed /\ plan' = Append(plan, Planned(e, id, prev))
    BY <1>3, PlanClusterAppends
  <2>2. Planned(e, id, prev) \in PlanEntry /\ Planned(e, id, prev).target = id
    BY PlannedType DEF Active
  <2>3. \A j \in 1..Len(plan) : plan[j].target # id
    BY <2>1, PlanGrows DEF Claimed, TypeOK
  <2>4. /\ DOMAIN plan = 1..Len(plan) /\ DOMAIN plan' = 1..(Len(plan) + 1) /\ Len(plan) \in Nat
        /\ \A j \in 1..Len(plan) : plan'[j] = plan[j]
        /\ plan'[Len(plan) + 1].target = id
    BY <2>1, <2>2, PlanGrows DEF TypeOK
  <2>5. ASSUME NEW j \in DOMAIN plan', NEW l \in DOMAIN plan', j # l
        PROVE  plan'[j].target # plan'[l].target
    <3>1. CASE j \in 1..Len(plan) /\ l \in 1..Len(plan)
      BY <2>4, <2>5, <3>1 DEF EventsKeepApart
    <3>2. CASE j = Len(plan) + 1 /\ l \in 1..Len(plan)
      BY <2>3, <2>4, <3>2
    <3>3. CASE j \in 1..Len(plan) /\ l = Len(plan) + 1
      BY <2>3, <2>4, <3>3
    <3> QED BY <2>4, <2>5, <3>1, <3>2, <3>3
  <2> QED BY <2>5 DEF EventsKeepApart
<1>4. CASE RestoreManifest
  <2>p. \A j \in DOMAIN plan : plan[j] \in PlanEntry
    BY DEF TypeOK
  <2> DEFINE at(j) == IF Recorded(plan[j]) = {} THEN plan[j]
                      ELSE [plan[j] EXCEPT !.id = (CHOOSE m \in Recorded(plan[j]) : TRUE).id]
  <2>1. \A j \in DOMAIN plan : at(j).target = plan[j].target
    BY <2>p DEF PlanEntry
  <2>2. plan' = [j \in DOMAIN plan |-> at(j)]
    BY <1>4 DEF RestoreManifest
  <2> HIDE DEF at
  <2> QED BY <2>1, <2>2 DEF EventsKeepApart
<1>5. CASE \/ BailOut \/ \E i \in Input, s \in Score : BeginCrawl(i, s)
           \/ StartRun \/ ResumeRun \/ UpsertManifest \/ ManifestRejected \/ PersistArticles
           \/ WritePayload \/ InsertCluster \/ AttachSources \/ LinkCluster \/ LinkRejected
           \/ Classify \/ Mark \/ RewritePayload \/ Archived \/ WriteSnapshot \/ Deploy
           \/ Fail \/ CallFails
  BY <1>1, <1>5
  DEF BailOut, BeginCrawl, StartRun, ResumeRun, UpsertManifest, ManifestRejected, PersistArticles,
      WritePayload, InsertCluster, AttachSources, LinkCluster, LinkRejected, Classify, Mark,
      RewritePayload, Archived, WriteSnapshot, Deploy, Fail, FailClusters, FailWithOrphans,
      FailOnce, CallFails, attempt
<1>6. CASE ArticlesPersisted \/ ClustersPersisted \/ Classified \/ Publishable \/ Published
  BY <1>1, <1>6
  DEF ArticlesPersisted, ClustersPersisted, Classified, Publishable, Published, Checkpoint, attempt
<1>7. CASE Exit \/ Killed \/ UNCHANGED vars
  BY <1>1, <1>2, <1>7 DEF Exit, Killed, Gone, vars
<1> QED
  BY <1>3, <1>4, <1>5, <1>6, <1>7 DEF Next, Rest, Work, Persist, Finish

\* No two events of a crawl are planned onto one cluster, however the articles
\* they share are spread over the clusters that exist (finalizeDurablePlan).
THEOREM EventsApart == Spec => []EventsKeepApart
PROOF
<1>1. Init => EventsKeepApart
  BY DEF Init, EventsKeepApart
<1>2. IInv /\ EventsKeepApart /\ [Next]_vars => EventsKeepApart'
  BY ApartStep
<1> QED BY <1>1, <1>2, Inductive, PTL DEF Spec

\* A cluster gets a row only after its payload is stored, and a run passes
\* clusters_persisted only with its whole plan in place (persistClusters).
THEOREM PayloadsFirst == Spec => PayloadBeforeRow
PROOF
<1> DEFINE Step ==
      /\ \A c \in ClusterId : cluster'[c].status # "absent" /\ cluster[c].status = "absent"
                                => c \in blob
      /\ \A i \in Input :
           run'[i] = "clusters_persisted" /\ run[i] # "clusters_persisted" =>
             \A j \in DOMAIN plan :
               /\ Exists(plan[j].id) /\ plan[j].id \in blob
               /\ orphan[plan[j].id] # "pending"
               /\ {plan[j].id} \X ArticlesOf(plan[j].event) \subseteq source
<1>1. IInv /\ [Next]_vars => [Step]_vars
  <2> SUFFICES ASSUME IInv, [Next]_vars PROVE Step
    OBVIOUS
  <2> USE DEF IInv
  <2>1. ASSUME NEW c \in ClusterId, cluster'[c].status # "absent", cluster[c].status = "absent"
        PROVE  c \in blob
    <3>1. CASE InsertCluster
      <4>1. c = plan[k].id
        BY <2>1, <3>1 DEF InsertCluster, TypeOK
      <4> QED BY <3>1, <4>1, AtCluster DEF InsertCluster, WrittenOK, Loops
    <3>2. CASE LinkCluster
      <4>1. k \in DOMAIN plan
        BY <3>2, AtCluster DEF LinkCluster, Loops
      <4>2. c \in plan[k].merges
        BY <2>1, <3>2 DEF LinkCluster, Redirected
      <4> QED BY <2>1, <4>1, <4>2 DEF RefersOK, Exists
    <3>3. CASE UNCHANGED <<cluster, lineage>>
      BY <2>1, <3>3
    <3> QED BY <3>1, <3>2, <3>3, WriterStep
  <2>2. ASSUME NEW i \in Input, run'[i] = "clusters_persisted", run[i] # "clusters_persisted"
        PROVE  pc = "clusters_done"
    BY <2>2, RunStep DEF Becomes, TypeOK
  <2> QED BY <2>1, <2>2 DEF WrittenOK
<1>2. [Step]_vars => [/\ \A c \in ClusterId : Exists(c)' /\ ~ Exists(c) => c \in blob
                      /\ \A i \in Input :
                           run'[i] = "clusters_persisted" /\ run[i] # "clusters_persisted" =>
                             \A j \in DOMAIN plan :
                               /\ Exists(plan[j].id) /\ plan[j].id \in blob
                               /\ orphan[plan[j].id] # "pending"
                               /\ {plan[j].id} \X ArticlesOf(plan[j].event) \subseteq source]_vars
  BY DEF Exists
<1> HIDE DEF Step
<1> QED BY <1>1, <1>2, Inductive, PTL DEF Spec, PayloadBeforeRow

-----------------------------------------------------------------------------
(* Refinement: durable ingestion implements the ledger.                    *)

LEMMA EntryOf ==
  /\ Entry("absent") = "absent" /\ Entry("failed_retryable") = "failed"
  /\ Entry("published") = "published"
  /\ \A s \in Stage \ {"published"} : Entry(s) = "open"
  BY DEF Entry, Stage

LEMMA LedgerInit == Init => Ledger!Init
  BY EntryOf DEF Init, Ledger!Init, NoSnapshot

\* A write to the ledger row of an input changes that input's entry only.
LEMMA EntryUpdate ==
  ASSUME IInv, NEW s \in Status, input \in Input, run' = [run EXCEPT ![input] = s]
  PROVE  [i \in Input |-> Entry(run'[i])] =
           [[i \in Input |-> Entry(run[i])] EXCEPT ![input] = Entry(s)]
  BY DEF IInv, TypeOK

LEMMA LedgerStep ==
  IInv /\ [Next]_vars => [Ledger!Next]_<<[i \in Input |-> Entry(run[i])], homepage.run>>
PROOF
<1> SUFFICES ASSUME IInv, [Next]_vars
             PROVE  [Ledger!Next]_<<[i \in Input |-> Entry(run[i])], homepage.run>>
  OBVIOUS
<1> DEFINE L == [i \in Input |-> Entry(run[i])]
<1>0. \A i \in Input : L[i] = Entry(run[i])
  OBVIOUS
<1>1. CASE Deploy
  <2>1. /\ input \in Input /\ run[input] = "published"
        /\ homepage'.run = input /\ UNCHANGED run
    BY <1>1 DEF Deploy, IInv, CrawlOK, StatusOK, d1
  <2>2. L[input] = "published"
    BY <1>0, <2>1, EntryOf
  <2>3. Ledger!Deploy(input)
    BY <2>1, <2>2 DEF Ledger!Deploy
  <2> QED BY <2>1, <2>3 DEF Ledger!Next
<1>2. CASE UNCHANGED run /\ UNCHANGED homepage
  BY <1>2
<1>b. CASE BailOut
  <2>1. homepage'.run = None /\ UNCHANGED run
    BY <1>b DEF BailOut, NoSnapshot, d1
  <2>2. Ledger!Revert
    BY <2>1 DEF Ledger!Revert
  <2> QED BY <2>2 DEF Ledger!Next
<1>3. CASE ~ UNCHANGED run
  <2>1. /\ input \in Input
        /\ \/ Becomes("started") /\ run[input] \in {"absent", "failed_retryable"}
           \/ Becomes("failed_retryable") /\ run[input] \in Stage \ {"published"}
           \/ Becomes("articles_persisted") /\ run[input] = "started"
           \/ Becomes("clusters_persisted") /\ run[input] = "articles_persisted"
           \/ Becomes("classified") /\ run[input] = "clusters_persisted"
           \/ Becomes("publishable") /\ run[input] = "classified"
           \/ Becomes("published") /\ run[input] = "publishable"
    BY <1>3, RunStep
  <2>2. L[input] = Entry(run[input])
    BY <2>1
  <2>3. CASE Becomes("started") /\ run[input] \in {"absent", "failed_retryable"}
    <3>0. "started" \in Status /\ Entry("started") = "open"
      BY EntryOf DEF Status, Stage
    <3>1. L' = [L EXCEPT ![input] = "open"] /\ homepage' = homepage
      BY <2>1, <2>3, <3>0, EntryUpdate DEF Becomes
    <3>2. L[input] \in {"absent", "failed"}
      BY <2>2, <2>3, EntryOf
    <3>3. Ledger!Open(input)
      BY <3>1, <3>2 DEF Ledger!Open
    <3> QED BY <2>1, <3>3 DEF Ledger!Next
  <2>4. CASE Becomes("failed_retryable") /\ run[input] \in Stage \ {"published"}
    <3>1. L' = [L EXCEPT ![input] = "failed"] /\ homepage' = homepage
      BY <2>1, <2>4, EntryUpdate, EntryOf DEF Becomes, Status
    <3>2. L[input] = "open"
      BY <2>2, <2>4, EntryOf
    <3>3. Ledger!Fail(input)
      BY <3>1, <3>2 DEF Ledger!Fail
    <3> QED BY <2>1, <3>3 DEF Ledger!Next
  <2>5. CASE \/ Becomes("articles_persisted") /\ run[input] = "started"
             \/ Becomes("clusters_persisted") /\ run[input] = "articles_persisted"
             \/ Becomes("classified") /\ run[input] = "clusters_persisted"
             \/ Becomes("publishable") /\ run[input] = "classified"
    <3>0. \A s \in {"articles_persisted", "clusters_persisted", "classified", "publishable"} :
            s \in Status /\ Entry(s) = "open"
      BY EntryOf DEF Status, Stage
    <3>1. L' = [L EXCEPT ![input] = "open"] /\ homepage' = homepage
      BY <2>1, <2>5, <3>0, EntryUpdate DEF Becomes
    <3>2. L[input] = "open"
      BY <2>2, <2>5, EntryOf DEF Stage
    <3>3. L' = L
      BY <2>1, <3>1, <3>2
    <3> QED BY <3>1, <3>3
  <2>6. CASE Becomes("published") /\ run[input] = "publishable"
    <3>1. L' = [L EXCEPT ![input] = "published"] /\ homepage' = homepage
      BY <2>1, <2>6, EntryUpdate, EntryOf DEF Becomes, Status, Stage
    <3>2. L[input] = "open"
      BY <2>2, <2>6, EntryOf DEF Stage
    <3>3. Ledger!Publish(input)
      BY <3>1, <3>2 DEF Ledger!Publish
    <3> QED BY <2>1, <3>3 DEF Ledger!Next
  <2> QED BY <2>1, <2>3, <2>4, <2>5, <2>6
<1> QED BY <1>1, <1>b, <1>2, <1>3, WriterStep

\* Durable ingestion implements the ledger for every set of inputs: a run is
\* published once and for good, and the site only moves to a published run.
THEOREM LedgerImplemented == Spec => ImplementsLedger
PROOF
<1>1. IInv /\ [Next]_vars => [Ledger!Next]_<<[i \in Input |-> Entry(run[i])], homepage.run>>
  BY LedgerStep
<1> QED BY <1>1, LedgerInit, Inductive, PTL DEF Spec, ImplementsLedger, Ledger!Spec

=============================================================================
