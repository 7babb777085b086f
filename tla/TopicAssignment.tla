--------------------------- MODULE TopicAssignment --------------------------
(***************************************************************************)
(* Topic classification beside topic governance.  The hourly crawl and the *)
(* manual backfill load the registry once, then reconcile each cluster in  *)
(* one batch: topics it discovered, decisions, and the rows of the         *)
(* cluster, of which those a curator locked must survive.  The registry    *)
(* may change after it was loaded; the triggers then refuse the batch.     *)
(***************************************************************************)
EXTENDS TopicGovernance

CONSTANTS
  Mentions,    \* [Cluster -> SUBSET Topic]: topics the text of a cluster names
  Discovers,   \* [Cluster -> SUBSET Topic]: concepts the model proposes for it
  AliasOf,     \* [Topic -> Alias]: the canonical alias of a discovered topic
  NameOf,      \* [Topic -> Candidate]: the candidate a discovered concept has
  Owner,       \* [Cluster -> owners]: who published the cluster's sources
  Official,    \* SUBSET Cluster: clusters with an official source
  MaxVersion,  \* bound on registry versions
  MaxLoads     \* bound: how many jobs start in all

ASSUME ClassifierAssumption ==
  /\ Discovers \in [Cluster -> SUBSET Topic]
  /\ NameOf \in [Topic -> Candidate]
  /\ AliasOf \in [Topic -> Alias]
  /\ MaxVersion \in Nat

VARIABLES
  runs,      \* {<<cluster, registry version>>}: validated assignment runs
  evidence,  \* topic_candidate_evidence, as {<<candidate, cluster>>}
  worker,    \* [Worker -> record]: the crawl and the backfill
  loads      \* jobs started so far

Worker == {"crawl", "backfill"}
vars == <<govVars, runs, evidence, worker, loads>>
Resting(last) == [phase |-> "idle", last |-> last]

InitAll ==
  /\ Init
  /\ runs = {}
  /\ evidence = {}
  /\ worker = [w \in Worker |-> Resting("none")]
  /\ loads = 0

InRegistry(t) == topics[t].status \in {"active", "provisional"}
PublishedTopics == {t \in Topic : Published(t)}

(* The registry's version is the largest among the rows it loads.          *)
RegistryVersion ==
  LET vs == {topics[t].version : t \in {x \in Topic : InRegistry(x)}} \cup {0}
  IN CHOOSE v \in vs : \A x \in vs : x <= v

(* The crawl classifies every cluster; the backfill the queued ones and    *)
(* those without a run at this version.                                    *)
Selected(w, v) ==
  IF w = "crawl" THEN Cluster
  ELSE {c \in Cluster : \/ <<c, v>> \notin runs
                        \/ \E q \in DOMAIN queue : q[3] = c /\ queue[q] \in {"pending", "failed"}}

LoadRegistry(w) ==
  /\ worker[w].phase = "idle" /\ loads < MaxLoads
  /\ loads' = loads + 1
  /\ RegistryVersion \in 1..MaxVersion
  /\ Selected(w, RegistryVersion) # {}
  /\ worker' = [worker EXCEPT ![w] =
       [phase |-> "loaded", last |-> "none", pub |-> PublishedTopics,
        known |-> {t \in Topic : InRegistry(t)}, version |-> RegistryVersion,
        todo |-> Selected(w, RegistryVersion)]]
  /\ UNCHANGED <<govVars, runs, evidence>>

(* A cluster already classified at this version is reused: nothing is      *)
(* written.                                                                *)
CheckPrior(w, c) ==
  /\ worker[w].phase = "loaded" /\ c \in worker[w].todo
  /\ worker' = [worker EXCEPT ![w] =
       [phase |-> IF <<c, worker[w].version>> \in runs THEN "settled" ELSE "checked",
        last |-> IF <<c, worker[w].version>> \in runs THEN "reused" ELSE "none",
        pub |-> @.pub, known |-> @.known, version |-> @.version, todo |-> @.todo, at |-> c]]
  /\ UNCHANGED <<govVars, runs, evidence, loads>>

(***************************************************************************)
(* The batch of one cluster, statement by statement.                       *)
(***************************************************************************)
Accepted(w) == Mentions[worker[w].at] \cap worker[w].pub

(* A concept the registry has already, by name or nearly, is not created.  *)
Created(w) == {t \in Discovers[worker[w].at] : t \notin worker[w].known}

(* INSERT ... DO NOTHING: the first insert of a candidate decides.         *)
CandAfter(w) ==
  [k \in Candidate |->
     IF cand[k] # "none" \/ \A t \in Discovers[worker[w].at] : NameOf[t] # k THEN cand[k]
     ELSE IF \E t \in Created(w) : NameOf[t] = k THEN "approved" ELSE "pending"]
ResolvedAfter(w) ==
  [k \in Candidate |-> IF cand[k] = "none" /\ \E t \in Created(w) : NameOf[t] = k
                       THEN CHOOSE t \in Created(w) : NameOf[t] = k ELSE resolved[k]]
EvidenceAfter(w) ==
  evidence \cup {<<NameOf[t], worker[w].at>> : t \in Discovers[worker[w].at]}

(* INSERT OR IGNORE: a topic the registry ever had keeps its row.          *)
TopicsDiscovered(w) ==
  [t \in Topic |-> IF t \in Created(w) /\ topics[t].status = "absent"
                   THEN [status |-> "provisional", to |-> NoTopic, version |-> worker[w].version + 1]
                   ELSE topics[t]]

(* One official source or two independent owners publish a provisional     *)
(* topic, through the candidates that resolve to it.                       *)
Corroborated(w, t) ==
  LET cs == {e[2] : e \in {x \in EvidenceAfter(w) : ResolvedAfter(w)[x[1]] = t}}
  IN cs \cap Official # {} \/ Cardinality({Owner[c] : c \in cs}) >= 2

(* A new topic claims its own name as an alias unless another owns it; of  *)
(* two that claim the same name the first of the batch gets it.            *)
Claimants(w, a) ==
  {t \in Created(w) : AliasOf[t] = a /\ aliases[<<a, t>>] = "none" /\ AliasFree(a, t)}
AliasesAfter(w) ==
  [at \in Alias \X Topic |->
     IF /\ Claimants(w, at[1]) # {}
        /\ at[2] = CHOOSE t \in Claimants(w, at[1]) : TRUE
     THEN "open" ELSE aliases[at]]

\* Mutant: the promotion takes a suppressed topic for a provisional one.
PromotableAgain(old) == old.status \in {"provisional", "deprecated"}

Promotable(old) == old.status = "provisional"

TopicsAfter(w) ==
  [t \in Topic |->
     LET old == TopicsDiscovered(w)[t] IN
     IF Discovers[worker[w].at] # {} /\ Promotable(old) /\ Corroborated(w, t)
     THEN [old EXCEPT !.status = "active", !.version = worker[w].version + 1]
     ELSE old]

(* A membership row may only be written for a published topic.             *)
AcceptedStillPublished(w) == \A t \in Accepted(w) : TopicsAfter(w)[t].status = "active"

\* Mutant: the delete forgets the lock.
DroppedLockedToo(w) ==
  {t \in Topic \ Accepted(w) : rows[<<worker[w].at, t>>] # "none"}

(* The rows the batch deletes: those no longer desired.                    *)
Dropped(w) ==
  {t \in Topic \ Accepted(w) : rows[<<worker[w].at, t>>] \in {"auto", "curated"}}

NoLockedRowDropped(w) == \A t \in Dropped(w) : LockAllows(rows[<<worker[w].at, t>>], "none", FALSE)

RowAfter(w, ct) ==
  CASE ct[1] # worker[w].at -> rows[ct]
    [] ct[1] = worker[w].at /\ ct[2] \in Dropped(w) -> "none"
    [] ct[1] = worker[w].at /\ ct[2] \in Accepted(w) /\ rows[ct] # "locked" -> "auto"
    [] OTHER -> rows[ct]

RunIsNew(w) == <<worker[w].at, worker[w].version>> \notin runs

Settle(w, last) ==
  worker' = [worker EXCEPT ![w].phase = "settled", ![w].last = last]

Reconcile(w) ==
  /\ worker[w].phase = "checked"
  /\ RunIsNew(w) /\ AcceptedStillPublished(w) /\ NoLockedRowDropped(w)
  /\ runs' = runs \cup {<<worker[w].at, worker[w].version>>}
  /\ topics' = TopicsAfter(w)
  /\ cand' = CandAfter(w)
  /\ resolved' = ResolvedAfter(w)
  /\ evidence' = EvidenceAfter(w)
  /\ mentioned' = mentioned \cup {<<worker[w].at, t>> : t \in Mentions[worker[w].at] \cap worker[w].known}
  /\ rows' = [ct \in DOMAIN rows |-> RowAfter(w, ct)]
  /\ aliases' = AliasesAfter(w)
  /\ Settle(w, "validated")
  /\ UNCHANGED <<implies, queue, claims, agenda, req, sent, stored, loads>>

(* The batch is aborted and the classification of the cluster throws.      *)
ReconcileRefused(w) ==
  /\ worker[w].phase = "checked"
  /\ ~(RunIsNew(w) /\ AcceptedStillPublished(w) /\ NoLockedRowDropped(w))
  /\ Settle(w, "refused")
  /\ UNCHANGED <<govVars, runs, evidence, loads>>

(* Which entries of the cluster complete, or record a failure.             *)
QueueMarked(w) ==
  [q \in DOMAIN queue |->
     IF q[3] # worker[w].at THEN queue[q]
     ELSE IF worker[w].last = "refused" /\ queue[q] = "pending" THEN "failed"
     ELSE IF worker[w].last # "refused" /\ queue[q] \in {"pending", "failed"} THEN "completed"
     ELSE queue[q]]

(* The crawl stops at the first refusal; the backfill settles the queue    *)
(* entries of the cluster and goes on.                                     *)
NextCluster(w) ==
  LET left == worker[w].todo \ {worker[w].at}
      last == worker[w].last
  IN
  /\ worker[w].phase = "settled"
  /\ worker' = [worker EXCEPT ![w] =
       IF left = {} \/ (w = "crawl" /\ last = "refused")
       THEN Resting(IF w = "crawl" THEN (IF last = "refused" THEN "failed" ELSE "done") ELSE "none")
       ELSE [phase |-> "loaded", last |-> "none", pub |-> @.pub, known |-> @.known,
             version |-> @.version, todo |-> left]]
  /\ queue' = IF w = "backfill" THEN QueueMarked(w) ELSE queue
  /\ UNCHANGED <<topics, cand, resolved, aliases, implies, rows, mentioned, claims, agenda, req,
                 sent, stored, runs, evidence, loads>>

(* The job is killed: what it wrote stays.                                 *)
WorkerDies(w) ==
  /\ worker[w].phase # "idle"
  /\ worker' = [worker EXCEPT ![w] = Resting("none")]
  /\ UNCHANGED <<govVars, runs, evidence, loads>>

WorkerStep(w) ==
  \/ LoadRegistry(w) \/ (\E c \in Cluster : CheckPrior(w, c))
  \/ Reconcile(w) \/ ReconcileRefused(w) \/ NextCluster(w)

NoClassification == UNCHANGED <<runs, evidence, worker, loads>>

Next ==
  \/ \E u \in Curator :
       \/ \E r \in agenda : Submit(u, r) /\ NoClassification
       \/ ClaimVersion(u) /\ NoClassification
       \/ Review(u) /\ NoClassification
       \/ BatchFails(u) /\ NoClassification
       \/ CommitTopic(u) /\ NoClassification
       \/ CommitApprove(u) /\ NoClassification
       \/ CommitReject(u) /\ NoClassification
       \/ CommitAlias(u) /\ NoClassification
       \/ CommitImplication(u) /\ NoClassification
       \/ CommitAssign(u) /\ NoClassification
       \/ CommitRemove(u) /\ NoClassification
  \/ \E w \in Worker : WorkerStep(w) \/ WorkerDies(w)

Spec == InitAll /\ [][Next]_vars

(***************************************************************************)
(* Properties.                                                             *)
(***************************************************************************)
TopicTypeOK ==
  /\ topics \in [Topic -> TopicRow]
  /\ cand \in [Candidate -> {"none", "pending", "approved", "rejected"}]
  /\ resolved \in [Candidate -> Topic \cup {NoTopic}]
  /\ aliases \in [Alias \X Topic -> {"none", "open", "contextual"}]
  /\ implies \subseteq Topic \X Topic
  /\ rows \in [Cluster \X Topic -> {"none", "auto", "curated", "locked"}]
  /\ queue \in [Trigger \X Topic \X Cluster -> {"none", "pending", "failed", "completed"}]
  /\ claims \in [Resources -> Nat]
  /\ runs \subseteq Cluster \X Nat

(* The registry, with its concurrent requests and its classifier, moves as *)
(* the lifecycle says, and redirects end (topicGovernanceHandler.ts, 0004:122-144). *)
Lifecycle == INSTANCE TopicLifecycle
               WITH status <- [t \in Topic |-> topics[t].status],
                    redirect <- [t \in Topic |-> topics[t].to]
ImplementsLifecycle == Lifecycle!Spec

(* Implication rules never form a cycle, although two requests may each    *)
(* add half of one (topicGovernanceHandler.ts:99-103, 0004:146).                     *)
ImpliesNoCycle ==
  \A C \in (SUBSET Topic) \ {{}} :
     \E t \in C : \A x \in C : <<t, x>> \notin implies

(* An alias without a context rule names one topic, although the collision *)
(* check and the write are two calls (topicGovernanceHandler.ts:95-97, index 0004:48).       *)
AliasNamesOneTopic ==
  \A a \in Alias : Cardinality({t \in Topic : aliases[<<a, t>>] = "open"}) <= 1

(* Of the requests that claimed one version of a resource at most one      *)
(* commits (claimVersion, topicGovernanceHandler.ts:40-53).                                  *)
OneCommitPerVersion ==
  \A s \in Resources : \A i, j \in DOMAIN stored[s] : i # j => stored[s][i] # stored[s][j]

(* A locked row is unlocked or deleted by nobody but a curator who asked   *)
(* for its removal and had seen the lock (topicGovernanceHandler.ts:132-139, 0005:130-148).  *)
RemovalCommits(ct) ==
  \E u \in Curator : /\ Ready(u, {"remove"}) /\ req[u].seen.locked
                     /\ ct = <<req[u].r.other, req[u].r.topic>>
                     /\ req'[u] = Idle
LocksSurvive ==
  [][\A ct \in DOMAIN rows : rows[ct] = "locked" /\ rows'[ct] # "locked" => RemovalCommits(ct)]_vars

(* Classification refuses a cluster only because a topic it was about to   *)
(* assign has lost its publication since the registry was loaded, or the   *)
(* run has been recorded since it was looked for: never because of a lock  *)
(* (topicAssignmentService.ts:57-61 and the triggers).                     *)
RefusedForAReason(w) ==
  \/ \E t \in Accepted(w) : topics[t].status # "active"
  \/ <<worker[w].at, worker[w].version>> \in runs
RefusedOnlyWhenStale ==
  [][\A w \in Worker : worker[w].phase = "checked" /\ worker'[w].phase = "settled"
                          /\ worker'[w].last = "refused" => RefusedForAReason(w)]_vars

(* What curators withdrew, the crawl that rediscovers the same concept     *)
(* does not publish again: only a request brings a suppressed topic back   *)
(* (INSERT OR IGNORE and the promotion, topicAssignmentService.ts:73-89).           *)
CrawlNeverOverturnsCurators ==
  [][\A t \in Topic : topics[t].status \in {"deprecated", "merged"} /\ topics'[t] # topics[t]
                          => \E u \in Curator : req'[u] # req[u]]_vars
=============================================================================
