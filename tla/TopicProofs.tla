---------------------------- MODULE TopicProofs ----------------------------
(* Theorems about TopicAssignment, for every registry, every text, every    *)
(* set of requests and any number of curators.                              *)
EXTENDS TopicAssignment, FiniteSetTheorems, TLAPS

IdleRequest == [phase : {"idle"}]
OpenRequest == [phase : {"sent", "claimed"}, r : UNION Agendas, expected : Nat]
ReadyRequest ==
  [phase : {"ready"}, r : UNION Agendas, expected : Nat,
   seen : [locked : BOOLEAN, enqueue : SUBSET (Trigger \X Topic \X Cluster)]]

RestingWorker == [phase : {"idle"}, last : {"none", "done", "failed"}]
LoadedWorker ==
  [phase : {"loaded"}, last : {"none"}, pub : SUBSET Topic, known : SUBSET Topic,
   version : Nat, todo : SUBSET Cluster]
BusyWorker ==
  [phase : {"checked", "settled"}, last : {"none", "reused", "validated", "refused"},
   pub : SUBSET Topic, known : SUBSET Topic, version : Nat, todo : SUBSET Cluster, at : Cluster]

\* Requests and jobs in flight, beside what TopicTypeOK says of the tables.
FlightTypeOK ==
  /\ agenda \in Agendas
  /\ req \in [Curator -> IdleRequest \cup OpenRequest \cup ReadyRequest]
  /\ stored \in [Resources -> Seq(Nat)]
  /\ worker \in [Worker -> RestingWorker \cup LoadedWorker \cup BusyWorker]

Types == TopicTypeOK /\ FlightTypeOK

-----------------------------------------------------------------------------
(* Types.                                                                  *)

\* A request of an agenda names a governed resource, and what it is about.
LEMMA RequestNames ==
  ASSUME NEW r \in UNION Agendas
  PROVE  /\ Resource(r) \in Resources
         /\ r.act \in Acts
         /\ r.act # "reject" => r.topic \in Topic
         /\ r.topic # NoTopic => r.topic \in Topic
         /\ r.act \in {"approve", "reject"} => r.other \in Candidate
         /\ r.act \in {"assign", "remove"} => r.other \in Cluster
         /\ r.act = "alias" => r.other \in Alias
         /\ r.act \in {"implication", "merge", "reverse_merge"} => r.other \in Topic
  BY AgendaAssumption DEF WellFormed, Resources

\* What a request saw before its batch.
LEMMA SeenType ==
  ASSUME NEW r \in UNION Agendas
  PROVE  Seen(r) \in [locked : BOOLEAN, enqueue : SUBSET (Trigger \X Topic \X Cluster)]
PROOF
<1> DEFINE marks(t) == {<<TriggerOf(r), t, c>> : c \in Affected(t)}
<1>1. TriggerOf(r) \in Trigger
  BY DEF TriggerOf, Trigger
<1>2. \A t \in Topic : marks(t) \subseteq Trigger \X Topic \X Cluster
  <2> SUFFICES ASSUME NEW t \in Topic, NEW c \in Affected(t)
               PROVE  <<TriggerOf(r), t, c>> \in Trigger \X Topic \X Cluster
    OBVIOUS
  <2> QED BY <1>1 DEF Affected
<1> DEFINE todo == CASE r.act \in {"assign", "remove"} \/ r.topic = NoTopic -> {}
                     [] r.act \in {"merge", "reverse_merge"} -> marks(r.topic) \cup marks(r.other)
                     [] OTHER -> marks(r.topic)
<1> HIDE DEF marks
<1>3. todo \subseteq Trigger \X Topic \X Cluster
  BY <1>2, RequestNames
<1>4. Seen(r) = [locked |-> r.act = "remove" /\ rows[<<r.other, r.topic>>] = "locked",
                 enqueue |-> todo]
  BY DEF Seen, marks
<1> QED BY <1>3, <1>4

\* A curator with a request in flight.
LEMMA InFlight ==
  ASSUME FlightTypeOK, NEW u \in Curator
  PROVE  /\ req[u].phase = "idle" => req[u] \in IdleRequest
         /\ req[u].phase \in {"sent", "claimed"} => req[u] \in OpenRequest
         /\ req[u].phase = "ready" => req[u] \in ReadyRequest
         /\ req[u].phase \in {"idle", "sent", "claimed", "ready"}
         /\ req[u].phase # "idle" => req[u].r \in UNION Agendas /\ req[u].expected \in Nat
  BY DEF FlightTypeOK, IdleRequest, OpenRequest, ReadyRequest

\* A job and the cluster it is at.
LEMMA AtWork ==
  ASSUME FlightTypeOK, NEW w \in Worker
  PROVE  /\ worker[w].phase = "idle" => worker[w] \in RestingWorker
         /\ worker[w].phase = "loaded" => worker[w] \in LoadedWorker
         /\ worker[w].phase \in {"checked", "settled"} => worker[w] \in BusyWorker
         /\ worker[w].phase \in {"idle", "loaded", "checked", "settled"}
  BY DEF FlightTypeOK, RestingWorker, LoadedWorker, BusyWorker

\* What a commit does besides its own rows.
LEMMA CommitTypes ==
  ASSUME Types, NEW u \in Curator, req[u].phase = "ready", Enqueue(u), Committed(u), UNCHANGED runs,
         UNCHANGED worker
  PROVE  /\ FlightTypeOK'
         /\ claims' \in [Resources -> Nat] /\ runs' \subseteq Cluster \X Nat
         /\ queue' \in [Trigger \X Topic \X Cluster -> {"none", "pending", "failed", "completed"}]
PROOF
<1>1. req[u].r \in UNION Agendas /\ req[u].expected \in Nat /\ Resource(req[u].r) \in Resources
  BY InFlight, RequestNames DEF Types
<1>2. req' \in [Curator -> IdleRequest \cup OpenRequest \cup ReadyRequest]
  BY DEF Types, FlightTypeOK, Committed, Idle, IdleRequest
<1>3. stored' \in [Resources -> Seq(Nat)]
  BY <1>1 DEF Types, FlightTypeOK, Committed
<1>4. queue' \in [Trigger \X Topic \X Cluster -> {"none", "pending", "failed", "completed"}]
  BY DEF Types, TopicTypeOK, Enqueue
<1> QED BY <1>2, <1>3, <1>4 DEF Types, TopicTypeOK, FlightTypeOK, Committed

\* The row a request writes.
LEMMA TopicWrittenType ==
  ASSUME TopicTypeOK, NEW r \in UNION Agendas,
         r.act \in {"approve", "topic", "merge", "reverse_merge", "suppress", "restore"}
  PROVE  TopicWritten(r) \in TopicRow
PROOF
<1>1. r.topic \in Topic /\ (r.act = "merge" => r.other \in Topic)
  BY RequestNames
<1> QED BY <1>1 DEF TopicTypeOK, TopicWritten, TopicRow

\* What one cluster's batch writes.
LEMMA ReconcileTypes ==
  ASSUME Types, NEW w \in Worker, Reconcile(w)
  PROVE  TopicTypeOK'
PROOF
<1>1. worker[w] \in BusyWorker
  BY AtWork DEF Types, Reconcile
<1>2. /\ worker[w].at \in Cluster /\ worker[w].version \in Nat
      /\ Discovers[worker[w].at] \subseteq Topic /\ Created(w) \subseteq Topic
  BY <1>1, ClassifierAssumption DEF BusyWorker, Created
<1>3. TopicsDiscovered(w) \in [Topic -> TopicRow]
  BY <1>2 DEF Types, TopicTypeOK, TopicsDiscovered, TopicRow
<1>4. topics' \in [Topic -> TopicRow]
  <2> SUFFICES ASSUME NEW t \in Topic
               PROVE  TopicsAfter(w)[t] \in TopicRow
    BY DEF Reconcile, TopicsAfter
  <2> DEFINE old == TopicsDiscovered(w)[t]
  <2>1. old \in TopicRow
    BY <1>3
  <2>2. \/ TopicsAfter(w)[t] = old
        \/ TopicsAfter(w)[t] = [old EXCEPT !.status = "active", !.version = worker[w].version + 1]
    BY Zenon DEF TopicsAfter
  <2> HIDE DEF old
  <2>3. \A o \in TopicRow, v \in Nat : [o EXCEPT !.status = "active", !.version = v] \in TopicRow
    BY DEF TopicRow
  <2>4. worker[w].version + 1 \in Nat
    BY <1>2
  <2> QED BY <2>1, <2>2, <2>3, <2>4
<1>5. cand' \in [Candidate -> {"none", "pending", "approved", "rejected"}]
  BY DEF Types, TopicTypeOK, Reconcile, CandAfter
<1>6. resolved' \in [Candidate -> Topic \cup {NoTopic}]
  BY <1>2 DEF Types, TopicTypeOK, Reconcile, ResolvedAfter
<1>7. aliases' \in [Alias \X Topic -> {"none", "open", "contextual"}]
  BY DEF Types, TopicTypeOK, Reconcile, AliasesAfter
<1>8. rows' \in [Cluster \X Topic -> {"none", "auto", "curated", "locked"}]
  BY DEF Types, TopicTypeOK, Reconcile, RowAfter
<1>9. runs' \subseteq Cluster \X Nat
  BY <1>2 DEF Types, TopicTypeOK, Reconcile
<1> QED BY <1>4, <1>5, <1>6, <1>7, <1>8, <1>9 DEF Types, TopicTypeOK, Reconcile

THEOREM TypesStep == Types /\ [Next]_vars => Types'
PROOF
<1> SUFFICES ASSUME Types, [Next]_vars PROVE Types'
  OBVIOUS
<1>1. ASSUME NEW u \in Curator, NEW r \in agenda, Submit(u, r), NoClassification PROVE Types'
  <2>1. r \in UNION Agendas /\ Resource(r) \in Resources
    BY <1>1, RequestNames DEF Types, FlightTypeOK
  <2>2. PICK v \in {claims[Resource(r)], 0} :
          req' = [req EXCEPT ![u] = [phase |-> "sent", r |-> r, expected |-> v]]
    BY <1>1 DEF Submit
  <2>3. [phase |-> "sent", r |-> r, expected |-> v] \in OpenRequest
    BY <2>1 DEF Types, TopicTypeOK, OpenRequest
  <2>4. req' \in [Curator -> IdleRequest \cup OpenRequest \cup ReadyRequest]
    BY <2>2, <2>3 DEF Types, FlightTypeOK
  <2> QED BY <1>1, <2>4 DEF Types, TopicTypeOK, FlightTypeOK, Submit, regVars, NoClassification
<1>2. ASSUME NEW u \in Curator, ClaimVersion(u), NoClassification PROVE Types'
  <2>1. req[u] \in OpenRequest /\ Resource(req[u].r) \in Resources
    BY <1>2, InFlight, RequestNames DEF Types, ClaimVersion
  <2>2. claims' \in [Resources -> Nat]
    BY <1>2, <2>1 DEF Types, TopicTypeOK, ClaimVersion
  <2>3. [req[u] EXCEPT !.phase = "claimed"] \in OpenRequest
    BY <2>1 DEF OpenRequest
  <2>4. Idle \in IdleRequest
    BY DEF Idle, IdleRequest
  <2>5. req' = [req EXCEPT ![u] = Idle] \/ req' = [req EXCEPT ![u] = [req[u] EXCEPT !.phase = "claimed"]]
    BY <1>2 DEF Types, FlightTypeOK, ClaimVersion
  <2>6. req' \in [Curator -> IdleRequest \cup OpenRequest \cup ReadyRequest]
    BY <2>3, <2>4, <2>5 DEF Types, FlightTypeOK
  <2> QED BY <1>2, <2>2, <2>6 DEF Types, TopicTypeOK, FlightTypeOK, ClaimVersion, regVars, NoClassification
<1>3. ASSUME NEW u \in Curator, Review(u), NoClassification PROVE Types'
  <2>1. req[u].r \in UNION Agendas /\ req[u].expected \in Nat
    BY <1>3, InFlight DEF Types, Review
  <2>2. [phase |-> "ready", r |-> req[u].r, expected |-> req[u].expected, seen |-> Seen(req[u].r)]
          \in ReadyRequest
    BY <2>1, SeenType DEF ReadyRequest
  <2>3. Idle \in IdleRequest
    BY DEF Idle, IdleRequest
  <2>4. req' \in [Curator -> IdleRequest \cup OpenRequest \cup ReadyRequest]
    BY <1>3, <2>2, <2>3 DEF Types, FlightTypeOK, Review
  <2> QED BY <1>3, <2>4 DEF Types, TopicTypeOK, FlightTypeOK, Review, regVars, NoClassification
<1>4. ASSUME NEW u \in Curator, BatchFails(u), NoClassification PROVE Types'
  BY <1>4 DEF Types, TopicTypeOK, FlightTypeOK, BatchFails, regVars, NoClassification, Idle, IdleRequest
<1>5. ASSUME NEW u \in Curator, CommitTopic(u) \/ CommitApprove(u), NoClassification PROVE Types'
  <2>1. /\ FlightTypeOK' /\ claims' \in [Resources -> Nat] /\ runs' \subseteq Cluster \X Nat
        /\ queue' \in [Trigger \X Topic \X Cluster -> {"none", "pending", "failed", "completed"}]
    BY <1>5, CommitTypes DEF CommitTopic, CommitApprove, Ready, NoClassification
  <2>2. req[u].r \in UNION Agendas
    BY <1>5, InFlight DEF Types, CommitTopic, CommitApprove, Ready
  <2>3. TopicWritten(req[u].r) \in TopicRow
    BY <1>5, <2>2, TopicWrittenType DEF Types, CommitTopic, CommitApprove, Ready
  <2>4. req[u].r.act = "approve" => req[u].r.topic \in Topic
    BY <2>2, RequestNames
  <2> QED BY <1>5, <2>1, <2>3, <2>4 DEF Types, TopicTypeOK, CommitTopic, CommitApprove, Ready
<1>6. ASSUME NEW u \in Curator,
             CommitReject(u) \/ CommitAlias(u) \/ CommitImplication(u) \/ CommitAssign(u) \/ CommitRemove(u),
             NoClassification
      PROVE  Types'
  <2>1. /\ FlightTypeOK' /\ claims' \in [Resources -> Nat] /\ runs' \subseteq Cluster \X Nat
        /\ queue' \in [Trigger \X Topic \X Cluster -> {"none", "pending", "failed", "completed"}]
    BY <1>6, CommitTypes
    DEF CommitReject, CommitAlias, CommitImplication, CommitAssign, CommitRemove, Ready, NoClassification
  <2>2. req[u].r \in UNION Agendas
    BY <1>6, InFlight
    DEF Types, CommitReject, CommitAlias, CommitImplication, CommitAssign, CommitRemove, Ready
  <2>3. CASE CommitReject(u)
    BY <2>1, <2>3 DEF Types, TopicTypeOK, CommitReject
  <2>4. CASE CommitAlias(u)
    BY <2>1, <2>4 DEF Types, TopicTypeOK, CommitAlias
  <2>5. CASE CommitImplication(u)
    BY <2>1, <2>2, <2>5, RequestNames DEF Types, TopicTypeOK, CommitImplication, Ready
  <2>6. CASE CommitAssign(u)
    BY <2>1, <2>6 DEF Types, TopicTypeOK, CommitAssign
  <2>7. CASE CommitRemove(u)
    BY <2>1, <2>7 DEF Types, TopicTypeOK, CommitRemove
  <2> QED BY <1>6, <2>3, <2>4, <2>5, <2>6, <2>7
<1>7. ASSUME NEW w \in Worker, LoadRegistry(w) PROVE Types'
  <2>1. RegistryVersion \in Nat
    BY <1>7, ClassifierAssumption DEF LoadRegistry
  <2>2. [phase |-> "loaded", last |-> "none", pub |-> PublishedTopics,
         known |-> {t \in Topic : InRegistry(t)}, version |-> RegistryVersion,
         todo |-> Selected(w, RegistryVersion)] \in LoadedWorker
    BY <2>1 DEF LoadedWorker, PublishedTopics, Selected
  <2> HIDE DEF PublishedTopics, RegistryVersion, Selected
  <2> QED BY <1>7, <2>2 DEF Types, TopicTypeOK, FlightTypeOK, LoadRegistry, govVars
<1>8. ASSUME NEW w \in Worker, NEW c \in Cluster, CheckPrior(w, c) PROVE Types'
  <2>1. worker[w] \in LoadedWorker
    BY <1>8, AtWork DEF Types, CheckPrior
  <2>2. \A p \in {"checked", "settled"}, l \in {"none", "reused"} :
          [phase |-> p, last |-> l, pub |-> worker[w].pub, known |-> worker[w].known,
           version |-> worker[w].version, todo |-> worker[w].todo, at |-> c] \in BusyWorker
    BY <2>1 DEF LoadedWorker, BusyWorker
  <2>3. worker' \in [Worker -> RestingWorker \cup LoadedWorker \cup BusyWorker]
    BY <1>8, <2>2 DEF Types, FlightTypeOK, CheckPrior
  <2> QED BY <1>8, <2>3 DEF Types, TopicTypeOK, FlightTypeOK, CheckPrior, govVars
<1>9. ASSUME NEW w \in Worker, Reconcile(w) \/ ReconcileRefused(w) PROVE Types'
  <2>1. worker[w] \in BusyWorker
    BY <1>9, AtWork DEF Types, Reconcile, ReconcileRefused
  <2>2. \A l \in {"validated", "refused"} :
          [worker[w] EXCEPT !.phase = "settled", !.last = l] \in BusyWorker
    BY <2>1 DEF BusyWorker
  <2>3. worker' \in [Worker -> RestingWorker \cup LoadedWorker \cup BusyWorker]
    BY <1>9, <2>2 DEF Types, FlightTypeOK, Reconcile, ReconcileRefused, Settle
  <2>4. FlightTypeOK'
    BY <1>9, <2>3 DEF Types, FlightTypeOK, Reconcile, ReconcileRefused, govVars
  <2>5. TopicTypeOK'
    BY <1>9, ReconcileTypes DEF Types, TopicTypeOK, ReconcileRefused, govVars
  <2> QED BY <2>4, <2>5 DEF Types
<1>10. ASSUME NEW w \in Worker, NextCluster(w) PROVE Types'
  <2>1. worker[w] \in BusyWorker
    BY <1>10, AtWork DEF Types, NextCluster
  <2>2. [phase |-> "loaded", last |-> "none", pub |-> worker[w].pub, known |-> worker[w].known,
         version |-> worker[w].version, todo |-> worker[w].todo \ {worker[w].at}] \in LoadedWorker
    BY <2>1 DEF LoadedWorker, BusyWorker
  <2>3. \A l \in {"none", "done", "failed"} : Resting(l) \in RestingWorker
    BY DEF Resting, RestingWorker
  <2>4. worker' \in [Worker -> RestingWorker \cup LoadedWorker \cup BusyWorker]
    BY <1>10, <2>2, <2>3 DEF Types, FlightTypeOK, NextCluster
  <2>5. queue' \in [Trigger \X Topic \X Cluster -> {"none", "pending", "failed", "completed"}]
    BY <1>10 DEF Types, TopicTypeOK, NextCluster, QueueMarked
  <2> QED BY <1>10, <2>4, <2>5 DEF Types, TopicTypeOK, FlightTypeOK, NextCluster
<1>11. ASSUME NEW w \in Worker, WorkerDies(w) PROVE Types'
  BY <1>11 DEF Types, TopicTypeOK, FlightTypeOK, WorkerDies, govVars, Resting, RestingWorker
<1>12. CASE UNCHANGED vars
  BY <1>12 DEF Types, TopicTypeOK, FlightTypeOK, vars, govVars
<1> QED BY <1>1, <1>2, <1>3, <1>4, <1>5, <1>6, <1>7, <1>8, <1>9, <1>10, <1>11, <1>12
    DEF Next, WorkerStep

\* Type correctness: the tables, the requests and the jobs keep their shapes
\* (0004:2-100, topicGovernanceHandler.ts:5-11).
THEOREM TypeCorrect == Spec => []Types
PROOF
<1>1. InitAll => Types
  <2> SUFFICES ASSUME InitAll PROVE Types
    OBVIOUS
  <2>1. TopicTypeOK
    BY DEF InitAll, Init, TopicTypeOK, Absent, TopicRow
  <2>2. FlightTypeOK
    BY DEF InitAll, Init, FlightTypeOK, Idle, IdleRequest, Resting, RestingWorker
  <2> QED BY <2>1, <2>2 DEF Types
<1> QED BY <1>1, TypesStep, PTL DEF Spec
-----------------------------------------------------------------------------
(* Versions.                                                               *)

Pending(u) == req[u].phase \in {"claimed", "ready"}

\* A version that was committed, or that a pending request has claimed, lies
\* behind the claims of its resource and belongs to one request.
ClaimsOK ==
  /\ \A s \in Resources : \A i \in DOMAIN stored[s] : stored[s][i] < claims[s]
  /\ \A u \in Curator : Pending(u) =>
       /\ req[u].expected < claims[Resource(req[u].r)]
       /\ \A i \in DOMAIN stored[Resource(req[u].r)] :
            stored[Resource(req[u].r)][i] # req[u].expected
  /\ \A u, x \in Curator :
       u # x /\ Pending(u) /\ Pending(x) /\ Resource(req[u].r) = Resource(req[x].r)
         => req[u].expected # req[x].expected
  /\ OneCommitPerVersion

\* What a step may do to the requests, their claims and their commits.
Resends(u) ==
  /\ req'[u].phase \in {"idle", "sent"} /\ \A x \in Curator \ {u} : req'[x] = req[x]
  /\ UNCHANGED <<claims, stored>>
Claims(u) ==
  LET s == Resource(req[u].r) IN
  /\ req[u].phase = "sent" /\ claims[s] = req[u].expected
  /\ claims' = [claims EXCEPT ![s] = @ + 1]
  /\ req' = [req EXCEPT ![u].phase = "claimed"]
  /\ UNCHANGED stored
Readies(u) ==
  /\ req[u].phase = "claimed"
  /\ \E q \in ReadyRequest : /\ q.r = req[u].r /\ q.expected = req[u].expected
                             /\ req' = [req EXCEPT ![u] = q]
  /\ UNCHANGED <<claims, stored>>
Commits(u) ==
  /\ req[u].phase = "ready"
  /\ req' = [req EXCEPT ![u] = Idle]
  /\ stored' = [stored EXCEPT ![Resource(req[u].r)] = Append(@, req[u].expected)]
  /\ UNCHANGED claims

LEMMA RequestMoves ==
  ASSUME Types, [Next]_vars
  PROVE  \/ UNCHANGED <<req, claims, stored>>
         \/ \E u \in Curator : Resends(u) \/ Claims(u) \/ Readies(u) \/ Commits(u)
PROOF
<1>0. Idle \in IdleRequest /\ Idle.phase = "idle"
  BY DEF Idle, IdleRequest
<1>1. ASSUME NEW u \in Curator, NEW r \in agenda, Submit(u, r) PROVE Resends(u)
  <2>1. PICK v \in {claims[Resource(r)], 0} :
          req' = [req EXCEPT ![u] = [phase |-> "sent", r |-> r, expected |-> v]]
    BY <1>1 DEF Submit
  <2> QED BY <1>1, <2>1 DEF Submit, Resends, Types, FlightTypeOK
<1>2. ASSUME NEW u \in Curator, ClaimVersion(u) PROVE Claims(u) \/ Resends(u)
  BY <1>0, <1>2 DEF ClaimVersion, Claims, Resends, Types, FlightTypeOK
<1>3. ASSUME NEW u \in Curator, Review(u) PROVE Readies(u) \/ Resends(u)
  <2>1. req[u].r \in UNION Agendas /\ req[u].expected \in Nat
    BY <1>3, InFlight DEF Types, Review
  <2>2. [phase |-> "ready", r |-> req[u].r, expected |-> req[u].expected, seen |-> Seen(req[u].r)]
          \in ReadyRequest
    BY <2>1, SeenType DEF ReadyRequest
  <2>3. CASE Reviewable(req[u].r)
    BY <1>3, <2>2, <2>3 DEF Review, Readies
  <2>4. CASE ~Reviewable(req[u].r)
    BY <1>0, <1>3, <2>4 DEF Review, Resends, Types, FlightTypeOK
  <2> QED BY <2>3, <2>4
<1>4. ASSUME NEW u \in Curator, BatchFails(u) PROVE Resends(u)
  BY <1>0, <1>4 DEF BatchFails, Resends, Types, FlightTypeOK
<1>5. ASSUME NEW u \in Curator,
             \/ CommitTopic(u) \/ CommitApprove(u) \/ CommitReject(u) \/ CommitAlias(u)
             \/ CommitImplication(u) \/ CommitAssign(u) \/ CommitRemove(u)
      PROVE  Commits(u)
  BY <1>5 DEF CommitTopic, CommitApprove, CommitReject, CommitAlias, CommitImplication, CommitAssign,
              CommitRemove, Ready, Committed, Commits
<1>6. ASSUME NEW w \in Worker, WorkerStep(w) \/ WorkerDies(w) PROVE UNCHANGED <<req, claims, stored>>
  BY <1>6 DEF WorkerStep, WorkerDies, LoadRegistry, CheckPrior, Reconcile, ReconcileRefused, NextCluster,
              govVars
<1>7. CASE UNCHANGED vars
  BY <1>7 DEF vars, govVars
<1> QED BY <1>1, <1>2, <1>3, <1>4, <1>5, <1>6, <1>7 DEF Next

THEOREM ClaimsStep == Types /\ ClaimsOK /\ [Next]_vars => ClaimsOK'
PROOF
<1> SUFFICES ASSUME Types, ClaimsOK, [Next]_vars PROVE ClaimsOK'
  OBVIOUS
<1> USE DEF Pending
<1>0. /\ \A u \in Curator : Pending(u) => Resource(req[u].r) \in Resources /\ req[u].expected \in Nat
      /\ \A s \in Resources : claims[s] \in Nat /\ stored[s] \in Seq(Nat)
  BY InFlight, RequestNames DEF Types, TopicTypeOK, FlightTypeOK
<1>1. CASE UNCHANGED <<req, claims, stored>>
  BY <1>1 DEF ClaimsOK, OneCommitPerVersion
<1>2. ASSUME NEW u \in Curator, Resends(u) PROVE ClaimsOK'
  <2>1. \A x \in Curator : Pending(x)' => x # u /\ Pending(x) /\ req'[x] = req[x]
    BY <1>2 DEF Resends
  <2> QED BY <1>2, <2>1 DEF Resends, ClaimsOK, OneCommitPerVersion
<1>3. ASSUME NEW u \in Curator, Claims(u) PROVE ClaimsOK'
  <2> DEFINE s == Resource(req[u].r)
  <2>1. req[u] \in OpenRequest /\ s \in Resources
    BY <1>3, InFlight, RequestNames DEF Types, Claims
  <2>2. /\ claims[s] = req[u].expected /\ claims'[s] = claims[s] + 1
        /\ \A t \in Resources : t # s => claims'[t] = claims[t]
    BY <1>3, <2>1 DEF Claims, Types, TopicTypeOK
  <2>3. /\ Resource(req'[u].r) = s /\ req'[u].expected = req[u].expected
        /\ \A x \in Curator : x # u => req'[x] = req[x]
    BY <1>3, <2>1 DEF Claims, Types, FlightTypeOK, OpenRequest
  <2>4. stored' = stored
    BY <1>3 DEF Claims
  <2> HIDE DEF s
  <2>5. \A t \in Resources : \A i \in DOMAIN stored[t] : stored[t][i] \in Nat
    BY <1>0
  <2>6. \A t \in Resources : \A i \in DOMAIN stored'[t] : stored'[t][i] < claims'[t]
    <3> SUFFICES ASSUME NEW t \in Resources, NEW i \in DOMAIN stored[t]
                 PROVE  stored[t][i] < claims'[t]
      BY <2>4
    <3>1. stored[t][i] \in Nat /\ claims[t] \in Nat /\ stored[t][i] < claims[t]
      BY <1>0, <2>5 DEF ClaimsOK
    <3> QED BY <2>2, <3>1
  <2>7. \A x \in Curator : Pending(x)' =>
          /\ req'[x].expected < claims'[Resource(req'[x].r)]
          /\ \A i \in DOMAIN stored'[Resource(req'[x].r)] :
               stored'[Resource(req'[x].r)][i] # req'[x].expected
    <3> SUFFICES ASSUME NEW x \in Curator, Pending(x)'
                 PROVE  /\ req'[x].expected < claims'[Resource(req'[x].r)]
                        /\ \A i \in DOMAIN stored[Resource(req'[x].r)] :
                             stored[Resource(req'[x].r)][i] # req'[x].expected
      BY <2>4
    <3>1. CASE x = u
      BY <1>0, <2>1, <2>2, <2>3, <2>5, <3>1 DEF ClaimsOK
    <3>2. CASE x # u
      <4>1. Pending(x) /\ req'[x] = req[x]
        BY <2>3, <3>2
      <4> DEFINE t == Resource(req[x].r)
      <4>2. /\ t \in Resources /\ claims[t] \in Nat /\ req[x].expected \in Nat
            /\ req[x].expected < claims[t]
            /\ \A i \in DOMAIN stored[t] : stored[t][i] # req[x].expected
        BY <1>0, <4>1 DEF ClaimsOK
      <4> HIDE DEF t
      <4>3. req[x].expected < claims'[t]
        BY <2>2, <4>2
      <4> QED BY <4>1, <4>2, <4>3 DEF t
    <3> QED BY <3>1, <3>2
  <2>8. \A x \in Curator : x # u /\ Pending(x) /\ Resource(req[x].r) = s => req[x].expected # req'[u].expected
    BY <1>0, <2>2, <2>3 DEF ClaimsOK
  <2>9. \A y, x \in Curator :
          y # x /\ Pending(y)' /\ Pending(x)' /\ Resource(req'[y].r) = Resource(req'[x].r)
            => req'[y].expected # req'[x].expected
    BY <2>3, <2>8 DEF ClaimsOK
  <2> QED BY <2>4, <2>6, <2>7, <2>9 DEF ClaimsOK, OneCommitPerVersion
<1>4. ASSUME NEW u \in Curator, Readies(u) PROVE ClaimsOK'
  <2>1. PICK q : /\ q.r = req[u].r /\ q.expected = req[u].expected
                 /\ req' = [req EXCEPT ![u] = q]
    BY <1>4 DEF Readies
  <2>2. Pending(u) /\ (\A x \in Curator : req'[x].phase \in {"claimed", "ready"} =>
          Pending(x) /\ req'[x].r = req[x].r /\ req'[x].expected = req[x].expected)
    BY <1>4, <2>1 DEF Types, FlightTypeOK, Readies
  <2> QED BY <1>4, <2>2 DEF Readies, ClaimsOK, OneCommitPerVersion
<1>5. ASSUME NEW u \in Curator, Commits(u) PROVE ClaimsOK'
  <2> DEFINE s == Resource(req[u].r)
             v == req[u].expected
  <2>1. /\ s \in Resources /\ v \in Nat /\ v < claims[s]
        /\ \A i \in DOMAIN stored[s] : stored[s][i] # v
    BY <1>0, <1>5 DEF Commits, ClaimsOK
  <2>2. stored'[s] = Append(stored[s], v) /\ \A t \in Resources : t # s => stored'[t] = stored[t]
    BY <1>5, <2>1 DEF Commits, Types, FlightTypeOK
  <2>3. \A x \in Curator : req'[x].phase \in {"claimed", "ready"} => x # u /\ Pending(x) /\ req'[x] = req[x]
    BY <1>5 DEF Commits, Types, FlightTypeOK, Idle
  <2>4. claims' = claims
    BY <1>5 DEF Commits
  <2>5. \A x \in Curator : x # u /\ Pending(x) /\ Resource(req[x].r) = s => req[x].expected # v
    BY <1>5 DEF Commits, ClaimsOK
  <2> HIDE DEF s, v
  <2>6. /\ stored[s] \in Seq(Nat) /\ Len(stored[s]) \in Nat
        /\ DOMAIN stored[s] = 1..Len(stored[s]) /\ DOMAIN stored'[s] = 1..(Len(stored[s]) + 1)
        /\ \A i \in 1..Len(stored[s]) : stored'[s][i] = stored[s][i]
        /\ stored'[s][Len(stored[s]) + 1] = v
    BY <1>0, <2>1, <2>2
  <2>7. \A t \in Resources : \A i \in DOMAIN stored'[t] : stored'[t][i] < claims'[t]
    <3> SUFFICES ASSUME NEW t \in Resources, NEW i \in DOMAIN stored'[t]
                 PROVE  stored'[t][i] < claims[t]
      BY <2>4
    <3>1. CASE t # s
      BY <2>2, <3>1 DEF ClaimsOK
    <3>2. CASE t = s /\ i \in 1..Len(stored[s])
      BY <2>6, <3>2 DEF ClaimsOK
    <3>3. CASE t = s /\ i = Len(stored[s]) + 1
      BY <2>1, <2>6, <3>3
    <3> QED BY <2>6, <3>1, <3>2, <3>3
  <2>8. \A x \in Curator : Pending(x)' =>
          /\ req'[x].expected < claims'[Resource(req'[x].r)]
          /\ \A i \in DOMAIN stored'[Resource(req'[x].r)] :
               stored'[Resource(req'[x].r)][i] # req'[x].expected
    <3> SUFFICES ASSUME NEW x \in Curator, Pending(x)'
                 PROVE  /\ req[x].expected < claims[Resource(req[x].r)]
                        /\ \A i \in DOMAIN stored'[Resource(req[x].r)] :
                             stored'[Resource(req[x].r)][i] # req[x].expected
      BY <2>3, <2>4
    <3>1. CASE Resource(req[x].r) = s
      <4>1. /\ req[x].expected # v /\ req[x].expected < claims[s]
            /\ \A i \in DOMAIN stored[s] : stored[s][i] # req[x].expected
        BY <2>3, <2>5, <3>1 DEF ClaimsOK
      <4>2. ASSUME NEW i \in DOMAIN stored'[s] PROVE stored'[s][i] # req[x].expected
        <5>1. CASE i \in 1..Len(stored[s])
          BY <2>6, <4>1, <5>1
        <5>2. CASE i = Len(stored[s]) + 1
          BY <2>6, <4>1, <5>2
        <5> QED BY <2>6, <4>2, <5>1, <5>2
      <4> QED BY <3>1, <4>1, <4>2
    <3>2. CASE Resource(req[x].r) # s
      BY <1>0, <2>2, <2>3, <3>2 DEF ClaimsOK
    <3> QED BY <3>1, <3>2
  <2>9. OneCommitPerVersion'
    <3> SUFFICES ASSUME NEW t \in Resources, NEW i \in DOMAIN stored'[t], NEW j \in DOMAIN stored'[t], i # j
                 PROVE  stored'[t][i] # stored'[t][j]
      BY DEF OneCommitPerVersion
    <3>1. CASE t = s
      <4>1. \A m, n \in 1..Len(stored[s]) : m # n => stored[s][m] # stored[s][n]
        BY <2>1, <2>6 DEF ClaimsOK, OneCommitPerVersion
      <4>2. \A m \in 1..Len(stored[s]) : stored[s][m] # v
        BY <2>1, <2>6
      <4>3. i \in 1..(Len(stored[s]) + 1) /\ j \in 1..(Len(stored[s]) + 1)
        BY <2>6, <3>1
      <4>4. CASE i \in 1..Len(stored[s]) /\ j \in 1..Len(stored[s])
        BY <2>6, <3>1, <4>1, <4>4
      <4>5. CASE i = Len(stored[s]) + 1 /\ j \in 1..Len(stored[s])
        BY <2>6, <3>1, <4>2, <4>5
      <4>6. CASE j = Len(stored[s]) + 1 /\ i \in 1..Len(stored[s])
        BY <2>6, <3>1, <4>2, <4>6
      <4> QED BY <2>6, <4>3, <4>4, <4>5, <4>6
    <3>2. CASE t # s
      BY <2>2, <3>2 DEF ClaimsOK, OneCommitPerVersion
    <3> QED BY <3>1, <3>2
  <2> QED BY <2>3, <2>7, <2>8, <2>9 DEF ClaimsOK
<1> QED BY <1>1, <1>2, <1>3, <1>4, <1>5, RequestMoves

\* Of the requests that claimed one version of a resource at most one commits,
\* however many curators race and whatever is refused or lost on the way
\* (claimVersion, topicGovernanceHandler.ts:28-53).
THEOREM VersionsCommitOnce == Spec => []OneCommitPerVersion
PROOF
<1>1. InitAll => ClaimsOK
  BY DEF InitAll, Init, ClaimsOK, OneCommitPerVersion, Pending, Idle
<1>2. ClaimsOK => OneCommitPerVersion
  BY DEF ClaimsOK
<1> QED BY <1>1, <1>2, ClaimsStep, TypeCorrect, PTL DEF Spec
-----------------------------------------------------------------------------
(* Aliases.                                                                *)

\* An alias open to two topics belongs to one.
AliasUnique ==
  \A a \in Alias : \A t, x \in Topic :
    aliases[<<a, t>>] = "open" /\ aliases[<<a, x>>] = "open" => t = x

THEOREM AliasStep == Types /\ AliasUnique /\ [Next]_vars => AliasUnique'
PROOF
<1> SUFFICES ASSUME Types, AliasUnique, [Next]_vars PROVE AliasUnique'
  OBVIOUS
<1>1. ASSUME NEW u \in Curator, CommitAlias(u) PROVE AliasUnique'
  <2>1. req[u].r \in UNION Agendas /\ req[u].r.act = "alias"
    BY <1>1, InFlight DEF Types, CommitAlias, Ready
  <2> DEFINE a == req[u].r.other
             t == req[u].r.topic
  <2>2. a \in Alias /\ t \in Topic
    BY <2>1, RequestNames
  <2>3. /\ aliases' = [aliases EXCEPT ![<<a, t>>] = IF req[u].r.flag THEN "contextual" ELSE "open"]
        /\ req[u].r.flag \/ AliasFree(a, t)
    BY <1>1 DEF CommitAlias
  <2> HIDE DEF a, t
  <2>4. \A b \in Alias, x \in Topic : <<b, x>> # <<a, t>> => aliases'[<<b, x>>] = aliases[<<b, x>>]
    BY <2>3 DEF Types, TopicTypeOK
  <2>5. aliases'[<<a, t>>] = "open" => AliasFree(a, t)
    BY <2>2, <2>3 DEF Types, TopicTypeOK
  <2> QED BY <2>2, <2>4, <2>5 DEF AliasUnique, AliasFree
<1>2. ASSUME NEW w \in Worker, Reconcile(w) PROVE AliasUnique'
  <2>1. Created(w) \subseteq Topic
    <3>1. worker[w].at \in Cluster
      BY <1>2, AtWork DEF Types, Reconcile, BusyWorker
    <3> QED BY <3>1, ClassifierAssumption DEF Created
  <2> SUFFICES ASSUME NEW a \in Alias, NEW t \in Topic, NEW x \in Topic,
                      aliases'[<<a, t>>] = "open", aliases'[<<a, x>>] = "open"
               PROVE  t = x
    BY DEF AliasUnique
  <2> DEFINE first == CHOOSE y \in Claimants(w, a) : TRUE
  <2>2. \A y \in Topic : aliases'[<<a, y>>] = "open" =>
          aliases[<<a, y>>] = "open" \/ (Claimants(w, a) # {} /\ y = first)
    BY <1>2 DEF Reconcile, AliasesAfter
  <2>3. Claimants(w, a) # {} => first \in Claimants(w, a)
    OBVIOUS
  <2>4. \A y \in Claimants(w, a) : AliasFree(a, y)
    BY DEF Claimants
  <2> HIDE DEF first
  <2> QED BY <2>2, <2>3, <2>4 DEF AliasUnique, AliasFree
<1>3. CASE UNCHANGED aliases
  BY <1>3 DEF AliasUnique
<1>4. UNCHANGED aliases \/ (\E u \in Curator : CommitAlias(u)) \/ (\E w \in Worker : Reconcile(w))
  BY DEF Next, WorkerStep, vars, govVars, regVars, Submit, ClaimVersion, Review, BatchFails, CommitTopic,
         CommitApprove, CommitReject, CommitImplication, CommitAssign, CommitRemove, LoadRegistry,
         CheckPrior, ReconcileRefused, NextCluster, WorkerDies
<1> QED BY <1>1, <1>2, <1>3, <1>4

\* An alias without a context rule names one topic, whichever of the curators
\* and classification jobs writes it last (index idx_topic_alias_unconditional,
\* 0004:47-48; topicGovernanceHandler.ts:89-98; topicAssignmentService.ts:70-73).
THEOREM AliasesUnique == Spec => []AliasNamesOneTopic
PROOF
<1>1. InitAll => AliasUnique
  BY DEF InitAll, Init, AliasUnique
<1>2. AliasUnique => AliasNamesOneTopic
  <2> SUFFICES ASSUME AliasUnique, NEW a \in Alias
               PROVE  Cardinality({t \in Topic : aliases[<<a, t>>] = "open"}) <= 1
    BY DEF AliasNamesOneTopic
  <2> DEFINE owners == {t \in Topic : aliases[<<a, t>>] = "open"}
  <2>1. \A t, x \in owners : t = x
    BY DEF AliasUnique
  <2> HIDE DEF owners
  <2>2. owners = {} \/ \E t : owners = {t}
    BY <2>1
  <2>3. Cardinality(owners) = 0 \/ Cardinality(owners) = 1
    BY <2>2, FS_EmptySet, FS_Singleton
  <2>4. Cardinality(owners) <= 1
    BY <2>3
  <2> QED BY <2>4 DEF owners
<1> QED BY <1>1, <1>2, AliasStep, TypeCorrect, PTL DEF Spec

-----------------------------------------------------------------------------
(* Implications.                                                           *)

Rule(x, y) == x = y \/ <<x, y>> \in implies

\* The trigger's walk from a topic reaches whatever five rules reach.
LEMMA FiveRules ==
  ASSUME NEW a, NEW b, NEW c, NEW d, NEW e, NEW f,
         Rule(a, b), Rule(b, c), Rule(c, d), Rule(d, e), Rule(e, f)
  PROVE  ~ImplicationAllowed(f, a)
PROOF
<1>1. ASSUME NEW X, NEW x \in X, NEW y, Rule(x, y) PROVE y \in Implied(X)
  BY <1>1 DEF Rule, Implied
<1>2. b \in Implied({a})
  BY <1>1
<1>3. c \in Implied(Implied({a}))
  BY <1>1, <1>2
<1>4. d \in Implied(Implied(Implied({a})))
  BY <1>1, <1>3
<1>5. e \in Implied(Implied(Implied(Implied({a}))))
  BY <1>1, <1>4
<1>6. f \in Implied(Implied(Implied(Implied(Implied({a})))))
  BY <1>1, <1>5
<1> QED BY <1>6 DEF ImplicationAllowed

\* Six rules or fewer lead nobody back to where they started.
NoShortCycle ==
  /\ \A t \in Topic : <<t, t>> \notin implies
  /\ \A a, b, c, d, e, f \in Topic :
       /\ Rule(a, b) /\ Rule(b, c) /\ Rule(c, d) /\ Rule(d, e) /\ Rule(e, f) /\ Rule(f, a)
       => a = b /\ b = c /\ c = d /\ d = e /\ e = f

\* A walk of five steps after a new rule <<s, i>>, cut where it first meets s,
\* is a walk of old rules.
LEMMA NoWayBack ==
  ASSUME NEW s, NEW i, ImplicationAllowed(s, i), implies' = implies \cup {<<s, i>>},
         NEW b, NEW c, NEW d, NEW e,
         Rule(i, b)', Rule(b, c)', Rule(c, d)', Rule(d, e)', Rule(e, s)'
  PROVE  FALSE
PROOF
<1>1. \A x, y : x # s /\ Rule(x, y)' => Rule(x, y)
  BY DEF Rule
<1>2. \A x : Rule(x, x)
  BY DEF Rule
<1> DEFINE b1 == IF i = s THEN s ELSE b
           c1 == IF b1 = s THEN s ELSE c
           d1 == IF c1 = s THEN s ELSE d
           e1 == IF d1 = s THEN s ELSE e
<1>3. Rule(i, b1) /\ Rule(b1, c1) /\ Rule(c1, d1) /\ Rule(d1, e1) /\ Rule(e1, s)
  BY <1>1, <1>2
<1> HIDE DEF b1, c1, d1, e1
<1> QED BY <1>3, FiveRules

THEOREM ImplicationStep == Types /\ NoShortCycle /\ [Next]_vars => NoShortCycle'
PROOF
<1> SUFFICES ASSUME Types, NoShortCycle, [Next]_vars PROVE NoShortCycle'
  OBVIOUS
<1>1. ASSUME NEW u \in Curator, CommitImplication(u) PROVE NoShortCycle'
  <2> DEFINE s == req[u].r.topic
             i == req[u].r.other
  <2>1. implies' = implies \cup {<<s, i>>} /\ ImplicationAllowed(s, i)
    BY <1>1 DEF CommitImplication
  <2> HIDE DEF s, i
  <2>2. s # i
    BY <2>1, FiveRules DEF Rule
  <2>3. \A t \in Topic : <<t, t>> \notin implies'
    BY <2>1, <2>2 DEF NoShortCycle
  <2>4. ASSUME NEW a \in Topic, NEW b \in Topic, NEW c \in Topic, NEW d \in Topic, NEW e \in Topic,
               NEW f \in Topic, Rule(a, b)', Rule(b, c)', Rule(c, d)', Rule(d, e)', Rule(e, f)', Rule(f, a)'
        PROVE  a = b /\ b = c /\ c = d /\ d = e /\ e = f
    <3>1. \A x, y : Rule(x, y)' => Rule(x, y) \/ (x = s /\ y = i)
      BY <2>1 DEF Rule
    <3>2. ~(f = s /\ a = i)
      BY <2>1, <2>4, NoWayBack
    <3>3. ~(a = s /\ b = i)
      BY <2>1, <2>4, NoWayBack
    <3>4. ~(b = s /\ c = i)
      BY <2>1, <2>4, NoWayBack
    <3>5. ~(c = s /\ d = i)
      BY <2>1, <2>4, NoWayBack
    <3>6. ~(d = s /\ e = i)
      BY <2>1, <2>4, NoWayBack
    <3>7. ~(e = s /\ f = i)
      BY <2>1, <2>4, NoWayBack
    <3>8. Rule(a, b) /\ Rule(b, c) /\ Rule(c, d) /\ Rule(d, e) /\ Rule(e, f) /\ Rule(f, a)
      BY <2>4, <3>1, <3>2, <3>3, <3>4, <3>5, <3>6, <3>7
    <3> QED BY <3>8 DEF NoShortCycle
  <2> QED BY <2>3, <2>4 DEF NoShortCycle
<1>2. CASE UNCHANGED implies
  BY <1>2 DEF NoShortCycle, Rule
<1>3. UNCHANGED implies \/ (\E u \in Curator : CommitImplication(u))
  BY DEF Next, WorkerStep, vars, govVars, regVars, Submit, ClaimVersion, Review, BatchFails, CommitTopic,
         CommitApprove, CommitReject, CommitAlias, CommitAssign, CommitRemove, LoadRegistry,
         CheckPrior, Reconcile, ReconcileRefused, NextCluster, WorkerDies
<1> QED BY <1>1, <1>2, <1>3

\* A set of at most six topics each of which implies another of the set would
\* close a walk of at most six rules.
LEMMA SmallCycle ==
  ASSUME Types, NoShortCycle, Cardinality(Topic) <= 6
  PROVE  ImpliesNoCycle
PROOF
<1> SUFFICES ASSUME NEW C \in (SUBSET Topic) \ {{}}, \A t \in C : \E x \in C : <<t, x>> \in implies
             PROVE  FALSE
  BY DEF ImpliesNoCycle
<1> DEFINE next == [t \in C |-> CHOOSE x \in C : <<t, x>> \in implies]
<1>1. \A t \in C : next[t] \in C /\ <<t, next[t]>> \in implies
  OBVIOUS
<1> HIDE DEF next
<1>2. PICK t0 \in C : TRUE
  OBVIOUS
<1> DEFINE t1 == next[t0]
           t2 == next[t1]
           t3 == next[t2]
           t4 == next[t3]
           t5 == next[t4]
           t6 == next[t5]
<1>3. /\ t0 \in C /\ t1 \in C /\ t2 \in C /\ t3 \in C /\ t4 \in C /\ t5 \in C /\ t6 \in C
      /\ Rule(t0, t1) /\ Rule(t1, t2) /\ Rule(t2, t3) /\ Rule(t3, t4) /\ Rule(t4, t5) /\ Rule(t5, t6)
  BY <1>1, <1>2 DEF Rule
<1>4. t0 # t1 /\ t1 # t2 /\ t2 # t3 /\ t3 # t4 /\ t4 # t5 /\ t5 # t6
  BY <1>1, <1>2 DEF NoShortCycle
<1> HIDE DEF t1, t2, t3, t4, t5, t6
<1> DEFINE walk == [k \in 0..6 |-> CASE k = 0 -> t0 [] k = 1 -> t1 [] k = 2 -> t2 [] k = 3 -> t3
                                     [] k = 4 -> t4 [] k = 5 -> t5 [] OTHER -> t6]
<1>5. \E j, k \in 0..6 : j # k /\ walk[j] = walk[k]
  <2>1. walk \in [0..6 -> Topic]
    BY <1>3
  <2>2. IsFiniteSet(0..6) /\ Cardinality(0..6) = 7
    <3>1. 0 \in Int /\ 6 \in Int
      OBVIOUS
    <3>2. IsFiniteSet(0..6) /\ Cardinality(0..6) = IF 0 > 6 THEN 0 ELSE 6 - 0 + 1
      BY <3>1, FS_Interval, Zenon
    <3> QED BY <3>2
  <2>3. IsFiniteSet(Topic) /\ Cardinality(Topic) \in Nat
    BY TopicAssumption, FS_CardinalityType
  <2>4. Cardinality(Topic) < Cardinality(0..6)
    BY <2>2, <2>3
  <2> HIDE DEF walk
  <2> QED BY <2>1, <2>2, <2>3, <2>4, FS_PigeonHole
<1>6. \/ t0 \in {t1, t2, t3, t4, t5, t6} \/ t1 \in {t2, t3, t4, t5, t6} \/ t2 \in {t3, t4, t5, t6}
      \/ t3 \in {t4, t5, t6} \/ t4 \in {t5, t6} \/ t5 = t6
  BY <1>5
<1>7. /\ C \subseteq Topic /\ \A x : Rule(x, x)
      /\ \A a, b, c, d, e, f \in C :
           Rule(a, b) /\ Rule(b, c) /\ Rule(c, d) /\ Rule(d, e) /\ Rule(e, f) /\ Rule(f, a) => a = b
  BY DEF NoShortCycle, Rule
<1>8. t0 \notin {t1, t2, t3, t4, t5, t6}
  BY <1>3, <1>4, <1>7
<1>9. t1 \notin {t2, t3, t4, t5, t6}
  BY <1>3, <1>4, <1>7
<1>10. t2 \notin {t3, t4, t5, t6}
  BY <1>3, <1>4, <1>7
<1>11. t3 \notin {t4, t5, t6} /\ t4 \notin {t5, t6} /\ t5 # t6
  BY <1>3, <1>4, <1>7
<1> QED BY <1>6, <1>8, <1>9, <1>10, <1>11

\* Implication rules form no cycle that the trigger's five-rule walk can see:
\* none of six rules or fewer, for any topics, and none at all where there are
\* at most six (topic_implication_cycle_insert, 0004:146-157).
THEOREM ImplicationsEnd == Spec => [](NoShortCycle /\ (Cardinality(Topic) <= 6 => ImpliesNoCycle))
PROOF
<1>1. InitAll => NoShortCycle
  BY DEF InitAll, Init, NoShortCycle, Rule
<1>2. Types /\ NoShortCycle => (Cardinality(Topic) <= 6 => ImpliesNoCycle)
  BY SmallCycle
<1> QED BY <1>1, <1>2, ImplicationStep, TypeCorrect, PTL DEF Spec
-----------------------------------------------------------------------------
(* Locks, refusals and the topics curators withdrew.                       *)

\* A locked row is unlocked or deleted by nobody but a curator who asked for
\* its removal and had seen the lock (topicGovernanceHandler.ts:125-139; the
\* lock triggers, 0005:130-148).
THEOREM LocksKept == Spec => LocksSurvive
PROOF
<1>1. ASSUME Types, [Next]_vars, NEW ct \in DOMAIN rows, rows[ct] = "locked", rows'[ct] # "locked"
      PROVE  RemovalCommits(ct)
  <2>0. rows' = rows \/ (\E u \in Curator : CommitAssign(u) \/ CommitRemove(u)) \/ (\E w \in Worker : Reconcile(w))
    BY <1>1 DEF Next, WorkerStep, vars, govVars, regVars, Submit, ClaimVersion, Review, BatchFails, CommitTopic,
                CommitApprove, CommitReject, CommitAlias, CommitImplication, LoadRegistry, CheckPrior,
                ReconcileRefused, NextCluster, WorkerDies
  <2>1. ASSUME NEW u \in Curator, CommitAssign(u) PROVE FALSE
    BY <1>1, <2>1 DEF CommitAssign, LockAllows
  <2>2. ASSUME NEW u \in Curator, CommitRemove(u) PROVE RemovalCommits(ct)
    BY <1>1, <2>2 DEF CommitRemove, LockAllows, RemovalCommits, Committed, Types, FlightTypeOK
  <2>3. ASSUME NEW w \in Worker, Reconcile(w) PROVE FALSE
    <3>1. rows'[ct] = RowAfter(w, ct)
      BY <2>3 DEF Reconcile
    <3>2. ct = <<ct[1], ct[2]>>
      BY <1>1 DEF Types, TopicTypeOK
    <3>3. ct[1] = worker[w].at /\ ct[2] \in Dropped(w) => FALSE
      BY <1>1, <3>2 DEF Dropped
    <3> QED BY <1>1, <3>1, <3>3 DEF RowAfter
  <2> QED BY <1>1, <2>0, <2>1, <2>2, <2>3
<1>2. Types /\ [Next]_vars
        => [\A ct \in DOMAIN rows : rows[ct] = "locked" /\ rows'[ct] # "locked" => RemovalCommits(ct)]_vars
  BY <1>1
<1> QED BY <1>2, TypeCorrect, PTL DEF Spec, LocksSurvive

\* A topic that is published when its cluster's batch runs is published after.
LEMMA BatchKeepsPublished ==
  ASSUME NEW w \in Worker, NEW t \in Topic, topics[t].status \in {"active", "deprecated", "merged"}
  PROVE  TopicsAfter(w)[t] = topics[t]
PROOF
<1>1. TopicsDiscovered(w)[t] = topics[t]
  BY DEF TopicsDiscovered
<1>2. ~Promotable(topics[t])
  BY DEF Promotable
<1> QED BY <1>1, <1>2 DEF TopicsAfter

\* Classification refuses a cluster only because a topic it was about to
\* assign has lost its publication, or because the run was recorded meanwhile:
\* never because of a lock (topicAssignmentService.ts:35-62 and the triggers
\* of 0005).
THEOREM RefusalsExplained == Spec => RefusedOnlyWhenStale
PROOF
<1>1. ASSUME Types, [Next]_vars, NEW w \in Worker, worker[w].phase = "checked",
             worker'[w].phase = "settled", worker'[w].last = "refused"
      PROVE  RefusedForAReason(w)
  <2>1. ReconcileRefused(w)
    <3>1. ASSUME NEW x \in Worker, x # w, WorkerStep(x) \/ WorkerDies(x) PROVE worker'[w] = worker[w]
      <4>1. CASE LoadRegistry(x) \/ WorkerDies(x) \/ \E c \in Cluster : CheckPrior(x, c)
        <5>1. \E v : worker' = [worker EXCEPT ![x] = v]
          BY <4>1, Zenon DEF WorkerDies, LoadRegistry, CheckPrior
        <5> QED BY <1>1, <3>1, <5>1 DEF Types, FlightTypeOK
      <4>2. CASE Reconcile(x) \/ ReconcileRefused(x)
        <5>1. Settle(x, "validated") \/ Settle(x, "refused")
          BY <4>2 DEF Reconcile, ReconcileRefused
        <5> QED BY <1>1, <3>1, <5>1 DEF Types, FlightTypeOK, Settle
      <4>3. CASE NextCluster(x)
        BY <1>1, <3>1, <4>3 DEF Types, FlightTypeOK, NextCluster
      <4> QED BY <3>1, <4>1, <4>2, <4>3 DEF WorkerStep
    <3>2. ~Reconcile(w)
      BY <1>1, AtWork DEF Types, FlightTypeOK, Reconcile, Settle, BusyWorker
    <3>3. ~LoadRegistry(w) /\ ~NextCluster(w) /\ ~WorkerDies(w) /\ \A c \in Cluster : ~CheckPrior(w, c)
      BY <1>1 DEF Types, FlightTypeOK, LoadRegistry, NextCluster, WorkerDies, CheckPrior, Resting
    <3>4. worker' # worker
      BY <1>1
    <3> QED BY <1>1, <3>1, <3>2, <3>3, <3>4 DEF Next, NoClassification, vars, WorkerStep
  <2>2. NoLockedRowDropped(w)
    BY DEF NoLockedRowDropped, Dropped, LockAllows
  <2>3. CASE ~RunIsNew(w)
    BY <2>3 DEF RunIsNew, RefusedForAReason
  <2>4. CASE ~AcceptedStillPublished(w)
    <3>1. PICK t \in Accepted(w) : TopicsAfter(w)[t].status # "active"
      BY <2>4 DEF AcceptedStillPublished
    <3>2. t \in Topic
      BY <1>1, AtWork DEF Types, Accepted, BusyWorker
    <3> QED BY <3>1, <3>2, BatchKeepsPublished DEF RefusedForAReason
  <2> QED BY <2>1, <2>2, <2>3, <2>4 DEF ReconcileRefused
<1>2. Types /\ [Next]_vars
        => [\A w \in Worker : worker[w].phase = "checked" /\ worker'[w].phase = "settled"
              /\ worker'[w].last = "refused" => RefusedForAReason(w)]_vars
  BY <1>1
<1> QED BY <1>2, TypeCorrect, PTL DEF Spec, RefusedOnlyWhenStale

\* Who writes the registry rows.
LEMMA TopicWriters ==
  ASSUME [Next]_vars
  PROVE  \/ UNCHANGED topics
         \/ \E u \in Curator : CommitTopic(u) \/ CommitApprove(u)
         \/ \E w \in Worker : Reconcile(w)
  BY DEF Next, WorkerStep, vars, govVars, regVars, Submit, ClaimVersion, Review, BatchFails, CommitReject,
         CommitAlias, CommitImplication, CommitAssign, CommitRemove, LoadRegistry, CheckPrior,
         ReconcileRefused, NextCluster, WorkerDies

\* What curators withdrew, the crawl that rediscovers the same concept does not
\* publish again (appendDiscoveredConcepts and the promotion,
\* topicAssignmentService.ts:66-86).
THEOREM WithdrawnStayWithdrawn == Spec => CrawlNeverOverturnsCurators
PROOF
<1>1. ASSUME Types, [Next]_vars, NEW t \in Topic, topics[t].status \in {"deprecated", "merged"},
             topics'[t] # topics[t]
      PROVE  \E u \in Curator : req'[u] # req[u]
  <2>1. ASSUME NEW u \in Curator, CommitTopic(u) \/ CommitApprove(u) PROVE req'[u] # req[u]
    <3>1. req[u].phase = "ready" /\ Committed(u)
      BY <2>1 DEF CommitTopic, CommitApprove, Ready
    <3>2. req'[u] = Idle
      BY <1>1, <3>1 DEF Committed, Types, FlightTypeOK
    <3>3. Idle.phase = "idle"
      BY DEF Idle
    <3> QED BY <3>1, <3>2, <3>3
  <2>2. ASSUME NEW w \in Worker, Reconcile(w) PROVE FALSE
    BY <1>1, <2>2, BatchKeepsPublished DEF Reconcile
  <2> QED BY <1>1, <2>1, <2>2, TopicWriters
<1>2. Types /\ [Next]_vars
        => [\A t \in Topic : topics[t].status \in {"deprecated", "merged"} /\ topics'[t] # topics[t]
              => \E u \in Curator : req'[u] # req[u]]_vars
  BY <1>1
<1> QED BY <1>2, TypeCorrect, PTL DEF Spec, CrawlNeverOverturnsCurators

-----------------------------------------------------------------------------
(* The lifecycle.                                                          *)

RedirectOf(tab) == [t \in Topic |-> tab[t].to]

\* A topic is redirected exactly when it is merged, and redirects end.
RedirectsOK ==
  /\ \A t \in Topic : (topics[t].to # NoTopic) <=> (topics[t].status = "merged")
  /\ Lifecycle!Acyclic(RedirectOf(topics))

\* Redirecting t to a topic from which no redirects lead to t closes no cycle.
LEMMA RedirectKeepsAcyclic ==
  ASSUME NEW t \in Topic, NEW o \in Topic, TopicTypeOK, t \notin Chain(o),
         Lifecycle!Acyclic(RedirectOf(topics)),
         NEW to, \A x \in Topic \ {t} : to[x] = topics[x].to, to[t] = o
  PROVE  Lifecycle!Acyclic(to)
PROOF
<1> SUFFICES ASSUME NEW C \in (SUBSET Topic) \ {{}}, \A x \in C : to[x] \in C
             PROVE  FALSE
  BY DEF Lifecycle!Acyclic
<1>1. ASSUME NEW D \in (SUBSET Topic) \ {{}}, \A x \in D : topics[x].to \in D
      PROVE  FALSE
  BY <1>1 DEF Lifecycle!Acyclic, RedirectOf
<1>2. t \in C
  BY <1>1
<1>3. o \in C
  BY <1>2
<1>4. PICK S \in SUBSET Topic : /\ o \in S /\ t \notin S
                                /\ \A y \in S : topics[y].to # NoTopic => topics[y].to \in S
  BY DEF Chain
<1>5. \A y \in C \cap S : topics[y].to \in C \cap S
  BY <1>4, TopicAssumption
<1> QED BY <1>1, <1>3, <1>4, <1>5

\* A request's topic row, once the triggers and constraints let it through.
LEMMA CommitRedirects ==
  ASSUME Types, RedirectsOK, NEW r \in UNION Agendas,
         r.act \in {"approve", "topic", "merge", "reverse_merge", "suppress", "restore"},
         TopicWriteAllowed(r), topics' = [topics EXCEPT ![r.topic] = TopicWritten(r)]
  PROVE  /\ RedirectsOK'
         /\ topics'[r.topic].status # topics[r.topic].status =>
              <<topics[r.topic].status, topics'[r.topic].status>> \in Lifecycle!Allowed
         /\ topics'[r.topic].status = "merged" => topics'[r.topic].to \in Topic
PROOF
<1> DEFINE t == r.topic
<1>1. t \in Topic /\ (r.act = "merge" => r.other \in Topic)
  BY RequestNames
<1>2. TopicWritten(r) \in TopicRow
  BY TopicWrittenType DEF Types
<1>3. topics'[t] = TopicWritten(r) /\ \A x \in Topic : x # t => topics'[x] = topics[x]
  BY <1>1 DEF Types, TopicTypeOK
<1>4. /\ LifecycleAllows(topics[t].status, topics'[t].status)
      /\ (topics'[t].status = "merged") <=> (topics'[t].to # NoTopic)
      /\ r.act = "merge" => RedirectAllowed(t, r.other)
  BY <1>3 DEF TopicWriteAllowed
<1>5. \A x \in Topic : (topics'[x].to # NoTopic) <=> (topics'[x].status = "merged")
  BY <1>3, <1>4 DEF RedirectsOK
<1>6. Lifecycle!Acyclic(RedirectOf(topics'))
  <2>1. CASE r.act = "merge"
    <3>1. TopicWritten(r).to = r.other
      BY <2>1 DEF TopicWritten
    <3>2. \A x \in Topic \ {t} : RedirectOf(topics')[x] = topics[x].to
      BY <1>3 DEF RedirectOf
    <3>3. RedirectOf(topics')[t] = r.other
      BY <1>1, <1>3, <3>1 DEF RedirectOf
    <3>4. t \notin Chain(r.other)
      BY <1>4, <2>1 DEF RedirectAllowed
    <3> QED BY <1>1, <2>1, <3>2, <3>3, <3>4, RedirectKeepsAcyclic DEF Types, RedirectsOK
  <2>2. CASE r.act # "merge"
    <3>1. TopicWritten(r).to \in {NoTopic, topics[t].to}
      BY <2>2 DEF TopicWritten
    <3>2. \A x \in Topic : RedirectOf(topics')[x] \in {NoTopic, RedirectOf(topics)[x]}
      BY <1>3, <3>1 DEF RedirectOf
    <3> QED BY <3>2, TopicAssumption DEF Lifecycle!Acyclic, RedirectsOK
  <2> QED BY <2>1, <2>2
<1>7. RedirectsOK'
  BY <1>5, <1>6 DEF RedirectsOK, RedirectOf
<1>8. topics'[t].status # topics[t].status
        => <<topics[t].status, topics'[t].status>> \in Lifecycle!Allowed
  BY <1>4 DEF LifecycleAllows, Lifecycle!Allowed
<1>9. topics'[t].status = "merged" => topics'[t].to \in Topic
  BY <1>2, <1>3, <1>4 DEF TopicRow
<1> QED BY <1>7, <1>8, <1>9

\* A cluster's batch creates and promotes topics, and redirects none.
LEMMA ReconcileRedirects ==
  ASSUME Types, RedirectsOK, NEW w \in Worker, Reconcile(w)
  PROVE  /\ RedirectsOK'
         /\ \A t \in Topic : topics'[t].status # topics[t].status =>
              <<topics[t].status, topics'[t].status>> \in Lifecycle!Allowed
         /\ \A t \in Topic : topics'[t].to = topics[t].to
PROOF
<1>1. ASSUME NEW t \in Topic
      PROVE  /\ topics'[t].to = topics[t].to
             /\ topics'[t].status # topics[t].status =>
                  /\ <<topics[t].status, topics'[t].status>> \in
                       {<<"absent", "provisional">>, <<"absent", "active">>, <<"provisional", "active">>}
                  /\ topics[t].status # "merged" /\ topics'[t].status # "merged"
  <2> DEFINE old == TopicsDiscovered(w)[t]
  <2>1. topics'[t] = TopicsAfter(w)[t]
    BY DEF Reconcile
  <2>2. topics[t] \in TopicRow /\ TopicsDiscovered(w)[t] \in TopicRow
    <3>1. worker[w].at \in Cluster /\ worker[w].version \in Nat
      BY AtWork DEF Types, Reconcile, BusyWorker
    <3> QED BY <3>1 DEF Types, TopicTypeOK, TopicsDiscovered, TopicRow
  <2>3. old.to = topics[t].to /\ (old.status = topics[t].status
          \/ (topics[t].status = "absent" /\ old.status = "provisional"))
    BY DEF TopicsDiscovered, RedirectsOK
  <2>4. \/ TopicsAfter(w)[t] = old
        \/ /\ Promotable(old)
           /\ TopicsAfter(w)[t] = [old EXCEPT !.status = "active", !.version = worker[w].version + 1]
    BY Zenon DEF TopicsAfter
  <2> HIDE DEF old
  <2>5. old \in TopicRow
    BY <2>2 DEF old
  <2>6. CASE TopicsAfter(w)[t] = old
    BY <2>1, <2>3, <2>6
  <2>7. CASE /\ Promotable(old)
             /\ TopicsAfter(w)[t] = [old EXCEPT !.status = "active", !.version = worker[w].version + 1]
    <3>1. topics'[t].to = old.to /\ topics'[t].status = "active" /\ old.status = "provisional"
      BY <2>1, <2>5, <2>7 DEF Promotable, TopicRow
    <3> QED BY <2>3, <3>1
  <2> QED BY <2>4, <2>6, <2>7
<1>2. \A t \in Topic : (topics'[t].to # NoTopic) <=> (topics'[t].status = "merged")
  BY <1>1 DEF RedirectsOK
<1>3. RedirectOf(topics') = RedirectOf(topics)
  BY <1>1 DEF RedirectOf
<1>4. RedirectsOK'
  BY <1>2, <1>3 DEF RedirectsOK, RedirectOf, Lifecycle!Acyclic
<1> QED BY <1>1, <1>4 DEF Lifecycle!Allowed

THEOREM LifecycleStep ==
  ASSUME Types, RedirectsOK, [Next]_vars
  PROVE  RedirectsOK' /\ [Lifecycle!Step]_<<[t \in Topic |-> topics[t].status], [t \in Topic |-> topics[t].to]>>
PROOF
<1>1. CASE UNCHANGED topics
  BY <1>1 DEF RedirectsOK, RedirectOf, Lifecycle!Acyclic
<1>2. ASSUME RedirectsOK',
             \A t \in Topic : topics'[t].status # topics[t].status =>
                                <<topics[t].status, topics'[t].status>> \in Lifecycle!Allowed,
             \A t \in Topic : topics'[t].status = "merged" => topics'[t].to \in Topic
      PROVE  Lifecycle!Step
  BY <1>2 DEF Lifecycle!Step, RedirectsOK, RedirectOf
<1>3. ASSUME NEW u \in Curator, CommitTopic(u) \/ CommitApprove(u)
      PROVE  RedirectsOK' /\ Lifecycle!Step
  <2> DEFINE r == req[u].r
  <2>1. /\ r.act \in {"approve", "topic", "merge", "reverse_merge", "suppress", "restore"}
        /\ TopicWriteAllowed(r) /\ topics' = [topics EXCEPT ![r.topic] = TopicWritten(r)]
    BY <1>3 DEF CommitTopic, CommitApprove, Ready
  <2>2. r \in UNION Agendas /\ r.topic \in Topic
    <3>1. req[u].phase = "ready"
      BY <1>3 DEF CommitTopic, CommitApprove, Ready
    <3>2. r \in UNION Agendas
      BY <3>1, InFlight DEF Types
    <3> QED BY <2>1, <3>2, RequestNames
  <2> HIDE DEF r
  <2>3. /\ RedirectsOK'
        /\ topics'[r.topic].status # topics[r.topic].status =>
             <<topics[r.topic].status, topics'[r.topic].status>> \in Lifecycle!Allowed
        /\ topics'[r.topic].status = "merged" => topics'[r.topic].to \in Topic
    BY <2>1, <2>2, CommitRedirects
  <2>4. \A x \in Topic : x # r.topic => topics'[x] = topics[x]
    BY <2>1, <2>2 DEF Types, TopicTypeOK
  <2>5. \A x \in Topic : topics[x].status = "merged" => topics[x].to \in Topic
    BY DEF RedirectsOK, Types, TopicTypeOK, TopicRow
  <2> QED BY <1>2, <2>3, <2>4, <2>5
<1>4. ASSUME NEW w \in Worker, Reconcile(w) PROVE RedirectsOK' /\ Lifecycle!Step
  <2>1. \A x \in Topic : topics[x].status = "merged" => topics[x].to \in Topic
    BY DEF RedirectsOK, Types, TopicTypeOK, TopicRow
  <2>2. \A x \in Topic : topics'[x].status = "merged" => topics'[x].to \in Topic
    BY <1>4, <2>1, ReconcileRedirects, TopicAssumption DEF RedirectsOK, Types, TopicTypeOK, TopicRow
  <2> QED BY <1>2, <1>4, <2>2, ReconcileRedirects
<1> QED BY <1>1, <1>3, <1>4, TopicWriters

\* The registry, with its concurrent requests and its classifier, implements
\* the lifecycle: topics move along it only, a merged topic stays merged, and
\* redirects end (0004:110-144, topicGovernanceHandler.ts:72-124).
THEOREM LifecycleImplemented == Spec => ImplementsLifecycle
PROOF
<1>1. InitAll => RedirectsOK /\ Lifecycle!Init
  <2> SUFFICES ASSUME InitAll PROVE RedirectsOK /\ Lifecycle!Init
    OBVIOUS
  <2>1. \A t \in Topic : topics[t].to = NoTopic /\ topics[t].status \in {"absent", "active"}
    BY DEF InitAll, Init, Absent
  <2>2. Lifecycle!Acyclic(RedirectOf(topics))
    BY <2>1, TopicAssumption DEF Lifecycle!Acyclic, RedirectOf
  <2> QED BY <2>1, <2>2 DEF RedirectsOK, Lifecycle!Init
<1>2. Types /\ RedirectsOK /\ [Next]_vars
        => RedirectsOK' /\ [Lifecycle!Step]_<<[t \in Topic |-> topics[t].status], [t \in Topic |-> topics[t].to]>>
  BY LifecycleStep
<1> QED BY <1>1, <1>2, TypeCorrect, PTL DEF Spec, ImplementsLifecycle, Lifecycle!Spec
=============================================================================
