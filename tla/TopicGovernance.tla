--------------------------- MODULE TopicGovernance --------------------------
(***************************************************************************)
(* The curator side of the topic registry.  A request reads the version of *)
(* the resource it governs in the browser, claims the next one in a write  *)
(* of its own, reads what it needs, and commits one batch that the         *)
(* triggers of the schema may abort.  The version keys name a candidate, a *)
(* topic, an alias, an implication or an assignment, so two requests about *)
(* one topic need not share one.                                           *)
(***************************************************************************)
EXTENDS Naturals, Sequences, FiniteSets

CONSTANTS
  Topic, Cluster, Candidate, Alias, Curator, NoTopic,
  Seeded,       \* topics the migrations seed as active and published
  Agendas,      \* sets of requests the curators of one behaviour draw from
  MaxRequests   \* bound: how many requests are sent in all

ASSUME TopicAssumption == IsFiniteSet(Topic) /\ NoTopic \notin Topic

VARIABLES
  topics,    \* registry row of each topic
  cand,      \* [Candidate -> {"none", "pending", "approved", "rejected"}]
  resolved,  \* the topic a candidate resolves to
  aliases,   \* [Alias \X Topic -> {"none", "open", "contextual"}]
  implies,   \* implication rules, a relation on topics
  rows,      \* [Cluster \X Topic -> {"none", "auto", "curated", "locked"}]
  mentioned, \* article_topic_mentions: pairs a run has recorded
  queue,     \* [Trigger \X Topic \X Cluster -> status]
  claims,    \* topic_governance_versions
  agenda,    \* the requests curators draw from
  req,       \* the request each curator has in flight
  sent,      \* requests sent so far
  stored     \* history: the versions committed for each resource, in order

govVars == <<topics, cand, resolved, aliases, implies, rows, mentioned,
             queue, claims, agenda, req, sent, stored>>
regVars == <<topics, cand, resolved, aliases, implies, rows, mentioned, queue,
             agenda>>

Acts == {"approve", "reject", "topic", "alias", "implication", "merge",
         "reverse_merge", "suppress", "restore", "assign", "remove"}
Trigger == {"registry_change", "alias_change", "topic_merge"}

(* topic_governance_versions is keyed by type and id: only requests with   *)
(* the same key exclude each other.                                        *)
Resource(r) ==
  CASE r.act \in {"approve", "reject"} -> <<"candidate", r.other>>
    [] r.act \in {"assign", "remove"}  -> <<"assignment", r.other, r.topic>>
    [] r.act = "alias"                 -> <<"alias", r.other, r.topic>>
    [] r.act = "implication"           -> <<"implication", r.topic, r.other>>
    [] OTHER                           -> <<"topic", r.topic>>

Resources == {Resource(r) : r \in UNION Agendas}

(* The parsed body of a request names rows of the kinds its action is      *)
(* about; only a rejection may come without a topic.                       *)
WellFormed(r) ==
  /\ r.act \in Acts
  /\ r.topic \in Topic \/ (r.act = "reject" /\ r.topic = NoTopic)
  /\ r.act \in {"approve", "reject"} => r.other \in Candidate
  /\ r.act \in {"assign", "remove"} => r.other \in Cluster
  /\ r.act = "alias" => r.other \in Alias
  /\ r.act \in {"implication", "merge", "reverse_merge"} => r.other \in Topic

ASSUME AgendaAssumption == \A r \in UNION Agendas : WellFormed(r)

TopicRow ==
  [status : {"absent", "provisional", "active", "deprecated", "merged"},
   to : Topic \cup {NoTopic}, version : Nat]
Published(t) == topics[t].status = "active"
Absent == [status |-> "absent", to |-> NoTopic, version |-> 0]
Idle == [phase |-> "idle"]

Init ==
  /\ topics = [t \in Topic |->
       IF t \in Seeded THEN [status |-> "active", to |-> NoTopic, version |-> 1] ELSE Absent]
  /\ cand \in [Candidate -> {"none", "pending"}]
  /\ resolved = [k \in Candidate |-> NoTopic]
  /\ aliases = [at \in Alias \X Topic |-> "none"]
  /\ implies = {}
  /\ rows = [ct \in Cluster \X Topic |-> "none"]
  /\ mentioned = {}
  /\ queue = [q \in Trigger \X Topic \X Cluster |-> "none"]
  /\ claims = [s \in Resources |-> 0]
  /\ agenda \in Agendas
  /\ req = [u \in Curator |-> Idle]
  /\ sent = 0
  /\ stored = [s \in Resources |-> <<>>]

(***************************************************************************)
(* The triggers and constraints that abort a batch.                        *)
(***************************************************************************)
\* Mutant: the lifecycle trigger is gone.
AnyTransition(from, to) == TRUE

LifecycleAllows(from, to) ==
  \/ from = to
  \/ from = "provisional" /\ to \in {"active", "deprecated", "merged"}
  \/ from = "active" /\ to \in {"deprecated", "merged"}
  \/ from = "deprecated" /\ to \in {"active", "merged"}

(* The topics reached from t along redirects, t included: the trigger's    *)
(* query follows them to the end.                                          *)
Chain(t) ==
  {x \in Topic : \A S \in SUBSET Topic :
     t \in S /\ (\A y \in S : topics[y].to # NoTopic => topics[y].to \in S) => x \in S}

RedirectAllowed(t, to) ==
  /\ to # t
  /\ topics[to].status # "absent"
  /\ t \notin Chain(to)

\* Mutant: only the reverse rule is looked for, with no chain at all.
ImplicationUnchecked(s, i) == s # i

(* Topics reached from those of X by one rule or none.                     *)
Implied(X) == X \cup {e[2] : e \in {f \in implies : f[1] \in X}}

(* An implication chain is followed five rules deep.                       *)
ImplicationAllowed(s, i) == s \notin Implied(Implied(Implied(Implied(Implied({i})))))

(* Only one topic may own an alias without a context rule.                 *)
AliasFree(a, t) == \A x \in Topic \ {t} : aliases[<<a, x>>] # "open"

\* Mutant: a curator's write may drop the lock without a record.
LockIgnored(old, new, unlockRecorded) == TRUE

(* A locked row is overwritten by curators only, and unlocked only beside  *)
(* an unlock record of the same batch.                                     *)
LockAllows(old, new, unlockRecorded) ==
  old = "locked" => (new = "locked" \/ unlockRecorded)

(***************************************************************************)
(* A request, from the browser to its batch.                               *)
(***************************************************************************)
(* The view model reads the version just before it submits; when that read *)
(* fails it sends 0.                                                       *)
Submit(u, r) ==
  /\ req[u].phase = "idle" /\ sent < MaxRequests
  /\ \E v \in {claims[Resource(r)], 0} :
        req' = [req EXCEPT ![u] = [phase |-> "sent", r |-> r, expected |-> v]]
  /\ sent' = sent + 1
  /\ UNCHANGED <<regVars, claims, stored>>

\* Mutant: the version is compared when it is read and not in the write.
ClaimUnguarded(u) ==
  /\ req[u].phase = "sent"
  /\ claims' = [claims EXCEPT ![Resource(req[u].r)] = @ + 1]
  /\ req' = [req EXCEPT ![u].phase = "claimed"]
  /\ UNCHANGED <<regVars, sent, stored>>

ClaimVersion(u) ==
  LET s == Resource(req[u].r) IN
  /\ req[u].phase = "sent"
  /\ \/ /\ claims[s] = req[u].expected
        /\ claims' = [claims EXCEPT ![s] = @ + 1]
        /\ req' = [req EXCEPT ![u].phase = "claimed"]
     \/ /\ claims[s] # req[u].expected
        /\ req' = [req EXCEPT ![u] = Idle]
        /\ UNCHANGED claims
  /\ UNCHANGED <<regVars, sent, stored>>

(* Clusters with a row or a mention of the topic.                          *)
Affected(t) == {c \in Cluster : rows[<<c, t>>] # "none" \/ <<c, t>> \in mentioned}

TriggerOf(r) ==
  CASE r.act = "alias" -> "alias_change"
    [] r.act \in {"merge", "reverse_merge"} -> "topic_merge"
    [] OTHER -> "registry_change"

(* The checks between the claim and the batch.  One that fails answers an  *)
(* error and leaves the claimed version spent.                             *)
Reviewable(r) ==
  CASE r.act \in {"approve", "reject"} -> cand[r.other] = "pending"
    [] r.act \in {"topic", "merge", "reverse_merge"} -> topics[r.topic].status # "absent"
    [] r.act = "suppress" -> topics[r.topic].status = "active"
    [] r.act = "restore" -> topics[r.topic].status = "deprecated"
    [] r.act = "alias" -> r.flag \/ AliasFree(r.other, r.topic)
    [] r.act = "assign" -> Published(r.topic)
    [] r.act = "remove" -> Published(r.topic) /\ rows[<<r.other, r.topic>>] # "none"
    [] OTHER -> TRUE

(* What the request read: whether its row was locked, and what to enqueue. *)
Seen(r) ==
  [locked |-> r.act = "remove" /\ rows[<<r.other, r.topic>>] = "locked",
   enqueue |-> CASE r.act \in {"assign", "remove"} \/ r.topic = NoTopic -> {}
                 [] r.act \in {"merge", "reverse_merge"} ->
                      {<<TriggerOf(r), r.topic, c>> : c \in Affected(r.topic)}
                        \cup {<<TriggerOf(r), r.other, c>> : c \in Affected(r.other)}
                 [] OTHER -> {<<TriggerOf(r), r.topic, c>> : c \in Affected(r.topic)}]

Review(u) ==
  /\ req[u].phase = "claimed"
  /\ LET r == req[u].r IN
       req' = [req EXCEPT ![u] =
                 IF Reviewable(r)
                 THEN [phase |-> "ready", r |-> r, expected |-> req[u].expected, seen |-> Seen(r)]
                 ELSE Idle]
  /\ UNCHANGED <<regVars, claims, sent, stored>>

(***************************************************************************)
(* The batches.  A batch that a trigger or a constraint aborts, or that    *)
(* never reaches the database, changes nothing.                            *)
(***************************************************************************)
Ready(u, acts) == req[u].phase = "ready" /\ req[u].r.act \in acts

Committed(u) ==
  /\ req' = [req EXCEPT ![u] = Idle]
  /\ stored' = [stored EXCEPT ![Resource(req[u].r)] = Append(@, req[u].expected)]
  /\ UNCHANGED <<claims, agenda, sent, mentioned>>

(* INSERT OR IGNORE: an entry that was completed before stays completed.   *)
Enqueue(u) ==
  queue' = [q \in DOMAIN queue |->
              IF q \in req[u].seen.enqueue /\ queue[q] = "none" THEN "pending" ELSE queue[q]]

BatchFails(u) ==
  /\ req[u].phase = "ready"
  /\ req' = [req EXCEPT ![u] = Idle]
  /\ UNCHANGED <<regVars, claims, sent, stored>>

(* The topic row a request writes, whatever the row has become since the   *)
(* request read it.                                                        *)
TopicWritten(r) ==
  LET old == topics[r.topic]
      new(st, to) == [status |-> st, to |-> to, version |-> old.version + 1]
  IN CASE r.act \in {"approve", "restore"} -> new("active", old.to)
       [] r.act = "topic"         -> new(old.status, old.to)
       [] r.act = "merge"         -> new("merged", r.other)
       [] r.act = "reverse_merge" -> new("active", NoTopic)
       [] r.act = "suppress"      -> new("deprecated", old.to)

TopicWriteAllowed(r) ==
  LET new == TopicWritten(r) IN
  /\ topics[r.topic].status # "absent"
  /\ LifecycleAllows(topics[r.topic].status, new.status)
  /\ (new.status = "merged") <=> (new.to # NoTopic)
  /\ r.act = "merge" => RedirectAllowed(r.topic, r.other)

CommitTopic(u) ==
  LET r == req[u].r IN
  /\ Ready(u, {"topic", "merge", "reverse_merge", "suppress", "restore"})
  /\ TopicWriteAllowed(r)
  /\ topics' = [topics EXCEPT ![r.topic] = TopicWritten(r)]
  /\ Enqueue(u) /\ Committed(u)
  /\ UNCHANGED <<cand, resolved, aliases, implies, rows>>

(* Approving publishes the topic whatever its status: no guard in the SQL. *)
CommitApprove(u) ==
  LET r == req[u].r IN
  /\ Ready(u, {"approve"})
  /\ TopicWriteAllowed(r)
  /\ topics' = [topics EXCEPT ![r.topic] = TopicWritten(r)]
  /\ cand' = [cand EXCEPT ![r.other] = "approved"]
  /\ resolved' = [resolved EXCEPT ![r.other] = r.topic]
  /\ Enqueue(u) /\ Committed(u)
  /\ UNCHANGED <<aliases, implies, rows>>

(* The audit row must name a topic or a cluster, and a rejection sent      *)
(* without a topic names neither.                                          *)
CommitReject(u) ==
  LET r == req[u].r IN
  /\ Ready(u, {"reject"})
  /\ r.topic # NoTopic /\ topics[r.topic].status # "absent"
  /\ cand' = [cand EXCEPT ![r.other] = "rejected"]
  /\ resolved' = [resolved EXCEPT ![r.other] = NoTopic]
  /\ Enqueue(u) /\ Committed(u)
  /\ UNCHANGED <<topics, aliases, implies, rows>>

\* Mutant: the unique index is gone, the earlier collision check remains.
CommitAliasUnindexed(u) ==
  LET r == req[u].r IN
  /\ Ready(u, {"alias"})
  /\ aliases' = [aliases EXCEPT ![<<r.other, r.topic>>] = IF r.flag THEN "contextual" ELSE "open"]
  /\ Enqueue(u) /\ Committed(u)
  /\ UNCHANGED <<topics, cand, resolved, implies, rows>>

CommitAlias(u) ==
  LET r == req[u].r IN
  /\ Ready(u, {"alias"})
  /\ topics[r.topic].status # "absent"
  /\ r.flag \/ AliasFree(r.other, r.topic)
  /\ aliases' = [aliases EXCEPT ![<<r.other, r.topic>>] = IF r.flag THEN "contextual" ELSE "open"]
  /\ Enqueue(u) /\ Committed(u)
  /\ UNCHANGED <<topics, cand, resolved, implies, rows>>

CommitImplication(u) ==
  LET r == req[u].r IN
  /\ Ready(u, {"implication"})
  /\ topics[r.topic].status # "absent" /\ topics[r.other].status # "absent"
  /\ ImplicationAllowed(r.topic, r.other)
  /\ implies' = implies \cup {<<r.topic, r.other>>}
  /\ Enqueue(u) /\ Committed(u)
  /\ UNCHANGED <<topics, cand, resolved, aliases, rows>>

CommitAssign(u) ==
  LET r == req[u].r
      ct == <<r.other, r.topic>>
      new == IF r.flag THEN "locked" ELSE "curated"
  IN
  /\ Ready(u, {"assign"})
  /\ Published(r.topic)
  /\ LockAllows(rows[ct], new, FALSE)
  /\ rows' = [rows EXCEPT ![ct] = new]
  /\ Enqueue(u) /\ Committed(u)
  /\ UNCHANGED <<topics, cand, resolved, aliases, implies>>

(* A row read as locked is unlocked beside its record, which the insert    *)
(* and update triggers allow for a published topic only, then deleted.     *)
CommitRemove(u) ==
  LET ct == <<req[u].r.other, req[u].r.topic>> IN
  /\ Ready(u, {"remove"})
  /\ req[u].seen.locked /\ rows[ct] # "none" => Published(req[u].r.topic)
  /\ LockAllows(rows[ct], "none", req[u].seen.locked)
  /\ rows' = [rows EXCEPT ![ct] = "none"]
  /\ Enqueue(u) /\ Committed(u)
  /\ UNCHANGED <<topics, cand, resolved, aliases, implies>>
=============================================================================
