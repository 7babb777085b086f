------------------------------ MODULE LiveFeed ------------------------------
(***************************************************************************)
(* The homepage readers get, and the two parties that decide it: curators, *)
(* who publish, ingest and roll back through edge functions, and the crawl *)
(* that redeploys the static feed every hour.                              *)
(*                                                                         *)
(* A publish writes override rows to D1, then the live snapshot to KV,     *)
(* then a history row, then prunes the history; each is a remote call of   *)
(* its own, and the calls of two requests interleave.  The crawl reads the *)
(* override rows long before it stamps and deploys its feed.  Readers get  *)
(* whichever snapshot carries the later stamp.                             *)
(*                                                                         *)
(* Story is a sample of the stories: there are always others.  KV answers  *)
(* a read with the last write.                                             *)
(***************************************************************************)
EXTENDS Integers, FiniteSets, FiniteSetsExt

CONSTANTS
  Story,        \* cluster ids
  Request,      \* invocations of the curator endpoints
  Committed,    \* the snapshot committed with the repository
  None,         \* nothing in KV yet
  Keep,         \* history rows retained (20 in the code)
  MaxTime,      \* bound: the clock
  MaxRequests,  \* bound: how many requests curators make
  MaxFaults     \* bound: how many calls fail

\* What a snapshot says of a story: not in it, in it, leading it by rank,
\* promoted by a curator, or hidden by one (isIgnored).
Mark == {"absent", "plain", "lead", "promoted", "ignored"}
Flagged == {"lead", "promoted", "ignored"}
Kind == {"none", "headline", "promote", "ignore", "delete"}
Time == 0..MaxTime
Snapshot == [mark: [Story -> Mark], at: Time]

ASSUME LiveFeedAssumption ==
  /\ IsFiniteSet(Request)
  /\ MaxTime \in Nat /\ MaxRequests \in Nat /\ MaxFaults \in Nat
  /\ Keep \in Nat \ {0}
  /\ Committed \in Snapshot /\ Committed.at = 0
  /\ None \notin Snapshot

VARIABLES
  overrides,  \* curator_overrides in D1: the row of each story
  snapshots,  \* published_snapshots in D1
  live,       \* live_snapshot in KV
  feed,       \* the deployed news.json
  requests,   \* the requests in progress
  \* the crawler
  pc, draft, draftAt,
  now,        \* the clock both parties stamp with
  used, faults

curated == <<overrides, snapshots, live>>
crawl == <<pc, draft, draftAt>>
vars == <<overrides, snapshots, live, feed, requests, pc, draft, draftAt,
          now, used, faults>>

Nothing == [s \in Story |-> "absent"]
Free == [phase |-> "idle", mark |-> Nothing, gone |-> {}, left |-> {}, at |-> 0]

Init ==
  /\ overrides = [s \in Story |-> "none"]
  /\ snapshots = {}
  /\ live = None
  /\ feed = Committed
  /\ requests = [r \in Request |-> Free]
  /\ pc = "idle" /\ draft = Nothing /\ draftAt = 0
  /\ now = 0 /\ used = 0 /\ faults = 0

-----------------------------------------------------------------------------
\* Mutant: a publish is served for ever.
LiveWinsWhenPresent == live # None

\* pickFresherSnapshot: ties go to the static feed.
LiveWins == live # None /\ live.at > feed.at

Served == IF LiveWins THEN live ELSE feed

\* A call that says ok took effect; one that does not may have.
Call(effect, ok) ==
  /\ ok => effect
  /\ faults' = IF ok THEN faults ELSE faults + 1
  /\ faults' <= MaxFaults

Becomes(r, request) == requests' = [requests EXCEPT ![r] = request]

-----------------------------------------------------------------------------
(* handleCuratorPublish.                                                   *)

Changed(mark) == {s \in Story : mark[s] \in Flagged}

\* Mutant: promotion is looked at before ignoring.
KindOfPromotedFirst(m) ==
  CASE m \in {"promoted", "ignored"} -> "promote"
    [] OTHER -> "headline"

KindOf(m) ==
  CASE m = "ignored" -> "ignore"
    [] m = "promoted" -> "promote"
    [] OTHER -> "headline"

Begin(r, mark, gone) ==
  /\ requests[r].phase = "idle"
  /\ used < MaxRequests /\ used' = used + 1
  /\ Becomes(r, [phase |-> "upsert", mark |-> mark, gone |-> gone,
                 left |-> Changed(mark) \cup gone, at |-> 0])
  /\ UNCHANGED <<curated, feed, crawl, now, faults>>

\* A curator sends what a browser holds: any feed it loaded at some time, with
\* any edits made to it since.
Publish(r) ==
  \E mark \in [Story -> Mark], gone \in SUBSET Story :
    /\ \A s \in gone : mark[s] = "absent"
    /\ Begin(r, mark, gone)

\* handleCuratorIngest: a promoted story goes in front of the live snapshot.
Ingest(r, s) ==
  Begin(r, [(IF live = None THEN Nothing ELSE live.mark) EXCEPT ![s] = "promoted"],
        {})

\* upsertOverride, the changed stories before the deleted ones.
Upsert(r, s, effect, ok) ==
  LET q == requests[r] IN
  /\ q.phase = "upsert"
  /\ s \in q.left
  /\ s \in q.gone => q.left \subseteq q.gone
  /\ Call(effect, ok)
  /\ LET kind == IF s \in q.gone THEN "delete" ELSE KindOf(q.mark[s]) IN
     overrides' = IF effect THEN [overrides EXCEPT ![s] = kind] ELSE overrides
  /\ Becomes(r, IF ok THEN [q EXCEPT !.left = @ \ {s}] ELSE Free)
  /\ UNCHANGED <<snapshots, live, feed, crawl, now, used>>

\* Mutant: the snapshot goes live while overrides are still being written.
StampEarly(r) ==
  /\ requests[r].phase = "upsert"
  /\ Becomes(r, [requests[r] EXCEPT !.phase = "put", !.at = now])
  /\ UNCHANGED <<curated, feed, crawl, now, used, faults>>

Stamp(r) ==
  /\ requests[r].phase = "upsert" /\ requests[r].left = {}
  /\ Becomes(r, [requests[r] EXCEPT !.phase = "put", !.at = now])
  /\ UNCHANGED <<curated, feed, crawl, now, used, faults>>

\* The write to KV, of a publish or of a rollback.
PutLive(r, effect, ok) ==
  LET q == requests[r] IN
  /\ q.phase \in {"put", "restore"}
  /\ Call(effect, ok)
  /\ live' = IF effect THEN [mark |-> q.mark, at |-> q.at] ELSE live
  /\ Becomes(r, IF ok /\ q.phase = "put" THEN [q EXCEPT !.phase = "insert"] ELSE Free)
  /\ UNCHANGED <<overrides, snapshots, feed, crawl, now, used>>

\* The column AUTOINCREMENT fills: here only what keeps equal rows apart.
UnusedId == CHOOSE i \in 1..Cardinality(snapshots) + 1 :
              \A row \in snapshots : row.id # i

InsertSnapshot(r, effect, ok) ==
  LET q == requests[r] IN
  /\ q.phase = "insert"
  /\ Call(effect, ok)
  /\ snapshots' =
       IF effect
       THEN snapshots \cup {[id |-> UnusedId, mark |-> q.mark, at |-> q.at]}
       ELSE snapshots
  /\ Becomes(r, IF ok THEN [q EXCEPT !.phase = "prune"] ELSE Free)
  /\ UNCHANGED <<overrides, live, feed, crawl, now, used>>

\* kept is what ORDER BY published_at DESC LIMIT Keep may return.
Newest(kept) ==
  /\ kept \in SUBSET snapshots
  /\ Cardinality(kept) = Min({Keep, Cardinality(snapshots)})
  /\ \A x \in kept, y \in snapshots \ kept : x.at >= y.at

Prune(r, effect, ok) ==
  /\ requests[r].phase = "prune"
  /\ Call(effect, ok)
  /\ IF effect THEN Newest(snapshots') ELSE UNCHANGED snapshots
  /\ Becomes(r, Free)
  /\ UNCHANGED <<overrides, live, feed, crawl, now, used>>

-----------------------------------------------------------------------------
(* handleCuratorRollback.                                                  *)

\* row may come second in ORDER BY published_at DESC.
Second(row) ==
  /\ row \in snapshots
  /\ \E first \in snapshots \ {row} :
       /\ first.at >= row.at
       /\ \A other \in snapshots \ {row, first} : row.at >= other.at

Rollback(r, row) ==
  /\ requests[r].phase = "idle"
  /\ used < MaxRequests /\ used' = used + 1
  /\ Second(row)
  /\ Becomes(r, [Free EXCEPT !.phase = "restore", !.mark = row.mark, !.at = row.at])
  /\ UNCHANGED <<curated, feed, crawl, now, faults>>

-----------------------------------------------------------------------------
(* runIngestionPipeline and the deployment.                                *)

\* preserveCuratorOverrides: the committed snapshot's locks.
Locked(mark) ==
  [s \in Story |-> IF Committed.mark[s] \in {"promoted", "ignored"}
                   THEN Committed.mark[s] ELSE mark[s]]

\* applyD1CuratorOverrides.  A row sets the flags it carries: those of the stories
\* in explicit carry the cleared ones too, the others leave a lock standing.
Overlaid(mark, rows, explicit) ==
  [s \in Story |->
    CASE mark[s] = "absent" \/ rows[s] = "delete" -> "absent"
      [] rows[s] = "none" -> mark[s]
      [] rows[s] = "ignore" -> "ignored"
      [] mark[s] = "ignored" /\ s \notin explicit -> "ignored"
      [] rows[s] = "promote" -> "promoted"
      [] OTHER -> IF mark[s] = "promoted" /\ s \notin explicit THEN "promoted" ELSE "lead"]

\* The crawl clusters what the feeds carry, reads the overrides and ranks: any
\* story may miss the homepage.  A read that fails leaves the locks alone.
Collect(ok) ==
  /\ pc = "idle"
  /\ Call(TRUE, ok)
  /\ \E found \in [Story -> {"absent", "plain", "lead"}], explicit, cut \in SUBSET Story :
       LET locked == Locked(found)
           mark == IF ok THEN Overlaid(locked, overrides, explicit) ELSE locked IN
       draft' = [s \in Story |-> IF s \in cut THEN "absent" ELSE mark[s]]
  /\ pc' = "enrich"
  /\ UNCHANGED <<curated, feed, requests, draftAt, now, used>>

\* Long after: the snapshot is stamped and written.
Build ==
  /\ pc = "enrich"
  /\ draftAt' = now
  /\ pc' = "deploy"
  /\ UNCHANGED <<curated, feed, requests, draft, now, used, faults>>

Ended == pc' = "idle" /\ draft' = Nothing /\ draftAt' = 0

Deploy ==
  /\ pc = "deploy"
  /\ feed' = [mark |-> draft, at |-> draftAt]
  /\ Ended
  /\ UNCHANGED <<curated, requests, now, used, faults>>

\* The atomic commit guard leaves the committed snapshot to be deployed.
BailOut ==
  /\ pc = "idle"
  /\ feed' = Committed
  /\ UNCHANGED <<curated, requests, crawl, now, used, faults>>

Killed ==
  /\ pc # "idle"
  /\ Call(FALSE, FALSE)
  /\ Ended
  /\ UNCHANGED <<curated, feed, requests, now, used>>

Tick ==
  /\ now < MaxTime
  /\ now' = now + 1
  /\ UNCHANGED <<curated, feed, requests, crawl, used, faults>>

-----------------------------------------------------------------------------
Curate(r) ==
  \/ \E s \in Story : Ingest(r, s)
  \/ Publish(r)
  \/ \E row \in snapshots : Rollback(r, row)
  \/ Stamp(r)
  \/ \E effect, ok \in BOOLEAN :
       \/ \E s \in Story : Upsert(r, s, effect, ok)
       \/ PutLive(r, effect, ok)
       \/ InsertSnapshot(r, effect, ok)
       \/ Prune(r, effect, ok)

Crawl == (\E ok \in BOOLEAN : Collect(ok)) \/ Build \/ Deploy

Next ==
  \/ \E r \in Request : Curate(r)
  \/ Crawl
  \/ BailOut
  \/ Killed
  \/ Tick

Spec == Init /\ [][Next]_vars

\* The hourly schedule.
FairSpec == Spec /\ WF_vars(Crawl)

-----------------------------------------------------------------------------
Phase == {"idle", "upsert", "put", "insert", "prune", "restore"}

TypeOK ==
  /\ overrides \in [Story -> Kind]
  /\ snapshots \subseteq [id: Nat, mark: [Story -> Mark], at: Time]
  /\ live \in Snapshot \cup {None}
  /\ feed \in Snapshot
  /\ requests \in [Request -> [phase: Phase, mark: [Story -> Mark],
                               gone: SUBSET Story, left: SUBSET Story, at: Time]]
  /\ pc \in {"idle", "enrich", "deploy"}
  /\ draft \in [Story -> Mark]
  /\ draftAt \in Time /\ now \in Time
  /\ used \in 0..MaxRequests /\ faults \in 0..MaxFaults

\* Whatever stands out in the live snapshot has an override row for the next
\* crawl to find, through crashes, rollbacks and concurrent requests
\* (handleCuratorPublish writes the rows first).
LiveIsDurable ==
  live # None =>
    \A s \in Story : live.mark[s] \in Flagged => overrides[s] # "none"

Pruning == {r \in Request : requests[r].phase = "prune"}

\* The history stays within its limit but for publishes about to prune, and
\* for failures (pruneSnapshots).
HistoryBounded ==
  Cardinality(snapshots) <= Keep + Cardinality(Pruning) + faults

Goes(r) == requests[r].phase = "put" /\ requests'[r].phase = "insert"

\* What a crawl that finds every story will make of the rows.
Told == Overlaid([s \in Story |-> "plain"], overrides, Story)

\* Of requests one after the other, what goes live is what the rows tell the
\* next crawl (handleCuratorPublish, applyD1CuratorOverrides).
LiveAgreesWithRows ==
  [][\A r \in Request : Goes(r) => \A s \in Story :
       /\ live'.mark[s] \in Flagged => Told[s] = live'.mark[s]
       /\ s \in requests[r].gone => Told[s] = "absent"]_vars

\* Once curators rest, the crawl's feed is what readers get: a publish or a
\* rollback does not shadow it for ever (pickFresherSnapshot).
CrawlsGetThrough == []<> ~ LiveWins
=============================================================================
