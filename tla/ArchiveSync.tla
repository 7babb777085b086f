---------------------------- MODULE ArchiveSync ----------------------------
(***************************************************************************)
(* The archive of stories that left the homepage: rows in D1, payloads in  *)
(* R2, and the gate a durable crawl must pass before it may deploy.        *)
(*                                                                         *)
(* A crawl archives what it drops (payload first, then row), takes back    *)
(* the archived rows of what it shows (payload first, then row), and       *)
(* refuses to deploy if either went wrong.  A remote call can fail without *)
(* effect, or take effect and look failed; the crawler can be killed       *)
(* between any two.  The object of a story in R2 is the one durable        *)
(* ingestion writes for it: both use the key <id>.json.                    *)
(*                                                                         *)
(* D1 and R2 are configured: with neither the sync does nothing, and the   *)
(* pipeline refuses to start with only one of them.                        *)
(***************************************************************************)
EXTENDS Integers, FiniteSets, FiniteSetsExt

CONSTANTS
  Story,         \* cluster ids
  Committed,     \* the stories of the news.json committed with the repository
  None,          \* no story
  HomepageSize,  \* stories shown (maxClusters, 30 in the code)
  MaxFaults      \* bound: how many failures and kills occur

ASSUME ArchiveAssumption ==
  /\ IsFiniteSet(Story)
  /\ Committed \subseteq Story
  /\ None \notin Story
  /\ HomepageSize \in Nat \ {0}
  /\ MaxFaults \in Nat

VARIABLES
  rows,       \* archived_stories in D1
  blobs,      \* the stories whose payload object exists in R2
  homepage,   \* the stories of the deployed snapshot
  \* the crawler
  pc,
  found,      \* the stories of this crawl's articles
  clustered,  \* those plus the committed ones curators hold, less the deleted
  next,       \* the stories it is going to show
  todo,       \* popped stories not yet archived
  item,       \* the story whose payload was just put
  returning,  \* archived ids whose payload is still to be deleted
  failed,     \* has archiving or reconciling failed?
  faults

stores == <<rows, blobs, homepage>>
crawl == <<found, clustered, next>>
vars == <<rows, blobs, homepage, pc, found, clustered, next, todo, item,
          returning, failed, faults>>

Init ==
  /\ rows = {} /\ blobs = {} /\ homepage = Committed
  /\ pc = "idle"
  /\ found = {} /\ clustered = {} /\ next = {}
  /\ todo = {} /\ item = None /\ returning = {} /\ failed = FALSE
  /\ faults = 0

-----------------------------------------------------------------------------
\* findClustersToArchive.
Popped(prev, shown) == prev \ shown

\* A call that says ok took effect; one that does not may have.
Call(effect, ok) ==
  /\ ok => effect
  /\ faults' = IF ok THEN faults ELSE faults + 1
  /\ faults' <= MaxFaults

Gone ==
  /\ pc' = "idle"
  /\ found' = {} /\ clustered' = {} /\ next' = {}
  /\ todo' = {} /\ item' = None /\ returning' = {} /\ failed' = FALSE

\* Fetch, cluster and rank: any stories, any of them on top.
BeginCrawl ==
  /\ pc = "idle"
  /\ found' \in SUBSET Story \ {{}}
  /\ clustered' \in SUBSET (found' \cup Committed) \ {{}}
  /\ next' \in SUBSET clustered'
  /\ Cardinality(next') = Min({HomepageSize, Cardinality(clustered')})
  /\ pc' = "persist"
  /\ todo' = Popped(Committed \cup clustered', next')
  /\ UNCHANGED <<stores, item, returning, failed, faults>>

\* The atomic commit guard: no fresh article, nothing written, and the workflow
\* deploys the snapshot it checked out.
BailOut ==
  /\ pc = "idle"
  /\ homepage' = Committed
  /\ UNCHANGED <<rows, blobs, pc, crawl, todo, item, returning, failed, faults>>

\* Durable ingestion writes the payloads of what it found, all or the crawl ends.
Persist ==
  /\ pc = "persist"
  /\ \E done \in SUBSET found :
       /\ blobs' = blobs \cup done
       /\ \/ /\ done = found
             /\ pc' = "archive"
             /\ UNCHANGED <<crawl, todo, item, returning, failed, faults>>
          \/ Gone /\ Call(TRUE, FALSE)
  /\ UNCHANGED <<rows, homepage>>

-----------------------------------------------------------------------------
(* archivePoppedClusters, one popped story after the other.                *)

\* Mutant: a failed put falls through to the insert.
PutThenInsert(x, effect, ok) ==
  /\ pc = "archive" /\ x \in todo
  /\ Call(effect, ok)
  /\ blobs' = IF effect THEN blobs \cup {x} ELSE blobs
  /\ todo' = todo \ {x}
  /\ pc' = "insert" /\ item' = x /\ UNCHANGED failed
  /\ UNCHANGED <<rows, homepage, crawl, returning>>

PutPayload(x, effect, ok) ==
  /\ pc = "archive" /\ x \in todo
  /\ Call(effect, ok)
  /\ blobs' = IF effect THEN blobs \cup {x} ELSE blobs
  /\ todo' = todo \ {x}
  /\ IF ok THEN pc' = "insert" /\ item' = x /\ UNCHANGED failed
           ELSE failed' = TRUE /\ UNCHANGED <<pc, item>>
  /\ UNCHANGED <<rows, homepage, crawl, returning>>

InsertRow(effect, ok) ==
  /\ pc = "insert"
  /\ Call(effect, ok)
  /\ rows' = IF effect THEN rows \cup {item} ELSE rows
  /\ failed' = (failed \/ ~ ok)
  /\ pc' = "archive" /\ item' = None
  /\ UNCHANGED <<blobs, homepage, crawl, todo, returning>>

-----------------------------------------------------------------------------
(* reconcileArchiveWithLiveFeed.                                           *)

ArchivedAmong(shown) == rows \cap shown

\* A lookup that fails only skips the cleanup of R2.
Lookup(ok) ==
  /\ pc = "archive" /\ todo = {}
  /\ Call(TRUE, ok)
  /\ returning' = IF ok THEN ArchivedAmong(next) ELSE {}
  /\ pc' = "erase"
  /\ UNCHANGED <<stores, crawl, todo, item, failed>>

\* A payload that is not deleted is only counted.
ErasePayload(x, effect, ok) ==
  /\ pc = "erase" /\ x \in returning
  /\ Call(effect, ok)
  /\ blobs' = IF effect THEN blobs \ {x} ELSE blobs
  /\ returning' = returning \ {x}
  /\ UNCHANGED <<rows, homepage, pc, crawl, todo, item, failed>>

\* Mutant: only the stories of this crawl's articles are taken back.
DeleteRowsFound(effect, ok) ==
  /\ pc = "erase" /\ returning = {}
  /\ Call(effect, ok)
  /\ rows' = IF effect THEN rows \ found ELSE rows
  /\ failed' = (failed \/ ~ ok)
  /\ pc' = "gate"
  /\ UNCHANGED <<blobs, homepage, crawl, todo, item, returning>>

\* Mutant: the failure of the delete is forgotten.
DeleteRowsQuietly(effect, ok) ==
  /\ pc = "erase" /\ returning = {}
  /\ Call(effect, ok)
  /\ rows' = IF effect THEN rows \ next ELSE rows
  /\ pc' = "gate"
  /\ UNCHANGED <<blobs, homepage, crawl, todo, item, returning, failed>>

DeleteRows(effect, ok) ==
  /\ pc = "erase" /\ returning = {}
  /\ Call(effect, ok)
  /\ rows' = IF effect THEN rows \ next ELSE rows
  /\ failed' = (failed \/ ~ ok)
  /\ pc' = "gate"
  /\ UNCHANGED <<blobs, homepage, crawl, todo, item, returning>>

-----------------------------------------------------------------------------
(* The gate, the snapshot file and the deployment.                         *)

\* A crawl refuses to publish a homepage its archive does not match.
Refuse == pc = "gate" /\ failed /\ Gone /\ UNCHANGED <<stores, faults>>

\* Past the gate come the stages that keep their failures to themselves, the
\* snapshot file and the ledger's last checkpoints.
Admit ==
  /\ pc = "gate"
  /\ ~ failed
  /\ pc' = "deploy"
  /\ UNCHANGED <<stores, crawl, todo, item, returning, failed, faults>>

Deploy ==
  /\ pc = "deploy"
  /\ homepage' = next
  /\ Gone
  /\ UNCHANGED <<rows, blobs, faults>>

\* The job's time limit, or a step that throws, as a snapshot that cannot be
\* written does: nothing is deployed.
Killed == pc # "idle" /\ Call(FALSE, FALSE) /\ Gone /\ UNCHANGED stores

Archive ==
  \/ \E x \in Story, effect, ok \in BOOLEAN : PutPayload(x, effect, ok)
  \/ \E effect, ok \in BOOLEAN : InsertRow(effect, ok)

Reconcile ==
  \/ \E ok \in BOOLEAN : Lookup(ok)
  \/ \E x \in Story, effect, ok \in BOOLEAN : ErasePayload(x, effect, ok)
  \/ \E effect, ok \in BOOLEAN : DeleteRows(effect, ok)

Work == Persist \/ Archive \/ Reconcile \/ Refuse \/ Admit \/ Deploy

Next ==
  \/ BailOut
  \/ BeginCrawl
  \/ Work
  \/ Killed

Spec == Init /\ [][Next]_vars

\* The hourly schedule: a crawl does its work, and one that finds something
\* comes again.
FairSpec == Spec /\ WF_vars(Work) /\ WF_vars(BeginCrawl)

-----------------------------------------------------------------------------
Phase == {"idle", "persist", "archive", "insert", "erase", "gate", "deploy"}

TypeOK ==
  /\ rows \subseteq Story
  /\ blobs \subseteq Story
  /\ homepage \subseteq Story
  /\ pc \in Phase
  /\ found \subseteq Story
  /\ clustered \subseteq Story
  /\ next \subseteq Story
  /\ todo \subseteq Story
  /\ item \in Story \cup {None}
  /\ returning \subseteq Story
  /\ failed \in BOOLEAN
  /\ faults \in 0..MaxFaults

Dropped == (Committed \cup clustered) \ next

\* What a crawl is about to deploy is not in the archive, and every
\* story it dropped is, with its payload: the gate of runIngestionPipeline
\* lets no half-done sync through.
DeploysWhatItFiled ==
  pc = "deploy" =>
    /\ rows \cap next = {}
    /\ Dropped \subseteq rows \cap blobs

\* A row comes only after its payload: a failed put blocks the insert
\* (archivePoppedClusters).
RowFollowsPayload == [][rows' \ rows \subseteq blobs]_vars

\* As long as nothing fails, no archived row is left without its payload: the
\* cleanup deletes only payloads of rows that go with them.
CleanupIsPaired ==
  faults = 0 /\ pc # "erase" => rows \subseteq blobs

\* A story is never stuck in the archive while it is live: some later crawl
\* takes its row back (reconcileArchiveWithLiveFeed).
NeverStuckInBoth == []<>(rows \cap homepage = {})

-----------------------------------------------------------------------------
(* What the comments of the code say, and the code does not do.            *)

\* A story the new homepage drops is archived "instead of silently discarded".
NothingDiscarded ==
  [][pc = "deploy" => homepage \ homepage' \subseteq rows]_vars
=============================================================================
