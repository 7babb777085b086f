-------------------------------- MODULE Edge --------------------------------
(***************************************************************************)
(* One public address as readers of one edge location get it: from the     *)
(* shared cache while its copy is fresh, from the cache and refreshed      *)
(* behind their back while it may be stale, and else from the function,    *)
(* which reads the database, or builds its page from the feed, itself a    *)
(* cached address.  A purge names addresses.  What is read is a version,   *)
(* each change of the content one more; times are seconds.                 *)
(*                                                                         *)
(* The cache is the platform's and is modelled by the headers the code     *)
(* sends.  A call takes no time on the scale of the caches: time passes    *)
(* when none is under way.  Browsers' own caches are left out.             *)
(***************************************************************************)
EXTENDS Integers, FiniteSets

CONSTANTS
  MaxPasses,   \* bound: times that time passes
  MaxChanges,  \* bound: changes of the content
  MaxPurges,   \* bound: purges
  MaxCalls     \* bound: calls of the function under way at once

(* What the configurations keep to. *)
EdgeAssumption == MaxChanges \in Nat

(***************************************************************************)
(* The addresses: for how long a copy is fresh and may be stale, whether   *)
(* the page is built from the feed, and whether the list of addresses that *)
(* a deployment or a curator purges has it.  Those of one kind are one.    *)
(***************************************************************************)
Kept(fresh, stale, fromFeed, onList) ==
  [fresh |-> fresh, stale |-> stale, fromFeed |-> fromFeed, onList |-> onList]

ArchiveSearch     == Kept(300, 600, FALSE, FALSE)
Subgraph          == Kept(300, 600, FALSE, FALSE)
ThreadList        == Kept(300, 600, FALSE, TRUE)
ThreadDetail      == Kept(300, 600, FALSE, FALSE)
ApprovedPatterns  == Kept(600, 1200, FALSE, FALSE)
TopicResource     == Kept(300, 600, FALSE, FALSE)
EntityDossier     == Kept(600, 1200, FALSE, FALSE)
SupplierDirectory == Kept(3600, 86400, FALSE, FALSE)
SupplierDossier   == Kept(3600, 86400, FALSE, FALSE)
SupplierGrowth    == Kept(3600, 86400, FALSE, FALSE)
Sitemap           == Kept(3600, 3600, TRUE, TRUE)
LlmsTxt           == Kept(86400, 3600, TRUE, TRUE)
LlmsFullTxt       == Kept(86400, 3600, TRUE, TRUE)
StoryPage         == Kept(0, 0, TRUE, FALSE)

Address == {ArchiveSearch, Subgraph, ThreadList, ThreadDetail, ApprovedPatterns, TopicResource,
            EntityDossier, SupplierDirectory, SupplierDossier, SupplierGrowth,
            Sitemap, LlmsTxt, LlmsFullTxt, StoryPage}

(* The feed of the live store, and the one that was deployed.              *)
LiveFeedKept   == [fresh |-> 300, stale |-> 60]
StaticFeedKept == [fresh |-> 120, stale |-> 300]

VARIABLES
  address,     \* the address looked at
  now, passes,
  version,     \* of the content
  replacedAt,  \* [version -> when it was replaced]
  copy,        \* the cached answer: [version, at], version 0 if none
  feedCopy,    \* the cached feed, for the pages built from it
  calls,       \* calls of the function under way: [n, step, version]
  shown,       \* the version just answered, 0 if none
  purges,
  floor        \* history: readers have been promised this version by a purge

edgeVars == <<address, now, passes, version, replacedAt, copy, feedCopy, calls, shown, purges, floor>>

(* What a call may hold for a version: the page built without a feed, and  *)
(* no page at all.                                                         *)
Bare == -1
Error == -2

NoCopy == [version |-> 0, at |-> 0]
NoFeedCopy == [version |-> 0, at |-> 0, kept |-> LiveFeedKept]

EdgeInit ==
  /\ address \in Address
  /\ now = 0 /\ passes = 0 /\ version = 1 /\ replacedAt = [v \in 1..MaxChanges + 1 |-> 0]
  /\ copy = NoCopy /\ feedCopy = NoFeedCopy
  /\ calls = {} /\ shown = 0 /\ purges = 0 /\ floor = 0

Fresh(c, kept) == c.version # 0 /\ now - c.at < kept.fresh
Usable(c, kept) == c.version # 0 /\ now - c.at < kept.fresh + kept.stale

(* The lengths that matter for what is kept.                               *)
Lengths == {300, address.fresh, address.stale, address.fresh + address.stale - 1} \ {0, -1}

Pass(s) ==
  /\ calls = {} /\ passes < MaxPasses /\ passes' = passes + 1
  /\ now' = now + s /\ shown' = 0
  /\ UNCHANGED <<address, version, replacedAt, copy, feedCopy, calls, purges, floor>>

(* A crawl or a curator writes.                                            *)
Change ==
  /\ version <= MaxChanges
  /\ version' = version + 1 /\ replacedAt' = [replacedAt EXCEPT ![version] = now]
  /\ UNCHANGED <<address, now, passes, copy, feedCopy, calls, shown, purges, floor>>

NewCall == [n |-> CHOOSE i \in 1..MaxCalls : \A c \in calls : c.n # i, step |-> "asked", version |-> 0]

(* A copy is answered with; one no longer fresh also calls the function.   *)
Hit ==
  /\ Fresh(copy, address)
  /\ shown' = copy.version
  /\ UNCHANGED <<address, now, passes, version, replacedAt, copy, feedCopy, calls, purges, floor>>

StaleHit ==
  /\ Usable(copy, address) /\ ~Fresh(copy, address)
  /\ Cardinality(calls) < MaxCalls
  /\ shown' = copy.version /\ calls' = calls \cup {NewCall}
  /\ UNCHANGED <<address, now, passes, version, replacedAt, copy, feedCopy, purges, floor>>

Miss ==
  /\ ~Usable(copy, address)
  /\ Cardinality(calls) < MaxCalls
  /\ calls' = calls \cup {NewCall}
  /\ UNCHANGED <<address, now, passes, version, replacedAt, copy, feedCopy, shown, purges, floor>>

Step(c, step, v) == calls' = (calls \ {c}) \cup {[c EXCEPT !.step = step, !.version = v]}

(* The function reads the database.                                        *)
Read(c) ==
  /\ c.step = "asked" /\ ~address.fromFeed
  /\ Step(c, "read", version)
  /\ UNCHANGED <<address, now, passes, version, replacedAt, copy, feedCopy, shown, purges, floor>>

(* The feed, from its own copy or anew.                                    *)
ReadFeedCopy(c) ==
  /\ c.step = "asked" /\ address.fromFeed
  /\ Usable(feedCopy, feedCopy.kept)
  /\ Step(c, "read", feedCopy.version)
  /\ UNCHANGED <<address, now, passes, version, replacedAt, copy, feedCopy, shown, purges, floor>>

ReadFeed(c) ==
  /\ c.step = "asked" /\ address.fromFeed
  /\ ~Fresh(feedCopy, feedCopy.kept)
  /\ \E kept \in {LiveFeedKept, StaticFeedKept} :
       feedCopy' = [version |-> version, at |-> now, kept |-> kept]
  /\ Step(c, "read", version)
  /\ UNCHANGED <<address, now, passes, version, replacedAt, copy, shown, purges, floor>>

(* The read fails.  A page built from the feed goes without its stories.   *)
Fail(c) ==
  /\ c.step = "asked"
  /\ Step(c, "read", IF address.fromFeed THEN Bare ELSE Error)
  /\ UNCHANGED <<address, now, passes, version, replacedAt, copy, feedCopy, shown, purges, floor>>

Storable(v) == v # Error

(* The answer is sent and kept, an error sent with no-store.               *)
Respond(c) ==
  /\ c.step = "read"
  /\ shown' = c.version /\ calls' = calls \ {c}
  /\ copy' = IF Storable(c.version) THEN [version |-> c.version, at |-> now] ELSE copy
  /\ UNCHANGED <<address, now, passes, version, replacedAt, feedCopy, purges, floor>>

(* Mutant: the list without the feed.                                      *)
DropsPageOnly == [page |-> address.onList, feed |-> FALSE]
DropsDefault == [page |-> address.onList, feed |-> TRUE]

(* The zone drops the files named; or it refuses, is not reached, or the   *)
(* credentials are not there, and nothing is dropped.                      *)
PurgeByUrls(named, done) ==
  /\ purges < MaxPurges /\ purges' = purges + 1
  /\ copy' = IF done /\ named.page THEN NoCopy ELSE copy
  /\ feedCopy' = IF done /\ named.feed THEN NoFeedCopy ELSE feedCopy

(* A curator purges the list, or a deployment does.  A call under way may  *)
(* put an older answer back.                                               *)
PurgeList ==
  /\ \E done \in BOOLEAN :
       /\ PurgeByUrls(DropsDefault, done)
       /\ floor' = IF done /\ address.onList /\ calls = {} THEN version ELSE floor
  /\ shown' = 0
  /\ UNCHANGED <<address, now, passes, version, replacedAt, calls>>

(* Either may name addresses instead.                                      *)
PurgeNamed(page, feed) ==
  /\ \E done \in BOOLEAN : PurgeByUrls([page |-> page, feed |-> feed], done)
  /\ UNCHANGED <<address, now, passes, version, replacedAt, calls, shown, floor>>

(* A publish, a rollback or an ingest purges the feed alone, and goes on   *)
(* without.                                                                *)
PurgeFeed ==
  /\ \E done \in BOOLEAN : PurgeByUrls([page |-> FALSE, feed |-> TRUE], done)
  /\ UNCHANGED <<address, now, passes, version, replacedAt, calls, shown, floor>>

EdgeNext ==
  \/ \E s \in Lengths : Pass(s)
  \/ Change \/ Hit \/ StaleHit \/ Miss
  \/ \E c \in calls : Read(c)
  \/ \E c \in calls : ReadFeedCopy(c)
  \/ \E c \in calls : ReadFeed(c)
  \/ \E c \in calls : Respond(c)
  \/ \E c \in calls : Fail(c)
  \/ PurgeList \/ PurgeFeed
  \/ \E page, feed \in BOOLEAN : PurgeNamed(page, feed)

EdgeSpec == EdgeInit /\ [][EdgeNext]_edgeVars

-----------------------------------------------------------------------------
(* What readers are shown ceased to be current no longer ago than the copy *)
(* may be kept, the feed's included where the page is built from it, and   *)
(* no error is shown from a cache (functions/api, edgeCache.ts:109-133).   *)
KeptFor == address.fresh + address.stale + (IF address.fromFeed THEN 420 ELSE 0)
StaleAtMost ==
  /\ (shown > 0 /\ shown < version) => now - replacedAt[shown] <= KeptFor
  /\ copy.version # Error

(* After a purge of the list, with no call under way, readers are not      *)
(* shown what it meant to drop, through the feed either                    *)
(* (curatorPurgeCacheHandler.ts:16-23, scripts/purge-cache.mjs).           *)
PurgeIsSeen == shown > 0 => shown >= floor
=============================================================================
