------------------------------ MODULE Harvest ------------------------------
(***************************************************************************)
(* What a crawl learns about names and publishers: the entities its        *)
(* stories mention are counted and promoted (aggregateEntityCandidates)    *)
(* and its articles, scoops and corroborations are credited to their       *)
(* domains (aggregateSourceStats); both are then written to D1 one row at  *)
(* a time, the entities first, and no write is tried again.  An entity's   *)
(* row is replaced by what this crawl saw; a publisher's counters are      *)
(* added to.  A write may be applied and its answer lost, and the crawl    *)
(* may die between two of them.                                            *)
(***************************************************************************)
EXTENDS Naturals, Sequences, FiniteSets, SequencesExt, FiniteSetsExt

CONSTANTS
  Name, Domain,
  Digests,       \* what a crawl may bring: records of articles and stories
  MinMentions, MinSources,   \* PROMOTION_MIN_MENTIONS and _SOURCES
  MaxCrawls,     \* bound
  NoRow

(* What the configurations keep to. *)
HarvestAssumption ==
  /\ MinMentions \in Nat /\ MinSources \in Nat
  /\ \A digest \in Digests :
       /\ digest.raw \in Seq(Domain) /\ digest.fresh \in Seq(Domain)
       /\ digest.stories \in Seq([names : SUBSET Name, primary : Domain,
                                  related : SUBSET Domain, first : Domain])
  /\ NoRow \notin [counts : [{"ingested", "accepted", "scoops", "corroborations"} -> Nat],
                   multiplier : 70..130]

VARIABLES
  discovered,    \* table discovered_entities
  reputation,    \* table source_reputation
  entitySync,    \* the entity rows this crawl has still to write
  sourceSync,    \* the publishers' statistics it has still to write
  crawls,        \* crawls begun (bound)
  known,         \* history: what the crawls have counted of each publisher ...
  acked          \* ... and the part whose write was acknowledged

harvestVars == <<discovered, reputation, entitySync, sourceSync, crawls, known, acked>>

Counter == {"ingested", "accepted", "scoops", "corroborations"}
Zero == [c \in Counter |-> 0]
Plus(s, t) == [c \in Counter |-> s[c] + t[c]]

HarvestInit ==
  /\ discovered = [n \in Name |-> NoRow] /\ reputation = [d \in Domain |-> NoRow]
  /\ entitySync = {} /\ sourceSync = {} /\ crawls = 0
  /\ known = [d \in Domain |-> Zero] /\ acked = [d \in Domain |-> Zero]

-----------------------------------------------------------------------------
(* Counting.  A story has a primary source, related coverage, the names it
   mentions and the domain that published first. *)

Telling(stories, n) == {i \in DOMAIN stories : n \in stories[i].names}
Sources(stories, tales) == {stories[i].primary : i \in tales}

(* aggregateEntityCandidates takes the mentions of a name one by one: the
   promotion is decided at each, by those so far, and stays. *)
Suffices(stories, tales) ==
  /\ Cardinality(tales) >= MinMentions /\ Cardinality(Sources(stories, tales)) >= MinSources
PromotedAt(stories, n, k) == Suffices(stories, {i \in Telling(stories, n) : i <= k})

Aggregated(stories) ==
  [n \in Name |->
     LET tales == Telling(stories, n) IN
     IF tales = {} THEN NoRow
     ELSE [mentions |-> Cardinality(tales), domains |-> Sources(stories, tales),
           promoted |-> \E k \in tales : PromotedAt(stories, n, k)]]

(* identifyScoopLeader: whoever published first, with its story's tie broken
   for the primary source. *)
Leader(s) == s.first

Times(d, domains) == Cardinality({i \in DOMAIN domains : domains[i] = d})

(* aggregateSourceStats. *)
Credited(digest, d) ==
  LET stories == digest.stories IN
  [ingested |-> Times(d, digest.raw), accepted |-> Times(d, digest.fresh),
   scoops |-> Cardinality({i \in DOMAIN stories : Leader(stories[i]) = d}),
   corroborations |-> Cardinality({i \in DOMAIN stories : d \in stories[i].related})]

(* computeReputationMultiplier, in hundredths. *)
Multiplier(s) ==
  LET kept == 100 * s.accepted
      noise == IF kept < 15 * s.ingested THEN 85 ELSE IF kept < 35 * s.ingested THEN 92
               ELSE IF kept >= 75 * s.ingested THEN 108 ELSE 100
      credit == Min({15, 3 * s.scoops}) + Min({10, s.corroborations}) IN
  IF s.ingested = 0 THEN 100 ELSE Max({70, Min({130, noise + credit})})

-----------------------------------------------------------------------------
(* Writing *)

Done == entitySync = {} /\ sourceSync = {}

Count(digest) ==
  /\ Done /\ crawls < MaxCrawls /\ crawls' = crawls + 1
  /\ LET rows == Aggregated(digest.stories) IN
     entitySync' = {<<n, rows[n]>> : n \in {m \in Name : rows[m] # NoRow}}
  /\ LET stats == [d \in Domain |-> Credited(digest, d)] IN
     /\ sourceSync' = {<<d, stats[d]>> : d \in {e \in Domain : stats[e] # Zero}}
     /\ known' = [d \in Domain |-> Plus(known[d], stats[d])]
  /\ UNCHANGED <<discovered, reputation, acked>>

(* ON CONFLICT of discovered_entities: everything but the name is replaced. *)
WriteEntity(e, applied) ==
  /\ e \in entitySync /\ entitySync' = entitySync \ {e}
  /\ discovered' = IF applied THEN [discovered EXCEPT ![e[1]] =
                       [mentions |-> e[2].mentions, sources |-> Cardinality(e[2].domains),
                        promoted |-> e[2].promoted]]
                   ELSE discovered
  /\ UNCHANGED <<reputation, sourceSync, crawls, known, acked>>

(* ON CONFLICT of source_reputation: the counters are added to, the
   multiplier is this crawl's. *)
Upserted(d, s) ==
  [reputation EXCEPT ![d] = [counts |-> IF @ = NoRow THEN s ELSE Plus(@.counts, s),
                             multiplier |-> Multiplier(s)]]

(* Mutant: a write whose answer is lost is asked again. *)
TriedAgain(u, answered) == IF answered THEN sourceSync \ {u} ELSE sourceSync

TriedOnce(u, answered) == sourceSync \ {u}

WriteSource(u, applied, answered) ==
  /\ entitySync = {} /\ u \in sourceSync /\ (answered => applied)
  /\ sourceSync' = TriedOnce(u, answered)
  /\ reputation' = (IF applied THEN Upserted(u[1], u[2]) ELSE reputation)
  /\ acked' = (IF answered THEN [acked EXCEPT ![u[1]] = Plus(@, u[2])] ELSE acked)
  /\ UNCHANGED <<discovered, entitySync, crawls, known>>

(* The crawl's process dies, or its workflow is cancelled. *)
Die ==
  /\ ~Done /\ entitySync' = {} /\ sourceSync' = {}
  /\ UNCHANGED <<discovered, reputation, crawls, known, acked>>

HarvestNext ==
  \/ \E digest \in Digests : Count(digest)
  \/ \E e \in entitySync, applied \in BOOLEAN : WriteEntity(e, applied)
  \/ \E u \in sourceSync, applied, answered \in BOOLEAN : WriteSource(u, applied, answered)
  \/ Die

HarvestSpec == HarvestInit /\ [][HarvestNext]_harvestVars

-----------------------------------------------------------------------------
(* A stored promotion was earned: the row's name is promoted exactly when the
   one crawl that wrote it mentioned it often enough in stories of enough
   publishers, counted independently of the order the stories came in. *)
PromotionIsEarned ==
  \A n \in Name : discovered[n] # NoRow =>
    \E digest \in Digests :
      LET telling == {i \in DOMAIN digest.stories : n \in digest.stories[i].names}
          from == {digest.stories[i].primary : i \in telling} IN
      /\ discovered[n].mentions = Cardinality(telling)
      /\ discovered[n].sources = Cardinality(from)
      /\ discovered[n].promoted
           <=> Cardinality(telling) >= MinMentions /\ Cardinality(from) >= MinSources

(* A publisher is credited once for what a crawl counted: whatever was lost,
   its stored counters lie between what was acknowledged and what was counted. *)
CreditedOnce ==
  \A d \in Domain, c \in Counter :
    LET stored == IF reputation[d] = NoRow THEN 0 ELSE reputation[d].counts[c] IN
    acked[d][c] <= stored /\ stored <= known[d][c]
=============================================================================
