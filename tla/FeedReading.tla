---------------------------- MODULE FeedReading ----------------------------
(***************************************************************************)
(* How a crawl reads its feeds: fetchFeedWithFowlerBreaker asks a feed     *)
(* unless its breaker is open, remembers the ETag of what it read, and     *)
(* hands over the items that parse and that the relevance gate keeps;      *)
(* runIngestionPipeline asks the feeds batch by batch.  The registry of    *)
(* breakers is memory of the process, which may make several crawls and    *)
(* may be restarted.                                                       *)
(*                                                                         *)
(* Two abstractions.  A feed's body is the set of articles in it and is    *)
(* its own ETag: two bodies have the same tag only when they are equal.    *)
(* Time is the age of a feed's last failure, in units that are longer      *)
(* than a crawl (the code hands every feed the hour the crawl began).      *)
(***************************************************************************)
EXTENDS Naturals, FiniteSets, Sequences

CONSTANTS
  Feed, Article,
  Order,              \* the feeds in the order they are asked in
  Body,               \* [Feed -> SUBSET (SUBSET Article)]: what a feed may hold
  Trait,              \* [Article -> SUBSET Word]: what the gate finds in the text
  Social, Expert,     \* feeds of the social tier; official and specialised feeds
  Parliament,         \* feeds read by the Sansad scraper
  Unsafe,             \* feeds whose address is refused before any request
  BatchSize, Threshold, Cooldown,
  NoTag               \* no ETag is known

(* What the configurations keep to. *)
FeedAssumption ==
  /\ Threshold \in Nat \ {0} /\ Cooldown \in Nat \ {0} /\ BatchSize \in Nat \ {0}
  /\ Social \cap Expert = {} /\ \A f \in Feed : NoTag \notin Body[f]

VARIABLES
  breaker,    \* the registry: state, failures in a row, age of the last, ETag
  shelf,      \* what the publisher serves now
  up,         \* whether the publisher answers
  queue,      \* feeds of this crawl not asked yet, in order
  pending,    \* the feeds asked and not answered: each with the tag sent
  handed      \* what each feed has handed over in this process

feedVars == <<breaker, shelf, up, queue, pending, handed>>

Closed == [state |-> "CLOSED", fails |-> 0, age |-> 0, tag |-> NoTag]

(* A new process: no breaker is known, nothing is under way. *)
FeedInit ==
  /\ breaker = [f \in Feed |-> Closed] /\ shelf \in [Feed -> UNION {Body[f] : f \in Feed}]
  /\ \A f \in Feed : shelf[f] \in Body[f]
  /\ up = [f \in Feed |-> TRUE] /\ queue = <<>> /\ pending = [f \in {} |-> NoTag]
  /\ handed = [f \in Feed |-> {}]

-----------------------------------------------------------------------------
(* What a body yields *)

(* parseFeedXml: an item needs a title and a link. *)
FeedItem(a) == Trait[a] \cap {"untitled", "unlinked"} = {}

(* parseSansadXmlFeed: a question without a link is filed under the house's. *)
Question(a) == "untitled" \notin Trait[a]

Parsed(f, a) == IF f \in Parliament THEN Question(a) ELSE FeedItem(a)

(* isSocialPostStrategic. *)
Strategic(a) ==
  /\ Trait[a] \cap {"blacklisted", "ceremonial"} = {}
  /\ Trait[a] \cap {"strategic", "entity"} # {}

(* isDefenceRelevant. *)
Relevant(f, a) ==
  /\ "blacklisted" \notin Trait[a]
  /\ IF f \in Social THEN Strategic(a)
     ELSE \/ Trait[a] \cap {"entity", "keyword"} # {}
          \/ {"defence", "corroborated"} \subseteq Trait[a]
          \/ f \in Expert

Yield(f, body) == {a \in body : Parsed(f, a) /\ Relevant(f, a)}

-----------------------------------------------------------------------------
(* The breaker *)

(* isSafeFeedUrl. *)
Refused(f) == f \in Unsafe

(* Mutant: an open breaker stays open. *)
ProbedNever(b) == b

(* getFowlerCircuitStatus: an open breaker whose cooldown is over. *)
Probed(b) ==
  IF b.state = "OPEN" /\ b.age >= Cooldown THEN [b EXCEPT !.state = "HALF-OPEN"] ELSE b

(* recordFowlerFailure. *)
Failed(b) ==
  LET p == Probed(b)
      more == p.fails + 1 IN
  [p EXCEPT !.fails = IF more > Threshold THEN Threshold ELSE more, !.age = 0,
            !.state = IF p.state = "HALF-OPEN" \/ more >= Threshold THEN "OPEN" ELSE p.state]

(* recordFowlerSuccess: a new tag replaces the old one, a missing one does not. *)
Succeeded(b, tag) ==
  [b EXCEPT !.state = "CLOSED", !.fails = 0, !.tag = IF tag = NoTag THEN @ ELSE tag]

-----------------------------------------------------------------------------
(* One crawl *)

Idle == queue = <<>> /\ pending = [f \in {} |-> NoTag]

Batch == {queue[i] : i \in 1 .. (IF Len(queue) < BatchSize THEN Len(queue) ELSE BatchSize)}
AfterBatch == SubSeq(queue, Cardinality(Batch) + 1, Len(queue))

(* The crawl begins; its feeds wait to be asked. *)
StartCrawl ==
  /\ Idle /\ queue' = Order
  /\ UNCHANGED <<breaker, shelf, up, pending, handed>>

(* The next batch is asked at once, when every feed of the former settled:
   a quarantined feed is not asked, and an unsafe address is a failure. *)
AskBatch ==
  /\ queue # <<>> /\ pending = [f \in {} |-> NoTag]
  /\ LET at == [f \in Feed |-> IF f \in Batch THEN Probed(breaker[f]) ELSE breaker[f]]
         let == {f \in Batch : at[f].state # "OPEN"} IN
     /\ pending' = [f \in {g \in let : ~Refused(g)} |-> at[f].tag]
     /\ breaker' = [f \in Feed |-> IF f \in let /\ Refused(f) THEN Failed(at[f]) ELSE at[f]]
  /\ queue' = AfterBatch
  /\ UNCHANGED <<shelf, up, handed>>

Settle(f) == pending' = [g \in DOMAIN pending \ {f} |-> pending[g]]

(* 304: the publisher still serves what the tag stands for. *)
Unchanged(f) ==
  /\ f \in DOMAIN pending /\ up[f] /\ pending[f] = shelf[f]
  /\ Settle(f) /\ breaker' = [breaker EXCEPT ![f] = Succeeded(@, NoTag)]
  /\ UNCHANGED <<shelf, up, queue, handed>>

(* A body within the cap: its tag is kept, its relevant items are handed over.
   The publisher may send no tag. *)
Read(f) ==
  /\ f \in DOMAIN pending /\ up[f] /\ pending[f] # shelf[f]
  /\ \E tag \in {shelf[f], NoTag} : breaker' = [breaker EXCEPT ![f] = Succeeded(@, tag)]
  /\ Settle(f)
  /\ handed' = [handed EXCEPT ![f] = @ \cup Yield(f, shelf[f])]
  /\ UNCHANGED <<shelf, up, queue>>

CutOff(f) == Failed(breaker[f])

(* A body past the cap is dropped unread. *)
TooLong(f) ==
  /\ f \in DOMAIN pending /\ ~up[f] /\ pending[f] # shelf[f]
  /\ Settle(f) /\ breaker' = [breaker EXCEPT ![f] = CutOff(f)]
  /\ UNCHANGED <<shelf, up, queue, handed>>

(* An error status, a refused connection or the timeout. *)
Fails(f) ==
  /\ f \in DOMAIN pending /\ ~up[f]
  /\ Settle(f) /\ breaker' = [breaker EXCEPT ![f] = Failed(@)]
  /\ UNCHANGED <<shelf, up, queue, handed>>

-----------------------------------------------------------------------------
(* What is around it *)

Publish(f) ==
  /\ \E body \in Body[f] \ {shelf[f]} : shelf' = [shelf EXCEPT ![f] = body]
  /\ UNCHANGED <<breaker, up, queue, pending, handed>>

Turn(f) ==
  /\ up' = [up EXCEPT ![f] = ~@]
  /\ UNCHANGED <<breaker, shelf, queue, pending, handed>>

(* Time passes between crawls. *)
Wait ==
  /\ Idle /\ \E f \in Feed : breaker[f].age < Cooldown
  /\ breaker' = [f \in Feed |-> [breaker[f] EXCEPT !.age = IF @ < Cooldown THEN @ + 1 ELSE @]]
  /\ UNCHANGED <<shelf, up, queue, pending, handed>>

(* The process ends: the registry and everything under way is lost. *)
Restart ==
  /\ breaker' = [f \in Feed |-> Closed] /\ handed' = [f \in Feed |-> {}]
  /\ queue' = <<>> /\ pending' = [f \in {} |-> NoTag]
  /\ UNCHANGED <<shelf, up>>

FeedNext ==
  \/ StartCrawl \/ AskBatch \/ Wait \/ Restart
  \/ \E f \in Feed : Unchanged(f)
  \/ \E f \in Feed : Read(f)
  \/ \E f \in Feed : TooLong(f)
  \/ \E f \in Feed : Fails(f)
  \/ \E f \in Feed : Publish(f)
  \/ \E f \in Feed : Turn(f)

(* Crawls are scheduled and requests end, each by its timeout at the latest;
   time passes between two crawls of the schedule. *)
Answered(f) == Unchanged(f) \/ Read(f) \/ TooLong(f) \/ Fails(f)

FeedFairness ==
  /\ WF_feedVars(StartCrawl) /\ WF_feedVars(AskBatch)
  /\ SF_feedVars(Wait) /\ \A f \in Feed : WF_feedVars(Answered(f))

FeedSpec == FeedInit /\ [][FeedNext]_feedVars /\ FeedFairness

-----------------------------------------------------------------------------
(* A 304 loses nothing: whatever body a remembered tag stands for, its
   relevant items were handed over in this process. *)
UnchangedWasRead ==
  \A f \in Feed : breaker[f].tag # NoTag => Yield(f, breaker[f].tag) \subseteq handed[f]

(* A quarantine ends: a feed at a safe address that answers from some moment
   on is out of quarantine again and again, however it failed before. *)
QuarantineEnds ==
  \A f \in Feed \ Unsafe : <>[](up[f]) => []<>(breaker[f].state # "OPEN")
=============================================================================
