----------------------------- MODULE TopicPages -----------------------------
(***************************************************************************)
(* A topic's articles as a reader pages through them.  The list is ordered *)
(* by publication and then by id, and a cursor names the last row and the  *)
(* versions it was read at: the registry's and the newest assignment's.  A *)
(* page is two reads, of the topic and its versions, then of the rows.     *)
(* Crawls and curators assign articles, take them out and replace the      *)
(* article that dates them in between.                                     *)
(*                                                                         *)
(* The assignment version is over all topics in the code; here over this   *)
(* one and what `elsewhere` stands for.                                    *)
(***************************************************************************)
EXTENDS Integers, FiniteSets

CONSTANTS
  Cluster,    \* a set of numbers: the order of the ids
  MaxDate,    \* bound: publication dates
  MaxStamp,   \* bound: assignment times
  MaxEvents,  \* bound: changes of the topic
  Limit       \* articles of a page, 20 in the code

(* What the configurations keep to. *)
TopicPageAssumption ==
  /\ Cluster \subseteq Nat /\ IsFiniteSet(Cluster)
  /\ Limit \in Nat \ {0} /\ MaxDate \in Nat

VARIABLES
  date,        \* published_at of the topic's clusters, 0 if not in the topic
  stamp,       \* assigned_at of them
  elsewhere,   \* the newest assignment to another topic
  registry,    \* registry_version of the topic
  events,
  step,        \* the reader's
  cursor,      \* of the page wanted: [date, id, registry, assigned]
  found,       \* the versions the topic was found at
  times,       \* how often the reader's list holds each cluster
  standing     \* history: in the topic, at one place, since the reader came

topicPageVars == <<date, stamp, elsewhere, registry, events, step, cursor, found, times, standing>>

NoCursor == [date |-> 0, id |-> 0, registry |-> 0, assigned |-> 0]
NoVersions == [registry |-> 0, assigned |-> 0]
Unread == [c \in Cluster |-> 0]

TopicPageInit ==
  /\ date \in [Cluster -> 0..MaxDate]
  /\ stamp = [c \in Cluster |-> IF date[c] > 0 THEN 1 ELSE 0]
  /\ elsewhere = 1 /\ registry = 1 /\ events = 0
  /\ step = "away" /\ cursor = NoCursor /\ found = NoVersions
  /\ times = Unread /\ standing = {}

InTopic == {c \in Cluster : date[c] > 0}
Assigned == {stamp[c] : c \in InTopic} \cup {elsewhere}
Newest == CHOOSE t \in Assigned : \A u \in Assigned : u <= t
Current == [registry |-> registry, assigned |-> Newest]

Reader == <<step, cursor, found, times>>
Event == events < MaxEvents /\ events' = events + 1

(* A time is taken when a classification or an action begins, so it may be *)
(* older than one written before it.                                       *)
Assign(c, d, t) ==
  /\ Event /\ date[c] = 0
  /\ date' = [date EXCEPT ![c] = d] /\ stamp' = [stamp EXCEPT ![c] = t]
  /\ UNCHANGED <<elsewhere, registry, Reader, standing>>

(* Reassigned by curators, or merged into another cluster.                 *)
TakeOut(c) ==
  /\ Event /\ c \in InTopic
  /\ date' = [date EXCEPT ![c] = 0] /\ stamp' = [stamp EXCEPT ![c] = 0]
  /\ standing' = standing \ {c}
  /\ UNCHANGED <<elsewhere, registry, Reader>>

(* The cluster gets another primary article.                               *)
Redate(c, d) ==
  /\ Event /\ c \in InTopic /\ d # date[c]
  /\ date' = [date EXCEPT ![c] = d]
  /\ standing' = standing \ {c}
  /\ UNCHANGED <<stamp, elsewhere, registry, Reader>>

AssignElsewhere(t) ==
  /\ Event /\ t > elsewhere /\ elsewhere' = t
  /\ UNCHANGED <<date, stamp, registry, Reader, standing>>

Govern ==
  /\ Event /\ registry' = registry + 1
  /\ UNCHANGED <<date, stamp, elsewhere, Reader, standing>>

Topic == <<date, stamp, elsewhere, registry, events>>

-----------------------------------------------------------------------------
ComeIn ==
  /\ step = "away"
  /\ step' = "wants" /\ cursor' = NoCursor /\ times' = Unread
  /\ standing' = InTopic
  /\ UNCHANGED <<Topic, found>>

(* The view asks for no page while it waits for one.                       *)
MorePlease ==
  /\ step = "shown" /\ cursor # NoCursor
  /\ step' = "wants"
  /\ UNCHANGED <<Topic, cursor, found, times, standing>>

Accepted(c, versions) ==
  c = NoCursor \/ (c.registry = versions.registry /\ c.assigned = versions.assigned)

Resolve ==
  /\ step = "wants" /\ Accepted(cursor, Current)
  /\ found' = Current /\ step' = "found"
  /\ UNCHANGED <<Topic, cursor, times, standing>>

(* A cursor of other versions is refused, or the call fails: the list ends *)
(* where it is, with an error.                                             *)
Refused ==
  /\ step = "wants" /\ cursor # NoCursor /\ ~Accepted(cursor, Current)
  /\ step' = "ended" /\ cursor' = NoCursor
  /\ UNCHANGED <<Topic, found, times, standing>>

Failed ==
  /\ step \in {"wants", "found"}
  /\ step' = "ended" /\ cursor' = NoCursor
  /\ UNCHANGED <<Topic, found, times, standing>>

Beyond(d, c, after) == d < after.date \/ (d = after.date /\ c < after.id)

Ahead(c) == {x \in InTopic : date[x] > date[c] \/ (date[x] = date[c] /\ x > c)}
Left == {c \in InTopic : cursor = NoCursor \/ Beyond(date[c], c, cursor)}
Page == {c \in Left : Cardinality(Ahead(c) \cap Left) < Limit}
LastOf(page) == CHOOSE c \in page : \A x \in page \ {c} : x \in Ahead(c)

ReadRows ==
  /\ step = "found"
  /\ times' = [c \in Cluster |-> IF c \in Page /\ times[c] < 2 THEN times[c] + 1 ELSE times[c]]
  /\ cursor' = IF Cardinality(Page) = Limit
               THEN [date |-> date[LastOf(Page)], id |-> LastOf(Page),
                     registry |-> found.registry, assigned |-> found.assigned]
               ELSE NoCursor
  /\ step' = "shown"
  /\ UNCHANGED <<Topic, found, standing>>

GoAway ==
  /\ step \in {"shown", "ended"}
  /\ step' = "away" /\ cursor' = NoCursor /\ found' = NoVersions
  /\ times' = Unread /\ standing' = {}
  /\ UNCHANGED Topic

TopicPageNext ==
  \/ \E c \in Cluster, d \in 1..MaxDate, t \in 1..MaxStamp : Assign(c, d, t)
  \/ \E c \in Cluster : TakeOut(c)
  \/ \E c \in Cluster, d \in 1..MaxDate : Redate(c, d)
  \/ \E t \in 1..MaxStamp : AssignElsewhere(t)
  \/ Govern
  \/ ComeIn \/ MorePlease \/ Resolve \/ Refused \/ Failed \/ ReadRows \/ GoAway

TopicPageSpec == TopicPageInit /\ [][TopicPageNext]_topicPageVars

-----------------------------------------------------------------------------
(* A reader who gets to the end has been shown every article that stood at *)
(* its place all the while, and none that did twice, whatever came and     *)
(* went between the pages and however many share a date                    *)
(* (topicReadQueryBuilder.ts:33-45, topicReadHandler.ts:100-117).          *)
StandingShownOnce ==
  step = "shown" => \A c \in standing : IF cursor = NoCursor THEN times[c] = 1 ELSE times[c] <= 1
=============================================================================
