------------------------------ MODULE Threads ------------------------------
(***************************************************************************)
(* Story threads: the events of one programme or system, numbered in the   *)
(* order they were published.  Every crawl runs the continuity engine over *)
(* the homepage and what left it, then over a batch of archived stories    *)
(* that have no event.  The engine reads the threads that look related,    *)
(* works in memory, and writes rows one by one; a read or a write that     *)
(* fails is logged and the pass goes on.                                   *)
(*                                                                         *)
(* Texts are reduced to what they decide: the entities a story names,      *)
(* which threads it resembles, and which it really mentions.  A thread is  *)
(* named by its entity.  Nothing in the program makes a thread dormant or  *)
(* concluded, so the status is left out.                                   *)
(***************************************************************************)
EXTENDS Integers, Sequences, FiniteSets, SequencesExt

CONSTANTS
  Thread,       \* entities, each naming the thread it may start
  Tale,         \* cluster ids
  NoThread,
  Names,        \* [Tale -> SUBSET Thread]: canonical entities
  Lead,         \* [Tale -> Thread \cup {NoThread}]: the first seed, if any
  Programme,    \* SUBSET Tale: tales with a programme tag
  Resembles,    \* SUBSET (Tale \X Thread): similar enough in vocabulary
  Mention,      \* SUBSET (Tale \X Thread): the tale's tokens hold the thread's anchor
  Topical,      \* [Tale -> set of topics] of cluster_topics
  SameEvent,    \* {{tale, tale}}: one event fingerprint within 180 days
  Lineage,      \* {{tale, tale}}: merged or split
  At,           \* [Tale -> Nat], injective: when its primary source published
  OnDisk,       \* SUBSET Tale: the homepage committed with the repository
  FrontSize,    \* bound on the homepage
  BatchSize,    \* BACKFILL_BATCH_SIZE, 25 in the code
  MaxOutages    \* bound: failed reads and writes, and kills

(* What the configurations keep to: sets are finite, and a row of          *)
(* cluster_lineage relates two stories.                                    *)
ThreadAssumption ==
  /\ IsFiniteSet(Tale) /\ IsFiniteSet(Thread) /\ OnDisk \subseteq Tale
  /\ Lead \in [Tale -> Thread \cup {NoThread}] /\ At \in [Tale -> Nat]
  /\ \A s \in Tale : {s} \notin Lineage
  /\ NoThread \notin Thread /\ NoThread \notin [count : Nat, first : Nat, last : Nat]
  /\ FrontSize \in Nat /\ BatchSize \in Nat /\ MaxOutages \in Nat

VARIABLES
  threads,   \* story_threads: [Thread -> row or NoThread]
  events,    \* story_thread_events: {[thread, tale, branch, index]}
  topicsOf,  \* thread_topics: {<<thread, topic>>}
  archive,   \* archived_stories, oldest first
  pass,      \* "idle", "live" or "backfill"
  step,      \* what the pass does next
  batch,     \* the tales it threads
  memory,    \* the threads and events the engine works on
  writes,    \* statements still to send
  unsound,   \* history: threads whose last rewrite was partial or blind
  outages

threadVars == <<threads, events, topicsOf, archive, pass, step, batch,
                memory, writes, unsound, outages>>

NoMemory == [order |-> <<>>]

ThreadInit ==
  /\ threads = [t \in Thread |-> NoThread]
  /\ events = {} /\ topicsOf = {}
  /\ archive = <<>>
  /\ pass = "idle" /\ step = "idle"
  /\ batch = <<>> /\ memory = NoMemory /\ writes = <<>>
  /\ unsound = {} /\ outages = 0

Outage == outages < MaxOutages /\ outages' = outages + 1
EventsIn(t) == {e \in events : e.thread = t}
HasEvent(s) == \E e \in events : e.tale = s
Told(s) == \E e \in events : e.tale = s \/ {s, e.tale} \in Lineage

(***************************************************************************)
(* A crawl up to the threads: the homepage is chosen, what it leaves out   *)
(* is archived, and the committed stories it dropped join the pass.        *)
(***************************************************************************)
BeginPass ==
  /\ pass = "idle"
  /\ \E found \in SUBSET Tale : \E front \in SUBSET found \ {{}} :
       /\ Cardinality(front) <= FrontSize
       /\ \E first \in SetToSeqs(front), popped \in SetToSeqs(OnDisk \ front) :
            /\ batch' = first \o popped
            /\ archive' = SelectSeq(archive, LAMBDA s : s \notin front) \o
                          SetToSeq(((found \cup OnDisk) \ front) \ ToSet(archive))
  /\ pass' = "live" /\ step' = "load"
  /\ UNCHANGED <<threads, events, topicsOf, memory, writes, unsound, outages>>

(* buildThreadCandidatesStatement: by topic, by fingerprint, by lineage.   *)
Candidates(tales) ==
  {t \in Thread :
     /\ threads[t] # NoThread
     /\ \E s \in tales :
          \/ \E x \in Topical[s] : <<t, x>> \in topicsOf
          \/ \E e \in EventsIn(t) : s = e.tale \/ {s, e.tale} \in SameEvent \cup Lineage}

(* ORDER BY last_event_at DESC.                                            *)
Newest(ts) ==
  {q \in SetToSeqs(ts) : \A i, j \in 1..Len(q) : i < j => threads[q[i]].last >= threads[q[j]].last}

(***************************************************************************)
(* matchAndAdvanceThreads.  Memory is the thread map, in its order, and    *)
(* the events of each thread.                                              *)
(***************************************************************************)
Matches(s, t) == t \in Names[s] \/ <<s, t>> \in Resembles

Spawn(m, s) ==
  [m EXCEPT !.order = Append(m.order, Lead[s]),
            !.held[Lead[s]] = {[tale |-> s, branch |-> 1]}]

(* Mutant: the lineage is read and not used.                               *)
KnownByName(m, s, t) == \E e \in m.held[t] : e.tale = s
Known(m, s, t) == \E e \in m.held[t] : e.tale = s \/ {s, e.tale} \in m.kin

Hits(m, s) == {i \in DOMAIN m.order : Matches(s, m.order[i])}
Rank(hits, i) == Cardinality({j \in hits : j <= i})

Attach(m, s, hits) ==
  [m EXCEPT !.held = [t \in Thread |->
     IF (\E i \in hits : m.order[i] = t) /\ ~Known(m, s, t)
     THEN m.held[t] \cup {[tale |-> s, branch |-> Rank(hits, CHOOSE i \in hits : m.order[i] = t)]}
     ELSE m.held[t]]]

(* Mutant: a story joins threads and starts none.                          *)
PlaceOnlyKnown(m, s) ==
  IF Lead[s] # NoThread /\ Hits(m, s) # {} THEN Attach(m, s, Hits(m, s)) ELSE m

Place(m, s) ==
  IF Lead[s] = NoThread THEN m
  ELSE IF Hits(m, s) # {} THEN Attach(m, s, Hits(m, s))
  ELSE IF s \in Programme /\ Lead[s] \notin ToSet(m.order) THEN Spawn(m, s) ELSE m

(* auditThreadCoherence: an event that mentions its thread stays; if none  *)
(* does, all are kept and all are purged.                                  *)
Coherent(evs, t) == {e \in evs : <<e.tale, t>> \in Mention}
Kept(evs, t) == IF Coherent(evs, t) = {} THEN evs ELSE Coherent(evs, t)
Flagged(evs, t) == evs \ Coherent(evs, t)

(* sortAndIndexEvents: numbered by date within a branch.                   *)
IndexIn(e, evs) == Cardinality({f \in evs : f.branch = e.branch /\ At[f.tale] <= At[e.tale]})

Earliest(evs) == CHOOSE x \in {At[e.tale] : e \in evs} : \A e \in evs : x <= At[e.tale]
Latest(evs) == CHOOSE x \in {At[e.tale] : e \in evs} : \A e \in evs : x >= At[e.tale]
RowOf(evs) == [count |-> Cardinality(evs), first |-> Earliest(evs), last |-> Latest(evs)]

(* The statements of syncThreadsToD1, phase by phase: threads, topics,     *)
(* events, purges, of every thread that has an event.                      *)
Advanced(m) == {t \in Thread : t \in ToSet(m.order) /\ m.held[t] # {}}
KeptIn(m, t) == Kept(m.held[t], t)
Statements(m) ==
  << {[op |-> "thread", thread |-> t, row |-> RowOf(KeptIn(m, t))] : t \in Advanced(m)},
     UNION {{[op |-> "link", thread |-> t, topic |-> x] :
               x \in UNION {m.topical[e.tale] : e \in KeptIn(m, t)}} : t \in Advanced(m)},
     UNION {{[op |-> "event", thread |-> t, tale |-> e.tale, branch |-> e.branch,
              index |-> IndexIn(e, KeptIn(m, t))] : e \in KeptIn(m, t)} : t \in Advanced(m)},
     UNION {{[op |-> "purge", thread |-> t, tale |-> e.tale] : e \in Flagged(m.held[t], t)} :
              t \in Advanced(m)} >>

Read(t) == {[tale |-> e.tale, branch |-> e.branch] : e \in EventsIn(t)}

(***************************************************************************)
(* fetchExistingThreadsAndEvents, then story by story the match.  Any of   *)
(* the four reads may fail, and is taken for an empty answer.              *)
(***************************************************************************)
Reads == {"threads", "events", "topics", "lineage"}
Load(lost) ==
  /\ step = "load"
  /\ IF lost = {} THEN UNCHANGED outages ELSE Outage
  /\ LET cands == IF "threads" \in lost THEN {} ELSE Candidates(ToSet(batch))
         loaded == [t \in Thread |-> IF t \in cands /\ "events" \notin lost THEN Read(t) ELSE {}]
     IN \E order \in Newest(cands) :
          memory' = [order |-> order, held |-> loaded, loaded |-> loaded,
                     kin |-> IF "lineage" \in lost THEN {} ELSE Lineage,
                     topical |-> [s \in Tale |-> IF "topics" \in lost THEN {} ELSE Topical[s]]]
  /\ step' = "match"
  /\ UNCHANGED <<threads, events, topicsOf, archive, pass, batch, writes, unsound>>

Match(s) ==
  /\ step = "match" /\ batch # <<>> /\ s = Head(batch)
  /\ memory' = Place(memory, s)
  /\ batch' = Tail(batch)
  /\ UNCHANGED <<threads, events, topicsOf, archive, pass, step, writes, unsound, outages>>

(* The rewrite of a thread is sound when the engine saw all its events and *)
(* found one that mentions it.                                             *)
Sound(m) == {t \in Advanced(m) : m.loaded[t] = Read(t) /\ Coherent(m.held[t], t) # {}}

Compose ==
  /\ step = "match" /\ batch = <<>>
  /\ writes' = Statements(memory)
  /\ unsound' = (unsound \cup Advanced(memory)) \ Sound(memory)
  /\ memory' = NoMemory /\ step' = "write"
  /\ UNCHANGED <<threads, events, topicsOf, archive, pass, batch, outages>>

(* Rows of events and topics refer to their thread.                        *)
Effect(w) ==
  CASE w.op = "thread" ->
         /\ threads' = [threads EXCEPT ![w.thread] = w.row]
         /\ UNCHANGED <<events, topicsOf>>
    [] w.op = "link" ->
         /\ topicsOf' = IF threads[w.thread] = NoThread THEN topicsOf
                        ELSE topicsOf \cup {<<w.thread, w.topic>>}
         /\ UNCHANGED <<threads, events>>
    [] w.op = "event" ->
         /\ events' = IF threads[w.thread] = NoThread THEN events
                      ELSE {e \in events : <<e.thread, e.tale>> # <<w.thread, w.tale>>} \cup
                           {[thread |-> w.thread, tale |-> w.tale, branch |-> w.branch, index |-> w.index]}
         /\ UNCHANGED <<threads, topicsOf>>
    [] w.op = "purge" ->
         /\ events' = {e \in events : <<e.thread, e.tale>> # <<w.thread, w.tale>>}
         /\ UNCHANGED <<threads, topicsOf>>

(* One statement after another, each phase after the one before it.        *)
Pending == UNION {writes[i] : i \in DOMAIN writes}
Due == LET open == {i \in DOMAIN writes : writes[i] # {}}
       IN IF open = {} THEN {} ELSE writes[CHOOSE i \in open : \A j \in open : i <= j]
Sent(w) == writes' = [i \in DOMAIN writes |-> writes[i] \ {w}]

Write ==
  /\ step = "write"
  /\ \E w \in Due : Effect(w) /\ Sent(w)
  /\ UNCHANGED <<archive, pass, step, batch, memory, unsound, outages>>

WriteFails ==
  /\ step = "write"
  /\ Outage
  /\ \E w \in Due :
       /\ unsound' = IF w.op = "link" THEN unsound ELSE unsound \cup {w.thread}
       /\ Sent(w)
  /\ UNCHANGED <<threads, events, topicsOf, archive, pass, step, batch, memory>>

EndPass ==
  /\ step = "write" /\ Pending = {}
  /\ batch' = <<>> /\ writes' = <<>>
  /\ IF pass = "live" THEN pass' = "backfill" /\ step' = "select"
     ELSE pass' = "idle" /\ step' = "idle"
  /\ UNCHANGED <<threads, events, topicsOf, archive, memory, unsound, outages>>

(***************************************************************************)
(* backfillUnthreadedArchive: the newest archived stories without an       *)
(* event, as far as their payloads can be read.                            *)
(***************************************************************************)
Later(r, s) == \E i, j \in DOMAIN archive : i > j /\ archive[i] = r /\ archive[j] = s
Unthreaded ==
  LET open == {s \in Tale : s \in ToSet(archive) /\ ~HasEvent(s)}
  IN {s \in open : Cardinality({r \in open : Later(r, s)}) < BatchSize}

Select(lost) ==
  /\ step = "select"
  /\ IF lost = {} THEN UNCHANGED outages ELSE Outage
  /\ batch' \in {q \in SetToSeqs(Unthreaded \ lost) : \A i, j \in 1..Len(q) : i < j => Later(q[i], q[j])}
  /\ IF batch' = <<>> THEN pass' = "idle" /\ step' = "idle" ELSE step' = "load" /\ UNCHANGED pass
  /\ UNCHANGED <<threads, events, topicsOf, archive, memory, writes, unsound>>

PassKilled ==
  /\ pass # "idle" /\ Outage
  /\ pass' = "idle" /\ step' = "idle" /\ batch' = <<>> /\ memory' = NoMemory /\ writes' = <<>>
  /\ unsound' = unsound \cup {w.thread : w \in Pending}
  /\ UNCHANGED <<threads, events, topicsOf, archive>>

LoadAny == \E lost \in {{}, Reads} \cup {{r} : r \in Reads} : Load(lost)
SelectAny == \E lost \in SUBSET Unthreaded : Select(lost)
MatchNext == \E s \in Tale : Match(s)
PassGoesOn == LoadAny \/ MatchNext \/ Compose \/ Write \/ EndPass \/ SelectAny

ThreadNext ==
  \/ BeginPass
  \/ LoadAny
  \/ MatchNext
  \/ Compose
  \/ Write
  \/ WriteFails
  \/ EndPass
  \/ SelectAny
  \/ PassKilled

ThreadSpec ==
  /\ ThreadInit /\ [][ThreadNext]_threadVars
  /\ WF_threadVars(PassGoesOn) /\ WF_threadVars(BeginPass)

-----------------------------------------------------------------------------
(* Between passes, a thread whose last rewrite was neither cut short nor   *)
(* blind tells its events: how many, from when to when, and numbered by    *)
(* date without gaps in each branch; and while nothing has failed, a story *)
(* and the one it was merged with or split from are one event.             *)
(* (sortAndIndexEvents, the lineage check, passes that rewrite each        *)
(* other's rows.)                                                          *)
SameBranch(e, evs) == {f \in evs : f.branch = e.branch}
TellsItsEvents(t) ==
  LET evs == EventsIn(t)
      dates == {At[e.tale] : e \in evs}
  IN /\ evs # {} <=> threads[t] # NoThread
     /\ evs # {} => /\ threads[t].count = Cardinality(evs)
                    /\ {threads[t].first, threads[t].last} \subseteq dates
                    /\ \A d \in dates : threads[t].first <= d /\ d <= threads[t].last
     /\ \A e \in evs : /\ e.index \in 1..Cardinality(SameBranch(e, evs))
                       /\ \A f \in SameBranch(e, evs) : At[e.tale] < At[f.tale] => e.index < f.index
     /\ outages > 0 \/ \A e, f \in evs : {e.tale, f.tale} \notin Lineage

TimelineIsTrue == pass = "idle" => \A t \in Thread \ unsound : TellsItsEvents(t)

(* The backfill drains the archive: a story with a programme tag that is   *)
(* archived gets an event, of its own or of the story it was merged with   *)
(* or split from, or returns to the homepage.  (threadBackfill.ts:6.)      *)
Waiting(s) == s \in ToSet(archive) /\ ~Told(s)
BacklogDrains == \A s \in Programme : Waiting(s) ~> ~Waiting(s)
=============================================================================
