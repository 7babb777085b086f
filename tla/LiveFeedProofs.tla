--------------------------- MODULE LiveFeedProofs ---------------------------
(***************************************************************************)
(* What the live feed keeps true for any stories, requests, bounds and     *)
(* number of faults.                                                       *)
(*                                                                         *)
(* That flagged stories have rows is not inductive for the live snapshot   *)
(* alone: a rollback puts an old snapshot live, so the rows must outlive   *)
(* the history, and a publish carries its marks through four calls, so     *)
(* they must hold of every request for the stories it is done with.        *)
(*                                                                         *)
(* That a publish agrees with the rows is claimed of requests that do not  *)
(* overlap, and there it needs to know that the rows of the stories a      *)
(* request is done with are its own.                                       *)
(***************************************************************************)
EXTENDS LiveFeed, FiniteSetTheorems, TLAPS

\* The flagged stories of a snapshot, but for those still to be written, have rows.
Backed(mark, left) ==
  \A s \in Story : mark[s] \in Flagged => s \in left \/ overrides[s] # "none"

Durable ==
  /\ live # None => Backed(live.mark, {})
  /\ \A row \in snapshots : Backed(row.mark, {})
  /\ \A r \in Request : /\ Backed(requests[r].mark, requests[r].left)
                        /\ requests[r].phase # "upsert" => requests[r].left = {}

Bounded == IsFiniteSet(snapshots) /\ HistoryBounded

LInv == TypeOK /\ Durable /\ Bounded

-----------------------------------------------------------------------------
\* An id the history does not use always exists.
LEMMA UnusedIdExists ==
  ASSUME TypeOK, IsFiniteSet(snapshots)
  PROVE  UnusedId \in Nat
PROOF
<1> DEFINE n == Cardinality(snapshots)
           ids == {row.id : row \in snapshots}
           f == [row \in snapshots |-> row.id]
<1>1. n \in Nat
  BY FS_CardinalityType
<1>2. IsFiniteSet(ids) /\ Cardinality(ids) <= n
  <2>1. f \in Surjection(snapshots, ids)
    BY DEF Surjection
  <2> HIDE DEF f, ids
  <2> QED BY <2>1, FS_Surjection
<1>3. Cardinality(1..n + 1) = n + 1
  BY <1>1, FS_Interval
<1>4. \E i \in 1..n + 1 : i \notin ids
  <2> SUFFICES ASSUME 1..n + 1 \subseteq ids
               PROVE  FALSE
    OBVIOUS
  <2> HIDE DEF ids, n
  <2>1. Cardinality(1..n + 1) <= Cardinality(ids)
    BY <1>2, FS_Subset
  <2>2. Cardinality(ids) \in Nat
    BY <1>2, FS_CardinalityType
  <2> QED BY <1>1, <1>2, <1>3, <2>1, <2>2
<1>5. \E i \in 1..Cardinality(snapshots) + 1 : \A row \in snapshots : row.id # i
  BY <1>4
<1>6. UnusedId \in 1..Cardinality(snapshots) + 1
  BY <1>5 DEF UnusedId
<1> QED BY <1>1, <1>6

\* What a prune leaves is part of the history and no larger than the limit.
LEMMA NewestBounded ==
  ASSUME NEW kept, Newest(kept), IsFiniteSet(snapshots)
  PROVE  kept \subseteq snapshots /\ IsFiniteSet(kept) /\ Cardinality(kept) <= Keep
PROOF
<1>1. Cardinality(snapshots) \in Nat /\ Keep \in Nat
  BY FS_CardinalityType, LiveFeedAssumption
<1>2. Min({Keep, Cardinality(snapshots)}) <= Keep
  <2> DEFINE S == {Keep, Cardinality(snapshots)}
  <2>1. \E x \in S : \A y \in S : x <= y
    BY <1>1
  <2>2. \A y \in S : Min(S) <= y
    BY <2>1 DEF Min
  <2> QED BY <2>2
<1>3. kept \in SUBSET snapshots
  BY DEF Newest
<1>4. IsFiniteSet(kept)
  BY <1>3, FS_Subset
<1> QED BY <1>2, <1>3, <1>4 DEF Newest

\* What a call leaves of the fault counter.
LEMMA CallFaults ==
  ASSUME TypeOK, NEW effect \in BOOLEAN, NEW ok \in BOOLEAN, Call(effect, ok)
  PROVE  /\ faults' \in 0..MaxFaults
         /\ ok => effect
         /\ faults' >= faults
         /\ ~ ok => faults' = faults + 1
  BY LiveFeedAssumption DEF TypeOK, Call

\* A request that leaves or enters the pruning moves its count by one.
LEMMA PruningStep ==
  ASSUME TypeOK, NEW r \in Request, NEW q, Becomes(r, q)
  PROVE  /\ Cardinality(Pruning) \in Nat
         /\ (requests[r].phase # "prune" /\ q.phase = "prune")
              => Cardinality(Pruning') = Cardinality(Pruning) + 1
         /\ (requests[r].phase = "prune" /\ q.phase # "prune")
              => Cardinality(Pruning') = Cardinality(Pruning) - 1
         /\ (requests[r].phase # "prune" /\ q.phase # "prune")
              => Pruning' = Pruning
PROOF
<1>1. IsFiniteSet(Pruning)
  <2>1. Pruning \in SUBSET Request
    BY DEF Pruning
  <2> QED BY <2>1, LiveFeedAssumption, FS_Subset
<1>2. requests' = [requests EXCEPT ![r] = q] /\ DOMAIN requests = Request
  BY DEF Becomes, TypeOK
<1>3. requests[r].phase # "prune" /\ q.phase = "prune" => Pruning' = Pruning \cup {r} /\ r \notin Pruning
  BY <1>2 DEF Pruning
<1>4. requests[r].phase = "prune" /\ q.phase # "prune" => Pruning' = Pruning \ {r} /\ r \in Pruning
  BY <1>2 DEF Pruning
<1>5. requests[r].phase # "prune" /\ q.phase # "prune" => Pruning' = Pruning
  BY <1>2 DEF Pruning
<1> QED
  BY <1>1, <1>3, <1>4, <1>5, FS_AddElement, FS_RemoveElement, FS_CardinalityType

-----------------------------------------------------------------------------
LEMMA InitInv == Init => LInv
PROOF
<1> SUFFICES ASSUME Init
             PROVE  LInv
  OBVIOUS
<1>1. TypeOK
  BY LiveFeedAssumption
  DEF Init, TypeOK, Free, Nothing, Kind, Mark, Snapshot, Time, Phase
<1>2. Durable
  BY DEF Init, Durable, Backed, Free, Nothing, Flagged
<1>3. Bounded
  <2>1. Pruning = {}
    BY DEF Init, Pruning, Free
  <2> QED BY <2>1, FS_EmptySet, LiveFeedAssumption DEF Init, Bounded, HistoryBounded
<1> QED BY <1>1, <1>2, <1>3 DEF LInv

\* A new request: nothing of it is written, so nothing is owed but what is left.
LEMMA BeginInv ==
  ASSUME LInv, NEW r \in Request, NEW mark \in [Story -> Mark], NEW gone \in SUBSET Story,
         Begin(r, mark, gone)
  PROVE  LInv'
PROOF
<1> DEFINE q == [phase |-> "upsert", mark |-> mark, gone |-> gone,
                 left |-> Changed(mark) \cup gone, at |-> 0]
<1>1. Becomes(r, q) /\ requests[r].phase = "idle"
  BY DEF Begin
<1>2. q \in [phase: Phase, mark: [Story -> Mark], gone: SUBSET Story,
             left: SUBSET Story, at: Time]
  BY LiveFeedAssumption DEF Phase, Changed, Time
<1>3. TypeOK'
  BY <1>1, <1>2, LiveFeedAssumption
  DEF LInv, TypeOK, Begin, Becomes, curated, crawl, Snapshot
<1>4. Durable'
  BY <1>1 DEF LInv, TypeOK, Begin, Becomes, Changed, Durable, Backed, curated
<1>5. Bounded'
  <2>1. Pruning' = Pruning
    BY <1>1, PruningStep DEF LInv
  <2> QED BY <2>1 DEF LInv, Bounded, HistoryBounded, Begin, curated
<1> QED BY <1>3, <1>4, <1>5 DEF LInv

LEMMA StepInv == LInv /\ [Next]_vars => LInv'
PROOF
<1> SUFFICES ASSUME LInv, [Next]_vars
             PROVE  LInv'
  OBVIOUS
<1> USE LiveFeedAssumption DEF LInv
<1>1. ASSUME NEW r \in Request, Publish(r)
      PROVE  LInv'
  BY <1>1, BeginInv DEF Publish
<1>2. ASSUME NEW r \in Request, NEW s \in Story, Ingest(r, s)
      PROVE  LInv'
  <2> DEFINE mark == [(IF live = None THEN Nothing ELSE live.mark) EXCEPT ![s] = "promoted"]
  <2>1. mark \in [Story -> Mark]
    BY DEF TypeOK, Nothing, Snapshot, Mark
  <2>2. Begin(r, mark, {})
    BY <1>2 DEF Ingest
  <2> HIDE DEF mark
  <2> QED BY <2>1, <2>2, BeginInv
<1>3. ASSUME NEW r \in Request, NEW row \in snapshots, Rollback(r, row)
      PROVE  LInv'
  <2> DEFINE q == [Free EXCEPT !.phase = "restore", !.mark = row.mark, !.at = row.at]
  <2>1. Becomes(r, q) /\ requests[r].phase = "idle"
    BY <1>3 DEF Rollback
  <2>2. q \in [phase: Phase, mark: [Story -> Mark], gone: SUBSET Story,
               left: SUBSET Story, at: Time] /\ q.mark = row.mark /\ q.left = {}
        /\ q.phase = "restore"
    BY DEF TypeOK, Free, Phase
  <2> HIDE DEF q
  <2>3. TypeOK'
    <3>1. used' \in 0..MaxRequests
      BY <1>3 DEF TypeOK, Rollback
    <3>2. requests' = [requests EXCEPT ![r] = q]
      BY <2>1 DEF Becomes
    <3> QED BY <1>3, <2>2, <3>1, <3>2 DEF TypeOK, Rollback, curated, crawl
  <2>4. Durable'
    BY <1>3, <2>1, <2>2 DEF TypeOK, Rollback, Becomes, Durable, Backed, curated
  <2>5. Pruning' = Pruning
    BY <2>1, <2>2, PruningStep
  <2> QED BY <1>3, <2>3, <2>4, <2>5 DEF Bounded, HistoryBounded, Rollback, curated
<1>4. ASSUME NEW r \in Request, Stamp(r)
      PROVE  LInv'
  <2> DEFINE q == [requests[r] EXCEPT !.phase = "put", !.at = now]
  <2>1. Becomes(r, q) /\ requests[r].phase = "upsert" /\ requests[r].left = {}
    BY <1>4 DEF Stamp
  <2>2. q \in [phase: Phase, mark: [Story -> Mark], gone: SUBSET Story,
               left: SUBSET Story, at: Time] /\ q.phase = "put"
        /\ q.mark = requests[r].mark /\ q.left = {}
    BY <2>1 DEF TypeOK, Phase
  <2> HIDE DEF q
  <2>3. TypeOK'
    BY <1>4, <2>1, <2>2 DEF TypeOK, Stamp, Becomes, curated, crawl
  <2>4. Durable'
    BY <1>4, <2>1, <2>2 DEF TypeOK, Stamp, Becomes, Durable, Backed, curated
  <2>5. Pruning' = Pruning
    BY <2>1, <2>2, PruningStep
  <2> QED BY <1>4, <2>3, <2>4, <2>5 DEF Bounded, HistoryBounded, Stamp, curated
<1>5. ASSUME NEW r \in Request, NEW s \in Story, NEW effect \in BOOLEAN, NEW ok \in BOOLEAN,
             Upsert(r, s, effect, ok)
      PROVE  LInv'
  <2> DEFINE q == IF ok THEN [requests[r] EXCEPT !.left = @ \ {s}] ELSE Free
  <2>0. (ok => effect) /\ faults' \in 0..MaxFaults /\ faults' >= faults
    BY <1>5, CallFaults DEF Upsert
  <2>1. Becomes(r, q) /\ requests[r].phase = "upsert"
    BY <1>5 DEF Upsert
  <2>2. q \in [phase: Phase, mark: [Story -> Mark], gone: SUBSET Story,
               left: SUBSET Story, at: Time] /\ q.phase # "prune"
        /\ (ok => q.mark = requests[r].mark /\ q.left = requests[r].left \ {s}
                  /\ q.phase = "upsert")
        /\ (~ ok => q = Free)
    BY <2>1 DEF TypeOK, Phase, Free, Nothing, Mark, Time
  <2>3. PICK kind \in Kind \ {"none"} :
             overrides' = IF effect THEN [overrides EXCEPT ![s] = kind] ELSE overrides
    BY <1>5 DEF Upsert, KindOf, Kind
  <2> HIDE DEF q
  <2>4. TypeOK'
    BY <1>5, <2>0, <2>1, <2>2, <2>3 DEF TypeOK, Upsert, Becomes, curated, crawl
  <2>5. \A t \in Story : /\ overrides[t] # "none" => overrides'[t] # "none"
                         /\ ok => overrides'[s] # "none"
    BY <2>0, <2>3 DEF TypeOK
  <2>6. Durable'
    BY <1>5, <2>1, <2>2, <2>5
    DEF TypeOK, Upsert, Becomes, Durable, Backed, Free, Nothing, Flagged
  <2>7. Pruning' = Pruning
    BY <2>1, <2>2, PruningStep
  <2>8. Cardinality(Pruning) \in Nat /\ Cardinality(snapshots) \in Nat
    BY <2>1, PruningStep, FS_CardinalityType DEF Bounded
  <2> QED BY <1>5, <2>0, <2>4, <2>6, <2>7, <2>8 DEF TypeOK, Bounded, HistoryBounded, Upsert
<1>6. ASSUME NEW r \in Request, NEW effect \in BOOLEAN, NEW ok \in BOOLEAN,
             PutLive(r, effect, ok)
      PROVE  LInv'
  <2> DEFINE q == IF ok /\ requests[r].phase = "put"
                  THEN [requests[r] EXCEPT !.phase = "insert"] ELSE Free
  <2>0. faults' \in 0..MaxFaults /\ faults' >= faults
    BY <1>6, CallFaults DEF PutLive
  <2>1. Becomes(r, q) /\ requests[r].phase \in {"put", "restore"} /\ requests[r].left = {}
    BY <1>6 DEF PutLive, Durable
  <2>2. q \in [phase: Phase, mark: [Story -> Mark], gone: SUBSET Story,
               left: SUBSET Story, at: Time] /\ q.phase # "prune" /\ q.left = {}
        /\ q.mark \in {requests[r].mark, Nothing}
    BY <2>1 DEF TypeOK, Phase, Free, Nothing, Mark, Time
  <2> HIDE DEF q
  <2>3. [mark |-> requests[r].mark, at |-> requests[r].at] \in Snapshot
    BY DEF TypeOK, Snapshot
  <2>4. TypeOK'
    BY <1>6, <2>0, <2>1, <2>2, <2>3 DEF TypeOK, PutLive, Becomes, crawl
  <2>5. Backed(requests[r].mark, {})
    BY <2>1 DEF Durable
  <2>6. Durable'
    BY <1>6, <2>1, <2>2, <2>5
    DEF TypeOK, PutLive, Becomes, Durable, Backed, Nothing, Flagged
  <2>7. Pruning' = Pruning
    BY <2>1, <2>2, PruningStep
  <2>8. Cardinality(Pruning) \in Nat /\ Cardinality(snapshots) \in Nat
    BY <2>1, PruningStep, FS_CardinalityType DEF Bounded
  <2> QED BY <1>6, <2>0, <2>4, <2>6, <2>7, <2>8 DEF TypeOK, Bounded, HistoryBounded, PutLive
<1>7. ASSUME NEW r \in Request, NEW effect \in BOOLEAN, NEW ok \in BOOLEAN,
             InsertSnapshot(r, effect, ok)
      PROVE  LInv'
  <2> DEFINE q == IF ok THEN [requests[r] EXCEPT !.phase = "prune"] ELSE Free
             row == [id |-> UnusedId, mark |-> requests[r].mark, at |-> requests[r].at]
  <2>0. (ok => effect) /\ faults' \in 0..MaxFaults /\ faults' >= faults
        /\ (~ ok => faults' = faults + 1)
    BY <1>7, CallFaults DEF InsertSnapshot
  <2>1. Becomes(r, q) /\ requests[r].phase = "insert" /\ requests[r].left = {}
    BY <1>7 DEF InsertSnapshot, Durable
  <2>2. q \in [phase: Phase, mark: [Story -> Mark], gone: SUBSET Story,
               left: SUBSET Story, at: Time] /\ q.left = {}
        /\ q.phase = (IF ok THEN "prune" ELSE "idle")
        /\ q.mark \in {requests[r].mark, Nothing}
    BY <2>1 DEF TypeOK, Phase, Free, Nothing, Mark, Time
  <2>3. row \in [id: Nat, mark: [Story -> Mark], at: Time] /\ row.mark = requests[r].mark
    BY UnusedIdExists DEF TypeOK, Bounded
  <2>4. snapshots' = IF effect THEN snapshots \cup {row} ELSE snapshots
    BY <1>7 DEF InsertSnapshot
  <2> HIDE DEF q, row
  <2>5. TypeOK'
    <3>1. snapshots' \subseteq [id: Nat, mark: [Story -> Mark], at: Time]
      BY <2>3, <2>4 DEF TypeOK
    <3>2. requests' = [requests EXCEPT ![r] = q]
      BY <2>1 DEF Becomes
    <3> QED BY <1>7, <2>0, <2>2, <3>1, <3>2 DEF TypeOK, InsertSnapshot, crawl
  <2>6. Backed(requests[r].mark, {})
    BY <2>1 DEF Durable
  <2>7. Durable'
    BY <1>7, <2>1, <2>2, <2>3, <2>4, <2>6
    DEF TypeOK, InsertSnapshot, Becomes, Durable, Backed, Nothing, Flagged
  <2>8. /\ IsFiniteSet(snapshots')
        /\ Cardinality(snapshots') <= Cardinality(snapshots) + 1
        /\ Cardinality(snapshots) \in Nat /\ Cardinality(snapshots') \in Nat
    <3>1. IsFiniteSet(snapshots) /\ Cardinality(snapshots) \in Nat
      BY FS_CardinalityType DEF Bounded
    <3>2. CASE effect
      <4>1. /\ IsFiniteSet(snapshots \cup {row})
            /\ Cardinality(snapshots \cup {row}) <= Cardinality(snapshots) + 1
        <5>1. IsFiniteSet(snapshots) /\ Cardinality(snapshots) \in Nat
          BY <3>1
        <5> DEFINE more == snapshots \cup {row}
        <5>2. /\ IsFiniteSet(more)
              /\ Cardinality(more) = IF row \in snapshots THEN Cardinality(snapshots)
                                     ELSE Cardinality(snapshots) + 1
          BY <5>1, FS_AddElement
        <5> HIDE DEF more
        <5>3. IsFiniteSet(more) /\ Cardinality(more) <= Cardinality(snapshots) + 1
          BY <5>1, <5>2
        <5> QED BY <5>3 DEF more
      <4>2. Cardinality(snapshots \cup {row}) \in Nat
        BY <4>1, FS_CardinalityType
      <4> QED BY <2>4, <3>1, <3>2, <4>1, <4>2
    <3>3. CASE ~ effect
      BY <2>4, <3>1, <3>3
    <3> QED BY <3>2, <3>3
  <2>9. /\ Cardinality(Pruning) \in Nat
        /\ Cardinality(Pruning') = Cardinality(Pruning) + (IF ok THEN 1 ELSE 0)
    BY <2>1, <2>2, PruningStep
  <2>10. Bounded'
    BY <2>0, <2>8, <2>9 DEF TypeOK, Bounded, HistoryBounded
  <2> QED BY <2>5, <2>7, <2>10
<1>8. ASSUME NEW r \in Request, NEW effect \in BOOLEAN, NEW ok \in BOOLEAN,
             Prune(r, effect, ok)
      PROVE  LInv'
  <2>0. (ok => effect) /\ faults' \in 0..MaxFaults /\ faults' >= faults
        /\ (~ ok => faults' = faults + 1)
    BY <1>8, CallFaults DEF Prune
  <2>1. Becomes(r, Free) /\ requests[r].phase = "prune"
    BY <1>8 DEF Prune
  <2>2. Free \in [phase: Phase, mark: [Story -> Mark], gone: SUBSET Story,
               left: SUBSET Story, at: Time] /\ Free.left = {} /\ Free.phase = "idle"
        /\ Free.mark = Nothing
    BY DEF Phase, Free, Nothing, Mark, Time
  <2>3. /\ snapshots' \subseteq snapshots /\ IsFiniteSet(snapshots')
        /\ effect => Cardinality(snapshots') <= Keep
        /\ ~ effect => snapshots' = snapshots
    BY <1>8, NewestBounded DEF Prune, Bounded
  <2>4. TypeOK'
    BY <1>8, <2>0, <2>1, <2>2, <2>3 DEF TypeOK, Prune, Becomes, crawl
  <2>5. Durable'
    BY <1>8, <2>1, <2>2, <2>3
    DEF TypeOK, Prune, Becomes, Durable, Backed, Nothing, Flagged
  <2>6. /\ Cardinality(Pruning) \in Nat /\ Cardinality(Pruning') \in Nat
        /\ Cardinality(Pruning') = Cardinality(Pruning) - 1
    <3>1. Pruning' = Pruning \ {r} /\ r \in Pruning
      BY <2>1, <2>2 DEF Becomes, Pruning, TypeOK
    <3>2. IsFiniteSet(Pruning) /\ IsFiniteSet(Pruning')
      <4>1. Pruning \in SUBSET Request /\ Pruning' \in SUBSET Request
        BY DEF Pruning
      <4> QED BY <4>1, FS_Subset
    <3> QED BY <3>1, <3>2, FS_RemoveElement, FS_CardinalityType
  <2>7. Cardinality(snapshots) \in Nat /\ Cardinality(snapshots') \in Nat
    BY <2>3, FS_CardinalityType DEF Bounded
  <2>8. Bounded'
    BY <2>0, <2>3, <2>6, <2>7 DEF TypeOK, Bounded, HistoryBounded
  <2> QED BY <2>4, <2>5, <2>8
<1>9. ASSUME NEW ok \in BOOLEAN, Collect(ok)
      PROVE  LInv'
  <2>0. faults' \in 0..MaxFaults /\ faults' >= faults
    BY <1>9, CallFaults DEF Collect
  <2>1. draft' \in [Story -> Mark]
    <3>1. PICK found \in [Story -> {"absent", "plain", "lead"}], explicit, cut \in SUBSET Story :
            draft' = [s \in Story |->
              IF s \in cut THEN "absent"
              ELSE (IF ok THEN Overlaid(Locked(found), overrides, explicit)
                    ELSE Locked(found))[s]]
      BY <1>9 DEF Collect
    <3>2. Locked(found) \in [Story -> Mark]
      BY DEF Locked, Snapshot, Mark
    <3>3. Overlaid(Locked(found), overrides, explicit) \in [Story -> Mark]
      BY <3>2 DEF Overlaid, Mark
    <3> QED BY <3>1, <3>2, <3>3 DEF Mark
  <2>2. TypeOK'
    BY <1>9, <2>0, <2>1 DEF TypeOK, Collect, curated
  <2>3. Durable' /\ Pruning' = Pruning
    BY <1>9 DEF Collect, Durable, Backed, Pruning, curated
  <2>4. Cardinality(Pruning) \in Nat /\ Cardinality(snapshots) \in Nat
    <3>1. Pruning \in SUBSET Request
      BY DEF Pruning
    <3> QED BY <3>1, FS_Subset, FS_CardinalityType DEF Bounded
  <2> QED BY <1>9, <2>0, <2>2, <2>3, <2>4 DEF TypeOK, Collect, Bounded, HistoryBounded, curated
<1>10. CASE Build \/ Deploy \/ BailOut \/ Tick
  <2>1. TypeOK'
    BY <1>10 DEF Build, Deploy, BailOut, Tick, Ended, Nothing, Mark, Time, Snapshot,
                 TypeOK, curated, crawl
  <2>2. UNCHANGED <<curated, requests, faults>>
    BY <1>10 DEF Build, Deploy, BailOut, Tick
  <2> QED BY <2>1, <2>2 DEF Durable, Backed, Bounded, HistoryBounded, Pruning, curated
<1>11. CASE Killed
  <2>0. faults' \in 0..MaxFaults /\ faults' >= faults
    BY <1>11, CallFaults DEF Killed
  <2>1. TypeOK'
    BY <1>11, <2>0 DEF Killed, Ended, Nothing, Mark, Time, TypeOK, curated
  <2>2. Durable' /\ Pruning' = Pruning
    BY <1>11 DEF Killed, Durable, Backed, Pruning, curated
  <2>3. Cardinality(Pruning) \in Nat /\ Cardinality(snapshots) \in Nat
    <3>1. Pruning \in SUBSET Request
      BY DEF Pruning
    <3> QED BY <3>1, FS_Subset, FS_CardinalityType DEF Bounded
  <2> QED BY <1>11, <2>0, <2>1, <2>2, <2>3 DEF TypeOK, Killed, Bounded, HistoryBounded, curated
<1>12. CASE UNCHANGED vars
  BY <1>12 DEF vars, curated, crawl, TypeOK, Durable, Backed, Bounded, HistoryBounded, Pruning
<1> QED
  BY <1>1, <1>2, <1>3, <1>4, <1>5, <1>6, <1>7, <1>8, <1>9, <1>10, <1>11, <1>12
  DEF Next, Curate, Crawl

THEOREM LiveFeedInductive == Spec => []LInv
  BY InitInv, StepInv, PTL DEF Spec

-----------------------------------------------------------------------------
\* Every variable stays within its type.
THEOREM LiveFeedTypes == Spec => []TypeOK
PROOF
<1>1. LInv => TypeOK
  BY DEF LInv
<1> QED BY <1>1, LiveFeedInductive, PTL

\* Whatever the live snapshot promotes, hides or leads with has an override row
\* for the next crawl (handleCuratorPublish, handleCuratorRollback).
THEOREM LiveRowsExist == Spec => []LiveIsDurable
PROOF
<1>1. LInv => LiveIsDurable
  BY DEF LInv, Durable, Backed, LiveIsDurable
<1> QED BY <1>1, LiveFeedInductive, PTL

\* The history exceeds its limit by no more than the publishes about to prune and
\* the calls that failed (insertSnapshot, pruneSnapshots).
THEOREM HistoryIsBounded == Spec => []HistoryBounded
PROOF
<1>1. LInv => HistoryBounded
  BY DEF LInv, Bounded
<1> QED BY <1>1, LiveFeedInductive, PTL

-----------------------------------------------------------------------------
(***************************************************************************)
(* Requests one after the other.  The rows of the stories a request is     *)
(* done with are the ones it wrote, until it is over.                      *)
(***************************************************************************)
Row(q, s) == IF s \in q.gone THEN "delete" ELSE KindOf(q.mark[s])

Settled(q) ==
  /\ \A s \in Story : s \in Changed(q.mark) \cup q.gone => s \in q.left \/ overrides[s] = Row(q, s)
  /\ \A s \in q.gone : q.mark[s] = "absent"

Serial == \A r, x \in Request : r = x

RowsInv == \A r \in Request : requests[r].phase \in {"upsert", "put"} => Settled(requests[r])

\* What a crawl makes of the row a request wrote.
LEMMA RowIsTold ==
  ASSUME NEW q \in [phase: Phase, mark: [Story -> Mark], gone: SUBSET Story,
                    left: SUBSET Story, at: Time],
         NEW s \in Story, overrides[s] = Row(q, s)
  PROVE  /\ s \in q.gone => Told[s] = "absent"
         /\ s \notin q.gone /\ q.mark[s] \in Flagged => Told[s] = q.mark[s]
<1>1. overrides[s] = "delete" => Told[s] = "absent"
  BY DEF Told, Overlaid
<1>2. overrides[s] = "ignore" => Told[s] = "ignored"
  BY DEF Told, Overlaid
<1>3. overrides[s] = "promote" => Told[s] = "promoted"
  BY DEF Told, Overlaid
<1>4. overrides[s] = "headline" => Told[s] = "lead"
  BY DEF Told, Overlaid
<1>5. CASE s \in q.gone
  BY <1>1, <1>5 DEF Row
<1>6. CASE s \notin q.gone
  <2>1. overrides[s] = KindOf(q.mark[s])
    BY <1>6 DEF Row
  <2>2. CASE q.mark[s] = "ignored"
    BY <1>2, <1>6, <2>1, <2>2 DEF KindOf
  <2>3. CASE q.mark[s] = "promoted"
    BY <1>3, <1>6, <2>1, <2>3 DEF KindOf
  <2>4. CASE q.mark[s] = "lead"
    BY <1>4, <1>6, <2>1, <2>4 DEF KindOf
  <2> QED  BY <1>6, <2>2, <2>3, <2>4 DEF Flagged
<1> QED  BY <1>5, <1>6

LEMMA RowsBegin ==
  ASSUME LInv, Serial, NEW r \in Request, NEW mark \in [Story -> Mark], NEW gone \in SUBSET Story,
         \A s \in gone : mark[s] = "absent", Begin(r, mark, gone)
  PROVE  RowsInv'
<1>0. PICK q : q = [phase |-> "upsert", mark |-> mark, gone |-> gone,
                    left |-> Changed(mark) \cup gone, at |-> 0]
  OBVIOUS
<1>1. requests' = [requests EXCEPT ![r] = q] /\ overrides' = overrides
  BY <1>0 DEF Begin, Becomes, curated
<1>2. q.mark = mark /\ q.gone = gone /\ q.left = Changed(mark) \cup gone
  BY <1>0
<1>3. requests'[r] = q /\ \A x \in Request : x = r
  BY <1>1 DEF Serial, LInv, TypeOK
<1>4. Settled(q)'
  BY <1>2 DEF Settled, Changed
<1> QED  BY <1>3, <1>4 DEF RowsInv, Settled, Changed, Row

LEMMA RowsStep == LInv /\ RowsInv /\ Serial /\ [Next]_vars => RowsInv'
<1> SUFFICES ASSUME LInv, RowsInv, Serial, [Next]_vars PROVE RowsInv'
  OBVIOUS
<1>0. ASSUME NEW r \in Request, NEW q, requests' = [requests EXCEPT ![r] = q],
             q.phase \in {"upsert", "put"} => Settled(q)'
      PROVE  RowsInv'
  <2>1. requests'[r] = q /\ \A x \in Request : x = r
    BY <1>0 DEF Serial, LInv, TypeOK
  <2> QED  BY <1>0, <2>1 DEF RowsInv, Settled, Changed, Row
<1>1. ASSUME NEW r \in Request, Publish(r) PROVE RowsInv'
  BY <1>1, RowsBegin DEF Publish
<1>2. ASSUME NEW r \in Request, NEW s \in Story, Ingest(r, s) PROVE RowsInv'
  <2> DEFINE mark == [(IF live = None THEN Nothing ELSE live.mark) EXCEPT ![s] = "promoted"]
  <2>1. mark \in [Story -> Mark]
    BY DEF LInv, TypeOK, Nothing, Snapshot, Mark
  <2>2. Begin(r, mark, {})
    BY <1>2 DEF Ingest
  <2> HIDE DEF mark
  <2> QED  BY <2>1, <2>2, RowsBegin
<1>3. ASSUME NEW r \in Request, NEW row \in snapshots, Rollback(r, row) PROVE RowsInv'
  <2> DEFINE q == [Free EXCEPT !.phase = "restore", !.mark = row.mark, !.at = row.at]
  <2>1. requests' = [requests EXCEPT ![r] = q] /\ q.phase = "restore"
    BY <1>3 DEF Rollback, Becomes, Free
  <2> HIDE DEF q
  <2> QED  BY <1>0, <2>1
<1>4. ASSUME NEW r \in Request, Stamp(r) PROVE RowsInv'
  <2>1. PICK old, q : old = requests[r] /\ q = [old EXCEPT !.phase = "put", !.at = now]
    OBVIOUS
  <2>2. requests' = [requests EXCEPT ![r] = q] /\ old.phase = "upsert" /\ overrides' = overrides
    BY <1>4, <2>1 DEF Stamp, Becomes, curated
  <2>3. q.mark = old.mark /\ q.gone = old.gone /\ q.left = old.left
    BY <2>1 DEF LInv, TypeOK
  <2>4. Settled(old)
    BY <2>1, <2>2 DEF RowsInv
  <2>5. Settled(q)'
    BY <2>2, <2>3, <2>4 DEF Settled, Row
  <2> QED  BY <1>0, <2>2, <2>5
<1>5. ASSUME NEW r \in Request, NEW s \in Story, NEW effect \in BOOLEAN, NEW ok \in BOOLEAN,
             Upsert(r, s, effect, ok)
      PROVE  RowsInv'
  <2>1. PICK old, q : old = requests[r] /\ q = [old EXCEPT !.left = @ \ {s}]
    OBVIOUS
  <2>2. /\ old.phase = "upsert" /\ (ok => effect)
        /\ requests' = [requests EXCEPT ![r] = IF ok THEN q ELSE Free]
        /\ overrides' = IF effect THEN [overrides EXCEPT ![s] = Row(old, s)] ELSE overrides
    BY <1>5, <2>1 DEF Upsert, Becomes, Call, Row
  <2>3. CASE ~ok
    <3>1. requests' = [requests EXCEPT ![r] = Free] /\ Free.phase = "idle"
      BY <2>2, <2>3 DEF Free
    <3> QED  BY <1>0, <3>1
  <2>4. CASE ok
    <3>1. requests' = [requests EXCEPT ![r] = q] /\ overrides' = [overrides EXCEPT ![s] = Row(old, s)]
      BY <2>2, <2>4
    <3>2. q.mark = old.mark /\ q.gone = old.gone /\ q.left = old.left \ {s}
      BY <2>1 DEF LInv, TypeOK
    <3>3. Settled(old)
      BY <2>1, <2>2 DEF RowsInv
    <3>4. overrides'[s] = Row(old, s) /\ \A t \in Story \ {s} : overrides'[t] = overrides[t]
      BY <3>1 DEF LInv, TypeOK
    <3>5. Settled(q)'
      BY <3>2, <3>3, <3>4 DEF Settled, Row
    <3> QED  BY <1>0, <3>1, <3>5
  <2> QED  BY <2>3, <2>4
<1>6. ASSUME NEW r \in Request, NEW effect \in BOOLEAN, NEW ok \in BOOLEAN,
             \/ PutLive(r, effect, ok) \/ InsertSnapshot(r, effect, ok) \/ Prune(r, effect, ok)
      PROVE  RowsInv'
  <2>1. Free.phase = "idle"
    BY DEF Free
  <2>2. PICK old : old = requests[r]
    OBVIOUS
  <2>3. \A p : [old EXCEPT !.phase = p].phase = p
    BY <2>2 DEF LInv, TypeOK
  <2>4. ASSUME NEW p \in {"insert", "prune"}, requests' = [requests EXCEPT ![r] = [old EXCEPT !.phase = p]]
        PROVE  RowsInv'
    BY <1>0, <2>3, <2>4
  <2>5. ASSUME requests' = [requests EXCEPT ![r] = Free] PROVE RowsInv'
    BY <1>0, <2>1, <2>5
  <2>6. ASSUME PutLive(r, effect, ok) PROVE RowsInv'
    BY <2>2, <2>4, <2>5, <2>6 DEF PutLive, Becomes
  <2>7. ASSUME InsertSnapshot(r, effect, ok) PROVE RowsInv'
    BY <2>2, <2>4, <2>5, <2>7 DEF InsertSnapshot, Becomes
  <2>8. ASSUME Prune(r, effect, ok) PROVE RowsInv'
    BY <2>5, <2>8 DEF Prune, Becomes
  <2> QED  BY <1>6, <2>6, <2>7, <2>8
<1>7. ASSUME UNCHANGED <<overrides, requests>> PROVE RowsInv'
  BY <1>7 DEF RowsInv, Settled, Row
<1>8. CASE Crawl \/ BailOut \/ Killed \/ Tick \/ UNCHANGED vars
  BY <1>7, <1>8 DEF Crawl, Collect, Build, Deploy, BailOut, Killed, Tick, curated, vars
<1> QED  BY <1>1, <1>2, <1>3, <1>4, <1>5, <1>6, <1>8 DEF Next, Curate

LEMMA PutTellsRows ==
  ASSUME LInv, RowsInv, [Next]_vars, NEW r \in Request, Goes(r), NEW s \in Story
  PROVE  /\ live'.mark[s] \in Flagged => Told[s] = live'.mark[s]
         /\ s \in requests[r].gone => Told[s] = "absent"
<1> DEFINE q == requests[r]
<1>1. q.phase = "put" /\ requests'[r].phase = "insert"
  BY DEF Goes
<1>2. q \in [phase: Phase, mark: [Story -> Mark], gone: SUBSET Story,
             left: SUBSET Story, at: Time]
      /\ q.left = {} /\ Settled(q)
  BY <1>1 DEF LInv, TypeOK, Durable, RowsInv
<1>3. live' = [mark |-> q.mark, at |-> q.at]
  <2> SUFFICES live' = [mark |-> requests[r].mark, at |-> requests[r].at]
    OBVIOUS
  <2>1. requests'[r] # requests[r]
    BY <1>1
  <2>2. Free.phase = "idle"
    BY DEF Free
  <2>3. PICK x \in Request : Curate(x)
    BY <2>1 DEF Next, vars, Crawl, Collect, Build, Deploy, BailOut, Killed, Tick
  <2>4. PICK y : requests' = [requests EXCEPT ![x] = y]
    BY <2>3 DEF Curate, Ingest, Publish, Begin, Rollback, Stamp, Upsert, PutLive, InsertSnapshot,
                Prune, Becomes
  <2>5. x = r
    BY <2>1, <2>4 DEF LInv, TypeOK
  <2>6. PICK effect \in BOOLEAN, ok \in BOOLEAN : PutLive(r, effect, ok)
    BY <1>1, <2>3, <2>5 DEF Curate, Ingest, Publish, Begin, Rollback, Stamp, Upsert,
                InsertSnapshot, Prune
  <2>7. ok = TRUE /\ effect = TRUE
    BY <1>1, <2>2, <2>6 DEF PutLive, Call, Becomes, LInv, TypeOK
  <2> QED  BY <2>6, <2>7 DEF PutLive
<1> HIDE DEF q
<1>4. live'.mark = q.mark
  BY <1>3
<1>5. CASE s \in q.gone
  <2>1. overrides[s] = Row(q, s) /\ q.mark[s] = "absent"
    BY <1>2, <1>5 DEF Settled
  <2> QED  BY <1>2, <1>4, <1>5, <2>1, RowIsTold DEF q, Flagged
<1>6. CASE s \notin q.gone
  <2>1. ASSUME q.mark[s] \in Flagged PROVE overrides[s] = Row(q, s)
    BY <1>2, <2>1 DEF Settled, Changed
  <2> QED  BY <1>2, <1>4, <1>6, <2>1, RowIsTold DEF q
<1> QED  BY <1>5, <1>6

(* Of requests that do not overlap, what goes live is what the rows tell   *)
(* the next crawl, wherever a call before it failed or stopped             *)
(* (handleCuratorPublish, applyD1CuratorOverrides).                        *)
THEOREM SerialPublishesAgree == Serial => (Spec => LiveAgreesWithRows)
<1> SUFFICES ASSUME Serial PROVE Spec => LiveAgreesWithRows
  OBVIOUS
<1>1. Init => LInv
  BY InitInv
<1>2. Init => RowsInv
  BY DEF Init, RowsInv, Free
<1>3. LInv /\ [Next]_vars => LInv'
  BY StepInv
<1>4. LInv /\ RowsInv /\ [Next]_vars => RowsInv'
  BY RowsStep
<1>5. LInv /\ RowsInv /\ [Next]_vars =>
        [\A r \in Request : Goes(r) => \A s \in Story :
           /\ live'.mark[s] \in Flagged => Told[s] = live'.mark[s]
           /\ s \in requests[r].gone => Told[s] = "absent"]_vars
  BY PutTellsRows
<1> QED  BY <1>1, <1>2, <1>3, <1>4, <1>5, PTL DEF Spec, LiveAgreesWithRows
=============================================================================
