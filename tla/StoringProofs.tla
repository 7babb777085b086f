--------------------------- MODULE StoringProofs ---------------------------
(***************************************************************************)
(* What a crawl's stores keep true, for any stories, threads, homepage     *)
(* size and number of faults: the archive of the stories that left the     *)
(* homepage, then the threads.  They share no variable.                    *)
(*                                                                         *)
(* The gate's promise is not inductive: Filing follows a popped story from *)
(* the list, through the crawler's hand, into the archive, and says that   *)
(* the cleanup touches only stories of the next homepage.  Nor is a        *)
(* thread's: OnCourse says, of every statement a pass has sent and has     *)
(* still to send, what they come to together.                              *)
(***************************************************************************)
EXTENDS MCStoring, FiniteSetTheorems, WellFoundedInduction, TLAPS

InHand == IF pc = "insert" THEN {item} ELSE {}

\* A popped story is on the list, in hand or archived, unless a failure is noted.
Filing ==
  /\ pc = "insert" => item \in blobs
  /\ returning \subseteq next
  /\ pc # "erase" => returning = {}
  /\ pc # "idle" /\ ~ failed => Dropped \subseteq todo \cup InHand \cup (rows \cap blobs)
  /\ pc \in {"erase", "gate", "deploy"} => todo = {}
  /\ pc \in {"gate", "deploy"} /\ ~ failed => rows \cap next = {}
  /\ pc = "deploy" => ~ failed

\* Without faults, only rows about to be deleted can be without their payload.
Pairing ==
  faults = 0 => IF pc = "erase" THEN rows \ next \subseteq blobs ELSE rows \subseteq blobs

AInv == TypeOK /\ Filing /\ Pairing

-----------------------------------------------------------------------------
LEMMA InitInv == Init => AInv
PROOF
<1> SUFFICES ASSUME Init
             PROVE  AInv
  OBVIOUS
<1>0. faults \in 0..MaxFaults
  BY ArchiveAssumption DEF Init
<1>1. TypeOK
  BY <1>0, ArchiveAssumption DEF Init, TypeOK, Phase
<1>2. Filing /\ Pairing
  BY DEF Init, Filing, Pairing
<1> QED BY <1>1, <1>2 DEF AInv

\* What a call leaves of the fault counter.
LEMMA CallFaults ==
  ASSUME TypeOK, NEW effect \in BOOLEAN, NEW ok \in BOOLEAN, Call(effect, ok)
  PROVE  /\ faults' \in 0..MaxFaults
         /\ ok => effect
         /\ faults' = 0 => ok /\ faults = 0
  BY ArchiveAssumption DEF TypeOK, Call

LEMMA StepInv == AInv /\ [Next]_vars => AInv'
PROOF
<1> SUFFICES ASSUME AInv, [Next]_vars
             PROVE  AInv'
  OBVIOUS
<1> USE ArchiveAssumption DEF AInv
<1>1. CASE BailOut
  <2>1. TypeOK'
    BY <1>1 DEF BailOut, TypeOK, crawl
  <2> QED BY <1>1, <2>1 DEF BailOut, TypeOK, Filing, Pairing, Dropped, InHand, crawl
<1>2. CASE BeginCrawl
  <2>1. TypeOK' /\ pc = "idle" /\ pc' = "persist" /\ UNCHANGED <<stores, returning, failed, faults>>
    BY <1>2 DEF BeginCrawl, Popped, TypeOK, Phase, stores
  <2>2. Filing'
    BY <1>2, <2>1 DEF BeginCrawl, Popped, Filing, Dropped, InHand, TypeOK
  <2> QED BY <2>1, <2>2 DEF Pairing, stores
<1>3. CASE Persist
  <2>1. CASE Gone
    <3>1. faults' \in 0..MaxFaults /\ faults' # 0
      BY <1>3, <2>1 DEF Persist, Gone, Call, TypeOK
    <3>2. rows' \subseteq Story /\ blobs' \subseteq Story /\ homepage' = homepage
      BY <1>3 DEF Persist, TypeOK
    <3>3. TypeOK'
      BY <2>1, <3>1, <3>2 DEF Gone, TypeOK, Phase
    <3> QED BY <2>1, <3>1, <3>3 DEF Gone, Filing, Pairing
  <2>2. CASE pc' = "archive" /\ UNCHANGED <<crawl, todo, item, returning, failed, faults>>
    BY <1>3, <2>2 DEF Persist, TypeOK, Phase, Filing, Pairing, Dropped, InHand, crawl
  <2> QED BY <1>3, <2>1, <2>2 DEF Persist
<1>4. ASSUME NEW x \in Story, NEW effect \in BOOLEAN, NEW ok \in BOOLEAN,
             PutPayload(x, effect, ok)
      PROVE  AInv'
  <2>0. (ok => effect) /\ faults' \in 0..MaxFaults /\ (faults' = 0 => faults = 0)
    BY <1>4, CallFaults DEF PutPayload
  <2>1. TypeOK'
    BY <1>4, <2>0 DEF PutPayload, TypeOK, Phase, crawl
  <2>2. Filing'
    BY <1>4, <2>0 DEF PutPayload, TypeOK, Filing, Dropped, InHand, crawl
  <2>3. Pairing'
    BY <1>4, <2>0 DEF PutPayload, TypeOK, Pairing, crawl
  <2> QED BY <2>1, <2>2, <2>3
<1>5. ASSUME NEW effect \in BOOLEAN, NEW ok \in BOOLEAN, InsertRow(effect, ok)
      PROVE  AInv'
  <2>0. (ok => effect) /\ faults' \in 0..MaxFaults /\ (faults' = 0 => faults = 0)
    BY <1>5, CallFaults DEF InsertRow
  <2>1. item \in blobs
    BY <1>5 DEF InsertRow, Filing
  <2>2. TypeOK'
    BY <1>5, <2>0, <2>1 DEF InsertRow, TypeOK, Phase, crawl
  <2>3. Filing'
    BY <1>5, <2>0, <2>1 DEF InsertRow, TypeOK, Filing, Dropped, InHand, crawl
  <2>4. Pairing'
    BY <1>5, <2>0, <2>1 DEF InsertRow, TypeOK, Pairing, crawl
  <2> QED BY <2>2, <2>3, <2>4
<1>6. ASSUME NEW ok \in BOOLEAN, Lookup(ok)
      PROVE  AInv'
  <2>0. faults' \in 0..MaxFaults /\ (faults' = 0 => faults = 0)
    BY <1>6, CallFaults DEF Lookup
  <2>1. TypeOK'
    BY <1>6, <2>0 DEF Lookup, ArchivedAmong, TypeOK, Phase, stores, crawl
  <2>2. Filing'
    BY <1>6, <2>0 DEF Lookup, ArchivedAmong, TypeOK, Filing, Dropped, InHand, stores, crawl
  <2>3. Pairing'
    BY <1>6, <2>0 DEF Lookup, TypeOK, Pairing, stores, crawl
  <2> QED BY <2>1, <2>2, <2>3
<1>7. ASSUME NEW x \in Story, NEW effect \in BOOLEAN, NEW ok \in BOOLEAN,
             ErasePayload(x, effect, ok)
      PROVE  AInv'
  <2>0. (ok => effect) /\ faults' \in 0..MaxFaults /\ (faults' = 0 => faults = 0)
    BY <1>7, CallFaults DEF ErasePayload
  <2>1. x \in next
    BY <1>7 DEF ErasePayload, Filing
  <2>2. TypeOK'
    BY <1>7, <2>0 DEF ErasePayload, TypeOK, crawl
  <2>3. Filing'
    BY <1>7, <2>1 DEF ErasePayload, TypeOK, Filing, Dropped, InHand, crawl
  <2>4. Pairing'
    BY <1>7, <2>0, <2>1 DEF ErasePayload, TypeOK, Pairing, crawl
  <2> QED BY <2>2, <2>3, <2>4
<1>8. ASSUME NEW effect \in BOOLEAN, NEW ok \in BOOLEAN, DeleteRows(effect, ok)
      PROVE  AInv'
  <2>0. (ok => effect) /\ faults' \in 0..MaxFaults /\ (faults' = 0 => ok /\ faults = 0)
    BY <1>8, CallFaults DEF DeleteRows
  <2>1. TypeOK'
    BY <1>8, <2>0 DEF DeleteRows, TypeOK, Phase, crawl
  <2>2. Filing'
    BY <1>8, <2>0 DEF DeleteRows, TypeOK, Filing, Dropped, InHand, crawl
  <2>3. Pairing'
    BY <1>8, <2>0 DEF DeleteRows, TypeOK, Pairing, crawl
  <2> QED BY <2>1, <2>2, <2>3
<1>9. CASE Admit
  BY <1>9 DEF Admit, TypeOK, Phase, Filing, Pairing, Dropped, InHand, stores, crawl
<1>10. CASE Refuse \/ Deploy \/ Killed
  <2>1. Gone /\ UNCHANGED <<rows, blobs>> /\ homepage' \in {homepage, next}
    BY <1>10 DEF Refuse, Deploy, Killed, stores
  <2>2. faults' \in 0..MaxFaults /\ (faults' = 0 => faults = 0)
    BY <1>10 DEF Refuse, Deploy, Killed, Call, TypeOK
  <2>3. TypeOK' /\ Filing'
    BY <2>1, <2>2 DEF Gone, TypeOK, Phase, Filing, Dropped, InHand
  <2>4. pc # "erase" => Pairing'
    BY <2>1, <2>2 DEF Gone, Pairing
  <2>5. pc = "erase" => Pairing'
    BY <1>10, <2>2 DEF Refuse, Deploy, Killed, Call, Pairing, TypeOK
  <2> QED BY <2>3, <2>4, <2>5
<1>11. CASE UNCHANGED vars
  BY <1>11 DEF vars, TypeOK, Filing, Pairing, Dropped, InHand
<1> QED
  BY <1>1, <1>2, <1>3, <1>4, <1>5, <1>6, <1>7, <1>8, <1>9, <1>10, <1>11
  DEF Next, Work, Archive, Reconcile

THEOREM ArchiveInductive == Spec => []AInv
  BY InitInv, StepInv, PTL DEF Spec

-----------------------------------------------------------------------------
\* Every variable stays within its type.
THEOREM ArchiveTypes == Spec => []TypeOK
PROOF
<1>1. AInv => TypeOK
  BY DEF AInv
<1> QED BY <1>1, ArchiveInductive, PTL

\* The gate lets through only a homepage whose dropped stories are archived with
\* their payloads and whose shown stories are not archived (runIngestionPipeline).
THEOREM GateHolds == Spec => []DeploysWhatItFiled
PROOF
<1>1. AInv => DeploysWhatItFiled
  BY DEF AInv, Filing, InHand, DeploysWhatItFiled
<1> QED BY <1>1, ArchiveInductive, PTL

\* A crawl without faults never parts a row from its payload
\* (reconcileArchiveWithLiveFeed).
THEOREM CleanupPairs == Spec => []CleanupIsPaired
PROOF
<1>1. AInv => CleanupIsPaired
  BY DEF AInv, Pairing, CleanupIsPaired
<1> QED BY <1>1, ArchiveInductive, PTL

\* Every new row finds its payload in place (archivePoppedClusters).
THEOREM RowsFollow == Spec => RowFollowsPayload
PROOF
<1>1. AInv /\ [Next]_vars => [rows' \ rows \subseteq blobs]_vars
  <2> SUFFICES ASSUME AInv, Next
               PROVE  rows' \ rows \subseteq blobs
    OBVIOUS
  <2>1. ASSUME NEW effect \in BOOLEAN, NEW ok \in BOOLEAN, InsertRow(effect, ok)
        PROVE  rows' \ rows \subseteq blobs
    BY <2>1 DEF AInv, Filing, InsertRow
  <2>2. ASSUME NEW effect \in BOOLEAN, NEW ok \in BOOLEAN, DeleteRows(effect, ok)
        PROVE  rows' \ rows \subseteq blobs
    BY <2>2 DEF DeleteRows
  <2>3. CASE \/ BailOut \/ BeginCrawl \/ Persist \/ Refuse \/ Admit \/ Deploy \/ Killed
             \/ \E x \in Story, effect, ok \in BOOLEAN : PutPayload(x, effect, ok)
             \/ \E ok \in BOOLEAN : Lookup(ok)
             \/ \E x \in Story, effect, ok \in BOOLEAN : ErasePayload(x, effect, ok)
    BY <2>3
    DEF BailOut, BeginCrawl, Persist, Refuse, Admit, Deploy, Killed, PutPayload, Lookup,
        ErasePayload, stores
  <2> QED BY <2>1, <2>2, <2>3 DEF Next, Work, Archive, Reconcile
<1> QED BY <1>1, ArchiveInductive, PTL DEF Spec, RowFollowsPayload

-----------------------------------------------------------------------------
(***************************************************************************)
(* Threads.  First the numbers a timeline is made of: what the events K of *)
(* a thread, one for each story, come to.                                  *)
(***************************************************************************)
Placed == [tale : Tale, branch : Nat]
OnePerTale(K) == \A x, y \in K : x.tale = y.tale => x = y
Row == [count : Nat, first : Nat, last : Nat]

Entry(t, x, K) == [thread |-> t, tale |-> x.tale, branch |-> x.branch,
                   index |-> IndexIn(x, K)]
Planned(t, K) == {Entry(t, x, K) : x \in K}
RowFor(K) == IF K = {} THEN NoThread ELSE RowOf(K)

\* A finite set of numbers has a first and a last.
LEMMA FirstAndLast ==
  ASSUME NEW D \in SUBSET Nat, IsFiniteSet(D), D # {}
  PROVE  (\E x \in D : \A y \in D : x <= y) /\ (\E x \in D : \A y \in D : x >= y)
<1> DEFINE Ends(S) == (\E x \in S : \A y \in S : x <= y) /\ (\E x \in S : \A y \in S : x >= y)
           bad == {n \in Nat : \E S \in SUBSET D : S # {} /\ Cardinality(S) = n /\ ~Ends(S)}
<1>1. SUFFICES ASSUME ~Ends(D) PROVE FALSE
  OBVIOUS
<1>2. Cardinality(D) \in bad
  <2>1. Cardinality(D) \in Nat /\ D \in SUBSET D
    BY FS_CardinalityType
  <2>2. \E S \in SUBSET D : S # {} /\ Cardinality(S) = Cardinality(D) /\ ~Ends(S)
    BY <1>1, <2>1, Zenon
  <2> HIDE DEF Ends
  <2> QED  BY <2>1, <2>2
<1>3. \E n \in bad : \A m \in bad : ~(m < n)
  <2> DEFINE less == OpToRel(<, Nat)
  <2>1. IsWellFoundedOn(less, Nat)
    BY NatLessThanWellFounded
  <2>2. bad \subseteq Nat /\ bad # {}
    BY <1>2
  <2>3. \A m, n \in bad : m < n => <<m, n>> \in less
    BY <2>2 DEF OpToRel
  <2> HIDE DEF bad, less
  <2>4. \E n \in bad : \A m \in bad : ~(<<m, n>> \in less)
    BY <2>1, <2>2, WFMin
  <2> QED  BY <2>3, <2>4
<1>4. PICK n \in bad : \A m \in bad : ~(m < n)
  BY <1>3
<1>5. PICK S \in SUBSET D : S # {} /\ Cardinality(S) = n /\ ~Ends(S)
  OBVIOUS
<1>6. PICK x \in S : TRUE
  BY <1>5
<1>7. x \in Nat /\ S \subseteq Nat
  OBVIOUS
<1>8. CASE S \ {x} = {}
  <2>1. S = {x}
    BY <1>8
  <2> QED  BY <1>5, <1>7, <2>1
<1>9. CASE S \ {x} # {}
  <2> DEFINE R == S \ {x}
  <2>1. IsFiniteSet(S)
    BY FS_Subset
  <2>2. Cardinality(R) = Cardinality(S) - 1 /\ IsFiniteSet(R)
    BY <2>1, FS_RemoveElement
  <2>3. Cardinality(R) \in Nat
    BY <2>2, FS_CardinalityType
  <2>4. Cardinality(R) < n
    BY <1>4, <1>5, <2>2, <2>3
  <2>5. Ends(R)
    BY <1>4, <1>9, <2>3, <2>4
  <2>6. PICK lo \in R : \A y \in R : lo <= y
    BY <2>5
  <2>7. PICK hi \in R : \A y \in R : hi >= y
    BY <2>5
  <2>8. \E z \in S : \A y \in S : z <= y
    <3>1. lo <= x => \A y \in S : lo <= y
      BY <2>6
    <3>2. ~(lo <= x) => \A y \in S : x <= y
      BY <1>7, <2>6
    <3> QED  BY <2>6, <3>1, <3>2
  <2>9. \E z \in S : \A y \in S : z >= y
    <3>1. hi >= x => \A y \in S : hi >= y
      BY <2>7
    <3>2. ~(hi >= x) => \A y \in S : x >= y
      BY <1>7, <2>7
    <3> QED  BY <2>7, <3>1, <3>2
  <2> QED  BY <1>5, <2>8, <2>9
<1> QED  BY <1>8, <1>9

LEMMA FewPlaced ==
  ASSUME ThreadAssumption, NEW K \in SUBSET Placed, OnePerTale(K)
  PROVE  IsFiniteSet(K) /\ Cardinality(K) \in Nat
<1> DEFINE tale == [x \in K |-> x.tale]
<1>1. tale \in Injection(K, Tale)
  <2>1. \A x \in K : x.tale \in Tale
    BY DEF Placed
  <2> QED  BY <2>1 DEF Injection, IsInjective, OnePerTale
<1>2. IsFiniteSet(Tale)
  BY DEF ThreadAssumption
<1> HIDE DEF tale
<1> QED  BY <1>1, <1>2, FS_Injection, FS_CardinalityType

\* A thread's row: how many events, from when to when.
LEMMA RowTells ==
  ASSUME ThreadAssumption, NEW K \in SUBSET Placed, OnePerTale(K), K # {}
  PROVE  LET r == RowOf(K) IN
         /\ r \in Row /\ r # NoThread /\ r.count = Cardinality(K)
         /\ \E x \in K : r.first = At[x.tale]
         /\ \E x \in K : r.last = At[x.tale]
         /\ \A x \in K : r.first <= At[x.tale] /\ At[x.tale] <= r.last
<1> DEFINE D == {At[x.tale] : x \in K}
<1>1. IsFiniteSet(K) /\ Cardinality(K) \in Nat
  BY FewPlaced
<1>2. D \subseteq Nat /\ D # {}
  BY DEF ThreadAssumption, Placed
<1>3. IsFiniteSet(D)
  <2> DEFINE date == [x \in K |-> At[x.tale]]
  <2>1. date \in Surjection(K, D)
    BY DEF Surjection
  <2> HIDE DEF date, D
  <2> QED  BY <1>1, <2>1, FS_Surjection
<1>4. Earliest(K) = CHOOSE d \in D : \A x \in K : d <= At[x.tale]
  BY DEF Earliest
<1>5. Latest(K) = CHOOSE d \in D : \A x \in K : d >= At[x.tale]
  BY DEF Latest
<1>6. (\E d \in D : \A x \in K : d <= At[x.tale]) /\ (\E d \in D : \A x \in K : d >= At[x.tale])
  <2> DEFINE E == D
  <2>1. \A x \in K : At[x.tale] \in E
    OBVIOUS
  <2> HIDE DEF E
  <2>2. E = D
    BY DEF E
  <2>3. (\E d \in E : \A y \in E : d <= y) /\ (\E d \in E : \A y \in E : d >= y)
    BY <1>2, <1>3, <2>2, FirstAndLast
  <2> QED  BY <2>1, <2>2, <2>3
<1>7. Earliest(K) \in D /\ \A x \in K : Earliest(K) <= At[x.tale]
  BY <1>4, <1>6
<1>8. Latest(K) \in D /\ \A x \in K : At[x.tale] <= Latest(K)
  BY <1>2, <1>5, <1>6
<1>9. RowOf(K) = [count |-> Cardinality(K), first |-> Earliest(K),
                            last |-> Latest(K)]
  BY DEF RowOf
<1>10. RowOf(K) \in Row
  BY <1>1, <1>2, <1>7, <1>8, <1>9 DEF Row
<1>11. RowOf(K) # NoThread
  BY <1>10 DEF Row, ThreadAssumption
<1> QED  BY <1>7, <1>8, <1>9, <1>10, <1>11

\* Events are numbered by date within a branch.
LEMMA IndexTells ==
  ASSUME ThreadAssumption, NEW K \in SUBSET Placed, OnePerTale(K), NEW x \in K
  PROVE  /\ IndexIn(x, K) \in 1..Cardinality({y \in K : y.branch = x.branch})
         /\ \A y \in K : y.branch = x.branch /\ At[x.tale] < At[y.tale]
                           => IndexIn(x, K) < IndexIn(y, K)
<1> DEFINE upTo(y) == {f \in K : f.branch = y.branch /\ At[f.tale] <= At[y.tale]}
           branch == {y \in K : y.branch = x.branch}
<1>0. IsFiniteSet(K) /\ \A y \in K : At[y.tale] \in Nat
  BY FewPlaced DEF ThreadAssumption, Placed
<1>1. \A y \in K : IndexIn(y, K) = Cardinality(upTo(y))
  BY DEF IndexIn
<1>2. \A S \in SUBSET K : IsFiniteSet(S) /\ Cardinality(S) \in Nat
  BY <1>0, FS_Subset, FS_CardinalityType
<1>3. Cardinality(upTo(x)) # 0
  <2>1. x \in upTo(x)
    BY <1>0
  <2>2. upTo(x) \in SUBSET K /\ upTo(x) # {}
    BY <2>1
  <2> HIDE DEF upTo
  <2> QED  BY <1>2, <2>2, FS_EmptySet
<1>4. Cardinality(upTo(x)) <= Cardinality(branch)
  <2>1. upTo(x) \subseteq branch /\ branch \in SUBSET K
    OBVIOUS
  <2> HIDE DEF upTo, branch
  <2> QED  BY <1>2, <2>1, FS_Subset
<1>5. ASSUME NEW y \in K, y.branch = x.branch, At[x.tale] < At[y.tale]
      PROVE  Cardinality(upTo(x)) < Cardinality(upTo(y))
  <2>1. upTo(x) \subseteq upTo(y)
    BY <1>0, <1>5
  <2>2. y \in upTo(y) /\ y \notin upTo(x)
    BY <1>0, <1>5
  <2>3. upTo(x) \in SUBSET K /\ upTo(y) \in SUBSET K
    OBVIOUS
  <2> DEFINE A == upTo(x)
             B == upTo(y)
  <2> HIDE DEF A, B
  <2>4. A \subseteq B /\ A # B /\ IsFiniteSet(B) /\ Cardinality(A) \in Nat /\ Cardinality(B) \in Nat
    BY <1>2, <2>1, <2>2, <2>3 DEF A, B
  <2>5. Cardinality(A) <= Cardinality(B) /\ Cardinality(A) # Cardinality(B)
    BY <2>4, FS_Subset
  <2>6. Cardinality(A) < Cardinality(B)
    BY <2>4, <2>5
  <2> QED  BY <2>6 DEF A, B
<1>6. Cardinality(upTo(x)) \in Nat /\ Cardinality(branch) \in Nat
  BY <1>2
<1> HIDE DEF upTo, branch
<1>7. IndexIn(x, K) \in 1..Cardinality(branch)
  BY <1>1, <1>3, <1>4, <1>6
<1>8. \A y \in K : y.branch = x.branch /\ At[x.tale] < At[y.tale]
                     => IndexIn(x, K) < IndexIn(y, K)
  BY <1>1, <1>5
<1> QED  BY <1>7, <1>8 DEF branch

-----------------------------------------------------------------------------
(***************************************************************************)
(* The invariant.                                                          *)
(***************************************************************************)
Memory == [order : Seq(Thread), held : [Thread -> SUBSET Placed], loaded : [Thread -> SUBSET Placed],
           kin : {{}, Lineage}, topical : [Tale -> SUBSET UNION {Topical[s] : s \in Tale}]]

Stored ==
  /\ events \subseteq [thread : Thread, tale : Tale, branch : Nat, index : Nat]
  /\ \A e, f \in events : e.thread = f.thread /\ e.tale = f.tale => e = f
  /\ threads \in [Thread -> Row \cup {NoThread}]
  /\ \A e \in events : threads[e.thread] # NoThread

\* The engine only adds to what it read, one event for each story.
Working ==
  /\ pass = "idle" <=> step = "idle"
  /\ step \in {"idle", "load", "match", "write", "select"}
  /\ step \in {"load", "match"} => batch \in Seq(Tale)
  /\ step = "match" => /\ memory \in Memory
                       /\ \A t \in Thread : /\ memory.loaded[t] \subseteq memory.held[t]
                                            /\ OnePerTale(memory.held[t])
                                            /\ memory.held[t] # {} => t \in ToSet(memory.order)

Statements4 ==
  /\ step # "write" => writes = <<>>
  /\ step = "write" =>
       /\ DOMAIN writes = 1..4
       /\ writes[1] \subseteq [op : {"thread"}, thread : Thread, row : Row]
       /\ \A w \in writes[2] : w.op = "link" /\ w.thread \in Thread
       /\ writes[3] \subseteq [op : {"event"}, thread : Thread, tale : Tale, branch : Nat, index : Nat]
       /\ writes[4] \subseteq [op : {"purge"}, thread : Thread, tale : Tale]

\* A thread whose rows are what one set of events comes to ...
Settled(t) ==
  \E K \in SUBSET Placed :
    /\ OnePerTale(K)
    /\ threads[t] = RowFor(K) /\ EventsIn(t) = Planned(t, K)

\* ... or come to it when what is pending is sent.
RowStmt(t, K) == [op |-> "thread", thread |-> t, row |-> RowOf(K)]
EventStmt(t, x, K) == [op |-> "event", thread |-> t, tale |-> x.tale, branch |-> x.branch,
                       index |-> IndexIn(x, K)]

RowComes(t, K) ==
  /\ threads[t] = RowFor(K) \/ (K # {} /\ RowStmt(t, K) \in writes[1])
  /\ \A w \in writes[1] : w.thread = t => K # {} /\ w = RowStmt(t, K)
EventsCome(t, K) ==
  /\ \A w \in writes[3] : w.thread = t => \E x \in K : w = EventStmt(t, x, K)
  /\ \A x \in K : Entry(t, x, K) \in events \/ EventStmt(t, x, K) \in writes[3]
OthersGo(t, K) ==
  /\ \A w \in writes[4] : w.thread = t => \A x \in K : w.tale # x.tale
  /\ \A e \in EventsIn(t) :
       \/ e \in Planned(t, K)
       \/ \E x \in K : x.tale = e.tale /\ EventStmt(t, x, K) \in writes[3]
       \/ \E w \in writes[4] : w.thread = t /\ w.tale = e.tale

OnCourse(t) ==
  \E K \in SUBSET Placed :
    OnePerTale(K) /\ RowComes(t, K) /\ EventsCome(t, K) /\ OthersGo(t, K)

OnTime == \A t \in Thread \ unsound : IF step = "write" THEN OnCourse(t) ELSE Settled(t)

\* While nothing failed, no two stories merged or split meet in a thread.
Here(t) ==
  {e.tale : e \in EventsIn(t)}
  \cup (IF step = "match" THEN {x.tale : x \in memory.held[t]} ELSE {})
  \cup (IF step = "write" THEN {w.tale : w \in {v \in writes[3] : v.thread = t}} ELSE {})
Apart(T) == \A r, s \in T : {r, s} \notin Lineage

Looked(t) ==
  \/ Read(t) \subseteq memory.held[t]
  \/ \A i \in 1..Len(batch), e \in EventsIn(t) :
       {batch[i], e.tale} \notin Lineage
KinApart ==
  outages = 0 =>
    /\ \A t \in Thread : Apart(Here(t))
    /\ step = "match" => memory.kin = Lineage /\ \A t \in Thread : Looked(t)

TInv == Stored /\ Working /\ Statements4 /\ OnTime /\ KinApart /\ outages \in Nat

-----------------------------------------------------------------------------
\* A thread's entries are as many as the events they come from.
LEMMA EntriesCount ==
  ASSUME ThreadAssumption, NEW t, NEW K \in SUBSET Placed, OnePerTale(K),
         NEW J \in SUBSET K
  PROVE  Cardinality({Entry(t, x, K) : x \in J}) = Cardinality(J)
<1> DEFINE E == {Entry(t, x, K) : x \in J}
           entry == [x \in J |-> Entry(t, x, K)]
<1>1. IsFiniteSet(J)
  BY FewPlaced, FS_Subset
<1>2. \A x, y \in J : Entry(t, x, K) = Entry(t, y, K) => x = y
  BY DEF Entry, OnePerTale
<1>3. entry \in [J -> E] /\ \A x \in J : entry[x] = Entry(t, x, K)
  OBVIOUS
<1>4. \A e \in E : \E x \in J : entry[x] = e
  OBVIOUS
<1> HIDE DEF entry, E
<1>5. entry \in Surjection(J, E)
  BY <1>3, <1>4 DEF Surjection
<1>6. entry \in Injection(J, E)
  BY <1>2, <1>3 DEF Injection, IsInjective
<1>7. Cardinality(E) = Cardinality(J)
  BY <1>1, <1>5, <1>6, FS_Surjection
<1> QED  BY <1>7 DEF E

\* Settled rows tell their events.
LEMMA SettledTells ==
  ASSUME ThreadAssumption, Stored, NEW t \in Thread, Settled(t),
         outages = 0 => Apart({e.tale : e \in EventsIn(t)}), outages \in Nat
  PROVE  TellsItsEvents(t)
<1> DEFINE evs == EventsIn(t)
           dates == {At[e.tale] : e \in evs}
<1>1. PICK K \in SUBSET Placed :
         OnePerTale(K) /\ threads[t] = RowFor(K) /\ evs = Planned(t, K)
  BY DEF Settled
<1>3. evs # {} <=> K # {}
  BY <1>1 DEF Planned
<1>4. evs # {} <=> threads[t] # NoThread
  BY <1>1, <1>3, RowTells DEF RowFor
<1>5. (\A x \in K : At[x.tale] \in dates) /\ \A d \in dates : \E x \in K : d = At[x.tale]
  <2>1. \A x \in K : Entry(t, x, K) \in evs /\ Entry(t, x, K).tale = x.tale
    BY <1>1 DEF Planned, Entry
  <2>2. \A e \in evs : \E x \in K : e = Entry(t, x, K)
    BY <1>1 DEF Planned
  <2> HIDE DEF evs
  <2> QED  BY <2>1, <2>2
<1>6. ASSUME evs # {}
      PROVE  /\ threads[t].count = Cardinality(evs)
             /\ {threads[t].first, threads[t].last} \subseteq dates
             /\ \A d \in dates : threads[t].first <= d /\ d <= threads[t].last
  <2>1. threads[t] = RowOf(K) /\ K # {}
    BY <1>1, <1>3, <1>6 DEF RowFor
  <2>2. Cardinality(evs) = Cardinality(K)
    <3>1. Cardinality({Entry(t, x, K) : x \in K}) = Cardinality(K)
      BY <1>1, EntriesCount
    <3> QED  BY <1>1, <3>1 DEF Planned
  <2> DEFINE r == RowOf(K)
  <2>3. r.count = Cardinality(K)
    BY <1>1, <2>1, RowTells
  <2>4. (\E x \in K : r.first = At[x.tale]) /\ (\E x \in K : r.last = At[x.tale])
    BY <1>1, <2>1, RowTells
  <2>5. \A x \in K : r.first <= At[x.tale] /\ At[x.tale] <= r.last
    BY <1>1, <2>1, RowTells
  <2> HIDE DEF r, dates, evs
  <2> QED  BY <1>5, <2>1, <2>2, <2>3, <2>4, <2>5 DEF r
<1>7. ASSUME NEW e \in evs
      PROVE  /\ e.index \in 1..Cardinality(SameBranch(e, evs))
             /\ \A f \in SameBranch(e, evs) : At[e.tale] < At[f.tale] => e.index < f.index
  <2>1. PICK x \in K : e = Entry(t, x, K)
    BY <1>1 DEF Planned
  <2> DEFINE J == {y \in K : y.branch = x.branch}
  <2>2. SameBranch(e, evs) = {Entry(t, y, K) : y \in J}
    BY <1>1, <2>1 DEF SameBranch, Planned, Entry
  <2>3. Cardinality(SameBranch(e, evs)) = Cardinality(J)
    <3>1. J \in SUBSET K
      OBVIOUS
    <3> HIDE DEF J
    <3>2. Cardinality({Entry(t, y, K) : y \in J}) = Cardinality(J)
      BY <1>1, <3>1, EntriesCount
    <3> QED  BY <2>2, <3>2
  <2>4. IndexIn(x, K) \in 1..Cardinality(J)
    BY <1>1, IndexTells
  <2>5. \A y \in J : At[x.tale] < At[y.tale] => IndexIn(x, K) < IndexIn(y, K)
    BY <1>1, IndexTells
  <2>6. e.tale = x.tale /\ e.index = IndexIn(x, K)
    BY <2>1 DEF Entry
  <2>7. \A y \in J : Entry(t, y, K).tale = y.tale /\ Entry(t, y, K).index = IndexIn(y, K)
    BY DEF Entry
  <2>8. \A f \in SameBranch(e, evs) : At[e.tale] < At[f.tale] => e.index < f.index
    BY <2>2, <2>5, <2>6, <2>7
  <2> HIDE DEF J
  <2> QED  BY <2>3, <2>4, <2>6, <2>8
<1>8. outages > 0 \/ \A e, f \in evs : {e.tale, f.tale} \notin Lineage
  BY DEF Apart
<1> QED  BY <1>4, <1>6, <1>7, <1>8 DEF TellsItsEvents

-----------------------------------------------------------------------------
\* The orders of a finite set are sequences of all of it.
LEMMA Orders ==
  ASSUME NEW S, IsFiniteSet(S), NEW q \in SetToSeqs(S)
  PROVE  q \in Seq(S) /\ ToSet(q) = S
<1>1. Cardinality(S) \in Nat
  BY FS_CardinalityType
<1> DEFINE n == Cardinality(S)
<1>2. q \in [1..n -> S] /\ \A i, j \in 1..n : i # j => q[i] # q[j]
  BY DEF SetToSeqs
<1>3. q \in Injection(1..n, S)
  BY <1>2 DEF Injection, IsInjective
<1>4. IsFiniteSet(1..n) /\ Cardinality(1..n) = n
  BY <1>1, FS_Interval
<1> HIDE DEF n
<1>5. q \in Surjection(1..n, S)
  BY <1>3, <1>4, FS_Injection DEF n
<1>6. q \in Seq(S)
  BY <1>1, <1>2 DEF n
<1>7. DOMAIN q = 1..n /\ \A s \in S : \E i \in 1..n : q[i] = s
  BY <1>2, <1>5 DEF Surjection
<1>8. ToSet(q) = S
  BY <1>2, <1>7 DEF ToSet
<1> QED  BY <1>6, <1>8

\* Steps that send nothing and come from where nothing is to be sent.
LEMMA NothingSent ==
  ASSUME TInv, step # "write", step' # "write", unsound \subseteq unsound',
         UNCHANGED <<threads, events>>, writes' = <<>>
  PROVE  Stored' /\ Statements4' /\ OnTime'
<1>1. Stored'
  BY DEF TInv, Stored
<1>2. Statements4'
  BY DEF Statements4
<1>3. ASSUME NEW t \in Thread \ unsound' PROVE Settled(t)'
  <2>1. Settled(t)
    BY <1>3 DEF TInv, OnTime
  <2> QED  BY <2>1 DEF Settled, EventsIn
<1>4. OnTime'
  BY <1>3 DEF OnTime
<1> QED  BY <1>1, <1>2, <1>4

\* Away from a match and from statements, only the rows hold events.
LEMMA OnlyRows ==
  ASSUME TInv, UNCHANGED events, step' \notin {"match", "write"}, outages' \in Nat,
         outages' = 0 => outages = 0
  PROVE  KinApart'
<1>1. \A t \in Thread : Here(t)' \subseteq Here(t)
  BY DEF Here, EventsIn
<1>2. ASSUME outages' = 0 PROVE \A t \in Thread : Apart(Here(t))'
  BY <1>1, <1>2 DEF TInv, KinApart, Apart
<1> QED  BY <1>2 DEF KinApart

LEMMA BeginStep ==
  ASSUME ThreadAssumption, TInv, BeginPass
  PROVE  TInv'
<1>1. step = "idle" /\ writes = <<>>
  BY DEF TInv, Working, Statements4, BeginPass
<1>2. /\ step' = "load" /\ pass' = "live"
      /\ UNCHANGED <<threads, events, writes, unsound, outages>>
  BY DEF BeginPass
<1>3. Stored' /\ Statements4' /\ OnTime'
  BY <1>1, <1>2, NothingSent
<1>4. KinApart' /\ outages' \in Nat
  BY <1>2, OnlyRows DEF TInv
<1>5. PICK front \in SUBSET Tale :
        \E first \in SetToSeqs(front), popped \in SetToSeqs(OnDisk \ front) :
          batch' = first \o popped
  BY DEF BeginPass
<1>6. PICK first \in SetToSeqs(front), popped \in SetToSeqs(OnDisk \ front) :
        batch' = first \o popped
  BY <1>5
<1>7. IsFiniteSet(front) /\ IsFiniteSet(OnDisk \ front) /\ OnDisk \ front \subseteq Tale
  BY FS_Subset DEF ThreadAssumption
<1>8. first \in Seq(front) /\ popped \in Seq(OnDisk \ front)
  BY <1>7, Orders
<1>9. first \in Seq(Tale) /\ popped \in Seq(Tale)
  BY <1>7, <1>8
<1>10. batch' \in Seq(Tale)
  BY <1>6, <1>9
<1>11. Working'
  BY <1>2, <1>10 DEF Working
<1> QED  BY <1>3, <1>4, <1>11 DEF TInv

LEMMA SelectStep ==
  ASSUME ThreadAssumption, TInv, SelectAny
  PROVE  TInv'
<1>1. PICK lost : Select(lost)
  BY DEF SelectAny
<1>2. step = "select" /\ UNCHANGED <<threads, events, writes, unsound>>
  BY <1>1 DEF Select
<1>3. pass # "idle" /\ writes = <<>>
  BY <1>2 DEF TInv, Working, Statements4
<1>4. \/ step' = "idle" /\ pass' = "idle"
      \/ step' = "load" /\ pass' = pass
  BY <1>1 DEF Select
<1>5. outages' \in Nat /\ (outages' = 0 => outages = 0)
  BY <1>1 DEF TInv, Select, Outage
<1>6. Stored' /\ Statements4' /\ OnTime'
  BY <1>2, <1>3, <1>4, NothingSent
<1>7. KinApart'
  BY <1>2, <1>4, <1>5, OnlyRows
<1>8. batch' \in SetToSeqs(Unthreaded \ lost)
  BY <1>1 DEF Select
<1>9. Unthreaded \ lost \subseteq Tale /\ IsFiniteSet(Tale)
  BY DEF Unthreaded, ThreadAssumption
<1>10. batch' \in Seq(Unthreaded \ lost)
  BY <1>8, <1>9, FS_Subset, Orders
<1>11. batch' \in Seq(Tale)
  BY <1>9, <1>10
<1>12. Working'
  BY <1>3, <1>4, <1>11 DEF TInv, Working
<1> QED  BY <1>5, <1>6, <1>7, <1>12 DEF TInv

\* What the engine reads of a thread: its events, one for each story.
LEMMA ReadIsPlaced ==
  ASSUME Stored, NEW t \in Thread
  PROVE  /\ Read(t) \in SUBSET Placed /\ OnePerTale(Read(t))
         /\ \A x \in Read(t) : \E e \in EventsIn(t) : e.tale = x.tale /\ e.branch = x.branch
         /\ \A e \in EventsIn(t) : [tale |-> e.tale, branch |-> e.branch] \in Read(t)
<1>1. \A e \in EventsIn(t) : e.tale \in Tale /\ e.branch \in Nat /\ e.thread = t /\ e \in events
  BY DEF Stored, EventsIn
<1>2. \A x \in Read(t) : \E e \in EventsIn(t) : x = [tale |-> e.tale, branch |-> e.branch]
  BY DEF Read
<1>3. Read(t) \in SUBSET Placed
  BY <1>1, <1>2 DEF Placed
<1>4. OnePerTale(Read(t))
  BY <1>1, <1>2 DEF OnePerTale, Stored
<1> QED  BY <1>2, <1>3, <1>4 DEF Read

LEMMA LoadStep ==
  ASSUME ThreadAssumption, TInv, LoadAny
  PROVE  TInv'
<1>1. PICK lost : Load(lost)
  BY DEF LoadAny
<1> DEFINE cands == IF "threads" \in lost THEN {} ELSE Candidates(ToSet(batch))
           loaded == [t \in Thread |-> IF t \in cands /\ "events" \notin lost
                                       THEN Read(t) ELSE {}]
           kin == IF "lineage" \in lost THEN {} ELSE Lineage
           topical == [s \in Tale |-> IF "topics" \in lost THEN {} ELSE Topical[s]]
<1>2. PICK order \in Newest(cands) :
        memory' = [order |-> order, held |-> loaded, loaded |-> loaded, kin |-> kin, topical |-> topical]
  BY <1>1 DEF Load
<1>3. /\ step = "load" /\ step' = "match" /\ UNCHANGED <<threads, events, pass, batch, writes, unsound>>
  BY <1>1 DEF Load
<1>4. outages' \in Nat /\ (outages' = 0 => outages = 0 /\ lost = {})
  BY <1>1 DEF TInv, Load, Outage
<1>5. writes' = <<>> /\ batch' = batch /\ batch \in Seq(Tale)
  BY <1>3 DEF TInv, Statements4, Working
<1>6. Stored' /\ Statements4' /\ OnTime'
  BY <1>3, <1>5, NothingSent
<1>7. order \in Seq(Thread) /\ ToSet(order) = cands /\ cands \subseteq Thread
  <2>1. cands \subseteq Thread
    BY DEF Candidates
  <2>2. order \in SetToSeqs(cands)
    BY DEF Newest
  <2>3. IsFiniteSet(cands)
    BY <2>1, FS_Subset DEF ThreadAssumption
  <2> HIDE DEF cands
  <2> QED  BY <2>1, <2>2, <2>3, Orders
<1>8. \A t \in Thread : /\ loaded[t] \in SUBSET Placed /\ OnePerTale(loaded[t])
                        /\ loaded[t] # {} => t \in cands
                        /\ loaded[t] \subseteq Read(t)
  BY ReadIsPlaced DEF TInv, OnePerTale
<1>9. memory' \in Memory
  <2>1. loaded \in [Thread -> SUBSET Placed]
    BY <1>8
  <2>2. topical \in [Tale -> SUBSET UNION {Topical[s] : s \in Tale}]
    OBVIOUS
  <2>3. kin \in {{}, Lineage}
    OBVIOUS
  <2> HIDE DEF loaded, topical, kin
  <2> QED  BY <1>2, <1>7, <2>1, <2>2, <2>3 DEF Memory
<1>10. /\ memory'.order = order /\ memory'.held = loaded /\ memory'.loaded = loaded
       /\ memory'.kin = kin
  BY <1>2
<1>11. Working'
  <2>1. \A t \in Thread : /\ memory'.loaded[t] \subseteq memory'.held[t] /\ OnePerTale(memory'.held[t])
                          /\ memory'.held[t] # {} => t \in ToSet(memory'.order)
    BY <1>7, <1>8, <1>10
  <2> HIDE DEF loaded
  <2> QED  BY <1>3, <1>5, <1>9, <2>1 DEF TInv, Working, OnePerTale, ToSet
<1>12. KinApart'
  <2> SUFFICES ASSUME outages' = 0
               PROVE  /\ \A t \in Thread : Apart(Here(t)')
                      /\ memory'.kin = Lineage /\ \A t \in Thread : Looked(t)'
    BY DEF KinApart, Apart
  <2>1. outages = 0 /\ lost = {}
    BY <1>4
  <2>2. ASSUME NEW t \in Thread PROVE Apart(Here(t)')
    <3>1. {x.tale : x \in loaded[t]} \subseteq {e.tale : e \in EventsIn(t)}
      BY <1>8, ReadIsPlaced DEF TInv
    <3>2. Here(t)' \subseteq Here(t)
      BY <1>3, <1>10, <3>1 DEF Here, EventsIn
    <3> QED  BY <2>1, <3>2 DEF TInv, KinApart, Apart
  <2>3. ASSUME NEW t \in Thread PROVE Looked(t)'
    <3>1. CASE t \in cands
      <4>1. loaded[t] = Read(t)
        BY <2>1, <3>1
      <4> QED  BY <1>3, <1>10, <4>1 DEF Looked, Read, EventsIn
    <3>2. CASE t \notin cands
      <4>1. ASSUME NEW i \in 1..Len(batch), NEW e \in EventsIn(t)
            PROVE  {batch[i], e.tale} \notin Lineage
        <5>1. threads[t] # NoThread
          BY <4>1 DEF TInv, Stored, EventsIn
        <5>2. batch[i] \in ToSet(batch)
          BY <1>5 DEF ToSet
        <5> QED  BY <2>1, <3>2, <4>1, <5>1, <5>2 DEF Candidates
      <4> QED  BY <1>3, <4>1 DEF Looked, EventsIn
    <3> QED  BY <3>1, <3>2
  <2> QED  BY <1>10, <2>1, <2>2, <2>3
<1> QED  BY <1>4, <1>6, <1>11, <1>12 DEF TInv

\* What placing one story does to the engine's memory.
LEMMA PlaceAdds ==
  ASSUME ThreadAssumption, NEW m \in Memory, NEW s \in Tale,
         \A t \in Thread : OnePerTale(m.held[t]) /\ (m.held[t] # {} => t \in ToSet(m.order))
  PROVE  LET n == Place(m, s) IN
         /\ n \in Memory /\ n.loaded = m.loaded /\ n.kin = m.kin
         /\ \A t \in Thread :
              /\ m.held[t] \subseteq n.held[t] /\ OnePerTale(n.held[t])
              /\ n.held[t] # {} => t \in ToSet(n.order)
              /\ \A x \in n.held[t] \ m.held[t] : x.tale = s /\ ~Known(m, s, t)
<1> DEFINE n == Place(m, s)
           hits == Hits(m, s)
<1>0. /\ m.order \in Seq(Thread) /\ m.held \in [Thread -> SUBSET Placed]
      /\ m.loaded \in [Thread -> SUBSET Placed] /\ m.kin \in {{}, Lineage}
      /\ m.topical \in [Tale -> SUBSET UNION {Topical[r] : r \in Tale}]
  BY DEF Memory
<1>1. CASE n = m
  BY <1>1
<1>2. CASE n = Attach(m, s, hits)
  <2> DEFINE at(t) == CHOOSE i \in hits : m.order[i] = t
             joins(t) == (\E i \in hits : m.order[i] = t) /\ ~Known(m, s, t)
             held == [t \in Thread |-> IF joins(t)
                        THEN m.held[t] \cup {[tale |-> s, branch |-> Rank(hits, at(t))]}
                        ELSE m.held[t]]
  <2>1. n = [m EXCEPT !.held = held]
    BY <1>2 DEF Attach
  <2>2. \A i : Rank(hits, i) \in Nat
    <3>0. DOMAIN m.order = 1..Len(m.order) /\ Len(m.order) \in Nat
      BY <1>0
    <3>1. hits \subseteq 1..Len(m.order) /\ Len(m.order) \in Nat
      BY <3>0 DEF Hits
    <3>2. IsFiniteSet(1..Len(m.order))
      <4> DEFINE len == Len(m.order)
      <4>1. 1 \in Int /\ len \in Int
        BY <3>0
      <4> HIDE DEF len
      <4>2. IsFiniteSet(1..len)
        BY <4>1, FS_Interval
      <4> QED  BY <4>2 DEF len
    <3>3. \A S \in SUBSET hits : Cardinality(S) \in Nat
      BY <3>1, <3>2, FS_Subset, FS_CardinalityType
    <3> QED  BY <3>3 DEF Rank
  <2>3. ASSUME NEW t \in Thread
        PROVE  /\ m.held[t] \subseteq held[t] /\ OnePerTale(held[t]) /\ held[t] \in SUBSET Placed
               /\ held[t] # {} => t \in ToSet(m.order)
               /\ \A x \in held[t] \ m.held[t] : x.tale = s /\ ~Known(m, s, t)
    <3>1. CASE ~joins(t)
      BY <1>0, <3>1
    <3>2. CASE joins(t)
      <4> DEFINE new == [tale |-> s, branch |-> Rank(hits, at(t))]
      <4>1. new \in Placed /\ new.tale = s
        BY <2>2 DEF Placed
      <4>2. held[t] = m.held[t] \cup {new}
        BY <3>2
      <4>3. \A x \in m.held[t] : x.tale # s
        BY <3>2 DEF Known
      <4>4. t \in ToSet(m.order)
        BY <3>2 DEF Hits, ToSet
      <4>5. ~Known(m, s, t)
        BY <3>2
      <4> HIDE DEF new, held, joins
      <4> QED  BY <1>0, <4>1, <4>2, <4>3, <4>4, <4>5 DEF OnePerTale
    <3> QED  BY <3>1, <3>2
  <2>4. held \in [Thread -> SUBSET Placed]
    BY <2>3
  <2> HIDE DEF held
  <2>5. /\ n \in Memory /\ n.held = held /\ n.order = m.order /\ n.loaded = m.loaded
        /\ n.kin = m.kin
    BY <1>0, <2>1, <2>4 DEF Memory
  <2> HIDE DEF n
  <2> QED  BY <2>3, <2>5 DEF n
<1>3. CASE n = Spawn(m, s) /\ Lead[s] # NoThread /\ Lead[s] \notin ToSet(m.order)
  <2> DEFINE lead == Lead[s]
             new == [tale |-> s, branch |-> 1]
             held == [m.held EXCEPT ![lead] = {new}]
             order == Append(m.order, lead)
  <2>1. lead \in Thread /\ new \in Placed /\ new.tale = s
    BY <1>3 DEF ThreadAssumption, Placed
  <2>2. m.held[lead] = {}
    BY <1>3, <2>1
  <2>3. n = [m EXCEPT !.order = order, !.held = held]
    BY <1>3 DEF Spawn, Memory
  <2>4. order \in Seq(Thread) /\ ToSet(m.order) \cup {lead} \subseteq ToSet(order)
    <3>1. /\ Len(order) = Len(m.order) + 1 /\ \A i \in 1..Len(m.order) : order[i] = m.order[i]
          /\ order[Len(order)] = lead /\ order \in Seq(Thread) /\ Len(m.order) \in Nat
          /\ DOMAIN m.order = 1..Len(m.order) /\ DOMAIN order = 1..Len(order)
      BY <1>0, <2>1
    <3> HIDE DEF order
    <3> QED  BY <3>1 DEF ToSet
  <2>5. held \in [Thread -> SUBSET Placed]
    BY <1>0, <2>1
  <2>6. ASSUME NEW t \in Thread
        PROVE  /\ m.held[t] \subseteq held[t] /\ OnePerTale(held[t])
               /\ held[t] # {} => t \in ToSet(m.order) \cup {lead}
               /\ \A x \in held[t] \ m.held[t] : x.tale = s /\ ~Known(m, s, t)
    <3>1. CASE t = lead
      <4>1. held[t] = {new}
        BY <1>0, <3>1
      <4>2. ~Known(m, s, t)
        BY <2>2, <3>1 DEF Known
      <4> QED  BY <2>1, <2>2, <3>1, <4>1, <4>2 DEF OnePerTale
    <3>2. CASE t # lead
      BY <1>0, <3>2
    <3> QED  BY <3>1, <3>2
  <2> HIDE DEF held, order
  <2>7. /\ n \in Memory /\ n.held = held /\ n.order = order /\ n.loaded = m.loaded
        /\ n.kin = m.kin
    BY <1>0, <2>3, <2>4, <2>5 DEF Memory
  <2> HIDE DEF n, lead
  <2> QED  BY <2>4, <2>6, <2>7 DEF n
<1>4. \/ n = m
      \/ n = Attach(m, s, hits)
      \/ n = Spawn(m, s) /\ Lead[s] # NoThread /\ Lead[s] \notin ToSet(m.order)
  BY DEF Place
<1> QED  BY <1>1, <1>2, <1>3, <1>4

LEMMA MatchStep ==
  ASSUME ThreadAssumption, TInv, MatchNext
  PROVE  TInv'
<1>1. PICK s \in Tale : Match(s)
  BY DEF MatchNext
<1>2. /\ step = "match" /\ step' = "match" /\ batch # <<>> /\ s = Head(batch)
      /\ memory' = Place(memory, s) /\ batch' = Tail(batch)
      /\ UNCHANGED <<threads, events, pass, writes, unsound, outages>>
  BY <1>1 DEF Match
<1>3. /\ memory \in Memory /\ batch \in Seq(Tale) /\ writes = <<>>
      /\ \A t \in Thread : /\ memory.loaded[t] \subseteq memory.held[t]
                           /\ OnePerTale(memory.held[t])
                           /\ memory.held[t] # {} => t \in ToSet(memory.order)
  BY <1>2 DEF TInv, Working, Statements4
<1>4. Stored' /\ Statements4' /\ OnTime'
  BY <1>2, <1>3, NothingSent
<1>5. /\ memory' \in Memory /\ memory'.loaded = memory.loaded /\ memory'.kin = memory.kin
      /\ \A t \in Thread :
           /\ memory.held[t] \subseteq memory'.held[t] /\ OnePerTale(memory'.held[t])
           /\ memory'.held[t] # {} => t \in ToSet(memory'.order)
           /\ \A x \in memory'.held[t] \ memory.held[t] : x.tale = s /\ ~Known(memory, s, t)
  BY <1>2, <1>3, PlaceAdds
<1>6. /\ batch' \in Seq(Tale) /\ Len(batch) \in Nat /\ Len(batch) > 0 /\ batch[1] = s
      /\ Len(batch') = Len(batch) - 1
      /\ \A i \in 1..Len(batch') : batch'[i] = batch[i + 1] /\ i + 1 \in 1..Len(batch)
  BY <1>2, <1>3
<1>7. Working'
  <2>1. \A t \in Thread : memory'.loaded[t] \subseteq memory'.held[t]
    BY <1>3, <1>5
  <2> QED  BY <1>2, <1>5, <1>6, <2>1 DEF TInv, Working, OnePerTale, ToSet
<1>8. KinApart'
  <2> SUFFICES ASSUME outages' = 0
               PROVE  /\ \A t \in Thread : Apart(Here(t)')
                      /\ memory'.kin = Lineage /\ \A t \in Thread : Looked(t)'
    BY DEF KinApart, Apart
  <2>1. outages = 0 /\ memory.kin = Lineage /\ memory'.kin = Lineage
    BY <1>2, <1>5 DEF TInv, KinApart
  <2>2. (\A t \in Thread : Apart(Here(t))) /\ \A t \in Thread : Looked(t)
    BY <1>2, <2>1 DEF TInv, KinApart
  <2>3. ASSUME NEW t \in Thread PROVE Apart(Here(t)')
    <3> DEFINE told == {e.tale : e \in EventsIn(t)}
               old == {x.tale : x \in memory.held[t]}
               new == {x.tale : x \in memory'.held[t]}
    <3>1. Here(t) = told \cup old /\ Here(t)' = told \cup new
      BY <1>2 DEF Here, EventsIn
    <3>2. Apart(told \cup old)
      BY <2>2, <3>1
    <3>3. CASE memory'.held[t] = memory.held[t]
      BY <3>1, <3>2, <3>3
    <3>4. CASE memory'.held[t] # memory.held[t]
      <4>1. ~Known(memory, s, t)
        BY <1>5, <3>4
      <4>2. new \subseteq old \cup {s}
        BY <1>5
      <4>3. \A r \in old : {s, r} \notin Lineage
        BY <2>1, <4>1 DEF Known
      <4>4. \A r \in told : {s, r} \notin Lineage
        <5>1. CASE Read(t) \subseteq memory.held[t]
          <6>1. told \subseteq old
            BY <5>1, ReadIsPlaced DEF TInv
          <6> QED  BY <4>3, <6>1
        <5>2. CASE \A i \in 1..Len(batch), e \in EventsIn(t) : {batch[i], e.tale} \notin Lineage
          BY <1>6, <5>2
        <5> QED  BY <2>2, <5>1, <5>2 DEF Looked
      <4>5. {s, s} \notin Lineage
        <5>1. {s, s} = {s}
          OBVIOUS
        <5> QED  BY <5>1 DEF ThreadAssumption
      <4> DEFINE before == told \cup old
                 after == told \cup new
      <4>6. \A p \in after : p = s \/ p \in before
        BY <4>2
      <4>7. \A q \in before : {s, q} \notin Lineage
        BY <4>3, <4>4
      <4>8. \A p, r \in before : {p, r} \notin Lineage
        BY <3>2 DEF Apart
      <4>9. Apart(after)
        <5> HIDE DEF before, after
        <5> SUFFICES ASSUME NEW p \in after, NEW r \in after
                     PROVE  {p, r} \notin Lineage
          BY DEF Apart
        <5>1. CASE p = s /\ r = s
          BY <4>5, <5>1
        <5>2. CASE p = s /\ r \in before
          BY <4>7, <5>2
        <5>3. CASE p \in before /\ r = s
          <6>1. {p, r} = {r, p}
            OBVIOUS
          <6> QED  BY <4>7, <5>3, <6>1
        <5>4. CASE p \in before /\ r \in before
          BY <4>8, <5>4
        <5> QED  BY <4>6, <5>1, <5>2, <5>3, <5>4
      <4> QED  BY <3>1, <4>9
    <3> QED  BY <3>3, <3>4
  <2>4. ASSUME NEW t \in Thread PROVE Looked(t)'
    <3>1. Read(t)' = Read(t) /\ EventsIn(t)' = EventsIn(t)
      BY <1>2 DEF Read, EventsIn
    <3>2. CASE Read(t) \subseteq memory.held[t]
      BY <1>5, <3>1, <3>2 DEF Looked
    <3>3. CASE \A i \in 1..Len(batch), e \in EventsIn(t) : {batch[i], e.tale} \notin Lineage
      BY <1>6, <3>1, <3>3 DEF Looked
    <3> QED  BY <2>2, <3>2, <3>3 DEF Looked
  <2> QED  BY <2>1, <2>3, <2>4
<1> QED  BY <1>2, <1>4, <1>7, <1>8 DEF TInv

\* The statements of a pass: of each thread with an event, what its kept
\* events come to, and a purge of each flagged one.
LEMMA StatementsAre ==
  ASSUME ThreadAssumption, NEW m \in Memory,
         \A t \in Thread : OnePerTale(m.held[t])
  PROVE  LET W == Statements(m)
             KeptOf(t) == KeptIn(m, t)
         IN /\ DOMAIN W = 1..4
            /\ \A w \in W[1] : w.thread \in Advanced(m) /\ w = RowStmt(w.thread, KeptOf(w.thread))
            /\ \A t \in Advanced(m) : RowStmt(t, KeptOf(t)) \in W[1]
            /\ \A w \in W[2] : w.op = "link" /\ w.thread \in Advanced(m)
            /\ \A w \in W[3] : /\ w.thread \in Advanced(m)
                               /\ \E x \in KeptOf(w.thread) : w = EventStmt(w.thread, x, KeptOf(w.thread))
            /\ \A t \in Advanced(m) : \A x \in KeptOf(t) : EventStmt(t, x, KeptOf(t)) \in W[3]
            /\ \A w \in W[4] : /\ w.thread \in Advanced(m)
                               /\ \E x \in Flagged(m.held[w.thread], w.thread) :
                                    w = [op |-> "purge", thread |-> w.thread, tale |-> x.tale]
            /\ \A t \in Advanced(m) : \A x \in Flagged(m.held[t], t) :
                 [op |-> "purge", thread |-> t, tale |-> x.tale] \in W[4]
<1> DEFINE A == Advanced(m)
           W == Statements(m)
           KeptOf(t) == KeptIn(m, t)
           FlaggedOf(t) == Flagged(m.held[t], t)
           W1 == {RowStmt(t, KeptOf(t)) : t \in A}
           W2 == UNION {{[op |-> "link", thread |-> t, topic |-> x] :
                           x \in UNION {m.topical[e.tale] : e \in KeptOf(t)}} : t \in A}
           W3 == UNION {{EventStmt(t, x, KeptOf(t)) : x \in KeptOf(t)} : t \in A}
           W4 == UNION {{[op |-> "purge", thread |-> t, tale |-> x.tale] : x \in FlaggedOf(t)} : t \in A}
<1>1. W = <<W1, W2, W3, W4>>
  BY DEF Statements, RowStmt, EventStmt
<1>2. DOMAIN W = 1..4 /\ W[1] = W1 /\ W[2] = W2 /\ W[3] = W3 /\ W[4] = W4
  <2> HIDE DEF W1, W2, W3, W4, W
  <2> QED  BY <1>1
<1> HIDE DEF W, KeptOf, FlaggedOf, A
<1>3. \A w \in W1 : w.thread \in A /\ w = RowStmt(w.thread, KeptOf(w.thread))
  BY DEF RowStmt
<1>4. \A t \in A : RowStmt(t, KeptOf(t)) \in W1
  OBVIOUS
<1>5. \A w \in W2 : w.op = "link" /\ w.thread \in A
  OBVIOUS
<1>6. ASSUME NEW w \in W3
      PROVE  w.thread \in A /\ \E x \in KeptOf(w.thread) : w = EventStmt(w.thread, x, KeptOf(w.thread))
  <2>1. PICK t \in A : w \in {EventStmt(t, x, KeptOf(t)) : x \in KeptOf(t)}
    OBVIOUS
  <2>2. PICK x \in KeptOf(t) : w = EventStmt(t, x, KeptOf(t))
    BY <2>1
  <2>3. w.thread = t
    BY <2>2 DEF EventStmt
  <2> QED  BY <2>2, <2>3
<1>7. \A t \in A : \A x \in KeptOf(t) : EventStmt(t, x, KeptOf(t)) \in W3
  OBVIOUS
<1>8. ASSUME NEW w \in W4
      PROVE  /\ w.thread \in A
             /\ \E x \in FlaggedOf(w.thread) : w = [op |-> "purge", thread |-> w.thread, tale |-> x.tale]
  <2>1. PICK t \in A : w \in {[op |-> "purge", thread |-> t, tale |-> x.tale] : x \in FlaggedOf(t)}
    OBVIOUS
  <2>2. PICK x \in FlaggedOf(t) : w = [op |-> "purge", thread |-> t, tale |-> x.tale]
    BY <2>1
  <2>3. w.thread = t
    BY <2>2
  <2> QED  BY <2>2, <2>3
<1>9. \A t \in A : \A x \in FlaggedOf(t) : [op |-> "purge", thread |-> t, tale |-> x.tale] \in W4
  OBVIOUS
<1> HIDE DEF W1, W2, W3, W4
<1>10. /\ \A w \in W[1] : w.thread \in A /\ w = RowStmt(w.thread, KeptOf(w.thread))
       /\ \A t \in A : RowStmt(t, KeptOf(t)) \in W[1]
       /\ \A w \in W[2] : w.op = "link" /\ w.thread \in A
       /\ \A w \in W[3] : w.thread \in A /\ \E x \in KeptOf(w.thread) : w = EventStmt(w.thread, x, KeptOf(w.thread))
       /\ \A t \in A : \A x \in KeptOf(t) : EventStmt(t, x, KeptOf(t)) \in W[3]
       /\ \A w \in W[4] : /\ w.thread \in A
                          /\ \E x \in FlaggedOf(w.thread) : w = [op |-> "purge", thread |-> w.thread, tale |-> x.tale]
       /\ \A t \in A : \A x \in FlaggedOf(t) : [op |-> "purge", thread |-> t, tale |-> x.tale] \in W[4]
  BY <1>2, <1>3, <1>4, <1>5, <1>6, <1>7, <1>8, <1>9
<1> QED  BY <1>2, <1>10 DEF W, KeptOf, FlaggedOf, A

LEMMA ComposeStep ==
  ASSUME ThreadAssumption, TInv, Compose
  PROVE  TInv'
<1> DEFINE W == Statements(memory)
           A == Advanced(memory)
           held(t) == memory.held[t]
           KeptOf(t) == KeptIn(memory, t)
           FlaggedOf(t) == Flagged(memory.held[t], t)
<1>1. /\ step = "match" /\ step' = "write" /\ writes' = W
      /\ unsound' = (unsound \cup A) \ Sound(memory)
      /\ UNCHANGED <<threads, events, pass, outages>>
  BY DEF Compose
<1>2. /\ memory \in Memory /\ pass # "idle"
      /\ \A t \in Thread : /\ memory.loaded[t] \subseteq held(t) /\ OnePerTale(held(t))
                           /\ held(t) # {} => t \in ToSet(memory.order)
                           /\ held(t) \in SUBSET Placed
  BY <1>1 DEF TInv, Working, Memory
<1>3. /\ DOMAIN W = 1..4
      /\ \A w \in W[1] : w.thread \in A /\ w = RowStmt(w.thread, KeptOf(w.thread))
      /\ \A t \in A : RowStmt(t, KeptOf(t)) \in W[1]
      /\ \A w \in W[2] : w.op = "link" /\ w.thread \in A
      /\ \A w \in W[3] : w.thread \in A /\ \E x \in KeptOf(w.thread) : w = EventStmt(w.thread, x, KeptOf(w.thread))
      /\ \A t \in A : \A x \in KeptOf(t) : EventStmt(t, x, KeptOf(t)) \in W[3]
      /\ \A w \in W[4] : /\ w.thread \in A
                         /\ \E x \in FlaggedOf(w.thread) : w = [op |-> "purge", thread |-> w.thread, tale |-> x.tale]
      /\ \A t \in A : \A x \in FlaggedOf(t) : [op |-> "purge", thread |-> t, tale |-> x.tale] \in W[4]
  BY <1>2, StatementsAre
<1>4. ASSUME NEW t \in A
      PROVE  /\ t \in Thread /\ KeptOf(t) \subseteq held(t) /\ KeptOf(t) # {}
             /\ KeptOf(t) \in SUBSET Placed /\ OnePerTale(KeptOf(t))
  <2>1. t \in Thread /\ held(t) # {}
    BY DEF Advanced
  <2>2. KeptOf(t) \subseteq held(t) /\ KeptOf(t) # {}
    BY <2>1 DEF KeptIn, Kept, Coherent
  <2> HIDE DEF KeptOf, held
  <2> QED  BY <1>2, <2>1, <2>2 DEF OnePerTale
<1>5. Stored' /\ outages' \in Nat
  BY <1>1 DEF TInv, Stored
<1>6. Working'
  BY <1>1, <1>2 DEF Working
<1>7. Statements4'
  <2>1. W[1] \subseteq [op : {"thread"}, thread : Thread, row : Row]
    <3>1. ASSUME NEW t \in A PROVE RowStmt(t, KeptOf(t)) \in [op : {"thread"}, thread : Thread, row : Row]
      <4>1. RowOf(KeptOf(t)) \in Row
        BY <1>4, RowTells
      <4> QED  BY <1>4, <4>1 DEF RowStmt
    <3> HIDE DEF W, A, KeptOf
    <3> QED  BY <1>3, <3>1
  <2>2. \A w \in W[2] : w.op = "link" /\ w.thread \in Thread
    BY <1>3, <1>4
  <2>3. W[3] \subseteq [op : {"event"}, thread : Thread, tale : Tale, branch : Nat, index : Nat]
    <3>1. ASSUME NEW t \in A, NEW x \in KeptOf(t)
          PROVE  EventStmt(t, x, KeptOf(t)) \in
                   [op : {"event"}, thread : Thread, tale : Tale, branch : Nat, index : Nat]
      <4>1. IndexIn(x, KeptOf(t)) \in 1..Cardinality({y \in KeptOf(t) : y.branch = x.branch})
        BY <1>4, IndexTells
      <4>2. IndexIn(x, KeptOf(t)) \in Nat
        BY <4>1
      <4>3. x \in Placed
        BY <1>4
      <4> QED  BY <1>4, <4>2, <4>3 DEF EventStmt, Placed
    <3> HIDE DEF W, A, KeptOf
    <3> QED  BY <1>3, <3>1
  <2>4. W[4] \subseteq [op : {"purge"}, thread : Thread, tale : Tale]
    <3>1. ASSUME NEW t \in A, NEW x \in FlaggedOf(t)
          PROVE  [op |-> "purge", thread |-> t, tale |-> x.tale] \in [op : {"purge"}, thread : Thread, tale : Tale]
      <4>1. x \in Placed
        BY <1>2, <1>4 DEF Flagged
      <4> QED  BY <1>4, <4>1 DEF Placed
    <3> HIDE DEF W, A, FlaggedOf
    <3> QED  BY <1>3, <3>1
  <2> HIDE DEF W
  <2> QED  BY <1>1, <1>3, <2>1, <2>2, <2>3, <2>4 DEF Statements4
<1>8. ASSUME NEW t \in Thread \ unsound' PROVE OnCourse(t)'
  <2>1. CASE t \in Sound(memory)
    <3>0. PICK K : K = Coherent(held(t), t)
      OBVIOUS
    <3>1. t \in A /\ memory.loaded[t] = Read(t) /\ K # {}
      BY <2>1, <3>0 DEF Sound
    <3>2. KeptOf(t) = K /\ K \subseteq held(t) /\ FlaggedOf(t) = held(t) \ K
      BY <3>0, <3>1 DEF KeptIn, Kept, Coherent, Flagged
    <3>3. K \in SUBSET Placed /\ OnePerTale(K)
      BY <1>4, <3>1, <3>2
    <3> HIDE DEF W, A, KeptOf, FlaggedOf
    <3>4. RowComes(t, K)'
      BY <1>1, <1>3, <3>1, <3>2 DEF RowComes, RowStmt
    <3>5. EventsCome(t, K)'
      BY <1>1, <1>3, <3>1, <3>2 DEF EventsCome
    <3>6. OthersGo(t, K)'
      <4>1. ASSUME NEW w \in W[4], w.thread = t, NEW x \in K
            PROVE  w.tale # x.tale
        <5>1. PICK y \in FlaggedOf(t) : w.tale = y.tale
          BY <1>3, <4>1
        <5>2. y \in held(t) /\ x \in held(t) /\ y # x /\ OnePerTale(held(t))
          BY <1>2, <3>2, <5>1
        <5> QED  BY <5>1, <5>2 DEF OnePerTale
      <4>2. ASSUME NEW e \in EventsIn(t)
            PROVE  \/ \E x \in K : x.tale = e.tale /\ EventStmt(t, x, K) \in W[3]
                   \/ \E w \in W[4] : w.thread = t /\ w.tale = e.tale
        <5> DEFINE x == [tale |-> e.tale, branch |-> e.branch]
        <5>1. x \in held(t) /\ x.tale = e.tale
          <6>1. x \in Read(t)
            BY ReadIsPlaced DEF TInv
          <6> QED  BY <1>2, <3>1, <6>1
        <5> HIDE DEF x
        <5>2. CASE x \in K
          BY <1>3, <3>1, <3>2, <5>1, <5>2
        <5>3. CASE x \notin K
          <6>1. [op |-> "purge", thread |-> t, tale |-> x.tale] \in W[4]
            BY <1>3, <3>1, <3>2, <5>1, <5>3
          <6> QED  BY <5>1, <6>1
        <5> QED  BY <5>2, <5>3
      <4>3. EventsIn(t)' = EventsIn(t)
        BY <1>1 DEF EventsIn
      <4> QED  BY <1>1, <4>1, <4>2, <4>3 DEF OthersGo
    <3> QED  BY <3>3, <3>4, <3>5, <3>6 DEF OnCourse
  <2>2. CASE t \notin Sound(memory)
    <3>1. t \notin A /\ t \in Thread \ unsound
      BY <1>1, <1>8, <2>2
    <3>2. Settled(t)
      BY <1>1, <3>1 DEF TInv, OnTime
    <3>3. PICK K \in SUBSET Placed :
            OnePerTale(K) /\ threads[t] = RowFor(K) /\ EventsIn(t) = Planned(t, K)
      BY <3>2 DEF Settled
    <3>4. EventsIn(t)' = EventsIn(t) /\ EventsIn(t) \subseteq events
      BY <1>1 DEF EventsIn
    <3>5. \A i \in {1, 3, 4} : \A w \in W[i] : w.thread # t
      BY <1>3, <3>1
    <3> HIDE DEF W, A
    <3>6. RowComes(t, K)'
      BY <1>1, <3>3, <3>5 DEF RowComes
    <3>7. EventsCome(t, K)'
      BY <1>1, <3>3, <3>4, <3>5 DEF EventsCome, Planned
    <3>8. OthersGo(t, K)'
      BY <1>1, <3>3, <3>4, <3>5 DEF OthersGo
    <3> QED  BY <3>3, <3>6, <3>7, <3>8 DEF OnCourse
  <2> QED  BY <2>1, <2>2
<1>9. OnTime'
  BY <1>1, <1>8 DEF OnTime
<1>10. KinApart'
  <2>1. ASSUME outages' = 0, NEW t \in Thread PROVE Apart(Here(t))'
    <3>1. Apart(Here(t))
      BY <1>1, <2>1 DEF TInv, KinApart
    <3>2. ASSUME NEW w \in W[3], w.thread = t PROVE w.tale \in {x.tale : x \in held(t)}
      <4>1. t \in A /\ \E x \in KeptOf(t) : w = EventStmt(t, x, KeptOf(t))
        BY <1>3, <3>2
      <4>2. PICK x \in KeptOf(t) : w = EventStmt(t, x, KeptOf(t))
        BY <4>1
      <4>3. x \in held(t)
        BY <1>4, <4>1
      <4>4. w.tale = x.tale
        BY <4>2 DEF EventStmt
      <4> QED  BY <4>3, <4>4
    <3> HIDE DEF W, held
    <3>3. Here(t)' = {e.tale : e \in EventsIn(t)} \cup {w.tale : w \in {v \in W[3] : v.thread = t}}
      BY <1>1 DEF Here, EventsIn
    <3>4. Here(t) = {e.tale : e \in EventsIn(t)} \cup {x.tale : x \in held(t)}
      BY <1>1 DEF Here, held
    <3>5. Here(t)' \subseteq Here(t)
      BY <3>2, <3>3, <3>4
    <3> QED  BY <3>1, <3>5 DEF Apart
  <2> QED  BY <1>1, <2>1 DEF KinApart
<1> QED  BY <1>5, <1>6, <1>7, <1>9, <1>10 DEF TInv

\* A statement is sent when those of the phases before it are.
LEMMA DuePhase ==
  ASSUME TInv, step = "write", NEW w \in Due
  PROVE  \E i \in 1..4 : w \in writes[i] /\ \A j \in 1..4 : j < i => writes[j] = {}
<1> DEFINE open == {i \in DOMAIN writes : writes[i] # {}}
           first == CHOOSE i \in open : \A j \in open : i <= j
<1>1. DOMAIN writes = 1..4
  BY DEF TInv, Statements4
<1>2. open # {} /\ w \in writes[first]
  BY DEF Due
<1>3. \E i \in open : \A j \in open : i <= j
  <2>1. CASE 1 \in open
    BY <1>1, <2>1
  <2>2. CASE 1 \notin open /\ 2 \in open
    BY <1>1, <2>2
  <2>3. CASE 1 \notin open /\ 2 \notin open /\ 3 \in open
    BY <1>1, <2>3
  <2>4. CASE 1 \notin open /\ 2 \notin open /\ 3 \notin open
    <3>1. open = {4}
      BY <1>1, <1>2, <2>4
    <3> QED  BY <3>1
  <2> QED  BY <2>1, <2>2, <2>3, <2>4
<1>4. first \in open /\ \A j \in open : first <= j
  BY <1>3
<1>5. \A j \in 1..4 : j < first => writes[j] = {}
  BY <1>1, <1>4
<1> QED  BY <1>1, <1>2, <1>4, <1>5

\* What sending one statement does to the phases.
LEMMA SentIs ==
  ASSUME Statements4, step = "write", step' = "write", NEW w, Sent(w),
         NEW i \in 1..4, w \in writes[i]
  PROVE  /\ Statements4'
         /\ \A j \in 1..4 : writes'[j] = IF j = i THEN writes[j] \ {w} ELSE writes[j]
<1>1. DOMAIN writes = 1..4 /\ DOMAIN writes' = 1..4 /\ \A j \in 1..4 : writes'[j] = writes[j] \ {w}
  BY DEF Statements4, Sent
<1>2. Statements4'
  BY <1>1 DEF Statements4
<1>3. /\ \A v \in writes[1] : v.op = "thread"
      /\ \A v \in writes[2] : v.op = "link"
      /\ \A v \in writes[3] : v.op = "event"
      /\ \A v \in writes[4] : v.op = "purge"
  BY DEF Statements4
<1>4. ASSUME NEW j \in 1..4, j # i PROVE w \notin writes[j]
  BY <1>3, <1>4
<1> QED  BY <1>1, <1>2, <1>4

\* A thread on course with nothing pending has arrived.
LEMMA Arrived ==
  ASSUME Stored, Statements4, step = "write", NEW t \in Thread, OnCourse(t),
         \A w \in Pending : w.thread # t
  PROVE  Settled(t)
<1>1. PICK K \in SUBSET Placed :
        OnePerTale(K) /\ RowComes(t, K) /\ EventsCome(t, K) /\ OthersGo(t, K)
  BY DEF OnCourse
<1>2. \A i \in {1, 3, 4} : \A w \in writes[i] : w.thread # t
  BY DEF Statements4, Pending
<1>3. RowStmt(t, K).thread = t /\ \A x : EventStmt(t, x, K).thread = t /\ Entry(t, x, K).thread = t
  BY DEF RowStmt, EventStmt, Entry
<1>4. threads[t] = RowFor(K)
  BY <1>1, <1>2, <1>3 DEF RowComes
<1>5. \A x \in K : Entry(t, x, K) \in EventsIn(t)
  BY <1>1, <1>2, <1>3 DEF EventsCome, EventsIn
<1>6. \A e \in EventsIn(t) : e \in Planned(t, K)
  BY <1>1, <1>2, <1>3 DEF OthersGo
<1>7. EventsIn(t) = Planned(t, K)
  BY <1>5, <1>6 DEF Planned
<1> QED  BY <1>1, <1>4, <1>7 DEF Settled

LEMMA EndPassStep ==
  ASSUME ThreadAssumption, TInv, EndPass
  PROVE  TInv'
<1>1. /\ step = "write" /\ Pending = {} /\ writes' = <<>>
      /\ UNCHANGED <<threads, events, unsound, outages>>
      /\ \/ pass = "live" /\ pass' = "backfill" /\ step' = "select"
         \/ pass' = "idle" /\ step' = "idle"
  BY DEF EndPass
<1>2. Stored' /\ outages' \in Nat
  BY <1>1 DEF TInv, Stored
<1>3. Working' /\ Statements4'
  BY <1>1 DEF Working, Statements4
<1>4. ASSUME NEW t \in Thread \ unsound' PROVE Settled(t)'
  <2>1. OnCourse(t)
    BY <1>1, <1>4 DEF TInv, OnTime
  <2>2. Settled(t)
    BY <1>1, <2>1, Arrived DEF TInv
  <2> QED  BY <1>1, <2>2 DEF Settled, EventsIn
<1>5. OnTime'
  BY <1>1, <1>4 DEF OnTime
<1>6. KinApart'
  BY <1>1, <1>2, OnlyRows
<1> QED  BY <1>2, <1>3, <1>5, <1>6 DEF TInv

LEMMA PassKilledStep ==
  ASSUME ThreadAssumption, TInv, PassKilled
  PROVE  TInv'
<1>1. /\ pass' = "idle" /\ step' = "idle" /\ writes' = <<>>
      /\ unsound' = unsound \cup {w.thread : w \in Pending}
      /\ UNCHANGED <<threads, events>>
  BY DEF PassKilled
<1>2. outages' \in Nat /\ outages' # 0
  BY DEF TInv, PassKilled, Outage
<1>3. Stored' /\ Working' /\ Statements4' /\ KinApart'
  BY <1>1, <1>2 DEF TInv, Stored, Working, Statements4, KinApart
<1>4. ASSUME NEW t \in Thread \ unsound' PROVE Settled(t)'
  <2>1. Settled(t)
    <3>1. CASE step = "write"
      <4>1. OnCourse(t) /\ \A w \in Pending : w.thread # t
        BY <1>1, <1>4, <3>1 DEF TInv, OnTime
      <4> QED  BY <1>4, <3>1, <4>1, Arrived DEF TInv
    <3>2. CASE step # "write"
      BY <1>1, <1>4, <3>2 DEF TInv, OnTime
    <3> QED  BY <3>1, <3>2
  <2> QED  BY <1>1, <2>1 DEF Settled, EventsIn
<1>5. OnTime'
  BY <1>1, <1>4 DEF OnTime
<1> QED  BY <1>2, <1>3, <1>5 DEF TInv

LEMMA WriteFailsStep ==
  ASSUME ThreadAssumption, TInv, WriteFails
  PROVE  TInv'
<1>1. PICK w \in Due :
        /\ unsound' = IF w.op = "link" THEN unsound ELSE unsound \cup {w.thread}
        /\ Sent(w)
  BY DEF WriteFails
<1>2. step = "write" /\ step' = "write" /\ UNCHANGED <<threads, events, pass>>
  BY DEF WriteFails
<1>3. outages' \in Nat /\ outages' # 0
  BY DEF TInv, WriteFails, Outage
<1>4. PICK i \in 1..4 : w \in writes[i] /\ \A j \in 1..4 : j < i => writes[j] = {}
  BY <1>2, DuePhase
<1>5. Statements4' /\ \A j \in 1..4 : writes'[j] = IF j = i THEN writes[j] \ {w} ELSE writes[j]
  BY <1>1, <1>2, <1>4, SentIs DEF TInv
<1>6. Stored' /\ Working' /\ KinApart'
  BY <1>2, <1>3 DEF TInv, Stored, Working, KinApart
<1>7. ASSUME NEW t \in Thread \ unsound' PROVE OnCourse(t)'
  <2>1. t \in Thread \ unsound /\ (w.op = "link" \/ w.thread # t)
    BY <1>1, <1>7
  <2>2. \A j \in {1, 3, 4} : /\ writes'[j] \subseteq writes[j]
                             /\ \A v \in writes[j] : v.thread = t => v \in writes'[j]
    <3>1. CASE w.thread # t
      BY <1>5, <3>1
    <3>2. CASE w.op = "link"
      <4>1. i = 2
        BY <1>2, <1>4, <3>2 DEF TInv, Statements4
      <4> QED  BY <1>5, <4>1
    <3> QED  BY <2>1, <3>1, <3>2
  <2>3. PICK K \in SUBSET Placed :
          OnePerTale(K) /\ RowComes(t, K) /\ EventsCome(t, K) /\ OthersGo(t, K)
    BY <1>2, <2>1 DEF TInv, OnTime, OnCourse
  <2>4. RowStmt(t, K).thread = t /\ \A x : EventStmt(t, x, K).thread = t
    BY DEF RowStmt, EventStmt
  <2>5. RowComes(t, K)'
    BY <1>2, <2>2, <2>3, <2>4 DEF RowComes, RowStmt
  <2>6. EventsCome(t, K)'
    BY <1>2, <2>2, <2>3, <2>4 DEF EventsCome, EventStmt
  <2>7. EventsIn(t)' = EventsIn(t)
    BY <1>2 DEF EventsIn
  <2>8. OthersGo(t, K)'
    BY <2>2, <2>3, <2>4, <2>7 DEF OthersGo
  <2> QED  BY <2>3, <2>5, <2>6, <2>8 DEF OnCourse
<1>8. OnTime'
  BY <1>2, <1>7 DEF OnTime
<1> QED  BY <1>3, <1>5, <1>6, <1>8 DEF TInv

\* One statement takes effect: a row of a thread, ...
LEMMA RowSent ==
  ASSUME ThreadAssumption, TInv, step = "write", step' = "write",
         NEW w \in writes[1], Effect(w), unsound' = unsound,
         \A j \in 1..4 : writes'[j] = IF j = 1 THEN writes[j] \ {w} ELSE writes[j]
  PROVE  /\ events' = events /\ Stored'
         /\ \A t \in Thread \ unsound : OnCourse(t)'
<1>1. w \in [op : {"thread"}, thread : Thread, row : Row]
  BY DEF TInv, Statements4
<1>2. threads' = [threads EXCEPT ![w.thread] = w.row] /\ events' = events
  BY <1>1 DEF Effect
<1>3. w.row # NoThread /\ w.row \in Row /\ w.thread \in Thread
  BY <1>1 DEF Row, ThreadAssumption
<1>4. \A t \in Thread : threads'[t] = IF t = w.thread THEN w.row ELSE threads[t]
  BY <1>2, <1>3 DEF TInv, Stored
<1>5. Stored'
  <2>1. threads' \in [Thread -> Row \cup {NoThread}]
    BY <1>2, <1>3 DEF TInv, Stored
  <2>2. \A e \in events' : threads'[e.thread] # NoThread
    BY <1>2, <1>3, <1>4 DEF TInv, Stored
  <2> QED  BY <1>2, <2>1, <2>2 DEF TInv, Stored
<1>6. ASSUME NEW t \in Thread \ unsound PROVE OnCourse(t)'
  <2>1. PICK K \in SUBSET Placed :
          OnePerTale(K) /\ RowComes(t, K) /\ EventsCome(t, K) /\ OthersGo(t, K)
    BY <1>6 DEF TInv, OnTime, OnCourse
  <2>2. RowComes(t, K)'
    <3>1. \A v \in writes[1] : v.thread = t => K # {} /\ v = RowStmt(t, K)
      BY <2>1 DEF RowComes
    <3>2. threads'[t] = RowFor(K) \/ (K # {} /\ RowStmt(t, K) \in writes'[1])
      <4>1. CASE w.thread = t
        <5>1. K # {} /\ w = RowStmt(t, K)
          BY <3>1, <4>1
        <5>2. w.row = RowFor(K)
          BY <5>1 DEF RowStmt, RowFor
        <5> QED  BY <1>4, <4>1, <5>2
      <4>2. CASE w.thread # t
        <5>1. RowStmt(t, K) # w
          BY <4>2 DEF RowStmt
        <5> QED  BY <1>4, <2>1, <4>2, <5>1 DEF RowComes
      <4> QED  BY <4>1, <4>2
    <3>3. writes'[1] \subseteq writes[1]
      OBVIOUS
    <3> QED  BY <3>1, <3>2, <3>3 DEF RowComes, RowStmt
  <2>3. EventsIn(t)' = EventsIn(t) /\ writes'[3] = writes[3] /\ writes'[4] = writes[4]
    BY <1>2 DEF EventsIn
  <2>4. EventsCome(t, K)' /\ OthersGo(t, K)'
    BY <1>2, <2>1, <2>3 DEF EventsCome, OthersGo
  <2> QED  BY <2>1, <2>2, <2>4 DEF OnCourse
<1> QED  BY <1>2, <1>5, <1>6

\* ... an event, which replaces the one the thread had of that story, ...
LEMMA EventSent ==
  ASSUME ThreadAssumption, TInv, step = "write", step' = "write",
         NEW w \in writes[3], Effect(w), unsound' = unsound,
         writes[1] = {},
         \A j \in 1..4 : writes'[j] = IF j = 3 THEN writes[j] \ {w} ELSE writes[j]
  PROVE  /\ \A e \in events' : e \in events \/ (e.thread = w.thread /\ e.tale = w.tale)
         /\ Stored'
         /\ \A t \in Thread \ unsound : OnCourse(t)'
<1> DEFINE new == [thread |-> w.thread, tale |-> w.tale, branch |-> w.branch, index |-> w.index]
           others == {e \in events : <<e.thread, e.tale>> # <<w.thread, w.tale>>}
<1>1. w \in [op : {"event"}, thread : Thread, tale : Tale, branch : Nat, index : Nat]
  BY DEF TInv, Statements4
<1>2. /\ threads' = threads
      /\ events' = IF threads[w.thread] = NoThread THEN events ELSE others \cup {new}
  BY <1>1 DEF Effect
<1>3. \A e \in events : e \in others <=> e.thread # w.thread \/ e.tale # w.tale
  OBVIOUS
<1>4. new.thread = w.thread /\ new.tale = w.tale
      /\ new \in [thread : Thread, tale : Tale, branch : Nat, index : Nat]
  BY <1>1
<1>5. others \subseteq events
  OBVIOUS
<1> HIDE DEF others, new
<1>6. \A e \in events' : e \in events \/ (e.thread = w.thread /\ e.tale = w.tale)
  BY <1>2, <1>4, <1>5
<1>7. Stored'
  <2>1. events' \subseteq [thread : Thread, tale : Tale, branch : Nat, index : Nat]
    BY <1>2, <1>4, <1>5 DEF TInv, Stored
  <2>2. \A e, f \in events' : e.thread = f.thread /\ e.tale = f.tale => e = f
    <3>1. \A e, f \in events : e.thread = f.thread /\ e.tale = f.tale => e = f
      BY DEF TInv, Stored
    <3>2. \A e \in others : e \in events /\ ~(e.thread = w.thread /\ e.tale = w.tale)
      BY <1>3, <1>5
    <3> QED  BY <1>2, <1>4, <3>1, <3>2
  <2>3. \A e \in events' : threads[e.thread] # NoThread
    BY <1>2, <1>4, <1>5 DEF TInv, Stored
  <2> QED  BY <1>2, <2>1, <2>2, <2>3 DEF TInv, Stored
<1>8. ASSUME NEW t \in Thread \ unsound PROVE OnCourse(t)'
  <2>1. PICK K \in SUBSET Placed :
          OnePerTale(K) /\ RowComes(t, K) /\ EventsCome(t, K) /\ OthersGo(t, K)
    BY <1>8 DEF TInv, OnTime, OnCourse
  <2>2. threads[t] = RowFor(K)
    BY <2>1 DEF RowComes
  <2>3. RowComes(t, K)'
    BY <1>2, <2>1, <2>2 DEF RowComes
  <2>4. /\ writes'[3] = writes[3] \ {w} /\ writes'[4] = writes[4]
        /\ \A x : EventStmt(t, x, K).thread = t /\ EventStmt(t, x, K).tale = x.tale
        /\ \A x : Entry(t, x, K).thread = t /\ Entry(t, x, K).tale = x.tale
    BY DEF EventStmt, Entry
  <2>5. /\ \A v \in writes[3] : v.thread = t => \E x \in K : v = EventStmt(t, x, K)
        /\ \A x \in K : Entry(t, x, K) \in events \/ EventStmt(t, x, K) \in writes[3]
    BY <2>1 DEF EventsCome
  <2>6. /\ \A v \in writes[4] : v.thread = t => \A x \in K : v.tale # x.tale
        /\ \A e \in events : e.thread = t =>
             \/ e \in Planned(t, K)
             \/ \E x \in K : x.tale = e.tale /\ EventStmt(t, x, K) \in writes[3]
             \/ \E v \in writes[4] : v.thread = t /\ v.tale = e.tale
    BY <2>1 DEF OthersGo, EventsIn
  <2>7. CASE w.thread # t
    <3>1. \A e : e.thread = t => (e \in events' <=> e \in events)
      BY <1>2, <1>3, <1>4, <1>5, <2>7
    <3>2. EventsCome(t, K)'
      <4>1. \A x \in K : Entry(t, x, K) \in events' \/ EventStmt(t, x, K) \in writes'[3]
        BY <2>4, <2>5, <2>7, <3>1
      <4> QED  BY <2>4, <2>5, <4>1 DEF EventsCome
    <3>3. OthersGo(t, K)'
      <4>1. \A e \in events' : e.thread = t =>
               \/ e \in Planned(t, K)
               \/ \E x \in K : x.tale = e.tale /\ EventStmt(t, x, K) \in writes'[3]
               \/ \E v \in writes'[4] : v.thread = t /\ v.tale = e.tale
        BY <2>4, <2>6, <2>7, <3>1
      <4> QED  BY <2>4, <2>6, <4>1 DEF OthersGo, EventsIn
    <3> QED  BY <2>1, <2>3, <3>2, <3>3 DEF OnCourse
  <2>8. CASE w.thread = t
    <3>1. PICK x \in K : w = EventStmt(t, x, K)
      BY <2>5, <2>8
    <3>2. threads[w.thread] # NoThread
      <4>1. threads[t] = RowOf(K) /\ K # {}
        BY <2>2, <3>1 DEF RowFor
      <4> QED  BY <2>1, <2>8, <4>1, RowTells
    <3>3. new = Entry(t, x, K)
      BY <3>1 DEF EventStmt, Entry, new
    <3>4. events' = others \cup {new} /\ w.tale = x.tale
      BY <1>2, <2>4, <3>1, <3>2
    <3>5. \A y \in K : y = x \/ y.tale # x.tale
      BY <2>1, <3>1 DEF OnePerTale
    <3>6. EventsCome(t, K)'
      <4>1. ASSUME NEW y \in K PROVE Entry(t, y, K) \in events' \/ EventStmt(t, y, K) \in writes'[3]
        <5>1. CASE y = x
          BY <3>3, <3>4, <5>1
        <5>2. CASE y.tale # x.tale
          <6>1. EventStmt(t, y, K) # w /\ Entry(t, y, K).tale # w.tale
            BY <2>4, <3>4, <5>2
          <6> QED  BY <1>3, <2>4, <2>5, <3>4, <6>1
        <5> QED  BY <3>5, <5>1, <5>2
      <4> QED  BY <2>4, <2>5, <4>1 DEF EventsCome
    <3>7. OthersGo(t, K)'
      <4>1. ASSUME NEW e \in events', e.thread = t
            PROVE  \/ e \in Planned(t, K)
                   \/ \E y \in K : y.tale = e.tale /\ EventStmt(t, y, K) \in writes'[3]
                   \/ \E v \in writes'[4] : v.thread = t /\ v.tale = e.tale
        <5>1. CASE e = new
          BY <3>3, <5>1 DEF Planned
        <5>2. CASE e \in others
          <6>1. e \in events /\ e.tale # w.tale
            BY <1>3, <1>5, <2>8, <4>1, <5>2
          <6>2. \A y : y.tale = e.tale => EventStmt(t, y, K) # w
            BY <2>4, <6>1
          <6> QED  BY <2>4, <2>6, <4>1, <6>1, <6>2
        <5> QED  BY <3>4, <5>1, <5>2
      <4> QED  BY <2>4, <2>6, <4>1 DEF OthersGo, EventsIn
    <3> QED  BY <2>1, <2>3, <3>6, <3>7 DEF OnCourse
  <2> QED  BY <2>7, <2>8
<1> QED  BY <1>6, <1>7, <1>8

\* ... or a purge of one.
LEMMA PurgeSent ==
  ASSUME TInv, step = "write", step' = "write",
         NEW w \in writes[4], Effect(w), unsound' = unsound,
         \A j \in 1..4 : writes'[j] = IF j = 4 THEN writes[j] \ {w} ELSE writes[j]
  PROVE  /\ events' \subseteq events
         /\ Stored'
         /\ \A t \in Thread \ unsound : OnCourse(t)'
<1>1. w.op = "purge"
  BY DEF TInv, Statements4
<1>2. /\ threads' = threads
      /\ events' = {e \in events : <<e.thread, e.tale>> # <<w.thread, w.tale>>}
  BY <1>1 DEF Effect
<1>3. events' \subseteq events /\ \A e \in events : e \in events' <=> e.thread # w.thread \/ e.tale # w.tale
  BY <1>2
<1>4. Stored'
  BY <1>2, <1>3 DEF TInv, Stored
<1>5. ASSUME NEW t \in Thread \ unsound PROVE OnCourse(t)'
  <2>1. PICK K \in SUBSET Placed :
          OnePerTale(K) /\ RowComes(t, K) /\ EventsCome(t, K) /\ OthersGo(t, K)
    BY <1>5 DEF TInv, OnTime, OnCourse
  <2>2. /\ writes'[1] = writes[1] /\ writes'[3] = writes[3] /\ writes'[4] = writes[4] \ {w}
        /\ \A x : Entry(t, x, K).thread = t /\ Entry(t, x, K).tale = x.tale
    BY DEF Entry
  <2>3. RowComes(t, K)'
    BY <1>2, <2>1, <2>2 DEF RowComes, RowStmt
  <2>4. /\ \A v \in writes[4] : v.thread = t => \A x \in K : v.tale # x.tale
        /\ \A e \in events : e.thread = t =>
             \/ e \in Planned(t, K)
             \/ \E x \in K : x.tale = e.tale /\ EventStmt(t, x, K) \in writes[3]
             \/ \E v \in writes[4] : v.thread = t /\ v.tale = e.tale
    BY <2>1 DEF OthersGo, EventsIn
  <2>5. EventsCome(t, K)'
    <3>1. ASSUME NEW x \in K, Entry(t, x, K) \in events PROVE Entry(t, x, K) \in events'
      BY <1>3, <2>2, <2>4, <3>1
    <3> QED  BY <2>1, <2>2, <3>1 DEF EventsCome
  <2>6. OthersGo(t, K)'
    <3>1. ASSUME NEW e \in events', e.thread = t
          PROVE  \/ e \in Planned(t, K)
                 \/ \E x \in K : x.tale = e.tale /\ EventStmt(t, x, K) \in writes'[3]
                 \/ \E v \in writes'[4] : v.thread = t /\ v.tale = e.tale
      <4>1. e \in events /\ (e.thread # w.thread \/ e.tale # w.tale)
        BY <1>3
      <4> QED  BY <2>2, <2>4, <3>1, <4>1
    <3> QED  BY <2>2, <2>4, <3>1 DEF OthersGo, EventsIn
  <2> QED  BY <2>1, <2>3, <2>5, <2>6 DEF OnCourse
<1> QED  BY <1>3, <1>4, <1>5

LEMMA WriteStep ==
  ASSUME ThreadAssumption, TInv, Write
  PROVE  TInv'
<1>1. PICK w \in Due : Effect(w) /\ Sent(w)
  BY DEF Write
<1>2. step = "write" /\ step' = "write" /\ UNCHANGED <<pass, unsound, outages>>
  BY DEF Write
<1>3. PICK i \in 1..4 : w \in writes[i] /\ \A j \in 1..4 : j < i => writes[j] = {}
  BY <1>2, DuePhase
<1>4. Statements4' /\ \A j \in 1..4 : writes'[j] = IF j = i THEN writes[j] \ {w} ELSE writes[j]
  BY <1>1, <1>2, <1>3, SentIs DEF TInv
<1>5. /\ Stored' /\ \A t \in Thread \ unsound : OnCourse(t)'
      /\ \A e \in events' : e \in events \/ \E v \in writes[3] : v.thread = e.thread /\ v.tale = e.tale
  <2>1. CASE i = 1
    BY <1>1, <1>2, <1>3, <1>4, <2>1, RowSent
  <2>2. CASE i = 2
    <3>1. w.op = "link"
      BY <1>2, <1>3, <2>2 DEF TInv, Statements4
    <3>2. threads' = threads /\ events' = events
      BY <1>1, <3>1 DEF Effect
    <3>3. \A j \in {1, 3, 4} : writes'[j] = writes[j]
      BY <1>4, <2>2
    <3>4. Stored'
      BY <3>2 DEF TInv, Stored
    <3>5. ASSUME NEW t \in Thread \ unsound PROVE OnCourse(t)'
      <4>1. PICK K \in SUBSET Placed :
              OnePerTale(K) /\ RowComes(t, K) /\ EventsCome(t, K) /\ OthersGo(t, K)
        BY <1>2, <3>5 DEF TInv, OnTime, OnCourse
      <4>2. RowComes(t, K)' /\ EventsCome(t, K)' /\ OthersGo(t, K)'
        BY <3>2, <3>3, <4>1 DEF RowComes, EventsCome, OthersGo, EventsIn
      <4> QED  BY <4>1, <4>2 DEF OnCourse
    <3> QED  BY <3>2, <3>4, <3>5
  <2>3. CASE i = 3
    <3>1. writes[1] = {}
      BY <1>3, <2>3
    <3>2. /\ Stored' /\ \A t \in Thread \ unsound : OnCourse(t)'
          /\ \A e \in events' : e \in events \/ (e.thread = w.thread /\ e.tale = w.tale)
      BY <1>1, <1>2, <1>3, <1>4, <2>3, <3>1, EventSent
    <3> QED  BY <1>3, <2>3, <3>2
  <2>4. CASE i = 4
    BY <1>1, <1>2, <1>3, <1>4, <2>4, PurgeSent
  <2> QED  BY <2>1, <2>2, <2>3, <2>4
<1>6. Working'
  BY <1>2 DEF TInv, Working
<1>7. OnTime'
  BY <1>2, <1>5 DEF OnTime
<1>8. KinApart'
  <2>1. ASSUME NEW t \in Thread PROVE Here(t)' \subseteq Here(t)
    <3>1. writes'[3] \subseteq writes[3]
      BY <1>4
    <3> QED  BY <1>2, <1>5, <3>1 DEF Here, EventsIn
  <2>2. ASSUME outages' = 0 PROVE \A t \in Thread : Apart(Here(t))'
    BY <1>2, <2>1, <2>2 DEF TInv, KinApart, Apart
  <2> QED  BY <1>2, <2>2 DEF KinApart
<1> QED  BY <1>2, <1>4, <1>5, <1>6, <1>7, <1>8 DEF TInv

LEMMA ThreadsBegin == ThreadInit => TInv
<1> SUFFICES ASSUME ThreadInit PROVE TInv
  OBVIOUS
<1>1. Stored /\ Working /\ Statements4 /\ outages \in Nat
  BY DEF ThreadInit, Stored, Working, Statements4
<1>2. ASSUME NEW t \in Thread PROVE Settled(t) /\ Here(t) = {}
  <2>1. {} \in SUBSET Placed /\ OnePerTale({}) /\ RowFor({}) = NoThread /\ Planned(t, {}) = {}
    BY DEF OnePerTale, RowFor, Planned
  <2>2. EventsIn(t) = {} /\ threads[t] = NoThread
    BY DEF ThreadInit, EventsIn
  <2>3. Here(t) = {}
    BY <2>2 DEF ThreadInit, Here
  <2> QED  BY <2>1, <2>2, <2>3 DEF Settled
<1>3. OnTime
  BY <1>2 DEF OnTime, ThreadInit
<1>4. KinApart
  BY <1>2 DEF KinApart, Apart, ThreadInit
<1> QED  BY <1>1, <1>3, <1>4 DEF TInv

LEMMA ThreadsStep == ThreadAssumption /\ TInv /\ [ThreadNext]_threadVars => TInv'
<1> SUFFICES ASSUME ThreadAssumption, TInv, [ThreadNext]_(threadVars) PROVE TInv'
  OBVIOUS
<1>1. CASE UNCHANGED threadVars
  <2>1. UNCHANGED <<threads, events, pass, step, batch, memory, writes, unsound, outages>>
    BY <1>1 DEF threadVars
  <2>2. Stored' /\ Working' /\ Statements4' /\ outages' \in Nat
    BY <2>1 DEF TInv, Stored, Working, Statements4, Memory, OnePerTale, ToSet
  <2>3. \A t : EventsIn(t)' = EventsIn(t) /\ Read(t)' = Read(t)
    BY <2>1 DEF EventsIn, Read
  <2>4. ASSUME NEW t, Settled(t) PROVE Settled(t)'
    BY <2>1, <2>3, <2>4 DEF Settled
  <2>5. ASSUME NEW t, OnCourse(t) PROVE OnCourse(t)'
    <3>1. PICK K \in SUBSET Placed :
            OnePerTale(K) /\ RowComes(t, K) /\ EventsCome(t, K) /\ OthersGo(t, K)
      BY <2>5 DEF OnCourse
    <3>2. RowComes(t, K)' /\ EventsCome(t, K)' /\ OthersGo(t, K)'
      BY <2>1, <2>3, <3>1 DEF RowComes, EventsCome, OthersGo
    <3> QED  BY <3>1, <3>2 DEF OnCourse
  <2>6. OnTime'
    BY <2>1, <2>4, <2>5 DEF TInv, OnTime
  <2>7. KinApart'
    BY <2>1, <2>3 DEF TInv, KinApart, Apart, Here, Looked
  <2> QED  BY <2>2, <2>6, <2>7 DEF TInv
<1>2. CASE ThreadNext
  BY <1>2, BeginStep, LoadStep, MatchStep, ComposeStep, WriteStep, WriteFailsStep,
     EndPassStep, SelectStep, PassKilledStep DEF ThreadNext
<1> QED  BY <1>1, <1>2

LEMMA TimelineTold == ThreadAssumption /\ TInv => TimelineIsTrue
<1> SUFFICES ASSUME ThreadAssumption, TInv, pass = "idle", NEW t \in Thread \ unsound
             PROVE  TellsItsEvents(t)
  BY DEF TimelineIsTrue
<1>1. step = "idle" /\ Settled(t) /\ Stored /\ outages \in Nat
  BY DEF TInv, Working, OnTime
<1>2. outages = 0 => Apart({e.tale : e \in EventsIn(t)})
  BY <1>1 DEF TInv, KinApart, Here
<1> QED  BY <1>1, <1>2, SettledTells

(* Between passes, every thread whose last rewrite was neither cut short   *)
(* nor blind tells its events: its row counts them and spans their dates,  *)
(* they are numbered by date in each branch, and until something fails no  *)
(* two of them are of stories merged or split (syncThreadsToD1, phase by   *)
(* phase, after matchAndAdvanceThreads and sortAndIndexEvents).            *)
THEOREM TimelinesAreTrue ==
  ThreadAssumption => (ThreadSpec => []TimelineIsTrue)
<1> SUFFICES ASSUME ThreadAssumption
             PROVE  ThreadSpec => []TimelineIsTrue
  OBVIOUS
<1> QED  BY ThreadsBegin, ThreadsStep, TimelineTold, PTL DEF ThreadSpec

-----------------------------------------------------------------------------
(***************************************************************************)
(* The whole: a step is of one part and the others rest, so the archive    *)
(* and the threads keep in every behaviour of AllSpec what they promise in *)
(* their own.                                                              *)
(***************************************************************************)
LEMMA OnePart ==
  [AllNext]_allVars => [Next]_vars /\ [ThreadNext]_threadVars
<1> SUFFICES ASSUME [AllNext]_allVars
             PROVE  [Next]_vars /\ [ThreadNext]_threadVars
  OBVIOUS
<1>1. CASE ArchiveSteps
  <2>1. Next
    BY <1>1 DEF ArchiveSteps, Next, Work, Archive, Reconcile
  <2>2. UNCHANGED threadVars
    BY <1>1 DEF ArchiveSteps, OnlyArchive
  <2> QED  BY <2>1, <2>2
<1>2. CASE OnlyStore /\ Store!Next
  BY <1>2 DEF OnlyStore
<1>3. CASE ThreadSteps
  <2>1. ThreadNext
    BY <1>3 DEF ThreadSteps, ThreadNext
  <2>2. UNCHANGED vars
    BY <1>3 DEF ThreadSteps, OnlyThreads
  <2> QED  BY <2>1, <2>2
<1>4. CASE UNCHANGED allVars
  BY <1>4 DEF allVars
<1> QED  BY <1>1, <1>2, <1>3, <1>4 DEF AllNext

LEMMA ArchivePart == AllSpec => Spec
<1>1. AllInit => Init
  BY DEF AllInit
<1> QED  BY <1>1, OnePart, PTL DEF AllSpec, Spec

LEMMA ThreadsPart == AllSpec => ThreadInit /\ [][ThreadNext]_threadVars
<1>1. AllInit => ThreadInit
  BY DEF AllInit
<1> QED  BY <1>1, OnePart, PTL DEF AllSpec

(* Whatever else is stored, a homepage goes live only after what it drops  *)
(* is archived (crawl-and-deploy.yml, runIngestionPipeline.ts).            *)
THEOREM GateAlwaysHolds == AllSpec => []DeploysWhatItFiled
BY GateHolds, ArchivePart

(* No row comes before its payload (archiveCluster.ts).                    *)
THEOREM RowsAlwaysFollow == AllSpec => RowFollowsPayload
BY RowsFollow, ArchivePart

(* And every thread that was not cut short tells its events                *)
(* (syncThreadsToD1).                                                      *)
THEOREM ThreadsStayTrue == AllSpec => []TimelineIsTrue
<1>1. ThreadInit => TInv
  BY ThreadsBegin
<1>2. TInv /\ [ThreadNext]_threadVars => TInv'
  BY ThreadsStep, ThreadAssumed
<1>3. TInv => TimelineIsTrue
  BY TimelineTold, ThreadAssumed
<1> QED  BY <1>1, <1>2, <1>3, ThreadsPart, PTL
=============================================================================
