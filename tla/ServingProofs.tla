--------------------------- MODULE ServingProofs ---------------------------
(***************************************************************************)
(* Theorems about what readers and the curator are answered and shown, for *)
(* every size of every part: the limiter, the session, the edge's copies,  *)
(* the archive's and a topic's pages, the column's drawers and banner, the *)
(* offline shell, the dialogs, the threads' tab and the curator's panels.  *)
(* Each part is proved by itself; the last section brings them together.   *)
(***************************************************************************)
EXTENDS MCServing, FiniteSetTheorems, WellFoundedInduction, TLAPS

-----------------------------------------------------------------------------
(***************************************************************************)
(* The limiter.  A bucket counts the last k of the times its caller was    *)
(* let through, from the start of its window on; of the times before, all  *)
(* but the last Limit - 1 are a window older than that start, which is now *)
(* when there is no bucket.                                                *)
(***************************************************************************)
Bucket == [count : Nat, resetAt : Nat]

Ordered(moments, at) ==
  /\ \A i, j \in 1..Len(moments) : i <= j => moments[i] <= moments[j]
  /\ \A i \in 1..Len(moments) : moments[i] <= at

Tallied(k, start, moments, at) ==
  /\ k \in Nat /\ k <= Limit /\ k <= Len(moments)
  /\ k # 0 => start = moments[Len(moments) - k + 1]
  /\ k = 0 => start = at
  /\ \A i \in 1..Len(moments) :
        i <= Len(moments) - k - Limit + 1 => moments[i] + Window <= start
  /\ Ordered(moments, at)

Spread(moments) ==
  \A i \in 1..Len(moments) :
    i + 2 * Limit - 1 <= Len(moments) => moments[i] + Window <= moments[i + 2 * Limit - 1]

Tally(b, moments, at) ==
  /\ b.count = 0 => b = NoBucket
  /\ Tallied(b.count, IF b = NoBucket THEN at ELSE b.resetAt - Window, moments, at)
  /\ Spread(moments)

LimiterInv ==
  /\ clock \in Nat
  /\ bucket \in [Caller -> Bucket]
  /\ passed \in [Caller -> Seq(Nat)]
  /\ \A c \in Caller : Tally(bucket[c], passed[c], clock)

Sizes == Limit \in Nat /\ Limit > 0 /\ Window \in Nat /\ Window > 0

LEMMA SizesArePositive == RateAssumption => Sizes
  BY DEF RateAssumption, Sizes

\* One time more.
LEMMA Appended ==
  ASSUME NEW moments \in Seq(Nat), NEW at \in Nat, Ordered(moments, at)
  PROVE  /\ Append(moments, at) \in Seq(Nat) /\ Len(Append(moments, at)) = Len(moments) + 1
         /\ Len(moments) \in Nat
         /\ Append(moments, at)[Len(moments) + 1] = at
         /\ \A i \in 1..Len(moments) :
              /\ Append(moments, at)[i] = moments[i] /\ moments[i] \in Nat
              /\ i \in 1..Len(Append(moments, at))
         /\ \A i \in 1..Len(Append(moments, at)) : i \in 1..Len(moments) \/ i = Len(moments) + 1
         /\ Ordered(Append(moments, at), at)
<1> DEFINE longer == Append(moments, at)
<1>1. /\ longer \in Seq(Nat) /\ Len(longer) = Len(moments) + 1 /\ Len(moments) \in Nat
      /\ longer[Len(moments) + 1] = at
  OBVIOUS
<1>2. \A i \in 1..Len(moments) :
        longer[i] = moments[i] /\ moments[i] \in Nat /\ i \in 1..Len(longer)
  OBVIOUS
<1> HIDE DEF longer
<1>3. \A i \in 1..Len(longer) : i \in 1..Len(moments) \/ i = Len(moments) + 1
  BY <1>1
<1>4. \A i \in 1..Len(longer) : longer[i] <= at
  BY <1>1, <1>2, <1>3 DEF Ordered
<1>5. ASSUME NEW i \in 1..Len(longer), NEW j \in 1..Len(longer), i <= j
      PROVE  longer[i] <= longer[j]
  <2>1. CASE j \in 1..Len(moments)
    <3>1. i \in 1..Len(moments)
      BY <1>1, <1>5, <2>1
    <3>2. moments[i] <= moments[j]
      BY <1>5, <2>1, <3>1 DEF Ordered
    <3>3. longer[i] = moments[i] /\ longer[j] = moments[j]
      BY <1>2, <2>1, <3>1
    <3> QED  BY <3>2, <3>3
  <2>2. CASE j = Len(moments) + 1
    BY <1>1, <1>4, <2>2
  <2> QED  BY <1>3, <2>1, <2>2
<1>6. Ordered(longer, at)
  BY <1>4, <1>5 DEF Ordered
<1> QED  BY <1>1, <1>2, <1>3, <1>6 DEF longer

\* A window that is over counts for nothing any more.
LEMMA WindowEnds ==
  ASSUME Sizes, NEW k, NEW start \in Int, NEW moments \in Seq(Nat), NEW at \in Nat,
         Tallied(k, start, moments, at), k # 0, start + Window <= at
  PROVE  Tallied(0, at, moments, at)
<1>1. /\ Limit \in Nat /\ Limit > 0 /\ Window \in Nat /\ k \in Nat /\ k > 0 /\ k <= Limit
      /\ Len(moments) \in Nat /\ k <= Len(moments) /\ start = moments[Len(moments) - k + 1]
  BY DEF Sizes, Tallied
<1>2. ASSUME NEW i \in 1..Len(moments), i <= Len(moments) - 0 - Limit + 1
      PROVE  moments[i] + Window <= at
  <2> DEFINE first == Len(moments) - k + 1
  <2>1. first \in 1..Len(moments)
    BY <1>1
  <2>2. i <= first
    BY <1>1, <1>2
  <2>3. moments[first] = start
    BY <1>1
  <2> HIDE DEF first
  <2>4. moments[i] <= moments[first]
    BY <2>1, <2>2 DEF Tallied, Ordered
  <2>5. moments[i] \in Nat /\ Window \in Nat /\ moments[i] <= start
    BY <1>1, <2>3, <2>4
  <2> QED  BY <2>5
<1> QED  BY <1>1, <1>2 DEF Tallied

\* The first request of a window.
LEMMA WindowOpens ==
  ASSUME Sizes, NEW moments \in Seq(Nat), NEW at \in Nat, Tallied(0, at, moments, at)
  PROVE  Tallied(1, at, Append(moments, at), at)
<1> DEFINE longer == Append(moments, at)
<1>1. Limit \in Nat /\ Limit > 0 /\ Window \in Nat /\ Ordered(moments, at)
  BY DEF Sizes, Tallied
<1>2. /\ Len(longer) = Len(moments) + 1 /\ Len(moments) \in Nat /\ Ordered(longer, at)
      /\ longer[Len(moments) + 1] = at
      /\ \A i \in 1..Len(moments) : longer[i] = moments[i]
  BY <1>1, Appended
<1> HIDE DEF longer
<1>3. ASSUME NEW i \in 1..Len(longer), i <= Len(longer) - 1 - Limit + 1
      PROVE  longer[i] + Window <= at
  <2>1. i \in 1..Len(moments)
    BY <1>1, <1>2, <1>3
  <2>2. i <= Len(moments) - 0 - Limit + 1
    BY <1>1, <1>2, <1>3
  <2> QED  BY <1>2, <2>1, <2>2 DEF Tallied
<1>4. at = longer[Len(longer) - 1 + 1] /\ 1 <= Limit /\ 1 <= Len(longer)
  BY <1>1, <1>2
<1> QED  BY <1>2, <1>3, <1>4 DEF Tallied, longer

\* A further request of a window with room.
LEMMA WindowCounts ==
  ASSUME Sizes, NEW k, NEW start \in Int, NEW moments \in Seq(Nat), NEW at \in Nat,
         Tallied(k, start, moments, at), k # 0, k < Limit
  PROVE  Tallied(k + 1, start, Append(moments, at), at)
<1> DEFINE longer == Append(moments, at)
<1>1. /\ Limit \in Nat /\ Limit > 0 /\ Window \in Nat /\ k \in Nat /\ k > 0
      /\ Len(moments) \in Nat /\ k <= Len(moments) /\ start = moments[Len(moments) - k + 1]
      /\ Ordered(moments, at)
  BY DEF Sizes, Tallied
<1>2. /\ Len(longer) = Len(moments) + 1 /\ Ordered(longer, at)
      /\ \A i \in 1..Len(moments) : longer[i] = moments[i]
  BY <1>1, Appended
<1> HIDE DEF longer
<1>3. ASSUME NEW i \in 1..Len(longer), i <= Len(longer) - (k + 1) - Limit + 1
      PROVE  longer[i] + Window <= start
  <2>1. i \in 1..Len(moments)
    BY <1>1, <1>2, <1>3
  <2>2. i <= Len(moments) - k - Limit + 1
    BY <1>1, <1>2, <1>3
  <2> QED  BY <1>2, <2>1, <2>2 DEF Tallied
<1>4. start = longer[Len(longer) - (k + 1) + 1]
  <2>1. Len(moments) - k + 1 \in 1..Len(moments) /\ Len(longer) - (k + 1) + 1 = Len(moments) - k + 1
    BY <1>1, <1>2
  <2> QED  BY <1>1, <1>2, <2>1
<1>5. k + 1 \in Nat /\ k + 1 <= Limit /\ k + 1 <= Len(longer) /\ k + 1 # 0
  BY <1>1, <1>2
<1> QED  BY <1>2, <1>3, <1>4, <1>5 DEF Tallied, longer

\* Time passes, and brings a caller without a bucket nearer to a window.
LEMMA TimePasses ==
  ASSUME Sizes, NEW k, NEW start \in Int, NEW moments \in Seq(Nat), NEW at \in Nat,
         Tallied(k, start, moments, at)
  PROVE  Tallied(k, IF k = 0 THEN at + 1 ELSE start, moments, at + 1)
<1> DEFINE later == IF k = 0 THEN at + 1 ELSE start
<1>1. Window \in Nat /\ (\A i \in 1..Len(moments) : moments[i] \in Nat)
  BY DEF Sizes
<1>2. Ordered(moments, at + 1)
  BY <1>1 DEF Tallied, Ordered
<1>3. start <= later /\ later \in Int
  BY DEF Tallied
<1>4. (k # 0 => later = start) /\ (k = 0 => later = at + 1)
  OBVIOUS
<1> HIDE DEF later
<1>5. ASSUME NEW i \in 1..Len(moments), i <= Len(moments) - k - Limit + 1
      PROVE  moments[i] + Window <= later
  <2>1. moments[i] + Window <= start
    BY <1>5 DEF Tallied
  <2> QED  BY <1>1, <1>3, <2>1
<1>6. Tallied(k, later, moments, at + 1)
  BY <1>2, <1>4, <1>5 DEF Tallied
<1> QED  BY <1>6 DEF later

\* The last of the moments is far enough from the one two limits before it.
LEMMA LastIsSpread ==
  ASSUME Sizes, NEW k, NEW start \in Int, NEW moments \in Seq(Nat), NEW at \in Nat,
         Ordered(moments, at), Spread(moments),
         Tallied(k, start, Append(moments, at), at), k # 0
  PROVE  Spread(Append(moments, at))
<1> DEFINE longer == Append(moments, at)
           first == Len(longer) - k + 1
<1>1. /\ Limit \in Nat /\ Limit > 0 /\ Window \in Nat /\ k \in Nat /\ k > 0 /\ k <= Limit
      /\ k <= Len(longer) /\ start = longer[first] /\ Ordered(longer, at)
      /\ \A i \in 1..Len(longer) :
           i <= Len(longer) - k - Limit + 1 => longer[i] + Window <= start
  BY DEF Sizes, Tallied
<1>2. /\ longer \in Seq(Nat) /\ Len(longer) = Len(moments) + 1 /\ Len(moments) \in Nat
      /\ longer[Len(moments) + 1] = at
      /\ \A i \in 1..Len(moments) : longer[i] = moments[i] /\ moments[i] \in Nat
  BY Appended
<1> HIDE DEF longer
<1>3. first \in 1..Len(longer)
  BY <1>1, <1>2
<1>4. start \in Nat /\ start <= at
  <2> HIDE DEF first
  <2> QED  BY <1>1, <1>2, <1>3 DEF Ordered
<1>5. ASSUME NEW i \in 1..Len(longer), i + 2 * Limit - 1 <= Len(longer)
      PROVE  longer[i] + Window <= longer[i + 2 * Limit - 1]
  <2> DEFINE j == i + 2 * Limit - 1
  <2>1. CASE j <= Len(moments)
    <3>1. i \in 1..Len(moments) /\ j \in 1..Len(moments)
      BY <1>1, <1>2, <2>1
    <3>2. moments[i] + Window <= moments[j]
      BY <2>1, <3>1 DEF Spread
    <3> HIDE DEF j
    <3>3. longer[i] = moments[i] /\ longer[j] = moments[j]
      BY <1>2, <3>1
    <3>4. longer[i] + Window <= longer[j]
      BY <3>2, <3>3
    <3> QED  BY <3>4 DEF j
  <2>2. CASE j = Len(longer)
    <3>1. i <= Len(longer) - k - Limit + 1
      BY <1>1, <1>2, <2>2
    <3>2. longer[i] + Window <= start
      BY <1>1, <3>1
    <3>3. longer[j] = at /\ longer[i] \in Nat
      BY <1>2, <2>2
    <3> HIDE DEF j
    <3>4. longer[i] + Window <= longer[j]
      BY <1>1, <1>4, <3>2, <3>3
    <3> QED  BY <3>4 DEF j
  <2>3. j <= Len(moments) \/ j = Len(longer)
    <3>1. j \in Int /\ j <= Len(longer)
      BY <1>1, <1>5
    <3> HIDE DEF j
    <3> QED  BY <1>2, <3>1
  <2> QED  BY <2>1, <2>2, <2>3
<1>6. Spread(longer)
  BY <1>5 DEF Spread
<1> QED  BY <1>6 DEF longer

\* What the tally says of a bucket, and of there being none.
LEMMA TallyOfNone ==
  ASSUME NEW moments, NEW at
  PROVE  Tally(NoBucket, moments, at) <=> Tallied(0, at, moments, at) /\ Spread(moments)
  BY DEF Tally, NoBucket, NoBucket

LEMMA TallyOfSome ==
  ASSUME NEW b \in Bucket, NEW moments, NEW at, b.count # 0
  PROVE  Tally(b, moments, at) <=>
           Tallied(b.count, b.resetAt - Window, moments, at) /\ Spread(moments)
<1>1. b # NoBucket
  BY DEF NoBucket, NoBucket
<1> QED  BY <1>1 DEF Tally

\* Pruning leaves a caller its bucket, or takes one that is over.
LEMMA OverIsNone ==
  ASSUME Sizes, NEW b \in Bucket, NEW moments \in Seq(Nat), NEW at \in Nat,
         Tally(b, moments, at), at >= b.resetAt
  PROVE  Tally(NoBucket, moments, at)
<1>1. CASE b.count = 0
  BY <1>1 DEF Tally
<1>2. CASE b.count # 0
  <2> DEFINE start == b.resetAt - Window
  <2>1. Tallied(b.count, start, moments, at) /\ Spread(moments)
    BY <1>2, TallyOfSome
  <2>2. start \in Int /\ start + Window <= at
    BY DEF Bucket, Sizes
  <2> HIDE DEF start
  <2>3. Tallied(0, at, moments, at)
    BY <1>2, <2>1, <2>2, WindowEnds
  <2> QED  BY <2>1, <2>3, TallyOfNone
<1> QED  BY <1>1, <1>2

LEMMA PruningKeepsTally ==
  ASSUME Sizes, LimiterInv, NEW c \in Caller
  PROVE  /\ Pruned(bucket) \in [Caller -> Bucket]
         /\ Tally(Pruned(bucket)[c], passed[c], clock)
<1>1. NoBucket \in Bucket
  BY DEF NoBucket, NoBucket, Bucket
<1>2. Pruned(bucket) \in [Caller -> Bucket]
  BY <1>1 DEF Pruned, LimiterInv, NoBucket
<1>3. CASE Pruned(bucket)[c] = bucket[c]
  BY <1>2, <1>3 DEF LimiterInv
<1>4. CASE Pruned(bucket)[c] = NoBucket /\ Over(bucket[c])
  BY <1>2, <1>4, OverIsNone DEF LimiterInv, Over
<1> QED  BY <1>2, <1>3, <1>4 DEF Pruned, NoBucket, LimiterInv

\* A request let through: it opens a window, or counts in one.
LEMMA CountingKeepsTally ==
  ASSUME Sizes, clock \in Nat, NEW b \in Bucket, NEW moments \in Seq(Nat),
         Tally(b, moments, clock), ~Full(b)
  PROVE  /\ Counted(b) \in Bucket
         /\ Tally(Counted(b), Append(moments, clock), clock)
<1> DEFINE counted == Counted(b)
           longer == Append(moments, clock)
<1>1. Spread(moments) /\ Ordered(moments, clock) /\ b.count \in Nat /\ b.resetAt \in Nat
  BY DEF Tally, Tallied, Bucket
<1>2. Limit \in Nat /\ Limit > 0 /\ Window \in Nat /\ Window > 0
  BY DEF Sizes
<1>3. PICK k \in Nat, reset \in Nat :
        /\ counted = [count |-> k, resetAt |-> reset] /\ k # 0
        /\ Tallied(k, reset - Window, longer, clock)
  <2>1. CASE b = NoBucket \/ Over(b)
    <3>1. counted = [count |-> 1, resetAt |-> clock + Window]
      BY <2>1 DEF Counted, NoBucket
    <3>2. Tallied(0, clock, moments, clock)
      BY <2>1, OverIsNone, TallyOfNone DEF Over
    <3>3. Tallied(1, clock, longer, clock)
      BY <3>2, WindowOpens
    <3>4. clock + Window \in Nat /\ (clock + Window) - Window = clock
      BY <1>2
    <3> QED  BY <3>1, <3>3, <3>4
  <2>2. CASE b # NoBucket /\ ~Over(b)
    <3>1. counted = [b EXCEPT !.count = @ + 1]
      BY <2>2 DEF Counted, NoBucket
    <3>2. counted = [count |-> b.count + 1, resetAt |-> b.resetAt]
      BY <3>1 DEF Bucket
    <3>3. b.count # 0 /\ b.count < Limit
      BY <1>1, <1>2, <2>2 DEF Full, NoBucket, Tally
    <3> DEFINE start == b.resetAt - Window
    <3>4. Tallied(b.count, start, moments, clock)
      BY <3>3, TallyOfSome
    <3>5. start \in Int
      BY <1>1, <1>2
    <3> HIDE DEF start
    <3>6. Tallied(b.count + 1, start, longer, clock)
      BY <3>3, <3>4, <3>5, WindowCounts
    <3>7. b.count + 1 \in Nat /\ b.count + 1 # 0
      BY <1>1
    <3> QED  BY <1>1, <3>2, <3>6, <3>7 DEF start
  <2> QED  BY <2>1, <2>2
<1> HIDE DEF counted
<1>4. counted \in Bucket /\ counted.count = k /\ counted.resetAt = reset
  BY <1>3 DEF Bucket
<1>5. Spread(longer)
  <2> DEFINE start == reset - Window
  <2>1. start \in Int /\ Tallied(k, start, longer, clock)
    BY <1>2, <1>3
  <2> HIDE DEF start
  <2> QED  BY <1>1, <1>3, <2>1, LastIsSpread
<1>6. Tally(counted, longer, clock)
  BY <1>3, <1>4, <1>5, TallyOfSome
<1> QED  BY <1>4, <1>6 DEF counted

LEMMA LettingThrough ==
  ASSUME Sizes, LimiterInv, NEW c \in Caller, LetThrough(c)
  PROVE  LimiterInv'
<1> DEFINE bs == Pruned(bucket)
           counted == Counted(bs[c])
           longer == Append(passed[c], clock)
<1>1. /\ ~Full(bs[c]) /\ clock' = clock
      /\ bucket' = [bs EXCEPT ![c] = counted] /\ passed' = [passed EXCEPT ![c] = longer]
  BY DEF LetThrough
<1>2. bs \in [Caller -> Bucket] /\ \A d \in Caller : Tally(bs[d], passed[d], clock)
  BY PruningKeepsTally
<1>3. clock \in Nat /\ passed \in [Caller -> Seq(Nat)] /\ passed[c] \in Seq(Nat) /\ longer \in Seq(Nat)
  BY DEF LimiterInv
<1> HIDE DEF bs
<1>4. counted \in Bucket /\ Tally(counted, longer, clock)
  BY <1>1, <1>2, <1>3, CountingKeepsTally
<1> HIDE DEF counted, longer
<1>5. ASSUME NEW d \in Caller PROVE Tally(bucket'[d], passed'[d], clock')
  <2>1. CASE d = c
    BY <1>1, <1>2, <1>3, <1>4, <2>1
  <2>2. CASE d # c
    BY <1>1, <1>2, <1>3, <2>2
  <2> QED  BY <2>1, <2>2
<1> QED  BY <1>1, <1>2, <1>3, <1>4, <1>5 DEF LimiterInv

LEMMA Ticking ==
  ASSUME Sizes, LimiterInv, Tick
  PROVE  LimiterInv'
<1>1. clock' = clock + 1 /\ bucket' = bucket /\ passed' = passed
  BY DEF Tick
<1>2. ASSUME NEW c \in Caller PROVE Tally(bucket[c], passed[c], clock + 1)
  <2> DEFINE b == bucket[c]
             start == IF b = NoBucket THEN clock ELSE b.resetAt - Window
  <2>1. /\ b \in Bucket /\ passed[c] \in Seq(Nat) /\ clock \in Nat
        /\ Tallied(b.count, start, passed[c], clock) /\ Spread(passed[c])
        /\ b.count = 0 <=> b = NoBucket
    BY DEF LimiterInv, Tally, NoBucket, NoBucket
  <2>2. start \in Int
    BY <2>1 DEF Bucket, Sizes
  <2>3. (IF b.count = 0 THEN clock + 1 ELSE start)
          = IF b = NoBucket THEN clock + 1 ELSE b.resetAt - Window
    BY <2>1
  <2> HIDE DEF start
  <2>4. Tallied(b.count, IF b.count = 0 THEN clock + 1 ELSE start, passed[c], clock + 1)
    BY <2>1, <2>2, TimePasses
  <2> QED  BY <2>1, <2>3, <2>4 DEF Tally
<1> QED  BY <1>1, <1>2 DEF LimiterInv

LEMMA LimiterInvHolds == RateAssumption => (RateSpec => []LimiterInv)
<1> SUFFICES ASSUME Sizes PROVE RateSpec => []LimiterInv
  BY SizesArePositive
<1>1. RateInit => LimiterInv
  <2> SUFFICES ASSUME RateInit PROVE LimiterInv
    OBVIOUS
  <2>1. NoBucket \in Bucket
    BY DEF NoBucket, NoBucket, Bucket
  <2>2. clock = 0 /\ bucket \in [Caller -> Bucket] /\ passed \in [Caller -> Seq(Nat)]
    BY <2>1 DEF RateInit, NoBucket
  <2>3. \A c \in Caller : bucket[c] = NoBucket /\ passed[c] = <<>>
    BY DEF RateInit, NoBucket
  <2>4. Tallied(0, 0, <<>>, 0) /\ Spread(<<>>)
    BY DEF Tallied, Spread, Ordered, Sizes
  <2> QED  BY <2>2, <2>3, <2>4, TallyOfNone DEF LimiterInv
<1>2. LimiterInv /\ [RateNext]_(rateVars) => LimiterInv'
  <2> SUFFICES ASSUME LimiterInv, [RateNext]_(rateVars) PROVE LimiterInv'
    OBVIOUS
  <2>1. ASSUME NEW c \in Caller, LetThrough(c) PROVE LimiterInv'
    BY <2>1, LettingThrough
  <2>2. ASSUME NEW c \in Caller, TurnAway(c) PROVE LimiterInv'
    BY <2>2, PruningKeepsTally DEF LimiterInv, TurnAway
  <2>3. CASE Tick
    BY <2>3, Ticking
  <2>4. CASE UNCHANGED rateVars
    BY <2>4 DEF LimiterInv, rateVars
  <2> QED  BY <2>1, <2>2, <2>3, <2>4 DEF RateNext
<1> QED  BY <1>1, <1>2, PTL DEF RateSpec

(* No caller is let through two limits of times within a window, however   *)
(* requests, pruning and time interleave (edgeRateLimiter.ts:62-115).      *)
THEOREM LimiterHolds ==
  RateAssumption => (RateSpec => []UnderTwoLimits)
<1> SUFFICES ASSUME RateAssumption
             PROVE  RateSpec => []UnderTwoLimits
  OBVIOUS
<1>1. LimiterInv => UnderTwoLimits
  <2> SUFFICES ASSUME LimiterInv, NEW c \in Caller, NEW i \in DOMAIN passed[c],
                      i + 2 * Limit - 1 \in DOMAIN passed[c]
               PROVE  passed[c][i + 2 * Limit - 1] - passed[c][i] >= Window
    BY DEF UnderTwoLimits
  <2> DEFINE moments == passed[c]
             j == i + 2 * Limit - 1
  <2>1. moments \in Seq(Nat) /\ Spread(moments) /\ Window \in Nat
    BY SizesArePositive DEF LimiterInv, Tally, Sizes
  <2> HIDE DEF moments
  <2>2. i \in 1..Len(moments) /\ j \in 1..Len(moments) /\ j <= Len(moments)
    BY <2>1 DEF moments
  <2>3. moments[i] + Window <= moments[j]
    BY <2>1, <2>2 DEF Spread
  <2>4. moments[i] \in Nat /\ moments[j] \in Nat
    BY <2>1, <2>2
  <2> HIDE DEF j
  <2>5. moments[j] - moments[i] >= Window
    BY <2>1, <2>3, <2>4
  <2> QED  BY <2>5 DEF moments, j
<1> QED  BY <1>1, LimiterInvHolds, PTL
-----------------------------------------------------------------------------
(***************************************************************************)
(* The session.  A cookie of the current epoch goes back to a sign-in that *)
(* saw every revocation, for a raised epoch lies after every cookie there  *)
(* is.  A locked desk has no cookie, and no two calls share a number.      *)
(***************************************************************************)
Cookie == [at : Int, secret : Nat, brief : BOOLEAN, began : Nat]

CalledHere == DeskEndpoint \cup
            {Session, Locking, Passcode, PasscodeOfTheDay}

Word == {"none", "cookie", "member", "invalid", "ok", "unauthorized"}

Call == [n : 1..MaxCalls, endpoint : CalledHere, cookie : Cookie, whole : BOOLEAN,
         locked : BOOLEAN, step : {"sent", "served"}, answer : Word]

Current(x) == x \in Cookie /\ x.at <= now /\ (x.at >= epoch => x.began = revocations)

Distinct(cs) == \A c, d \in cs : c.n = d.n => c = d

CallSound(c) ==
  /\ c \in Call /\ Current(c.cookie)
  /\ c.step = "sent" => c.answer = "none"
  /\ c.step = "sent" /\ c.locked => c.cookie = NoCookie

CallsInv ==
  /\ IsFiniteSet(calls) /\ asked \in Nat /\ Cardinality(calls) <= asked
  /\ Distinct(calls)
  /\ \A c \in calls : CallSound(c)

ClockInv ==
  /\ now \in Nat /\ epoch \in Nat /\ revocations \in Nat
  /\ secrets \in {{1}, {1, 2}, {2}}
  /\ Current(jar) /\ Current(nav.cookie)
  /\ locked \in BOOLEAN /\ (locked => jar = NoCookie)

SessionInv == ClockInv /\ CallsInv

LEMMA NoCookieIsCurrent ==
  ASSUME now \in Nat, epoch \in Nat
  PROVE  Current(NoCookie)
  BY DEF Current, Cookie, NoCookie

LEMMA NewestIsASecret ==
  ASSUME secrets \in {{1}, {1, 2}, {2}}
  PROVE  Newest(secrets) \in {1, 2}
<1>1. \E s \in secrets : \A x \in secrets : x <= s
  <2>1. CASE secrets = {1}
    BY <2>1
  <2>2. CASE secrets = {1, 2}
    BY <2>2
  <2>3. CASE secrets = {2}
    BY <2>3
  <2> QED  BY <2>1, <2>2, <2>3
<1>2. Newest(secrets) \in secrets
  BY <1>1 DEF Newest
<1> QED  BY <1>2

\* A cookie made now, by someone let in or for a session that goes on.
LEMMA MintedIsCurrent ==
  ASSUME ClockInv, NEW x, Current(x), NEW v \in Verdicts(x)
  PROVE  Current(Minted(v, x))
<1>1. CASE v = "none"
  BY <1>1, NoCookieIsCurrent DEF Minted, ClockInv
<1>2. CASE v # "none"
  <2> DEFINE began == IF v = "member" THEN revocations ELSE x.began
  <2>1. Minted(v, x)
          = [at |-> now, secret |-> Newest(secrets), brief |-> FALSE, began |-> began]
    BY <1>2 DEF Minted
  <2>2. v = "member" \/ Good(x)
    BY <1>2 DEF Verdicts
  <2>3. began = revocations
    BY <2>2 DEF Good, Current
  <2>4. now \in Nat /\ revocations \in Nat /\ Newest(secrets) \in Nat
    BY NewestIsASecret DEF ClockInv
  <2> HIDE DEF began
  <2> QED  BY <2>1, <2>3, <2>4 DEF Current, Cookie
<1> QED  BY <1>1, <1>2

\* A call out of those there can be has a number of its own.
LEMMA FreeIsFree ==
  ASSUME AccessAssumption, CallsInv, asked < MaxCalls
  PROVE  Free \in 1..MaxCalls /\ (\A c \in calls : c.n # Free)
<1> DEFINE f == [c \in calls |-> c.n]
           taken == {c.n : c \in calls}
<1>1. MaxCalls \in Nat /\ asked \in Nat /\ IsFiniteSet(calls) /\ Cardinality(calls) <= asked
  BY DEF AccessAssumption, CallsInv
<1>2. IsFiniteSet(taken) /\ Cardinality(taken) <= Cardinality(calls)
  <2>1. f \in Surjection(calls, taken)
    BY DEF Surjection
  <2> HIDE DEF f, taken
  <2> QED  BY <1>1, <2>1, FS_Surjection
<1>3. IsFiniteSet(1..MaxCalls) /\ Cardinality(1..MaxCalls) = MaxCalls
  <2>1. 1 \in Int /\ MaxCalls \in Int
    BY <1>1
  <2>2. /\ IsFiniteSet(1..MaxCalls)
        /\ Cardinality(1..MaxCalls) = IF 1 > MaxCalls THEN 0 ELSE MaxCalls - 1 + 1
    BY <2>1, FS_Interval, Zenon
  <2> QED  BY <1>1, <2>2
<1>4. PICK n \in 1..MaxCalls : n \notin taken
  <2> SUFFICES ASSUME 1..MaxCalls \subseteq taken PROVE FALSE
    OBVIOUS
  <2> HIDE DEF taken
  <2>1. Cardinality(1..MaxCalls) <= Cardinality(taken)
    BY <1>2, FS_Subset
  <2>2. Cardinality(taken) \in Nat /\ Cardinality(calls) \in Nat
    BY <1>1, <1>2, FS_CardinalityType
  <2> QED  BY <1>1, <1>2, <1>3, <2>1, <2>2
<1>5. \A c \in calls : c.n # n
  BY <1>4
<1> QED  BY <1>4, <1>5 DEF Free

\* No call newly here has been let through by its cookie.
NoneLetIn == \A d \in calls' : d \in calls \/ d.answer # "cookie"

Still == UNCHANGED <<now, epoch, revocations>>

\* A call sent has the cookie of the browser, and none if the desk is locked.
LEMMA Sending ==
  ASSUME AccessAssumption, SessionInv, NEW e \in CalledHere, NEW whole \in BOOLEAN,
         Send(e, whole), Still
  PROVE  CallsInv' /\ NoneLetIn
<1>1. asked < MaxCalls /\ asked' = asked + 1
  BY DEF Send
<1>2. Free \in 1..MaxCalls /\ (\A c \in calls : c.n # Free)
  BY <1>1, FreeIsFree DEF SessionInv
<1>3. PICK new \in Call :
        /\ calls' = calls \cup {new} /\ (\A c \in calls : c.n # new.n)
        /\ new.answer = "none" /\ Current(new.cookie)
        /\ new.locked => new.cookie = NoCookie
  <2> DEFINE new == [n |-> Free, endpoint |-> e, cookie |-> jar, whole |-> whole,
                     locked |-> locked, step |-> "sent", answer |-> "none"]
  <2>1. Current(jar) /\ jar \in Cookie /\ locked \in BOOLEAN /\ (locked => jar = NoCookie)
    BY DEF SessionInv, ClockInv, Current
  <2>2. calls' = calls \cup {new}
    BY DEF Send
  <2>3. new \in Call
    BY <1>2, <2>1 DEF Call, Word
  <2>4. /\ new.n = Free /\ new.answer = "none" /\ new.cookie = jar
        /\ new.locked = locked
    OBVIOUS
  <2> HIDE DEF new
  <2> QED  BY <1>2, <2>1, <2>2, <2>3, <2>4
<1>4. CallSound(new)'
  <2>1. Current(new.cookie)'
    BY <1>3 DEF Current, Still
  <2> QED  BY <1>3, <2>1 DEF CallSound
<1>5. \A c \in calls : CallSound(c)'
  BY DEF CallSound, Current, Still, SessionInv, CallsInv
<1>6. IsFiniteSet(calls') /\ asked' \in Nat /\ Cardinality(calls') <= asked'
  <2>1. IsFiniteSet(calls) /\ asked \in Nat /\ Cardinality(calls) <= asked
    BY DEF SessionInv, CallsInv
  <2>2. Cardinality(calls) \in Nat
    BY <2>1, FS_CardinalityType
  <2>3. IsFiniteSet(calls') /\ Cardinality(calls') <= Cardinality(calls) + 1
    <3>1. /\ IsFiniteSet(calls \cup {new})
          /\ Cardinality(calls \cup {new})
               = IF new \in calls THEN Cardinality(calls) ELSE Cardinality(calls) + 1
      BY <2>1, FS_AddElement
    <3> QED  BY <1>3, <2>2, <3>1
  <2>4. Cardinality(calls') \in Nat
    BY <2>3, FS_CardinalityType
  <2> QED  BY <1>1, <2>1, <2>2, <2>3, <2>4
<1>7. Distinct(calls')
  BY <1>3 DEF Distinct, SessionInv, CallsInv
<1>8. \A c \in calls' : CallSound(c)'
  BY <1>3, <1>4, <1>5
<1>9. CallsInv'
  BY <1>6, <1>7, <1>8 DEF CallsInv
<1> QED  BY <1>3, <1>9 DEF NoneLetIn

\* A call answered, or lost, is gone.
LEMMA Ending ==
  ASSUME SessionInv, NEW c \in calls, calls' = calls \ {c}, asked' = asked, Still
  PROVE  CallsInv' /\ NoneLetIn
<1>1. \A d \in calls' : CallSound(d)'
  BY DEF CallSound, Current, Still, SessionInv, CallsInv
<1>2. IsFiniteSet(calls') /\ asked' \in Nat /\ Cardinality(calls') <= asked'
  <2>1. IsFiniteSet(calls) /\ asked \in Nat /\ Cardinality(calls) <= asked
    BY DEF SessionInv, CallsInv
  <2>2. Cardinality(calls) \in Nat /\ IsFiniteSet(calls')
    BY <2>1, FS_CardinalityType, FS_RemoveElement
  <2>3. Cardinality(calls') \in Nat /\ Cardinality(calls') <= Cardinality(calls)
    BY <2>1, <2>2, FS_CardinalityType, FS_Subset
  <2> QED  BY <2>1, <2>2, <2>3
<1>3. Distinct(calls')
  BY DEF Distinct, SessionInv, CallsInv
<1> QED  BY <1>1, <1>2, <1>3 DEF CallsInv, NoneLetIn

\* A call served keeps its number.
LEMMA Serving ==
  ASSUME SessionInv, NEW c \in calls, NEW d \in Call, d.n = c.n, d.step = "served",
         Current(d.cookie), calls' = (calls \ {c}) \cup {d}, asked' = asked, Still
  PROVE  CallsInv'
<1>1. \A x \in calls' : CallSound(x)'
  BY DEF CallSound, Current, Still, SessionInv, CallsInv
<1>2. IsFiniteSet(calls') /\ asked' \in Nat /\ Cardinality(calls') <= asked'
  <2> DEFINE rest == calls \ {c}
  <2>1. IsFiniteSet(calls) /\ asked \in Nat /\ Cardinality(calls) <= asked
    BY DEF SessionInv, CallsInv
  <2>2. Cardinality(calls) \in Nat
    BY <2>1, FS_CardinalityType
  <2>3. IsFiniteSet(rest) /\ Cardinality(rest) = Cardinality(calls) - 1
    BY <2>1, FS_RemoveElement
  <2>4. Cardinality(rest) \in Nat
    BY <2>3, FS_CardinalityType
  <2>5. calls' = rest \cup {d}
    OBVIOUS
  <2> HIDE DEF rest
  <2>6. IsFiniteSet(calls') /\ Cardinality(calls') <= Cardinality(rest) + 1
    <3>1. /\ IsFiniteSet(rest \cup {d})
          /\ Cardinality(rest \cup {d})
               = IF d \in rest THEN Cardinality(rest) ELSE Cardinality(rest) + 1
      BY <2>3, FS_AddElement
    <3> QED  BY <2>4, <2>5, <3>1
  <2>7. Cardinality(calls') \in Nat
    BY <2>6, FS_CardinalityType
  <2> QED  BY <2>1, <2>2, <2>3, <2>6, <2>7
<1>3. Distinct(calls')
  BY DEF Distinct, SessionInv, CallsInv
<1> QED  BY <1>1, <1>2, <1>3 DEF CallsInv

\* Nothing but the epoch or the time moves.
LEMMA Moving ==
  ASSUME SessionInv, now' \in Nat, now' >= now,
         \/ epoch' = epoch /\ revocations' = revocations
         \/ epoch' = now' /\ now' > now
  PROVE  \A x : Current(x) => Current(x)'
  BY DEF SessionInv, ClockInv, Current, Cookie

LEMMA MovingCalls ==
  ASSUME SessionInv, UNCHANGED <<calls, asked>>, \A x : Current(x) => Current(x)'
  PROVE  CallsInv' /\ NoneLetIn
  BY DEF SessionInv, CallsInv, CallSound, NoneLetIn

\* What an endpoint tells a stranger is never that the cookie let it in.
LEMMA StrangersAreStrangers ==
  \A e \in CalledHere : e.stranger \in {"ok", "unauthorized"}
<1>1. /\ Session.stranger = "ok" /\ Locking.stranger = "ok"
      /\ Passcode.stranger = "unauthorized"
      /\ PasscodeOfTheDay.stranger = "unauthorized"
  BY DEF Session, Locking, Passcode, PasscodeOfTheDay,
         Endpoint
<1>2. /\ SaveOverride.stranger = "unauthorized"
      /\ DeleteOverride.stranger = "unauthorized"
      /\ ListPatterns.stranger = "unauthorized"
  BY DEF SaveOverride, DeleteOverride, ListPatterns, Endpoint
<1> QED  BY <1>1, <1>2 DEF CalledHere, DeskEndpoint

LEMMA AnswersAreWords ==
  ASSUME NEW c \in Call, NEW v \in Verdicts(c.cookie)
  PROVE  /\ Answer(c, v) \in Word
         /\ Answer(c, v) = "cookie" => Good(c.cookie)
<1>1. v \in {"none", "cookie", "member"} /\ (v = "cookie" => Good(c.cookie))
  BY DEF Verdicts, Vouched
<1>2. c.endpoint \in CalledHere
  BY DEF Call
<1>3. c.endpoint.stranger \in {"ok", "unauthorized"}
  BY <1>2, StrangersAreStrangers
<1>4. Answer(c, v) \in {v, "invalid", c.endpoint.stranger}
  BY DEF Answer
<1> QED  BY <1>1, <1>3, <1>4 DEF Word

\* One step of the session's end: whoever is let in by a cookie has one of a
\* desk not locked, and of the current sign-ins.
EndsHere ==
  \A c \in calls, d \in calls' :
    (c.step = "sent" /\ d.n = c.n /\ d.answer = "cookie") =>
      (~c.locked /\ c.cookie.began = revocations)

LEMMA NoneLetInEnds ==
  ASSUME SessionInv, NoneLetIn
  PROVE  EndsHere
<1> SUFFICES ASSUME NEW c \in calls, NEW d \in calls', c.step = "sent", d.n = c.n,
                    d.answer = "cookie"
             PROVE  FALSE
  BY DEF EndsHere
<1>1. d \in calls
  BY DEF NoneLetIn
<1>2. d = c
  BY <1>1 DEF SessionInv, CallsInv, Distinct
<1> QED  BY <1>2 DEF SessionInv, CallsInv, CallSound

LEMMA ServeStep ==
  ASSUME SessionInv, NEW c \in calls, Serve(c)
  PROVE  SessionInv' /\ EndsHere
<1>1. PICK v \in Verdicts(c.cookie) :
        calls' = (calls \ {c}) \cup
                   {[c EXCEPT !.step = "served", !.answer = Answer(c, v),
                              !.cookie = NoCookie, !.locked = FALSE]}
  BY DEF Serve
<1> DEFINE d == [c EXCEPT !.step = "served", !.answer = Answer(c, v),
                          !.cookie = NoCookie, !.locked = FALSE]
<1>2. c \in Call /\ CallSound(c) /\ Distinct(calls) /\ NoCookie \in Cookie
  BY NoCookieIsCurrent DEF SessionInv, ClockInv, CallsInv, CallSound, Current
<1>3. /\ Answer(c, v) \in Word
      /\ Answer(c, v) = "cookie" => Good(c.cookie)
  BY <1>2, AnswersAreWords
<1>4. d \in Call
  BY <1>2, <1>3 DEF Call
<1>5. d.n = c.n /\ d.step = "served"
  BY <1>2 DEF Call
<1>6. d.cookie = NoCookie
  BY <1>2 DEF Call
<1>7. d.answer = Answer(c, v)
  BY <1>2 DEF Call
<1>8. /\ Still /\ asked' = asked /\ secrets' = secrets
      /\ UNCHANGED <<jar, nav, locked>>
  BY DEF Serve, Operators, Still
<1>9. calls' = (calls \ {c}) \cup {d}
  BY <1>1
<1> HIDE DEF d
<1>10. CallsInv'
  <2>1. Current(d.cookie)
    BY <1>6, NoCookieIsCurrent DEF SessionInv, ClockInv
  <2> QED  BY <1>4, <1>5, <1>8, <1>9, <2>1, Serving
<1>11. ClockInv'
  BY <1>8 DEF SessionInv, ClockInv, Current, Still
<1>12. EndsHere
  <2> SUFFICES ASSUME NEW x \in calls, NEW y \in calls', x.step = "sent", y.n = x.n,
                      y.answer = "cookie"
               PROVE  ~x.locked /\ x.cookie.began = revocations
    BY DEF EndsHere
  <2>1. CASE y = d
    <3>1. x = c
      BY <1>2, <1>5, <2>1 DEF Distinct
    <3>2. Good(c.cookie)
      BY <1>3, <1>7, <2>1
    <3>3. c.cookie # NoCookie /\ c.cookie.began = revocations
      BY <1>2, <3>2 DEF Good, CallSound, Current
    <3> QED  BY <1>2, <3>1, <3>3 DEF CallSound
  <2>2. CASE y \in calls
    <3>1. y = x
      BY <1>2, <2>2 DEF Distinct
    <3> QED  BY <3>1 DEF SessionInv, CallsInv, CallSound
  <2> QED  BY <1>9, <2>1, <2>2
<1> QED  BY <1>10, <1>11, <1>12 DEF SessionInv

LEMMA CheckPasscodeStep ==
  ASSUME SessionInv, NEW c \in calls, CheckPasscode(c)
  PROVE  SessionInv' /\ EndsHere
<1>1. PICK cookie \in Opened(c) :
        calls' = (calls \ {c}) \cup
                   {[c EXCEPT !.step = "served", !.cookie = cookie, !.locked = FALSE,
                              !.answer = IF cookie = NoCookie THEN "none" ELSE "member"]}
  BY DEF CheckPasscode
<1> DEFINE word == IF cookie = NoCookie THEN "none" ELSE "member"
           d == [c EXCEPT !.step = "served", !.cookie = cookie, !.locked = FALSE, !.answer = word]
<1>2. c \in Call
  BY DEF SessionInv, CallsInv, CallSound
<1>3. Current(cookie)
  <2>1. CASE cookie = NoCookie
    BY <2>1, NoCookieIsCurrent DEF SessionInv, ClockInv
  <2>2. CASE cookie # NoCookie
    <3> DEFINE brief == c.endpoint = PasscodeOfTheDay
    <3>1. cookie = [at |-> now, secret |-> Newest(secrets), brief |-> brief,
                    began |-> revocations]
      BY <2>2 DEF Opened
    <3>2. now \in Nat /\ revocations \in Nat /\ Newest(secrets) \in Nat
      BY NewestIsASecret DEF SessionInv, ClockInv
    <3>3. brief \in BOOLEAN
      OBVIOUS
    <3> HIDE DEF brief
    <3> QED  BY <3>1, <3>2, <3>3 DEF Current, Cookie
  <2> QED  BY <2>1, <2>2
<1>4. cookie \in Cookie
  BY <1>3 DEF Current
<1>5. word \in {"none", "member"}
  OBVIOUS
<1> HIDE DEF word
<1>6. d \in Call
  BY <1>2, <1>4, <1>5 DEF Call, Word
<1>7. d.n = c.n /\ d.step = "served"
  BY <1>2 DEF Call
<1>8. d.cookie = cookie
  BY <1>2 DEF Call
<1>9. d.answer = word
  BY <1>2 DEF Call
<1>10. calls' = (calls \ {c}) \cup {d}
  BY <1>1 DEF word
<1>11. /\ Still /\ asked' = asked /\ secrets' = secrets
       /\ UNCHANGED <<jar, nav, locked>>
  BY DEF CheckPasscode, Operators, Still
<1> HIDE DEF d
<1>12. CallsInv'
  BY <1>3, <1>6, <1>7, <1>8, <1>10, <1>11, Serving
<1>13. ClockInv'
  BY <1>11 DEF SessionInv, ClockInv, Current, Still
<1>14. NoneLetIn
  BY <1>5, <1>9, <1>10 DEF NoneLetIn
<1> QED  BY <1>12, <1>13, <1>14, NoneLetInEnds DEF SessionInv

\* The clock, the operators and the sign-in link.
LEMMA DayStep ==
  ASSUME SessionInv, Day
  PROVE  SessionInv' /\ NoneLetIn
<1>1. /\ now \in Nat /\ now' = now + 1 /\ jar' \in {jar, NoCookie}
      /\ UNCHANGED <<epoch, secrets, revocations, nav, calls, asked, locked>>
  BY DEF Day, Operators, Desk, SessionInv, ClockInv
<1>2. \A x : Current(x) => Current(x)'
  BY <1>1, Moving
<1>3. Current(jar') /\ Current(nav.cookie)
  BY <1>1, NoCookieIsCurrent DEF SessionInv, ClockInv
<1>4. ClockInv'
  BY <1>1, <1>2, <1>3 DEF SessionInv, ClockInv
<1> QED  BY <1>1, <1>2, <1>4, MovingCalls DEF SessionInv

LEMMA RaiseEpochStep ==
  ASSUME SessionInv, RaiseEpoch
  PROVE  SessionInv' /\ NoneLetIn
<1>1. /\ now \in Nat /\ now' = now + 1 /\ epoch' = now' /\ revocations' = revocations + 1
      /\ UNCHANGED <<secrets, jar, nav, calls, asked, locked>>
  BY DEF RaiseEpoch, Operators, Desk, SessionInv, ClockInv
<1>2. \A x : Current(x) => Current(x)'
  BY <1>1, Moving
<1>3. ClockInv'
  BY <1>1, <1>2 DEF SessionInv, ClockInv
<1> QED  BY <1>1, <1>2, <1>3, MovingCalls DEF SessionInv

LEMMA SecretsStep ==
  ASSUME SessionInv, Rotate \/ DropSecret
  PROVE  SessionInv' /\ NoneLetIn
<1>1. Still /\ UNCHANGED <<jar, nav, calls, asked, locked>>
  BY DEF Rotate, DropSecret, Desk, Still
<1>2. secrets' \in {{1}, {1, 2}, {2}}
  <2>1. secrets \in {{1}, {1, 2}, {2}} /\ Newest(secrets) \in {1, 2}
    BY NewestIsASecret DEF SessionInv, ClockInv
  <2>2. CASE Rotate
    <3>1. secrets' = secrets \cup {2}
      BY <2>2 DEF Rotate
    <3> QED  BY <2>1, <3>1
  <2>3. CASE DropSecret
    BY <2>1, <2>3 DEF DropSecret
  <2> QED  BY <2>2, <2>3
<1>3. \A x : Current(x) => Current(x)'
  BY <1>1 DEF Current, Still
<1>4. ClockInv'
  BY <1>1, <1>2, <1>3 DEF SessionInv, ClockInv, Still
<1> QED  BY <1>1, <1>3, <1>4, MovingCalls DEF SessionInv

LEMMA LinkStep ==
  ASSUME SessionInv, SignIn \/ Redirect \/ SignedIn
  PROVE  SessionInv' /\ NoneLetIn
<1>1. Still /\ UNCHANGED <<secrets, calls, asked>>
  BY DEF SignIn, Redirect, SignedIn, Operators, Desk, Still
<1>2. \A x : Current(x) => Current(x)'
  BY <1>1 DEF Current, Still
<1>3. Current(jar') /\ Current(nav'.cookie) /\ locked' \in BOOLEAN
      /\ (locked' => jar' = NoCookie)
  <2>1. CASE SignIn
    BY <2>1 DEF SignIn, Desk, SessionInv, ClockInv
  <2>2. CASE Redirect
    <3>1. PICK v \in Verdicts(nav.cookie) :
            nav' = [step |-> "minted", cookie |-> Minted(v, nav.cookie),
                    renews |-> v = "cookie"]
      BY <2>2 DEF Redirect
    <3>2. nav'.cookie = Minted(v, nav.cookie) /\ Current(nav.cookie)
      BY <3>1 DEF SessionInv, ClockInv
    <3>3. Current(nav'.cookie)
      BY <3>2, MintedIsCurrent DEF SessionInv
    <3> QED  BY <2>2, <3>3 DEF Redirect, Desk, SessionInv, ClockInv
  <2>3. CASE SignedIn
    <3>1. nav'.cookie = NoCookie
      BY <2>3 DEF SignedIn, NoNav
    <3>2. Current(nav'.cookie)
      BY <3>1, NoCookieIsCurrent DEF SessionInv, ClockInv
    <3> QED  BY <2>3, <3>2 DEF SignedIn, SessionInv, ClockInv
  <2> QED  BY <2>1, <2>2, <2>3
<1>4. ClockInv'
  <2>1. Current(jar)' /\ Current(nav.cookie)'
    BY <1>1, <1>3 DEF Current, Still
  <2> QED  BY <1>1, <1>3, <2>1 DEF SessionInv, ClockInv, Still
<1> QED  BY <1>1, <1>2, <1>4, MovingCalls DEF SessionInv

\* The page's calls.
LEMMA CallingStep ==
  ASSUME AccessAssumption, SessionInv,
         \/ CheckSession \/ Lock
         \/ \E e \in DeskEndpoint, whole \in BOOLEAN : Act(e, whole)
         \/ \E e \in {Passcode, PasscodeOfTheDay}, right \in BOOLEAN :
              LogIn(e, right)
  PROVE  SessionInv' /\ NoneLetIn
<1>1. PICK e \in CalledHere, whole \in BOOLEAN : Send(e, whole)
  BY DEF CheckSession, Lock, Act, LogIn, CalledHere
<1>2. Still /\ UNCHANGED <<secrets, jar, nav, locked>>
  BY DEF CheckSession, Lock, Act, LogIn, Operators, Still
<1>3. ClockInv'
  BY <1>2 DEF SessionInv, ClockInv, Current, Still
<1> QED  BY <1>1, <1>2, <1>3, Sending DEF SessionInv

LEMMA AnsweredStep ==
  ASSUME SessionInv, NEW c \in calls,
         \/ LoggedIn(c) \/ SessionAnswered(c) \/ LockAnswered(c)
         \/ ActAnswered(c) \/ CallLost(c)
  PROVE  SessionInv' /\ NoneLetIn
<1>1. Still /\ calls' = calls \ {c} /\ UNCHANGED <<secrets, nav, asked>>
  BY DEF LoggedIn, SessionAnswered, LockAnswered, ActAnswered,
         CallLost, Operators, Still
<1>2. Current(jar') /\ locked' \in BOOLEAN /\ (locked' => jar' = NoCookie)
  <2>1. Current(c.cookie) /\ Current(jar) /\ Current(NoCookie)
    BY NoCookieIsCurrent DEF SessionInv, CallsInv, CallSound, ClockInv
  <2>2. CASE LoggedIn(c)
    BY <2>1, <2>2 DEF LoggedIn, SessionInv, ClockInv
  <2>3. CASE LockAnswered(c)
    BY <2>1, <2>3 DEF LockAnswered, Cleared
  <2>4. CASE SessionAnswered(c) \/ ActAnswered(c) \/ CallLost(c)
    BY <2>1, <2>4 DEF SessionAnswered, ActAnswered, CallLost,
                      SessionInv, ClockInv
  <2> QED  BY <2>2, <2>3, <2>4
<1>3. ClockInv'
  <2>1. Current(jar)' /\ Current(nav.cookie)'
    BY <1>1, <1>2 DEF Current, Still, SessionInv, ClockInv
  <2> QED  BY <1>1, <1>2, <2>1 DEF SessionInv, ClockInv, Still
<1> QED  BY <1>1, <1>3, Ending DEF SessionInv

LEMMA SessionStep ==
  ASSUME AccessAssumption, SessionInv, AccessNext
  PROVE  SessionInv' /\ EndsHere
<1>1. CASE Day
  BY <1>1, DayStep, NoneLetInEnds
<1>2. CASE RaiseEpoch
  BY <1>2, RaiseEpochStep, NoneLetInEnds
<1>3. CASE Rotate \/ DropSecret
  BY <1>3, SecretsStep, NoneLetInEnds
<1>4. CASE SignIn \/ Redirect \/ SignedIn
  BY <1>4, LinkStep, NoneLetInEnds
<1>5. CASE \/ CheckSession \/ Lock
           \/ \E e \in DeskEndpoint, whole \in BOOLEAN : Act(e, whole)
           \/ \E e \in {Passcode, PasscodeOfTheDay}, right \in BOOLEAN :
                LogIn(e, right)
  BY <1>5, CallingStep, NoneLetInEnds
<1>6. ASSUME NEW c \in calls, CheckPasscode(c) PROVE SessionInv' /\ EndsHere
  BY <1>6, CheckPasscodeStep
<1>7. ASSUME NEW c \in calls, Serve(c) PROVE SessionInv' /\ EndsHere
  BY <1>7, ServeStep
<1>8. ASSUME NEW c \in calls,
             \/ LoggedIn(c) \/ SessionAnswered(c) \/ LockAnswered(c)
             \/ ActAnswered(c) \/ CallLost(c)
      PROVE  SessionInv' /\ EndsHere
  BY <1>8, AnsweredStep, NoneLetInEnds
<1> QED  BY <1>1, <1>2, <1>3, <1>4, <1>5, <1>6, <1>7, <1>8 DEF AccessNext

(* Whoever is let in by a cookie alone has one of a desk that is not       *)
(* locked, and of a session signed into since the last revocation, however *)
(* it was renewed and whatever secret signed it                            *)
(* (curatorAuthHandler.ts:145-185, functions/api/curator/auth.ts:75-130).  *)
THEOREM SessionsEnd ==
  AccessAssumption => (AccessSpec => SessionEnds)
<1> SUFFICES ASSUME AccessAssumption
             PROVE  AccessSpec => SessionEnds
  OBVIOUS
<1>1. AccessInit => SessionInv
  <2> SUFFICES ASSUME AccessInit PROVE SessionInv
    OBVIOUS
  <2>1. /\ now = 0 /\ epoch = 0 /\ revocations = 0 /\ secrets = {1} /\ jar = NoCookie
        /\ nav.cookie = NoCookie /\ locked = FALSE /\ calls = {} /\ asked = 0
    BY DEF AccessInit, NoNav
  <2>2. Current(jar) /\ Current(nav.cookie)
    BY <2>1, NoCookieIsCurrent
  <2>3. IsFiniteSet(calls) /\ Cardinality(calls) = 0
    BY <2>1, FS_EmptySet
  <2>4. CallsInv
    BY <2>1, <2>3 DEF CallsInv, Distinct
  <2>5. ClockInv
    BY <2>1, <2>2 DEF ClockInv
  <2> QED  BY <2>4, <2>5 DEF SessionInv
<1>2. SessionInv /\ [AccessNext]_(accessVars) => SessionInv'
  <2>1. ASSUME SessionInv, UNCHANGED accessVars PROVE SessionInv'
    BY <2>1 DEF SessionInv, ClockInv, CallsInv, CallSound, Current, accessVars
  <2> QED  BY <2>1, SessionStep
<1>3. SessionInv /\ [AccessNext]_(accessVars)
        => [EndsHere]_(accessVars)
  BY SessionStep
<1>4. SessionInv /\ [AccessNext]_(accessVars)
        => [\A c \in calls, d \in calls' :
              (c.step = "sent" /\ d.n = c.n /\ d.answer = "cookie") =>
                (~c.locked /\ c.cookie.began = revocations)]_(accessVars)
  BY <1>3 DEF EndsHere
<1> QED  BY <1>1, <1>2, <1>4, PTL DEF AccessSpec, SessionEnds

-----------------------------------------------------------------------------
(***************************************************************************)
(* The edge.  What a copy, a feed or a call under way holds was current at *)
(* some time not long ago, and is at least what the last purge promised.   *)
(***************************************************************************)
Behind == IF address.fromFeed THEN 420 ELSE 0

HeldAt(v, t) ==
  /\ v \in 1..version /\ v >= floor
  /\ v < version => replacedAt[v] >= t

Asked(c) ==
  /\ "step" \in DOMAIN c /\ "version" \in DOMAIN c
  /\ c.version \in Int
  /\ c.version > 0 => HeldAt(c.version, edgeNow - Behind)

TimesInv ==
  /\ EdgeChanges \in Nat
  /\ address \in Cache!Address
  /\ edgeNow \in Nat /\ version \in 1..(EdgeChanges + 1) /\ floor \in 0..version
  /\ replacedAt \in [1..(EdgeChanges + 1) -> Nat]

CopyInv ==
  /\ copy.version \in Int /\ copy.at \in Nat /\ copy.at <= edgeNow
  /\ copy.version # Cache!Error
  /\ copy.version > 0 => HeldAt(copy.version, copy.at - Behind)

FeedInv ==
  /\ feedCopy.version \in Int /\ feedCopy.at \in Nat /\ feedCopy.at <= edgeNow
  /\ feedCopy.kept \in {Cache!LiveFeedKept, Cache!StaticFeedKept}
  /\ feedCopy.version >= 0
  /\ feedCopy.version > 0 => HeldAt(feedCopy.version, feedCopy.at)

ShownInv ==
  /\ edgeShown \in Int
  /\ edgeShown > 0 => HeldAt(edgeShown, edgeNow - Cache!KeptFor)

EdgeInv ==
  /\ TimesInv /\ CopyInv /\ FeedInv /\ ShownInv
  /\ \A c \in edgeCalls : Asked(c)

Timed(a) == a.fresh \in Nat /\ a.stale \in Nat /\ a.fromFeed \in BOOLEAN

LEMMA AddressesAreTimed == \A a \in Cache!Address : Timed(a)
<1>1. Timed(Cache!ArchiveSearch)
  BY DEF Timed, Cache!Kept, Cache!ArchiveSearch
<1>2. Timed(Cache!Subgraph)
  BY DEF Timed, Cache!Kept, Cache!Subgraph
<1>3. Timed(Cache!ThreadList)
  BY DEF Timed, Cache!Kept, Cache!ThreadList
<1>4. Timed(Cache!ThreadDetail)
  BY DEF Timed, Cache!Kept, Cache!ThreadDetail
<1>5. Timed(Cache!ApprovedPatterns)
  BY DEF Timed, Cache!Kept, Cache!ApprovedPatterns
<1>6. Timed(Cache!TopicResource)
  BY DEF Timed, Cache!Kept, Cache!TopicResource
<1>7. Timed(Cache!EntityDossier)
  BY DEF Timed, Cache!Kept, Cache!EntityDossier
<1>8. Timed(Cache!SupplierDirectory)
  BY DEF Timed, Cache!Kept, Cache!SupplierDirectory
<1>9. Timed(Cache!SupplierDossier)
  BY DEF Timed, Cache!Kept, Cache!SupplierDossier
<1>10. Timed(Cache!SupplierGrowth)
  BY DEF Timed, Cache!Kept, Cache!SupplierGrowth
<1>11. Timed(Cache!Sitemap)
  BY DEF Timed, Cache!Kept, Cache!Sitemap
<1>12. Timed(Cache!LlmsTxt)
  BY DEF Timed, Cache!Kept, Cache!LlmsTxt
<1>13. Timed(Cache!LlmsFullTxt)
  BY DEF Timed, Cache!Kept, Cache!LlmsFullTxt
<1>14. Timed(Cache!StoryPage)
  BY DEF Timed, Cache!Kept, Cache!StoryPage
<1> QED
  BY <1>1, <1>2, <1>3, <1>4, <1>5, <1>6, <1>7, <1>8,
     <1>9, <1>10, <1>11, <1>12, <1>13, <1>14, Zenon DEF Cache!Address

LEMMA KeptForIsLength ==
  ASSUME TimesInv
  PROVE  /\ address.fresh \in Nat /\ address.stale \in Nat
         /\ Behind \in {0, 420} /\ Cache!KeptFor = address.fresh + address.stale + Behind
         /\ address.fromFeed => Behind = 420
  BY AddressesAreTimed DEF TimesInv, Timed, Behind, Cache!KeptFor

\* What was current at a time was current before it.
LEMMA HeldBefore ==
  ASSUME TimesInv, NEW v, NEW t \in Int, NEW u \in Int, u <= t, HeldAt(v, t)
  PROVE  HeldAt(v, u)
  BY DEF HeldAt, TimesInv

\* What is answered and kept is as old as what it was read from.
LEMMA SteppedCall ==
  ASSUME NEW c, Asked(c), NEW to, NEW v
  PROVE  LET d == [c EXCEPT !.step = to, !.version = v]
         IN /\ "step" \in DOMAIN d /\ "version" \in DOMAIN d
            /\ d.version = v
  BY DEF Asked

Same == UNCHANGED <<address, edgeNow, version, replacedAt, floor>>

LEMMA SameHolds ==
  ASSUME Same
  PROVE  /\ Behind' = Behind /\ Cache!KeptFor' = Cache!KeptFor
         /\ \A v, t : HeldAt(v, t)' <=> HeldAt(v, t)
         /\ TimesInv => TimesInv'
         /\ \A c : Asked(c) => Asked(c)'
         /\ copy' = copy /\ CopyInv => CopyInv'
         /\ feedCopy' = feedCopy /\ FeedInv => FeedInv'
         /\ edgeShown' = edgeShown /\ ShownInv => ShownInv'
<1>1. Behind' = Behind /\ Cache!KeptFor' = Cache!KeptFor
  BY DEF Same, Behind, Cache!KeptFor
<1>2. \A v, t : HeldAt(v, t)' <=> HeldAt(v, t)
  BY DEF Same, HeldAt
<1>3. TimesInv => TimesInv'
  BY DEF Same, TimesInv
<1>4. \A c : Asked(c) => Asked(c)'
  BY <1>1 DEF Same, HeldAt, Asked
<1>5. copy' = copy /\ CopyInv => CopyInv'
  BY <1>1 DEF Same, HeldAt, CopyInv
<1>6. feedCopy' = feedCopy /\ FeedInv => FeedInv'
  BY DEF Same, HeldAt, FeedInv
<1>7. edgeShown' = edgeShown /\ ShownInv => ShownInv'
  BY <1>1 DEF Same, HeldAt, ShownInv
<1> QED  BY <1>1, <1>2, <1>3, <1>4, <1>5, <1>6, <1>7

\* A copy that may be answered with is recent enough to be shown.
LEMMA UsableIsShowable ==
  ASSUME EdgeInv, Cache!Usable(copy, address), copy.version > 0
  PROVE  HeldAt(copy.version, edgeNow - Cache!KeptFor)
<1>1. /\ address.fresh \in Nat /\ address.stale \in Nat /\ Behind \in {0, 420}
      /\ Cache!KeptFor = address.fresh + address.stale + Behind
  BY KeptForIsLength DEF EdgeInv
<1>2. /\ TimesInv /\ edgeNow \in Nat /\ copy.at \in Nat
      /\ HeldAt(copy.version, copy.at - Behind)
  BY DEF EdgeInv, CopyInv, TimesInv
<1>3. edgeNow - copy.at < address.fresh + address.stale
  BY DEF Cache!Usable
<1> DEFINE t == copy.at - Behind
           u == edgeNow - Cache!KeptFor
<1>4. t \in Int /\ u \in Int /\ u <= t
  BY <1>1, <1>2, <1>3
<1>5. HeldAt(copy.version, t)
  BY <1>2
<1> HIDE DEF t, u
<1>6. HeldAt(copy.version, u)
  BY <1>2, <1>4, <1>5, HeldBefore
<1> QED  BY <1>6 DEF u

LEMMA FreshIsUsable ==
  ASSUME TimesInv, CopyInv, Cache!Fresh(copy, address)
  PROVE  Cache!Usable(copy, address)
  BY KeptForIsLength DEF Cache!Fresh, Cache!Usable, TimesInv, CopyInv

LEMMA PassStep ==
  ASSUME EdgeInv, NEW s \in Cache!Lengths, Cache!Pass(s)
  PROVE  EdgeInv'
<1>1. s \in Nat
  BY KeptForIsLength DEF Cache!Lengths, EdgeInv
<1>2. /\ edgeCalls' = {} /\ edgeShown' = 0 /\ edgeNow' = edgeNow + s
      /\ UNCHANGED <<address, version, replacedAt, copy, feedCopy, floor>>
  BY DEF Cache!Pass
<1>3. TimesInv'
  BY <1>1, <1>2 DEF EdgeInv, TimesInv
<1>4. CopyInv'
  BY <1>1, <1>2 DEF EdgeInv, TimesInv, CopyInv, HeldAt, Behind
<1>5. FeedInv'
  BY <1>1, <1>2 DEF EdgeInv, TimesInv, FeedInv, HeldAt
<1> QED  BY <1>2, <1>3, <1>4, <1>5 DEF EdgeInv, ShownInv

\* What was current some time ago, before a change, was so after it.
LEMMA ChangeStep ==
  ASSUME EdgeInv, Cache!Change
  PROVE  EdgeInv'
<1>1. /\ version <= EdgeChanges /\ version' = version + 1
      /\ replacedAt' = [replacedAt EXCEPT ![version] = edgeNow]
      /\ UNCHANGED <<address, edgeNow, copy, feedCopy, edgeCalls, edgeShown, floor>>
  BY DEF Cache!Change
<1>2. TimesInv /\ TimesInv'
  BY <1>1 DEF EdgeInv, TimesInv
<1>3. ASSUME NEW v, NEW t \in Int, t <= edgeNow, HeldAt(v, t)
      PROVE  HeldAt(v, t)'
  <2>1. v \in 1..version /\ v \in 1..version' /\ v >= floor'
    BY <1>1, <1>2, <1>3 DEF HeldAt, TimesInv
  <2>2. CASE v = version
    BY <1>1, <1>2, <1>3, <2>1, <2>2 DEF HeldAt, TimesInv
  <2>3. CASE v # version
    <3>1. v < version /\ replacedAt'[v] = replacedAt[v]
      BY <1>1, <1>2, <2>1, <2>3 DEF TimesInv
    <3> QED  BY <1>3, <2>1, <3>1 DEF HeldAt
  <2> QED  BY <2>2, <2>3
<1>4. /\ Behind' = Behind /\ Behind \in {0, 420} /\ Cache!KeptFor \in Nat
      /\ Cache!KeptFor' = Cache!KeptFor /\ edgeNow \in Nat
  BY <1>1, <1>2, KeptForIsLength DEF Behind, Cache!KeptFor, TimesInv
<1>5. CopyInv'
  <2>1. copy.at \in Nat /\ copy.at <= edgeNow
    BY DEF EdgeInv, CopyInv
  <2>2. PICK t \in Int : t = copy.at - Behind /\ t <= edgeNow
    BY <1>4, <2>1
  <2>3. PICK v \in Int : v = copy.version
    BY DEF EdgeInv, CopyInv
  <2>4. v > 0 => HeldAt(v, t)'
    BY <1>3, <2>2, <2>3 DEF EdgeInv, CopyInv
  <2>5. copy'.version = v /\ (copy.at - Behind)' = t
    BY <1>1, <1>4, <2>2, <2>3
  <2> QED  BY <1>1, <2>4, <2>5 DEF EdgeInv, CopyInv
<1>6. FeedInv'
  BY <1>1, <1>3 DEF EdgeInv, FeedInv, TimesInv
<1>7. ShownInv'
  BY <1>1, <1>3, <1>4 DEF EdgeInv, ShownInv, TimesInv
<1>8. \A c \in edgeCalls' : Asked(c)'
  BY <1>1, <1>3, <1>4 DEF EdgeInv, Asked, TimesInv
<1> QED  BY <1>2, <1>5, <1>6, <1>7, <1>8 DEF EdgeInv

\* A copy answers, or the function is called, or both.
LEMMA NewCallIsAsked ==
  ASSUME TimesInv
  PROVE  Asked(Cache!NewCall)
  BY DEF Cache!NewCall, Asked

LEMMA LookupStep ==
  ASSUME EdgeInv, Cache!Hit \/ Cache!StaleHit \/ Cache!Miss
  PROVE  EdgeInv'
<1>1. Same /\ copy' = copy /\ feedCopy' = feedCopy
  BY DEF Cache!Hit, Cache!StaleHit, Cache!Miss, Same
<1>2. \A c \in edgeCalls' : Asked(c)'
  BY <1>1, SameHolds, NewCallIsAsked DEF Cache!Hit, Cache!StaleHit, Cache!Miss, EdgeInv
<1>3. ShownInv'
  <2>1. CASE edgeShown' = edgeShown
    BY <1>1, <2>1, SameHolds DEF EdgeInv
  <2>2. CASE Cache!Hit \/ Cache!StaleHit
    <3>1. edgeShown' = copy.version /\ Cache!Usable(copy, address)
      BY <2>2, FreshIsUsable DEF Cache!Hit, Cache!StaleHit, EdgeInv
    <3>2. copy.version \in Int
      BY DEF EdgeInv, CopyInv
    <3>3. copy.version > 0 => HeldAt(copy.version, edgeNow - Cache!KeptFor)
      BY <3>1, UsableIsShowable
    <3> QED  BY <1>1, <3>1, <3>2, <3>3, SameHolds DEF ShownInv, Same, HeldAt
  <2> QED  BY <2>1, <2>2 DEF Cache!Miss
<1> QED  BY <1>1, <1>2, <1>3, SameHolds DEF EdgeInv

\* The function reads, or fails to.
LEMMA SteppedCalls ==
  ASSUME EdgeInv, Same, NEW c \in edgeCalls, NEW to, NEW v, Cache!Step(c, to, v),
         v \in Int, v > 0 => HeldAt(v, edgeNow - Behind)
  PROVE  \A d \in edgeCalls' : Asked(d)'
<1> DEFINE d == [c EXCEPT !.step = to, !.version = v]
<1>1. edgeCalls' = (edgeCalls \ {c}) \cup {d}
  BY DEF Cache!Step
<1>2. "step" \in DOMAIN d /\ "version" \in DOMAIN d /\ d.version = v
  BY SteppedCall DEF EdgeInv
<1> HIDE DEF d
<1>3. Asked(d)
  BY <1>2 DEF Asked
<1> QED  BY <1>1, <1>3, SameHolds DEF EdgeInv

LEMMA ReadStep ==
  ASSUME EdgeInv, NEW c \in edgeCalls,
         Cache!Read(c) \/ Cache!ReadFeedCopy(c) \/ Cache!ReadFeed(c) \/ Cache!Fail(c)
  PROVE  EdgeInv'
<1>1. Same /\ UNCHANGED <<copy, edgeShown>>
  BY DEF Cache!Read, Cache!ReadFeedCopy, Cache!ReadFeed, Cache!Fail, Same
<1>2. /\ TimesInv /\ version \in Int /\ version >= 1 /\ floor <= version
      /\ edgeNow \in Nat /\ Behind \in {0, 420} /\ (address.fromFeed => Behind = 420)
  BY KeptForIsLength DEF EdgeInv, TimesInv
<1>3. \A t : HeldAt(version, t)
  BY <1>2 DEF HeldAt, TimesInv
<1>4. \A d \in edgeCalls' : Asked(d)'
  <2>1. CASE Cache!Read(c) \/ Cache!ReadFeed(c)
    BY <1>1, <1>2, <1>3, <2>1, SteppedCalls DEF Cache!Read, Cache!ReadFeed
  <2>2. CASE Cache!ReadFeedCopy(c)
    <3>1. /\ Cache!Step(c, "read", feedCopy.version) /\ address.fromFeed
          /\ feedCopy.version # 0
          /\ edgeNow - feedCopy.at < feedCopy.kept.fresh + feedCopy.kept.stale
      BY <2>2 DEF Cache!ReadFeedCopy, Cache!Usable
    <3>2. /\ feedCopy.version \in Int /\ feedCopy.version > 0 /\ feedCopy.at \in Nat
          /\ HeldAt(feedCopy.version, feedCopy.at)
          /\ feedCopy.kept \in {Cache!LiveFeedKept, Cache!StaticFeedKept}
      BY <3>1 DEF EdgeInv, FeedInv
    <3>3. feedCopy.kept.fresh + feedCopy.kept.stale <= 420
      BY <3>2 DEF Cache!LiveFeedKept, Cache!StaticFeedKept
    <3>4. feedCopy.kept.fresh + feedCopy.kept.stale \in Int
      BY <3>2 DEF Cache!LiveFeedKept, Cache!StaticFeedKept
    <3>5. edgeNow - Behind \in Int /\ edgeNow - Behind <= feedCopy.at
      BY <1>2, <3>1, <3>2, <3>3, <3>4
    <3>6. HeldAt(feedCopy.version, edgeNow - Behind)
      BY <1>2, <3>2, <3>5, HeldBefore
    <3> QED  BY <1>1, <3>1, <3>2, <3>6, SteppedCalls
  <2>3. CASE Cache!Fail(c)
    <3>1. \E v \in {Cache!Bare, Cache!Error} : Cache!Step(c, "read", v)
      BY <2>3 DEF Cache!Fail
    <3>2. Cache!Bare = -1 /\ Cache!Error = -2
      BY DEF Cache!Bare, Cache!Error
    <3> QED  BY <1>1, <3>1, <3>2, SteppedCalls
  <2> QED  BY <2>1, <2>2, <2>3
<1>5. FeedInv'
  <2>1. CASE feedCopy' = feedCopy
    BY <1>1, <2>1, SameHolds DEF EdgeInv
  <2>2. CASE Cache!ReadFeed(c)
    <3>1. PICK kept \in {Cache!LiveFeedKept, Cache!StaticFeedKept} :
            feedCopy' = [version |-> version, at |-> edgeNow, kept |-> kept]
      BY <2>2 DEF Cache!ReadFeed
    <3>2. feedCopy'.version = version /\ feedCopy'.at = edgeNow /\ feedCopy'.kept = kept
      BY <3>1
    <3>3. HeldAt(version, edgeNow)'
      BY <1>1, <1>3, SameHolds DEF Same, HeldAt
    <3> QED  BY <1>1, <1>2, <3>2, <3>3 DEF FeedInv, Same, HeldAt
  <2> QED  BY <2>1, <2>2 DEF Cache!Read, Cache!ReadFeedCopy, Cache!Fail
<1> QED  BY <1>1, <1>4, <1>5, SameHolds DEF EdgeInv

\* The answer is shown, and kept unless it is an error.
LEMMA RespondStep ==
  ASSUME EdgeInv, NEW c \in edgeCalls, Cache!Respond(c)
  PROVE  EdgeInv'
<1>1. /\ Same /\ feedCopy' = feedCopy /\ edgeShown' = c.version /\ edgeCalls' = edgeCalls \ {c}
      /\ copy' \in {copy, [version |-> c.version, at |-> edgeNow]}
      /\ copy' # copy => copy' = [version |-> c.version, at |-> edgeNow] /\ c.version # Cache!Error
  BY DEF Cache!Respond, Cache!Storable, Same
<1>2. c.version \in Int /\ (c.version > 0 => HeldAt(c.version, edgeNow - Behind)) /\ TimesInv
  BY DEF EdgeInv, Asked
<1>3. /\ edgeNow \in Nat /\ Behind \in {0, 420} /\ Cache!KeptFor \in Nat
      /\ Cache!KeptFor >= Behind
  BY KeptForIsLength DEF EdgeInv, TimesInv
<1>4. ShownInv'
  <2>1. edgeNow - Cache!KeptFor \in Int /\ edgeNow - Behind \in Int
        /\ edgeNow - Cache!KeptFor <= edgeNow - Behind
    BY <1>3
  <2>2. c.version > 0 => HeldAt(c.version, edgeNow - Cache!KeptFor)
    BY <1>2, <2>1, HeldBefore
  <2> QED  BY <1>1, <1>2, <2>2, SameHolds DEF ShownInv, Same, HeldAt
<1>5. CopyInv'
  <2>1. CASE copy' = copy
    BY <1>1, <2>1, SameHolds DEF EdgeInv
  <2>2. CASE copy' # copy
    <3>1. copy'.version = c.version /\ copy'.at = edgeNow /\ c.version # Cache!Error
      BY <1>1, <2>2
    <3> QED  BY <1>1, <1>2, <1>3, <3>1, SameHolds DEF CopyInv, Same, HeldAt
  <2> QED  BY <2>1, <2>2
<1>6. \A d \in edgeCalls' : Asked(d)'
  BY <1>1, SameHolds DEF EdgeInv
<1> QED  BY <1>1, <1>4, <1>5, <1>6, SameHolds DEF EdgeInv

\* A purge takes a copy whole or leaves it.
LEMMA PurgeStep ==
  ASSUME EdgeInv,
         \/ Cache!PurgeList \/ Cache!PurgeFeed
         \/ \E p, f \in BOOLEAN : Cache!PurgeNamed(p, f)
  PROVE  EdgeInv'
<1>1. /\ copy' \in {copy, Cache!NoCopy} /\ feedCopy' \in {feedCopy, Cache!NoFeedCopy}
      /\ edgeShown' \in {edgeShown, 0}
      /\ UNCHANGED <<address, edgeNow, version, replacedAt, edgeCalls>>
  BY DEF Cache!PurgeList, Cache!PurgeFeed, Cache!PurgeNamed, Cache!PurgeByUrls
<1>2. \/ floor' = floor
      \/ /\ floor' = version /\ edgeCalls = {} /\ edgeShown' = 0
         /\ copy' = Cache!NoCopy /\ feedCopy' = Cache!NoFeedCopy
  BY DEF Cache!PurgeList, Cache!PurgeFeed, Cache!PurgeNamed, Cache!PurgeByUrls, Cache!DropsDefault
<1>3. /\ Cache!NoCopy.version = 0 /\ Cache!NoCopy.at = 0
      /\ Cache!NoFeedCopy.version = 0 /\ Cache!NoFeedCopy.at = 0
      /\ Cache!NoFeedCopy.kept = Cache!LiveFeedKept /\ Cache!Error = -2
  BY DEF Cache!NoCopy, Cache!NoFeedCopy, Cache!Error
<1>4. TimesInv'
  BY <1>1, <1>2 DEF EdgeInv, TimesInv
<1>5. CASE floor' = floor
  <2>1. Same
    BY <1>1, <1>5 DEF Same
  <2>2. CopyInv'
    BY <1>1, <1>3, <1>4, <2>1, SameHolds DEF EdgeInv, CopyInv, TimesInv
  <2>3. FeedInv'
    BY <1>1, <1>3, <1>4, <2>1, SameHolds DEF EdgeInv, FeedInv, TimesInv
  <2>4. ShownInv'
    BY <1>1, <2>1, SameHolds DEF EdgeInv, ShownInv
  <2> QED  BY <1>1, <1>4, <2>1, <2>2, <2>3, <2>4, SameHolds DEF EdgeInv
<1>6. CASE /\ floor' = version /\ edgeCalls = {} /\ edgeShown' = 0
           /\ copy' = Cache!NoCopy /\ feedCopy' = Cache!NoFeedCopy
  BY <1>1, <1>3, <1>4, <1>6 DEF EdgeInv, CopyInv, FeedInv, ShownInv, TimesInv
<1> QED  BY <1>2, <1>5, <1>6

LEMMA EdgeInvHolds == Cache!EdgeAssumption => (Cache!EdgeSpec => []EdgeInv)
<1> SUFFICES ASSUME Cache!EdgeAssumption PROVE Cache!EdgeSpec => []EdgeInv
  OBVIOUS
<1>1. Cache!EdgeInit => EdgeInv
  <2> SUFFICES ASSUME Cache!EdgeInit PROVE EdgeInv
    OBVIOUS
  <2>1. /\ Cache!NoCopy.version = 0 /\ Cache!NoCopy.at = 0
        /\ Cache!NoFeedCopy.version = 0 /\ Cache!NoFeedCopy.at = 0
        /\ Cache!NoFeedCopy.kept = Cache!LiveFeedKept /\ Cache!Error = -2
    BY DEF Cache!NoCopy, Cache!NoFeedCopy, Cache!Error
  <2>2. TimesInv
    BY DEF Cache!EdgeInit, Cache!EdgeAssumption, TimesInv
  <2>3. CopyInv /\ FeedInv /\ ShownInv /\ edgeCalls = {}
    BY <2>1 DEF Cache!EdgeInit, CopyInv, FeedInv, ShownInv
  <2> QED  BY <2>2, <2>3 DEF EdgeInv
<1>2. EdgeInv /\ [Cache!EdgeNext]_(Cache!edgeVars) => EdgeInv'
  <2> SUFFICES ASSUME EdgeInv, [Cache!EdgeNext]_(Cache!edgeVars) PROVE EdgeInv'
    OBVIOUS
  <2>1. ASSUME NEW s \in Cache!Lengths, Cache!Pass(s) PROVE EdgeInv'
    BY <2>1, PassStep
  <2>2. CASE Cache!Change
    BY <2>2, ChangeStep
  <2>3. CASE Cache!Hit \/ Cache!StaleHit \/ Cache!Miss
    BY <2>3, LookupStep
  <2>4. ASSUME NEW c \in edgeCalls,
               Cache!Read(c) \/ Cache!ReadFeedCopy(c) \/ Cache!ReadFeed(c) \/ Cache!Fail(c)
        PROVE  EdgeInv'
    BY <2>4, ReadStep
  <2>5. ASSUME NEW c \in edgeCalls, Cache!Respond(c) PROVE EdgeInv'
    BY <2>5, RespondStep
  <2>6. CASE \/ Cache!PurgeList \/ Cache!PurgeFeed
             \/ \E p, f \in BOOLEAN : Cache!PurgeNamed(p, f)
    BY <2>6, PurgeStep
  <2>7. CASE UNCHANGED Cache!edgeVars
    <3>1. Same /\ UNCHANGED <<copy, feedCopy, edgeCalls, edgeShown>>
      BY <2>7 DEF Cache!edgeVars, Same
    <3> QED  BY <3>1, SameHolds DEF EdgeInv
  <2> QED  BY <2>1, <2>2, <2>3, <2>4, <2>5, <2>6, <2>7 DEF Cache!EdgeNext
<1> QED  BY <1>1, <1>2, PTL DEF Cache!EdgeSpec

(* What a reader is shown ceased to be current no longer ago than its      *)
(* lifetimes, the feed's included, let it; no error is kept; and after a   *)
(* purge of the list, with no call under way, nothing it dropped is shown  *)
(* (edgeCache.ts:109-133, curatorPurgeCacheHandler.ts:16-23).              *)
THEOREM CopiesAreRecent ==
  Cache!EdgeAssumption => (Cache!EdgeSpec => [](Cache!StaleAtMost /\ Cache!PurgeIsSeen))
<1> SUFFICES ASSUME Cache!EdgeAssumption
             PROVE  Cache!EdgeSpec => [](Cache!StaleAtMost /\ Cache!PurgeIsSeen)
  OBVIOUS
<1>1. EdgeInv => Cache!StaleAtMost /\ Cache!PurgeIsSeen
  <2> SUFFICES ASSUME EdgeInv PROVE Cache!StaleAtMost /\ Cache!PurgeIsSeen
    OBVIOUS
  <2>1. copy.version # Cache!Error
    BY DEF EdgeInv, CopyInv
  <2>2. edgeShown > 0 => edgeShown >= floor
    BY DEF EdgeInv, ShownInv, HeldAt
  <2>3. ASSUME edgeShown > 0, edgeShown < version
        PROVE  edgeNow - replacedAt[edgeShown] <= Cache!KeptFor
    <3>1. edgeShown \in 1..version /\ replacedAt[edgeShown] >= edgeNow - Cache!KeptFor
      BY <2>3 DEF EdgeInv, ShownInv, HeldAt
    <3>2. /\ edgeNow \in Nat /\ replacedAt[edgeShown] \in Nat /\ Cache!KeptFor \in Nat
      BY <3>1, KeptForIsLength DEF EdgeInv, TimesInv
    <3> QED  BY <3>1, <3>2
  <2> QED  BY <2>1, <2>2, <2>3 DEF Cache!StaleAtMost, Cache!PurgeIsSeen
<1> QED  BY <1>1, EdgeInvHolds, PTL

-----------------------------------------------------------------------------
\* A set of numbers that is not empty has a least one.
LEMMA LeastOne ==
  ASSUME NEW T \in SUBSET Nat, T # {} PROVE \E n \in T : \A m \in T : n <= m
<1> DEFINE less == OpToRel(<, Nat)
<1>1. IsWellFoundedOn(less, Nat)
  BY NatLessThanWellFounded
<1>2. \A m, n \in T : m < n => <<m, n>> \in less
  BY DEF OpToRel
<1> HIDE DEF less
<1>3. PICK n \in T : \A m \in T : ~(<<m, n>> \in less)
  BY <1>1, WFMin
<1>4. ASSUME NEW m \in T PROVE n <= m
  <2>1. m \in Nat /\ n \in Nat /\ ~(m < n)
    BY <1>2, <1>3
  <2> QED  BY <2>1
<1> QED  BY <1>4

(***************************************************************************)
(* The archive.  Unless an older call was answered since, a list that no   *)
(* search is loading is of the last search, and none of its stories is in  *)
(* reach of the page that may be on its way: the stories listed are in the *)
(* archive no longer or not older than the cursor.                         *)
(***************************************************************************)
OfLast(c) ==
  /\ c.kind = "search" => c.n <= lastSearch /\ c.before = 0
  /\ c.kind = "search" /\ c.n = lastSearch => c.query = query /\ (loading = TRUE \/ overtaken)
  /\ c.kind = "more" => c.n # lastSearch /\ loadingMore = TRUE
  /\ c.kind = "more" /\ c.n > lastSearch /\ ~overtaken =>
       loading = FALSE /\ c.query = query /\ c.before = cursor /\ cursor # 0

SearchCalls ==
  /\ \A c \in searches :
       /\ c.n \in 1..searchesAsked /\ c.query \in Query /\ c.kind \in {"search", "more"}
       /\ OfLast(c)
  /\ \A c, d \in searches : c.n = d.n \/ (c.kind = "more" /\ d.kind = "more") => c = d
SearchTypes ==
  /\ archiveClock \in Nat /\ archivedAt \in [Archived -> 0..archiveClock]
  /\ query \in Query /\ listed \in [Archived -> Nat] /\ cursor \in 0..archiveClock
  /\ searchesAsked \in Nat /\ lastSearch \in 0..searchesAsked
  /\ overtaken \in BOOLEAN /\ loading \in BOOLEAN
Reach(x) == cursor = 0 \/ archivedAt[x] = 0 \/ archivedAt[x] >= cursor
ListInv ==
  ~overtaken /\ loading = FALSE =>
    \A x \in Archived : /\ listed[x] <= 1
                        /\ listed[x] = 1 => x \in Matches[query] /\ Reach(x)
LoadingInv ==
  loading = TRUE => overtaken \/ \E c \in searches : c.kind = "search" /\ c.n = lastSearch
ArchiveInv == SearchTypes /\ SearchCalls /\ ListInv /\ LoadingInv

LEMMA OneCountOfStories == \A S : Archive!Cardinality(S) = Cardinality(S)
BY DEF Archive!Cardinality, Cardinality

\* A page of what was found, and the cursor it leaves.
PageOf(pg, among, next) ==
  /\ pg \subseteq among /\ next \in 0..archiveClock
  /\ next # 0 => \E x \in pg : next = archivedAt[x]
  /\ next # 0 => \A x \in pg : archivedAt[x] >= next

LEMMA PagesArePages ==
  ASSUME Archive!ArchivePageAssumption, SearchTypes, NEW call, call.query \in Query,
         NEW pg \in Archive!Pages(Archive!Found(call))
  PROVE  PageOf(pg, Archive!Found(call), Archive!NextCursor(Archive!Found(call), pg))
<1> DEFINE found == Archive!Found(call)
           next == Archive!NextCursor(found, pg)
           ats == {archivedAt[x] : x \in pg}
<1>0. /\ Archive!Cardinality(found) = Cardinality(found) /\ IsFiniteSet(found)
      /\ ArchivePage \in Nat \ {0}
  <2>1. found \subseteq Archived
    BY DEF Archive!ArchivePageAssumption, Archive!Found
  <2>2. IsFiniteSet(Archived) = Archive!IsFiniteSet(Archived)
    BY DEF IsFiniteSet, Archive!IsFiniteSet
  <2>3. IsFiniteSet(Archived) /\ ArchivePage \in Nat \ {0}
    BY <2>2 DEF Archive!ArchivePageAssumption
  <2> HIDE DEF found
  <2> QED  BY <2>1, <2>3, FS_Subset, OneCountOfStories
<1>00. Cardinality(found) \in Nat
  BY <1>0, FS_CardinalityType
<1>1. found \subseteq Archived /\ pg \subseteq found
  BY DEF Archive!ArchivePageAssumption, Archive!Found, Archive!Pages, Archive!kSubset
<1>2. CASE Cardinality(found) <= ArchivePage
  <2>1. next = 0
    BY <1>0, <1>00, <1>2 DEF Archive!NextCursor
  <2> QED  BY <1>1, <2>1 DEF PageOf, SearchTypes
<1>3. CASE ~(Cardinality(found) <= ArchivePage)
  <2>1. pg # {}
    <3>1. pg \in Archive!kSubset(ArchivePage, found)
      BY <1>0, <1>3 DEF Archive!Pages
    <3>2. Cardinality(pg) = ArchivePage
      BY <3>1, OneCountOfStories DEF Archive!kSubset
    <3>3. Cardinality({}) = 0
      BY FS_EmptySet
    <3> QED  BY <1>0, <3>2, <3>3
  <2>2. ats \subseteq 0..archiveClock /\ ats # {} /\ archiveClock \in Nat
    BY <1>1, <2>1 DEF SearchTypes
  <2>3. PICK m \in ats : \A t \in ats : m <= t
    <3> HIDE DEF ats
    <3> QED  BY <2>2, LeastOne
  <2>4. next = 0 \/ next = CHOOSE t \in ats : \A x \in pg : t <= archivedAt[x]
    BY DEF Archive!NextCursor
  <2>5. next = 0 \/ (next \in ats /\ \A x \in pg : next <= archivedAt[x])
    <3>1. \A x \in pg : m <= archivedAt[x]
      BY <2>3
    <3> HIDE DEF ats, next
    <3> QED  BY <2>3, <2>4, <3>1
  <2>6. \A x \in pg : archivedAt[x] \in 0..archiveClock
    BY <1>1 DEF SearchTypes
  <2> HIDE DEF next, found
  <2>7. next \in 0..archiveClock
    BY <2>2, <2>5
  <2>8. next # 0 => (\E x \in pg : next = archivedAt[x]) /\ \A x \in pg : archivedAt[x] >= next
    BY <2>2, <2>5, <2>6
  <2>9. PageOf(pg, found, next)
    BY <1>1, <2>7, <2>8 DEF PageOf
  <2> QED  BY <2>9 DEF next, found
<1> QED  BY <1>2, <1>3

\* What a call's answer does to the calls.
LEMMA CallsReceived ==
  ASSUME ArchiveInv, NEW call \in searches, Archive!Received(call),
         call.kind = "search" => loading' = FALSE /\ loadingMore' = loadingMore,
         call.kind = "more" => loadingMore' = FALSE /\ loading' = loading
  PROVE  SearchCalls' /\ LoadingInv' /\ overtaken' \in BOOLEAN
<1>1. /\ searches' = searches \ {call}
      /\ overtaken' = (overtaken \/ call.n < lastSearch)
      /\ UNCHANGED <<archiveClock, archivedAt, query, searchesAsked, lastSearch>>
  BY DEF Archive!Received
<1>2. /\ call.n \in Nat /\ lastSearch \in Nat /\ call.kind \in {"search", "more"}
      /\ overtaken \in BOOLEAN /\ loading \in BOOLEAN
  BY DEF ArchiveInv, SearchCalls, SearchTypes
<1>3. ASSUME NEW c \in searches' PROVE OfLast(c)'
  <2>1. c \in searches /\ OfLast(c) /\ OfLast(call) /\ c.n \in Nat /\ c.n # call.n
    BY <1>1, <1>3 DEF ArchiveInv, SearchCalls
  <2>2. CASE call.kind = "search"
    <3>1. c.kind = "search" /\ c.n = lastSearch => overtaken'
      BY <1>1, <1>2, <2>1, <2>2 DEF OfLast
    <3>2. c.kind = "more" /\ c.n > lastSearch /\ ~overtaken' => FALSE
      <4> SUFFICES ASSUME c.kind = "more", c.n > lastSearch, ~overtaken' PROVE FALSE
        OBVIOUS
      <4>0. ~overtaken /\ ~(call.n < lastSearch)
        BY <1>1
      <4>00. call.n <= lastSearch
        BY <2>1, <2>2 DEF OfLast
      <4>1. ~overtaken /\ call.n = lastSearch
        BY <1>2, <4>0, <4>00
      <4>2. loading = TRUE
        BY <2>1, <2>2, <4>1 DEF OfLast
      <4> QED  BY <2>1, <4>1, <4>2 DEF OfLast
    <3> QED  BY <1>1, <2>1, <2>2, <3>1, <3>2 DEF OfLast
  <2>3. CASE call.kind = "more"
    <3>1. c.kind # "more"
      BY <1>1, <1>3, <2>1, <2>3 DEF ArchiveInv, SearchCalls
    <3> QED  BY <1>1, <1>2, <2>1, <2>3, <3>1 DEF OfLast
  <2> QED  BY <1>2, <2>2, <2>3
<1>4. SearchCalls'
  BY <1>1, <1>3 DEF ArchiveInv, SearchCalls
<1>5. LoadingInv'
  <2> SUFFICES ASSUME loading' = TRUE, ~overtaken'
               PROVE  \E c \in searches' : c.kind = "search" /\ c.n = lastSearch'
    BY DEF LoadingInv
  <2>1. call.kind = "more" /\ loading = TRUE /\ ~overtaken
    BY <1>1, <1>2
  <2>2. PICK c \in searches : c.kind = "search" /\ c.n = lastSearch
    BY <2>1 DEF ArchiveInv, LoadingInv
  <2>3. c \in searches'
    BY <1>1, <2>1, <2>2
  <2> QED  BY <1>1, <2>2, <2>3
<1> QED  BY <1>1, <1>2, <1>4, <1>5

LEMMA SearchAnswers ==
  ASSUME Archive!ArchivePageAssumption, ArchiveInv, NEW call \in searches,
         Archive!SearchAnswered(call)
  PROVE  ArchiveInv'
<1> DEFINE found == Archive!Found(call)
<1>1. PICK pg \in Archive!Pages(found) :
        listed' = Archive!Anew(pg) /\ cursor' = Archive!NextCursor(found, pg)
  BY DEF Archive!SearchAnswered
<1>2. /\ call.kind = "search" /\ Archive!Received(call) /\ loading' = FALSE
      /\ loadingMore' = loadingMore
      /\ overtaken' = (overtaken \/ call.n < lastSearch)
      /\ UNCHANGED <<archiveClock, archivedAt, query, searchesAsked, lastSearch>>
  BY DEF Archive!SearchAnswered, Archive!Received
<1>3. SearchCalls' /\ LoadingInv' /\ overtaken' \in BOOLEAN
  BY <1>2, CallsReceived
<1>4. PageOf(pg, found, cursor') /\ call.query \in Query
  BY <1>1, PagesArePages DEF ArchiveInv, SearchCalls
<1>5. listed' = [x \in Archived |-> IF x \in pg \ Unreadable THEN 1 ELSE 0]
  BY <1>1 DEF Archive!Anew, Archive!Readable
<1>6. SearchTypes'
  BY <1>2, <1>3, <1>4, <1>5 DEF ArchiveInv, SearchTypes, PageOf
<1>7. ListInv'
  <2> SUFFICES ASSUME ~overtaken', NEW x \in Archived, listed'[x] = 1
               PROVE  x \in Matches[query]' /\ Reach(x)'
    BY <1>5 DEF ListInv
  <2>1. x \in pg /\ x \in found
    BY <1>4, <1>5 DEF PageOf
  <2>2. call.query = query
    <3>1. OfLast(call) /\ call.n \in Nat /\ lastSearch \in Nat
      BY DEF ArchiveInv, SearchCalls, SearchTypes
    <3>2. ~(call.n < lastSearch)
      BY <1>2
    <3>3. call.n <= lastSearch
      BY <1>2, <3>1 DEF OfLast
    <3>4. call.n = lastSearch
      BY <3>1, <3>2, <3>3
    <3> QED  BY <1>2, <3>1, <3>4 DEF OfLast
  <2>3. x \in Matches[query]
    BY <2>1, <2>2 DEF Archive!Found
  <2>4. cursor' = 0 \/ archivedAt[x] >= cursor'
    BY <1>4, <2>1 DEF PageOf
  <2> QED  BY <1>2, <2>3, <2>4 DEF Reach
<1> QED  BY <1>3, <1>6, <1>7 DEF ArchiveInv

LEMMA MoreAnswers ==
  ASSUME Archive!ArchivePageAssumption, ArchiveInv, NEW call \in searches,
         Archive!MoreAnswered(call)
  PROVE  ArchiveInv'
<1> DEFINE found == Archive!Found(call)
<1>1. PICK pg \in Archive!Pages(found) :
        listed' = Archive!Appended(pg) /\ cursor' = Archive!NextCursor(found, pg)
  BY DEF Archive!MoreAnswered
<1>2. /\ call.kind = "more" /\ Archive!Received(call) /\ loadingMore' = FALSE
      /\ loading' = loading
      /\ overtaken' = (overtaken \/ call.n < lastSearch)
      /\ UNCHANGED <<archiveClock, archivedAt, query, searchesAsked, lastSearch>>
  BY DEF Archive!MoreAnswered, Archive!Received
<1>3. SearchCalls' /\ LoadingInv' /\ overtaken' \in BOOLEAN
  BY <1>2, CallsReceived
<1>4. PageOf(pg, found, cursor') /\ call.query \in Query
  BY <1>1, PagesArePages DEF ArchiveInv, SearchCalls
<1>5. listed' = [x \in Archived |-> IF x \in pg \ Unreadable /\ listed[x] < 2 THEN listed[x] + 1
                                    ELSE listed[x]]
  BY <1>1 DEF Archive!Appended, Archive!Readable
<1>6. SearchTypes'
  BY <1>2, <1>3, <1>4, <1>5 DEF ArchiveInv, SearchTypes, PageOf
<1>7. ListInv'
  <2> SUFFICES ASSUME ~overtaken', loading' = FALSE, NEW x \in Archived
               PROVE  listed'[x] <= 1 /\ (listed'[x] = 1 => x \in Matches[query]' /\ Reach(x)')
    BY DEF ListInv
  <2>1. /\ OfLast(call) /\ call.n \in Nat /\ lastSearch \in Nat /\ listed[x] \in Nat
        /\ archivedAt[x] \in 0..archiveClock /\ archiveClock \in Nat
        /\ overtaken \in BOOLEAN /\ cursor \in Nat
    BY DEF ArchiveInv, SearchCalls, SearchTypes
  <2>2. ~overtaken /\ call.n > lastSearch
    <3>1. ~overtaken /\ ~(call.n < lastSearch)
      BY <1>2
    <3>2. call.n # lastSearch
      BY <1>2, <2>1 DEF OfLast
    <3> QED  BY <2>1, <3>1, <3>2
  <2>3. call.query = query /\ call.before = cursor /\ cursor # 0
    BY <1>2, <2>1, <2>2 DEF OfLast
  <2>4. listed[x] <= 1 /\ (listed[x] = 1 => x \in Matches[query] /\ Reach(x))
    BY <1>2, <2>2 DEF ArchiveInv, ListInv
  <2>5. \A y \in pg : y \in Matches[query] /\ archivedAt[y] > 0 /\ archivedAt[y] < cursor
    BY <1>4, <2>3 DEF PageOf, Archive!Found, Archive!Older
  <2>6. cursor' = 0 \/ (cursor' < cursor /\ cursor' \in Nat)
    BY <1>4, <2>5 DEF PageOf
  <2>7. CASE x \in pg \ Unreadable
    <3>1. listed[x] = 0
      BY <2>1, <2>3, <2>4, <2>5, <2>7 DEF Reach
    <3>2. listed'[x] = 1
      BY <1>5, <2>7, <3>1
    <3>3. cursor' = 0 \/ archivedAt[x] >= cursor'
      BY <1>4, <2>7 DEF PageOf
    <3> QED  BY <1>2, <2>5, <2>7, <3>2, <3>3 DEF Reach
  <2>8. CASE x \notin pg \ Unreadable
    <3>1. listed'[x] = listed[x]
      BY <1>5, <2>8
    <3>2. Reach(x) => Reach(x)'
      BY <1>2, <2>1, <2>3, <2>6 DEF Reach
    <3> QED  BY <1>2, <2>4, <3>1, <3>2
  <2> QED  BY <2>7, <2>8
<1> QED  BY <1>3, <1>6, <1>7 DEF ArchiveInv

LEMMA ArchiveCallsFail ==
  ASSUME ArchiveInv, NEW call \in searches, Archive!SearchFails(call) \/ Archive!MoreFails(call)
  PROVE  ArchiveInv'
<1>1. /\ Archive!Received(call) /\ cursor' = 0
      /\ overtaken' = (overtaken \/ call.n < lastSearch)
      /\ call.kind = "search" => loading' = FALSE /\ loadingMore' = loadingMore
      /\ call.kind = "more" => loadingMore' = FALSE /\ loading' = loading
      /\ UNCHANGED <<archiveClock, archivedAt, query, searchesAsked, lastSearch>>
  BY DEF Archive!SearchFails, Archive!MoreFails, Archive!Received
<1>2. \/ listed' = [x \in Archived |-> 0] /\ loading' = FALSE
      \/ listed' = listed /\ loading' = loading
  BY DEF Archive!SearchFails, Archive!MoreFails, Archive!Unlisted
<1>3. SearchCalls' /\ LoadingInv' /\ overtaken' \in BOOLEAN
  BY <1>1, CallsReceived
<1>4. SearchTypes'
  <2>1. SearchTypes
    BY DEF ArchiveInv
  <2>2. listed' \in [Archived -> Nat]
    BY <1>2, <2>1 DEF SearchTypes
  <2>3. loading' \in BOOLEAN
    BY <1>2, <2>1 DEF SearchTypes
  <2> QED  BY <1>1, <1>3, <2>1, <2>2, <2>3 DEF SearchTypes
<1>5. ListInv'
  <2> SUFFICES ASSUME ~overtaken', loading' = FALSE, NEW x \in Archived
               PROVE  listed'[x] <= 1 /\ (listed'[x] = 1 => x \in Matches[query]')
    BY <1>1 DEF ListInv, Reach
  <2>1. CASE listed' = [y \in Archived |-> 0]
    BY <2>1
  <2>2. CASE listed' = listed /\ loading' = loading
    BY <1>1, <2>2 DEF ArchiveInv, ListInv
  <2> QED  BY <1>2, <2>1, <2>2
<1> QED  BY <1>3, <1>4, <1>5 DEF ArchiveInv

\* A call is made.
LEMMA CallMade ==
  ASSUME ArchiveInv, NEW c, searches' = searches \cup {c}, searchesAsked' = searchesAsked + 1,
         c.n = searchesAsked', c.query \in Query, c.kind \in {"search", "more"},
         c.kind = "more" => loadingMore # TRUE,
         \A d \in searches' : OfLast(d)'
  PROVE  SearchCalls'
<1>1. \A d \in searches : d.n \in 1..searchesAsked /\ searchesAsked \in Nat
  BY DEF ArchiveInv, SearchCalls, SearchTypes
<1>2. \A d \in searches : c.n # d.n
  BY <1>1
<1>3. c.n \in 1..searchesAsked' /\ \A d \in searches : d.n \in 1..searchesAsked'
  BY <1>1 DEF ArchiveInv, SearchTypes
<1>4. c.kind = "more" => \A d \in searches : d.kind # "more"
  BY DEF ArchiveInv, SearchCalls, OfLast
<1> QED  BY <1>2, <1>3, <1>4 DEF ArchiveInv, SearchCalls

LEMMA SearchStep ==
  ASSUME ArchiveInv, NEW q \in Query, Archive!Search(q) PROVE ArchiveInv'
<1> DEFINE c == [n |-> searchesAsked', kind |-> "search", query |-> q, before |-> 0]
<1>1. /\ searchesAsked' = searchesAsked + 1 /\ query' = q /\ loading' = TRUE
      /\ searches' = searches \cup {c} /\ lastSearch' = searchesAsked'
      /\ UNCHANGED <<archiveClock, archivedAt, listed, cursor, loadingMore, overtaken>>
  BY DEF Archive!Search
<1>2. c.n = searchesAsked' /\ c.kind = "search" /\ c.query = q /\ c.before = 0
  OBVIOUS
<1> HIDE DEF c
<1>3. searchesAsked \in Nat /\ lastSearch \in 0..searchesAsked
  BY DEF ArchiveInv, SearchTypes
<1>4. ASSUME NEW d \in searches' PROVE OfLast(d)'
  <2>1. CASE d = c
    BY <1>1, <1>2, <1>3, <2>1 DEF OfLast
  <2>2. CASE d # c
    <3>1. d \in searches /\ d.n \in 1..searchesAsked /\ OfLast(d)
      BY <1>1, <2>2 DEF ArchiveInv, SearchCalls
    <3>2. d.n < lastSearch'
      BY <1>1, <1>3, <3>1
    <3> QED  BY <1>1, <1>3, <3>1, <3>2 DEF OfLast
  <2> QED  BY <2>1, <2>2
<1>5. SearchCalls'
  BY <1>1, <1>2, <1>4, CallMade
<1>6. SearchTypes'
  BY <1>1, <1>3 DEF ArchiveInv, SearchTypes
<1> QED  BY <1>1, <1>2, <1>5, <1>6 DEF ArchiveInv, ListInv, LoadingInv

LEMMA MoreStep ==
  ASSUME ArchiveInv, Archive!LoadMore PROVE ArchiveInv'
<1> DEFINE c == [n |-> searchesAsked', kind |-> "more", query |-> query, before |-> cursor]
<1>1. /\ searchesAsked' = searchesAsked + 1 /\ ~loading /\ ~loadingMore /\ loadingMore' = TRUE
      /\ cursor # 0 /\ searches' = searches \cup {c}
      /\ UNCHANGED <<archiveClock, archivedAt, query, listed, cursor, loading, lastSearch,
                     overtaken>>
  BY DEF Archive!LoadMore, Archive!EndInSight
<1>2. c.n = searchesAsked' /\ c.kind = "more" /\ c.query = query /\ c.before = cursor
  OBVIOUS
<1> HIDE DEF c
<1>3. searchesAsked \in Nat /\ lastSearch \in 0..searchesAsked /\ query \in Query
      /\ loading = FALSE /\ loadingMore # TRUE
  BY <1>1 DEF ArchiveInv, SearchTypes
<1>4. ASSUME NEW d \in searches' PROVE OfLast(d)'
  <2>1. CASE d = c
    BY <1>1, <1>2, <1>3, <2>1 DEF OfLast
  <2>2. CASE d # c
    <3>1. d \in searches /\ OfLast(d)
      BY <1>1, <2>2 DEF ArchiveInv, SearchCalls
    <3> QED  BY <1>1, <1>3, <3>1 DEF OfLast
  <2> QED  BY <2>1, <2>2
<1>5. SearchCalls'
  BY <1>1, <1>2, <1>3, <1>4, CallMade
<1>6. SearchTypes' /\ ListInv'
  BY <1>1, <1>3 DEF ArchiveInv, SearchTypes, ListInv, Reach
<1> QED  BY <1>1, <1>3, <1>5, <1>6 DEF ArchiveInv, LoadingInv

\* Stories that are archived are archived after any cursor.
LEMMA TableStep ==
  ASSUME ArchiveInv,
         UNCHANGED <<query, listed, cursor, loading, loadingMore, searches, searchesAsked,
                     lastSearch, overtaken>>,
         archiveClock' \in {archiveClock, archiveClock + 1},
         archivedAt' \in [Archived -> 0..archiveClock'],
         \A x \in Archived : archivedAt'[x] \in {0, archivedAt[x]} \/ archivedAt'[x] > archiveClock
  PROVE  ArchiveInv'
<1>1. SearchTypes'
  BY DEF ArchiveInv, SearchTypes
<1>2. ASSUME NEW x \in Archived, Reach(x) PROVE Reach(x)'
  BY <1>2 DEF Reach, ArchiveInv, SearchTypes
<1>3. SearchCalls'
  BY DEF ArchiveInv, SearchCalls, OfLast
<1>4. ListInv'
  BY <1>2 DEF ArchiveInv, ListInv
<1> QED  BY <1>1, <1>3, <1>4 DEF ArchiveInv, LoadingInv

LEMMA ArchiveStep ==
  ASSUME Archive!ArchivePageAssumption, ArchiveInv,
         [Archive!ArchivePageNext]_Archive!archivePageVars
  PROVE  ArchiveInv'
<1>0. archiveClock \in Nat /\ archivedAt \in [Archived -> 0..archiveClock]
  BY DEF ArchiveInv, SearchTypes
<1>1. ASSUME NEW xs \in SUBSET Archived, Archive!ArchiveBatch(xs) PROVE ArchiveInv'
  BY <1>0, <1>1, TableStep DEF Archive!ArchiveBatch, Archive!ViewModel, Archive!Calls
<1>2. ASSUME NEW x \in Archived, Archive!Return(x) PROVE ArchiveInv'
  BY <1>0, <1>2, TableStep DEF Archive!Return, Archive!ViewModel, Archive!Calls
<1>3. CASE UNCHANGED Archive!archivePageVars
  BY <1>0, <1>3, TableStep DEF Archive!archivePageVars
<1> QED  BY <1>1, <1>2, <1>3, SearchStep, MoreStep, SearchAnswers, MoreAnswers, ArchiveCallsFail
         DEF Archive!ArchivePageNext

LEMMA ArchiveBegins ==
  ASSUME Archive!ArchivePageAssumption, Archive!ArchivePageInit PROVE ArchiveInv
<1>1. SearchTypes
  <2>1. archivedAt = [x \in Archived |-> 0] /\ listed = archivedAt
    BY DEF Archive!ArchivePageInit, Archive!Unlisted
  <2>2. archivedAt \in [Archived -> 0..0] /\ listed \in [Archived -> Nat]
    BY <2>1
  <2>3. overtaken \in BOOLEAN /\ loading \in BOOLEAN
    BY DEF Archive!ArchivePageInit
  <2>4. /\ archiveClock = 0 /\ cursor = 0 /\ searchesAsked = 0 /\ lastSearch = 0
        /\ query \in Query
    BY DEF Archive!ArchivePageInit, Archive!ArchivePageAssumption
  <2> QED  BY <2>2, <2>3, <2>4 DEF SearchTypes
<1>2. SearchCalls /\ LoadingInv
  BY DEF Archive!ArchivePageInit, SearchCalls, LoadingInv
<1>3. ListInv
  BY DEF Archive!ArchivePageInit, Archive!Unlisted, ListInv
<1> QED  BY <1>1, <1>2, <1>3 DEF ArchiveInv

LEMMA ArchiveIsTrue == ArchiveInv => Archive!ListIsOneSearch
BY DEF ArchiveInv, SearchTypes, ListInv, LoadingInv, Archive!ListIsOneSearch

\* Once every call is answered, the list is that of the query in the box, and holds no story
\* twice (ArchiveViewModel.ts:56-86).
THEOREM ListsAreOfOneSearch ==
  Archive!ArchivePageAssumption => (Archive!ArchivePageSpec => []Archive!ListIsOneSearch)
<1> SUFFICES ASSUME Archive!ArchivePageAssumption
             PROVE  Archive!ArchivePageSpec => []Archive!ListIsOneSearch
  OBVIOUS
<1>1. Archive!ArchivePageInit => ArchiveInv
  BY ArchiveBegins
<1>2. ArchiveInv /\ [Archive!ArchivePageNext]_Archive!archivePageVars => ArchiveInv'
  BY ArchiveStep
<1> QED  BY <1>1, <1>2, ArchiveIsTrue, PTL DEF Archive!ArchivePageSpec

-----------------------------------------------------------------------------
(***************************************************************************)
(* A topic's pages.  Of the rows a cursor leaves, a page is those with     *)
(* fewer than a page of others ahead: all of them, or exactly a page, and  *)
(* then the rest are behind its last.  So of what stands at its place the  *)
(* reader was shown, once, what the cursor has behind it.                  *)
(***************************************************************************)
LEMMA OneCountOfRows == \A S : Topics!Cardinality(S) = Cardinality(S)
BY DEF Topics!Cardinality, Cardinality

RowsTyped ==
  /\ Topics!TopicPageAssumption /\ IsFiniteSet(Cluster)
  /\ date \in [Cluster -> 0..MaxDate]
Ranked(S, c) == Topics!Ahead(c) \cap S
Rank(S, c) == Cardinality(Ranked(S, c))
Fore(S) == {c \in S : Rank(S, c) < TopicPage}

LEMMA Ranks ==
  ASSUME RowsTyped, NEW S \in SUBSET Topics!InTopic
  PROVE  /\ IsFiniteSet(S)
         /\ \A c \in S : Rank(S, c) \in Nat
         /\ \A c, d \in S : c \in Topics!Ahead(d) => Rank(S, c) < Rank(S, d)
         /\ \A c, d \in S : c # d => c \in Topics!Ahead(d) \/ d \in Topics!Ahead(c)
<1>1. S \subseteq Cluster /\ IsFiniteSet(S)
  BY FS_Subset DEF RowsTyped, Topics!InTopic
<1>2. ASSUME NEW c \in S PROVE IsFiniteSet(Ranked(S, c)) /\ Rank(S, c) \in Nat
  <2>1. Ranked(S, c) \in SUBSET S
    BY DEF Ranked
  <2>2. IsFiniteSet(Ranked(S, c))
    BY <1>1, <2>1, FS_Subset
  <2> QED  BY <2>2, FS_CardinalityType DEF Rank
<1>3. \A c \in S : c \in Nat /\ date[c] \in Nat /\ date[c] > 0
  BY <1>1 DEF RowsTyped, Topics!TopicPageAssumption, Topics!InTopic
<1>4. ASSUME NEW c \in S, NEW d \in S, c \in Topics!Ahead(d)
      PROVE  Rank(S, c) < Rank(S, d)
  <2>1. Ranked(S, c) \subseteq Ranked(S, d)
    BY <1>3, <1>4 DEF Ranked, Topics!Ahead
  <2>2. c \in Ranked(S, d) /\ c \notin Ranked(S, c)
    BY <1>3, <1>4 DEF Ranked, Topics!Ahead
  <2>3. Rank(S, c) <= Rank(S, d) /\ Rank(S, c) # Rank(S, d)
    BY <1>2, <2>1, <2>2, FS_Subset DEF Rank
  <2> QED  BY <1>2, <2>3
<1>5. ASSUME NEW c \in S, NEW d \in S, c # d PROVE c \in Topics!Ahead(d) \/ d \in Topics!Ahead(c)
  <2>1. c \in Topics!InTopic /\ d \in Topics!InTopic
    OBVIOUS
  <2> QED  BY <1>3, <1>5, <2>1 DEF Topics!Ahead
<1> QED  BY <1>1, <1>2, <1>4, <1>5

\* What a page leaves is behind all of it; and a page that leaves something is full.
LEMMA ForeIsFull ==
  ASSUME RowsTyped, NEW S \in SUBSET Topics!InTopic
  PROVE  /\ \A c \in Fore(S), d \in S \ Fore(S) : c \in Topics!Ahead(d)
         /\ Fore(S) = S \/ Cardinality(Fore(S)) = TopicPage
<1> DEFINE F == Fore(S)
           k(c) == Rank(S, c)
<1>0. TopicPage \in Nat \ {0}
  BY DEF RowsTyped, Topics!TopicPageAssumption
<1>1. /\ IsFiniteSet(S) /\ \A c \in S : k(c) \in Nat
      /\ \A c, d \in S : c \in Topics!Ahead(d) => k(c) < k(d)
      /\ \A c, d \in S : c # d => c \in Topics!Ahead(d) \/ d \in Topics!Ahead(c)
  BY Ranks
<1>2. F \subseteq S /\ IsFiniteSet(F) /\ (\A c \in S : c \in F <=> k(c) < TopicPage)
  <2>1. F \in SUBSET S /\ (\A c \in S : c \in F <=> k(c) < TopicPage)
    BY DEF Fore
  <2> QED  BY <1>1, <2>1, FS_Subset
<1> HIDE DEF F, k
<1>3. ASSUME NEW c \in F, NEW d \in S \ F PROVE c \in Topics!Ahead(d)
  BY <1>0, <1>1, <1>2
<1>4. ASSUME F # S PROVE Cardinality(F) = TopicPage
  <2>1. PICK d \in S \ F : \A e \in S \ F : k(d) <= k(e)
    <3> DEFINE T == {k(d) : d \in S \ F}
    <3>1. T \in SUBSET Nat /\ T # {}
      BY <1>1, <1>2, <1>4
    <3> HIDE DEF T
    <3>2. PICK n \in T : \A m \in T : n <= m
      BY <3>1, LeastOne
    <3> QED  BY <3>2 DEF T
  <2>2. F = Ranked(S, d)
    <3>1. ASSUME NEW c \in Ranked(S, d) PROVE c \in F
      <4>1. c \in S /\ k(c) < k(d)
        BY <1>1, <3>1 DEF Ranked
      <4> QED  BY <1>1, <2>1, <4>1
    <3>2. ASSUME NEW c \in F PROVE c \in Ranked(S, d)
      BY <1>2, <1>3 DEF Ranked
    <3> QED  BY <3>1, <3>2
  <2>3. Cardinality(F) = k(d) /\ k(d) \in Nat /\ k(d) >= TopicPage
    BY <1>0, <1>1, <1>2, <2>2 DEF k, Rank
  <2>4. F # {}
    BY <1>0, <2>3, FS_EmptySet
  <2>5. PICK l \in F : \A c \in F : k(c) <= k(l)
    <3> DEFINE T == {TopicPage - k(c) : c \in F}
    <3>1. T \in SUBSET Nat /\ T # {}
      BY <1>0, <1>1, <1>2, <2>4
    <3> HIDE DEF T
    <3>2. PICK n \in T : \A m \in T : n <= m
      BY <3>1, LeastOne
    <3>3. PICK l \in F : n = TopicPage - k(l)
      BY <3>2 DEF T
    <3>4. ASSUME NEW c \in F PROVE k(c) <= k(l)
      <4>1. TopicPage - k(l) <= TopicPage - k(c)
        BY <3>2, <3>3 DEF T
      <4>2. k(l) \in Nat /\ k(c) \in Nat
        BY <1>1, <1>2
      <4> QED  BY <1>0, <4>1, <4>2
    <3> QED  BY <3>4
  <2>6. F \subseteq Ranked(S, l) \cup {l}
    <3> SUFFICES ASSUME NEW c \in F, c # l PROVE c \in Ranked(S, l)
      OBVIOUS
    <3>1. c \in S /\ l \in S /\ k(c) \in Nat /\ k(l) \in Nat
      BY <1>1, <1>2
    <3>2. ~(k(l) < k(c))
      BY <2>5, <3>1
    <3> QED  BY <1>1, <3>1, <3>2 DEF Ranked
  <2>7. Cardinality(F) <= k(l) + 1
    <3>1. Ranked(S, l) \in SUBSET S
      BY DEF Ranked
    <3>2. IsFiniteSet(Ranked(S, l)) /\ Cardinality(Ranked(S, l)) = k(l) /\ k(l) \in Nat
      BY <1>1, <1>2, <3>1, FS_Subset DEF k, Rank
    <3> DEFINE R == Ranked(S, l)
    <3> HIDE DEF R
    <3>3. IsFiniteSet(R \cup {l}) /\ Cardinality(R \cup {l}) <= k(l) + 1
      BY <3>2, FS_AddElement DEF R
    <3>4. Cardinality(F) <= Cardinality(R \cup {l}) /\ Cardinality(R \cup {l}) \in Nat
      BY <2>6, <3>3, FS_Subset, FS_CardinalityType DEF R
    <3> QED  BY <2>3, <3>2, <3>3, <3>4
  <2>8. k(l) < TopicPage /\ k(l) \in Nat
    BY <1>1, <1>2
  <2> QED  BY <1>0, <2>3, <2>7, <2>8
<1> QED  BY <1>3, <1>4 DEF F

\* The last of a page: every other is ahead of it.
LEMMA LastIsLast ==
  ASSUME RowsTyped, NEW S \in SUBSET Topics!InTopic, S # {}
  PROVE  LET l == Topics!LastOf(S) IN l \in S /\ \A c \in S \ {l} : c \in Topics!Ahead(l)
<1> DEFINE k(c) == Rank(S, c)
<1>1. /\ IsFiniteSet(S) /\ \A c \in S : k(c) \in Nat
      /\ \A c, d \in S : c \in Topics!Ahead(d) => k(c) < k(d)
      /\ \A c, d \in S : c # d => c \in Topics!Ahead(d) \/ d \in Topics!Ahead(c)
  BY Ranks
<1>2. /\ Cardinality(S) \in Nat
      /\ \A c \in S : k(c) <= Cardinality(S)
  <2>1. ASSUME NEW c \in S PROVE k(c) <= Cardinality(S)
    <3>1. Ranked(S, c) \in SUBSET S
      BY DEF Ranked
    <3> QED  BY <1>1, <3>1, FS_Subset DEF Rank
  <2> QED  BY <1>1, <2>1, FS_CardinalityType
<1> HIDE DEF k
<1>3. PICK l \in S : \A c \in S : k(c) <= k(l)
  <2> DEFINE n == Cardinality(S)
             T == {n - k(c) : c \in S}
  <2> HIDE DEF n
  <2>1. T \in SUBSET Nat /\ T # {}
    BY <1>1, <1>2 DEF n
  <2> HIDE DEF T
  <2>2. PICK t \in T : \A m \in T : t <= m
    BY <2>1, LeastOne
  <2>3. PICK l \in S : t = n - k(l)
    BY <2>2 DEF T
  <2>4. ASSUME NEW c \in S PROVE k(c) <= k(l)
    <3>1. n - k(l) <= n - k(c)
      BY <2>2, <2>3 DEF T
    <3>2. k(l) \in Nat /\ k(c) \in Nat /\ n \in Nat
      BY <1>1, <1>2 DEF n
    <3> QED  BY <3>1, <3>2
  <2> QED  BY <2>4
<1>4. ASSUME NEW c \in S \ {l} PROVE c \in Topics!Ahead(l)
  <2>1. k(c) \in Nat /\ k(l) \in Nat /\ k(c) <= k(l)
    BY <1>1, <1>3
  <2>2. ~(k(l) < k(c))
    BY <2>1
  <2> QED  BY <1>1, <2>2
<1>5. \E x \in S : \A c \in S \ {x} : c \in Topics!Ahead(x)
  BY <1>4
<1> QED  BY <1>5 DEF Topics!LastOf

Cursor == [date: 0..MaxDate, id: Cluster \cup {0}, registry: Nat, assigned: Nat]
NoPlace == topicCursor = Topics!NoCursor
Passed(c) == ~Topics!Beyond(date[c], c, topicCursor)
ShownOnce ==
  /\ step = "shown" /\ NoPlace => \A c \in standing : times[c] = 1
  /\ step \in {"wants", "found"} /\ NoPlace => \A c \in standing : times[c] = 0
  /\ step \in {"wants", "found", "shown"} /\ ~NoPlace =>
       \A c \in standing : times[c] = IF Passed(c) THEN 1 ELSE 0
TopicsInv ==
  /\ RowsTyped /\ standing \subseteq Topics!InTopic
  /\ times = [c \in Cluster |-> times[c]]
  /\ ~NoPlace => topicCursor.date \in Nat /\ topicCursor.id \in Nat
  /\ ShownOnce

\* The topic changes: what stands stays where it was.
LEMMA TopicChanges ==
  ASSUME TopicsInv, date' \in [Cluster -> 0..MaxDate], standing' \subseteq standing,
         \A c \in standing' : date'[c] = date[c],
         UNCHANGED <<step, topicCursor, times>>
  PROVE  TopicsInv'
<1>1. standing' \subseteq Topics!InTopic'
  BY DEF TopicsInv, Topics!InTopic
<1>2. \A c \in standing' : Passed(c)' = Passed(c)
  BY DEF Passed, Topics!Beyond
<1>3. NoPlace' = NoPlace
  BY DEF NoPlace
<1>4. ShownOnce'
  BY <1>2, <1>3 DEF TopicsInv, ShownOnce
<1> QED  BY <1>1, <1>3, <1>4 DEF TopicsInv, RowsTyped

\* The reader goes on, or away.
LEMMA ReaderMoves ==
  ASSUME TopicsInv,
         Topics!ComeIn \/ Topics!MorePlease \/ Topics!Resolve \/ Topics!Refused \/ Topics!Failed
           \/ Topics!GoAway
  PROVE  TopicsInv'
<1>1. date' = date /\ Topics!InTopic' = Topics!InTopic
  BY DEF Topics!ComeIn, Topics!MorePlease, Topics!Resolve, Topics!Refused, Topics!Failed,
    Topics!GoAway, Topics!Topic, Topics!InTopic
<1>2. CASE Topics!ComeIn \/ Topics!GoAway
  <2>1. /\ standing' \subseteq Topics!InTopic /\ times' = [c \in Cluster |-> 0]
        /\ topicCursor' = Topics!NoCursor /\ step' \in {"wants", "away"}
    BY <1>2 DEF Topics!ComeIn, Topics!GoAway, Topics!Unread
  <2>2. ShownOnce'
    BY <2>1 DEF ShownOnce, NoPlace, Topics!InTopic
  <2> QED  BY <1>1, <2>1, <2>2 DEF TopicsInv, RowsTyped, NoPlace
<1>3. CASE Topics!Refused \/ Topics!Failed
  <2>1. topicCursor' = Topics!NoCursor /\ step' = "ended" /\ UNCHANGED <<times, standing>>
    BY <1>3 DEF Topics!Refused, Topics!Failed
  <2> QED  BY <1>1, <2>1 DEF TopicsInv, RowsTyped, ShownOnce, NoPlace
<1>4. CASE Topics!MorePlease \/ Topics!Resolve
  <2>1. /\ UNCHANGED <<times, standing, topicCursor>>
        /\ \/ step = "shown" /\ topicCursor # Topics!NoCursor /\ step' = "wants"
           \/ step = "wants" /\ step' = "found"
    BY <1>4 DEF Topics!MorePlease, Topics!Resolve
  <2>2. ShownOnce'
    BY <1>1, <2>1 DEF TopicsInv, ShownOnce, NoPlace, Passed, Topics!Beyond
  <2> QED  BY <1>1, <2>1, <2>2 DEF TopicsInv, RowsTyped, NoPlace
<1> QED  BY <1>2, <1>3, <1>4

\* A page is read.
LEMMA PageRead ==
  ASSUME TopicsInv, Topics!ReadRows PROVE TopicsInv'
<1> DEFINE S == Topics!Left
           F == Topics!Page
           l == Topics!LastOf(F)
<1>1. /\ step = "found" /\ step' = "shown" /\ UNCHANGED <<date, standing>>
      /\ times' = [c \in Cluster |-> IF c \in F /\ times[c] < 2 THEN times[c] + 1 ELSE times[c]]
      /\ topicCursor' = IF Topics!Cardinality(F) = TopicPage
                        THEN [date |-> date[l], id |-> l, registry |-> topicFound.registry,
                              assigned |-> topicFound.assigned]
                        ELSE Topics!NoCursor
  BY DEF Topics!ReadRows, Topics!Topic
<1>2. S \subseteq Topics!InTopic /\ F = Fore(S) /\ Topics!Cardinality(F) = Cardinality(F)
  <2>1. \A c : Topics!Cardinality(Topics!Ahead(c) \cap S) = Rank(S, c)
    BY OneCountOfRows DEF Rank, Ranked
  <2>2. F = {c \in S : Topics!Cardinality(Topics!Ahead(c) \cap S) < TopicPage}
    BY DEF Topics!Page
  <2>3. S \subseteq Topics!InTopic
    BY DEF Topics!Left
  <2> HIDE DEF S, F
  <2> QED  BY <2>1, <2>2, <2>3, OneCountOfRows DEF Fore
<1>3. /\ \A c \in F, d \in S \ F : c \in Topics!Ahead(d)
      /\ F = S \/ Cardinality(F) = TopicPage
  <2> HIDE DEF S, F
  <2> QED  BY <1>2, ForeIsFull DEF TopicsInv
<1>4. F \subseteq S
  BY <1>2 DEF Fore
<1>5. \A c \in Topics!InTopic : c \in Cluster /\ c \in Nat /\ date[c] \in Nat /\ date[c] > 0
  BY DEF TopicsInv, RowsTyped, Topics!TopicPageAssumption, Topics!InTopic
<1>6. \A c \in Topics!InTopic : c \in S <=> NoPlace \/ ~Passed(c)
  BY DEF Topics!Left, NoPlace, Passed
<1>7. \A c \in standing : times[c] = IF c \in S THEN 0 ELSE 1
  BY <1>1, <1>6 DEF TopicsInv, ShownOnce
<1>8. \A c \in standing : c \in Topics!InTopic /\ c \in Cluster
  BY <1>5 DEF TopicsInv
<1>9. \A c \in standing : times'[c] = IF c \in S \ F THEN 0 ELSE 1
  BY <1>1, <1>4, <1>7, <1>8
<1>10. times' = [c \in Cluster |-> times'[c]]
  BY <1>1
<1>11. standing' \subseteq Topics!InTopic' /\ RowsTyped'
  BY <1>1 DEF TopicsInv, RowsTyped, Topics!InTopic
<1>12. CASE Cardinality(F) # TopicPage
  <2>1. topicCursor' = Topics!NoCursor /\ F = S
    BY <1>1, <1>2, <1>3, <1>12
  <2>2. ShownOnce'
    BY <1>1, <1>9, <2>1 DEF ShownOnce, NoPlace
  <2> QED  BY <1>10, <1>11, <2>1, <2>2 DEF TopicsInv, NoPlace
<1>13. CASE Cardinality(F) = TopicPage
  <2>1. F # {}
    <3> HIDE DEF F
    <3> QED  BY <1>13, FS_EmptySet DEF TopicsInv, RowsTyped, Topics!TopicPageAssumption
  <2>2. l \in F /\ \A c \in F \ {l} : c \in Topics!Ahead(l)
    <3>1. F \in SUBSET Topics!InTopic
      BY <1>2, <1>4
    <3> HIDE DEF F
    <3> QED  BY <2>1, <3>1, LastIsLast DEF TopicsInv
  <2>3. topicCursor'.date = date[l] /\ topicCursor'.id = l
    BY <1>1, <1>2, <1>13
  <2> HIDE DEF l, F, S
  <2>4. l \in Topics!InTopic /\ l \in Nat /\ date[l] \in Nat /\ date[l] > 0
    BY <1>2, <1>4, <1>5, <2>2
  <2>5. ~NoPlace'
    BY <2>3, <2>4 DEF NoPlace, Topics!NoCursor
  <2>6. ASSUME NEW c \in standing PROVE Passed(c)' <=> c \notin S \ F
    <3>1. /\ c \in Topics!InTopic /\ c \in Nat /\ date[c] \in Nat
      BY <1>5, <1>8
    <3>2. Passed(c)' <=> ~(date[c] < date[l] \/ (date[c] = date[l] /\ c < l))
      BY <1>1, <2>3 DEF Passed, Topics!Beyond
    <3>3. CASE c \in S \ F
      <4>1. l \in Topics!Ahead(c)
        BY <1>3, <2>2, <3>3
      <4> QED  BY <2>4, <3>1, <3>2, <3>3, <4>1 DEF Topics!Ahead
    <3>4. CASE c \in F
      <4>1. c = l \/ c \in Topics!Ahead(l)
        BY <2>2, <3>4
      <4> QED  BY <2>4, <3>1, <3>2, <3>4, <4>1 DEF Topics!Ahead
    <3>5. CASE c \notin S
      <4>1. ~NoPlace /\ Passed(c) /\ ~Passed(l)
        BY <1>4, <1>6, <2>2, <2>4, <3>1, <3>5
      <4>2. topicCursor.date \in Nat /\ topicCursor.id \in Nat
        BY <4>1 DEF TopicsInv
      <4> QED  BY <2>4, <3>1, <3>2, <3>5, <4>1, <4>2 DEF Passed, Topics!Beyond
    <3> QED  BY <3>3, <3>4, <3>5
  <2>7. ShownOnce'
    BY <1>1, <1>9, <2>5, <2>6 DEF ShownOnce
  <2> QED  BY <1>10, <1>11, <2>3, <2>4, <2>7 DEF TopicsInv
<1> QED  BY <1>12, <1>13

LEMMA TopicsStep ==
  ASSUME TopicsInv, [Topics!TopicPageNext]_Topics!topicPageVars PROVE TopicsInv'
<1>0. date \in [Cluster -> 0..MaxDate] /\ standing \subseteq Topics!InTopic /\ MaxDate \in Nat
  BY DEF TopicsInv, RowsTyped, Topics!TopicPageAssumption
<1>1. ASSUME NEW c \in Cluster, NEW d \in 1..MaxDate, NEW t \in 1..MaxStamp,
             Topics!Assign(c, d, t)
      PROVE  TopicsInv'
  <2>1. /\ date[c] = 0 /\ date' = [date EXCEPT ![c] = d]
        /\ UNCHANGED <<step, topicCursor, times, standing>>
    BY <1>1 DEF Topics!Assign, Topics!Reader
  <2>2. c \notin standing
    BY <1>0, <2>1 DEF Topics!InTopic
  <2>3. date' \in [Cluster -> 0..MaxDate]
    BY <1>0, <2>1
  <2>4. \A x \in standing' : date'[x] = date[x]
    BY <1>0, <2>1, <2>2 DEF Topics!InTopic
  <2> QED  BY <2>1, <2>3, <2>4, TopicChanges
<1>2. ASSUME NEW c \in Cluster, NEW d \in 0..MaxDate, date' = [date EXCEPT ![c] = d],
             standing' = standing \ {c}, UNCHANGED <<step, topicCursor, times>>
      PROVE  TopicsInv'
  <2>1. date' \in [Cluster -> 0..MaxDate]
    BY <1>0, <1>2
  <2>2. \A x \in standing' : date'[x] = date[x]
    BY <1>0, <1>2 DEF Topics!InTopic
  <2> QED  BY <1>2, <2>1, <2>2, TopicChanges
<1>3. ASSUME UNCHANGED <<date, standing, step, topicCursor, times>> PROVE TopicsInv'
  BY <1>0, <1>3, TopicChanges
<1>4. ASSUME NEW c \in Cluster, Topics!TakeOut(c) PROVE TopicsInv'
  <2>1. 0 \in 0..MaxDate
    BY <1>0
  <2> QED  BY <1>2, <1>4, <2>1 DEF Topics!TakeOut, Topics!Reader
<1>5. ASSUME NEW c \in Cluster, NEW d \in 1..MaxDate, Topics!Redate(c, d) PROVE TopicsInv'
  <2>1. d \in 0..MaxDate
    BY <1>0
  <2> QED  BY <1>2, <1>5, <2>1 DEF Topics!Redate, Topics!Reader
<1>6. ASSUME (\E t : Topics!AssignElsewhere(t)) \/ Topics!Govern PROVE TopicsInv'
  BY <1>3, <1>6 DEF Topics!AssignElsewhere, Topics!Govern, Topics!Reader
<1>7. CASE UNCHANGED Topics!topicPageVars
  BY <1>3, <1>7 DEF Topics!topicPageVars
<1> QED  BY <1>1, <1>4, <1>5, <1>6, <1>7, ReaderMoves, PageRead DEF Topics!TopicPageNext

LEMMA TopicsBegin ==
  ASSUME Topics!TopicPageAssumption, Topics!TopicPageInit PROVE TopicsInv
<1>1. IsFiniteSet(Cluster)
  BY DEF Topics!TopicPageAssumption, Topics!IsFiniteSet, IsFiniteSet
<1>2. RowsTyped
  BY <1>1 DEF RowsTyped, Topics!TopicPageInit
<1>3. standing = {} /\ step = "away" /\ NoPlace /\ times = [c \in Cluster |-> 0]
  BY DEF Topics!TopicPageInit, NoPlace, Topics!Unread
<1> QED  BY <1>2, <1>3 DEF TopicsInv, ShownOnce

\* A reader who gets to the end has been shown every article that stood, and none twice
\* (topicReadQueryBuilder.ts:33-45, topicReadHandler.ts:100-117).
THEOREM StandingIsShownOnce ==
  Topics!TopicPageAssumption => (Topics!TopicPageSpec => []Topics!StandingShownOnce)
<1> SUFFICES ASSUME Topics!TopicPageAssumption
             PROVE  Topics!TopicPageSpec => []Topics!StandingShownOnce
  OBVIOUS
<1>1. Topics!TopicPageInit => TopicsInv
  BY TopicsBegin
<1>2. TopicsInv /\ [Topics!TopicPageNext]_Topics!topicPageVars => TopicsInv'
  BY TopicsStep
<1>3. TopicsInv => Topics!StandingShownOnce
  BY DEF TopicsInv, ShownOnce, NoPlace, Topics!StandingShownOnce
<1> QED  BY <1>1, <1>2, <1>3, PTL DEF Topics!TopicPageSpec

-----------------------------------------------------------------------------
(***************************************************************************)
(* The column of stories.  That the drawers agree is inductive as it       *)
(* stands; of the banner it must be known that only a container waits.     *)
(***************************************************************************)
(* A scroll takes drawers out of the page and of the view model without a  *)
(* drawing, and leaves what a drawing would make, so that no later change  *)
(* of the feed opens or closes a drawer (summaryAutoCollapseService.ts).   *)
THEOREM DrawersStayTrue == Stories!DrawersSpec => []Stories!DrawersAgree
<1>1. Stories!DrawersInit => Stories!DrawersAgree
  BY DEF Stories!DrawersInit, Stories!DrawersAgree, Stories!OnScreen
<1>2. ASSUME Stories!DrawersAgree, [Stories!DrawersNext]_(Stories!drawerVars)
      PROVE  Stories!DrawersAgree'
  <2>1. CASE \/ \E among \in SUBSET Story : Stories!ColumnChanges(among)
             \/ \E d \in Stories!Drawer : Stories!ToggleDrawerOf(d)
             \/ \E d \in Stories!Drawer : Stories!FollowLink(d)
    <3>1. \E open, among : Stories!Redrawn(open, among)
      BY <2>1 DEF Stories!ColumnChanges, Stories!ToggleDrawerOf, Stories!FollowLink
    <3> QED  BY <3>1 DEF Stories!Redrawn, Stories!DrawersAgree, Stories!OnScreen
  <2>2. CASE \E out \in SUBSET drawn : Stories!LookAt(out)
    <3>1. PICK out \in SUBSET drawn : Stories!LookAt(out)
      BY <2>2
    <3>2. drawn' = drawn \ out /\ told' = told \ out /\ cards' = cards
      BY <3>1 DEF Stories!LookAt
    <3>3. expanded' = (expanded \cap drawn) \ out
      BY <3>1 DEF Stories!LookAt, Stories!Left
    <3> QED  BY <1>2, <3>2, <3>3 DEF Stories!DrawersAgree, Stories!OnScreen
  <2>3. CASE Stories!Scroll \/ Stories!LinkArrives \/ UNCHANGED Stories!drawerVars
    <3>1. UNCHANGED <<cards, expanded, drawn, told>>
      BY <2>3 DEF Stories!Scroll, Stories!LinkArrives, Stories!drawerVars
    <3> QED  BY <1>2, <3>1 DEF Stories!DrawersAgree, Stories!OnScreen
  <2> QED  BY <1>2, <2>1, <2>2, <2>3 DEF Stories!DrawersNext
<1> QED  BY <1>1, <1>2, PTL DEF Stories!DrawersSpec

Carousel == [size : Nat, index : Nat, expanded : BOOLEAN, dismissed : BOOLEAN]
InPlace(c) == c.size > 0 => c.index \in 0 .. c.size - 1

BannerInv ==
  /\ container \in BOOLEAN /\ bannerPending \in BOOLEAN /\ (bannerPending => container)
  /\ carousel \in Carousel /\ InPlace(carousel)
  /\ banners = IF container /\ ~bannerPending THEN <<Stories!Content(carousel)>> ELSE <<>>

\* Every banner is drawn from the new state.
LEMMA AllAreDrawn ==
  ASSUME BannerInv, NEW c \in Carousel, InPlace(c), Stories!Changed(c)
  PROVE  BannerInv'
<1>1. UNCHANGED <<container, bannerPending>> /\ carousel' = c
  BY DEF Stories!Changed
<1>2. banners' = [i \in DOMAIN banners |-> Stories!Content(c)]
  BY DEF Stories!Changed
<1>3. CASE container /\ ~bannerPending
  <2>1. DOMAIN banners = {1}
    BY <1>3 DEF BannerInv
  <2>2. banners' = <<Stories!Content(c)>>
    BY <1>2, <2>1
  <2> QED  BY <1>1, <1>3, <2>2 DEF BannerInv, Stories!Content, Stories!HiddenBanner, InPlace
<1>4. CASE ~(container /\ ~bannerPending)
  <2>1. DOMAIN banners = {}
    BY <1>4 DEF BannerInv
  <2>2. banners' = << >>
    BY <1>2, <2>1
  <2> QED  BY <1>1, <1>4, <2>2 DEF BannerInv, InPlace
<1> QED  BY <1>3, <1>4

\* A step keeps what is drawn, or draws it from the new state.
LEMMA BannerStep ==
  ASSUME MaxPatterns \in Nat, BannerInv, [Stories!BannerNext]_(Stories!bannerVars)
  PROVE  BannerInv'
<1>1. CASE \E h \in BOOLEAN : Stories!DrawColumn(h)
  <2>1. PICK h \in BOOLEAN : Stories!DrawColumn(h)
    BY <1>1
  <2>2. Stories!BothReady \in BOOLEAN
    BY DEF Stories!BothReady
  <2>3. /\ container' = h /\ bannerPending' = (h /\ ~Stories!BothReady) /\ carousel' = carousel
        /\ banners' = IF h /\ Stories!BothReady THEN <<Stories!Content(carousel)>> ELSE <<>>
    BY <2>1 DEF Stories!DrawColumn
  <2> QED  BY <2>2, <2>3 DEF BannerInv, InPlace, Stories!Content, Stories!HiddenBanner
<1>2. CASE \/ \E m \in {"vm", "view"} : Stories!ChunkComes(m) \/ Stories!ChunkLost(m)
           \/ UNCHANGED Stories!bannerVars
  <2>1. UNCHANGED <<carousel, container, bannerPending, banners>>
    BY <1>2 DEF Stories!ChunkComes, Stories!ChunkLost, Stories!bannerVars
  <2> QED  BY <2>1 DEF BannerInv, InPlace, Stories!Content, Stories!HiddenBanner
<1>3. CASE Stories!MountBanner
  <2>1. bannerPending /\ bannerPending' = FALSE /\ UNCHANGED <<carousel, container>>
    BY <1>3 DEF Stories!MountBanner
  <2>2. banners = <<>> /\ banners' = Append(banners, Stories!Content(carousel))
    BY <1>3, <2>1 DEF Stories!MountBanner, BannerInv
  <2>3. banners' = <<Stories!Content(carousel)>>
    BY <2>2
  <2> QED  BY <2>1, <2>3 DEF BannerInv, InPlace, Stories!Content, Stories!HiddenBanner
<1>4. CASE \E n \in Nat : Stories!PatternsCome(n)
  <2>1. PICK n \in Nat : Stories!PatternsCome(n)
    BY <1>4
  <2> DEFINE i == IF carousel.index < n THEN carousel.index ELSE IF n = 0 THEN 0 ELSE n - 1
             c == [carousel EXCEPT !.size = n, !.index = i]
  <2>2. Stories!Changed(c)
    BY <2>1 DEF Stories!PatternsCome
  <2>3. i \in Nat /\ (n > 0 => i \in 0 .. n - 1) /\ carousel \in Carousel
    BY DEF BannerInv, Carousel
  <2> HIDE DEF i
  <2>4. c \in Carousel /\ c.size = n /\ c.index = i
    BY <2>3 DEF Carousel
  <2>5. c \in Carousel /\ InPlace(c)
    BY <2>3, <2>4 DEF InPlace
  <2> HIDE DEF c
  <2> QED  BY <2>2, <2>5, AllAreDrawn
<1>5. CASE \E by \in {-1, 1} : Stories!Turn(by)
  <2>1. PICK by \in {-1, 1} : Stories!Turn(by)
    BY <1>5
  <2> DEFINE i == (carousel.index + by + carousel.size) % carousel.size
             c == [carousel EXCEPT !.index = i]
  <2>2. Stories!Changed(c) /\ carousel.size > 1
    BY <2>1 DEF Stories!Turn, Stories!Turned
  <2>3. i \in 0 .. carousel.size - 1
    BY <2>2 DEF BannerInv, Carousel
  <2>4. c \in Carousel /\ InPlace(c)
    BY <2>3 DEF BannerInv, Carousel, InPlace
  <2> HIDE DEF c
  <2> QED  BY <2>2, <2>4, AllAreDrawn
<1>6. CASE Stories!ToggleDrawer \/ Stories!Dismiss
  <2>1. PICK c \in {[carousel EXCEPT !.expanded = ~@], [carousel EXCEPT !.dismissed = TRUE]} :
          Stories!Changed(c)
    BY <1>6 DEF Stories!ToggleDrawer, Stories!Dismiss
  <2>2. c \in Carousel /\ InPlace(c)
    BY DEF BannerInv, Carousel, InPlace
  <2> QED  BY <2>1, <2>2, AllAreDrawn
<1>7. 1 .. MaxPatterns \subseteq Nat
  OBVIOUS
<1> QED
  BY <1>1, <1>2, <1>3, <1>4, <1>5, <1>6, <1>7 DEF Stories!BannerNext, Stories!PatternsFail

(* However drawings, imports and the call cross, a column has one banner   *)
(* at most, none without a container, and it shows what the view model     *)
(* holds (MainFeedRouter.ts:53-88, PublicPatternBanner.ts).                *)
THEOREM BannersAreTrue ==
  MaxPatterns \in Nat => (Stories!BannerSpec => []Stories!BannerIsTrue)
<1> SUFFICES ASSUME MaxPatterns \in Nat PROVE Stories!BannerSpec => []Stories!BannerIsTrue
  OBVIOUS
<1>1. ASSUME Stories!BannerInit PROVE BannerInv
  <2>1. container = FALSE /\ bannerPending = FALSE /\ banners = << >>
    BY <1>1 DEF Stories!BannerInit
  <2>2. carousel = [size |-> 0, index |-> 0, expanded |-> FALSE, dismissed |-> FALSE]
    BY <1>1 DEF Stories!BannerInit
  <2>3. carousel \in Carousel /\ InPlace(carousel)
    BY <2>2 DEF Carousel, InPlace
  <2> QED  BY <2>1, <2>3 DEF BannerInv
<1>2. BannerInv /\ [Stories!BannerNext]_(Stories!bannerVars) => BannerInv'
  BY BannerStep
<1>3. BannerInv => Stories!BannerIsTrue
  BY DEF BannerInv, InPlace, Stories!BannerIsTrue
<1> QED  BY <1>1, <1>2, <1>3, PTL DEF Stories!BannerSpec

-----------------------------------------------------------------------------
(***************************************************************************)
(* The offline shell.  A page of the deployed build that cannot run has,   *)
(* by not running, had the right script put into the cache.  Before a page *)
(* is open no banner stands, and a banner that fades tells of a network    *)
(* that is there.                                                          *)
(***************************************************************************)
Page == [build : Int, chunk : {"wanted", "runs", "broken"}, screen : Int,
         fetched : BOOLEAN, dark : BOOLEAN]

ChunkInv ==
  /\ cachedChunk \in [Shell!Build -> {"none", "script", "page"}]
  /\ deployed \in Shell!Build
  /\ brokenAgain \in {0, 1}
  /\ brokenAgain = 1 => cachedChunk[deployed] = "script"

OutageInv ==
  /\ page \in Page /\ online \in BOOLEAN
  /\ indexPage \in Int /\ rootPage \in Int
  /\ page.build = 0 => banner = "none" /\ ~fading
  /\ fading => online
  /\ Shell!BannersAreTrue

ShellInv == ChunkInv /\ OutageInv

\* A page just opened.
LEMMA OpenedIsPage ==
  ASSUME OutageInv, NEW b \in Int, Shell!Opened(b)
  PROVE  page' \in Page /\ page'.build = b /\ (page'.dark <=> ~online)
<1> DEFINE dark == ~online
<1>1. page' = [build |-> b, chunk |-> "wanted", screen |-> 0, fetched |-> FALSE, dark |-> dark]
  BY DEF Shell!Opened, Shell!NoPage
<1>2. dark \in BOOLEAN /\ (dark <=> ~online)
  BY DEF OutageInv
<1> HIDE DEF dark
<1>3. page' \in Page /\ page'.build = b /\ page'.dark = dark
  BY <1>1, <1>2 DEF Page
<1> QED  BY <1>2, <1>3

\* What a page learns about its chunk and the feed leaves its build.
LEMMA PageGoesOn ==
  ASSUME page \in Page,
         \/ \E c \in {"wanted", "runs", "broken"} : page' = [page EXCEPT !.chunk = c]
         \/ \E s \in Int : page' = [page EXCEPT !.fetched = TRUE, !.screen = s]
         \/ page' = [page EXCEPT !.fetched = TRUE]
         \/ page' = page
  PROVE  page' \in Page /\ page'.build = page.build /\ page'.dark = page.dark
<1>1. ASSUME NEW c \in {"wanted", "runs", "broken"}, page' = [page EXCEPT !.chunk = c]
      PROVE  page' \in Page /\ page'.build = page.build /\ page'.dark = page.dark
  BY <1>1 DEF Page
<1>2. ASSUME NEW s \in Int, page' = [page EXCEPT !.fetched = TRUE, !.screen = s]
      PROVE  page' \in Page /\ page'.build = page.build /\ page'.dark = page.dark
  BY <1>2 DEF Page
<1>3. CASE page' = [page EXCEPT !.fetched = TRUE]
  BY <1>3 DEF Page
<1> QED  BY <1>1, <1>2, <1>3

LEMMA ChunkStep ==
  ASSUME Shell!OfflineAssumption, ChunkInv, [Shell!OfflineNext]_(Shell!offlineVars)
  PROVE  ChunkInv'
<1>1. CASE \E b \in Shell!Build : Shell!Deploy(b)
  BY <1>1 DEF Shell!Deploy, Shell!Worker, ChunkInv
<1>2. CASE Shell!LoadChunk
  <2> DEFINE b == page.build
             fetched == Shell!FromHost(b)
             c == Shell!Revalidated(b)
             got == IF cachedChunk[b] # "none" THEN cachedChunk[b]
                    ELSE IF online THEN fetched ELSE "none"
  <2>1. /\ cachedChunk' = [cachedChunk EXCEPT ![b] = c]
        /\ brokenAgain' = IF got = "script" \/ ~online \/ b # deployed THEN 0 ELSE brokenAgain + 1
        /\ deployed' = deployed /\ online' = online
    BY <1>2 DEF Shell!LoadChunk
  <2>2. /\ fetched \in {"script", "page"} /\ (b = deployed => fetched = "script")
        /\ c = IF online THEN fetched ELSE cachedChunk[b]
    BY DEF Shell!FromHost, Shell!Revalidated
  <2> HIDE DEF b, fetched, c
  <2>3. cachedChunk' \in [Shell!Build -> {"none", "script", "page"}]
    BY <2>1, <2>2 DEF ChunkInv
  <2>4. CASE got = "script" \/ ~online \/ b # deployed
    BY <2>1, <2>3, <2>4 DEF ChunkInv
  <2>5. CASE ~(got = "script" \/ ~online \/ b # deployed)
    <3>1. cachedChunk[deployed] = "page" /\ brokenAgain = 0
      BY <2>2, <2>5 DEF ChunkInv
    <3>2. cachedChunk'[deployed] = "script" /\ brokenAgain' = 1
      BY <2>1, <2>2, <2>5, <3>1 DEF ChunkInv
    <3> QED  BY <2>1, <2>3, <3>2 DEF ChunkInv
  <2> QED  BY <2>4, <2>5
<1>3. CASE Shell!GoOffline
  BY <1>3 DEF Shell!GoOffline, Shell!Worker, ChunkInv
<1>4. CASE \/ Shell!VisitOnline \/ Shell!VisitOffline \/ Shell!Hydrate \/ Shell!HydrateOffline
           \/ Shell!Prune \/ Shell!GoOnline \/ Shell!Fade \/ Shell!Invite \/ Shell!Dismiss
           \/ Shell!Answered \/ UNCHANGED Shell!offlineVars
  <2>1. UNCHANGED <<cachedChunk, deployed, brokenAgain>>
    BY <1>4 DEF Shell!VisitOnline, Shell!VisitOffline, Shell!Opened, Shell!Hydrate,
      Shell!HydrateOffline, Shell!Prune, Shell!GoOnline, Shell!Fade, Shell!Invite, Shell!Dismiss,
      Shell!Answered, Shell!Worker, Shell!Bounds, Shell!offlineVars
  <2> QED  BY <2>1 DEF ChunkInv
<1> QED  BY <1>1, <1>2, <1>3, <1>4 DEF Shell!OfflineNext

LEMMA OutageStep ==
  ASSUME Shell!OfflineAssumption, ChunkInv, OutageInv, [Shell!OfflineNext]_(Shell!offlineVars)
  PROVE  OutageInv'
<1> DEFINE Shown == UNCHANGED <<online, banner, fading, prompt, invited>>
           Pages == UNCHANGED <<indexPage, rootPage>>
<1>0. deployed \in Int
  BY DEF ChunkInv, Shell!Build
<1>1. CASE \E b \in Shell!Build : Shell!Deploy(b)
  BY <1>1 DEF Shell!Deploy, Shell!Worker, Shell!Banners, OutageInv, Shell!BannersAreTrue
<1>2. ASSUME NEW b \in Int, Shell!Opened(b), indexPage' \in Int, rootPage' \in Int
      PROVE OutageInv'
  BY <1>2, OpenedIsPage DEF Shell!Opened, OutageInv, Shell!BannersAreTrue
<1>3. CASE Shell!VisitOnline
  BY <1>0, <1>2, <1>3 DEF Shell!VisitOnline, OutageInv
<1>4. CASE Shell!VisitOffline
  <2>1. Shell!Fallback \in Int
    BY DEF OutageInv, Shell!Fallback
  <2> QED  BY <1>2, <1>4, <2>1 DEF Shell!VisitOffline, OutageInv
<1>5. CASE Shell!LoadChunk \/ Shell!Hydrate \/ Shell!HydrateOffline \/ Shell!Prune
           \/ UNCHANGED Shell!offlineVars
  <2>1. \/ \E c \in {"wanted", "runs", "broken"} : page' = [page EXCEPT !.chunk = c]
        \/ \E s \in Int : page' = [page EXCEPT !.fetched = TRUE, !.screen = s]
        \/ page' = [page EXCEPT !.fetched = TRUE]
        \/ page' = page
    BY <1>0, <1>5 DEF Shell!LoadChunk, Shell!Hydrate, Shell!HydrateOffline, Shell!Prune,
      Shell!offlineVars
  <2>2. page' \in Page /\ page'.build = page.build /\ page'.dark = page.dark
    BY <2>1, PageGoesOn DEF OutageInv
  <2>3. Shown /\ Pages
    BY <1>5 DEF Shell!LoadChunk, Shell!Hydrate, Shell!HydrateOffline, Shell!Prune,
      Shell!Worker, Shell!Banners, Shell!offlineVars
  <2> QED  BY <2>2, <2>3 DEF OutageInv, Shell!BannersAreTrue
<1>6. CASE Shell!GoOffline
  BY <1>6 DEF Shell!GoOffline, Shell!Worker, OutageInv, Shell!BannersAreTrue
<1>7. CASE Shell!GoOnline
  BY <1>7 DEF Shell!GoOnline, Shell!Worker, OutageInv, Shell!BannersAreTrue
<1>8. CASE Shell!Fade
  BY <1>8 DEF Shell!Fade, Shell!AfterFade, Shell!Worker, OutageInv, Shell!BannersAreTrue
<1>9. CASE Shell!Invite \/ Shell!Dismiss \/ Shell!Answered
  BY <1>9 DEF Shell!Invite, Shell!Dismiss, Shell!Answered, Shell!Worker, OutageInv,
    Shell!BannersAreTrue
<1> QED
  BY <1>1, <1>3, <1>4, <1>5, <1>6, <1>7, <1>8, <1>9 DEF Shell!OfflineNext

(* The installed page: a wrong answer under a script's name breaks one     *)
(* visit, and the banners about the network and the installation tell what *)
(* is so (sw.js:87-106, pwaService.ts:27-102), for any number of builds,   *)
(* deployments, visits and outages.                                        *)
THEOREM ShellStaysTrue ==
  Shell!OfflineAssumption =>
    (Shell!OfflineSpec => [](Shell!BrokenOnce /\ Shell!BannersAreTrue))
<1> SUFFICES ASSUME Shell!OfflineAssumption
             PROVE  Shell!OfflineSpec => [](Shell!BrokenOnce /\ Shell!BannersAreTrue)
  OBVIOUS
<1>1. Shell!OfflineInit => ShellInv
  <2> SUFFICES ASSUME Shell!OfflineInit PROVE ShellInv
    OBVIOUS
  <2>1. ChunkInv
    BY DEF Shell!OfflineInit, Shell!OfflineAssumption, Shell!Build, ChunkInv
  <2>2. OutageInv
    BY DEF Shell!OfflineInit, Shell!NoPage, Shell!BannersAreTrue, Page, OutageInv
  <2> QED  BY <2>1, <2>2 DEF ShellInv
<1>2. ShellInv /\ [Shell!OfflineNext]_(Shell!offlineVars) => ShellInv'
  BY ChunkStep, OutageStep DEF ShellInv
<1>3. ShellInv => Shell!BrokenOnce /\ Shell!BannersAreTrue
  BY DEF ShellInv, ChunkInv, OutageInv, Shell!BrokenOnce
<1> QED  BY <1>1, <1>2, <1>3, PTL DEF Shell!OfflineSpec

-----------------------------------------------------------------------------
(***************************************************************************)
(* The dialogs.  The lock is looked at wherever the stack changes; a stack *)
(* that was empty has nothing that could stay.                             *)
(***************************************************************************)
IsList(s) == s \in Seq({s[i] : i \in DOMAIN s})
LockInv == IsList(stack) /\ bodyLocked \in BOOLEAN /\ Dialogs!LockFollowsStack

LEMMA OneCount == \A S : Dialogs!Cardinality(S) = Cardinality(S)
BY DEF Dialogs!Cardinality, Cardinality

LEMMA NothingAt == ASSUME NEW I PROVE Dialogs!At(<<>>, I) = <<>>
BY DEF Dialogs!At

LEMMA ListAt ==
  ASSUME NEW s, IsList(s), NEW I \in SUBSET DOMAIN s PROVE IsList(Dialogs!At(s, I))
<1> DEFINE n == Cardinality(I)
           d == {m \in DOMAIN s : m <= n}
           t == Dialogs!At(s, I)
<1>1. Len(s) \in Nat /\ DOMAIN s = 1..Len(s)
  BY DEF IsList
<1>2. IsFiniteSet(I)
  <2>1. IsFiniteSet(1..Len(s))
    BY <1>1, FS_Interval
  <2> QED  BY <1>1, <2>1, FS_Subset
<1>3. n \in Nat
  BY <1>2, FS_CardinalityType
<1> HIDE DEF n
<1>4. \E m \in Nat : d = 1..m
  <2>1. CASE n <= Len(s)
    <3>1. d = 1..n
      BY <1>1, <1>3, <2>1
    <3> QED  BY <1>3, <3>1
  <2>2. CASE n > Len(s)
    <3>1. d = 1..Len(s)
      BY <1>1, <1>3, <2>2
    <3> QED  BY <1>1, <3>1
  <2> QED  BY <1>1, <1>3, <2>1, <2>2
<1>5. t = [k \in d |-> s[CHOOSE i \in I : Dialogs!Cardinality({j \in I : j < i}) = k - 1]]
  BY OneCount DEF Dialogs!At, n
<1> HIDE DEF d
<1>6. DOMAIN t = d /\ t = [k \in d |-> t[k]]
  BY <1>5
<1> HIDE DEF t
<1>7. PICK m \in Nat : d = 1..m
  BY <1>4
<1>8. t \in [1..m -> {t[i] : i \in DOMAIN t}]
  BY <1>6, <1>7
<1>9. t \in Seq({t[i] : i \in DOMAIN t})
  BY <1>8
<1> QED  BY <1>9 DEF IsList, t

LEMMA EmptyList == IsList(<<>>)
<1>1. <<>> \in Seq({<<>>[i] : i \in DOMAIN <<>>})
  OBVIOUS
<1> QED  BY <1>1 DEF IsList

LEMMA ListAppended ==
  ASSUME NEW s, IsList(s), NEW e PROVE IsList(Append(s, e)) /\ Append(s, e) # <<>>
<1> DEFINE S == {s[i] : i \in DOMAIN s} \cup {e}
           t == Append(s, e)
<1>1. s \in Seq(S)
  BY DEF IsList
<1>2. t \in Seq(S) /\ Len(t) = Len(s) + 1 /\ Len(s) \in Nat
  BY <1>1
<1> HIDE DEF t, S
<1>3. t \in [1..Len(t) -> {t[i] : i \in DOMAIN t}] /\ Len(t) \in Nat
  BY <1>2
<1>4. t \in Seq({t[i] : i \in DOMAIN t})
  BY <1>3
<1> QED  BY <1>2, <1>4 DEF IsList, t

LEMMA ListLeft ==
  ASSUME LockInv, NEW P
  PROVE  LET left == Dialogs!Connected(stack, P)
         IN IsList(left) /\ (left # <<>> => bodyLocked = TRUE)
<1>1. IsList(Dialogs!Connected(stack, P))
  BY ListAt DEF LockInv, Dialogs!Connected
<1>2. stack = <<>> => Dialogs!Connected(stack, P) = <<>>
  BY NothingAt DEF Dialogs!Connected
<1> QED  BY <1>1, <1>2 DEF LockInv, Dialogs!LockFollowsStack

LEMMA LockPushed ==
  ASSUME LockInv, NEW k, NEW P, Dialogs!Pushed(k, P) PROVE LockInv'
<1> DEFINE left == Dialogs!Connected(stack, P)
<1>1. PICK e : /\ stack' = Append(left, e)
               /\ bodyLocked' = ((bodyLocked /\ left # <<>>) \/ left = <<>>)
  BY DEF Dialogs!Pushed, Dialogs!Cleaned
<1>2. IsList(left) /\ (left # <<>> => bodyLocked = TRUE)
  BY ListLeft
<1>3. bodyLocked' = TRUE
  BY <1>1, <1>2
<1> HIDE DEF left
<1>4. IsList(stack') /\ stack' # <<>>
  BY <1>1, <1>2, ListAppended
<1> QED  BY <1>3, <1>4 DEF LockInv, Dialogs!LockFollowsStack, IsList

LEMMA LockTaken ==
  ASSUME LockInv, NEW e, Dialogs!Taken(e) PROVE LockInv'
<1> DEFINE st == Dialogs!Connected(stack, inPage)
           left == Dialogs!At(st, {i \in DOMAIN st : st[i] # e})
<1>1. stack' = left /\ bodyLocked' = (bodyLocked /\ left # <<>>)
  BY DEF Dialogs!Taken, Dialogs!Cleaned
<1>2. IsList(st) /\ (st # <<>> => bodyLocked = TRUE)
  BY ListLeft
<1> HIDE DEF st
<1>3. IsList(left) /\ (st = <<>> => left = <<>>)
  BY <1>2, ListAt, NothingAt
<1> HIDE DEF left
<1> QED  BY <1>1, <1>2, <1>3 DEF LockInv, Dialogs!LockFollowsStack, IsList

LEMMA LockStep ==
  LockInv /\ [Dialogs!ModalNext]_Dialogs!modalVars => LockInv'
<1> SUFFICES ASSUME LockInv, [Dialogs!ModalNext]_Dialogs!modalVars PROVE LockInv'
  OBVIOUS
<1>1. ASSUME NEW k \in Single \cup Several, Dialogs!OpenDossier(k) PROVE LockInv'
  BY <1>1, LockPushed DEF Dialogs!OpenDossier
<1>2. ASSUME NEW e, Dialogs!CloseButton(e) PROVE LockInv'
  BY <1>2, LockTaken DEF Dialogs!CloseButton
<1>3. CASE Dialogs!DrawSignIn
  BY <1>3, LockPushed DEF Dialogs!DrawSignIn
<1>4. CASE Dialogs!Toggle
  <2> DEFINE left == Dialogs!Connected(stack, inPage')
  <2>1. stack' = left /\ bodyLocked' = (bodyLocked /\ left # <<>>)
    BY <1>4 DEF Dialogs!Toggle, Dialogs!Cleaned
  <2>2. IsList(left) /\ (left # <<>> => bodyLocked = TRUE)
    BY ListLeft
  <2> HIDE DEF left
  <2> QED  BY <2>1, <2>2 DEF LockInv, Dialogs!LockFollowsStack, IsList
<1>5. CASE Dialogs!EscapeDialog
  BY <1>5, LockTaken DEF Dialogs!EscapeDialog
<1>6. CASE Dialogs!EscapeDesk
  <2>1. stack' = <<>> /\ bodyLocked' = FALSE
    BY <1>6 DEF Dialogs!EscapeDesk
  <2>2. IsList(stack')
    BY <2>1, EmptyList
  <2> QED  BY <2>1, <2>2 DEF LockInv, Dialogs!LockFollowsStack, IsList
<1>7. ASSUME UNCHANGED <<stack, bodyLocked>> PROVE LockInv'
  BY <1>7 DEF LockInv, Dialogs!LockFollowsStack, IsList
<1> QED  BY <1>1, <1>2, <1>3, <1>4, <1>5, <1>6, <1>7 DEF Dialogs!ModalNext, Dialogs!DeskChanges,
  Dialogs!OpenDesk, Dialogs!DrawDesk, Dialogs!CloseDesk, Dialogs!Leave, Dialogs!modalVars

\* The page scrolls unless a dialog is in the manager's hands (modalManager.ts).
THEOREM LockStaysTrue == Dialogs!ModalSpec => []Dialogs!LockFollowsStack
<1>1. Dialogs!ModalInit => LockInv
  BY EmptyList DEF Dialogs!ModalInit, LockInv, Dialogs!LockFollowsStack
<1>2. LockInv => Dialogs!LockFollowsStack
  BY DEF LockInv
<1> QED  BY <1>1, <1>2, LockStep, PTL DEF Dialogs!ModalSpec

\* What stands at a place that is kept is kept.
LEMMA KeptAt ==
  ASSUME NEW s, IsList(s), NEW I \in SUBSET DOMAIN s, NEW i \in I
  PROVE  s[i] \in Dialogs!Range(Dialogs!At(s, I))
<1> DEFINE before(j) == {m \in I : m < j}
           n == Cardinality(I)
           k == Cardinality(before(i)) + 1
<1>1. Len(s) \in Nat /\ DOMAIN s = 1..Len(s) /\ I \in SUBSET Nat
  BY DEF IsList
<1>2. IsFiniteSet(I) /\ n \in Nat /\ n <= Len(s)
  <2> HIDE DEF before
  <2>1. IsFiniteSet(1..Len(s)) /\ Cardinality(1..Len(s)) = Len(s)
    <3> DEFINE l == Len(s)
    <3>1. l \in Nat
      BY <1>1
    <3> HIDE DEF l
    <3>2. IsFiniteSet(1..l) /\ Cardinality(1..l) = l
      BY <3>1, FS_Interval
    <3> QED  BY <3>2 DEF l
  <2> QED  BY <1>1, <2>1, FS_Subset, FS_CardinalityType
<1>3. ASSUME NEW j \in I
      PROVE  IsFiniteSet(before(j)) /\ Cardinality(before(j)) \in Nat /\ j \notin before(j)
  <2>1. before(j) \in SUBSET I /\ j \notin before(j)
    BY <1>1
  <2> HIDE DEF before
  <2> QED  BY <1>2, <2>1, FS_Subset, FS_CardinalityType
<1>4. k \in Nat /\ 1 <= k /\ k <= n
  <2>1. Cardinality(before(i)) < n
    <3>1. before(i) \in SUBSET I /\ i \in I /\ i \notin before(i)
      BY <1>3
    <3> HIDE DEF before
    <3>2. /\ before(i) # I /\ Cardinality(before(i)) \in Nat
          /\ Cardinality(before(i)) <= Cardinality(I)
          /\ Cardinality(before(i)) = Cardinality(I) => before(i) = I
      BY <1>2, <1>3, <3>1, FS_Subset
    <3> QED  BY <1>2, <3>2
  <2>2. Cardinality(before(i)) \in Nat
    BY <1>3
  <2> HIDE DEF before
  <2> QED  BY <1>2, <2>1, <2>2
<1>5. ASSUME NEW j \in I, NEW m \in I, j < m PROVE Cardinality(before(j)) # Cardinality(before(m))
  <2>1. before(j) \in SUBSET before(m) /\ j \in before(m) /\ j \notin before(j)
    <3>1. \A x \in before(j) : x \in before(m)
      BY <1>1, <1>5
    <3>2. j \in before(m) /\ j \notin before(j)
      BY <1>1, <1>5
    <3> HIDE DEF before
    <3> QED  BY <3>1, <3>2
  <2>2. IsFiniteSet(before(m))
    BY <1>3
  <2> HIDE DEF before
  <2> QED  BY <2>1, <2>2, FS_Subset
<1>6. \A j \in I : Dialogs!Cardinality({m \in I : m < j}) = k - 1 => j = i
  <2> SUFFICES ASSUME NEW j \in I, Dialogs!Cardinality({m \in I : m < j}) = k - 1 PROVE j = i
    OBVIOUS
  <2>1. Cardinality(before(j)) = Cardinality(before(i))
    <3>1. Cardinality(before(j)) = k - 1 /\ Cardinality(before(i)) \in Nat
      BY <1>3, OneCount
    <3> HIDE DEF before
    <3> QED  BY <3>1
  <2>2. i \in Nat /\ j \in Nat
    BY <1>1
  <2> HIDE DEF before, k
  <2> QED  BY <1>5, <2>1, <2>2
<1>7. Dialogs!Cardinality({m \in I : m < i}) = k - 1
  <2>1. Cardinality(before(i)) \in Nat /\ Dialogs!Cardinality({m \in I : m < i}) = Cardinality(before(i))
    BY <1>3, OneCount
  <2> HIDE DEF before
  <2> QED  BY <2>1
<1>8. (CHOOSE j \in I : Dialogs!Cardinality({m \in I : m < j}) = k - 1) = i
  <2> HIDE DEF k
  <2> QED  BY <1>6, <1>7
<1>9. k \in {m \in DOMAIN s : m <= Dialogs!Cardinality(I)}
  <2>1. Dialogs!Cardinality(I) = n
    BY OneCount
  <2> HIDE DEF k, n
  <2> QED  BY <1>1, <1>2, <1>4, <2>1
<1>10. k \in DOMAIN Dialogs!At(s, I) /\ Dialogs!At(s, I)[k] = s[i]
  <2> HIDE DEF k
  <2> QED  BY <1>8, <1>9 DEF Dialogs!At
<1> HIDE DEF k
<1> QED  BY <1>10 DEF Dialogs!Range

\* The desk closes in four steps: two leave the stack alone, the shortcut
\* takes only what is out of the page, and Escape asks that nothing be open.
LEMMA DeskClosesAlone ==
  ASSUME LockInv, Dialogs!ModalNext, deskOpen, ~deskOpen',
         NEW e \in Dialogs!Range(stack), e \in inPage'
  PROVE  e \in Dialogs!Range(stack')
<1> DEFINE kept(P) == {i \in DOMAIN stack : stack[i] \in P}
<1>1. ASSUME NEW P, e \in P PROVE e \in Dialogs!Range(Dialogs!Connected(stack, P))
  <2>1. PICK i \in DOMAIN stack : stack[i] = e
    BY DEF Dialogs!Range
  <2>2. i \in kept(P) /\ kept(P) \in SUBSET DOMAIN stack
    BY <1>1, <2>1
  <2> HIDE DEF kept
  <2>3. e \in Dialogs!Range(Dialogs!At(stack, kept(P)))
    BY <2>1, <2>2, KeptAt DEF LockInv
  <2> QED  BY <2>3 DEF Dialogs!Connected, kept
<1>2. CASE UNCHANGED stack
  BY <1>2 DEF Dialogs!Range
<1>3. CASE Dialogs!Toggle
  BY <1>1, <1>3 DEF Dialogs!Toggle, Dialogs!Cleaned
<1>4. CASE Dialogs!EscapeDesk
  <2>1. inPage' \in SUBSET inPage
    BY <1>4 DEF Dialogs!EscapeDesk, Dialogs!Redrawn, Dialogs!Emptied
  <2>2. Dialogs!Connected(stack, inPage) = <<>>
    BY <1>4 DEF Dialogs!EscapeDesk, Dialogs!Open, Dialogs!Cleaned
  <2>3. e \in Dialogs!Range(<<>>)
    BY <1>1, <2>1, <2>2
  <2> QED  BY <2>3 DEF Dialogs!Range
<1>5. CASE Dialogs!EscapeDialog
  BY <1>5 DEF Dialogs!EscapeDialog, Dialogs!DeskAfter
<1>6. ASSUME NEW k \in Single \cup Several, Dialogs!OpenDossier(k) PROVE FALSE
  BY <1>6 DEF Dialogs!OpenDossier
<1>7. ASSUME NEW x \in Dialogs!Element, Dialogs!CloseButton(x) PROVE FALSE
  BY <1>7 DEF Dialogs!CloseButton
<1>8. CASE Dialogs!DrawSignIn
  BY <1>8 DEF Dialogs!DrawSignIn
<1>9. ASSUME NEW x \in Dialogs!Element, Dialogs!Leave(x) PROVE UNCHANGED stack
  BY <1>9 DEF Dialogs!Leave
<1>10. Dialogs!OpenDesk \/ Dialogs!DrawDesk \/ Dialogs!CloseDesk => UNCHANGED stack
  BY DEF Dialogs!OpenDesk, Dialogs!DrawDesk, Dialogs!CloseDesk
<1>11. ASSUME NEW in \in BOOLEAN, Dialogs!DeskChanges(in) PROVE UNCHANGED stack
  BY <1>11 DEF Dialogs!DeskChanges
<1> QED  BY <1>2, <1>3, <1>4, <1>5, <1>6, <1>7, <1>8, <1>9, <1>10, <1>11 DEF Dialogs!ModalNext

\* One key closes one thing (modalManager.ts:57-68, main.ts:251-253).
THEOREM DeskKeepsDialogs == Dialogs!ModalSpec => Dialogs!OneKeyOneThing
<1>1. Dialogs!ModalInit => LockInv
  BY EmptyList DEF Dialogs!ModalInit, LockInv, Dialogs!LockFollowsStack
<1>2. LockInv /\ [Dialogs!ModalNext]_Dialogs!modalVars =>
        [(deskOpen /\ ~deskOpen') =>
            \A e \in Dialogs!Range(stack) :
              e \in inPage' => e \in Dialogs!Range(stack')]_Dialogs!modalVars
  BY DeskClosesAlone
<1> QED  BY <1>1, <1>2, LockStep, PTL DEF Dialogs!ModalSpec, Dialogs!OneKeyOneThing

-----------------------------------------------------------------------------
(***************************************************************************)
(* The threads' tab.  A row is of a thread, so the one a list selects is   *)
(* somebody.                                                               *)
(***************************************************************************)
ThreadRow == [id: Thread, events: Nat, coherent: Nat]
TabInv == rows \in Seq(ThreadRow) /\ Threads!TimelineIsItsThreads

LEMMA TabGrows ==
  ASSUME Threads!ThreadViewAssumption, rows \in Seq(ThreadRow), NEW t \in Thread, Threads!Grow(t)
  PROVE  rows' \in Seq(ThreadRow)
<1> DEFINE size == IF Threads!Has(t) THEN Threads!RowOfThread(t).events ELSE 0
           others == IF Threads!Has(t) THEN Threads!RemoveAt(rows, Threads!Place(t)) ELSE rows
<1>0. PICK n \in {size, size + 1} : \E fit \in 0..n :
        rows' = <<[id |-> t, events |-> n, coherent |-> fit]>> \o others
  BY DEF Threads!Grow
<1>1. PICK fit \in 0..n : rows' = <<[id |-> t, events |-> n, coherent |-> fit]>> \o others
  BY <1>0
<1>2. CASE ~Threads!Has(t)
  BY <1>1, <1>2 DEF ThreadRow
<1>3. CASE Threads!Has(t)
  <2> DEFINE p == Threads!Place(t)
  <2>1. p \in DOMAIN rows
    BY <1>3 DEF Threads!Has, Threads!Place
  <2>2. size = rows[p].events /\ others = SubSeq(rows, 1, p - 1) \o SubSeq(rows, p + 1, Len(rows))
    BY <1>3 DEF Threads!RowOfThread, Threads!RemoveAt
  <2> HIDE DEF size, others, p
  <2>3. others \in Seq(ThreadRow)
    BY <2>1, <2>2
  <2>4. size \in Nat
    <3>1. rows[p] \in ThreadRow
      BY <2>1
    <3> QED  BY <2>2, <3>1 DEF ThreadRow
  <2>5. [id |-> t, events |-> n, coherent |-> fit] \in ThreadRow
    BY <1>1, <2>4 DEF ThreadRow
  <2> QED  BY <1>1, <2>3, <2>5
<1> QED  BY <1>2, <1>3

LEMMA TabStep ==
  ASSUME Threads!ThreadViewAssumption, TabInv,
         [Threads!ThreadsViewNext]_Threads!threadsViewVars
  PROVE  TabInv'
<1> USE DEF TabInv, Threads!TimelineIsItsThreads
<1>1. ASSUME NEW t \in Thread, Threads!Grow(t) PROVE TabInv'
  <2>1. rows' \in Seq(ThreadRow)
    BY <1>1, TabGrows
  <2> QED  BY <1>1, <2>1 DEF Threads!Grow
<1>2. CASE Threads!DrawTab
  BY <1>2 DEF Threads!DrawTab, Threads!Load
<1>3. CASE Threads!SetStatusFilter
  BY <1>3 DEF Threads!SetStatusFilter, Threads!Load
<1>4. ASSUME NEW f \in Threads!ThreadFilter, Threads!ListComes(f) PROVE TabInv'
  <2>1. list' = {rows[i].id : i \in Threads!Listed(f)} /\ UNCHANGED rows
    BY <1>4 DEF Threads!ListComes
  <2>2. CASE chosen = Nothing /\ Threads!Listed(f) # {}
    <3>1. PICK i \in Threads!Listed(f) : Threads!Select(rows[i].id, list')
      BY <1>4, <2>2 DEF Threads!ListComes
    <3>2. rows[i].id \in Thread
      <4>1. rows[i] \in ThreadRow
        BY DEF Threads!Listed
      <4> QED  BY <4>1 DEF ThreadRow
    <3> QED  BY <2>1, <3>1, <3>2 DEF Threads!Select, Threads!Emptied, Threads!ThreadViewAssumption
  <2>3. CASE ~(chosen = Nothing /\ Threads!Listed(f) # {})
    <3>1. UNCHANGED <<chosen, heading, timeline>>
      BY <1>4, <2>3 DEF Threads!ListComes
    <3>2. list' # {} => chosen # Nothing
      BY <2>1, <2>3
    <3> QED  BY <2>1, <3>1, <3>2
  <2> QED  BY <2>2, <2>3
<1>5. ASSUME NEW f \in Threads!ThreadFilter, Threads!ListFails(f) PROVE TabInv'
  BY <1>5 DEF Threads!ListFails
<1>6. ASSUME NEW t \in Thread, Threads!Click(t) PROVE TabInv'
  BY <1>6 DEF Threads!Click, Threads!Select, Threads!Emptied, Threads!ThreadViewAssumption
<1>7. ASSUME NEW t \in Thread, Threads!DetailComes(t) PROVE TabInv'
  BY <1>7 DEF Threads!DetailComes, Threads!Told
<1>8. ASSUME NEW t \in Thread, Threads!DetailFails(t) PROVE TabInv'
  BY <1>8 DEF Threads!DetailFails
<1>9. ASSUME UNCHANGED <<rows, list, chosen, heading, timeline>> PROVE TabInv'
  BY <1>9
<1> QED  BY <1>1, <1>2, <1>3, <1>4, <1>5, <1>6, <1>7, <1>8, <1>9 DEF Threads!ThreadsViewNext,
  Threads!OpenDialog, Threads!DialogComes, Threads!CloseDialog, Threads!threadsViewVars

\* Events never stand under the name of another thread (ThreadExplorerViewModel.ts).
THEOREM TimelinesStayTrue ==
  Threads!ThreadViewAssumption => (Threads!ThreadsViewSpec => []Threads!TimelineIsItsThreads)
<1> SUFFICES ASSUME Threads!ThreadViewAssumption
             PROVE  Threads!ThreadsViewSpec => []Threads!TimelineIsItsThreads
  OBVIOUS
<1>1. Threads!ThreadsViewInit => TabInv
  BY DEF Threads!ThreadsViewInit, TabInv, Threads!TimelineIsItsThreads
<1>2. TabInv => Threads!TimelineIsItsThreads
  BY DEF TabInv
<1>3. TabInv /\ [Threads!ThreadsViewNext]_Threads!threadsViewVars => TabInv'
  BY TabStep
<1> QED  BY <1>1, <1>2, <1>3, PTL DEF Threads!ThreadsViewSpec

-----------------------------------------------------------------------------
(***************************************************************************)
(* The panels.  A call that is alone finds all other slots idle.           *)
(***************************************************************************)
Field == {"kind", "of", "with", "served", "alone", "answer"}
Called1(c) == DOMAIN c = Field /\ c.served \in BOOLEAN /\ c.alone \in BOOLEAN
Busy(c) == c.kind # "none"

Slots(S, as) == as = [a \in S |-> as[a]] /\ \A a \in S : Called1(as[a])
OneAlone(S, as) ==
  \A a \in S : as[a].alone => Busy(as[a]) /\ \A b \in S \ {a} : ~Busy(as[b])

(***************************************************************************)
(* The patterns' panel.  While a call is alone, a list asked for is of the *)
(* panel's filter and, once served, of the statuses there are; a card      *)
(* under review is on the panel and the answer its status.  When the list  *)
(* came alone and so did every review since, the panel misses at most the  *)
(* verdict of the review whose answer is to come, until it asks anew.      *)
(***************************************************************************)
Fit(h) == IF PatternPanel!Fits(verdict[h], pill) THEN verdict[h] ELSE Nothing

PatternCall(c) ==
  /\ c.kind \in {"none", "list"} \cup PatternPanel!Reviews
  /\ c.kind \in PatternPanel!Reviews => c.of \in Hypothesis
  /\ c.kind = "edit" => c.with = c.of
  /\ c.kind = "list" /\ c.served => c.answer = [h \in Hypothesis |-> c.answer[h]]
  /\ c.alone /\ c.kind = "list" =>
       c.of = pill /\ (c.served => c.answer = [h \in Hypothesis |-> Fit(h)])
  /\ c.alone /\ c.kind \in PatternPanel!Reviews =>
       shelf[c.of] # Nothing /\ (c.served => c.answer = verdict[c.of])

UnderReview(h) ==
  \E a \in PatternAsk : /\ patternAsks[a].kind \in PatternPanel!Reviews
                        /\ patternAsks[a].served /\ patternAsks[a].of = h
AloneTillNow ==
  \A a \in PatternAsk : Busy(patternAsks[a]) =>
    patternAsks[a].alone /\ patternAsks[a].kind # "list"

CallsOfPatterns ==
  /\ Slots(PatternAsk, patternAsks) /\ OneAlone(PatternAsk, patternAsks)
  /\ \A a \in PatternAsk : PatternCall(patternAsks[a])
PanelInv ==
  /\ verdict = [h \in Hypothesis |-> verdict[h]] /\ shelf = [h \in Hypothesis |-> shelf[h]]
  /\ draft \in {Nothing, editing}
  /\ wording = [h \in Hypothesis |-> h]
ShelfInv ==
  patternSettled /\ AloneTillNow => \A h \in Hypothesis : UnderReview(h) \/ shelf[h] = Fit(h)

PatternInv == CallsOfPatterns /\ PanelInv /\ ShelfInv

\* A call is sent: it is alone if no other is under way, and no other is.
SentInto(S, as, as2, slot, c) ==
  /\ slot \in S /\ ~Busy(as[slot])
  /\ Called1(c) /\ Busy(c)
  /\ c.alone <=> \A a \in S : ~Busy(as[a])
  /\ as2 = [b \in S |-> IF b = slot THEN c ELSE [as[b] EXCEPT !.alone = FALSE]]

OthersKept(S, as, as2, slot) ==
  \A b \in S \ {slot} :
    /\ as2[b].alone = FALSE /\ as2[b].kind = as[b].kind /\ as2[b].of = as[b].of
    /\ as2[b].with = as[b].with /\ as2[b].served = as[b].served
    /\ as2[b].answer = as[b].answer

LEMMA SentAlone ==
  ASSUME NEW S, NEW as, NEW as2, NEW slot, NEW c,
         Slots(S, as), OneAlone(S, as), SentInto(S, as, as2, slot, c)
  PROVE  Slots(S, as2) /\ OneAlone(S, as2) /\ as2[slot] = c /\ OthersKept(S, as, as2, slot)
<1> USE DEF SentInto
<1>1. ASSUME NEW b \in S \ {slot}
      PROVE  /\ as2[b].alone = FALSE /\ as2[b].kind = as[b].kind /\ as2[b].of = as[b].of
             /\ as2[b].with = as[b].with /\ as2[b].served = as[b].served
             /\ as2[b].answer = as[b].answer /\ Called1(as2[b])
  <2> DEFINE d == as[b]
  <2>1. as2[b] = [d EXCEPT !.alone = FALSE] /\ Called1(d)
    BY DEF Slots
  <2> HIDE DEF d
  <2>2. /\ as2[b].alone = FALSE /\ as2[b].kind = d.kind /\ as2[b].of = d.of /\ as2[b].with = d.with
        /\ as2[b].served = d.served /\ as2[b].answer = d.answer /\ DOMAIN as2[b] = Field
    BY <2>1 DEF Called1, Field
  <2>3. Called1(as2[b])
    BY <2>1, <2>2 DEF Called1
  <2> QED  BY <2>2, <2>3 DEF d
<1>2. as2[slot] = c
  OBVIOUS
<1>3. Slots(S, as2)
  BY <1>1, <1>2 DEF Slots
<1>4. ASSUME NEW a \in S, as2[a].alone, NEW b \in S \ {a}
      PROVE  Busy(as2[a]) /\ ~Busy(as2[b])
  <2>1. a = slot /\ c.alone
    BY <1>1, <1>2, <1>4
  <2>2. as2[b].kind = as[b].kind /\ ~Busy(as[b])
    BY <1>1, <1>4, <2>1
  <2> QED  BY <1>2, <2>1, <2>2 DEF Busy
<1>5. ASSUME NEW a \in S, as2[a].alone PROVE Busy(as2[a])
  BY <1>1, <1>2, <1>5
<1>6. OneAlone(S, as2)
  BY <1>4, <1>5 DEF OneAlone
<1> QED  BY <1>1, <1>2, <1>3, <1>6 DEF OthersKept

\* A call is answered, or fails, and its slot is idle.
EndedIn(S, as, as2, a, c) ==
  a \in S /\ Called1(c) /\ ~Busy(c) /\ c.alone = FALSE /\ as2 = [as EXCEPT ![a] = c]
OthersSame(S, as, as2, a) == \A b \in S \ {a} : as2[b] = as[b]

LEMMA EndedAlone ==
  ASSUME NEW S, NEW as, NEW as2, NEW a, NEW c,
         Slots(S, as), OneAlone(S, as), EndedIn(S, as, as2, a, c)
  PROVE  Slots(S, as2) /\ OneAlone(S, as2) /\ as2[a] = c /\ OthersSame(S, as, as2, a)
<1>1. as2[a] = c /\ OthersSame(S, as, as2, a)
  BY DEF Slots, EndedIn, OthersSame
<1>2. /\ a \in S /\ Called1(c) /\ ~Busy(c) /\ c.alone = FALSE
      /\ as2 = [b \in S |-> IF b = a THEN c ELSE as[b]]
  BY DEF Slots, EndedIn
<1>3. Slots(S, as2)
  BY <1>1, <1>2 DEF Slots, OthersSame
<1>4. OneAlone(S, as2)
  BY <1>1, <1>2 DEF OneAlone, OthersSame
<1> QED  BY <1>1, <1>3, <1>4

\* A call is served.
ServedIn(S, as, as2, a, x) ==
  a \in S /\ as2 = [as EXCEPT ![a].served = TRUE, ![a].answer = x]
ServedWith(d, e, x) ==
  /\ e.served = TRUE /\ e.answer = x /\ e.kind = d.kind /\ e.of = d.of /\ e.with = d.with
  /\ e.alone = d.alone

LEMMA ServedAlone ==
  ASSUME NEW S, NEW as, NEW as2, NEW a, NEW x,
         Slots(S, as), OneAlone(S, as), ServedIn(S, as, as2, a, x)
  PROVE  /\ Slots(S, as2) /\ OneAlone(S, as2)
         /\ ServedWith(as[a], as2[a], x) /\ OthersSame(S, as, as2, a)
<1> DEFINE d == as[a]
           e == [[d EXCEPT !.served = TRUE] EXCEPT !.answer = x]
<1>1. a \in S /\ as2[a] = e /\ Called1(d) /\ OthersSame(S, as, as2, a)
  BY DEF Slots, Called1, Field, ServedIn, OthersSame
<1>2. as2 = [b \in S |-> as2[b]]
  BY DEF Slots, ServedIn
<1> HIDE DEF d
<1>3. ServedWith(d, e, x) /\ DOMAIN e = Field
  BY <1>1 DEF Called1, Field, ServedWith
<1> HIDE DEF e
<1>4. Called1(e)
  BY <1>1, <1>3 DEF Called1, ServedWith
<1>5. Slots(S, as2)
  BY <1>1, <1>2, <1>4 DEF Slots, OthersSame
<1>6. ASSUME NEW b \in S PROVE as2[b].kind = as[b].kind /\ as2[b].alone = as[b].alone
  BY <1>1, <1>3 DEF d, ServedWith, OthersSame
<1>7. OneAlone(S, as2)
  BY <1>6 DEF OneAlone, Busy
<1> QED  BY <1>1, <1>3, <1>5, <1>7 DEF d

\* What does not touch the calls, nor what the panel holds.
LEMMA PatternsRest ==
  ASSUME PatternInv, UNCHANGED <<verdict, wording, shelf, pill, patternAsks, patternSettled>>,
         draft' \in {Nothing, editing'}
  PROVE  PatternInv'
<1>1. CallsOfPatterns' /\ PanelInv'
  BY DEF PatternInv, CallsOfPatterns, PatternCall, PanelInv, Fit, PatternPanel!Fits,
    PatternPanel!Reviews
<1>2. \A h : Fit(h)' = Fit(h) /\ (UnderReview(h)' <=> UnderReview(h))
  BY DEF Fit, PatternPanel!Fits, UnderReview, PatternPanel!Reviews
<1>3. ShelfInv'
  BY <1>2 DEF PatternInv, ShelfInv, AloneTillNow
<1> QED  BY <1>1, <1>3 DEF PatternInv

\* A list is asked for, or a review.
LEMMA PatternsSent ==
  ASSUME PatternInv, NEW k, NEW x, NEW y, PatternPanel!Sent(k, x, y),
         k \in {"list"} \cup PatternPanel!Reviews,
         k = "list" => x = pill',
         k # "list" => x \in Hypothesis /\ shelf[x] # Nothing /\ pill' = pill,
         k = "edit" => y = x,
         UNCHANGED <<verdict, wording, shelf, patternSettled>>,
         draft' \in {Nothing, editing'}
  PROVE  PatternInv'
<1> DEFINE slot == CHOOSE a \in PatternAsk : PatternPanel!Idle(a)
           c == PatternPanel!NewCall(k, x, y, PatternPanel!Quiet)
<1>1. /\ slot \in PatternAsk /\ ~Busy(patternAsks[slot])
      /\ patternAsks' = [b \in PatternAsk |->
           IF b = slot THEN c ELSE [patternAsks[b] EXCEPT !.alone = FALSE]]
  BY DEF PatternPanel!Sent, PatternPanel!Idle, Busy
<1>2. /\ Called1(c) /\ Busy(c) /\ c.kind = k /\ c.of = x /\ c.with = y
      /\ ~c.served /\ (c.alone <=> \A a \in PatternAsk : ~Busy(patternAsks[a]))
  <2> DEFINE q == PatternPanel!Quiet
  <2>1. q \in BOOLEAN /\ (q <=> \A a \in PatternAsk : ~Busy(patternAsks[a]))
    BY DEF PatternPanel!Quiet, PatternPanel!Idle, Busy
  <2> HIDE DEF q
  <2>2. c = [kind |-> k, of |-> x, with |-> y, served |-> FALSE, alone |-> q,
             answer |-> Nothing]
    BY DEF PatternPanel!NewCall, q
  <2> HIDE DEF c
  <2>3. /\ DOMAIN c = Field /\ c.served = FALSE /\ c.alone = q
        /\ c.kind = k /\ c.of = x /\ c.with = y
    BY <2>2 DEF Field
  <2> QED  BY <2>1, <2>3 DEF Called1, Busy, PatternPanel!Reviews
<1> HIDE DEF slot, c
<1>3. /\ Slots(PatternAsk, patternAsks') /\ OneAlone(PatternAsk, patternAsks')
      /\ patternAsks'[slot] = c
      /\ \A b \in PatternAsk \ {slot} :
           /\ ~patternAsks'[b].alone /\ patternAsks'[b].kind = patternAsks[b].kind
           /\ patternAsks'[b].of = patternAsks[b].of
           /\ patternAsks'[b].with = patternAsks[b].with
           /\ patternAsks'[b].served = patternAsks[b].served
           /\ patternAsks'[b].answer = patternAsks[b].answer
  <2> DEFINE as == patternAsks
             as2 == patternAsks'
  <2>1. Slots(PatternAsk, as) /\ OneAlone(PatternAsk, as)
    BY DEF PatternInv, CallsOfPatterns
  <2>2. SentInto(PatternAsk, as, as2, slot, c)
    BY <1>1, <1>2 DEF SentInto
  <2> HIDE DEF as, as2
  <2>3. /\ Slots(PatternAsk, as2) /\ OneAlone(PatternAsk, as2) /\ as2[slot] = c
        /\ OthersKept(PatternAsk, as, as2, slot)
    BY <2>1, <2>2, SentAlone
  <2> QED  BY <2>3 DEF as, as2, OthersKept
<1>4. ASSUME NEW b \in PatternAsk PROVE PatternCall(patternAsks[b])'
  <2>1. CASE b = slot
    BY <1>2, <1>3, <2>1 DEF PatternCall, PatternPanel!Reviews
  <2>2. CASE b # slot
    <3>1. PatternCall(patternAsks[b])
      BY DEF PatternInv, CallsOfPatterns
    <3> QED  BY <1>3, <2>2, <3>1 DEF PatternCall, PatternPanel!Reviews
  <2> QED  BY <2>1, <2>2
<1>5. CallsOfPatterns' /\ PanelInv'
  BY <1>3, <1>4 DEF PatternInv, CallsOfPatterns, PanelInv
<1>6. ASSUME patternSettled', AloneTillNow', NEW h \in Hypothesis
      PROVE  shelf'[h] = Fit(h)'
  <2>1. c.alone /\ k # "list"
    BY <1>1, <1>2, <1>3, <1>6 DEF AloneTillNow
  <2>2. \A a \in PatternAsk : ~Busy(patternAsks[a])
    BY <1>2, <2>1
  <2>3. AloneTillNow /\ ~UnderReview(h)
    BY <2>2 DEF AloneTillNow, UnderReview, Busy, PatternPanel!Reviews
  <2>4. shelf[h] = Fit(h)
    BY <1>6, <2>3 DEF PatternInv, ShelfInv
  <2> QED  BY <2>1, <2>4 DEF Fit, PatternPanel!Fits
<1>7. ShelfInv'
  BY <1>6 DEF ShelfInv
<1> QED  BY <1>5, <1>7 DEF PatternInv

\* The server answers.
LEMMA PatternsServed ==
  ASSUME PatternInv, NEW a \in PatternAsk,
         PatternPanel!ServeList(a) \/ PatternPanel!ServeReview(a)
  PROVE  PatternInv'
<1> DEFINE as == patternAsks
           as2 == patternAsks'
           S == PatternAsk
<1>0. Slots(S, as) /\ OneAlone(S, as) /\ \A b \in S : PatternCall(as[b])
  BY DEF PatternInv, CallsOfPatterns
<1>1. ASSUME NEW x, PatternPanel!Served(a, x)
      PROVE  /\ Slots(S, as2) /\ OneAlone(S, as2)
             /\ ServedWith(as[a], as2[a], x) /\ OthersSame(S, as, as2, a)
  <2>1. ServedIn(S, as, as2, a, x)
    BY <1>1 DEF PatternPanel!Served, ServedIn
  <2> HIDE DEF as, as2, S
  <2> QED  BY <1>0, <2>1, ServedAlone
<1>2. CASE PatternPanel!ServeList(a)
  <2> DEFINE x == [h \in Hypothesis |->
                     IF PatternPanel!Fits(verdict[h], as[a].of) THEN verdict[h] ELSE Nothing]
  <2>1. /\ as[a].kind = "list" /\ PatternPanel!Served(a, x)
        /\ UNCHANGED <<verdict, wording, shelf, pill, editing, draft, patternSettled>>
    BY <1>2 DEF PatternPanel!ServeList, PatternPanel!Unserved
  <2>2. /\ Slots(S, as2) /\ OneAlone(S, as2)
        /\ ServedWith(as[a], as2[a], x) /\ OthersSame(S, as, as2, a)
    BY <1>1, <2>1
  <2>3. as[a].of = pill => x = [h \in Hypothesis |-> Fit(h)]
    BY DEF Fit
  <2>4. x = [h \in Hypothesis |-> x[h]]
    OBVIOUS
  <2> HIDE DEF x
  <2>5. PatternCall(as[a]) /\ (\A h : Fit(h)' = Fit(h))
    BY <1>0, <2>1 DEF Fit, PatternPanel!Fits
  <2>6. PatternCall(patternAsks[a])'
    BY <2>1, <2>2, <2>3, <2>4, <2>5 DEF ServedWith, PatternCall, PatternPanel!Reviews
  <2>7. ASSUME NEW b \in S \ {a} PROVE PatternCall(patternAsks[b])'
    <3>1. PatternCall(as[b]) /\ as2[b] = as[b]
      BY <1>0, <2>2 DEF OthersSame
    <3> QED  BY <2>1, <2>5, <3>1 DEF PatternCall, PatternPanel!Reviews
  <2>8. CallsOfPatterns' /\ PanelInv'
    BY <2>1, <2>2, <2>6, <2>7 DEF CallsOfPatterns, PanelInv, PatternInv
  <2>9. ~AloneTillNow'
    BY <2>1, <2>2 DEF AloneTillNow, ServedWith, Busy
  <2> QED  BY <2>8, <2>9 DEF PatternInv, ShelfInv
<1>3. CASE PatternPanel!ServeReview(a)
  <2> DEFINE r == as[a].of
             x == PatternPanel!Judged(verdict[r], as[a].kind)
  <2>1. /\ as[a].kind \in PatternPanel!Reviews /\ ~as[a].served /\ PatternPanel!Served(a, x)
        /\ verdict' = [verdict EXCEPT ![r] = x]
        /\ wording' = [wording EXCEPT ![r] = IF as[a].kind = "edit" THEN as[a].with ELSE @]
        /\ UNCHANGED <<shelf, pill, editing, draft, patternSettled>>
    BY <1>3 DEF PatternPanel!ServeReview, PatternPanel!Unserved
  <2> HIDE DEF x
  <2>2. /\ Slots(S, as2) /\ OneAlone(S, as2)
        /\ ServedWith(as[a], as2[a], x) /\ OthersSame(S, as, as2, a)
    BY <1>1, <2>1
  <2>3. PatternCall(as[a]) /\ r \in Hypothesis /\ Busy(as[a])
    BY <1>0, <2>1 DEF PatternCall, Busy, PatternPanel!Reviews
  <2>4. /\ verdict' = [h \in Hypothesis |-> verdict'[h]] /\ verdict'[r] = x
        /\ \A h \in Hypothesis \ {r} : verdict'[h] = verdict[h]
    BY <2>1, <2>3 DEF PatternInv, PanelInv
  <2>5. wording' = [h \in Hypothesis |-> h]
    BY <2>1, <2>3 DEF PatternInv, PanelInv, PatternCall
  <2>6. PatternCall(patternAsks[a])'
    BY <2>1, <2>2, <2>3, <2>4 DEF ServedWith, PatternCall, PatternPanel!Reviews
  <2>7. ASSUME NEW b \in S \ {a} PROVE PatternCall(patternAsks[b])'
    <3>1. PatternCall(as[b]) /\ as2[b] = as[b]
      BY <1>0, <2>2 DEF OthersSame
    <3>2. ~as[b].alone
      BY <1>0, <2>3 DEF OneAlone
    <3> QED  BY <2>1, <3>1, <3>2 DEF PatternCall, PatternPanel!Reviews
  <2>8. CallsOfPatterns' /\ PanelInv'
    BY <2>1, <2>2, <2>4, <2>5, <2>6, <2>7 DEF CallsOfPatterns, PanelInv, PatternInv
  <2>9. ASSUME patternSettled', AloneTillNow', NEW h \in Hypothesis
        PROVE  UnderReview(h)' \/ shelf'[h] = Fit(h)'
    <3>1. AloneTillNow
      <4> SUFFICES ASSUME NEW b \in S, Busy(as[b]) PROVE as[b].alone /\ as[b].kind # "list"
        BY DEF AloneTillNow
      <4>1. as2[b].kind = as[b].kind /\ as2[b].alone = as[b].alone
        BY <2>2 DEF ServedWith, OthersSame
      <4> QED  BY <2>9, <4>1 DEF AloneTillNow, Busy
    <3>2. UnderReview(h) \/ shelf[h] = Fit(h)
      BY <2>1, <2>9, <3>1 DEF PatternInv, ShelfInv
    <3>3. CASE h = r
      BY <2>1, <2>2, <3>3 DEF UnderReview, ServedWith
    <3>4. CASE h # r /\ UnderReview(h)
      <4>1. PICK b \in S : as[b].kind \in PatternPanel!Reviews /\ as[b].served /\ as[b].of = h
        BY <3>4 DEF UnderReview
      <4>2. as2[b] = as[b]
        BY <2>1, <2>2, <4>1 DEF OthersSame
      <4> QED  BY <4>1, <4>2 DEF UnderReview, PatternPanel!Reviews
    <3>5. CASE h # r /\ shelf[h] = Fit(h)
      BY <2>1, <2>4, <3>5 DEF Fit, PatternPanel!Fits
    <3> QED  BY <3>2, <3>3, <3>4, <3>5
  <2> QED  BY <2>8, <2>9 DEF PatternInv, ShelfInv
<1> QED  BY <1>2, <1>3

\* An answer comes, or a call fails.
LEMMA PatternsEnded ==
  ASSUME PatternInv, NEW a \in PatternAsk,
         \/ PatternPanel!ListAnswered(a) \/ PatternPanel!ListFailed(a)
         \/ PatternPanel!ReviewAnswered(a) \/ PatternPanel!ReviewFailed(a)
  PROVE  PatternInv'
<1> DEFINE as == patternAsks
           as2 == patternAsks'
           S == PatternAsk
           c == PatternPanel!NoCall
<1>0. Slots(S, as) /\ OneAlone(S, as) /\ \A b \in S : PatternCall(as[b])
  BY DEF PatternInv, CallsOfPatterns
<1>1. as[a].kind \in {"list"} \cup PatternPanel!Reviews /\ as2 = [as EXCEPT ![a] = c]
      /\ UNCHANGED <<verdict, wording, pill>>
  BY DEF PatternPanel!ListAnswered, PatternPanel!ListFailed, PatternPanel!ReviewAnswered,
    PatternPanel!ReviewFailed, PatternPanel!Answered, PatternPanel!CallFails
<1>2. Busy(as[a])
  BY <1>1 DEF Busy, PatternPanel!Reviews
<1>3. Called1(c) /\ c.kind = "none" /\ c.alone = FALSE
  BY DEF PatternPanel!NoCall, PatternPanel!NewCall, Called1, Field
<1>4. EndedIn(S, as, as2, a, c)
  BY <1>1, <1>3 DEF EndedIn, Busy
<1>5. Slots(S, as2) /\ OneAlone(S, as2) /\ as2[a] = c /\ OthersSame(S, as, as2, a)
  <2> HIDE DEF as, as2, S, c
  <2> QED  BY <1>0, <1>4, EndedAlone
<1>6. ASSUME NEW b \in S \ {a} PROVE as2[b] = as[b] /\ ~as[b].alone /\ (as[a].alone => ~Busy(as[b]))
  BY <1>0, <1>2, <1>5 DEF OneAlone, OthersSame
<1>7. ASSUME NEW b \in S PROVE PatternCall(patternAsks[b])'
  <2>1. CASE b = a
    BY <1>3, <1>5, <2>1 DEF PatternCall, PatternPanel!Reviews
  <2>2. CASE b # a
    <3>1. PatternCall(as[b])
      BY <1>0
    <3> QED  BY <1>6, <2>2, <3>1 DEF PatternCall, PatternPanel!Reviews
  <2> QED  BY <2>1, <2>2
<1>8. CallsOfPatterns'
  BY <1>5, <1>7 DEF CallsOfPatterns
<1>9. \A h : Fit(h)' = Fit(h)
  BY <1>1 DEF Fit, PatternPanel!Fits
<1>10. CASE PatternPanel!ListFailed(a) \/ PatternPanel!ReviewFailed(a)
  <2>1. /\ patternSettled' = FALSE
        /\ UNCHANGED <<verdict, wording, shelf, pill, editing, draft>>
    BY <1>10 DEF PatternPanel!ListFailed, PatternPanel!ReviewFailed
  <2>2. PanelInv'
    BY <2>1 DEF PatternInv, PanelInv
  <2> QED  BY <1>8, <2>1, <2>2 DEF PatternInv, ShelfInv
<1>11. CASE PatternPanel!ListAnswered(a)
  <2>1. /\ as[a].kind = "list" /\ as[a].served /\ shelf' = as[a].answer
        /\ patternSettled' = as[a].alone
        /\ UNCHANGED <<verdict, wording, pill, editing, draft>>
    BY <1>11 DEF PatternPanel!ListAnswered, PatternPanel!Answered
  <2>2. PatternCall(as[a])
    BY <1>0
  <2>3. PanelInv'
    BY <2>1, <2>2 DEF PatternInv, PanelInv, PatternCall
  <2>4. ASSUME patternSettled', NEW h \in Hypothesis PROVE shelf'[h] = Fit(h)'
    BY <1>9, <2>1, <2>2, <2>4 DEF PatternCall
  <2> QED  BY <1>8, <2>3, <2>4 DEF PatternInv, ShelfInv
<1>12. CASE PatternPanel!ReviewAnswered(a)
  <2> DEFINE r == as[a].of
  <2>1. /\ as[a].kind \in PatternPanel!Reviews /\ as[a].served
        /\ shelf' = [shelf EXCEPT ![r] = PatternPanel!AfterReview(@, as[a].answer)]
        /\ patternSettled' = (patternSettled /\ as[a].alone)
        /\ \/ editing' = Nothing /\ draft' = Nothing
           \/ UNCHANGED <<editing, draft>>
    BY <1>12 DEF PatternPanel!ReviewAnswered, PatternPanel!Answered
  <2>2. PatternCall(as[a]) /\ r \in Hypothesis
    BY <1>0, <2>1 DEF PatternCall
  <2>3. /\ shelf' = [h \in Hypothesis |-> shelf'[h]]
        /\ shelf'[r] = PatternPanel!AfterReview(shelf[r], as[a].answer)
        /\ \A h \in Hypothesis \ {r} : shelf'[h] = shelf[h]
    BY <2>1, <2>2 DEF PatternInv, PanelInv
  <2>4. PanelInv'
    BY <1>1, <2>1, <2>3 DEF PatternInv, PanelInv
  <2>5. ASSUME patternSettled', NEW h \in Hypothesis PROVE shelf'[h] = Fit(h)'
    <3>1. patternSettled /\ as[a].alone
      BY <2>1, <2>5
    <3>2. \A b \in S \ {a} : ~Busy(as[b])
      BY <1>6, <3>1
    <3>3. AloneTillNow
      BY <2>1, <3>1, <3>2 DEF AloneTillNow, PatternPanel!Reviews
    <3>4. CASE h = r
      BY <1>9, <2>1, <2>2, <2>3, <3>1, <3>4 DEF PatternCall, Fit, PatternPanel!AfterReview
    <3>5. CASE h # r
      <4>1. ~UnderReview(h)
        BY <3>2, <3>5 DEF UnderReview, Busy, PatternPanel!Reviews
      <4>2. shelf[h] = Fit(h)
        BY <3>1, <3>3, <4>1 DEF PatternInv, ShelfInv
      <4> QED  BY <1>9, <2>3, <3>5, <4>2
    <3> QED  BY <3>4, <3>5
  <2> QED  BY <1>8, <2>4, <2>5 DEF PatternInv, ShelfInv
<1> QED  BY <1>10, <1>11, <1>12

LEMMA PatternsBegin == PatternAsk # {} /\ PatternPanel!PatternDeskInit => PatternInv
<1> SUFFICES ASSUME PatternAsk # {}, PatternPanel!PatternDeskInit PROVE PatternInv
  OBVIOUS
<1> DEFINE slot == CHOOSE a \in PatternAsk : TRUE
           c == PatternPanel!NewCall("list", "draft", Nothing, TRUE)
           n == PatternPanel!NoCall
<1>1. /\ slot \in PatternAsk /\ pill = "draft" /\ ~patternSettled
      /\ patternAsks = [b \in PatternAsk |-> IF b = slot THEN c ELSE n]
  BY DEF PatternPanel!PatternDeskInit, PatternPanel!CallsBegin
<1>2. /\ Called1(c) /\ c.kind = "list" /\ c.of = "draft" /\ ~c.served
      /\ Called1(n) /\ n.kind = "none" /\ n.alone = FALSE
  BY DEF PatternPanel!NoCall, PatternPanel!NewCall, Called1, Field
<1> HIDE DEF slot, c, n
<1>3. CallsOfPatterns
  BY <1>1, <1>2 DEF CallsOfPatterns, Slots, OneAlone, Busy, PatternCall, PatternPanel!Reviews
<1>4. PanelInv
  BY DEF PatternPanel!PatternDeskInit, PanelInv
<1> QED  BY <1>1, <1>3, <1>4 DEF PatternInv, ShelfInv

LEMMA PatternStep == PatternInv /\ [PatternPanel!PatternDeskNext]_PatternPanel!patternDeskVars
                     => PatternInv'
<1> SUFFICES ASSUME PatternInv, [PatternPanel!PatternDeskNext]_PatternPanel!patternDeskVars
             PROVE  PatternInv'
  OBVIOUS
<1>0. draft \in {Nothing, editing} /\ shelf = [h \in Hypothesis |-> shelf[h]]
  BY DEF PatternInv, PanelInv
<1>1. CASE PatternPanel!Refresh
  BY <1>0, <1>1, PatternsSent DEF PatternPanel!Refresh
<1>2. ASSUME NEW f \in PatternPanel!Pill, PatternPanel!SetFilter(f) PROVE PatternInv'
  <2>1. /\ PatternPanel!Sent("list", f, Nothing) /\ pill' = f /\ draft' = Nothing
        /\ UNCHANGED <<verdict, wording, shelf, patternSettled>>
    BY <1>2 DEF PatternPanel!SetFilter
  <2> QED  BY <2>1, PatternsSent
<1>3. ASSUME NEW h \in Hypothesis, PatternPanel!StartEditing(h) PROVE PatternInv'
  BY <1>3, PatternsRest DEF PatternPanel!StartEditing
<1>4. CASE PatternPanel!CancelEditing
  BY <1>4, PatternsRest DEF PatternPanel!CancelEditing
<1>5. ASSUME NEW t \in Hypothesis \cup {Nothing}, PatternPanel!Write(t) PROVE PatternInv'
  BY <1>5, PatternsRest DEF PatternPanel!Write
<1>6. ASSUME NEW h \in Hypothesis, PatternPanel!SaveEdit(h) PROVE PatternInv'
  <2>1. /\ PatternPanel!Sent("edit", h, draft) /\ draft # Nothing /\ editing = h
        /\ shelf[h] # Nothing
        /\ UNCHANGED <<verdict, wording, shelf, pill, editing, draft, patternSettled>>
    BY <1>6 DEF PatternPanel!SaveEdit, PatternPanel!CardShown
  <2>2. draft = h /\ draft' \in {Nothing, editing'}
    BY <1>0, <2>1
  <2> QED  BY <2>1, <2>2, PatternsSent DEF PatternPanel!Reviews
<1>7. ASSUME NEW h \in Hypothesis, NEW k \in {"approve", "reject"}, PatternPanel!Judge(h, k)
      PROVE  PatternInv'
  <2>1. /\ PatternPanel!Sent(k, h, Nothing) /\ shelf[h] # Nothing
        /\ UNCHANGED <<verdict, wording, shelf, pill, editing, draft, patternSettled>>
    BY <1>7 DEF PatternPanel!Judge, PatternPanel!CardShown
  <2>2. draft' \in {Nothing, editing'}
    BY <1>0, <2>1
  <2> QED  BY <2>1, <2>2, PatternsSent DEF PatternPanel!Reviews
<1>8. CASE UNCHANGED PatternPanel!patternDeskVars
  BY <1>0, <1>8, PatternsRest DEF PatternPanel!patternDeskVars, PatternPanel!patternDeskOwn,
    PatternPanel!callVars
<1> QED  BY <1>1, <1>2, <1>3, <1>4, <1>5, <1>6, <1>7, <1>8, PatternsServed, PatternsEnded
         DEF PatternPanel!PatternDeskNext

\* In the panel of patterns a shelf that settled is the table's, and every text is with
\* the hypothesis it was written about (PatternReviewViewModel.ts).
THEOREM PatternsStayTrue ==
  PatternAsk # {} => (PatternPanel!PatternDeskSpec => []PatternPanel!PatternDeskIsTrue)
<1>1. PatternInv => PatternPanel!PatternDeskIsTrue
  <2> SUFFICES ASSUME PatternInv PROVE PatternPanel!PatternDeskIsTrue
    OBVIOUS
  <2>1. PatternPanel!WordsStayHome
    BY DEF PatternInv, PanelInv, PatternPanel!WordsStayHome
  <2>2. ASSUME patternSettled, PatternPanel!Quiet, NEW h \in Hypothesis PROVE shelf[h] = Fit(h)
    <3>1. \A a \in PatternAsk : ~Busy(patternAsks[a])
      BY <2>2 DEF PatternPanel!Quiet, PatternPanel!Idle, Busy
    <3>2. AloneTillNow /\ ~UnderReview(h)
      BY <3>1 DEF AloneTillNow, UnderReview, Busy, PatternPanel!Reviews
    <3> QED  BY <2>2, <3>2 DEF PatternInv, ShelfInv
  <2> QED  BY <2>1, <2>2 DEF PatternPanel!PatternDeskIsTrue, PatternPanel!ShelfIsTrue, Fit
<1> QED  BY <1>1, PatternsBegin, PatternStep, PTL DEF PatternPanel!PatternDeskSpec

-----------------------------------------------------------------------------
(***************************************************************************)
(* The panel of tables.  A call that is alone asks what the panel shows;   *)
(* while calls do not overlap every one is, and what is drawn is the       *)
(* answer to it.                                                           *)
(***************************************************************************)
Read == KnowledgePanel!TableRead(question)
QuestionType ==
  [table: Table, page: Nat, sort: Column \cup {Nothing}, dir: {"ASC", "DESC"}, filter: Filter]
TableCall(c) ==
  /\ c.kind \in {"none", "table"}
  /\ c.alone => c.of = question /\ (c.served => c.answer = Read)

CallsOfTables ==
  /\ Slots(TableAsk, knowledgeAsks) /\ OneAlone(TableAsk, knowledgeAsks)
  /\ \A a \in TableAsk : TableCall(knowledgeAsks[a])
NoneBusy == \A a \in TableAsk : ~Busy(knowledgeAsks[a])
PageIsThere ==
  \/ question.page = 0
  \/ question.page * RowsOfPage < matching[question.table][question.filter]
InTurn ==
  ~overlapped =>
    /\ \A a \in TableAsk : Busy(knowledgeAsks[a]) => knowledgeAsks[a].alone
    /\ ~asking /\ ~knowledgeFailed => answer = Read
    /\ PageIsThere
TablesInv ==
  /\ question \in QuestionType /\ matching \in [Table -> [Filter -> 0..MaxRows]]
  /\ CallsOfTables /\ InTurn
  /\ knowledgeSettled /\ NoneBusy /\ ~knowledgeFailed => answer = Read

\* A question that is another, of a page there is.
LEMMA TablesAsked ==
  ASSUME TablesInv, NEW q \in QuestionType, KnowledgePanel!AskFor(q),
         ~overlapped /\ NoneBusy =>
           q.page = 0 \/ q.page * RowsOfPage < matching[q.table][q.filter]
  PROVE  TablesInv'
<1> DEFINE slot == CHOOSE a \in TableAsk : KnowledgePanel!Idle(a)
           c == KnowledgePanel!NewCall("table", q, Nothing, KnowledgePanel!Quiet)
           as == knowledgeAsks
           as2 == knowledgeAsks'
<1>1. /\ slot \in TableAsk /\ ~Busy(as[slot])
      /\ as2 = [b \in TableAsk |-> IF b = slot THEN c ELSE [as[b] EXCEPT !.alone = FALSE]]
      /\ question' = q /\ asking' = TRUE /\ knowledgeFailed' = FALSE
      /\ overlapped' = (overlapped \/ ~NoneBusy)
      /\ UNCHANGED <<matching, answer, knowledgeSettled>>
  BY DEF KnowledgePanel!AskFor, KnowledgePanel!Sent, KnowledgePanel!Idle, KnowledgePanel!Quiet,
    Busy, NoneBusy
<1>2. /\ Called1(c) /\ Busy(c) /\ c.kind = "table" /\ c.of = q /\ ~c.served
      /\ (c.alone <=> NoneBusy)
  <2> DEFINE s == KnowledgePanel!Quiet
  <2>1. s \in BOOLEAN /\ (s <=> NoneBusy)
    BY DEF KnowledgePanel!Quiet, KnowledgePanel!Idle, Busy, NoneBusy
  <2> HIDE DEF s
  <2>2. c = [kind |-> "table", of |-> q, with |-> Nothing, served |-> FALSE, alone |-> s,
             answer |-> Nothing]
    BY DEF KnowledgePanel!NewCall, s
  <2> HIDE DEF c
  <2>3. /\ DOMAIN c = Field /\ c.served = FALSE /\ c.alone = s /\ c.kind = "table" /\ c.of = q
    BY <2>2 DEF Field
  <2> QED  BY <2>1, <2>3 DEF Called1, Busy
<1> HIDE DEF slot, c
<1>3. /\ Slots(TableAsk, as2) /\ OneAlone(TableAsk, as2) /\ as2[slot] = c
      /\ OthersKept(TableAsk, as, as2, slot)
  <2>1. Slots(TableAsk, as) /\ OneAlone(TableAsk, as)
    BY DEF TablesInv, CallsOfTables
  <2>2. SentInto(TableAsk, as, as2, slot, c)
    BY <1>1, <1>2 DEF SentInto, NoneBusy
  <2> HIDE DEF as, as2
  <2> QED  BY <2>1, <2>2, SentAlone
<1>4. ASSUME NEW b \in TableAsk PROVE TableCall(knowledgeAsks[b])'
  <2>1. TableCall(as[b])
    BY DEF TablesInv, CallsOfTables
  <2> QED  BY <1>1, <1>2, <1>3, <2>1 DEF TableCall, OthersKept
<1>5. CallsOfTables'
  BY <1>3, <1>4 DEF CallsOfTables
<1>6. ~NoneBusy'
  BY <1>1, <1>2, <1>3 DEF NoneBusy
<1>7. ASSUME ~overlapped'
      PROVE  PageIsThere' /\ \A a \in TableAsk : Busy(as2[a]) => as2[a].alone
  <2>1. ~overlapped /\ NoneBusy
    BY <1>1, <1>7
  <2>2. \A a \in TableAsk : Busy(as2[a]) => a = slot
    BY <1>3, <2>1 DEF NoneBusy, OthersKept, Busy
  <2> QED  BY <1>1, <1>2, <1>3, <2>1, <2>2 DEF PageIsThere
<1>8. InTurn'
  BY <1>1, <1>7 DEF InTurn
<1> QED  BY <1>1, <1>5, <1>6, <1>8 DEF TablesInv

\* The server reads the table.
LEMMA TablesServed ==
  ASSUME TablesInv, NEW a \in TableAsk, KnowledgePanel!ServeTable(a) PROVE TablesInv'
<1> DEFINE as == knowledgeAsks
           as2 == knowledgeAsks'
           x == KnowledgePanel!TableRead(as[a].of)
<1>1. /\ as[a].kind = "table" /\ ServedIn(TableAsk, as, as2, a, x)
      /\ UNCHANGED <<matching, question, answer, asking, knowledgeFailed, overlapped,
                     knowledgeSettled>>
  BY DEF KnowledgePanel!ServeTable, KnowledgePanel!Unserved, KnowledgePanel!Served, ServedIn,
    KnowledgePanel!knowledgeOwn
<1>2. as[a].of = question => x = Read
  BY DEF Read
<1>3. Slots(TableAsk, as) /\ OneAlone(TableAsk, as) /\ \A b \in TableAsk : TableCall(as[b])
  BY DEF TablesInv, CallsOfTables
<1>4. /\ Slots(TableAsk, as2) /\ OneAlone(TableAsk, as2)
      /\ ServedWith(as[a], as2[a], x) /\ OthersSame(TableAsk, as, as2, a)
  <2> HIDE DEF as, as2, x
  <2> QED  BY <1>1, <1>3, ServedAlone
<1>5. Read' = Read
  BY <1>1 DEF Read, KnowledgePanel!TableRead
<1> HIDE DEF x
<1>6. ASSUME NEW b \in TableAsk PROVE TableCall(knowledgeAsks[b])'
  <2>1. TableCall(as[b])
    BY <1>3
  <2>2. CASE b = a
    BY <1>1, <1>2, <1>4, <1>5, <2>1, <2>2 DEF TableCall, ServedWith
  <2>3. CASE b # a
    BY <1>1, <1>4, <1>5, <2>1, <2>3 DEF TableCall, OthersSame
  <2> QED  BY <2>2, <2>3
<1>7. CallsOfTables'
  BY <1>4, <1>6 DEF CallsOfTables
<1>8. \A b \in TableAsk : Busy(as2[b]) = Busy(as[b]) /\ as2[b].alone = as[b].alone
  BY <1>4 DEF Busy, ServedWith, OthersSame
<1>9. PageIsThere' = PageIsThere
  BY <1>1 DEF PageIsThere
<1>10. InTurn'
  BY <1>1, <1>5, <1>8, <1>9 DEF TablesInv, InTurn
<1>11. ~NoneBusy'
  BY <1>1, <1>8 DEF NoneBusy, Busy
<1> QED  BY <1>1, <1>7, <1>10, <1>11 DEF TablesInv

\* An answer comes, or a call fails.
LEMMA TablesEnded ==
  ASSUME TablesInv, NEW a \in TableAsk,
         KnowledgePanel!TableComes(a) \/ KnowledgePanel!TableFails(a)
  PROVE  TablesInv'
<1> DEFINE as == knowledgeAsks
           as2 == knowledgeAsks'
           c == KnowledgePanel!NoCall
<1>1. /\ as[a].kind = "table" /\ as2 = [as EXCEPT ![a] = c] /\ asking' = FALSE
      /\ UNCHANGED <<matching, question, overlapped>>
  BY DEF KnowledgePanel!TableComes, KnowledgePanel!TableFails, KnowledgePanel!Answered,
    KnowledgePanel!CallFails
<1>2. Called1(c) /\ c.kind = "none" /\ c.alone = FALSE
  BY DEF KnowledgePanel!NoCall, KnowledgePanel!NewCall, Called1, Field
<1>3. Slots(TableAsk, as) /\ OneAlone(TableAsk, as) /\ \A b \in TableAsk : TableCall(as[b])
  BY DEF TablesInv, CallsOfTables
<1>4. Slots(TableAsk, as2) /\ OneAlone(TableAsk, as2) /\ as2[a] = c
      /\ OthersSame(TableAsk, as, as2, a)
  <2>1. EndedIn(TableAsk, as, as2, a, c)
    BY <1>1, <1>2 DEF EndedIn, Busy
  <2> HIDE DEF as, as2, c
  <2> QED  BY <1>3, <2>1, EndedAlone
<1>5. Read' = Read /\ PageIsThere' = PageIsThere
  BY <1>1 DEF Read, KnowledgePanel!TableRead, PageIsThere
<1> HIDE DEF c
<1>6. ASSUME NEW b \in TableAsk PROVE TableCall(knowledgeAsks[b])'
  <2>1. TableCall(as[b])
    BY <1>3
  <2> QED  BY <1>1, <1>2, <1>4, <1>5, <2>1 DEF TableCall, OthersSame
<1>7. CallsOfTables'
  BY <1>4, <1>6 DEF CallsOfTables
<1>8. \A b \in TableAsk : Busy(as2[b]) => Busy(as[b]) /\ as2[b].alone = as[b].alone
  BY <1>2, <1>4 DEF Busy, OthersSame
<1>9. TableCall(as[a]) /\ (~overlapped => as[a].alone)
  BY <1>1, <1>3 DEF TablesInv, InTurn, Busy
<1>10. CASE KnowledgePanel!TableFails(a)
  <2>1. knowledgeFailed' = TRUE
    BY <1>10 DEF KnowledgePanel!TableFails
  <2>2. InTurn'
    BY <1>1, <1>5, <1>8, <2>1 DEF TablesInv, InTurn
  <2> QED  BY <1>1, <1>7, <2>1, <2>2 DEF TablesInv
<1>11. CASE KnowledgePanel!TableComes(a)
  <2>1. as[a].served /\ answer' = as[a].answer /\ knowledgeSettled' = as[a].alone
    BY <1>11 DEF KnowledgePanel!TableComes, KnowledgePanel!Answered
  <2>2. as[a].alone => answer' = Read'
    BY <1>5, <1>9, <2>1 DEF TableCall
  <2>3. InTurn'
    BY <1>1, <1>5, <1>8, <1>9, <2>2 DEF TablesInv, InTurn
  <2> QED  BY <1>1, <1>7, <2>1, <2>2, <2>3 DEF TablesInv
<1> QED  BY <1>10, <1>11

\* Rows come or go: no call is alone after it.
LEMMA TablesChanged ==
  ASSUME TablesInv, NEW t \in Table, NEW f \in Filter, KnowledgePanel!RowsChange(t, f)
  PROVE  TablesInv'
<1> DEFINE as == knowledgeAsks
           as2 == knowledgeAsks'
<1>1. /\ overlapped' = TRUE /\ knowledgeSettled' = FALSE /\ question' = question
      /\ as2 = [a \in TableAsk |-> [as[a] EXCEPT !.alone = FALSE]]
  BY DEF KnowledgePanel!RowsChange, KnowledgePanel!Elsewhere
<1>2. PICK n \in 0..MaxRows : matching' = [matching EXCEPT ![t][f] = n]
  BY DEF KnowledgePanel!RowsChange
<1>3. matching' \in [Table -> [Filter -> 0..MaxRows]]
  BY <1>2 DEF TablesInv
<1>4. ASSUME NEW b \in TableAsk
      PROVE  as2[b].alone = FALSE /\ as2[b].kind = as[b].kind /\ Called1(as2[b])
  <2> DEFINE d == as[b]
  <2>1. as2[b] = [d EXCEPT !.alone = FALSE] /\ Called1(d)
    BY <1>1 DEF TablesInv, CallsOfTables, Slots
  <2> HIDE DEF d
  <2>2. as2[b].alone = FALSE /\ as2[b].kind = d.kind /\ as2[b].served = d.served
        /\ DOMAIN as2[b] = Field
    BY <2>1 DEF Called1, Field
  <2> QED  BY <2>1, <2>2 DEF d, Called1
<1>5. Slots(TableAsk, as2)
  BY <1>1, <1>4 DEF Slots
<1>6. OneAlone(TableAsk, as2)
  BY <1>4 DEF OneAlone
<1>7. \A b \in TableAsk : TableCall(knowledgeAsks[b])'
  BY <1>4 DEF TableCall, TablesInv, CallsOfTables
<1> QED  BY <1>1, <1>3, <1>5, <1>6, <1>7 DEF TablesInv, CallsOfTables, InTurn

LEMMA TablesBegin ==
  ASSUME TableAsk # {}, KnowledgePanel!KnowledgeDeskAssumption, KnowledgePanel!KnowledgeInit
  PROVE  TablesInv
<1> DEFINE slot == CHOOSE a \in TableAsk : TRUE
           q == KnowledgePanel!FirstQuestion(FirstTable)
           c == KnowledgePanel!NewCall("table", q, Nothing, TRUE)
           n == KnowledgePanel!NoCall
<1>1. /\ slot \in TableAsk /\ question = q /\ asking = TRUE /\ ~knowledgeSettled
      /\ knowledgeAsks = [b \in TableAsk |-> IF b = slot THEN c ELSE n]
  BY DEF KnowledgePanel!KnowledgeInit, KnowledgePanel!CallsBegin
<1>2. q \in QuestionType /\ q.page = 0
  BY DEF KnowledgePanel!FirstQuestion, QuestionType, KnowledgePanel!KnowledgeDeskAssumption
<1> HIDE DEF q
<1>3. /\ Called1(c) /\ c.kind = "table" /\ c.of = q /\ ~c.served /\ c.alone = TRUE
      /\ Called1(n) /\ n.kind = "none" /\ n.alone = FALSE
  BY DEF KnowledgePanel!NoCall, KnowledgePanel!NewCall, Called1, Field
<1> HIDE DEF slot, c, n
<1>4. CallsOfTables
  BY <1>1, <1>3 DEF CallsOfTables, Slots, OneAlone, Busy, TableCall
<1>5. InTurn
  BY <1>1, <1>2, <1>3 DEF InTurn, Busy, PageIsThere
<1>6. matching \in [Table -> [Filter -> 0..MaxRows]]
  BY DEF KnowledgePanel!KnowledgeInit
<1> QED  BY <1>1, <1>2, <1>4, <1>5, <1>6 DEF TablesInv

LEMMA TablesRest ==
  ASSUME TablesInv, UNCHANGED KnowledgePanel!knowledgeVars PROVE TablesInv'
BY DEF KnowledgePanel!knowledgeVars, KnowledgePanel!knowledgeOwn, KnowledgePanel!callVars, TablesInv,
  CallsOfTables, TableCall, InTurn, NoneBusy, PageIsThere, Read, KnowledgePanel!TableRead

\* The page before one that is there is there.
LEMMA TablesBefore ==
  ASSUME NEW p \in Nat, NEW r \in Nat, NEW m \in Nat, p * r < m PROVE (p - 1) * r < m
<1>1. (p - 1) * r = p * r - r
  OBVIOUS
<1>2. p * r \in Int
  OBVIOUS
<1> QED  BY <1>1, <1>2

LEMMA TablesStep ==
  ASSUME KnowledgePanel!KnowledgeDeskAssumption, TablesInv,
         [KnowledgePanel!KnowledgeNext]_KnowledgePanel!knowledgeVars
  PROVE  TablesInv'
<1>0. /\ question \in QuestionType /\ RowsOfPage \in Nat /\ "" \in Filter
      /\ ~overlapped => PageIsThere
      /\ ~overlapped /\ KnowledgePanel!Drawn => answer = Read
  BY DEF TablesInv, InTurn, KnowledgePanel!Drawn, KnowledgePanel!KnowledgeDeskAssumption
<1>a. question.page \in Nat
  BY <1>0 DEF QuestionType
<1>b. matching[question.table][question.filter] \in Nat
  <2>1. question.table \in Table /\ question.filter \in Filter
    BY <1>0 DEF QuestionType
  <2>2. matching[question.table] \in [Filter -> 0..MaxRows]
    BY <2>1 DEF TablesInv
  <2>3. matching[question.table][question.filter] \in 0..MaxRows
    BY <2>1, <2>2
  <2> HIDE <2>1, <2>2
  <2> QED  BY <2>3
<1>1. ASSUME NEW t \in Table, KnowledgePanel!SetTable(t) PROVE TablesInv'
  <2> DEFINE q == KnowledgePanel!FirstQuestion(t)
  <2>1. q \in QuestionType /\ q.page = 0 /\ KnowledgePanel!AskFor(q)
    BY <1>0, <1>1 DEF KnowledgePanel!SetTable, KnowledgePanel!FirstQuestion, QuestionType
  <2> HIDE DEF q
  <2> QED  BY <2>1, TablesAsked
<1>2. ASSUME NEW f \in Filter, KnowledgePanel!TypeFilter(f) PROVE TablesInv'
  <2> DEFINE q == KnowledgePanel!Filtered(f)
  <2>1. q \in QuestionType /\ q.page = 0 /\ KnowledgePanel!AskFor(q)
    BY <1>0, <1>2 DEF KnowledgePanel!TypeFilter, KnowledgePanel!Filtered, QuestionType
  <2> HIDE DEF q
  <2> QED  BY <2>1, TablesAsked
<1>3. ASSUME NEW c \in Column, KnowledgePanel!SetSort(c) PROVE TablesInv'
  <2> DEFINE d == IF question.sort = c THEN KnowledgePanel!Turned(question.dir) ELSE "ASC"
             q == [question EXCEPT !.sort = c, !.dir = d]
  <2>1. KnowledgePanel!AskFor(q)
    BY <1>3 DEF KnowledgePanel!SetSort
  <2>2. d \in {"ASC", "DESC"}
    BY DEF KnowledgePanel!Turned
  <2> HIDE DEF d
  <2>3. /\ q \in QuestionType /\ q.page = question.page /\ q.table = question.table
        /\ q.filter = question.filter
    BY <1>0, <2>2 DEF QuestionType
  <2> HIDE DEF q
  <2> QED  BY <1>0, <2>1, <2>3, TablesAsked DEF PageIsThere
<1>4. CASE KnowledgePanel!NextPage
  <2> DEFINE n == question.page + 1
             q == [question EXCEPT !.page = n]
  <2>1. KnowledgePanel!AskFor(q) /\ KnowledgePanel!Drawn /\ n * RowsOfPage < answer.total
    BY <1>4 DEF KnowledgePanel!NextPage
  <2>2. n \in Nat
    BY <1>a
  <2> HIDE DEF n
  <2>3. q \in QuestionType /\ q.page = n /\ q.table = question.table /\ q.filter = question.filter
    BY <1>0, <2>2 DEF QuestionType
  <2>4. ~overlapped => answer.total = matching[question.table][question.filter]
    <3>1. Read.total = matching[question.table][question.filter]
      BY DEF Read, KnowledgePanel!TableRead
    <3>2. ~overlapped => answer = Read
      BY <1>0, <2>1
    <3> QED  BY <3>1, <3>2
  <2> HIDE DEF q
  <2> QED  BY <2>1, <2>3, <2>4, TablesAsked
<1>5. CASE KnowledgePanel!PrevPage
  <2> DEFINE n == question.page - 1
             q == [question EXCEPT !.page = n]
  <2>1. KnowledgePanel!AskFor(q) /\ question.page > 0
    BY <1>5 DEF KnowledgePanel!PrevPage
  <2>2. n \in Nat
    BY <1>a, <2>1
  <2>3. question.page * RowsOfPage < matching[question.table][question.filter] =>
          n * RowsOfPage < matching[question.table][question.filter]
    BY <1>0, <1>a, <1>b, TablesBefore
  <2>4. ~overlapped => question.page * RowsOfPage < matching[question.table][question.filter]
    <3>1. question.page # 0
      BY <1>a, <2>1
    <3>2. ~overlapped => PageIsThere
      BY <1>0
    <3> QED  BY <3>1, <3>2 DEF PageIsThere
  <2> HIDE DEF n
  <2>5. q \in QuestionType /\ q.page = n /\ q.table = question.table /\ q.filter = question.filter
    BY <1>0, <2>2 DEF QuestionType
  <2>6. ~overlapped => q.page * RowsOfPage < matching[q.table][q.filter]
    BY <2>3, <2>4, <2>5
  <2> HIDE DEF q
  <2> QED  BY <2>1, <2>5, <2>6, TablesAsked
<1>6. CASE UNCHANGED KnowledgePanel!knowledgeVars
  BY <1>6, TablesRest
<1> QED  BY <1>1, <1>2, <1>3, <1>4, <1>5, <1>6, TablesServed, TablesEnded, TablesChanged
         DEF KnowledgePanel!KnowledgeNext

\* In the panel of tables a settled answer is the table's, and the page asked for is there while
\* answers come in turn (CuratorKnowledgeBaseViewModel.ts).
THEOREM TablesStayTrue ==
  TableAsk # {} /\ KnowledgePanel!KnowledgeDeskAssumption =>
    (KnowledgePanel!KnowledgeSpec => []KnowledgePanel!KnowledgeDeskIsTrue)
<1>1. TablesInv => KnowledgePanel!KnowledgeDeskIsTrue
  BY DEF TablesInv, InTurn, NoneBusy, Busy, PageIsThere, Read, KnowledgePanel!KnowledgeDeskIsTrue,
    KnowledgePanel!TableIsTrue, KnowledgePanel!PageExists, KnowledgePanel!Quiet,
    KnowledgePanel!Idle
<1> SUFFICES ASSUME TableAsk # {} /\ KnowledgePanel!KnowledgeDeskAssumption
             PROVE  KnowledgePanel!KnowledgeSpec => []KnowledgePanel!KnowledgeDeskIsTrue
  OBVIOUS
<1>2. KnowledgePanel!KnowledgeInit => TablesInv
  BY TablesBegin
<1>3. TablesInv /\ [KnowledgePanel!KnowledgeNext]_KnowledgePanel!knowledgeVars => TablesInv'
  BY TablesStep
<1> QED  BY <1>1, <1>2, <1>3, PTL DEF KnowledgePanel!KnowledgeSpec

-----------------------------------------------------------------------------
(***************************************************************************)
(* The whole: a step is of one part and the others rest, so what a part    *)
(* promises of its own behaviours holds in every behaviour of the whole.   *)
(***************************************************************************)
OneSteps ==
  /\ AccessSteps \/ UNCHANGED accessVars
  /\ LimiterSteps \/ UNCHANGED rateVars
  /\ EdgeSteps \/ UNCHANGED edgeVars
  /\ ArchiveSteps \/ UNCHANGED archiveVars
  /\ TopicsSteps \/ UNCHANGED topicsVars
  /\ DialogsSteps \/ UNCHANGED dialogsVars
  /\ ShellSteps \/ UNCHANGED shellVars
  /\ ThreadsSteps \/ UNCHANGED threadsVars
  /\ DrawersSteps \/ UNCHANGED drawersVars
  /\ BannerSteps \/ UNCHANGED bannerVars
  /\ PatternsSteps \/ UNCHANGED patternsVars
  /\ KnowledgeSteps \/ UNCHANGED knowledgeVars

LEMMA OnePartSteps == [Next]_vars => OneSteps
<1> SUFFICES ASSUME [Next]_vars PROVE OneSteps
  OBVIOUS
<1>1. CASE AccessSteps
  BY <1>1 DEF AccessSteps, OnlyAccess, OneSteps
<1>2. CASE LimiterSteps
  BY <1>2 DEF LimiterSteps, OnlyLimiter, OneSteps
<1>3. CASE EdgeSteps
  BY <1>3 DEF EdgeSteps, OnlyEdge, OneSteps
<1>4. CASE ArchiveSteps
  BY <1>4 DEF ArchiveSteps, OnlyArchive, OneSteps
<1>5. CASE TopicsSteps
  BY <1>5 DEF TopicsSteps, OnlyTopics, OneSteps
<1>6. CASE DialogsSteps
  BY <1>6 DEF DialogsSteps, OnlyDialogs, OneSteps
<1>7. CASE ShellSteps
  BY <1>7 DEF ShellSteps, OnlyShell, OneSteps
<1>8. CASE ThreadsSteps
  BY <1>8 DEF ThreadsSteps, OnlyThreads, OneSteps
<1>9. CASE DrawersSteps
  BY <1>9 DEF DrawersSteps, OnlyDrawers, OneSteps
<1>10. CASE BannerSteps
  BY <1>10 DEF BannerSteps, OnlyBanner, OneSteps
<1>11. CASE PatternsSteps
  BY <1>11 DEF PatternsSteps, OnlyPatterns, OneSteps
<1>12. CASE KnowledgeSteps
  BY <1>12 DEF KnowledgeSteps, OnlyKnowledge, OneSteps
<1>13. CASE UNCHANGED vars
  BY <1>13 DEF vars, OneSteps
<1> QED  BY <1>1, <1>2, <1>3, <1>4, <1>5, <1>6, <1>7,
  <1>8, <1>9, <1>10, <1>11, <1>12, <1>13 DEF Next

LEMMA AccessPart == Spec => AccessSpec
<1>1. Init => AccessInit
  BY DEF Init
<1>2. [Next]_vars => [AccessNext]_accessVars
  <2>1. AccessSteps => AccessNext
    BY DEF AccessSteps, AccessNext
  <2> QED  BY <2>1, OnePartSteps DEF OneSteps
<1> QED  BY <1>1, <1>2, PTL DEF Spec, AccessSpec

LEMMA LimiterPart == Spec => RateSpec
<1>1. Init => RateInit
  BY DEF Init
<1>2. [Next]_vars => [RateNext]_rateVars
  <2>1. LimiterSteps => RateNext
    BY DEF LimiterSteps, RateNext
  <2> QED  BY <2>1, OnePartSteps DEF OneSteps
<1> QED  BY <1>1, <1>2, PTL DEF Spec, RateSpec

LEMMA EdgePart == Spec => Cache!EdgeSpec
<1>1. Init => Cache!EdgeInit
  BY DEF Init
<1>2. [Next]_vars => [Cache!EdgeNext]_(Cache!edgeVars)
  <2>1. EdgeSteps => Cache!EdgeNext
    BY DEF EdgeSteps, Cache!EdgeNext
  <2>2. UNCHANGED edgeVars => UNCHANGED Cache!edgeVars
    BY DEF edgeVars, Cache!edgeVars
  <2> QED  BY <2>1, <2>2, OnePartSteps DEF OneSteps
<1> QED  BY <1>1, <1>2, PTL DEF Spec, Cache!EdgeSpec

LEMMA ArchivePart == Spec => Archive!ArchivePageSpec
<1>1. Init => Archive!ArchivePageInit
  BY DEF Init
<1>2. [Next]_vars => [Archive!ArchivePageNext]_(Archive!archivePageVars)
  <2>1. ArchiveSteps => Archive!ArchivePageNext
    BY DEF ArchiveSteps, Archive!ArchivePageNext
  <2>2. UNCHANGED archiveVars => UNCHANGED Archive!archivePageVars
    BY DEF archiveVars, Archive!archivePageVars
  <2> QED  BY <2>1, <2>2, OnePartSteps DEF OneSteps
<1> QED  BY <1>1, <1>2, PTL DEF Spec, Archive!ArchivePageSpec

LEMMA TopicsPart == Spec => Topics!TopicPageSpec
<1>1. Init => Topics!TopicPageInit
  BY DEF Init
<1>2. [Next]_vars => [Topics!TopicPageNext]_(Topics!topicPageVars)
  <2>1. TopicsSteps => Topics!TopicPageNext
    BY DEF TopicsSteps, Topics!TopicPageNext
  <2>2. UNCHANGED topicsVars => UNCHANGED Topics!topicPageVars
    BY DEF topicsVars, Topics!topicPageVars
  <2> QED  BY <2>1, <2>2, OnePartSteps DEF OneSteps
<1> QED  BY <1>1, <1>2, PTL DEF Spec, Topics!TopicPageSpec

LEMMA DialogsPart == Spec => Dialogs!ModalSpec
<1>1. Init => Dialogs!ModalInit
  BY DEF Init
<1>2. [Next]_vars => [Dialogs!ModalNext]_(Dialogs!modalVars)
  <2>1. DialogsSteps => Dialogs!ModalNext
    BY DEF DialogsSteps, Dialogs!ModalNext
  <2>2. UNCHANGED dialogsVars => UNCHANGED Dialogs!modalVars
    BY DEF dialogsVars, Dialogs!modalVars
  <2> QED  BY <2>1, <2>2, OnePartSteps DEF OneSteps
<1> QED  BY <1>1, <1>2, PTL DEF Spec, Dialogs!ModalSpec

LEMMA ShellPart == Spec => Shell!OfflineSpec
<1>1. Init => Shell!OfflineInit
  BY DEF Init
<1>2. [Next]_vars => [Shell!OfflineNext]_(Shell!offlineVars)
  <2>1. ShellSteps => Shell!OfflineNext
    BY DEF ShellSteps, Shell!OfflineNext
  <2>2. UNCHANGED shellVars => UNCHANGED Shell!offlineVars
    BY DEF shellVars, Shell!offlineVars
  <2> QED  BY <2>1, <2>2, OnePartSteps DEF OneSteps
<1> QED  BY <1>1, <1>2, PTL DEF Spec, Shell!OfflineSpec

LEMMA ThreadsPart == Spec => Threads!ThreadsViewSpec
<1>1. Init => Threads!ThreadsViewInit
  BY DEF Init
<1>2. [Next]_vars => [Threads!ThreadsViewNext]_(Threads!threadsViewVars)
  <2>1. ThreadsSteps => Threads!ThreadsViewNext
    BY DEF ThreadsSteps, Threads!ThreadsViewNext
  <2>2. UNCHANGED threadsVars => UNCHANGED Threads!threadsViewVars
    BY DEF threadsVars, Threads!threadsViewVars
  <2> QED  BY <2>1, <2>2, OnePartSteps DEF OneSteps
<1> QED  BY <1>1, <1>2, PTL DEF Spec, Threads!ThreadsViewSpec

LEMMA DrawersPart == Spec => Stories!DrawersSpec
<1>1. Init => Stories!DrawersInit
  BY DEF Init
<1>2. [Next]_vars => [Stories!DrawersNext]_(Stories!drawerVars)
  <2>1. DrawersSteps => Stories!DrawersNext
    BY DEF DrawersSteps, Stories!DrawersNext
  <2>2. UNCHANGED drawersVars => UNCHANGED Stories!drawerVars
    BY DEF drawersVars, Stories!drawerVars
  <2> QED  BY <2>1, <2>2, OnePartSteps DEF OneSteps
<1> QED  BY <1>1, <1>2, PTL DEF Spec, Stories!DrawersSpec

LEMMA BannerPart == Spec => Stories!BannerSpec
<1>1. Init => Stories!BannerInit
  BY DEF Init
<1>2. [Next]_vars => [Stories!BannerNext]_(Stories!bannerVars)
  <2>1. BannerSteps => Stories!BannerNext
    BY DEF BannerSteps, Stories!BannerNext
  <2>2. UNCHANGED bannerVars => UNCHANGED Stories!bannerVars
    BY DEF bannerVars, Stories!bannerVars
  <2> QED  BY <2>1, <2>2, OnePartSteps DEF OneSteps
<1> QED  BY <1>1, <1>2, PTL DEF Spec, Stories!BannerSpec

LEMMA PatternsPart == Spec => PatternPanel!PatternDeskSpec
<1>1. Init => PatternPanel!PatternDeskInit
  BY DEF Init
<1>2. [Next]_vars => [PatternPanel!PatternDeskNext]_(PatternPanel!patternDeskVars)
  <2>1. PatternsSteps => PatternPanel!PatternDeskNext
    BY DEF PatternsSteps, PatternPanel!PatternDeskNext
  <2>2. UNCHANGED patternsVars => UNCHANGED PatternPanel!patternDeskVars
    BY DEF patternsVars, PatternPanel!patternDeskVars, PatternPanel!patternDeskOwn, PatternPanel!callVars
  <2> QED  BY <2>1, <2>2, OnePartSteps DEF OneSteps
<1> QED  BY <1>1, <1>2, PTL DEF Spec, PatternPanel!PatternDeskSpec

LEMMA KnowledgePart == Spec => KnowledgePanel!KnowledgeSpec
<1>1. Init => KnowledgePanel!KnowledgeInit
  BY DEF Init
<1>2. [Next]_vars => [KnowledgePanel!KnowledgeNext]_(KnowledgePanel!knowledgeVars)
  <2>1. KnowledgeSteps => KnowledgePanel!KnowledgeNext
    BY DEF KnowledgeSteps, KnowledgePanel!KnowledgeNext
  <2>2. UNCHANGED knowledgeVars => UNCHANGED KnowledgePanel!knowledgeVars
    BY DEF knowledgeVars, KnowledgePanel!knowledgeVars, KnowledgePanel!knowledgeOwn, KnowledgePanel!callVars
  <2> QED  BY <2>1, <2>2, OnePartSteps DEF OneSteps
<1> QED  BY <1>1, <1>2, PTL DEF Spec, KnowledgePanel!KnowledgeSpec

LEMMA PartsAssumed ==
  /\ AccessAssumption /\ RateAssumption /\ Cache!EdgeAssumption
  /\ Archive!ArchivePageAssumption /\ Topics!TopicPageAssumption
  /\ Shell!OfflineAssumption /\ Threads!ThreadViewAssumption /\ MaxPatterns \in Nat
  /\ PatternAsk # {} /\ TableAsk # {} /\ KnowledgePanel!KnowledgeDeskAssumption
BY ServingAssumed DEF ServingAssumption, Stories!BannerAssumption,
  PatternPanel!DeskCallsAssumption, KnowledgePanel!DeskCallsAssumption

(* Whatever else is served, no call of a locked desk, nor of a session     *)
(* begun before the last revocation, is taken for the curator's by its     *)
(* cookie (curatorAuthHandler.ts:145-185).                                 *)
THEOREM SessionsStayEnded == Spec => SessionEnds
BY SessionsEnd, PartsAssumed, AccessPart

(* And no caller gets two limits of requests through in a window           *)
(* (edgeRateLimiter.ts:62-115).                                            *)
THEOREM LimitsStay == Spec => []UnderTwoLimits
BY LimiterHolds, PartsAssumed, LimiterPart

(* What a read answers, whatever is archived, assigned, taken out, changed *)
(* and purged between two pages or two visits, for any number of readers'  *)
(* calls, stories, rows of a page and lengths of the copies' lives         *)
(* (edgeCache.ts, ArchiveViewModel.ts, topicReadHandler.ts).               *)
THEOREM ReadsStayTrue == Spec => []ReadsAreTrue
<1>1. Cache!EdgeSpec => [](Cache!StaleAtMost /\ Cache!PurgeIsSeen)
  BY CopiesAreRecent, PartsAssumed
<1>2. Archive!ArchivePageSpec => []Archive!ListIsOneSearch
  BY ListsAreOfOneSearch, PartsAssumed
<1>3. Topics!TopicPageSpec => []Topics!StandingShownOnce
  BY StandingIsShownOnce, PartsAssumed
<1> QED  BY <1>1, <1>2, <1>3, EdgePart, ArchivePart, TopicsPart, PTL DEF ReadsAreTrue

(* The installed page, for any number of builds, deployments, visits and   *)
(* outages (sw.js:87-106, pwaService.ts:27-102).                           *)
THEOREM ShellIsAlwaysTrue == Spec => []ShellIsTrue
<1>1. Shell!OfflineSpec => [](Shell!BrokenOnce /\ Shell!BannersAreTrue)
  BY ShellStaysTrue, PartsAssumed
<1> QED  BY <1>1, ShellPart, PTL DEF ShellIsTrue

(* What is on screen is what its view model holds, for any number of       *)
(* dialogs, drawers, patterns, threads, hypotheses, tables, rows and calls *)
(* under way (modalManager.ts, summaryAutoCollapseService.ts,              *)
(* PublicPatternViewModel.ts, ThreadExplorerViewModel.ts,                  *)
(* PatternReviewViewModel.ts, CuratorKnowledgeBaseViewModel.ts).           *)
THEOREM ScreensStayTrue == Spec => []ScreensAreTrue
<1>1. Stories!BannerSpec => []Stories!BannerIsTrue
  BY BannersAreTrue, PartsAssumed
<1>2. Threads!ThreadsViewSpec => []Threads!TimelineIsItsThreads
  BY TimelinesStayTrue, PartsAssumed
<1>3. PatternPanel!PatternDeskSpec => []PatternPanel!PatternDeskIsTrue
  BY PatternsStayTrue, PartsAssumed
<1>4. KnowledgePanel!KnowledgeSpec => []KnowledgePanel!KnowledgeDeskIsTrue
  BY TablesStayTrue, PartsAssumed
<1> QED  BY <1>1, <1>2, <1>3, <1>4, DrawersStayTrue, LockStaysTrue, DialogsPart, DrawersPart,
            BannerPart, ThreadsPart, PatternsPart, KnowledgePart, PTL DEF ScreensAreTrue

(* No key closes the desk and takes a dialog with it, for any dossiers and *)
(* any dialogs in the page (modalManager.ts, main.ts).                     *)
THEOREM OneKeyForOneThing == Spec => OneKeyOneThing
BY DialogsPart, DeskKeepsDialogs DEF OneKeyOneThing
=============================================================================
