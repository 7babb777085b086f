----------------------------- MODULE CrawlProofs -----------------------------
(***************************************************************************)
(* Theorems about a crawl, for every set of feeds, articles, names,        *)
(* suppliers and curators and any bound: the briefs of its stories, its    *)
(* feeds, its homepage, what it learns about names and publishers, the     *)
(* knowledge graph, and the rows it drafts for curators; first of each     *)
(* part alone, then of the behaviours that module MCCrawling runs.         *)
(***************************************************************************)
EXTENDS MCCrawling, FiniteSetTheorems, TLAPS

-----------------------------------------------------------------------------
(***************************************************************************)
(* Briefs.  What the process remembers of a model passed the same gate as  *)
(* what it tells.                                                          *)
(***************************************************************************)
Vetted(b) ==
  b # None /\ b.by # "extractor" =>
    /\ b.why # "bad" /\ (platform => b.why = "chain")
    /\ "bad" \notin b.holds
    /\ b.by = "workers" => b.flawless

BriefInv == Vetted(brief) /\ Vetted(memory) /\ Vetted(edgeMemory)

\* What is salvaged of Gemini's answer.
LEMMA SalvagedIsVetted ==
  ASSUME NEW a \in AnswerOf
  PROVE  Vetted(Salvaged(a))
<1>1. CASE a.why = "bad" \/ ~Structured(a)
  BY <1>1 DEF Salvaged, Vetted
<1>2. CASE ~(a.why = "bad" \/ ~Structured(a))
  <2> DEFINE kept == {f \in Field : a.fields[f] \in {"good", "part"}}
             b == BriefOf("gemini", a, kept)
  <2>1. b.by = "gemini" /\ b.why = a.why /\ b.holds = {a.fields[f] : f \in kept}
    BY DEF BriefOf
  <2>2. "bad" \notin {a.fields[f] : f \in kept}
    OBVIOUS
  <2>3. Salvaged(a) = b
    BY <1>2 DEF Salvaged
  <2> HIDE DEF b, kept
  <2> QED  BY <1>2, <2>1, <2>2, <2>3 DEF Vetted, Structured
<1> QED  BY <1>1, <1>2

\* What is accepted of Workers AI's.
LEMMA AcceptedIsVetted ==
  ASSUME NEW a \in AnswerOf
  PROVE  Vetted(Accepted(a))
<1>1. CASE ~Valid(a) \/ ~Structured(a)
  BY <1>1 DEF Accepted, Vetted
<1>2. CASE ~(~Valid(a) \/ ~Structured(a))
  <2> DEFINE kept == {f \in Copied : a.fields[f] = "good"}
             b == BriefOf("workers", a, kept)
  <2>1. /\ b.by = "workers" /\ b.why = a.why /\ b.holds = {a.fields[f] : f \in kept}
        /\ b.flawless = Flawless(a)
    BY DEF BriefOf
  <2>2. "bad" \notin {a.fields[f] : f \in kept}
    OBVIOUS
  <2>3. Accepted(a) = b
    BY <1>2 DEF Accepted
  <2> HIDE DEF b, kept
  <2> QED  BY <1>2, <2>1, <2>2, <2>3 DEF Vetted, Structured, Valid
<1> QED  BY <1>1, <1>2

(* Nothing malformed is published, whoever wrote it and whichever memory   *)
(* it came from: a model's brief has a sound order, a platform's is a      *)
(* chain, and Workers AI's answer had no fault (geminiSalvage.ts,          *)
(* cloudflareAI.ts).                                                       *)
THEOREM BriefsAreVetted == EnrichSpec => []BriefIsVetted
<1>1. EnrichInit => BriefInv
  BY DEF EnrichInit, BriefInv, Vetted
<1>2. BriefInv /\ [EnrichNext]_(enrichVars) => BriefInv'
  <2> SUFFICES ASSUME BriefInv, [EnrichNext]_(enrichVars) PROVE BriefInv'
    OBVIOUS
  <2>1. CASE Need
    BY <2>1 DEF Need, BriefInv, Vetted
  <2>2. CASE Recall \/ RecallWorkers
    BY <2>2 DEF Recall, RecallWorkers, Told, BriefInv, Vetted
  <2>3. CASE GeminiAnswers
    <3>1. PICK a \in AnswerOf : Told(Salvaged(a)) /\ memory' = Salvaged(a)
      BY <2>3 DEF GeminiAnswers
    <3> DEFINE b == Salvaged(a)
    <3>2. Vetted(b)
      BY SalvagedIsVetted
    <3>3. brief' = b /\ memory' = b /\ edgeMemory' = edgeMemory /\ platform' = platform
      BY <2>3, <3>1 DEF GeminiAnswers, Told
    <3> HIDE DEF b
    <3> QED  BY <3>2, <3>3 DEF BriefInv, Vetted
  <2>4. CASE GeminiIsCorrected \/ GeminiErrs \/ GeminiIsSkipped
    BY <2>4 DEF GeminiIsCorrected, GeminiErrs, GeminiIsSkipped, BriefInv, Vetted
  <2>5. CASE WorkersAnswers
    <3>1. PICK a \in AnswerOf :
             Told(Accepted(a)) /\ edgeMemory' = Accepted(a)
      BY <2>5 DEF WorkersAnswers
    <3> DEFINE b == Accepted(a)
    <3>2. Vetted(b)
      BY AcceptedIsVetted
    <3>3. brief' = b /\ edgeMemory' = b /\ memory' = memory /\ platform' = platform
      BY <2>5, <3>1 DEF WorkersAnswers, Told
    <3> HIDE DEF b
    <3> QED  BY <3>2, <3>3 DEF BriefInv, Vetted
  <2>6. CASE FallBack
    <3>1. /\ brief' = Mined /\ Mined.by = "extractor"
          /\ UNCHANGED <<platform, memory, edgeMemory>>
      BY <2>6 DEF FallBack, Told, Mined
    <3> QED  BY <3>1 DEF BriefInv, Vetted
  <2>7. CASE NewProcess
    BY <2>7 DEF NewProcess, BriefInv, Vetted
  <2>8. CASE UNCHANGED enrichVars
    BY <2>8 DEF enrichVars, BriefInv, Vetted
  <2> QED  BY <2>1, <2>2, <2>3, <2>4, <2>5, <2>6, <2>7, <2>8 DEF EnrichNext
<1>3. BriefInv => BriefIsVetted
  BY DEF BriefInv, Vetted, BriefIsVetted
<1> QED  BY <1>1, <1>2, <1>3, PTL DEF EnrichSpec

-----------------------------------------------------------------------------
(***************************************************************************)
(* Suppliers.  A review that will say "approved" has written its link, and *)
(* no other step says it.                                                  *)
(***************************************************************************)
Candidate == [status : {"absent", "pending", "approved", "rejected"}, mentions : Nat]
Reviews == [step : {"idle", "tier", "link", "status"}, pair : Pair \cup {Nothing},
            verdict : {"none", "approved", "rejected"}]

SupplierTypes ==
  /\ candidate \in [Pair -> Candidate]
  /\ review \in [Reviewer -> Reviews]
  /\ \A r \in Reviewer : review[r].step # "idle" =>
       review[r].pair \in Pair /\ review[r].verdict # "none"

LinkedBeforeStatus ==
  \A r \in Reviewer : review[r].step = "status" =>
    (review[r].verdict = "approved" => review[r].pair \in links)

SupplierInv == SupplierTypes /\ LinkedBeforeStatus /\ Directory!ApprovedIsLinked

\* A review that moves on, or ends, without writing.
LEMMA ReviewMoves ==
  ASSUME SupplierInv, NEW r \in Reviewer, NEW v \in Reviews,
         v.step # "idle" => v.pair \in Pair /\ v.verdict # "none",
         v.step = "status" => (v.verdict = "approved" => v.pair \in links'),
         review' = [review EXCEPT ![r] = v], candidate' = candidate, links \subseteq links'
  PROVE  SupplierInv'
<1>1. /\ review' \in [Reviewer -> Reviews] /\ review'[r] = v
      /\ \A q \in Reviewer \ {r} : review'[q] = review[q]
  BY DEF SupplierInv, SupplierTypes
<1>2. SupplierTypes'
  BY <1>1 DEF SupplierInv, SupplierTypes
<1>3. LinkedBeforeStatus'
  BY <1>1 DEF SupplierInv, LinkedBeforeStatus
<1>4. Directory!ApprovedIsLinked'
  BY DEF SupplierInv, Directory!ApprovedIsLinked
<1> QED  BY <1>2, <1>3, <1>4 DEF SupplierInv

LEMMA NoReviewIsReview ==
  /\ Directory!NoReview \in Reviews /\ Directory!NoReview.step = "idle"
  BY DEF Directory!NoReview, Reviews

LEMMA SupplierStep ==
  ASSUME Directory!SupplierAssumption, SupplierInv, [Directory!SupplierNext]_(Directory!supplierVars)
  PROVE  SupplierInv'
<1>1. ASSUME NEW p \in Pair, NEW n \in 1..MaxMentions, Directory!Draft(p, n) PROVE SupplierInv'
  <2> DEFINE row == Directory!Upserted(candidate[p], n)
  <2>1. candidate' = [candidate EXCEPT ![p] = row] /\ UNCHANGED <<links, review>>
    BY <1>1 DEF Directory!Draft
  <2>2. candidate \in [Pair -> Candidate] /\ n \in Nat
    BY DEF SupplierInv, SupplierTypes, Directory!SupplierAssumption
  <2>3. candidate[p] \in Candidate
    BY <2>2
  <2>4. row \in Candidate /\ (row.status = "approved" => row = candidate[p])
    <3>1. CASE candidate[p].status \in {"absent", "pending"}
      BY <2>2, <3>1 DEF Directory!Upserted, Candidate
    <3>2. CASE candidate[p].status \notin {"absent", "pending"}
      BY <2>3, <3>2 DEF Directory!Upserted
    <3> QED  BY <3>1, <3>2
  <2> HIDE DEF row
  <2>5. /\ candidate' \in [Pair -> Candidate] /\ candidate'[p] = row
        /\ \A q \in Pair \ {p} : candidate'[q] = candidate[q]
    BY <2>1, <2>2, <2>4
  <2> QED  BY <2>1, <2>4, <2>5 DEF SupplierInv, SupplierTypes, LinkedBeforeStatus,
                                   Directory!ApprovedIsLinked
<1>2. ASSUME NEW r \in Reviewer, NEW p \in Pair, NEW verdict \in {"approved", "rejected"},
             Directory!Consider(r, p, verdict)
      PROVE  SupplierInv'
  <2> DEFINE v == [step |-> Directory!FirstStep(verdict), pair |-> p, verdict |-> verdict]
  <2>1. /\ v \in Reviews /\ v.pair = p /\ v.verdict = verdict /\ verdict # "none"
        /\ v.step = "status" => verdict = "rejected"
    BY DEF Directory!FirstStep, Reviews
  <2>2. review' = [review EXCEPT ![r] = v] /\ UNCHANGED <<candidate, links>>
    BY <1>2 DEF Directory!Consider
  <2> HIDE DEF v
  <2> QED  BY <2>1, <2>2, ReviewMoves
<1>3. ASSUME NEW r \in Reviewer, Directory!ReadTier(r) PROVE SupplierInv'
  <2> DEFINE v == IF review[r].pair \in OnFile THEN [review[r] EXCEPT !.step = "link"]
                  ELSE Directory!NoReview
  <2>1. /\ review[r].step = "tier" /\ review[r] \in Reviews /\ review[r].pair \in Pair
        /\ review[r].verdict # "none"
    BY <1>3 DEF Directory!ReadTier, SupplierInv, SupplierTypes
  <2>2. /\ v \in Reviews /\ v.step # "status"
        /\ v.step # "idle" => v.pair \in Pair /\ v.verdict # "none"
    BY <2>1, NoReviewIsReview DEF Reviews
  <2>3. review' = [review EXCEPT ![r] = v] /\ UNCHANGED <<candidate, links>>
    BY <1>3 DEF Directory!ReadTier
  <2> HIDE DEF v
  <2> QED  BY <2>2, <2>3, ReviewMoves
<1>4. ASSUME NEW r \in Reviewer, Directory!WriteLink(r) PROVE SupplierInv'
  <2> DEFINE v == [review[r] EXCEPT !.step = "status"]
  <2>1. /\ review[r].step = "link" /\ review[r] \in Reviews /\ review[r].pair \in Pair
        /\ review[r].verdict # "none"
        /\ links' = links \cup {review[r].pair} /\ candidate' = candidate
        /\ review' = [review EXCEPT ![r].step = "status"]
    BY <1>4 DEF Directory!WriteLink, SupplierInv, SupplierTypes
  <2>2. v \in Reviews /\ v.pair = review[r].pair /\ v.verdict = review[r].verdict
    BY <2>1 DEF Reviews
  <2>3. review' = [review EXCEPT ![r] = v]
    BY <2>1
  <2> HIDE DEF v
  <2> QED  BY <2>1, <2>2, <2>3, ReviewMoves
<1>5. ASSUME NEW r \in Reviewer, Directory!WriteStatus(r) PROVE SupplierInv'
  <2> DEFINE p == review[r].pair
             row == [candidate[p] EXCEPT !.status = review[r].verdict]
  <2>1. /\ review[r].step = "status" /\ review[r] \in Reviews /\ p \in Pair
        /\ review[r].verdict # "none" /\ (review[r].verdict = "approved" => p \in links)
    BY <1>5 DEF Directory!WriteStatus, SupplierInv, SupplierTypes, LinkedBeforeStatus
  <2>2. candidate \in [Pair -> Candidate] /\ review \in [Reviewer -> Reviews]
    BY DEF SupplierInv, SupplierTypes
  <2>3. row \in Candidate /\ row.status = review[r].verdict
    BY <2>1, <2>2 DEF Candidate, Reviews
  <2>4. /\ candidate' = [candidate EXCEPT ![p] = row] /\ links' = links
        /\ review' = [review EXCEPT ![r] = Directory!NoReview]
    BY <1>5 DEF Directory!WriteStatus
  <2> HIDE DEF row, p
  <2>5. /\ candidate' \in [Pair -> Candidate] /\ candidate'[p] = row
        /\ \A q \in Pair \ {p} : candidate'[q] = candidate[q]
    BY <2>1, <2>2, <2>3, <2>4
  <2>6. /\ review' \in [Reviewer -> Reviews] /\ review'[r].step = "idle"
        /\ \A q \in Reviewer \ {r} : review'[q] = review[q]
    BY <2>2, <2>4, NoReviewIsReview
  <2> QED  BY <2>1, <2>3, <2>4, <2>5, <2>6 DEF SupplierInv, SupplierTypes, LinkedBeforeStatus,
                                               Directory!ApprovedIsLinked
<1>6. ASSUME NEW r \in Reviewer, Directory!Abandon(r) PROVE SupplierInv'
  BY <1>6, ReviewMoves, NoReviewIsReview DEF Directory!Abandon
<1>7. CASE UNCHANGED Directory!supplierVars
  BY <1>7 DEF Directory!supplierVars, SupplierInv, SupplierTypes, LinkedBeforeStatus,
              Directory!ApprovedIsLinked
<1> QED  BY <1>1, <1>2, <1>3, <1>4, <1>5, <1>6, <1>7 DEF Directory!SupplierNext

LEMMA SupplierBegins == Directory!SupplierInit => SupplierInv
<1> SUFFICES ASSUME Directory!SupplierInit PROVE SupplierInv
  OBVIOUS
<1>1. Directory!Undrafted \in Candidate /\ Directory!Undrafted.status = "absent"
  BY DEF Directory!Undrafted, Candidate
<1>2. candidate = [p \in Pair |-> Directory!Undrafted] /\ review = [r \in Reviewer |-> Directory!NoReview]
  BY DEF Directory!SupplierInit
<1> QED  BY <1>1, <1>2, NoReviewIsReview DEF SupplierInv, SupplierTypes, LinkedBeforeStatus,
                                             Directory!ApprovedIsLinked

(* An approved candidate is in the directory, wherever its review stopped  *)
(* and however many reviewers and crawls met on it                         *)
(* (curatorSupplierCandidateHandler.ts:120-138).                           *)
THEOREM ApprovedSuppliersAreLinked ==
  Directory!SupplierAssumption => (Directory!SupplierSpec => []Directory!ApprovedIsLinked)
<1> SUFFICES ASSUME Directory!SupplierAssumption
             PROVE  Directory!SupplierSpec => []Directory!ApprovedIsLinked
  OBVIOUS
<1>1. Directory!SupplierInit => SupplierInv
  BY SupplierBegins
<1>2. SupplierInv /\ [Directory!SupplierNext]_(Directory!supplierVars) => SupplierInv'
  BY SupplierStep
<1>3. SupplierInv => Directory!ApprovedIsLinked
  BY DEF SupplierInv
<1> QED  BY <1>1, <1>2, <1>3, PTL DEF Directory!SupplierSpec

-----------------------------------------------------------------------------
(***************************************************************************)
(* Patterns.  A waiting review names its pattern.                          *)
(***************************************************************************)
Requests == [action : {"approve", "reject", "edit"}, pattern : Pattern, text : Nat]

PatternInv ==
  /\ texts \in Nat
  /\ request \in [Curator -> Requests \cup {NoRequest}]
  /\ DOMAIN pattern = Pattern

LEMMA PatternStep ==
  ASSUME PatternInv, [PatternNext]_(patternVars)
  PROVE  PatternInv'
<1>1. ASSUME NEW p \in Pattern, NEW g \in EngineAnswer, NEW w \in EngineAnswer,
             Detect(p, g, w)
      PROVE  PatternInv'
  BY <1>1 DEF Detect, PatternInv
<1>2. ASSUME NEW c \in Curator, NEW f, List(c, f) PROVE PatternInv'
  BY <1>2 DEF List, PatternInv
<1>3. ASSUME NEW c \in Curator, NEW p \in Pattern, NEW a \in {"approve", "reject", "edit"},
             Ask(c, p, a)
      PROVE  PatternInv'
  <2> DEFINE made == [action |-> a, pattern |-> p, text |-> texts']
  <2>1. texts' \in Nat /\ request' = [request EXCEPT ![c] = made] /\ pattern' = pattern
    BY <1>3 DEF Ask, PatternInv
  <2>2. made \in Requests
    BY <2>1 DEF Requests
  <2> HIDE DEF made
  <2> QED  BY <2>1, <2>2 DEF PatternInv
<1>4. ASSUME NEW c \in Curator, Review(c) \/ ReviewLost(c) PROVE PatternInv'
  <2>1. /\ request' = [request EXCEPT ![c] = NoRequest] /\ texts' = texts
        /\ DOMAIN pattern' = DOMAIN pattern
    BY <1>4 DEF Review, ReviewLost
  <2> QED  BY <2>1 DEF PatternInv
<1>5. CASE UNCHANGED patternVars
  BY <1>5 DEF patternVars, PatternInv
<1> QED  BY <1>1, <1>2, <1>3, <1>4, <1>5 DEF PatternNext

\* Who changes a decided row.
LEMMA DecisionKept ==
  ASSUME PatternInv, PatternNext, NEW p \in Pattern,
         pattern[p].status \in {"approved", "rejected"}, pattern'[p] # pattern[p]
  PROVE  \E c \in Curator : /\ request[c] # NoRequest
                            /\ request'[c] = NoRequest
                            /\ request[c].pattern = p
<1>1. ASSUME NEW q \in Pattern, NEW g \in EngineAnswer, NEW w \in EngineAnswer,
             Detect(q, g, w)
      PROVE  FALSE
  <2>1. /\ pattern' = [pattern EXCEPT ![q] =
                         Rewritten(pattern[q], texts', Drafted(g, w))]
        /\ DOMAIN pattern = Pattern
    BY <1>1 DEF Detect, PatternInv
  <2>2. p = q
    BY <2>1
  <2>3. pattern'[p] = Rewritten(pattern[p], texts', Drafted(g, w))
    BY <2>1, <2>2
  <2> QED  BY <2>3 DEF Rewritten
<1>2. ASSUME NEW c \in Curator, Review(c)
      PROVE  /\ request[c] # NoRequest /\ request'[c] = NoRequest
             /\ request[c].pattern = p
  <2>1. /\ request[c] # NoRequest
        /\ request' = [request EXCEPT ![c] = NoRequest]
        /\ pattern' = [pattern EXCEPT ![request[c].pattern] =
                         Reviewed(pattern[request[c].pattern], request[c])]
    BY <1>2 DEF Review
  <2>2. request[c].pattern = p
    BY <2>1 DEF PatternInv
  <2> QED  BY <2>1, <2>2 DEF PatternInv
<1>3. ASSUME NEW c \in Curator, ReviewLost(c) PROVE FALSE
  BY <1>3 DEF ReviewLost
<1>4. ASSUME NEW c \in Curator, NEW f, List(c, f) PROVE FALSE
  BY <1>4 DEF List
<1>5. ASSUME NEW c \in Curator, NEW q \in Pattern, NEW a, Ask(c, q, a) PROVE FALSE
  BY <1>5 DEF Ask
<1> QED  BY <1>1, <1>2, <1>3, <1>4, <1>5 DEF PatternNext

(* A decided pattern keeps verdict and text through every crawl that       *)
(* detects it again; what changes it is a curator's review of it           *)
(* (curatorPatternQueryBuilder.ts:23-29).                                  *)
THEOREM DecidedPatternsStand == PatternSpec => PatternDecisionStands
<1>1. PatternInit => PatternInv
  BY DEF PatternInit, PatternInv
<1>2. PatternInv /\ [PatternNext]_(patternVars) => PatternInv'
  BY PatternStep
<1>3. PatternInv /\ [PatternNext]_(patternVars)
        => [\A p \in Pattern :
              (pattern[p].status \in {"approved", "rejected"} /\ pattern'[p] # pattern[p]) =>
                \E c \in Curator :
                  /\ request[c] # NoRequest /\ request'[c] = NoRequest
                  /\ request[c].pattern = p]_(patternVars)
  BY DecisionKept
<1> QED  BY <1>1, <1>2, <1>3, PTL DEF PatternSpec, PatternDecisionStands

-----------------------------------------------------------------------------
(***************************************************************************)
(* The graph.  While no call of the pass was missed, what is not there is  *)
(* still to be sent; an edge stands on nodes that are there; and a reader  *)
(* holds edges that were there when it asked, and nothing goes away.       *)
(***************************************************************************)
Held == [step : {"hop1", "hop2", "nodes", "shown"}, center : Node,
         filter : {"all"} \cup {Category[m] : m \in Node},
         nodes : SUBSET Node, edges : SUBSET Edge]

GraphTypes ==
  /\ nodes \subseteq Node /\ weight \in [Edge -> 0..MaxWeight] /\ told \subseteq Story
  /\ unsent \in [nodes : SUBSET Node, edges : SUBSET Edge]
  /\ reader \in {Links!NoReader} \cup Held

Footing == \A e \in Links!Present : Ends[e] \subseteq nodes

PassInv ==
  /\ unsent.edges \subseteq Links!Extracted(told).edges
  /\ ~missed => /\ Links!Extracted(told).nodes \subseteq nodes \cup unsent.nodes
                /\ Links!Extracted(told).edges \subseteq Links!Present \cup unsent.edges

\* What is within two hops of the centre.
Around(n) == Links!Touching(Links!EndsOf(Links!Touching({n})))

ReaderInv ==
  /\ reader.step = "hop2" => /\ Cardinality(reader.edges) < Limit
                             /\ reader.edges \subseteq Links!Touching({reader.center})
  /\ reader.step = "nodes" => /\ Cardinality(reader.edges) <= Limit
                              /\ reader.edges \subseteq Around(reader.center)
  /\ Links!AnswerIsClosed

GraphInv == GraphTypes /\ Footing /\ PassInv /\ ReaderInv

\* The size of a set is one thing, by whichever module's name.
LEMMA GraphSizes ==
  /\ \A S : Links!Cardinality(S) = Cardinality(S)
  /\ \A S : Links!IsFiniteSet(S) = IsFiniteSet(S)
<1>1. \A S : Links!Cardinality(S) = Cardinality(S)
  BY DEF Links!Cardinality, Cardinality
<1>2. \A S : Links!IsFiniteSet(S) = IsFiniteSet(S)
  BY DEF Links!IsFiniteSet, IsFiniteSet
<1> QED  BY <1>1, <1>2

LEMMA HeldFields ==
  ASSUME GraphTypes, reader.step # "idle"
  PROVE  /\ reader \in Held /\ reader.center \in Node /\ reader.edges \subseteq Edge
         /\ reader.nodes \subseteq Node
  BY DEF GraphTypes, Held, Links!NoReader

\* The neighbourhood only grows.
LEMMA NeighboursGrow ==
  ASSUME weight \in [Edge -> Nat], weight' \in [Edge -> Nat],
         \A e \in Edge : weight'[e] >= weight[e], NEW n \in Node
  PROVE  /\ Links!Present \subseteq Links!Present'
         /\ Links!Touching({n}) \subseteq Links!Touching({n})'
         /\ Around(n) \subseteq Around(n)'
<1>1. Links!Present \subseteq Links!Present'
  BY DEF Links!Present
<1>2. Links!Touching({n}) \subseteq Links!Touching({n})'
  BY <1>1 DEF Links!Touching
<1>3. Links!EndsOf(Links!Touching({n})) \subseteq Links!EndsOf(Links!Touching({n}))'
  BY <1>2 DEF Links!EndsOf
<1>4. Around(n) \subseteq Around(n)'
  BY <1>1, <1>3 DEF Around, Links!Touching
<1> QED  BY <1>1, <1>2, <1>4

\* A step of the pass leaves a reader's answer what it was.
LEMMA ReaderStays ==
  ASSUME Links!GraphAssumption, GraphTypes, ReaderInv, weight' \in [Edge -> Nat],
         \A e \in Edge : weight'[e] >= weight[e], reader' = reader
  PROVE  ReaderInv'
<1>1. CASE reader.step = "idle"
  BY <1>1 DEF ReaderInv, Links!AnswerIsClosed
<1>2. CASE reader.step # "idle"
  <2>1. PICK n \in Node : reader.center = n
    BY <1>2, HeldFields
  <2>2. /\ Links!Touching({n}) \subseteq Links!Touching({n})'
        /\ Around(n) \subseteq Around(n)'
    BY NeighboursGrow DEF GraphTypes, Links!GraphAssumption
  <2>3. reader'.step = "hop2" => /\ Cardinality(reader'.edges) < Limit
                                 /\ reader'.edges \subseteq Links!Touching({n})'
    BY <2>1, <2>2 DEF ReaderInv
  <2>4. reader'.step = "nodes" => /\ Cardinality(reader'.edges) <= Limit
                                  /\ reader'.edges \subseteq Around(n)'
    BY <2>1, <2>2 DEF ReaderInv
  <2>5. Links!AnswerIsClosed'
    <3> SUFFICES ASSUME reader.step = "shown" PROVE Links!AnswerIsClosed'
      BY DEF Links!AnswerIsClosed
    <3>1. /\ Links!EndsOf(reader.edges) \subseteq reader.nodes /\ Cardinality(reader.edges) <= Limit
          /\ reader.edges \subseteq Around(n)
      BY <2>1, GraphSizes DEF ReaderInv, Links!AnswerIsClosed, Around
    <3>2. Links!EndsOf(reader.edges)' = Links!EndsOf(reader.edges)
      BY DEF Links!EndsOf
    <3>3. Around(n)' = Links!Touching(Links!EndsOf(Links!Touching({reader.center})))'
      BY <2>1 DEF Around
    <3> QED  BY <2>2, <3>1, <3>2, <3>3, GraphSizes DEF Links!AnswerIsClosed
  <2>6. reader'.center = n
    BY <2>1
  <2> QED  BY <2>3, <2>4, <2>5, <2>6 DEF ReaderInv
<1> QED  BY <1>1, <1>2

-----------------------------------------------------------------------------
\* What a homepage tells is of the graph's nodes and edges.
LEMMA ExtractedTypes ==
  ASSUME Links!GraphAssumption, NEW front \in SUBSET Story
  PROVE  /\ Links!Extracted(front).nodes \subseteq Node
         /\ Links!Extracted(front).edges \subseteq Edge
         /\ \A e \in Links!Extracted(front).edges : Ends[e] \subseteq Links!Extracted(front).nodes
  BY DEF Links!GraphAssumption, Links!Extracted

\* The edge a story of the homepage tells gains weight.
LEMMA GainIsPositive ==
  ASSUME Links!GraphAssumption, told \subseteq Story, NEW e \in Links!Extracted(told).edges
  PROVE  Links!Gain(e) \in Nat /\ Links!Gain(e) > 0
<1> DEFINE tellers == {s \in told : e \in Tells[s]}
<1>1. PICK s \in told : e \in Tells[s]
  BY DEF Links!Extracted
<1>2. tellers \in SUBSET Story /\ IsFiniteSet(Story) /\ tellers # {}
  BY <1>1, GraphSizes DEF Links!GraphAssumption
<1>3. IsFiniteSet(tellers)
  BY <1>2, FS_Subset
<1>4. Cardinality(tellers) \in Nat /\ Cardinality(tellers) # 0
  BY <1>2, <1>3, FS_CardinalityType, FS_EmptySet
<1>5. Links!Gain(e) = Cardinality(tellers)
  BY GraphSizes DEF Links!Gain
<1> HIDE DEF tellers
<1> QED  BY <1>4, <1>5

\* An upsert is taken out of those still to send, and nothing is lost.
LEMMA PassStep ==
  ASSUME Links!GraphAssumption, GraphInv,
         \/ Links!ExtractTriplets
         \/ \E n \in Node : Links!WriteNode(n) \/ Links!MissNode(n)
         \/ \E e \in Edge : Links!WriteEdge(e) \/ Links!RefuseEdge(e) \/ Links!MissEdge(e)
  PROVE  GraphInv'
<1>0. /\ nodes \subseteq Node /\ weight \in [Edge -> 0..MaxWeight] /\ told \subseteq Story
      /\ weight \in [Edge -> Nat] /\ unsent \in [nodes : SUBSET Node, edges : SUBSET Edge]
      /\ unsent.nodes \subseteq Node /\ unsent.edges \subseteq Edge
  BY DEF GraphInv, GraphTypes, Links!GraphAssumption
<1>1. CASE Links!ExtractTriplets
  <2>1. PICK front \in SUBSET Story : told' = front
    BY <1>1 DEF Links!ExtractTriplets
  <2>2. unsent' = Links!Extracted(front) /\ UNCHANGED <<nodes, weight, reader>>
    BY <1>1, <2>1 DEF Links!ExtractTriplets
  <2>3. unsent' \in [nodes : SUBSET Node, edges : SUBSET Edge]
    BY <2>2, ExtractedTypes DEF Links!Extracted
  <2>4. GraphTypes' /\ Footing'
    BY <2>1, <2>2, <2>3 DEF GraphInv, GraphTypes, Footing, Links!Present
  <2>5. PassInv'
    BY <2>1, <2>2 DEF PassInv
  <2>6. ReaderInv'
    BY <1>0, <2>2, ReaderStays DEF GraphInv
  <2> QED  BY <2>4, <2>5, <2>6 DEF GraphInv
<1>2. ASSUME NEW n \in Node, Links!WriteNode(n) \/ Links!MissNode(n) PROVE GraphInv'
  <2>1. /\ n \in unsent.nodes /\ unsent' = [unsent EXCEPT !.nodes = @ \ {n}]
        /\ UNCHANGED <<weight, told, reader>> /\ nodes \subseteq nodes' /\ nodes' \subseteq Node
    BY <1>0, <1>2 DEF Links!WriteNode, Links!MissNode
  <2>2. /\ unsent' \in [nodes : SUBSET Node, edges : SUBSET Edge]
        /\ unsent'.nodes = unsent.nodes \ {n} /\ unsent'.edges = unsent.edges
    BY <1>0, <2>1
  <2>3. ~missed' => ~missed /\ n \in nodes'
    BY <1>2 DEF Links!WriteNode, Links!MissNode
  <2>4. Links!Present' = Links!Present
    BY <2>1 DEF Links!Present
  <2>5. GraphTypes' /\ Footing'
    BY <1>0, <2>1, <2>2, <2>4 DEF GraphInv, GraphTypes, Footing
  <2>6. PassInv'
    BY <2>1, <2>2, <2>3, <2>4 DEF GraphInv, PassInv, Links!Extracted
  <2>7. ReaderInv'
    BY <1>0, <2>1, ReaderStays DEF GraphInv
  <2> QED  BY <2>5, <2>6, <2>7 DEF GraphInv
<1>3. ASSUME NEW e \in Edge, Links!WriteEdge(e) PROVE GraphInv'
  <2> DEFINE sum == weight[e] + Links!Gain(e)
  <2>1. /\ e \in unsent.edges /\ Ends[e] \subseteq nodes
        /\ unsent' = [unsent EXCEPT !.edges = @ \ {e}]
        /\ weight' = [weight EXCEPT ![e] = IF sum < MaxWeight THEN sum ELSE MaxWeight]
        /\ UNCHANGED <<nodes, told, missed, reader>>
    BY <1>3 DEF Links!WriteEdge, Links!HasEnds
  <2>2. e \in Links!Extracted(told).edges
    BY <2>1 DEF GraphInv, PassInv
  <2>3. Links!Gain(e) \in Nat /\ Links!Gain(e) > 0
    BY <1>0, <2>2, GainIsPositive
  <2>4. weight[e] \in Nat /\ weight[e] <= MaxWeight /\ MaxWeight \in Nat /\ MaxWeight > 0
    BY <1>0 DEF Links!GraphAssumption
  <2>5. /\ unsent' \in [nodes : SUBSET Node, edges : SUBSET Edge]
        /\ unsent'.nodes = unsent.nodes /\ unsent'.edges = unsent.edges \ {e}
    BY <1>0, <2>1
  <2>6. \E w \in 1..MaxWeight : w >= weight[e] /\ weight' = [weight EXCEPT ![e] = w]
    <3>1. CASE sum < MaxWeight
      <4>1. sum \in 1..MaxWeight /\ sum >= weight[e]
        BY <2>3, <2>4, <3>1
      <4> QED  BY <2>1, <3>1, <4>1
    <3>2. CASE ~(sum < MaxWeight)
      <4>1. MaxWeight \in 1..MaxWeight /\ MaxWeight >= weight[e]
        BY <2>4
      <4> QED  BY <2>1, <3>2, <4>1
    <3> QED  BY <3>1, <3>2
  <2>7. PICK w \in 1..MaxWeight : w >= weight[e] /\ weight' = [weight EXCEPT ![e] = w]
    BY <2>6
  <2>8. /\ weight' \in [Edge -> 0..MaxWeight] /\ weight'[e] = w /\ w > 0
        /\ \A f \in Edge \ {e} : weight'[f] = weight[f]
    BY <1>0, <2>4, <2>7
  <2>9. weight' \in [Edge -> Nat] /\ \A f \in Edge : weight'[f] >= weight[f]
    BY <1>0, <2>4, <2>7, <2>8
  <2>10. Links!Present' = Links!Present \cup {e}
    BY <1>0, <2>8 DEF Links!Present
  <2>11. GraphTypes' /\ Footing'
    BY <1>0, <2>1, <2>5, <2>8, <2>10 DEF GraphInv, GraphTypes, Footing
  <2>12. PassInv'
    BY <2>1, <2>5, <2>10 DEF GraphInv, PassInv, Links!Extracted
  <2>13. ReaderInv'
    BY <2>1, <2>9, ReaderStays DEF GraphInv
  <2> QED  BY <2>11, <2>12, <2>13 DEF GraphInv
<1>4. ASSUME NEW e \in Edge, Links!RefuseEdge(e) \/ Links!MissEdge(e) PROVE GraphInv'
  <2>1. /\ e \in unsent.edges /\ unsent' = [unsent EXCEPT !.edges = @ \ {e}]
        /\ UNCHANGED <<nodes, weight, told, reader>>
        /\ unsent.nodes = {}
    BY <1>4 DEF Links!RefuseEdge, Links!MissEdge, Links!NodesFirst
  <2>2. /\ unsent' \in [nodes : SUBSET Node, edges : SUBSET Edge]
        /\ unsent'.nodes = unsent.nodes /\ unsent'.edges = unsent.edges \ {e}
    BY <1>0, <2>1
  <2>3. missed'
    <3>1. CASE Links!MissEdge(e)
      BY <3>1 DEF Links!MissEdge
    <3>2. CASE Links!RefuseEdge(e) /\ ~missed
      <4>1. Links!Extracted(told).nodes \subseteq nodes /\ e \in Links!Extracted(told).edges
        BY <2>1, <3>2 DEF GraphInv, PassInv
      <4>2. Ends[e] \subseteq nodes
        BY <1>0, <4>1, ExtractedTypes
      <4> QED  BY <3>2, <4>2 DEF Links!RefuseEdge, Links!HasEnds
    <3>3. CASE Links!RefuseEdge(e) /\ missed
      BY <3>3 DEF Links!RefuseEdge
    <3> QED  BY <1>4, <3>1, <3>2, <3>3
  <2>4. GraphTypes' /\ Footing'
    BY <1>0, <2>1, <2>2 DEF GraphInv, GraphTypes, Footing, Links!Present
  <2>5. PassInv'
    BY <2>1, <2>2, <2>3 DEF GraphInv, PassInv, Links!Extracted
  <2>6. ReaderInv'
    BY <1>0, <2>1, ReaderStays DEF GraphInv
  <2> QED  BY <2>4, <2>5, <2>6 DEF GraphInv
<1> QED  BY <1>1, <1>2, <1>3, <1>4

\* What a query returns.
LEMMA HeaviestAreFew ==
  ASSUME NEW among, NEW k \in Nat, NEW es \in Links!Heaviest(among, k)
  PROVE  es \subseteq among /\ Cardinality(es) <= k
<1>1. CASE Links!Cardinality(among) <= k
  BY <1>1, GraphSizes DEF Links!Heaviest
<1>2. CASE ~(Links!Cardinality(among) <= k)
  <2>1. es \in Links!kSubset(k, among)
    BY <1>2 DEF Links!Heaviest
  <2> QED  BY <2>1, GraphSizes DEF Links!kSubset
<1> QED  BY <1>1, <1>2

\* What touches the centre is around it.
LEMMA TouchingIsAround ==
  ASSUME Links!GraphAssumption, NEW n
  PROVE  Links!Touching({n}) \subseteq Around(n)
  BY DEF Links!GraphAssumption, Links!Touching, Links!EndsOf, Links!Present, Around

\* A query whose answer is within bounds.
LEMMA HopTaken ==
  ASSUME Links!GraphAssumption, GraphInv, reader \in Held,
         NEW n \in Node, reader.center = n,
         NEW es \in SUBSET Edge, NEW to \in {"hop2", "nodes"},
         reader' = [reader EXCEPT !.edges = es, !.step = to],
         UNCHANGED <<nodes, weight, told, unsent, missed>>,
         es \subseteq Around(n), Cardinality(es) <= Limit,
         to = "hop2" => Cardinality(es) < Limit /\ es \subseteq Links!Touching({n})
  PROVE  GraphInv'
<1>1. Links!Present' = Links!Present
  BY DEF Links!Present
<1>2. Links!Touching({n})' = Links!Touching({n}) /\ Around(n)' = Around(n)
  BY <1>1 DEF Around, Links!Touching, Links!EndsOf
<1>3. reader' \in Held /\ reader'.center = n /\ reader'.edges = es /\ reader'.step = to
  BY DEF Held
<1>4. GraphTypes'
  BY <1>3 DEF GraphInv, GraphTypes
<1>5. Footing' /\ PassInv'
  BY <1>1 DEF GraphInv, Footing, PassInv
<1>6. reader'.step = "hop2" => /\ Cardinality(reader'.edges) < Limit
                               /\ reader'.edges \subseteq Links!Touching({reader.center})'
  BY <1>2, <1>3
<1>7. reader'.step = "nodes" => /\ Cardinality(reader'.edges) <= Limit
                                /\ reader'.edges \subseteq Around(reader.center)'
  BY <1>2, <1>3
<1>8. Links!AnswerIsClosed'
  BY <1>3 DEF Links!AnswerIsClosed
<1>9. ReaderInv'
  BY <1>3, <1>6, <1>7, <1>8 DEF ReaderInv
<1> QED  BY <1>4, <1>5, <1>9 DEF GraphInv

LEMMA HopStep ==
  ASSUME Links!GraphAssumption, GraphInv, Links!Hop1 \/ Links!Hop2
  PROVE  GraphInv'
<1>1. /\ reader \in Held /\ reader.center \in Node /\ reader.edges \subseteq Edge
  BY HeldFields DEF GraphInv, Links!Hop1, Links!Hop2
<1>2. PICK n \in Node : reader.center = n
  BY <1>1
<1>3. UNCHANGED <<nodes, weight, told, unsent, missed>>
  BY DEF Links!Hop1, Links!Hop2
<1>4. Limit \in Nat /\ IsFiniteSet(Edge)
  BY GraphSizes DEF Links!GraphAssumption
<1>5. Links!Touching({n}) \subseteq Edge /\ Around(n) \subseteq Edge
  BY DEF Around, Links!Touching, Links!Present
<1>6. CASE Links!Hop1
  <2>1. PICK es \in Links!Heaviest(Links!Touching({n}), Limit) :
           reader' = [reader EXCEPT !.edges = es,
                        !.step = IF es # {} /\ Cardinality(es) < Limit THEN "hop2" ELSE "nodes"]
    BY <1>2, <1>6, GraphSizes DEF Links!Hop1
  <2>2. es \subseteq Links!Touching({n}) /\ Cardinality(es) <= Limit
    BY <1>4, HeaviestAreFew
  <2>3. es \subseteq Around(n) /\ es \in SUBSET Edge
    BY <1>5, <2>2, TouchingIsAround
  <2>4. CASE es # {} /\ Cardinality(es) < Limit
    <3>1. reader' = [reader EXCEPT !.edges = es, !.step = "hop2"]
      BY <2>1, <2>4
    <3> QED  BY <1>1, <1>2, <1>3, <2>2, <2>3, <2>4, <3>1, HopTaken
  <2>5. CASE ~(es # {} /\ Cardinality(es) < Limit)
    <3>1. reader' = [reader EXCEPT !.edges = es, !.step = "nodes"]
      BY <2>1, <2>5
    <3> QED  BY <1>1, <1>2, <1>3, <2>2, <2>3, <3>1, HopTaken
  <2> QED  BY <2>4, <2>5
<1>7. CASE Links!Hop2
  <2> DEFINE held == reader.edges
             near == Links!EndsOf(held) \ {n}
             room == Limit - Cardinality(held)
  <2>1. PICK es \in Links!Heaviest(Links!Touching(near), room) :
           reader' = [reader EXCEPT !.edges = held \cup es, !.step = "nodes"]
    BY <1>2, <1>7, GraphSizes DEF Links!Hop2
  <2>2. /\ Cardinality(reader.edges) < Limit
        /\ reader.edges \subseteq Links!Touching({reader.center})
    BY <1>7 DEF GraphInv, ReaderInv, Links!Hop2
  <2>3. Cardinality(held) < Limit
    BY <2>2
  <2>4. held \subseteq Links!Touching({n})
    BY <1>2, <2>2
  <2>5. IsFiniteSet(held) /\ Cardinality(held) \in Nat
    BY <1>1, <1>4, FS_Subset, FS_CardinalityType
  <2> HIDE DEF held
  <2>6. room \in Nat
    BY <1>4, <2>3, <2>5
  <2> HIDE DEF room
  <2>7. es \subseteq Links!Touching(near) /\ Cardinality(es) <= room
    BY <2>6, HeaviestAreFew
  <2>8. Links!Touching(near) \subseteq Around(n)
    BY <2>4 DEF Around, Links!Touching, Links!EndsOf
  <2>9. held \cup es \subseteq Around(n) /\ es \in SUBSET Edge
    BY <1>5, <2>4, <2>7, <2>8, TouchingIsAround
  <2>10. IsFiniteSet(es) /\ Cardinality(es) \in Nat
    BY <1>4, <2>9, FS_Subset, FS_CardinalityType
  <2>11. Cardinality(held \cap es) \in Nat
    BY <2>5, FS_Intersection, FS_CardinalityType
  <2>12. Cardinality(held \cup es) = Cardinality(held) + Cardinality(es) - Cardinality(held \cap es)
    BY <2>5, <2>10, FS_Union
  <2>13. Cardinality(held \cup es) <= Limit
    BY <1>4, <2>5, <2>7, <2>10, <2>11, <2>12 DEF room
  <2>14. held \cup es \in SUBSET Edge
    BY <1>1, <2>9 DEF held
  <2> QED  BY <1>1, <1>2, <1>3, <2>1, <2>9, <2>13, <2>14, HopTaken
<1> QED  BY <1>6, <1>7

LEMMA AnswerStep ==
  ASSUME Links!GraphAssumption, GraphInv, Links!ReadNodes
  PROVE  GraphInv'
<1>1. reader \in Held /\ reader.center \in Node /\ reader.edges \subseteq Edge
  BY HeldFields DEF GraphInv, Links!ReadNodes
<1>2. PICK n \in Node : reader.center = n
  BY <1>1
<1>3. UNCHANGED <<nodes, weight, told, unsent, missed>>
  BY DEF Links!ReadNodes
<1>4. Links!Present' = Links!Present /\ Limit \in Nat
  BY <1>3 DEF Links!Present, Links!GraphAssumption
<1>5. Around(n)' = Around(n)
  BY <1>4 DEF Around, Links!Touching, Links!EndsOf
<1> DEFINE held == reader.edges
           ns == Links!Allowed((Links!EndsOf(held) \cup {n}) \cap nodes, reader.filter)
           es == IF reader.filter = "all" THEN held ELSE Links!Kept(held, ns)
<1>6. reader' = [reader EXCEPT !.nodes = ns, !.step = "shown", !.edges = es]
  BY <1>2 DEF Links!ReadNodes
<1>7. /\ held \subseteq Around(n) /\ Cardinality(held) <= Limit
  BY <1>2 DEF GraphInv, ReaderInv, Links!ReadNodes
<1>8. es \subseteq held /\ ns \subseteq Node
  BY DEF Links!Kept, Links!Allowed, GraphInv, GraphTypes
<1>9. Links!EndsOf(es) \subseteq ns
  <2>1. CASE reader.filter = "all"
    <3>1. held \subseteq Links!Present
      BY <1>7 DEF Around, Links!Touching
    <3>2. Links!EndsOf(held) \subseteq nodes
      BY <3>1 DEF Links!EndsOf, GraphInv, Footing
    <3> QED  BY <2>1, <3>2 DEF Links!Allowed
  <2>2. CASE reader.filter # "all"
    BY <2>2 DEF Links!Kept, Links!EndsOf
  <2> QED  BY <2>1, <2>2
<1>10. Cardinality(es) <= Limit
  <2>1. IsFiniteSet(held)
    BY <1>1, FS_Subset, GraphSizes DEF Links!GraphAssumption
  <2>2. Cardinality(es) <= Cardinality(held) /\ Cardinality(es) \in Nat /\ Cardinality(held) \in Nat
    BY <1>8, <2>1, FS_Subset, FS_CardinalityType
  <2> QED  BY <1>4, <1>7, <2>2
<1> HIDE DEF ns, es
<1>11. /\ reader' \in Held /\ reader'.center = n /\ reader'.edges = es /\ reader'.nodes = ns
       /\ reader'.step = "shown"
  BY <1>1, <1>2, <1>6, <1>8 DEF Held
<1>12. GraphTypes'
  BY <1>3, <1>11 DEF GraphInv, GraphTypes
<1>13. Footing' /\ PassInv'
  BY <1>3, <1>4 DEF GraphInv, Footing, PassInv
<1>14. Links!AnswerIsClosed'
  <2>1. Links!EndsOf(reader.edges)' = Links!EndsOf(es)
    BY <1>11 DEF Links!EndsOf
  <2>2. Around(n)' = Links!Touching(Links!EndsOf(Links!Touching({reader.center})))'
    BY <1>11 DEF Around
  <2> QED  BY <1>5, <1>7, <1>8, <1>9, <1>10, <1>11, <2>1, <2>2, GraphSizes DEF Links!AnswerIsClosed
<1>15. ReaderInv'
  BY <1>11, <1>14 DEF ReaderInv
<1> QED  BY <1>12, <1>13, <1>15 DEF GraphInv

\* A reader comes, or leaves.
LEMMA VisitStep ==
  ASSUME Links!GraphAssumption, GraphInv,
         \/ \E n \in Node, f \in {"all"} \cup {Category[m] : m \in Node} : Links!ReadCenter(n, f)
         \/ Links!Leave
         \/ UNCHANGED Links!graphVars
  PROVE  GraphInv'
<1>1. /\ UNCHANGED <<nodes, weight, told, unsent, missed>>
      /\ \/ reader' = reader
         \/ reader' \in {Links!NoReader} \cup Held /\ reader'.step \in {"idle", "hop1"}
  <2>1. ASSUME NEW n \in Node, NEW f \in {"all"} \cup {Category[m] : m \in Node},
               Links!ReadCenter(n, f)
        PROVE  /\ reader' \in Held /\ reader'.step = "hop1"
               /\ UNCHANGED <<nodes, weight, told, unsent, missed>>
    BY <2>1 DEF Links!ReadCenter, Held
  <2>2. CASE Links!Leave
    BY <2>2 DEF Links!Leave, Links!NoReader
  <2>3. CASE UNCHANGED Links!graphVars
    BY <2>3 DEF Links!graphVars
  <2> QED  BY <2>1, <2>2, <2>3
<1>2. Links!Present' = Links!Present
  BY <1>1 DEF Links!Present
<1>3. GraphTypes' /\ Footing' /\ PassInv'
  BY <1>1, <1>2 DEF GraphInv, GraphTypes, Footing, PassInv
<1>4. ReaderInv'
  <2>1. CASE reader' = reader
    <3>1. weight' \in [Edge -> Nat] /\ \A e \in Edge : weight'[e] >= weight[e]
      BY <1>1 DEF GraphInv, GraphTypes
    <3> QED  BY <2>1, <3>1, ReaderStays DEF GraphInv
  <2>2. CASE reader'.step \in {"idle", "hop1"}
    BY <2>2 DEF ReaderInv, Links!AnswerIsClosed
  <2> QED  BY <1>1, <2>1, <2>2
<1> QED  BY <1>3, <1>4 DEF GraphInv

LEMMA GraphIsTrue == GraphInv => Links!GraphHoldsHomepage /\ Links!AnswerIsClosed
<1> SUFFICES ASSUME GraphInv PROVE Links!GraphHoldsHomepage /\ Links!AnswerIsClosed
  OBVIOUS
<1>1. ASSUME unsent = Links!NothingUnsent, ~missed
      PROVE  /\ Links!Extracted(told).nodes \subseteq nodes
             /\ Links!Extracted(told).edges \subseteq Links!Present
  <2>1. unsent.nodes = {} /\ unsent.edges = {}
    BY <1>1 DEF Links!NothingUnsent
  <2> QED  BY <1>1, <2>1 DEF GraphInv, PassInv
<1> QED  BY <1>1 DEF GraphInv, ReaderInv, Links!GraphHoldsHomepage

LEMMA GraphBegins ==
  ASSUME Links!GraphAssumption PROVE Links!GraphInit => GraphInv
<1> SUFFICES ASSUME Links!GraphInit PROVE GraphInv
  OBVIOUS
<1>1. /\ nodes = {} /\ weight = [e \in Edge |-> 0] /\ told = {}
      /\ unsent = [nodes |-> {}, edges |-> {}] /\ reader = [step |-> "idle"]
  BY DEF Links!GraphInit, Links!NothingUnsent, Links!NoReader
<1>2. Links!Present = {} /\ Links!Extracted(told).nodes = {} /\ Links!Extracted(told).edges = {}
  BY <1>1 DEF Links!Present, Links!Extracted
<1>3. weight \in [Edge -> 0..MaxWeight]
  BY <1>1 DEF Links!GraphAssumption
<1> QED  BY <1>1, <1>2, <1>3 DEF GraphInv, GraphTypes, Footing, PassInv, ReaderInv, Links!AnswerIsClosed,
                                 Links!NoReader

(* A pass whose calls all succeed leaves everything the homepage tells in  *)
(* the graph; and an answer holds both ends of each of its edges, none     *)
(* further than two hops and no more than the limit, though a crawl writes *)
(* between its queries (graphSync.ts:31-63, graphQueryHandler.ts:94-180).  *)
THEOREM GraphIsWhole ==
  Links!GraphAssumption =>
    (Links!GraphSpec => [](Links!GraphHoldsHomepage /\ Links!AnswerIsClosed))
<1> SUFFICES ASSUME Links!GraphAssumption
             PROVE  Links!GraphSpec => [](Links!GraphHoldsHomepage /\ Links!AnswerIsClosed)
  OBVIOUS
<1>1. Links!GraphInit => GraphInv
  BY GraphBegins
<1>2. GraphInv /\ [Links!GraphNext]_(Links!graphVars) => GraphInv'
  BY PassStep, HopStep, AnswerStep, VisitStep DEF Links!GraphNext
<1>3. GraphInv => Links!GraphHoldsHomepage /\ Links!AnswerIsClosed
  BY GraphIsTrue
<1> QED  BY <1>1, <1>2, <1>3, PTL DEF Links!GraphSpec

-----------------------------------------------------------------------------
(***************************************************************************)
(* Feeds.  A breaker's tag is of a body whose items were handed over, and  *)
(* a request carries the tag its breaker still has.                        *)
(***************************************************************************)
Tags == {Nothing} \cup UNION {Body[f] : f \in Feed}
Breaker == [state : {"CLOSED", "OPEN", "HALF-OPEN"}, fails : Nat, age : Nat, tag : Tags]

ReadUpTo(f, tag, got) == tag # Nothing => Reading!Yield(f, tag) \subseteq got

FeedInv ==
  /\ breaker \in [Feed -> Breaker] /\ DOMAIN handed = Feed
  /\ DOMAIN shelf = Feed /\ \A f \in Feed : shelf[f] \in Body[f]
  /\ \A f \in Feed : ReadUpTo(f, breaker[f].tag, handed[f])
  /\ \A f \in DOMAIN pending \cap Feed : pending[f] = breaker[f].tag

\* Only a success with a tag changes a breaker's tag.
LEMMA BreakerMoves ==
  ASSUME Reading!FeedAssumption, NEW b \in Breaker
  PROVE  /\ Reading!Probed(b) \in Breaker /\ Reading!Probed(b).tag = b.tag
         /\ Reading!Failed(b) \in Breaker /\ Reading!Failed(b).tag = b.tag
         /\ \A tag \in Tags : /\ Reading!Succeeded(b, tag) \in Breaker
                              /\ Reading!Succeeded(b, tag).tag = IF tag = Nothing THEN b.tag ELSE tag
<1>1. /\ b.state \in {"CLOSED", "OPEN", "HALF-OPEN"} /\ b.fails \in Nat /\ b.age \in Nat
      /\ b.tag \in Tags
  BY DEF Breaker
<1>2. Reading!Probed(b) \in Breaker /\ Reading!Probed(b).tag = b.tag
  BY DEF Reading!Probed, Breaker
<1>3. Reading!Failed(b) \in Breaker /\ Reading!Failed(b).tag = b.tag
  <2> DEFINE p == Reading!Probed(b)
             more == p.fails + 1
             fails == IF more > Threshold THEN Threshold ELSE more
             state == IF p.state = "HALF-OPEN" \/ more >= Threshold THEN "OPEN" ELSE p.state
  <2>1. p \in Breaker /\ p.tag = b.tag
    BY <1>2
  <2>2. p.fails \in Nat /\ Threshold \in Nat /\ p.state \in {"CLOSED", "OPEN", "HALF-OPEN"}
    BY <2>1 DEF Breaker, Reading!FeedAssumption
  <2>3. fails \in Nat /\ state \in {"CLOSED", "OPEN", "HALF-OPEN"}
    BY <2>2
  <2>4. Reading!Failed(b) = [p EXCEPT !.fails = fails, !.age = 0, !.state = state]
    BY DEF Reading!Failed
  <2> HIDE DEF p, fails, state
  <2>5. Reading!Failed(b) = [state |-> state, fails |-> fails, age |-> 0, tag |-> b.tag]
    BY <2>1, <2>4 DEF Breaker
  <2>6. 0 \in Nat
    OBVIOUS
  <2> QED  BY <1>1, <2>3, <2>5, <2>6 DEF Breaker
<1>4. ASSUME NEW tag \in Tags
      PROVE  /\ Reading!Succeeded(b, tag) \in Breaker
             /\ Reading!Succeeded(b, tag).tag = IF tag = Nothing THEN b.tag ELSE tag
  <2> DEFINE kept == IF tag = Nothing THEN b.tag ELSE tag
  <2>1. kept \in Tags
    BY <1>1
  <2>2. Reading!Succeeded(b, tag) = [b EXCEPT !.state = "CLOSED", !.fails = 0, !.tag = kept]
    BY DEF Reading!Succeeded
  <2> HIDE DEF kept
  <2>3. Reading!Succeeded(b, tag) = [state |-> "CLOSED", fails |-> 0, age |-> b.age, tag |-> kept]
    BY <2>2 DEF Breaker
  <2>4. "CLOSED" \in {"CLOSED", "OPEN", "HALF-OPEN"} /\ 0 \in Nat
    OBVIOUS
  <2>5. Reading!Succeeded(b, tag) \in Breaker /\ Reading!Succeeded(b, tag).tag = kept
    BY <1>1, <2>1, <2>3, <2>4 DEF Breaker
  <2> QED  BY <2>5 DEF kept
<1> QED  BY <1>2, <1>3, <1>4

\* An answer settles one feed: its breaker and what it handed over.
LEMMA AnswerSettles ==
  ASSUME FeedInv, NEW f \in DOMAIN pending \cap Feed, NEW b \in Breaker, NEW got,
         breaker' = [breaker EXCEPT ![f] = b],
         DOMAIN handed' = Feed, handed'[f] = got, \A g \in Feed \ {f} : handed'[g] = handed[g],
         ReadUpTo(f, b.tag, got), Reading!Settle(f), UNCHANGED shelf
  PROVE  FeedInv'
<1>1. f \in Feed /\ breaker' \in [Feed -> Breaker] /\ DOMAIN handed' = Feed
  BY DEF FeedInv
<1>2. \A g \in Feed : ReadUpTo(g, breaker'[g].tag, handed'[g])
  <2> SUFFICES ASSUME NEW g \in Feed PROVE ReadUpTo(g, breaker'[g].tag, handed'[g])
    OBVIOUS
  <2>1. CASE g = f
    BY <2>1 DEF FeedInv
  <2>2. CASE g # f
    BY <2>2 DEF FeedInv
  <2> QED  BY <2>1, <2>2
<1>3. /\ DOMAIN pending' = DOMAIN pending \ {f}
      /\ \A g \in DOMAIN pending' : pending'[g] = pending[g] /\ breaker'[g] = breaker[g]
  BY DEF FeedInv, Reading!Settle
<1> QED  BY <1>1, <1>2, <1>3 DEF FeedInv

LEMMA FeedStep ==
  ASSUME Reading!FeedAssumption, FeedInv, [Reading!FeedNext]_(Reading!feedVars)
  PROVE  FeedInv'
<1>0. /\ \A f \in Feed : breaker[f] \in Breaker
      /\ \A f \in Feed : shelf[f] \in Tags /\ shelf[f] # Nothing
      /\ Nothing \in Tags
  BY DEF FeedInv, Tags, Reading!FeedAssumption
<1>1. CASE Reading!StartCrawl
  BY <1>1 DEF Reading!StartCrawl, FeedInv
<1>2. CASE Reading!AskBatch
  <2> DEFINE at == [f \in Feed |-> IF f \in Reading!Batch THEN Reading!Probed(breaker[f])
                                   ELSE breaker[f]]
             let == {f \in Reading!Batch : at[f].state # "OPEN"}
             sent == {g \in let : ~Reading!Refused(g)}
  <2>1. /\ pending' = [f \in sent |-> at[f].tag]
        /\ breaker' = [f \in Feed |-> IF f \in let /\ Reading!Refused(f)
                                      THEN Reading!Failed(at[f]) ELSE at[f]]
        /\ UNCHANGED <<shelf, handed>>
    BY <1>2 DEF Reading!AskBatch
  <2>2. \A f \in Feed : at[f] \in Breaker /\ at[f].tag = breaker[f].tag
    BY <1>0, BreakerMoves
  <2> HIDE DEF at
  <2>3. \A f \in Feed : breaker'[f] \in Breaker /\ breaker'[f].tag = breaker[f].tag
    BY <2>1, <2>2, BreakerMoves
  <2>4. \A f \in sent \cap Feed : breaker'[f] = at[f]
    BY <2>1
  <2>5. breaker' \in [Feed -> Breaker]
    BY <2>1, <2>3
  <2>6. \A f \in DOMAIN pending' \cap Feed : pending'[f] = breaker'[f].tag
    BY <2>1, <2>2, <2>3
  <2> QED  BY <2>1, <2>3, <2>5, <2>6 DEF FeedInv
<1>3. ASSUME NEW f \in Feed, Reading!Unchanged(f) PROVE FeedInv'
  <2> DEFINE b == Reading!Succeeded(breaker[f], Nothing)
  <2>1. b \in Breaker /\ b.tag = breaker[f].tag
    BY <1>0, BreakerMoves
  <2>2. /\ f \in DOMAIN pending \cap Feed /\ breaker' = [breaker EXCEPT ![f] = b]
        /\ Reading!Settle(f) /\ UNCHANGED <<shelf, handed>>
    BY <1>3 DEF Reading!Unchanged
  <2>3. /\ DOMAIN handed' = Feed /\ handed'[f] = handed[f] /\ ReadUpTo(f, b.tag, handed[f])
        /\ \A g \in Feed \ {f} : handed'[g] = handed[g]
    BY <2>1, <2>2 DEF FeedInv
  <2> HIDE DEF b
  <2> QED  BY <2>1, <2>2, <2>3, AnswerSettles
<1>4. ASSUME NEW f \in Feed, Reading!Read(f) PROVE FeedInv'
  <2>1. PICK tag \in {shelf[f], Nothing} :
           breaker' = [breaker EXCEPT ![f] = Reading!Succeeded(breaker[f], tag)]
    BY <1>4 DEF Reading!Read
  <2> DEFINE b == Reading!Succeeded(breaker[f], tag)
             got == handed[f] \cup Reading!Yield(f, shelf[f])
  <2>2. b \in Breaker /\ b.tag = IF tag = Nothing THEN breaker[f].tag ELSE tag
    BY <1>0, BreakerMoves
  <2>3. /\ f \in DOMAIN pending \cap Feed /\ breaker' = [breaker EXCEPT ![f] = b]
        /\ DOMAIN handed' = Feed /\ handed'[f] = got
        /\ \A g \in Feed \ {f} : handed'[g] = handed[g]
        /\ Reading!Settle(f) /\ UNCHANGED shelf
    BY <1>4, <2>1 DEF Reading!Read, FeedInv
  <2>4. ReadUpTo(f, b.tag, got)
    BY <2>2 DEF FeedInv, ReadUpTo
  <2> HIDE DEF b, got
  <2> QED  BY <2>2, <2>3, <2>4, AnswerSettles
<1>5. ASSUME NEW f \in Feed, Reading!TooLong(f) \/ Reading!Fails(f) PROVE FeedInv'
  <2> DEFINE b == Reading!Failed(breaker[f])
  <2>1. b \in Breaker /\ b.tag = breaker[f].tag
    BY <1>0, BreakerMoves
  <2>2. /\ f \in DOMAIN pending \cap Feed /\ breaker' = [breaker EXCEPT ![f] = b]
        /\ Reading!Settle(f) /\ UNCHANGED <<shelf, handed>>
    BY <1>5 DEF Reading!TooLong, Reading!Fails, Reading!CutOff
  <2>3. /\ DOMAIN handed' = Feed /\ handed'[f] = handed[f] /\ ReadUpTo(f, b.tag, handed[f])
        /\ \A g \in Feed \ {f} : handed'[g] = handed[g]
    BY <2>1, <2>2 DEF FeedInv
  <2> HIDE DEF b
  <2> QED  BY <2>1, <2>2, <2>3, AnswerSettles
<1>6. ASSUME NEW f \in Feed, Reading!Publish(f) PROVE FeedInv'
  <2>1. PICK body \in Body[f] : shelf' = [shelf EXCEPT ![f] = body]
    BY <1>6 DEF Reading!Publish
  <2>2. DOMAIN shelf' = Feed /\ \A g \in Feed : shelf'[g] \in Body[g]
    BY <2>1 DEF FeedInv
  <2> QED  BY <1>6, <2>2 DEF Reading!Publish, FeedInv
<1>7. ASSUME NEW f \in Feed, Reading!Turn(f) PROVE FeedInv'
  BY <1>7 DEF Reading!Turn, FeedInv
<1>8. CASE Reading!Wait
  <2>1. breaker' = [f \in Feed |-> [breaker[f] EXCEPT !.age = IF @ < Cooldown THEN @ + 1 ELSE @]]
    BY <1>8 DEF Reading!Wait
  <2>2. \A f \in Feed : breaker'[f] \in Breaker /\ breaker'[f].tag = breaker[f].tag
    BY <1>0, <2>1 DEF Breaker
  <2>3. breaker' \in [Feed -> Breaker]
    BY <2>1, <2>2
  <2>4. UNCHANGED <<shelf, pending, handed>>
    BY <1>8 DEF Reading!Wait
  <2> QED  BY <2>2, <2>3, <2>4 DEF FeedInv
<1>9. CASE Reading!Restart
  <2>1. breaker' = [f \in Feed |-> Reading!Closed] /\ Reading!Closed \in Breaker
        /\ Reading!Closed.tag = Nothing
    BY <1>0, <1>9 DEF Reading!Restart, Reading!Closed, Breaker
  <2>2. /\ handed' = [f \in Feed |-> {}] /\ pending' = [f \in {} |-> Nothing] /\ shelf' = shelf
    BY <1>9 DEF Reading!Restart
  <2> QED  BY <2>1, <2>2 DEF FeedInv, ReadUpTo
<1>10. CASE UNCHANGED Reading!feedVars
  BY <1>10 DEF Reading!feedVars, FeedInv
<1> QED  BY <1>1, <1>2, <1>3, <1>4, <1>5, <1>6, <1>7, <1>8, <1>9, <1>10 DEF Reading!FeedNext

LEMMA FeedBegins ==
  ASSUME Reading!FeedAssumption, Reading!FeedInit
  PROVE  FeedInv
<1>1. Reading!Closed \in Breaker /\ Reading!Closed.tag = Nothing
  BY DEF Reading!Closed, Breaker, Tags
<1> QED  BY <1>1 DEF Reading!FeedInit, FeedInv, ReadUpTo

(* A 304 loses nothing: what a remembered tag stands for was handed over   *)
(* in this process, so the body a publisher leaves out was read before,    *)
(* whatever failed, was cut off or restarted in between                    *)
(* (fowlerCircuitBreaker.ts:60).                                           *)
THEOREM NothingUnread ==
  Reading!FeedAssumption => (Reading!FeedSpec => []Reading!UnchangedWasRead)
<1> SUFFICES ASSUME Reading!FeedAssumption
             PROVE  Reading!FeedSpec => []Reading!UnchangedWasRead
  OBVIOUS
<1>1. Reading!FeedInit => FeedInv
  BY FeedBegins
<1>2. FeedInv /\ [Reading!FeedNext]_(Reading!feedVars) => FeedInv'
  BY FeedStep
<1>3. FeedInv => Reading!UnchangedWasRead
  BY DEF FeedInv, ReadUpTo, Reading!UnchangedWasRead
<1> QED  BY <1>1, <1>2, <1>3, PTL DEF Reading!FeedSpec

(* ... at the step itself: whoever is answered 304 had the body read.      *)
AnsweredUnread ==
  [][\A f \in Feed : Reading!Unchanged(f) => Reading!Yield(f, shelf[f]) \subseteq handed[f]
    ]_(Reading!feedVars)

THEOREM UnchangedLosesNothing ==
  Reading!FeedAssumption => (Reading!FeedSpec => AnsweredUnread)
<1> SUFFICES ASSUME Reading!FeedAssumption PROVE Reading!FeedSpec => AnsweredUnread
  OBVIOUS
<1>1. Reading!FeedInit => FeedInv
  BY FeedBegins
<1>2. FeedInv /\ [Reading!FeedNext]_(Reading!feedVars) => FeedInv'
  BY FeedStep
<1>3. FeedInv => [\A f \in Feed : Reading!Unchanged(f) => Reading!Yield(f, shelf[f]) \subseteq handed[f]
                ]_(Reading!feedVars)
  <2> SUFFICES ASSUME FeedInv, NEW f \in Feed, Reading!Unchanged(f)
               PROVE  Reading!Yield(f, shelf[f]) \subseteq handed[f]
    OBVIOUS
  <2>1. f \in DOMAIN pending \cap Feed /\ pending[f] = shelf[f]
    BY DEF Reading!Unchanged
  <2>2. breaker[f].tag = shelf[f] /\ shelf[f] # Nothing
    BY <2>1 DEF FeedInv, Reading!FeedAssumption
  <2> QED  BY <2>2 DEF FeedInv, ReadUpTo
<1> QED  BY <1>1, <1>2, <1>3, PTL DEF Reading!FeedSpec, AnsweredUnread

-----------------------------------------------------------------------------
(***************************************************************************)
(* Publishers.  What is stored of one and what is still to be written of   *)
(* it stay within what the crawls counted, and each is written once.       *)
(***************************************************************************)
Counts == [Credits!Counter -> Nat]
Row == [counts : Counts, multiplier : 70..130]

Stored(d, c) == IF reputation[d] = Nothing THEN 0 ELSE reputation[d].counts[c]

HarvestInv ==
  /\ reputation \in [Domain -> Row \cup {Nothing}]
  /\ known \in [Domain -> Counts] /\ acked \in [Domain -> Counts]
  /\ sourceSync \subseteq Domain \X Counts
  /\ \A u, v \in sourceSync : u[1] = v[1] => u = v
  /\ \A d \in Domain, c \in Credits!Counter :
       acked[d][c] <= Stored(d, c) /\ Stored(d, c) <= known[d][c]
  /\ \A u \in sourceSync, c \in Credits!Counter :
       Stored(u[1], c) + u[2][c] <= known[u[1]][c]

LEMMA NoTallyIsNoRow ==
  ASSUME Credits!HarvestAssumption
  PROVE  Nothing \notin Row
  BY DEF Credits!HarvestAssumption, Row, Counts, Credits!Counter

LEMMA LeastOfTwo ==
  ASSUME NEW a \in Int, NEW b \in Int
  PROVE  Credits!Min({a, b}) = IF a <= b THEN a ELSE b
<1> DEFINE m == IF a <= b THEN a ELSE b
<1>1. m \in {a, b} /\ \A y \in {a, b} : m <= y
  OBVIOUS
<1>2. \A x \in {a, b} : (\A y \in {a, b} : x <= y) => x = m
  OBVIOUS
<1> HIDE DEF m
<1>3. Credits!Min({a, b}) = m
  BY <1>1, <1>2 DEF Credits!Min
<1> QED  BY <1>3 DEF m

LEMMA GreatestOfTwo ==
  ASSUME NEW a \in Int, NEW b \in Int
  PROVE  Credits!Max({a, b}) = IF a >= b THEN a ELSE b
<1> DEFINE m == IF a >= b THEN a ELSE b
<1>1. m \in {a, b} /\ \A y \in {a, b} : m >= y
  OBVIOUS
<1>2. \A x \in {a, b} : (\A y \in {a, b} : x >= y) => x = m
  OBVIOUS
<1> HIDE DEF m
<1>3. Credits!Max({a, b}) = m
  BY <1>1, <1>2 DEF Credits!Max
<1> QED  BY <1>3 DEF m

\* computeReputationMultiplier keeps to its bounds.
LEMMA MultiplierIsBounded ==
  ASSUME NEW s \in Counts
  PROVE  Credits!Multiplier(s) \in 70..130
<1> DEFINE kept == 100 * s["accepted"]
           got == s["ingested"]
           noise == IF kept < 15 * got THEN 85 ELSE IF kept < 35 * got THEN 92
                    ELSE IF kept >= 75 * got THEN 108 ELSE 100
           scooped == Credits!Min({15, 3 * s["scoops"]})
           backed == Credits!Min({10, s["corroborations"]})
           sum == noise + (scooped + backed)
           low == Credits!Min({130, sum})
<1>1. s["scoops"] \in Nat /\ s["corroborations"] \in Nat /\ s["ingested"] \in Nat /\ s["accepted"] \in Nat
  BY DEF Counts, Credits!Counter
<1>2. scooped \in Int /\ backed \in Int
  BY <1>1, LeastOfTwo
<1>3. noise \in Int
  OBVIOUS
<1> HIDE DEF scooped, backed, noise
<1>4. sum \in Int
  BY <1>2, <1>3
<1> HIDE DEF sum
<1>5. low \in Int /\ low <= 130
  BY <1>4, LeastOfTwo
<1> HIDE DEF low
<1>6. Credits!Max({70, low}) \in 70..130
  BY <1>5, GreatestOfTwo
<1>7. Credits!Multiplier(s) = IF got = 0 THEN 100 ELSE Credits!Max({70, low})
  BY DEF Credits!Multiplier, low, sum, scooped, backed, noise
<1> QED  BY <1>6, <1>7

LEMMA PlusAdds ==
  ASSUME NEW s \in Counts, NEW t \in Counts
  PROVE  /\ Credits!Plus(s, t) \in Counts
         /\ \A c \in Credits!Counter : Credits!Plus(s, t)[c] = s[c] + t[c]
  BY DEF Credits!Plus, Counts

\* What a crawl counts of a publisher.
LEMMA CreditsAreCounts ==
  ASSUME Credits!HarvestAssumption, NEW digest \in Digests, NEW d \in Domain
  PROVE  Credits!Credited(digest, d) \in Counts
<1>1. \A S : Credits!Cardinality(S) = Cardinality(S)
  BY DEF Credits!Cardinality, Cardinality
<1>2. ASSUME NEW n \in Nat, NEW S \in SUBSET (1..n) PROVE Credits!Cardinality(S) \in Nat
  <2>1. IsFiniteSet(1..n)
    BY FS_Interval
  <2> QED  BY <1>1, <2>1, FS_Subset, FS_CardinalityType
<1>3. /\ Len(digest.raw) \in Nat /\ DOMAIN digest.raw = 1..Len(digest.raw)
      /\ Len(digest.fresh) \in Nat /\ DOMAIN digest.fresh = 1..Len(digest.fresh)
      /\ Len(digest.stories) \in Nat /\ DOMAIN digest.stories = 1..Len(digest.stories)
  <2> DEFINE Tale == [names : SUBSET Name, primary : Domain, related : SUBSET Domain, first : Domain]
  <2>1. digest.raw \in Seq(Domain) /\ digest.fresh \in Seq(Domain) /\ digest.stories \in Seq(Tale)
    BY DEF Credits!HarvestAssumption
  <2> HIDE DEF Tale
  <2>2. ASSUME NEW S, NEW q \in Seq(S) PROVE Len(q) \in Nat /\ DOMAIN q = 1..Len(q)
    OBVIOUS
  <2> QED  BY <2>1, <2>2
<1>4. Credits!Times(d, digest.raw) \in Nat /\ Credits!Times(d, digest.fresh) \in Nat
  BY <1>2, <1>3 DEF Credits!Times
<1>5. \A S \in SUBSET DOMAIN digest.stories : Credits!Cardinality(S) \in Nat
  BY <1>2, <1>3
<1>6. /\ Credits!Cardinality({i \in DOMAIN digest.stories : Credits!Leader(digest.stories[i]) = d}) \in Nat
      /\ Credits!Cardinality({i \in DOMAIN digest.stories : d \in digest.stories[i].related}) \in Nat
  BY <1>5
<1> QED  BY <1>4, <1>6 DEF Credits!Credited, Counts, Credits!Counter

LEMMA HarvestStep ==
  ASSUME Credits!HarvestAssumption, HarvestInv, [Credits!HarvestNext]_(Credits!harvestVars)
  PROVE  HarvestInv'
<1>0. \A d \in Domain, c \in Credits!Counter :
        known[d][c] \in Nat /\ acked[d][c] \in Nat /\ Stored(d, c) \in Nat
  BY DEF HarvestInv, Stored, Row, Counts
<1>1. ASSUME NEW digest \in Digests, Credits!Count(digest) PROVE HarvestInv'
  <2> DEFINE stats == [d \in Domain |-> Credits!Credited(digest, d)]
  <2>1. stats \in [Domain -> Counts]
    BY CreditsAreCounts
  <2>2. /\ sourceSync = {} /\ UNCHANGED <<reputation, acked>>
        /\ sourceSync' = {<<d, stats[d]>> : d \in {e \in Domain : stats[e] # Credits!Zero}}
        /\ known' = [d \in Domain |-> Credits!Plus(known[d], stats[d])]
    BY <1>1 DEF Credits!Count, Credits!Done
  <2> HIDE DEF stats
  <2>3. \A d \in Domain : /\ known'[d] \in Counts
                          /\ \A c \in Credits!Counter : known'[d][c] = known[d][c] + stats[d][c]
    BY <2>1, <2>2, PlusAdds DEF HarvestInv
  <2>4. known' \in [Domain -> Counts]
    BY <2>2, <2>3
  <2>5. \A u \in sourceSync' : u[1] \in Domain /\ u = <<u[1], stats[u[1]]>>
    BY <2>2
  <2>6. sourceSync' \subseteq Domain \X Counts /\ \A u, v \in sourceSync' : u[1] = v[1] => u = v
    BY <2>1, <2>5
  <2>7. \A d \in Domain, c \in Credits!Counter : Stored(d, c)' = Stored(d, c) /\ stats[d][c] \in Nat
    BY <2>1, <2>2 DEF Stored, Counts
  <2>8. \A d \in Domain, c \in Credits!Counter :
          acked[d][c] <= Stored(d, c)' /\ Stored(d, c)' <= known'[d][c]
    BY <1>0, <2>3, <2>7 DEF HarvestInv
  <2>9. \A d \in Domain, c \in Credits!Counter : Stored(d, c)' + stats[d][c] <= known'[d][c]
    BY <1>0, <2>3, <2>7 DEF HarvestInv
  <2>10. \A u \in sourceSync', c \in Credits!Counter : Stored(u[1], c)' + u[2][c] <= known'[u[1]][c]
    BY <2>5, <2>9
  <2> QED  BY <2>2, <2>4, <2>6, <2>8, <2>10 DEF HarvestInv, Stored
<1>2. ASSUME NEW e \in entitySync, NEW applied \in BOOLEAN, Credits!WriteEntity(e, applied)
      PROVE  HarvestInv'
  BY <1>2 DEF Credits!WriteEntity, HarvestInv, Stored
<1>3. ASSUME NEW u \in sourceSync, NEW applied \in BOOLEAN, NEW answered \in BOOLEAN,
             Credits!WriteSource(u, applied, answered)
      PROVE  HarvestInv'
  <2>1. PICK d \in Domain, s \in Counts : u = <<d, s>>
    BY DEF HarvestInv
  <2>2. /\ sourceSync' = sourceSync \ {u} /\ known' = known /\ (answered => applied)
        /\ reputation' = (IF applied THEN Credits!Upserted(d, s) ELSE reputation)
        /\ acked' = (IF answered THEN [acked EXCEPT ![d] = Credits!Plus(acked[d], s)] ELSE acked)
    BY <1>3, <2>1 DEF Credits!WriteSource, Credits!TriedOnce
  <2>3. \A v \in sourceSync' : v \in sourceSync /\ v[1] \in Domain /\ v[1] # d
    BY <2>1, <2>2 DEF HarvestInv
  <2> DEFINE now == IF reputation[d] = Nothing THEN s ELSE Credits!Plus(reputation[d].counts, s)
             row == [counts |-> now, multiplier |-> Credits!Multiplier(s)]
  <2>4. now \in Counts /\ \A c \in Credits!Counter : now[c] = Stored(d, c) + s[c]
    <3>1. CASE reputation[d] = Nothing
      BY <3>1 DEF Stored, Counts
    <3>2. CASE reputation[d] # Nothing
      <4>1. reputation[d].counts \in Counts
        BY <3>2 DEF HarvestInv, Row
      <4> QED  BY <3>2, <4>1, PlusAdds DEF Stored
    <3> QED  BY <3>1, <3>2
  <2> HIDE DEF now
  <2>5. row \in Row /\ row # Nothing /\ row.counts = now
    BY <2>4, MultiplierIsBounded, NoTallyIsNoRow DEF Row
  <2> HIDE DEF row
  <2>6. Credits!Upserted(d, s) = [reputation EXCEPT ![d] = row]
    BY DEF Credits!Upserted, row, now
  <2>7. reputation' \in [Domain -> Row \cup {Nothing}]
    BY <2>2, <2>5, <2>6 DEF HarvestInv
  <2>8. \A c \in Credits!Counter :
          Stored(d, c)' = IF applied THEN Stored(d, c) + s[c] ELSE Stored(d, c)
    BY <2>2, <2>4, <2>5, <2>6 DEF Stored, HarvestInv
  <2>9. \A e \in Domain \ {d}, c \in Credits!Counter : Stored(e, c)' = Stored(e, c)
    BY <2>2, <2>6 DEF Stored, HarvestInv
  <2>10. /\ acked' \in [Domain -> Counts]
         /\ \A e \in Domain \ {d} : acked'[e] = acked[e]
         /\ \A c \in Credits!Counter :
              acked'[d][c] = IF answered THEN acked[d][c] + s[c] ELSE acked[d][c]
    <3>1. acked[d] \in Counts /\ acked \in [Domain -> Counts]
      BY DEF HarvestInv
    <3>2. /\ Credits!Plus(acked[d], s) \in Counts
          /\ \A c \in Credits!Counter : Credits!Plus(acked[d], s)[c] = acked[d][c] + s[c]
      BY <3>1, PlusAdds
    <3> QED  BY <2>2, <3>1, <3>2
  <2>11. \A c \in Credits!Counter : s[c] \in Nat /\ Stored(d, c) + s[c] <= known[d][c]
    BY <2>1 DEF HarvestInv, Counts
  <2>12. \A c \in Credits!Counter : acked'[d][c] <= Stored(d, c)' /\ Stored(d, c)' <= known'[d][c]
    BY <1>0, <2>2, <2>8, <2>10, <2>11 DEF HarvestInv
  <2>13. \A e \in Domain \ {d}, c \in Credits!Counter :
           acked'[e][c] <= Stored(e, c)' /\ Stored(e, c)' <= known'[e][c]
    BY <2>2, <2>9, <2>10 DEF HarvestInv
  <2>14. \A v \in sourceSync', c \in Credits!Counter : Stored(v[1], c)' + v[2][c] <= known'[v[1]][c]
    BY <2>2, <2>3, <2>9 DEF HarvestInv
  <2>15. \A e \in Domain, c \in Credits!Counter :
           acked'[e][c] <= Stored(e, c)' /\ Stored(e, c)' <= known'[e][c]
    BY <2>12, <2>13
  <2> QED  BY <2>2, <2>3, <2>7, <2>10, <2>14, <2>15 DEF HarvestInv, Stored
<1>4. CASE Credits!Die
  BY <1>4 DEF Credits!Die, HarvestInv, Stored
<1>5. CASE UNCHANGED Credits!harvestVars
  BY <1>5 DEF Credits!harvestVars, HarvestInv, Stored
<1> QED  BY <1>1, <1>2, <1>3, <1>4, <1>5 DEF Credits!HarvestNext

LEMMA HarvestBegins == Credits!HarvestInit => HarvestInv
<1> SUFFICES ASSUME Credits!HarvestInit PROVE HarvestInv
  OBVIOUS
<1>1. Credits!Zero \in Counts /\ \A c \in Credits!Counter : Credits!Zero[c] = 0
  BY DEF Credits!Zero, Counts
<1> QED  BY <1>1 DEF Credits!HarvestInit, HarvestInv, Stored

LEMMA HarvestIsTrue == HarvestInv => Credits!CreditedOnce
BY DEF HarvestInv, Stored, Credits!CreditedOnce

(* A publisher is credited once for what a crawl counted of it: whatever   *)
(* write failed, lost its answer or died with its crawl, its counters lie  *)
(* between what was acknowledged and what was counted (sourceTracker.ts).  *)
THEOREM PublishersCreditedOnce ==
  Credits!HarvestAssumption => (Credits!HarvestSpec => []Credits!CreditedOnce)
<1> SUFFICES ASSUME Credits!HarvestAssumption
             PROVE  Credits!HarvestSpec => []Credits!CreditedOnce
  OBVIOUS
<1>1. Credits!HarvestInit => HarvestInv
  BY HarvestBegins
<1>2. HarvestInv /\ [Credits!HarvestNext]_(Credits!harvestVars) => HarvestInv'
  BY HarvestStep
<1>3. HarvestInv => Credits!CreditedOnce
  BY HarvestIsTrue
<1> QED  BY <1>1, <1>2, <1>3, PTL DEF Credits!HarvestSpec

-----------------------------------------------------------------------------
(***************************************************************************)
(* Promotions.  What is stored of a name, and what is still to be written, *)
(* is what one crawl told of it; more mentions suffice where fewer did.    *)
(***************************************************************************)
\* Of finitely many there is a greatest.
LEMMA GreatestOne ==
  ASSUME NEW S, IsFiniteSet(S), S # {}, NEW f, \A x \in S : f[x] \in Nat
  PROVE  \E x \in S : \A y \in S : f[y] <= f[x]
<1> DEFINE above(x) == {y \in S : f[x] < f[y]}
           R == StrictSubsetOrdering(S)
           T == {above(x) : x \in S}
<1>1. IsWellFoundedOn(R, SUBSET S)
  BY FS_StrictSubsetOrderingWellFounded, FS_FiniteSubsetsOfFinite
<1>2. T \subseteq SUBSET S /\ T # {}
  OBVIOUS
<1>3. PICK A \in T : \A B \in T : ~(<<B, A>> \in R)
  <2> HIDE DEF R, T
  <2> QED  BY <1>1, <1>2, WFMin
<1>4. PICK x \in S : A = above(x)
  OBVIOUS
<1>5. ASSUME NEW y \in S, ~(f[y] <= f[x]) PROVE FALSE
  <2>1. f[x] < f[y] /\ f[x] \in Nat /\ f[y] \in Nat
    BY <1>5
  <2>2. above(y) \subseteq above(x)
    BY <2>1
  <2>3. y \in above(x) /\ y \notin above(y)
    BY <2>1
  <2>4. <<above(y), above(x)>> \in R
    <3>1. above(y) \in SUBSET S /\ above(x) \in SUBSET S /\ above(y) # above(x)
      BY <2>3
    <3> HIDE DEF above
    <3> QED  BY <2>2, <3>1 DEF StrictSubsetOrdering
  <2>5. above(y) \in T
    OBVIOUS
  <2> QED  BY <1>3, <1>4, <2>4, <2>5
<1> QED  BY <1>5

LEMMA LastPlace ==
  ASSUME NEW n \in Nat, NEW P \in SUBSET (1..n), P # {}
  PROVE  \E k \in P : \A j \in P : j <= k
<1> DEFINE f == [i \in P |-> i]
<1>1. IsFiniteSet(P)
  <2>1. IsFiniteSet(1..n)
    BY FS_Interval
  <2> QED  BY <2>1, FS_Subset
<1>2. \A x \in P : f[x] \in Nat /\ f[x] = x
  OBVIOUS
<1>3. PICK k \in P : \A j \in P : f[j] <= f[k]
  <2> HIDE DEF f
  <2> QED  BY <1>1, <1>2, GreatestOne
<1> QED  BY <1>2, <1>3

\* What one crawl tells of a name, and whether that earns the promotion.
Earned(row, mentions, sources, digest, n) ==
  LET telling == Credits!Telling(digest.stories, n) IN
  /\ mentions = Credits!Cardinality(telling)
  /\ sources = Credits!Cardinality(Credits!Sources(digest.stories, telling))
  /\ row <=> Credits!Suffices(digest.stories, telling)

PromotionInv ==
  /\ DOMAIN discovered = Name
  /\ \A e \in entitySync :
       /\ e[1] \in Name
       /\ \E digest \in Digests :
            Earned(e[2].promoted, e[2].mentions, Credits!Cardinality(e[2].domains), digest, e[1])
  /\ \A n \in Name : discovered[n] # Nothing =>
       \E digest \in Digests :
         Earned(discovered[n].promoted, discovered[n].mentions, discovered[n].sources, digest, n)

LEMMA HarvestSizes == \A S : Credits!Cardinality(S) = Cardinality(S)
BY DEF Credits!Cardinality, Cardinality

\* More mentions suffice where fewer did.
LEMMA MoreSuffices ==
  ASSUME Credits!HarvestAssumption, NEW digest \in Digests,
         NEW more \in SUBSET (DOMAIN digest.stories), NEW fewer \in SUBSET more,
         Credits!Suffices(digest.stories, fewer)
  PROVE  Credits!Suffices(digest.stories, more)
<1> DEFINE s == digest.stories
           by == [i \in more |-> s[i].primary]
<1>1. Len(s) \in Nat /\ DOMAIN s = 1..Len(s)
  <2> DEFINE Told1 == [names : SUBSET Name, primary : Domain, related : SUBSET Domain, first : Domain]
  <2>1. s \in Seq(Told1)
    BY DEF Credits!HarvestAssumption
  <2> HIDE DEF Told1, s
  <2> QED  BY <2>1
<1>2. IsFiniteSet(more) /\ IsFiniteSet(fewer) /\ Cardinality(fewer) <= Cardinality(more)
      /\ Cardinality(more) \in Nat /\ Cardinality(fewer) \in Nat
  <2>1. IsFiniteSet(DOMAIN s)
    BY <1>1, FS_Interval
  <2> QED  BY <2>1, FS_Subset, FS_CardinalityType
<1>3. Credits!Sources(s, fewer) \in SUBSET Credits!Sources(s, more)
  BY DEF Credits!Sources
<1>4. IsFiniteSet(Credits!Sources(s, more))
  <2>1. /\ by \in [more -> Credits!Sources(s, more)]
        /\ \A d \in Credits!Sources(s, more) : \E i \in more : by[i] = d
    BY DEF Credits!Sources
  <2> HIDE DEF by
  <2>2. by \in Surjection(more, Credits!Sources(s, more))
    BY <2>1 DEF Surjection
  <2> QED  BY <1>2, <2>2, FS_Surjection
<1>5. /\ Cardinality(Credits!Sources(s, fewer)) <= Cardinality(Credits!Sources(s, more))
      /\ Cardinality(Credits!Sources(s, fewer)) \in Nat /\ Cardinality(Credits!Sources(s, more)) \in Nat
  BY <1>3, <1>4, FS_Subset, FS_CardinalityType
<1>6. Cardinality(fewer) >= MinMentions /\ Cardinality(Credits!Sources(s, fewer)) >= MinSources
  BY HarvestSizes DEF Credits!Suffices
<1>7. MinMentions \in Nat /\ MinSources \in Nat
  BY DEF Credits!HarvestAssumption
<1>8. Cardinality(more) >= MinMentions /\ Cardinality(Credits!Sources(s, more)) >= MinSources
  BY <1>2, <1>5, <1>6, <1>7
<1> QED  BY <1>8, HarvestSizes DEF Credits!Suffices

\* What a crawl aggregates of a name is promoted exactly when all it tells of it suffices.
LEMMA AggregatedIsEarned ==
  ASSUME Credits!HarvestAssumption, NEW digest \in Digests, NEW n \in Name,
         Credits!Aggregated(digest.stories)[n] # Nothing
  PROVE  LET row == Credits!Aggregated(digest.stories)[n] IN
         Earned(row.promoted, row.mentions, Credits!Cardinality(row.domains), digest, n)
<1> DEFINE s == digest.stories
           tales == Credits!Telling(s, n)
           row == Credits!Aggregated(s)[n]
           upTo(k) == {i \in tales : i <= k}
           early == \E k \in tales : Credits!PromotedAt(s, n, k)
<1>1. /\ tales # {}
      /\ row = [mentions |-> Credits!Cardinality(tales), domains |-> Credits!Sources(s, tales),
                promoted |-> early]
  BY DEF Credits!Aggregated
<1>2. /\ row.mentions = Credits!Cardinality(tales) /\ row.domains = Credits!Sources(s, tales)
      /\ row.promoted = early
  <2> HIDE DEF row, early, tales
  <2> QED  BY <1>1
<1>3. tales \in SUBSET (DOMAIN s)
  BY DEF Credits!Telling
<1>4. ASSUME NEW k \in tales, Credits!PromotedAt(s, n, k) PROVE Credits!Suffices(s, tales)
  <2>1. upTo(k) \in SUBSET tales /\ Credits!Suffices(s, upTo(k))
    BY <1>4 DEF Credits!PromotedAt
  <2> HIDE DEF upTo, tales
  <2> QED  BY <1>3, <2>1, MoreSuffices
<1>5. ASSUME Credits!Suffices(s, tales) PROVE early
  <2>1. Len(s) \in Nat /\ DOMAIN s = 1..Len(s)
    <3> DEFINE Told1 == [names : SUBSET Name, primary : Domain, related : SUBSET Domain, first : Domain]
    <3>1. s \in Seq(Told1)
      BY DEF Credits!HarvestAssumption
    <3> HIDE DEF Told1, s
    <3> QED  BY <3>1
  <2>2. PICK k \in tales : \A j \in tales : j <= k
    BY <1>1, <1>3, <2>1, LastPlace
  <2>3. upTo(k) = tales
    BY <2>2
  <2>4. Credits!PromotedAt(s, n, k)
    BY <1>5, <2>3 DEF Credits!PromotedAt
  <2> QED  BY <2>4
<1>6. row.promoted <=> Credits!Suffices(s, tales)
  <2>1. early => Credits!Suffices(s, tales)
    BY <1>4
  <2>2. Credits!Suffices(s, tales) => early
    BY <1>5
  <2> HIDE DEF early, row, tales
  <2> QED  BY <1>2, <2>1, <2>2
<1> HIDE DEF row, tales
<1>7. Earned(row.promoted, row.mentions, Credits!Cardinality(row.domains), digest, n)
  BY <1>2, <1>6 DEF Earned, tales
<1> QED  BY <1>7 DEF row

LEMMA PromotionStep ==
  ASSUME Credits!HarvestAssumption, PromotionInv, [Credits!HarvestNext]_(Credits!harvestVars)
  PROVE  PromotionInv'
<1>1. ASSUME NEW digest \in Digests, Credits!Count(digest) PROVE PromotionInv'
  <2> DEFINE rows == Credits!Aggregated(digest.stories)
  <2>1. /\ entitySync' = {<<n, rows[n]>> : n \in {m \in Name : rows[m] # Nothing}}
        /\ discovered' = discovered
    BY <1>1 DEF Credits!Count
  <2>2. ASSUME NEW n \in Name, rows[n] # Nothing
        PROVE  Earned(rows[n].promoted, rows[n].mentions, Credits!Cardinality(rows[n].domains), digest, n)
    BY <2>2, AggregatedIsEarned
  <2> HIDE DEF rows
  <2>3. ASSUME NEW e \in entitySync'
        PROVE  /\ e[1] \in Name
               /\ Earned(e[2].promoted, e[2].mentions, Credits!Cardinality(e[2].domains), digest, e[1])
    <3>1. PICK n \in Name : rows[n] # Nothing /\ e = <<n, rows[n]>>
      BY <2>1
    <3>2. e[1] = n /\ e[2] = rows[n]
      BY <3>1
    <3> QED  BY <2>2, <3>1, <3>2
  <2> QED  BY <2>1, <2>3 DEF PromotionInv
<1>2. ASSUME NEW e \in entitySync, NEW applied \in BOOLEAN, Credits!WriteEntity(e, applied)
      PROVE  PromotionInv'
  <2> DEFINE row == [mentions |-> e[2].mentions, sources |-> Credits!Cardinality(e[2].domains),
                     promoted |-> e[2].promoted]
  <2>1. /\ entitySync' = entitySync \ {e}
        /\ discovered' = IF applied THEN [discovered EXCEPT ![e[1]] = row] ELSE discovered
    BY <1>2 DEF Credits!WriteEntity
  <2>2. PICK digest \in Digests :
          Earned(e[2].promoted, e[2].mentions, Credits!Cardinality(e[2].domains), digest, e[1])
    BY DEF PromotionInv
  <2>3. Earned(row.promoted, row.mentions, row.sources, digest, e[1]) /\ e[1] \in Name
    BY <2>2 DEF PromotionInv
  <2> HIDE DEF row
  <2>4. DOMAIN discovered' = Name /\ \A n \in Name : \/ discovered'[n] = discovered[n]
                                                     \/ n = e[1] /\ discovered'[n] = row
    BY <2>1, <2>3 DEF PromotionInv
  <2>5. \A n \in Name : discovered'[n] # Nothing =>
          \E d \in Digests : Earned(discovered'[n].promoted, discovered'[n].mentions, discovered'[n].sources, d, n)
    <3> SUFFICES ASSUME NEW n \in Name, discovered'[n] # Nothing
                 PROVE  \E d \in Digests :
                          Earned(discovered'[n].promoted, discovered'[n].mentions, discovered'[n].sources, d, n)
      OBVIOUS
    <3>1. CASE discovered'[n] = discovered[n]
      BY <3>1 DEF PromotionInv
    <3>2. CASE n = e[1] /\ discovered'[n] = row
      BY <2>3, <3>2
    <3> QED  BY <2>4, <3>1, <3>2
  <2> QED  BY <2>1, <2>4, <2>5 DEF PromotionInv
<1>3. CASE UNCHANGED <<discovered, entitySync>> \/ (UNCHANGED discovered /\ entitySync' = {})
  BY <1>3 DEF PromotionInv
<1> QED  BY <1>1, <1>2, <1>3 DEF Credits!HarvestNext, Credits!WriteSource, Credits!Die, Credits!harvestVars

LEMMA PromotionsAreEarned == PromotionInv => Credits!PromotionIsEarned
<1> SUFFICES ASSUME PromotionInv, NEW n \in Name, discovered[n] # Nothing
             PROVE  \E digest \in Digests :
      LET telling == {i \in DOMAIN digest.stories : n \in digest.stories[i].names}
          from == {digest.stories[i].primary : i \in telling} IN
      /\ discovered[n].mentions = Credits!Cardinality(telling)
      /\ discovered[n].sources = Credits!Cardinality(from)
      /\ discovered[n].promoted
           <=> Credits!Cardinality(telling) >= MinMentions /\ Credits!Cardinality(from) >= MinSources
  BY DEF Credits!PromotionIsEarned
<1>1. PICK digest \in Digests :
        Earned(discovered[n].promoted, discovered[n].mentions, discovered[n].sources, digest, n)
  BY DEF PromotionInv
<1> QED  BY <1>1 DEF Earned, Credits!Suffices, Credits!Telling, Credits!Sources

LEMMA PromotionBegins == Credits!HarvestInit => PromotionInv
BY DEF Credits!HarvestInit, PromotionInv

(* A stored promotion was earned by what one crawl told of the name, in    *)
(* whatever order its stories came and whichever write was lost            *)
(* (entityHarvester.ts:95-127).                                            *)
THEOREM StoredPromotionsAreEarned ==
  Credits!HarvestAssumption => (Credits!HarvestSpec => []Credits!PromotionIsEarned)
<1> SUFFICES ASSUME Credits!HarvestAssumption
             PROVE  Credits!HarvestSpec => []Credits!PromotionIsEarned
  OBVIOUS
<1>1. PromotionInv /\ [Credits!HarvestNext]_(Credits!harvestVars) => PromotionInv'
  BY PromotionStep
<1> QED  BY <1>1, PromotionBegins, PromotionsAreEarned, PTL DEF Credits!HarvestSpec

-----------------------------------------------------------------------------
(***************************************************************************)
(* The homepage.  What a filter leaves of a list stands in its order, each *)
(* element once; the stories of a crawl are distinct from the moment they  *)
(* are grouped, and neither the snapshot's marks nor curators' rows put    *)
(* one there twice.                                                        *)
(***************************************************************************)
LEMMA HomepageSizes ==
  \A S : Homepage!Cardinality(S) = Cardinality(S)
BY DEF Homepage!Cardinality, Cardinality

\* The places of a filter are taken in order, each once.
LEMMA NthPlace ==
  ASSUME NEW n \in Nat, NEW P \in SUBSET (1..n), NEW k \in 1..Cardinality(P)
  PROVE  Homepage!Nth(P, k) \in P /\ Cardinality({j \in P : j <= Homepage!Nth(P, k)}) = k
<1> DEFINE upTo(i) == {j \in P : j <= i}
           c == Cardinality(P)
           rank == [i \in P |-> Cardinality(upTo(i))]
<1>1. IsFiniteSet(P) /\ c \in Nat
  <2>1. IsFiniteSet(1..n)
    BY FS_Interval
  <2> QED  BY <2>1, FS_Subset, FS_CardinalityType
<1>2. ASSUME NEW i \in P PROVE Cardinality(upTo(i)) \in 1..c /\ IsFiniteSet(upTo(i))
  <2>1. upTo(i) \in SUBSET P /\ i \in upTo(i)
    OBVIOUS
  <2> HIDE DEF upTo
  <2>2. IsFiniteSet(upTo(i)) /\ Cardinality(upTo(i)) <= c /\ Cardinality(upTo(i)) \in Nat
    BY <1>1, <2>1, FS_Subset, FS_CardinalityType
  <2>3. Cardinality(upTo(i)) # 0
    BY <2>1, <2>2, FS_EmptySet
  <2> QED  BY <1>1, <2>2, <2>3
<1>3. ASSUME NEW i \in P, NEW j \in P, i < j PROVE Cardinality(upTo(i)) # Cardinality(upTo(j))
  <2>1. upTo(i) \in SUBSET upTo(j) /\ j \in upTo(j) /\ j \notin upTo(i)
    <3>1. i \in Int /\ j \in Int /\ \A x \in P : x \in Int
      OBVIOUS
    <3>2. \A x \in upTo(i) : x \in upTo(j)
      BY <1>3, <3>1
    <3>3. j \in upTo(j) /\ j \notin upTo(i)
      BY <1>3, <3>1
    <3> HIDE DEF upTo
    <3> QED  BY <3>2, <3>3
  <2>2. IsFiniteSet(upTo(j))
    BY <1>2
  <2> HIDE DEF upTo
  <2> QED  BY <2>1, <2>2, FS_Subset
<1>4. rank \in Injection(P, 1..c)
  <2>1. \A i \in P : rank[i] = Cardinality(upTo(i))
    OBVIOUS
  <2>2. rank \in [P -> 1..c]
    <3> HIDE DEF upTo, c
    <3> QED  BY <1>2
  <2>3. ASSUME NEW i \in P, NEW j \in P, rank[i] = rank[j] PROVE i = j
    <3>1. i \in Nat /\ j \in Nat
      OBVIOUS
    <3>2. Cardinality(upTo(i)) = Cardinality(upTo(j))
      BY <2>1, <2>3
    <3> HIDE DEF upTo, rank
    <3> QED  BY <1>3, <3>1, <3>2
  <2> HIDE DEF rank, c, upTo
  <2> QED  BY <2>2, <2>3 DEF Injection, IsInjective
<1>5. IsFiniteSet(1..c) /\ Cardinality(1..c) = c
  BY <1>1, FS_Interval
<1>6. rank \in Surjection(P, 1..c)
  <2> HIDE DEF rank
  <2>1. Cardinality(P) = Cardinality(1..c)
    BY <1>5
  <2> QED  BY <1>4, <1>5, <2>1, FS_Injection
<1>7. \E i \in P : rank[i] = k
  <2> HIDE DEF rank
  <2> QED  BY <1>6 DEF Surjection
<1>8. \E i \in P : Homepage!Cardinality({j \in P : j <= i}) = k
  BY <1>7, HomepageSizes
<1>9. /\ Homepage!Nth(P, k) \in P
      /\ Homepage!Cardinality({j \in P : j <= Homepage!Nth(P, k)}) = k
  BY <1>8 DEF Homepage!Nth
<1> QED  BY <1>9, HomepageSizes

LEMMA FilteredSeq ==
  ASSUME NEW T, NEW s \in Seq(T), NEW P \in SUBSET (DOMAIN s)
  PROVE  LET left == Homepage!At(s, P) IN
         /\ left \in Seq(T)
         /\ \A k \in DOMAIN left : Homepage!Nth(P, k) \in P /\ left[k] = s[Homepage!Nth(P, k)]
         /\ \A k, l \in DOMAIN left : Homepage!Nth(P, k) = Homepage!Nth(P, l) => k = l
<1> DEFINE left == Homepage!At(s, P)
           c == Cardinality(P)
<1>1. Len(s) \in Nat /\ DOMAIN s = 1..Len(s)
  OBVIOUS
<1>2. IsFiniteSet(P) /\ c \in Nat
  <2>1. IsFiniteSet(1..Len(s))
    BY <1>1, FS_Interval
  <2> QED  BY <1>1, <2>1, FS_Subset, FS_CardinalityType
<1>3. left = [k \in 1..c |-> s[Homepage!Nth(P, k)]]
  BY HomepageSizes DEF Homepage!At
<1>4. \A k \in 1..c : Homepage!Nth(P, k) \in P /\ Cardinality({j \in P : j <= Homepage!Nth(P, k)}) = k
  BY <1>1, NthPlace
<1>5. \A k \in 1..c : s[Homepage!Nth(P, k)] \in T
  <2>1. \A i \in DOMAIN s : s[i] \in T
    OBVIOUS
  <2> QED  BY <1>4, <2>1
<1> HIDE DEF left, c
<1>6. DOMAIN left = 1..c /\ left \in [1..c -> T]
  BY <1>3, <1>5
<1>7. left \in Seq(T)
  BY <1>2, <1>6
<1>8. ASSUME NEW k \in DOMAIN left, NEW l \in DOMAIN left, Homepage!Nth(P, k) = Homepage!Nth(P, l)
      PROVE  k = l
  <2>1. /\ Cardinality({j \in P : j <= Homepage!Nth(P, k)}) = k
        /\ Cardinality({j \in P : j <= Homepage!Nth(P, l)}) = l
    BY <1>4, <1>6
  <2> QED  BY <1>8, <2>1
<1>9. \A k \in DOMAIN left : Homepage!Nth(P, k) \in P /\ left[k] = s[Homepage!Nth(P, k)]
  BY <1>3, <1>4, <1>6
<1> QED  BY <1>7, <1>8, <1>9 DEF left

Tale == [id : Report, mark : {"none", "promote", "ignore"}, briefed : BOOLEAN]
Distinct(s) == \A i, j \in DOMAIN s : s[i].id = s[j].id => i = j

CrawlTypes ==
  /\ wire \in Seq(Report) /\ fetched \in 0..Len(Feeds)
  /\ stories \in Seq(Tale) /\ homepage \in Seq(Tale)
  /\ decided \in [Report -> {"none", "promote", "ignore", "demote", "delete"}]

\* Each article placed so far is in one group, and the groups hold no other.
Grouped ==
  /\ \A i, j \in DOMAIN wire : wire[i] = wire[j] => i = j
  /\ placed \in 0..Len(wire) /\ groups \in Seq(SUBSET Report)
  /\ \A g \in DOMAIN groups : groups[g] \subseteq {wire[k] : k \in 1..placed}
  /\ \A k \in 1..placed : \E g \in DOMAIN groups :
       \A h \in DOMAIN groups : wire[k] \in groups[h] <=> h = g

Spared(s) == \A i \in DOMAIN s : decided[s[i].id] # "delete"

CrawlInv ==
  /\ CrawlTypes /\ Distinct(stories) /\ Distinct(homepage)
  /\ stage = "group" => Grouped
  /\ rowsRead => stage \in {"brief", "published"} /\ Spared(stories)
  /\ stage = "published" =>
       /\ \A i \in DOMAIN homepage : homepage[i].briefed
       /\ rowsRead => Spared(homepage)
  /\ Homepage!EveryArticleOnce

\* As many ids as stories.
LEMMA DistinctIds ==
  ASSUME NEW s \in Seq(Tale), Distinct(s)
  PROVE  Homepage!Cardinality(Homepage!Ids(s)) = Len(s)
<1> DEFINE f == [i \in 1..Len(s) |-> s[i].id]
           ids == Homepage!Ids(s)
<1>1. Len(s) \in Nat /\ DOMAIN s = 1..Len(s)
  OBVIOUS
<1>2. ids = {s[i].id : i \in 1..Len(s)}
  BY <1>1 DEF Homepage!Ids
<1>3. f \in [1..Len(s) -> ids] /\ \A x \in ids : \E i \in 1..Len(s) : f[i] = x
  BY <1>2
<1>4. \A i, j \in 1..Len(s) : f[i] = f[j] => i = j
  BY <1>1 DEF Distinct
<1> HIDE DEF f, ids
<1>5. f \in Bijection(1..Len(s), ids)
  BY <1>3, <1>4 DEF Bijection, Injection, Surjection, IsInjective
<1>6. Cardinality(ids) = Len(s)
  BY <1>1, <1>5, FS_CountingElements DEF ExistsBijection
<1> QED  BY <1>6, HomepageSizes DEF ids

\* A filter leaves some of the stories, each once.
LEMMA FilteredTales ==
  ASSUME NEW s \in Seq(Tale), Distinct(s), NEW P \in SUBSET (DOMAIN s)
  PROVE  /\ Homepage!At(s, P) \in Seq(Tale) /\ Distinct(Homepage!At(s, P))
         /\ \A k \in DOMAIN Homepage!At(s, P) :
              \E i \in P : Homepage!At(s, P)[k] = s[i]
<1> DEFINE left == Homepage!At(s, P)
<1>1. /\ left \in Seq(Tale)
      /\ \A k \in DOMAIN left : Homepage!Nth(P, k) \in P /\ left[k] = s[Homepage!Nth(P, k)]
      /\ \A k, l \in DOMAIN left : Homepage!Nth(P, k) = Homepage!Nth(P, l) => k = l
  BY FilteredSeq
<1> HIDE DEF left
<1>2. ASSUME NEW k \in DOMAIN left, NEW l \in DOMAIN left, left[k].id = left[l].id
      PROVE  k = l
  <2>1. s[Homepage!Nth(P, k)].id = s[Homepage!Nth(P, l)].id
    BY <1>1, <1>2
  <2>2. Homepage!Nth(P, k) = Homepage!Nth(P, l)
    BY <1>1, <2>1 DEF Distinct
  <2> QED  BY <1>1, <2>2
<1>3. Distinct(left)
  BY <1>2 DEF Distinct
<1>4. \A k \in DOMAIN left : \E i \in P : left[k] = s[i]
  BY <1>1
<1> QED  BY <1>1, <1>3, <1>4 DEF left

-----------------------------------------------------------------------------
LEMMA FetchStep ==
  ASSUME Homepage!CrawlAssumption, CrawlInv, Homepage!Fetch PROVE CrawlInv'
<1>1. PICK answers \in BOOLEAN : wire' = wire \o Homepage!Answer(Feeds[fetched + 1], answers)
  BY DEF Homepage!Fetch
<1>2. fetched + 1 \in 1..Len(Feeds) /\ fetched' \in 0..Len(Feeds)
  BY DEF Homepage!Fetch, CrawlInv, CrawlTypes, Homepage!CrawlAssumption
<1>3. Homepage!Answer(Feeds[fetched + 1], answers) \in Seq(Report)
  BY <1>2 DEF Homepage!Answer, Homepage!CrawlAssumption
<1>4. wire' \in Seq(Report)
  BY <1>1, <1>3 DEF CrawlInv, CrawlTypes
<1> QED  BY <1>2, <1>4 DEF Homepage!Fetch, CrawlInv, CrawlTypes, Spared, Distinct, Homepage!EveryArticleOnce

LEMMA GatherStep ==
  ASSUME CrawlInv, Homepage!Gather PROVE CrawlInv'
<1> DEFINE fresh(old) == Homepage!Fresh(old)
           P(s) == {i \in DOMAIN s : \A j \in DOMAIN s : j < i => s[j] # s[i]}
<1>1. PICK old \in Ages : wire' = Homepage!Unique(fresh(old))
  BY DEF Homepage!Gather
<1>2. fresh(old) \in Seq(Report)
  <2>1. wire \in Seq(Report) /\ {i \in DOMAIN wire : wire[i] \notin old} \in SUBSET (DOMAIN wire)
    BY DEF CrawlInv, CrawlTypes
  <2> QED  BY <2>1, FilteredSeq DEF Homepage!Fresh
<1> DEFINE s == fresh(old)
<1>3. wire' = Homepage!At(s, P(s))
  BY <1>1 DEF Homepage!Unique
<1> HIDE DEF fresh
<1>4. s \in Seq(Report) /\ P(s) \in SUBSET (DOMAIN s)
  BY <1>2
<1>5. /\ wire' \in Seq(Report)
      /\ \A k \in DOMAIN wire' : Homepage!Nth(P(s), k) \in P(s) /\ wire'[k] = s[Homepage!Nth(P(s), k)]
      /\ \A k, l \in DOMAIN wire' : Homepage!Nth(P(s), k) = Homepage!Nth(P(s), l) => k = l
  <2> HIDE DEF s, P
  <2> QED  BY <1>3, <1>4, FilteredSeq
<1>6. \A i, j \in P(s) : s[i] = s[j] => i = j
  <2>1. DOMAIN s \subseteq Int
    BY <1>4
  <2> HIDE DEF s
  <2> QED  BY <2>1
<1> HIDE DEF s, P
<1>7. \A i, j \in DOMAIN wire' : wire'[i] = wire'[j] => i = j
  BY <1>5, <1>6
<1>8. /\ groups' = <<>> /\ placed' = 0 /\ stage = "fetch" /\ stage' = "group"
      /\ UNCHANGED <<fetched, stories, decided, rowsRead, homepage>>
  BY DEF Homepage!Gather
<1>9. Grouped'
  <2>1. Len(wire') \in Nat
    BY <1>5
  <2> QED  BY <1>7, <1>8, <2>1 DEF Grouped
<1> QED  BY <1>5, <1>8, <1>9 DEF CrawlInv, CrawlTypes, Spared, Distinct, Homepage!EveryArticleOnce

LEMMA GroupStep ==
  ASSUME CrawlInv, Homepage!Group PROVE CrawlInv'
<1> DEFINE x == wire[placed + 1]
<1>1. /\ placed' = placed + 1 /\ placed < Len(wire) /\ stage = "group"
      /\ UNCHANGED <<stage, fetched, wire, stories, decided, rowsRead, homepage>>
      /\ groups' = IF Homepage!Joined(x) = {} THEN Append(groups, {x})
                   ELSE [i \in DOMAIN groups |-> IF i \in Homepage!Joined(x) THEN groups[i] \cup {x}
                                                 ELSE groups[i]]
  BY DEF Homepage!Group
<1>2. Grouped /\ Len(wire) \in Nat /\ DOMAIN wire = 1..Len(wire)
  BY <1>1 DEF CrawlInv, CrawlTypes
<1>3. placed \in Nat /\ placed + 1 \in DOMAIN wire /\ x \in Report
  BY <1>1, <1>2 DEF Grouped, CrawlInv, CrawlTypes
<1>4. \A k \in 1..placed : wire[k] # x /\ k \in DOMAIN wire
  <2>1. \A k \in 1..placed : k \in DOMAIN wire /\ k # placed + 1
    BY <1>1, <1>2, <1>3
  <2>2. \A i, j \in DOMAIN wire : wire[i] = wire[j] => i = j
    BY <1>2 DEF Grouped
  <2> QED  BY <1>3, <2>1, <2>2
<1> HIDE DEF x
<1>5. \A g \in DOMAIN groups : x \notin groups[g]
  BY <1>2, <1>4 DEF Grouped
<1>6. {wire[k] : k \in 1..(placed + 1)} = {wire[k] : k \in 1..placed} \cup {x}
  <2>1. 1..(placed + 1) = (1..placed) \cup {placed + 1}
    BY <1>3
  <2> QED  BY <2>1 DEF x
<1>7. \E g \in DOMAIN groups' :
        /\ x \in groups'[g]
        /\ \A h \in DOMAIN groups' \ {g} : h \in DOMAIN groups /\ groups'[h] = groups[h]
        /\ groups'[g] \ {x} \subseteq {wire[k] : k \in 1..placed}
        /\ g \in DOMAIN groups => groups'[g] = groups[g] \cup {x}
        /\ g \notin DOMAIN groups => groups'[g] = {x}
        /\ groups' \in Seq(SUBSET Report)
        /\ DOMAIN groups \subseteq DOMAIN groups'
  <2>0. groups \in Seq(SUBSET Report)
    BY <1>2 DEF Grouped
  <2>1. CASE Homepage!Joined(x) = {}
    <3>1. groups' = Append(groups, {x}) /\ {x} \in SUBSET Report
      BY <1>1, <1>3, <2>1
    <3>2. /\ groups' \in Seq(SUBSET Report) /\ Len(groups) \in Nat
          /\ DOMAIN groups' = 1..(Len(groups) + 1) /\ DOMAIN groups = 1..Len(groups)
          /\ groups'[Len(groups) + 1] = {x}
          /\ \A h \in 1..Len(groups) : groups'[h] = groups[h]
      BY <2>0, <3>1
    <3>3. /\ Len(groups) + 1 \in DOMAIN groups' /\ Len(groups) + 1 \notin DOMAIN groups
          /\ \A h \in DOMAIN groups' \ {Len(groups) + 1} : h \in DOMAIN groups /\ groups'[h] = groups[h]
          /\ DOMAIN groups \subseteq DOMAIN groups'
      BY <3>2
    <3> QED  BY <3>2, <3>3
  <2>2. CASE Homepage!Joined(x) # {}
    <3>1. PICK g : g \in Homepage!Joined(x)
      BY <2>2
    <3>2. g \in DOMAIN groups
      BY <3>1 DEF Homepage!Joined, Homepage!Fits
    <3>3. \A h \in Homepage!Joined(x) : h = g
      <4>1. DOMAIN groups \subseteq Int
        BY <2>0
      <4> QED  BY <3>1, <4>1 DEF Homepage!Joined, Homepage!Fits
    <3>4. groups' = [i \in DOMAIN groups |-> IF i = g THEN groups[i] \cup {x} ELSE groups[i]]
      BY <1>1, <2>2, <3>1, <3>3
    <3>5. groups' \in Seq(SUBSET Report)
      BY <1>3, <2>0, <3>4
    <3>6. groups[g] \subseteq {wire[k] : k \in 1..placed}
      BY <1>2, <3>2 DEF Grouped
    <3>7. groups'[g] = groups[g] \cup {x} /\ DOMAIN groups' = DOMAIN groups
      BY <3>2, <3>4
    <3>8. \A h \in DOMAIN groups' \ {g} : groups'[h] = groups[h]
      BY <3>4
    <3> QED  BY <3>2, <3>5, <3>6, <3>7, <3>8
  <2> QED  BY <2>1, <2>2
<1>8. PICK g \in DOMAIN groups' :
        /\ x \in groups'[g]
        /\ \A h \in DOMAIN groups' \ {g} : h \in DOMAIN groups /\ groups'[h] = groups[h]
        /\ groups'[g] \ {x} \subseteq {wire[k] : k \in 1..placed}
        /\ g \in DOMAIN groups => groups'[g] = groups[g] \cup {x}
        /\ g \notin DOMAIN groups => groups'[g] = {x}
        /\ groups' \in Seq(SUBSET Report)
        /\ DOMAIN groups \subseteq DOMAIN groups'
  BY <1>7
<1>9. \A h \in DOMAIN groups' : groups'[h] \subseteq {wire[k] : k \in 1..(placed + 1)}
  <2>1. \A h \in DOMAIN groups : groups[h] \subseteq {wire[k] : k \in 1..placed}
    BY <1>2 DEF Grouped
  <2> QED  BY <1>6, <1>8, <2>1
<1>10. ASSUME NEW k \in 1..placed
       PROVE  \E h \in DOMAIN groups' : \A i \in DOMAIN groups' : wire[k] \in groups'[i] <=> i = h
  <2>1. PICK h \in DOMAIN groups : \A i \in DOMAIN groups : wire[k] \in groups[i] <=> i = h
    BY <1>2 DEF Grouped
  <2>2. h \in DOMAIN groups' /\ wire[k] # x
    BY <1>4, <1>8, <2>1
  <2>3. \A i \in DOMAIN groups' : wire[k] \in groups'[i] <=> i = h
    BY <1>8, <2>1, <2>2
  <2> QED  BY <2>2, <2>3
<1>11. \A h \in DOMAIN groups' : x \in groups'[h] <=> h = g
  BY <1>5, <1>8
<1>12. Grouped'
  <2>1. \A k \in 1..(placed + 1) : k \in 1..placed \/ wire[k] = x
    BY <1>3 DEF x
  <2>2. \A k \in 1..(placed + 1) : \E h \in DOMAIN groups' :
           \A i \in DOMAIN groups' : wire[k] \in groups'[i] <=> i = h
    BY <1>10, <1>11, <2>1
  <2>3. placed + 1 \in 0..Len(wire)
    BY <1>1, <1>2, <1>3
  <2>4. \A i, j \in DOMAIN wire : wire[i] = wire[j] => i = j
    BY <1>2 DEF Grouped
  <2>5. wire' = wire /\ placed' = placed + 1
    BY <1>1
  <2>6. /\ \A i, j \in DOMAIN wire' : wire'[i] = wire'[j] => i = j
        /\ placed' \in 0..Len(wire') /\ groups' \in Seq(SUBSET Report)
    BY <1>8, <2>3, <2>4, <2>5
  <2>7. /\ \A h \in DOMAIN groups' : groups'[h] \subseteq {wire'[k] : k \in 1..placed'}
        /\ \A k \in 1..placed' : \E h \in DOMAIN groups' :
             \A i \in DOMAIN groups' : wire'[k] \in groups'[i] <=> i = h
    BY <1>9, <2>2, <2>5
  <2> QED  BY <2>6, <2>7 DEF Grouped
<1> QED  BY <1>1, <1>12 DEF CrawlInv, CrawlTypes, Spared, Distinct, Homepage!EveryArticleOnce

\* The primary of a group that has reports is one of them.
LEMMA PrimaryIsReport ==
  ASSUME Homepage!CrawlAssumption, CrawlInv, stage = "group", placed = Len(wire),
         NEW g \in Homepage!Covered
  PROVE  Homepage!Primary(groups[g]) \in Homepage!Reports(groups[g])
<1> DEFINE told1 == {wire[k] : k \in 1..placed}
           S == Homepage!Reports(groups[g])
           f == [k \in 1..placed |-> wire[k]]
<1>1. Grouped /\ g \in DOMAIN groups /\ S # {}
  BY DEF CrawlInv, Homepage!Covered
<1>2. IsFiniteSet(told1)
  <2>1. placed \in Nat /\ IsFiniteSet(1..placed)
    <3>1. placed \in Nat
      BY DEF CrawlInv, CrawlTypes
    <3> QED  BY <3>1, FS_Interval
  <2>2. f \in [1..placed -> told1] /\ \A x \in told1 : \E k \in 1..placed : f[k] = x
    OBVIOUS
  <2> HIDE DEF f, told1
  <2>3. f \in Surjection(1..placed, told1)
    BY <2>2 DEF Surjection
  <2> QED  BY <2>1, <2>3, FS_Surjection
<1>3. S \in SUBSET told1 /\ S \subseteq Report
  <2>1. groups[g] \subseteq told1
    BY <1>1 DEF Grouped
  <2>2. groups[g] \in SUBSET Report
    BY <1>1 DEF Grouped
  <2> QED  BY <2>1, <2>2 DEF Homepage!Reports
<1> HIDE DEF told1, S
<1>4. IsFiniteSet(S)
  BY <1>2, <1>3, FS_Subset
<1>5. \A x \in S : Authority[x] \in Nat
  BY <1>3 DEF Homepage!CrawlAssumption
<1>6. \E x \in S : \A y \in S : Authority[y] <= Authority[x]
  BY <1>1, <1>4, <1>5, GreatestOne
<1> QED  BY <1>6 DEF S, Homepage!Primary

LEMMA RankStep ==
  ASSUME Homepage!CrawlAssumption, CrawlInv, Homepage!Rank PROVE CrawlInv'
<1> DEFINE C == Homepage!Covered
           P(g) == Homepage!Primary(groups[g])
           n == Cardinality(C)
           tale(g) == [id |-> P(g), mark |-> "none", briefed |-> FALSE]
<1>1. /\ stage = "group" /\ placed = Len(wire) /\ stage' = "lock"
      /\ UNCHANGED <<fetched, wire, groups, decided, rowsRead, homepage>>
  BY DEF Homepage!Rank
<1>2. PICK order \in Homepage!SetToSeqs(C) : stories' = [i \in DOMAIN order |-> tale(order[i])]
  BY DEF Homepage!Rank
<1>3. Grouped /\ groups \in Seq(SUBSET Report) /\ wire \in Seq(Report)
  BY <1>1 DEF CrawlInv, CrawlTypes, Grouped
<1>4. C \subseteq DOMAIN groups /\ IsFiniteSet(C) /\ n \in Nat
  <2>1. C \subseteq DOMAIN groups /\ DOMAIN groups = 1..Len(groups) /\ Len(groups) \in Nat
    BY <1>3 DEF Homepage!Covered
  <2>2. IsFiniteSet(DOMAIN groups)
    BY <2>1, FS_Interval
  <2> QED  BY <2>1, <2>2, FS_Subset, FS_CardinalityType
<1>5. /\ order \in [1..n -> C]
      /\ \A i, j \in 1..n : i # j => order[i] # order[j]
  BY HomepageSizes DEF Homepage!SetToSeqs
<1>6. order \in Injection(1..n, C)
  <2> HIDE DEF n, C
  <2> QED  BY <1>5 DEF Injection, IsInjective
<1>7. order \in Surjection(1..n, C)
  <2>1. Cardinality(1..n) = n
    BY <1>4, FS_Interval
  <2> QED  BY <1>4, <1>6, <2>1, FS_Injection
<1>8. \A g \in C : \E i \in 1..n : order[i] = g
  <2> HIDE DEF C, n
  <2> QED  BY <1>7 DEF Surjection
<1>9. \A g \in C : P(g) \in groups[g] /\ P(g) \notin Post /\ P(g) \in Report
  <2> SUFFICES ASSUME NEW g \in C PROVE P(g) \in groups[g] /\ P(g) \notin Post /\ P(g) \in Report
    OBVIOUS
  <2>1. P(g) \in groups[g] \ Post
    BY <1>1, PrimaryIsReport DEF Homepage!Reports
  <2>2. groups[g] \in SUBSET Report
    BY <1>3, <1>4
  <2> QED  BY <2>1, <2>2
<1>10. \A x \in Homepage!ToSet(wire) : \E g \in DOMAIN groups :
          \A h \in DOMAIN groups : x \in groups[h] <=> h = g
  <2> SUFFICES ASSUME NEW k \in DOMAIN wire
               PROVE  \E g \in DOMAIN groups : \A h \in DOMAIN groups : wire[k] \in groups[h] <=> h = g
    BY DEF Homepage!ToSet
  <2>1. k \in 1..placed
    BY <1>1, <1>3
  <2> QED  BY <1>3, <2>1 DEF Grouped
<1>11. \A g, h \in C : P(g) = P(h) => g = h
  <2> SUFFICES ASSUME NEW g \in C, NEW h \in C, P(g) = P(h) PROVE g = h
    OBVIOUS
  <2>1. P(g) \in groups[g] /\ P(g) \in groups[h]
    BY <1>9
  <2>2. P(g) \in Homepage!ToSet(wire)
    <3>1. PICK k \in 1..placed : P(g) = wire[k]
      BY <1>3, <1>4, <2>1 DEF Grouped
    <3>2. k \in DOMAIN wire
      BY <1>1, <1>3
    <3> QED  BY <3>1, <3>2 DEF Homepage!ToSet
  <2> HIDE DEF P, C
  <2> QED  BY <1>4, <1>10, <2>1, <2>2
<1>12. /\ DOMAIN stories' = 1..n
       /\ \A i \in 1..n : order[i] \in C /\ stories'[i] = tale(order[i])
  BY <1>2, <1>5
<1>13. \A g \in C : tale(g) \in Tale /\ tale(g).id = P(g)
  <2>1. "none" \in {"none", "promote", "ignore"}
    OBVIOUS
  <2> HIDE DEF P, C
  <2> QED  BY <1>9, <2>1 DEF Tale
<1> HIDE DEF tale, C, P, n
<1>14. stories' \in Seq(Tale) /\ Distinct(stories')
  <2>1. stories' \in [1..n -> Tale]
    BY <1>2, <1>5, <1>12, <1>13
  <2>2. \A i, j \in 1..n : stories'[i].id = stories'[j].id => i = j
    BY <1>5, <1>11, <1>12, <1>13
  <2> QED  BY <1>4, <1>12, <2>1, <2>2 DEF Distinct
<1>15. Homepage!Ids(stories') = {P(g) : g \in C}
  <2>1. Homepage!Ids(stories') = {stories'[i].id : i \in 1..n}
    BY <1>12 DEF Homepage!Ids
  <2> QED  BY <1>8, <1>12, <1>13, <2>1
<1>16. Homepage!EveryArticleOnce'
  <2>1. \A x \in Homepage!ToSet(wire) : Homepage!Cardinality({i \in DOMAIN groups : x \in groups[i]}) = 1
    <3> SUFFICES ASSUME NEW x \in Homepage!ToSet(wire)
                 PROVE  Homepage!Cardinality({i \in DOMAIN groups : x \in groups[i]}) = 1
      OBVIOUS
    <3>1. PICK g \in DOMAIN groups : \A h \in DOMAIN groups : x \in groups[h] <=> h = g
      BY <1>10
    <3>2. {i \in DOMAIN groups : x \in groups[i]} = {g}
      BY <3>1
    <3> QED  BY <3>2, FS_Singleton, HomepageSizes
  <2>2. Homepage!Cardinality(Homepage!Ids(stories')) = Len(stories')
    BY <1>14, DistinctIds
  <2>3. Homepage!Ids(stories') \cap Post = {}
    BY <1>9, <1>15
  <2>4. Homepage!Ids(stories') = {Homepage!Primary(groups[i]) : i \in Homepage!Covered}
    BY <1>15 DEF P, C
  <2>5. Homepage!Covered' = Homepage!Covered /\ wire' = wire /\ groups' = groups
    BY <1>1 DEF Homepage!Covered
  <2> QED  BY <2>1, <2>2, <2>3, <2>4, <2>5 DEF Homepage!EveryArticleOnce
<1>17. rowsRead' = FALSE \/ ~rowsRead'
  BY <1>1 DEF CrawlInv
<1> QED  BY <1>1, <1>14, <1>16, <1>17 DEF CrawlInv, CrawlTypes, Spared, Distinct

Apart(s, t) == \A i \in DOMAIN s, j \in DOMAIN t : s[i].id # t[j].id

\* Stories of two lists that share none, one list after the other.
LEMMA JoinedTales ==
  ASSUME NEW s \in Seq(Tale), NEW t \in Seq(Tale), Distinct(s), Distinct(t), Apart(s, t)
  PROVE  /\ s \o t \in Seq(Tale) /\ Distinct(s \o t)
         /\ \A k \in DOMAIN (s \o t) : \/ \E i \in DOMAIN s : (s \o t)[k] = s[i]
                                       \/ \E j \in DOMAIN t : (s \o t)[k] = t[j]
<1> DEFINE u == s \o t
<1>1. /\ u \in Seq(Tale) /\ Len(s) \in Nat /\ Len(t) \in Nat
      /\ DOMAIN s = 1..Len(s) /\ DOMAIN t = 1..Len(t) /\ DOMAIN u = 1..(Len(s) + Len(t))
  OBVIOUS
<1>2. /\ \A k \in DOMAIN u : k <= Len(s) => k \in DOMAIN s /\ u[k] = s[k]
      /\ \A k \in DOMAIN u : k > Len(s) => k - Len(s) \in DOMAIN t /\ u[k] = t[k - Len(s)]
  OBVIOUS
<1> HIDE DEF u
<1>3. ASSUME NEW k \in DOMAIN u, NEW l \in DOMAIN u, u[k].id = u[l].id PROVE k = l
  <2>0. k \in Nat /\ l \in Nat
    BY <1>1
  <2>1. CASE k <= Len(s) /\ l <= Len(s)
    <3>1. k \in DOMAIN s /\ l \in DOMAIN s /\ s[k].id = s[l].id
      BY <1>2, <1>3, <2>1
    <3> QED  BY <3>1 DEF Distinct
  <2>2. CASE k > Len(s) /\ l > Len(s)
    <3>1. k - Len(s) \in DOMAIN t /\ l - Len(s) \in DOMAIN t /\ t[k - Len(s)].id = t[l - Len(s)].id
      BY <1>2, <1>3, <2>2
    <3>2. k - Len(s) = l - Len(s)
      BY <3>1 DEF Distinct
    <3> QED  BY <1>1, <2>0, <3>2
  <2>3. CASE k <= Len(s) /\ l > Len(s)
    BY <1>2, <1>3, <2>3 DEF Apart
  <2>4. CASE k > Len(s) /\ l <= Len(s)
    BY <1>2, <1>3, <2>4 DEF Apart
  <2> QED  BY <1>1, <2>0, <2>1, <2>2, <2>3, <2>4
<1>4. ASSUME NEW k \in DOMAIN u
      PROVE  (\E i \in DOMAIN s : u[k] = s[i]) \/ (\E j \in DOMAIN t : u[k] = t[j])
  <2>1. k \in Nat
    BY <1>1
  <2>2. CASE k <= Len(s)
    BY <1>2, <2>2
  <2>3. CASE k > Len(s)
    BY <1>2, <2>3
  <2> QED  BY <1>1, <2>1, <2>2, <2>3
<1> QED  BY <1>1, <1>3, <1>4 DEF u, Distinct

LEMMA ReversedTales ==
  ASSUME NEW s \in Seq(Tale), Distinct(s)
  PROVE  /\ Homepage!Reverse(s) \in Seq(Tale) /\ Distinct(Homepage!Reverse(s))
         /\ \A k \in DOMAIN Homepage!Reverse(s) : \E i \in DOMAIN s : Homepage!Reverse(s)[k] = s[i]
<1> DEFINE u == Homepage!Reverse(s)
           n == Len(s)
<1>1. n \in Nat /\ DOMAIN s = 1..n /\ s \in [1..n -> Tale]
  OBVIOUS
<1>2. u = [i \in 1..n |-> s[(n - i) + 1]]
  BY DEF Homepage!Reverse
<1> HIDE DEF u, n
<1>3. \A i \in 1..n : (n - i) + 1 \in 1..n
  BY <1>1
<1>4. u \in Seq(Tale) /\ DOMAIN u = 1..n
  <2>1. u \in [1..n -> Tale]
    BY <1>1, <1>2, <1>3
  <2> QED  BY <1>1, <2>1
<1>5. ASSUME NEW k \in 1..n, NEW l \in 1..n, u[k].id = u[l].id PROVE k = l
  <2>1. (n - k) + 1 \in DOMAIN s /\ (n - l) + 1 \in DOMAIN s /\ s[(n - k) + 1].id = s[(n - l) + 1].id
    BY <1>1, <1>2, <1>3, <1>5
  <2>2. (n - k) + 1 = (n - l) + 1
    BY <2>1 DEF Distinct
  <2> QED  BY <1>1, <2>2
<1>6. \A k \in 1..n : \E i \in DOMAIN s : u[k] = s[i]
  BY <1>1, <1>2, <1>3
<1> QED  BY <1>4, <1>5, <1>6 DEF u, Distinct

LEMMA RemarkedIsTale ==
  ASSUME NEW t \in Tale, NEW locked \in Seq(Tale)
  PROVE  Homepage!Remarked(t, locked) \in Tale /\ Homepage!Remarked(t, locked).id = t.id
<1>1. CASE t.id \notin Homepage!Ids(locked)
  BY <1>1 DEF Homepage!Remarked
<1>2. CASE t.id \in Homepage!Ids(locked)
  <2> DEFINE l == CHOOSE i \in DOMAIN locked : locked[i].id = t.id
             r == locked[l]
  <2>1. \E i \in DOMAIN locked : locked[i].id = t.id
    BY <1>2 DEF Homepage!Ids
  <2>2. l \in DOMAIN locked
    BY <2>1
  <2>3. r \in Tale
    <3> HIDE DEF l
    <3> QED  BY <2>2
  <2>4. Homepage!Remarked(t, locked) = [t EXCEPT !.mark = r.mark, !.briefed = r.briefed \/ t.briefed]
    BY <1>2 DEF Homepage!Remarked
  <2> HIDE DEF r, l
  <2>5. /\ r.mark \in {"none", "promote", "ignore"} /\ (r.briefed \/ t.briefed) \in BOOLEAN
        /\ t.id \in Report
    BY <2>3 DEF Tale
  <2> DEFINE b == r.briefed \/ t.briefed
             m == r.mark
  <2>6. Homepage!Remarked(t, locked) = [t EXCEPT !.mark = m, !.briefed = b]
    BY <2>4
  <2>7. b \in BOOLEAN /\ m \in {"none", "promote", "ignore"}
    BY <2>5
  <2> HIDE DEF b, m
  <2>8. Homepage!Remarked(t, locked) = [id |-> t.id, mark |-> m, briefed |-> b]
    BY <2>6 DEF Tale
  <2> QED  BY <2>5, <2>7, <2>8 DEF Tale
<1> QED  BY <1>1, <1>2

LEMMA RemarkedTales ==
  ASSUME NEW s \in Seq(Tale), Distinct(s), NEW locked \in Seq(Tale)
  PROVE  LET u == [i \in DOMAIN s |-> Homepage!Remarked(s[i], locked)] IN
         /\ u \in Seq(Tale) /\ Distinct(u)
         /\ DOMAIN u = DOMAIN s /\ \A k \in DOMAIN u : u[k].id = s[k].id
<1> DEFINE u == [i \in DOMAIN s |-> Homepage!Remarked(s[i], locked)]
<1>1. DOMAIN s = 1..Len(s) /\ Len(s) \in Nat /\ \A i \in DOMAIN s : s[i] \in Tale
  OBVIOUS
<1>2. \A i \in DOMAIN s : u[i] \in Tale /\ u[i].id = s[i].id
  BY <1>1, RemarkedIsTale
<1>3. DOMAIN u = DOMAIN s /\ u = [i \in 1..Len(s) |-> u[i]]
  BY <1>1
<1> HIDE DEF u
<1>4. u \in Seq(Tale)
  BY <1>1, <1>2, <1>3
<1>5. Distinct(u)
  BY <1>2, <1>3 DEF Distinct
<1> QED  BY <1>2, <1>3, <1>4, <1>5 DEF u

LEMMA LockStep ==
  ASSUME CrawlInv, Homepage!Lock PROVE CrawlInv'
<1> DEFINE locked == Homepage!Locked(homepage)
           marked == {i \in DOMAIN homepage : homepage[i].mark # "none"}
           Places(p) == {i \in DOMAIN locked : /\ locked[i].id \notin Homepage!Ids(stories)
                                               /\ (locked[i].mark = "promote") = p}
           first == Homepage!PutBack(stories, locked, TRUE)
           front == Homepage!Reverse(first)
           mid == [i \in DOMAIN stories |-> Homepage!Remarked(stories[i], locked)]
           back == Homepage!PutBack(stories, locked, FALSE)
<1>1. /\ stage = "lock" /\ stage' = "overlay" /\ stories' = front \o mid \o back
      /\ wire' = <<>> /\ UNCHANGED <<fetched, decided, rowsRead, homepage>>
  BY DEF Homepage!Lock, Homepage!Preserve
<1>2. locked \in Seq(Tale) /\ Distinct(locked)
  <2>1. marked \in SUBSET (DOMAIN homepage)
    OBVIOUS
  <2>2. locked = Homepage!At(homepage, marked)
    BY DEF Homepage!Locked
  <2> HIDE DEF marked, locked
  <2> QED  BY <2>1, <2>2, FilteredTales DEF CrawlInv, CrawlTypes
<1>3. /\ first = Homepage!At(locked, Places(TRUE)) /\ back = Homepage!At(locked, Places(FALSE))
  BY DEF Homepage!PutBack
<1>4. Places(TRUE) \in SUBSET (DOMAIN locked) /\ Places(FALSE) \in SUBSET (DOMAIN locked)
  OBVIOUS
<1> DEFINE PT == Places(TRUE)
           PF == Places(FALSE)
<1>5. PT \cap PF = {}
  OBVIOUS
<1>6. \A i \in PT \cup PF : i \in DOMAIN locked /\ locked[i].id \notin Homepage!Ids(stories)
  OBVIOUS
<1>7. stories \in Seq(Tale) /\ Distinct(stories)
  BY DEF CrawlInv, CrawlTypes
<1> HIDE DEF locked, Places, first, back, PT, PF
<1>8. /\ first \in Seq(Tale) /\ Distinct(first)
      /\ \A k \in DOMAIN first : \E i \in PT : first[k] = locked[i]
  BY <1>2, <1>3, <1>4, FilteredTales DEF PT
<1>9. /\ back \in Seq(Tale) /\ Distinct(back)
      /\ \A k \in DOMAIN back : \E i \in PF : back[k] = locked[i]
  BY <1>2, <1>3, <1>4, FilteredTales DEF PF
<1> HIDE DEF front, mid
<1>10. /\ front \in Seq(Tale) /\ Distinct(front)
       /\ \A k \in DOMAIN front : \E i \in PT : front[k] = locked[i]
  <2>1. /\ front \in Seq(Tale) /\ Distinct(front)
        /\ \A k \in DOMAIN front : \E i \in DOMAIN first : front[k] = first[i]
    BY <1>8, ReversedTales DEF front
  <2> QED  BY <1>8, <2>1
<1>11. /\ mid \in Seq(Tale) /\ Distinct(mid)
       /\ DOMAIN mid = DOMAIN stories /\ \A k \in DOMAIN mid : mid[k].id = stories[k].id
  BY <1>2, <1>7, RemarkedTales DEF mid
<1>12. Apart(front, mid) /\ Apart(mid, back)
  <2>1. \A k \in DOMAIN mid : mid[k].id \in Homepage!Ids(stories)
    BY <1>11 DEF Homepage!Ids
  <2> QED  BY <1>6, <1>9, <1>10, <2>1 DEF Apart
<1>13. Apart(front, back)
  <2> SUFFICES ASSUME NEW i \in DOMAIN front, NEW j \in DOMAIN back, front[i].id = back[j].id
               PROVE  FALSE
    BY DEF Apart
  <2>1. PICK a \in PT : front[i] = locked[a]
    BY <1>10
  <2>2. PICK b \in PF : back[j] = locked[b]
    BY <1>9
  <2>3. a = b
    BY <1>2, <1>6, <2>1, <2>2 DEF Distinct
  <2> QED  BY <1>5, <2>3
<1> DEFINE fm == front \o mid
<1>14. /\ fm \in Seq(Tale) /\ Distinct(fm)
       /\ \A k \in DOMAIN fm : \/ \E i \in DOMAIN front : fm[k] = front[i]
                               \/ \E j \in DOMAIN mid : fm[k] = mid[j]
  BY <1>10, <1>11, <1>12, JoinedTales
<1> HIDE DEF fm
<1>15. Apart(fm, back)
  BY <1>12, <1>13, <1>14 DEF Apart
<1>16. fm \o back \in Seq(Tale) /\ Distinct(fm \o back)
  BY <1>9, <1>14, <1>15, JoinedTales
<1>17. stories' \in Seq(Tale) /\ Distinct(stories')
  BY <1>1, <1>16 DEF fm
<1>18. <<>> \in Seq(Report)
  OBVIOUS
<1> QED  BY <1>1, <1>17, <1>18 DEF CrawlInv, CrawlTypes, Spared, Distinct, Homepage!EveryArticleOnce

LEMMA OverlayStep ==
  ASSUME CrawlInv, Homepage!Overlay PROVE CrawlInv'
<1> DEFINE left == Homepage!Undeleted(stories)
           kept == {i \in DOMAIN stories : decided[stories[i].id] # "delete"}
           u == [i \in DOMAIN left |-> Homepage!Overruled(left[i])]
<1>1. /\ stage = "overlay" /\ stage' = "brief" /\ stories' = u
      /\ UNCHANGED <<fetched, wire, decided, homepage>>
  BY DEF Homepage!Overlay
<1>2. stories \in Seq(Tale) /\ Distinct(stories)
  BY DEF CrawlInv, CrawlTypes
<1>3. /\ left \in Seq(Tale) /\ Distinct(left)
      /\ \A k \in DOMAIN left : \E i \in kept : left[k] = stories[i]
  <2>1. kept \in SUBSET (DOMAIN stories) /\ left = Homepage!At(stories, kept)
    BY DEF Homepage!Undeleted
  <2> HIDE DEF kept, left
  <2> QED  BY <1>2, <2>1, FilteredTales
<1>4. \A k \in DOMAIN left : decided[left[k].id] # "delete"
  BY <1>3
<1>5. ASSUME NEW t \in Tale PROVE Homepage!Overruled(t) \in Tale /\ Homepage!Overruled(t).id = t.id
  <2> DEFINE d == decided[t.id]
             m == IF d = "demote" THEN "none" ELSE d
  <2>1. t.id \in Report /\ d \in {"none", "promote", "ignore", "demote", "delete"}
    BY DEF Tale, CrawlInv, CrawlTypes
  <2>2. CASE d \in {"none", "delete"}
    BY <2>2 DEF Homepage!Overruled
  <2>3. CASE d \notin {"none", "delete"}
    <3>1. m \in {"none", "promote", "ignore"}
      BY <2>1, <2>3
    <3>2. Homepage!Overruled(t) = [id |-> t.id, briefed |-> TRUE, mark |-> m]
      BY <2>3 DEF Homepage!Overruled
    <3> HIDE DEF m, d
    <3> QED  BY <2>1, <3>1, <3>2 DEF Tale
  <2> QED  BY <2>2, <2>3
<1> HIDE DEF left, kept
<1>6. DOMAIN u = DOMAIN left /\ \A k \in DOMAIN u : u[k] \in Tale /\ u[k].id = left[k].id
  <2>1. \A k \in DOMAIN left : left[k] \in Tale
    BY <1>3
  <2> QED  BY <1>5, <2>1
<1>7. u = [i \in DOMAIN left |-> u[i]] /\ DOMAIN left = 1..Len(left) /\ Len(left) \in Nat
  BY <1>3
<1> HIDE DEF u
<1>8. u \in Seq(Tale)
  BY <1>6, <1>7
<1>9. Distinct(u) /\ Spared(u)
  BY <1>3, <1>4, <1>6 DEF Distinct, Spared
<1> QED  BY <1>1, <1>8, <1>9 DEF CrawlInv, CrawlTypes, Spared, Distinct, Homepage!EveryArticleOnce

LEMMA BriefStep ==
  ASSUME CrawlInv, Homepage!Briefing, Homepage!Brief, UNCHANGED Homepage!BriefVars
  PROVE  CrawlInv'
<1> DEFINE c == Homepage!Current
<1>1. /\ stage = "brief" /\ stories' = [stories EXCEPT ![c].briefed = TRUE]
      /\ UNCHANGED <<stage, fetched, wire, groups, placed, decided, rowsRead, homepage>>
  BY DEF Homepage!Briefing, Homepage!Brief, Homepage!BriefVars
<1> HIDE DEF c
<1>2. stories \in Seq(Tale) /\ Distinct(stories)
  BY DEF CrawlInv, CrawlTypes
<1>3. stories' = [i \in DOMAIN stories |-> IF i = c THEN [stories[i] EXCEPT !.briefed = TRUE] ELSE stories[i]]
  BY <1>1, <1>2
<1>4. \A i \in DOMAIN stories : stories'[i] \in Tale /\ stories'[i].id = stories[i].id
  <2> SUFFICES ASSUME NEW i \in DOMAIN stories
               PROVE  stories'[i] \in Tale /\ stories'[i].id = stories[i].id
    OBVIOUS
  <2> DEFINE t == stories[i]
  <2>1. t \in Tale
    BY <1>2
  <2>2. stories'[i] = IF i = c THEN [t EXCEPT !.briefed = TRUE] ELSE t
    BY <1>3
  <2> HIDE DEF t
  <2>3. [t EXCEPT !.briefed = TRUE] \in Tale /\ [t EXCEPT !.briefed = TRUE].id = t.id
    BY <2>1 DEF Tale
  <2> QED  BY <2>1, <2>2, <2>3 DEF t
<1>5. DOMAIN stories' = DOMAIN stories /\ DOMAIN stories = 1..Len(stories) /\ Len(stories) \in Nat
  BY <1>2, <1>3
<1>6. stories' \in Seq(Tale)
  <2>1. stories' \in [1..Len(stories) -> Tale]
    BY <1>3, <1>4, <1>5
  <2> QED  BY <1>5, <2>1
<1>7. Distinct(stories')
  BY <1>2, <1>4, <1>5 DEF Distinct
<1>8. Spared(stories) => Spared(stories)'
  BY <1>1, <1>4, <1>5 DEF Spared
<1>9. CrawlTypes'
  BY <1>1, <1>6 DEF CrawlInv, CrawlTypes
<1>10. Homepage!EveryArticleOnce'
  BY <1>1 DEF Homepage!EveryArticleOnce
<1>11. Distinct(homepage)' /\ (rowsRead' => Spared(stories)')
  BY <1>1, <1>8 DEF CrawlInv, Distinct
<1> QED  BY <1>1, <1>7, <1>9, <1>10, <1>11 DEF CrawlInv, Distinct

LEMMA PublishStep ==
  ASSUME Homepage!CrawlAssumption, CrawlInv, Homepage!Publish PROVE CrawlInv'
<1> DEFINE m == IF Len(stories) < MaxClusters THEN Len(stories) ELSE MaxClusters
<1>1. /\ stage = "brief" /\ stage' = "published" /\ Homepage!Unbriefed = {}
      /\ homepage' = SubSeq(stories, 1, m)
      /\ UNCHANGED <<fetched, wire, groups, placed, stories, decided, rowsRead>>
  BY DEF Homepage!Publish, Homepage!Cut
<1>2. stories \in Seq(Tale) /\ Distinct(stories) /\ Len(stories) \in Nat /\ DOMAIN stories = 1..Len(stories)
  BY DEF CrawlInv, CrawlTypes
<1>3. m \in 0..Len(stories)
  BY <1>2 DEF Homepage!CrawlAssumption
<1> HIDE DEF m
<1>4. homepage' = [i \in 1..m |-> stories[i]] /\ \A i \in 1..m : i \in DOMAIN stories
  BY <1>1, <1>2, <1>3
<1>5. homepage' \in Seq(Tale) /\ DOMAIN homepage' = 1..m
  <2>1. homepage' \in [1..m -> Tale]
    BY <1>2, <1>4
  <2> QED  BY <1>3, <2>1
<1>6. \A i \in DOMAIN homepage' : i \in DOMAIN stories /\ homepage'[i] = stories[i]
  BY <1>4, <1>5
<1>7. Distinct(homepage')
  BY <1>2, <1>6 DEF Distinct
<1>8. \A i \in DOMAIN homepage' : homepage'[i].briefed
  BY <1>1, <1>6 DEF Homepage!Unbriefed
<1>9. rowsRead' => Spared(stories)' /\ Spared(homepage)'
  BY <1>1, <1>6 DEF CrawlInv, Spared
<1>10. CrawlTypes' /\ Homepage!EveryArticleOnce' /\ Distinct(stories)'
  BY <1>1, <1>5 DEF CrawlInv, CrawlTypes, Homepage!EveryArticleOnce, Distinct
<1> QED  BY <1>1, <1>7, <1>8, <1>9, <1>10 DEF CrawlInv, Distinct

LEMMA BeginStep ==
  ASSUME Homepage!CrawlAssumption, CrawlInv, Homepage!Begin PROVE CrawlInv'
<1>1. homepage' \in Seq(Tale) /\ Distinct(homepage')
  <2>1. CASE homepage' \in Snapshots
    BY <2>1 DEF Homepage!CrawlAssumption, Tale, Distinct
  <2>2. CASE homepage' = homepage
    BY <2>2 DEF CrawlInv, CrawlTypes, Distinct
  <2> QED  BY <2>1, <2>2 DEF Homepage!Begin
<1>2. /\ stage' = "fetch" /\ fetched' = 0 /\ wire' = <<>> /\ stories' = <<>> /\ rowsRead' = FALSE
      /\ decided' \in [Report -> {"none", "promote", "ignore", "demote", "delete"}]
  BY DEF Homepage!Begin, Homepage!CrawlAssumption
<1>3. <<>> \in Seq(Report) /\ <<>> \in Seq(Tale) /\ Distinct(<<>>) /\ 0 \in 0..Len(Feeds)
  BY DEF Distinct, Homepage!CrawlAssumption
<1> QED  BY <1>1, <1>2, <1>3 DEF CrawlInv, CrawlTypes, Distinct, Homepage!EveryArticleOnce

LEMMA CrawlRests ==
  ASSUME Homepage!CrawlAssumption, CrawlInv,
         Homepage!Bail \/ Homepage!OverlayUnread \/ Homepage!GeminiRefuses \/ Homepage!GeminiFails
         \/ Homepage!GeminiGarbles \/ Homepage!WorkersFails \/ Homepage!Exit
         \/ UNCHANGED Homepage!crawlVars
  PROVE  CrawlInv'
<1>0. <<>> \in Seq(Report) /\ <<>> \in Seq(Tale) /\ Distinct(<<>>) /\ 0 \in 0..Len(Feeds)
  BY DEF Distinct, Homepage!CrawlAssumption
<1>1. CASE Homepage!Bail
  BY <1>0, <1>1 DEF Homepage!Bail, CrawlInv, CrawlTypes, Distinct, Spared, Homepage!EveryArticleOnce
<1>2. CASE Homepage!OverlayUnread
  BY <1>2 DEF Homepage!OverlayUnread, CrawlInv, CrawlTypes, Distinct, Spared, Homepage!EveryArticleOnce
<1>3. CASE Homepage!GeminiRefuses \/ Homepage!GeminiFails \/ Homepage!GeminiGarbles \/ Homepage!WorkersFails
  <2>1. stage = "brief" /\ UNCHANGED <<stage, fetched, wire, groups, placed, decided, rowsRead, homepage, stories>>
    BY <1>3 DEF Homepage!GeminiRefuses, Homepage!GeminiFails, Homepage!GeminiGarbles, Homepage!WorkersFails,
                Homepage!BriefVars, Homepage!Briefing
  <2> QED  BY <2>1 DEF CrawlInv, CrawlTypes, Distinct, Spared, Homepage!EveryArticleOnce
<1>4. CASE Homepage!Exit
  <2>1. /\ stage' = "idle" /\ stories' = <<>> /\ rowsRead' = FALSE /\ fetched' = 0
        /\ decided' = [x \in Report |-> "none"] /\ UNCHANGED <<wire, homepage>>
    BY <1>4 DEF Homepage!Exit, Homepage!Undecided
  <2>2. decided' \in [Report -> {"none", "promote", "ignore", "demote", "delete"}]
    BY <2>1
  <2> QED  BY <1>0, <2>1, <2>2 DEF CrawlInv, CrawlTypes, Distinct, Homepage!EveryArticleOnce
<1>5. CASE UNCHANGED Homepage!crawlVars
  <2>1. UNCHANGED <<stage, fetched, wire, groups, placed, decided, rowsRead, homepage, stories>>
    BY <1>5 DEF Homepage!crawlVars
  <2>2. Grouped' = Grouped /\ Homepage!EveryArticleOnce' = Homepage!EveryArticleOnce
    BY <2>1 DEF Grouped, Homepage!EveryArticleOnce, Homepage!Covered
  <2> QED  BY <2>1, <2>2 DEF CrawlInv, CrawlTypes, Distinct, Spared
<1> QED  BY <1>1, <1>2, <1>3, <1>4, <1>5

LEMMA CrawlStepKeeps ==
  ASSUME Homepage!CrawlAssumption, CrawlInv, [Homepage!CrawlNext]_(Homepage!crawlVars)
  PROVE  CrawlInv'
<1>1. CASE Homepage!GeminiBriefs \/ Homepage!WorkersBriefs \/ Homepage!Extract
  BY <1>1, BriefStep DEF Homepage!GeminiBriefs, Homepage!WorkersBriefs, Homepage!Extract
<1> QED  BY <1>1, BeginStep, FetchStep, GatherStep, GroupStep, RankStep, LockStep, OverlayStep,
            PublishStep, CrawlRests DEF Homepage!CrawlNext, Homepage!CrawlStep

LEMMA CrawlBegins ==
  ASSUME Homepage!CrawlAssumption, Homepage!CrawlInit PROVE CrawlInv
<1>1. <<>> \in Seq(Report) /\ <<>> \in Seq(Tale) /\ Distinct(<<>>) /\ 0 \in 0..Len(Feeds)
  BY DEF Distinct, Homepage!CrawlAssumption
<1>2. decided \in [Report -> {"none", "promote", "ignore", "demote", "delete"}]
  BY DEF Homepage!CrawlInit, Homepage!Undecided
<1> QED  BY <1>1, <1>2 DEF Homepage!CrawlInit, CrawlInv, CrawlTypes, Homepage!EveryArticleOnce

LEMMA CrawlIsSound ==
  ASSUME CrawlInv PROVE Homepage!EveryArticleOnce /\ Homepage!HomepageIsSound
<1>1. Homepage!Cardinality(Homepage!Ids(homepage)) = Len(homepage)
  BY DistinctIds DEF CrawlInv, CrawlTypes
<1>2. ASSUME Spared(homepage) PROVE \A x \in Homepage!Ids(homepage) : decided[x] # "delete"
  BY <1>2 DEF Spared, Homepage!Ids
<1> QED  BY <1>1, <1>2 DEF CrawlInv, Homepage!HomepageIsSound

(* Every report of a crawl is told once, and what it publishes has a brief *)
(* for every story, none twice and none a curator deleted, whatever the    *)
(* snapshot put back and whichever model failed (clusterEngine.ts,         *)
(* curatorOverrideSync.ts:45-154, ingest.ts:141-209).                      *)
THEOREM HomepageStaysSound ==
  Homepage!CrawlAssumption =>
    (Homepage!CrawlSpec => [](Homepage!EveryArticleOnce /\ Homepage!HomepageIsSound))
<1> SUFFICES ASSUME Homepage!CrawlAssumption
             PROVE  Homepage!CrawlSpec => [](Homepage!EveryArticleOnce /\ Homepage!HomepageIsSound)
  OBVIOUS
<1>1. Homepage!CrawlInit => CrawlInv
  BY CrawlBegins
<1>2. CrawlInv /\ [Homepage!CrawlNext]_(Homepage!crawlVars) => CrawlInv'
  BY CrawlStepKeeps
<1>3. CrawlInv => Homepage!EveryArticleOnce /\ Homepage!HomepageIsSound
  BY CrawlIsSound
<1> QED  BY <1>1, <1>2, <1>3, PTL DEF Homepage!CrawlSpec

-----------------------------------------------------------------------------
(***************************************************************************)
(* The whole: a step is of one part and the others rest.                   *)
(***************************************************************************)
OneSteps ==
  /\ FeedsSteps \/ UNCHANGED feedsVars
  /\ StoriesSteps \/ UNCHANGED storiesVars
  /\ BriefsSteps \/ UNCHANGED enrichVars
  /\ HarvestSteps \/ UNCHANGED harvestVars
  /\ GraphSteps \/ UNCHANGED graphVars
  /\ DirectorySteps \/ UNCHANGED directoryVars
  /\ DetectedSteps \/ UNCHANGED patternVars

LEMMA OnePartSteps == [Next]_vars => OneSteps
<1> SUFFICES ASSUME [Next]_vars PROVE OneSteps
  OBVIOUS
<1>1. CASE FeedsSteps
  BY <1>1 DEF FeedsSteps, OnlyFeeds, OneSteps
<1>2. CASE StoriesSteps
  BY <1>2 DEF StoriesSteps, OnlyStories, OneSteps
<1>3. CASE BriefsSteps
  BY <1>3 DEF BriefsSteps, OnlyBriefs, OneSteps
<1>4. CASE HarvestSteps
  BY <1>4 DEF HarvestSteps, OnlyHarvest, OneSteps
<1>5. CASE GraphSteps
  BY <1>5 DEF GraphSteps, OnlyGraph, OneSteps
<1>6. CASE DirectorySteps
  BY <1>6 DEF DirectorySteps, OnlyDirectory, OneSteps
<1>7. CASE DetectedSteps
  BY <1>7 DEF DetectedSteps, OnlyDetected, OneSteps
<1>8. CASE UNCHANGED vars
  BY <1>8 DEF vars, OneSteps
<1> QED  BY <1>1, <1>2, <1>3, <1>4, <1>5, <1>6, <1>7, <1>8 DEF Next

LEMMA FeedsPart == Spec => Reading!FeedInit /\ [][Reading!FeedNext]_(Reading!feedVars)
<1>1. Init => Reading!FeedInit
  BY DEF Init
<1>2. [Next]_vars => [Reading!FeedNext]_(Reading!feedVars)
  <2>1. FeedsSteps => Reading!FeedNext
    BY DEF FeedsSteps, Reading!FeedNext
  <2>2. UNCHANGED feedsVars => UNCHANGED Reading!feedVars
    BY DEF feedsVars, Reading!feedVars
  <2> QED  BY <2>1, <2>2, OnePartSteps DEF OneSteps
<1> QED  BY <1>1, <1>2, PTL DEF Spec

LEMMA StoriesPart == Spec => Homepage!CrawlInit /\ [][Homepage!CrawlNext]_(Homepage!crawlVars)
<1>1. Init => Homepage!CrawlInit
  BY DEF Init
<1>2. [Next]_vars => [Homepage!CrawlNext]_(Homepage!crawlVars)
  <2>1. StoriesSteps => Homepage!CrawlNext
    BY DEF StoriesSteps, Homepage!CrawlNext, Homepage!CrawlStep
  <2>2. UNCHANGED storiesVars => UNCHANGED Homepage!crawlVars
    BY DEF storiesVars, Homepage!crawlVars
  <2> QED  BY <2>1, <2>2, OnePartSteps DEF OneSteps
<1> QED  BY <1>1, <1>2, PTL DEF Spec

LEMMA HarvestPart == Spec => Credits!HarvestInit /\ [][Credits!HarvestNext]_(Credits!harvestVars)
<1>1. Init => Credits!HarvestInit
  BY DEF Init
<1>2. [Next]_vars => [Credits!HarvestNext]_(Credits!harvestVars)
  <2>1. HarvestSteps => Credits!HarvestNext
    BY DEF HarvestSteps, Credits!HarvestNext
  <2>2. UNCHANGED harvestVars => UNCHANGED Credits!harvestVars
    BY DEF harvestVars, Credits!harvestVars
  <2> QED  BY <2>1, <2>2, OnePartSteps DEF OneSteps
<1> QED  BY <1>1, <1>2, PTL DEF Spec

LEMMA GraphPart == Spec => Links!GraphInit /\ [][Links!GraphNext]_(Links!graphVars)
<1>1. Init => Links!GraphInit
  BY DEF Init
<1>2. [Next]_vars => [Links!GraphNext]_(Links!graphVars)
  <2>1. GraphSteps => Links!GraphNext
    BY DEF GraphSteps, Links!GraphNext
  <2>2. UNCHANGED graphVars => UNCHANGED Links!graphVars
    BY DEF graphVars, Links!graphVars
  <2> QED  BY <2>1, <2>2, OnePartSteps DEF OneSteps
<1> QED  BY <1>1, <1>2, PTL DEF Spec

LEMMA DirectoryPart == Spec => Directory!SupplierInit /\ [][Directory!SupplierNext]_(Directory!supplierVars)
<1>1. Init => Directory!SupplierInit
  BY DEF Init
<1>2. [Next]_vars => [Directory!SupplierNext]_(Directory!supplierVars)
  <2>1. DirectorySteps => Directory!SupplierNext
    BY DEF DirectorySteps, Directory!SupplierNext
  <2>2. UNCHANGED directoryVars => UNCHANGED Directory!supplierVars
    BY DEF directoryVars, Directory!supplierVars
  <2> QED  BY <2>1, <2>2, OnePartSteps DEF OneSteps
<1> QED  BY <1>1, <1>2, PTL DEF Spec

LEMMA BriefsPart == Spec => EnrichSpec
<1>1. Init => EnrichInit
  BY DEF Init
<1>2. [Next]_vars => [EnrichNext]_(enrichVars)
  <2>1. BriefsSteps => EnrichNext
    BY DEF BriefsSteps, EnrichNext
  <2> QED  BY <2>1, OnePartSteps DEF OneSteps
<1> QED  BY <1>1, <1>2, PTL DEF Spec, EnrichSpec

LEMMA DetectedPart == Spec => PatternSpec
<1>1. Init => PatternInit
  BY DEF Init
<1>2. [Next]_vars => [PatternNext]_(patternVars)
  <2>1. DetectedSteps => PatternNext
    BY DEF DetectedSteps, PatternNext
  <2> QED  BY <2>1, OnePartSteps DEF OneSteps
<1> QED  BY <1>1, <1>2, PTL DEF Spec, PatternSpec

LEMMA Kept == CrawlingAssumption
BY CrawlingAssumed

(* The stories of a crawl: a 304 loses nothing, every report is told once, *)
(* and the homepage is briefed, without doubles and without what a curator *)
(* deleted (fowlerCircuitBreaker.ts, clusterEngine.ts, ingest.ts,          *)
(* curatorOverrideSync.ts).                                                *)
THEOREM StoriesStaySound == Spec => []StoriesAreSound
<1>0. Reading!FeedAssumption /\ Homepage!CrawlAssumption
  BY Kept DEF CrawlingAssumption
<1>1. Spec => []Reading!UnchangedWasRead
  <2>1. Reading!FeedInit => FeedInv
    BY <1>0, FeedBegins
  <2>2. FeedInv /\ [Reading!FeedNext]_(Reading!feedVars) => FeedInv'
    BY <1>0, FeedStep
  <2>3. FeedInv => Reading!UnchangedWasRead
    BY DEF FeedInv, ReadUpTo, Reading!UnchangedWasRead
  <2> QED  BY <2>1, <2>2, <2>3, FeedsPart, PTL
<1>2. Spec => [](Homepage!EveryArticleOnce /\ Homepage!HomepageIsSound)
  <2>1. Homepage!CrawlInit => CrawlInv
    BY <1>0, CrawlBegins
  <2>2. CrawlInv /\ [Homepage!CrawlNext]_(Homepage!crawlVars) => CrawlInv'
    BY <1>0, CrawlStepKeeps
  <2>3. CrawlInv => Homepage!EveryArticleOnce /\ Homepage!HomepageIsSound
    BY CrawlIsSound
  <2> QED  BY <2>1, <2>2, <2>3, StoriesPart, PTL
<1> QED  BY <1>1, <1>2, PTL DEF StoriesAreSound

(* The rows a crawl adds to: promotions are earned, publishers credited    *)
(* once, the graph holds what the homepage tells, and approved suppliers   *)
(* are linked, though writes fail one by one (entityHarvester.ts,          *)
(* sourceTracker.ts, graphSync.ts, graphQueryHandler.ts,                   *)
(* curatorSupplierCandidateHandler.ts).                                    *)
THEOREM RowsStayTrue == Spec => []RowsAreTrue
<1>0. Credits!HarvestAssumption /\ Links!GraphAssumption /\ Directory!SupplierAssumption
  BY Kept DEF CrawlingAssumption
<1>1. Spec => []Credits!PromotionIsEarned
  <2>1. PromotionInv /\ [Credits!HarvestNext]_(Credits!harvestVars) => PromotionInv'
    BY <1>0, PromotionStep
  <2> QED  BY <2>1, HarvestPart, PromotionBegins, PromotionsAreEarned, PTL
<1>2. Spec => []Credits!CreditedOnce
  <2>1. HarvestInv /\ [Credits!HarvestNext]_(Credits!harvestVars) => HarvestInv'
    BY <1>0, HarvestStep
  <2> QED  BY <2>1, HarvestPart, HarvestBegins, HarvestIsTrue, PTL
<1>3. Spec => [](Links!GraphHoldsHomepage /\ Links!AnswerIsClosed)
  <2>1. Links!GraphInit => GraphInv
    BY <1>0, GraphBegins
  <2>2. GraphInv /\ [Links!GraphNext]_(Links!graphVars) => GraphInv'
    BY <1>0, PassStep, HopStep, AnswerStep, VisitStep DEF Links!GraphNext
  <2> QED  BY <2>1, <2>2, GraphPart, GraphIsTrue, PTL
<1>4. Spec => []Directory!ApprovedIsLinked
  <2>1. SupplierInv /\ [Directory!SupplierNext]_(Directory!supplierVars) => SupplierInv'
    BY <1>0, SupplierStep
  <2>2. SupplierInv => Directory!ApprovedIsLinked
    BY DEF SupplierInv
  <2> QED  BY <2>1, <2>2, DirectoryPart, SupplierBegins, PTL
<1> QED  BY <1>1, <1>2, <1>3, <1>4, PTL DEF RowsAreTrue

(* What either model wrote, or a memory of it, is vetted before a story of *)
(* the crawl is briefed with it (geminiSalvage.ts, cloudflareAI.ts).       *)
THEOREM BriefsStayVetted == Spec => []BriefIsVetted
BY BriefsPart, BriefsAreVetted

(* No crawl overturns what a curator decided of a pattern                  *)
(* (curatorPatternQueryBuilder.ts:23-29).                                  *)
THEOREM DecisionsStand == Spec => PatternDecisionStands
BY DetectedPart, DecidedPatternsStand

=============================================================================
