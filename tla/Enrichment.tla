----------------------------- MODULE Enrichment -----------------------------
(***************************************************************************)
(* What the models' answers about a story become.  A story without a brief *)
(* is given one by Gemini, from whose answer every sound part is salvaged; *)
(* or by Workers AI, whose answer is taken whole or not at all; or by the  *)
(* local extractor.  A story of a platform category must be told as a      *)
(* chain of scope, impact and significance.  Both models' briefs are       *)
(* remembered by the process, which may make several crawls.  Stories meet *)
(* only in Gemini's circuit breaker, so one story is followed, and any of  *)
(* its calls may be skipped; module Crawl says in which order a crawl      *)
(* briefs its stories and that it ends.                                    *)
(*                                                                         *)
(* An answer is the verdict on each of its fields: "good", "bad", "part"   *)
(* for a list some of whose entries are bad, or "absent".                  *)
(***************************************************************************)
EXTENDS Naturals

CONSTANTS
  Field, Copied,   \* an answer's optional fields; those kept of Workers AI's
  HasKey,           \* whether there is a Gemini key
  MaxCalls,        \* bound: calls of Gemini in one process
  None

(* What the configurations keep to. *)
EnrichmentAssumption == Copied \subseteq Field

VARIABLES
  platform,   \* requiresPlatformBrief of the story's categories
  asking,     \* who is asked now: "nobody", "gemini" or "workers"
  tries,      \* answers of Gemini this time that could not be used
  brief,      \* the story's brief, or None
  memory,     \* its entry in SUMMARY_MEMORY_CACHE
  edgeMemory, \* its entry in CF_AI_MEMORY_CACHE
  calls       \* Gemini's calls in this process

enrichVars == <<platform, asking, tries, brief, memory, edgeMemory, calls>>

Verdict == {"absent", "good", "part", "bad"}
AnswerOf == [why : {"chain", "plain", "bad"}, fields : [Field -> Verdict]]
MaxTries == 2

EnrichInit ==
  /\ platform \in BOOLEAN /\ asking = "nobody" /\ tries = 0 /\ brief = None
  /\ memory = None /\ edgeMemory = None /\ calls = 0

-----------------------------------------------------------------------------
(* The gates.  A brief keeps the verdicts on the fields it has, and whether
   the answer was flawless. *)

(* hasStructuredBrief asks for two arrows of a platform story. *)
Structured(a) == platform => a.why = "chain"

Flawless(a) == \A f \in Field : a.fields[f] \in {"absent", "good"}

BriefOf(by, a, kept) ==
  [by |-> by, why |-> a.why, flawless |-> Flawless(a), holds |-> {a.fields[f] : f \in kept}]

(* Mutant: the order of the first field is not looked at. *)
SalvagedAll(a) ==
  IF a.why = "bad" THEN None
  ELSE BriefOf("gemini", a, {f \in Field : a.fields[f] \in {"good", "part"}})

(* sanitizeGeminiSSBIntelligence: only the first field can refuse the     *)
(* answer; of the others what is sound is kept.                           *)
Salvaged(a) ==
  IF a.why = "bad" \/ ~Structured(a) THEN None
  ELSE BriefOf("gemini", a, {f \in Field : a.fields[f] \in {"good", "part"}})

(* getSSBIntelligenceValidationErrors: one bad field or entry refuses it. *)
Valid(a) == a.why # "bad" /\ Flawless(a)

(* summarizeWithCloudflareAI. *)
Accepted(a) ==
  IF ~Valid(a) \/ ~Structured(a) THEN None
  ELSE BriefOf("workers", a, {f \in Copied : a.fields[f] = "good"})

(* generateExtractiveSSBIntel quotes the story itself. *)
Mined == [by |-> "extractor", why |-> "plain", flawless |-> TRUE, holds |-> {}]

-----------------------------------------------------------------------------
(* A crawl needs a brief for the story: it is new, or was not locked with
   the brief it had. *)
Need ==
  /\ asking = "nobody" /\ brief' = None
  /\ asking' = "gemini" /\ tries' = 0
  /\ UNCHANGED <<platform, memory, edgeMemory, calls>>

Told(b) == brief' = b /\ asking' = "nobody" /\ tries' = 0

(* A remembered brief costs nothing. *)
Recall ==
  /\ asking = "gemini" /\ memory # None /\ Told(memory)
  /\ UNCHANGED <<platform, memory, edgeMemory, calls>>

Call == asking = "gemini" /\ memory = None /\ HasKey /\ calls < MaxCalls /\ calls' = calls + 1

GeminiAnswers ==
  /\ Call
  /\ \E a \in AnswerOf :
       /\ Salvaged(a) # None /\ Told(Salvaged(a))
       /\ memory' = Salvaged(a)
  /\ UNCHANGED <<platform, edgeMemory>>

(* An answer that cannot be parsed or salvaged is corrected once. *)
GeminiIsCorrected ==
  /\ Call /\ tries' = (tries + 1) % MaxTries
  /\ asking' = (IF tries + 1 < MaxTries THEN "gemini" ELSE "workers")
  /\ UNCHANGED <<platform, brief, memory, edgeMemory>>

(* An error status, a network error or an empty answer is not tried again. *)
GeminiErrs ==
  /\ Call /\ asking' = "workers" /\ tries' = 0
  /\ UNCHANGED <<platform, brief, memory, edgeMemory>>

(* No key, or the circuit was opened by another story's refusal. *)
GeminiIsSkipped ==
  /\ asking = "gemini" /\ memory = None /\ tries = 0 /\ asking' = "workers"
  /\ UNCHANGED <<platform, tries, brief, memory, edgeMemory, calls>>

RecallWorkers ==
  /\ asking = "workers" /\ edgeMemory # None /\ Told(edgeMemory)
  /\ UNCHANGED <<platform, memory, edgeMemory, calls>>

WorkersAnswers ==
  /\ asking = "workers" /\ edgeMemory = None
  /\ \E a \in AnswerOf :
       /\ Accepted(a) # None /\ Told(Accepted(a)) /\ edgeMemory' = Accepted(a)
  /\ UNCHANGED <<platform, memory, calls>>

(* No credentials, an error, or an answer that is refused: the extractor. *)
FallBack ==
  /\ asking = "workers" /\ edgeMemory = None /\ Told(Mined)
  /\ UNCHANGED <<platform, memory, edgeMemory, calls>>

(* The process ends; what was published stays. *)
NewProcess ==
  /\ asking' = "nobody" /\ tries' = 0
  /\ memory' = None /\ edgeMemory' = None /\ calls' = 0
  /\ UNCHANGED <<platform, brief>>

EnrichNext ==
  \/ Need \/ Recall \/ GeminiAnswers \/ GeminiIsCorrected \/ GeminiErrs
  \/ GeminiIsSkipped \/ RecallWorkers \/ WorkersAnswers \/ FallBack \/ NewProcess

EnrichSpec == EnrichInit /\ [][EnrichNext]_enrichVars

-----------------------------------------------------------------------------
(* Whoever wrote a brief, and whichever memory it came from, it passed the
   gate of its author: nothing malformed is published, a platform's brief by
   a model is a chain, and Workers AI's answer had no fault at all. *)
BriefIsVetted ==
  brief # None /\ brief.by # "extractor" =>
    /\ brief.why # "bad" /\ (platform => brief.why = "chain")
    /\ "bad" \notin brief.holds
    /\ brief.by = "workers" => brief.flawless
=============================================================================
