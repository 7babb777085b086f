------------------------------ MODULE Patterns ------------------------------
(***************************************************************************)
(* Pattern hypotheses.  A crawl that sees enough stories meet at a place   *)
(* and a subject upserts a draft with a text of its own; curators list     *)
(* them, edit, approve or reject; readers are shown the approved ones.     *)
(* A text is a number, each new one larger, and the engine it is from.     *)
(***************************************************************************)
EXTENDS Integers, FiniteSets

CONSTANTS
  Pattern,    \* ids: place and subject
  Curator,
  Engines,    \* those of "gemini" and "workers" that have credentials
  MaxTexts,   \* bound: texts written, by crawls and curators
  MaxAsked    \* bound: requests of curators

VARIABLES
  pattern,   \* emergent_patterns: [Pattern -> [status, text]], text 0 if absent
  listed,    \* what each curator's list shows of each pattern
  request,   \* the review each curator waits for
  texts, asked

patternVars == <<pattern, listed, request, texts, asked>>

NoRow == [status |-> "absent", text |-> 0, by |-> "none"]
NoRequest == [action |-> "none"]

PatternInit ==
  /\ pattern = [p \in Pattern |-> NoRow]
  /\ listed = [c \in Curator |-> [p \in Pattern |-> NoRow]]
  /\ request = [c \in Curator |-> NoRequest]
  /\ texts = 0 /\ asked = 0

-----------------------------------------------------------------------------
(* What an engine's answer may be: no answer or an error status; readable, *)
(* with a text of more than ten characters or not; torn, with a text to be *)
(* found or not.                                                           *)
EngineAnswer == {"none", "sound", "short", "torn", "noise"}

Usable(answer) == answer \in {"sound", "torn"}

(* Gemini, then Workers AI, then the crawl's own sentence.                 *)
Drafted(gemini, workers) ==
  CASE "gemini" \in Engines /\ Usable(gemini) -> "gemini"
    [] ~("gemini" \in Engines /\ Usable(gemini)) /\ "workers" \in Engines /\ Usable(workers) -> "workers"
    [] OTHER -> "heuristic"

(* Mutant: the upsert without its WHERE.                                   *)
RewrittenAlways(row, text, by) ==
  [status |-> IF row.status = "absent" THEN "draft" ELSE row.status, text |-> text, by |-> by]
Rewritten(row, text, by) ==
  IF row.status \in {"absent", "draft"} THEN [status |-> "draft", text |-> text, by |-> by]
  ELSE row

(* A crawl detects the pattern; a failed write is no step.                 *)
Detect(p, gemini, workers) ==
  /\ texts < MaxTexts /\ texts' = texts + 1
  /\ pattern' = [pattern EXCEPT ![p] = Rewritten(@, texts', Drafted(gemini, workers))]
  /\ UNCHANGED <<listed, request, asked>>

(* The list, by status; a pattern of another status is not shown.          *)
Shown(filter) == [p \in Pattern |-> IF pattern[p].status = filter \/ filter = "all"
                                    THEN pattern[p] ELSE NoRow]

List(c, filter) ==
  /\ request[c] = NoRequest
  /\ listed' = [listed EXCEPT ![c] = Shown(filter)]
  /\ UNCHANGED <<pattern, request, texts, asked>>

(* A request names the pattern; an edit carries the text, a verdict none.  *)
Ask(c, p, action) ==
  /\ asked < MaxAsked /\ asked' = asked + 1
  /\ request[c] = NoRequest /\ listed[c][p] # NoRow
  /\ action = "edit" => texts < MaxTexts
  /\ texts' = IF action = "edit" THEN texts + 1 ELSE texts
  /\ request' = [request EXCEPT ![c] = [action |-> action, pattern |-> p, text |-> texts']]
  /\ UNCHANGED <<pattern, listed>>

Reviewed(row, req) ==
  CASE req.action = "approve" -> [row EXCEPT !.status = "approved"]
    [] req.action = "reject"  -> [row EXCEPT !.status = "rejected"]
    [] req.action = "edit"    -> [row EXCEPT !.text = req.text, !.by = "curator"]

(* handleReviewPattern: whatever the status, by id; the row as it is then  *)
(* replaces the listed one.                                                *)
Review(c) ==
  /\ request[c] # NoRequest
  /\ LET p == request[c].pattern
     IN /\ pattern' = [pattern EXCEPT ![p] = Reviewed(@, request[c])]
        /\ listed' = [listed EXCEPT ![c][p] = pattern'[p]]
  /\ request' = [request EXCEPT ![c] = NoRequest]
  /\ UNCHANGED <<texts, asked>>

(* The call is lost, and the list stays as it was.                         *)
ReviewLost(c) ==
  /\ request[c] # NoRequest
  /\ request' = [request EXCEPT ![c] = NoRequest]
  /\ UNCHANGED <<pattern, listed, texts, asked>>

PatternNext ==
  \/ \E p \in Pattern, g, w \in EngineAnswer : Detect(p, g, w)
  \/ \E c \in Curator, f \in {"all", "draft", "approved", "rejected"} : List(c, f)
  \/ \E c \in Curator, p \in Pattern, a \in {"approve", "reject", "edit"} : Ask(c, p, a)
  \/ \E c \in Curator : Review(c)
  \/ \E c \in Curator : ReviewLost(c)

PatternSpec == PatternInit /\ [][PatternNext]_patternVars

-----------------------------------------------------------------------------
(* A decided pattern keeps its verdict and its text through every crawl    *)
(* that detects it again; only a curator changes it                        *)
(* (curatorPatternQueryBuilder.ts:23-29).                                  *)
PatternDecisionStands ==
  [][\A p \in Pattern :
       (pattern[p].status \in {"approved", "rejected"} /\ pattern'[p] # pattern[p]) =>
         \E c \in Curator : /\ request[c] # NoRequest /\ request'[c] = NoRequest
                            /\ request[c].pattern = p]_patternVars
=============================================================================
