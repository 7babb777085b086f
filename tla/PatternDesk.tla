----------------------------- MODULE PatternDesk -----------------------------
(***************************************************************************)
(* The curator's panel of pattern hypotheses: a list by status, an edit    *)
(* form on one card, and verdicts.  Lists and reviews overtake each other, *)
(* and the answer that comes last stays.  What the requests do to the      *)
(* table when crawls and other curators work on it is module Patterns;     *)
(* here one curator is alone with it.                                      *)
(*                                                                         *)
(* A text is given by the hypothesis it was written about.                 *)
(***************************************************************************)
EXTENDS DeskCalls, FiniteSets

CONSTANT Hypothesis

VARIABLES
  verdict,      \* emergent_patterns.status of each hypothesis
  wording,      \* and its text: what it was written about
  shelf,        \* patterns: [Hypothesis -> Nil or the status shown]
  pill,         \* filter
  waiting,      \* isLoading
  editing,      \* editingPatternId
  draft         \* editTitle and editSynthesis: Nil when empty

patternDeskOwn == <<verdict, wording, shelf, pill, waiting, editing, draft>>
patternDeskVars == <<patternDeskOwn, callVars>>

Verdict == {"draft", "approved", "rejected"}
Pill == Verdict \cup {"all"}
Reviews == {"approve", "reject", "edit"}

(* The panel is made when it is first shown, and asks for the drafts. *)
PatternDeskInit ==
  /\ verdict \in [Hypothesis -> Verdict]
  /\ wording = [h \in Hypothesis |-> h]
  /\ shelf = [h \in Hypothesis |-> Nil]
  /\ pill = "draft" /\ waiting = TRUE
  /\ editing = Nil /\ draft = Nil
  /\ CallsBegin("list", "draft", Nil)

-----------------------------------------------------------------------------
(* What the curator does.  Cards are drawn when no list is waited for. *)
CardShown(h) == ~waiting /\ shelf[h] # Nil

Refresh ==
  /\ Press /\ Sent("list", pill, Nil) /\ waiting' = TRUE
  /\ UNCHANGED <<verdict, wording, shelf, pill, editing, draft, settled>>

SetFilter(f) ==
  /\ Press /\ f # pill /\ pill' = f
  /\ editing' = Nil /\ draft' = Nil
  /\ Sent("list", f, Nil) /\ waiting' = TRUE
  /\ UNCHANGED <<verdict, wording, shelf, settled>>

StartEditing(h) ==
  /\ Press /\ CardShown(h) /\ editing # h
  /\ editing' = h /\ draft' = h
  /\ UNCHANGED <<verdict, wording, shelf, pill, waiting, asks, settled>>

CancelEditing ==
  /\ Press /\ editing # Nil /\ CardShown(editing)
  /\ editing' = Nil /\ draft' = Nil
  /\ UNCHANGED <<verdict, wording, shelf, pill, waiting, asks, settled>>

(* The form is emptied, or written anew. *)
Write(text) ==
  /\ Press /\ editing # Nil /\ CardShown(editing)
  /\ text \in {Nil, editing} /\ text # draft /\ draft' = text
  /\ UNCHANGED <<verdict, wording, shelf, pill, waiting, editing, asks, settled>>

(* saveEdit: an empty text is refused on the spot. *)
SaveEdit(h) ==
  /\ Press /\ editing = h /\ CardShown(h) /\ draft # Nil
  /\ Sent("edit", h, draft)
  /\ UNCHANGED <<verdict, wording, shelf, pill, waiting, editing, draft, settled>>

(* A card offers the verdicts its row does not bear. *)
Judge(h, kind) ==
  /\ Press /\ editing # h /\ CardShown(h)
  /\ ~(kind = "approve" /\ shelf[h] = "approved")
  /\ ~(kind = "reject" /\ shelf[h] = "rejected")
  /\ Sent(kind, h, Nil)
  /\ UNCHANGED <<verdict, wording, shelf, pill, waiting, editing, draft, settled>>

-----------------------------------------------------------------------------
(* The server takes the calls in any order. *)
Fits(status, filter) == filter = "all" \/ status = filter

ServeList(a) ==
  /\ Unserved(a, {"list"})
  /\ Served(a, [h \in Hypothesis |-> IF Fits(verdict[h], asks[a].of) THEN verdict[h] ELSE Nil])
  /\ UNCHANGED <<verdict, wording, shelf, pill, waiting, editing, draft, presses, settled>>

Judged(status, kind) ==
  CASE kind = "approve" -> "approved" [] kind = "reject" -> "rejected" [] kind = "edit" -> status

ServeReview(a) ==
  /\ Unserved(a, Reviews)
  /\ LET h == asks[a].of
         status == Judged(verdict[h], asks[a].kind)
     IN /\ verdict' = [verdict EXCEPT ![h] = status]
        /\ wording' = [wording EXCEPT ![h] = IF asks[a].kind = "edit" THEN asks[a].with ELSE @]
        /\ Served(a, status)
  /\ UNCHANGED <<shelf, pill, waiting, editing, draft, presses, settled>>

(* loadPatterns, the answer is here: whatever filter it was asked under. *)
ListAnswered(a) ==
  /\ Answered(a, {"list"})
  /\ shelf' = asks[a].answer /\ waiting' = FALSE
  /\ settled' = asks[a].alone
  /\ UNCHANGED <<verdict, wording, pill, editing, draft, presses>>

(* The call failed, before the server or after it: the list stays as it was. *)
ListFailed(a) ==
  /\ CallFails(a, {"list"})
  /\ waiting' = FALSE /\ settled' = FALSE
  /\ UNCHANGED <<verdict, wording, shelf, pill, editing, draft, presses>>

(* executeReviewAction: the row leaves the filter, or bears its new status. *)
(* Mutant: the row is replaced, whatever the filter. *)
AfterReviewKept(row, status) == IF row = Nil THEN Nil ELSE status
AfterReview(row, status) == IF row = Nil \/ ~Fits(status, pill) THEN Nil ELSE status

(* An edit that was saved closes the form, whichever card it is on by now. *)
ReviewAnswered(a) ==
  /\ Answered(a, Reviews)
  /\ shelf' = [shelf EXCEPT ![asks[a].of] = AfterReview(@, asks[a].answer)]
  /\ IF asks[a].kind = "edit" THEN editing' = Nil /\ draft' = Nil ELSE UNCHANGED <<editing, draft>>
  /\ settled' = (settled /\ asks[a].alone)
  /\ UNCHANGED <<verdict, wording, pill, waiting, presses>>

ReviewFailed(a) ==
  /\ CallFails(a, Reviews)
  /\ settled' = FALSE
  /\ UNCHANGED <<verdict, wording, shelf, pill, waiting, editing, draft, presses>>

PatternDeskNext ==
  \/ Refresh
  \/ \E f \in Pill : SetFilter(f)
  \/ \E h \in Hypothesis : StartEditing(h)
  \/ CancelEditing
  \/ \E t \in Hypothesis \cup {Nil} : Write(t)
  \/ \E h \in Hypothesis : SaveEdit(h)
  \/ \E h \in Hypothesis, k \in {"approve", "reject"} : Judge(h, k)
  \/ \E a \in Ask : ServeList(a)
  \/ \E a \in Ask : ServeReview(a)
  \/ \E a \in Ask : ListAnswered(a)
  \/ \E a \in Ask : ListFailed(a)
  \/ \E a \in Ask : ReviewAnswered(a)
  \/ \E a \in Ask : ReviewFailed(a)

PatternDeskSpec == PatternDeskInit /\ [][PatternDeskNext]_patternDeskVars

-----------------------------------------------------------------------------
(* When the last list came with no other call beside it, and every review  *)
(* since then did too, the panel shows the hypotheses of its filter, all   *)
(* of them, each with its status (PatternReviewViewModel.ts:162-184).      *)
ShelfIsTrue ==
  (settled /\ Quiet) =>
    \A h \in Hypothesis : shelf[h] = (IF Fits(verdict[h], pill) THEN verdict[h] ELSE Nil)

(* In whatever order calls and answers go, a text is saved with the        *)
(* hypothesis it was written about and never with another one whose form   *)
(* was open before (PatternReviewViewModel.ts:120-160).           *)
WordsStayHome == \A h \in Hypothesis : wording[h] = h

(* What the panel must not get wrong. *)
PatternDeskIsTrue == ShelfIsTrue /\ WordsStayHome
=============================================================================
