------------------------------ MODULE DeskForms ------------------------------
(***************************************************************************)
(* Two panels of the curator desk that wait for one answer at a time, the  *)
(* supplier candidates, where a review locks every row, and the form that  *)
(* ingests a story; and the bar above them, which publishes, rolls back    *)
(* and purges the edge's caches.  A candidate's review is one step of the server here,  *)
(* module Suppliers has its statements; the crawl and other reviewers add  *)
(* and take candidates.                                                    *)
(***************************************************************************)
EXTENDS DeskCalls

CONSTANT Candidate

VARIABLES
  undecided,    \* supplier_candidates pending
  onDesk,       \* candidates of the panel
  reviewing,    \* reviewingId
  mode,         \* of the form: "url" or "text"
  field,        \* [mode -> written or not]
  sending,      \* isSubmitting
  notice,       \* statusMessage of the form: Nil, "done" or "failed"
  busy,         \* isPublishing, isRollingBack, isPurgingCache: those that are set
  told          \* statusMessage of the bar: Nil, or [of: Bar, word]

barVars == <<busy, told>>
deskFormsOwn == <<undecided, onDesk, reviewing, mode, field, sending, notice, barVars>>
deskFormsVars == <<deskFormsOwn, callVars>>

Mode == {"url", "text"}
Bar == {"publish", "rollback", "purge"}

(* The panel asks for its candidates when it is first drawn. *)
DeskFormsInit ==
  /\ undecided \in SUBSET Candidate /\ onDesk = {} /\ reviewing = Nil
  /\ mode = "url" /\ field = [m \in Mode |-> FALSE] /\ sending = FALSE /\ notice = Nil
  /\ busy = {} /\ told = Nil
  /\ CallsBegin("candidates", Nil, Nil)

-----------------------------------------------------------------------------
(* Candidates.  The rows stay on the screen while they are asked for again. *)
LoadCandidates ==
  /\ Press /\ Sent("candidates", Nil, Nil)
  /\ UNCHANGED <<deskFormsOwn, settled>>

ReviewCandidate(c) ==
  /\ Press /\ c \in onDesk /\ reviewing = Nil
  /\ reviewing' = c /\ Sent("review", c, Nil)
  /\ UNCHANGED <<undecided, onDesk, mode, field, sending, notice, barVars, settled>>

(* The rows whose status is pending.                                       *)
PendingRows == undecided

ServeCandidates(a) ==
  /\ Unserved(a, {"candidates"}) /\ Served(a, PendingRows)
  /\ UNCHANGED <<deskFormsOwn, presses, settled>>

(* A candidate someone has decided is not found again. *)
ServeDecision(a) ==
  /\ Unserved(a, {"review"})
  /\ undecided' = undecided \ {asks[a].of}
  /\ Served(a, IF asks[a].of \in undecided THEN "done" ELSE "refused")
  /\ UNCHANGED <<onDesk, reviewing, mode, field, sending, notice, barVars, presses, settled>>

DecidedElsewhere(c) ==
  /\ Press
  /\ undecided' \in {undecided \ {c}, undecided \cup {c}} \ {undecided}
  /\ Elsewhere
  /\ UNCHANGED <<onDesk, reviewing, mode, field, sending, notice, barVars>>

CandidatesCome(a) ==
  /\ Answered(a, {"candidates"})
  /\ onDesk' = asks[a].answer /\ settled' = asks[a].alone
  /\ UNCHANGED <<undecided, reviewing, mode, field, sending, notice, barVars, presses>>

(* A list that fails takes the rows away. *)
CandidatesFail(a) ==
  /\ CallFails(a, {"candidates"})
  /\ onDesk' = {} /\ settled' = FALSE
  /\ UNCHANGED <<undecided, reviewing, mode, field, sending, notice, barVars, presses>>

(* A candidate decided leaves the list, and the panel is free again. *)
RowsAfter(c, answer) == IF answer = "done" THEN onDesk \ {c} ELSE onDesk
(* Mutant: a failure leaves the lock. *)
LockAfterKept(answer) == IF answer = "done" THEN Nil ELSE reviewing
LockAfter(answer) == Nil

DecisionComes(a) ==
  /\ Answered(a, {"review"})
  /\ onDesk' = RowsAfter(asks[a].of, asks[a].answer)
  /\ reviewing' = LockAfter(asks[a].answer)
  /\ settled' = (settled /\ asks[a].alone /\ asks[a].answer = "done")
  /\ UNCHANGED <<undecided, mode, field, sending, notice, barVars, presses>>

DecisionFails(a) ==
  /\ CallFails(a, {"review"})
  /\ reviewing' = LockAfter("failed") /\ settled' = FALSE
  /\ UNCHANGED <<undecided, onDesk, mode, field, sending, notice, barVars, presses>>

-----------------------------------------------------------------------------
(* The form.  Its mode and fields can be changed while a story is sent. *)
SetMode(m) ==
  /\ Press /\ m # mode /\ mode' = m /\ notice' = Nil
  /\ UNCHANGED <<undecided, onDesk, reviewing, field, sending, barVars, asks, settled>>

WriteField ==
  /\ Press /\ field' = [field EXCEPT ![mode] = ~@]
  /\ UNCHANGED <<undecided, onDesk, reviewing, mode, sending, notice, barVars, asks, settled>>

SubmitStory ==
  /\ Press /\ ~sending /\ field[mode]
  /\ sending' = TRUE /\ notice' = Nil /\ Sent("ingest", mode, Nil)
  /\ UNCHANGED <<undecided, onDesk, reviewing, mode, field, barVars, settled>>

(* The handler obtains the text, which an address may not yield, and, as   *)
(* module LiveFeed has it, publishes the story or fails to.                *)
Obtained(m) == {"text", "empty"} \cup (IF m = "url" THEN {"unreachable"} ELSE {})

ServeStory(a) ==
  /\ Unserved(a, {"ingest"})
  /\ \E got \in Obtained(asks[a].of), published \in BOOLEAN :
       Served(a, IF got = "text" /\ published THEN "done" ELSE "refused")
  /\ UNCHANGED <<deskFormsOwn, presses, settled>>

(* A story taken empties every field, whatever was written since. *)
StoryTaken(a) ==
  /\ Answered(a, {"ingest"}) /\ asks[a].answer = "done"
  /\ sending' = FALSE /\ notice' = "done" /\ field' = [m \in Mode |-> FALSE]
  /\ UNCHANGED <<undecided, onDesk, reviewing, mode, barVars, presses, settled>>

StoryFails(a) ==
  /\ CallFails(a, {"ingest"})
  /\ sending' = FALSE /\ notice' = "failed"
  /\ UNCHANGED <<undecided, onDesk, reviewing, mode, field, barVars, presses, settled>>

-----------------------------------------------------------------------------
(* The bar.  Each button waits for its own call; they share one message.   *)
Said(k, word) == told' = [of |-> k, word |-> word]

PressBar(k) ==
  /\ Press /\ k \notin busy
  /\ busy' = busy \cup {k} /\ Said(k, "under way") /\ Sent(k, Nil, Nil)
  /\ UNCHANGED <<undecided, onDesk, reviewing, mode, field, sending, notice, settled>>

(* What the server does with it is in modules LiveFeed and Edge.           *)
ServeBar(a) ==
  /\ Unserved(a, Bar)
  /\ \E answer \in {"done", "refused"} : Served(a, answer)
  /\ UNCHANGED <<deskFormsOwn, presses, settled>>

BarDone(a) ==
  /\ Answered(a, Bar)
  /\ busy' = busy \ {asks[a].kind}
  /\ Said(asks[a].kind, IF asks[a].answer = "done" THEN "done" ELSE "failed")
  /\ UNCHANGED <<undecided, onDesk, reviewing, mode, field, sending, notice, presses, settled>>

(* A call without an answer ends as a refused one does.                    *)
BarFails(a) ==
  /\ CallFails(a, Bar)
  /\ busy' = busy \ {asks[a].kind} /\ Said(asks[a].kind, "failed")
  /\ UNCHANGED <<undecided, onDesk, reviewing, mode, field, sending, notice, presses, settled>>

DeskFormsNext ==
  \/ LoadCandidates
  \/ \E c \in Candidate : ReviewCandidate(c)
  \/ \E a \in Ask : ServeCandidates(a)
  \/ \E a \in Ask : ServeDecision(a)
  \/ \E c \in Candidate : DecidedElsewhere(c)
  \/ \E a \in Ask : CandidatesCome(a)
  \/ \E a \in Ask : CandidatesFail(a)
  \/ \E a \in Ask : DecisionComes(a)
  \/ \E a \in Ask : DecisionFails(a)
  \/ \E m \in Mode : SetMode(m)
  \/ WriteField
  \/ SubmitStory
  \/ \E a \in Ask : ServeStory(a)
  \/ \E a \in Ask : StoryTaken(a)
  \/ \E a \in Ask : StoryFails(a)
  \/ \E k \in Bar : PressBar(k)
  \/ \E a \in Ask : ServeBar(a)
  \/ \E a \in Ask : BarDone(a)
  \/ \E a \in Ask : BarFails(a)

(* The browser answers every call in the end, with the server's word or an error. *)
CallEnds(a) ==
  \/ CandidatesCome(a) \/ CandidatesFail(a) \/ DecisionComes(a) \/ DecisionFails(a)
  \/ StoryTaken(a) \/ StoryFails(a) \/ BarDone(a) \/ BarFails(a)

DeskFormsFairness == \A a \in Ask : WF_deskFormsVars(CallEnds(a))

DeskFormsSpec == DeskFormsInit /\ [][DeskFormsNext]_deskFormsVars /\ DeskFormsFairness

-----------------------------------------------------------------------------
(* When the candidates came with no call beside them, and every review     *)
(* since then did too, the panel shows the pending ones, all of them       *)
(* (SupplierCandidatesPanelViewModel.ts:50-77).                            *)
CandidatesShown == (settled /\ Quiet) => onDesk = undecided

(* No panel stays locked: a review under way, a story being sent, or what  *)
(* a button of the bar began ends, whatever becomes of its call            *)
(* (SupplierCandidatesPanelViewModel.ts:69-77,                             *)
(* CuratorIngestViewModel.ts:90-101, EditorPublishController.ts:90-116).   *)
DeskUnlocks == /\ reviewing # Nil ~> reviewing = Nil
               /\ sending ~> ~sending
               /\ \A k \in Bar : k \in busy ~> k \notin busy
=============================================================================
