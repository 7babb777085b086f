------------------------------ MODULE TopicDesk ------------------------------
(***************************************************************************)
(* The curator's panel of topic governance: five queues to look through,   *)
(* a detail beside a row, and the changes the panel can ask for.  A change *)
(* reads the version of what it changes, asks with that version, and       *)
(* reloads the queue when it was made.  What the server does with two      *)
(* curators is module TopicGovernance; here a change is one step, and      *)
(* others change rows and versions at any time.                            *)
(*                                                                         *)
(* The button that approves a candidate is drawn disabled unless the row   *)
(* names a topic, no queue's rows do, and typing one does not enable it:   *)
(* there is no such action.  A rejection carries no topic, and the audit   *)
(* table refuses it after the version is spent.                            *)
(***************************************************************************)
EXTENDS DeskCalls

CONSTANTS
  Queue, RowsOf,   \* the queues' names, and [Queue -> rows that may be in it]
  DetailOf,        \* [Queue -> "evidence", "independence", "diff" or Nil]
  Candidates,      \* SUBSET Queue: whose rows can be rejected
  Shadowed,        \* the queue whose rows can be adopted
  Known            \* topics a curator types in the quick tool

FirstQueue == CHOOSE q \in Candidates : \A other \in Candidates : RowsOf[other] \subseteq RowsOf[q]

(* What the configurations keep to. *)
TopicDeskAssumption ==
  /\ RowsOf = [q \in Queue |-> RowsOf[q]]
  /\ FirstQueue \in Queue /\ Shadowed \in Queue

VARIABLES
  filed,      \* [Queue -> rows the server would list]
  active,     \* topics of the tool with status active; the others are deprecated
  version,    \* topic_governance_versions
  queue,      \* activeQueue
  rowsShown,  \* rows
  loading,    \* isLoading
  detail,     \* [kind of detail -> Nil, a row, or "none" after a failure]
  submitting  \* isSubmitting

topicDeskOwn == <<filed, active, version, queue, rowsShown, loading, detail, submitting>>
topicDeskVars == <<topicDeskOwn, callVars>>

Detail == {"evidence", "independence", "diff"}
NoDetail == [d \in Detail |-> Nil]
Row == UNION {RowsOf[q] : q \in Queue}
Governed == Row \cup Known

TopicDeskInit ==
  /\ filed = RowsOf /\ active = Known /\ version = [g \in Governed |-> 0]
  /\ queue = FirstQueue /\ rowsShown = {} /\ loading = TRUE
  /\ detail = NoDetail /\ submitting = FALSE
  /\ CallsBegin("queue", FirstQueue, Nil)

-----------------------------------------------------------------------------
(* Looking.  Rows and details are drawn when no queue is waited for. *)
SetActiveQueue(q) ==
  /\ Press /\ q # queue /\ queue' = q /\ detail' = NoDetail
  /\ Sent("queue", q, Nil) /\ loading' = TRUE
  /\ UNCHANGED <<filed, active, version, rowsShown, submitting, settled>>

RefreshQueue ==
  /\ Press /\ Sent("queue", queue, Nil) /\ loading' = TRUE
  /\ UNCHANGED <<filed, active, version, queue, rowsShown, detail, submitting, settled>>

RowDrawn(r) == ~loading /\ r \in rowsShown

(* Rows of the former queue are drawn as rows of this one when its list failed. *)
OpenDetail(r) ==
  /\ Press /\ RowDrawn(r) /\ DetailOf[queue] # Nil
  /\ Sent("detail", r, DetailOf[queue])
  /\ UNCHANGED <<topicDeskOwn, settled>>

ClearDetail ==
  /\ Press /\ ~loading /\ detail # NoDetail /\ detail' = NoDetail
  /\ UNCHANGED <<filed, active, version, queue, rowsShown, loading, submitting, asks, settled>>

(* Asking for a change: its buttons are disabled while one is under way. *)
Submit(g, change) ==
  /\ Press /\ ~submitting /\ submitting' = TRUE
  /\ Sent("version", g, change)
  /\ UNCHANGED <<filed, active, version, queue, rowsShown, loading, detail, settled>>

Reject(r) == RowDrawn(r) /\ queue \in Candidates /\ Submit(r, "reject")
Adopt(r) == RowDrawn(r) /\ queue = Shadowed /\ Submit(r, "adopt")
QuickTool(t, change) == Submit(t, change)

-----------------------------------------------------------------------------
(* The server. *)
ReadOf(call) ==
  CASE call.kind = "queue" -> filed[call.of]
    [] call.kind = "detail" -> call.of
    [] call.kind = "version" -> version[call.of]

ServeRead(a) ==
  /\ Unserved(a, {"queue", "detail", "version"}) /\ Served(a, ReadOf(asks[a]))
  /\ UNCHANGED <<topicDeskOwn, presses, settled>>

(* The version is claimed first, and stays spent when the change is        *)
(* refused; a role is adopted if its topic is published.                   *)
MayBeMade(g, change) ==
  CASE change = "adopt" -> BOOLEAN
    [] change = "suppress" -> {g \in active}
    [] change = "restore" -> {g \notin active}
    [] change = "reject" -> {FALSE}

ServeSubmit(a) ==
  /\ Unserved(a, {"submit"})
  /\ LET g == asks[a].of  change == asks[a].with[1]
         claimed == asks[a].with[2] = version[g]
     IN \E may \in MayBeMade(g, change) :
          /\ version' = [version EXCEPT ![g] = IF claimed THEN @ + 1 ELSE @]
          /\ filed' = [filed EXCEPT ![Shadowed] = IF claimed /\ may THEN @ \ {g} ELSE @]
          /\ active' = CASE claimed /\ may /\ change = "suppress" -> active \ {g}
                         [] claimed /\ may /\ change = "restore" -> active \cup {g}
                         [] OTHER -> active
          /\ Served(a, IF claimed /\ may THEN "done" ELSE "refused")
  /\ UNCHANGED <<queue, rowsShown, loading, detail, submitting, presses, settled>>

GovernedElsewhere(q, r) ==
  /\ Press /\ r \in RowsOf[q]
  /\ filed' = [filed EXCEPT ![q] = IF r \in @ THEN @ \ {r} ELSE @ \cup {r}]
  /\ version' = [version EXCEPT ![r] = @ + 1]
  /\ Elsewhere
  /\ UNCHANGED <<active, queue, rowsShown, loading, detail, submitting>>

-----------------------------------------------------------------------------
(* Answers. *)
QueueComes(a) ==
  /\ Answered(a, {"queue"})
  /\ rowsShown' = asks[a].answer /\ loading' = FALSE /\ settled' = asks[a].alone
  /\ UNCHANGED <<filed, active, version, queue, detail, submitting, presses>>

QueueFails(a) ==
  /\ CallFails(a, {"queue"})
  /\ loading' = FALSE /\ settled' = FALSE
  /\ UNCHANGED <<filed, active, version, queue, rowsShown, detail, submitting, presses>>

(* A detail is shown whatever the queue has become. *)
DetailComes(a) ==
  /\ Answered(a, {"detail"})
  /\ detail' = [detail EXCEPT ![asks[a].with] = asks[a].answer]
  /\ UNCHANGED <<filed, active, version, queue, rowsShown, loading, submitting, presses, settled>>

DetailFails(a) ==
  /\ CallFails(a, {"detail"})
  /\ detail' = [detail EXCEPT ![asks[a].with] = "none"]
  /\ UNCHANGED <<filed, active, version, queue, rowsShown, loading, submitting, presses, settled>>

(* The change is asked for with the version that was read, or 0. *)
AskedWith(a, v) == [asks EXCEPT ![a] = NewCall("submit", asks[a].of, <<asks[a].with, v>>, FALSE)]

VersionComes(a) ==
  /\ asks[a].kind = "version"
  /\ \/ asks[a].served /\ asks' = AskedWith(a, asks[a].answer)
     \/ asks' = AskedWith(a, 0)
  /\ UNCHANGED <<topicDeskOwn, presses, settled>>

(* A change made reloads the queue that is active by then. *)
Reloaded(a) == [asks EXCEPT ![a] =
  NewCall("queue", queue, Nil, \A b \in Ask \ {a} : Idle(b))]

ChangeMade(a) ==
  /\ asks[a].kind = "submit" /\ asks[a].answer = "done"
  /\ submitting' = FALSE /\ loading' = TRUE /\ asks' = Reloaded(a)
  /\ UNCHANGED <<filed, active, version, queue, rowsShown, detail, presses, settled>>

(* It was refused, which changed no row; or the call failed. *)
ChangeRefused(a) ==
  /\ Answered(a, {"submit"}) /\ asks[a].answer = "refused"
  /\ submitting' = FALSE
  /\ UNCHANGED <<filed, active, version, queue, rowsShown, loading, detail, presses, settled>>

ChangeFails(a) ==
  /\ CallFails(a, {"submit"})
  /\ submitting' = FALSE /\ settled' = FALSE
  /\ UNCHANGED <<filed, active, version, queue, rowsShown, loading, detail, presses>>

TopicDeskNext ==
  \/ \E q \in Queue : SetActiveQueue(q)
  \/ RefreshQueue
  \/ \E r \in Row : OpenDetail(r)
  \/ ClearDetail
  \/ \E r \in Row : Reject(r)
  \/ \E r \in Row : Adopt(r)
  \/ \E t \in Known, c \in {"suppress", "restore"} : QuickTool(t, c)
  \/ \E a \in Ask : ServeRead(a)
  \/ \E a \in Ask : ServeSubmit(a)
  \/ \E q \in Queue, r \in Row : GovernedElsewhere(q, r)
  \/ \E a \in Ask : QueueComes(a)
  \/ \E a \in Ask : QueueFails(a)
  \/ \E a \in Ask : DetailComes(a)
  \/ \E a \in Ask : DetailFails(a)
  \/ \E a \in Ask : VersionComes(a)
  \/ \E a \in Ask : ChangeMade(a)
  \/ \E a \in Ask : ChangeRefused(a)
  \/ \E a \in Ask : ChangeFails(a)

TopicCallEnds(a) ==
  \/ QueueComes(a) \/ QueueFails(a) \/ DetailComes(a) \/ DetailFails(a)
  \/ VersionComes(a) \/ ChangeMade(a) \/ ChangeRefused(a) \/ ChangeFails(a)

TopicDeskFairness == \A a \in Ask : WF_topicDeskVars(TopicCallEnds(a))

TopicDeskSpec == TopicDeskInit /\ [][TopicDeskNext]_topicDeskVars /\ TopicDeskFairness

-----------------------------------------------------------------------------
(* When the queue came with no call beside it, it is the queue that is     *)
(* active and what the server would list, whatever was changed from the    *)
(* panel since (TopicGovernanceViewModel.ts:64-81, 124-138).               *)
QueueIsTrue == (settled /\ Quiet) => rowsShown = filed[queue]

(* The panel never stays with its buttons disabled: a change that was      *)
(* asked for ends, whatever becomes of its two calls                       *)
(* (TopicGovernanceViewModel.ts:124-138, topicGovernanceService.ts:74-84). *)
ChangeEnds == submitting ~> ~submitting
=============================================================================
