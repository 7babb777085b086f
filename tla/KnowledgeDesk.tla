---------------------------- MODULE KnowledgeDesk ----------------------------
(***************************************************************************)
(* The curator's read-only table of what the crawls have gathered: one of  *)
(* several tables, a page of it, sorted and filtered by the server.  Every *)
(* keystroke in the filter asks again, and the answer that comes last is   *)
(* drawn.  The pages' buttons are drawn under rows only: an empty page has *)
(* none.                                                                   *)
(***************************************************************************)
EXTENDS DeskCalls

CONSTANTS
  Table, FirstTable,
  Column, Sortable,   \* columns of a table; those the server sorts by
  DefaultSort,        \* what it sorts by otherwise
  Filter,             \* texts of the filter, "" among them
  RowsOfPage,         \* PAGE_SIZE, 20 in the code
  MaxRows             \* bound: rows that match

(* What the configurations keep to. *)
KnowledgeDeskAssumption ==
  RowsOfPage \in Nat \ {0} /\ MaxRows \in Nat /\ FirstTable \in Table /\ "" \in Filter

VARIABLES
  matching,    \* [Table -> [Filter -> rows that match]]
  question,    \* [table, page, sort, dir, filter] as the panel has them
  answer,      \* what is held: [question, sort, rows, total], rows a number
  asking,      \* isLoading
  failed,      \* error # null
  overlapped   \* history: two calls were under way at once, or rows changed

knowledgeOwn == <<matching, question, answer, asking, failed, overlapped>>
knowledgeVars == <<knowledgeOwn, callVars>>

FirstQuestion(t) == [table |-> t, page |-> 0, sort |-> Nil, dir |-> "DESC", filter |-> ""]
Emptied(q) == [question |-> q, sort |-> Nil, rows |-> 0, total |-> 0]

(* A filter matches no more rows than none does.  The first drawing asks. *)
KnowledgeInit ==
  /\ matching \in [Table -> {m \in [Filter -> 0 .. MaxRows] : \A f \in Filter : m[f] <= m[""]}]
  /\ question = FirstQuestion(FirstTable) /\ answer = Emptied(FirstQuestion(FirstTable))
  /\ asking = TRUE /\ failed = FALSE /\ overlapped = FALSE
  /\ CallsBegin("table", FirstQuestion(FirstTable), Nil)

-----------------------------------------------------------------------------
(* load, after a change of the question. *)
AskFor(q) ==
  /\ Press /\ question' = q /\ Sent("table", q, Nil)
  /\ asking' = TRUE /\ failed' = FALSE
  /\ overlapped' = (overlapped \/ ~Quiet)
  /\ UNCHANGED <<matching, answer, settled>>

Drawn == ~asking /\ ~failed /\ answer.rows > 0

SetTable(t) == t # question.table /\ AskFor(FirstQuestion(t))

Filtered(f) == [question EXCEPT !.filter = f, !.page = 0]
TypeFilter(f) == f # question.filter /\ AskFor(Filtered(f))

Turned(dir) == IF dir = "ASC" THEN "DESC" ELSE "ASC"
SetSort(c) ==
  Drawn /\ AskFor([question EXCEPT !.sort = c,
                     !.dir = IF question.sort = c THEN Turned(@) ELSE "ASC"])

NextPage ==
  /\ Drawn /\ (question.page + 1) * RowsOfPage < answer.total
  /\ AskFor([question EXCEPT !.page = @ + 1])

PrevPage == Drawn /\ question.page > 0 /\ AskFor([question EXCEPT !.page = @ - 1])

-----------------------------------------------------------------------------
(* The server: the count, and the page; a sort it does not know is not one. *)
PageRows(total, page) ==
  LET rest == total - page * RowsOfPage
  IN IF rest <= 0 THEN 0 ELSE IF rest < RowsOfPage THEN rest ELSE RowsOfPage

TableRead(q) ==
  LET total == matching[q.table][q.filter]
  IN [question |-> q, sort |-> IF q.sort \in Sortable THEN q.sort ELSE DefaultSort,
      rows |-> PageRows(total, q.page), total |-> total]

ServeTable(a) ==
  /\ Unserved(a, {"table"}) /\ Served(a, TableRead(asks[a].of))
  /\ UNCHANGED <<knowledgeOwn, presses, settled>>

RowsChange(t, f) ==
  /\ Press /\ \E n \in 0 .. MaxRows : n # matching[t][f] /\ matching' = [matching EXCEPT ![t][f] = n]
  /\ Elsewhere /\ overlapped' = TRUE
  /\ UNCHANGED <<question, answer, asking, failed>>

TableComes(a) ==
  /\ Answered(a, {"table"})
  /\ answer' = asks[a].answer /\ asking' = FALSE /\ settled' = asks[a].alone
  /\ UNCHANGED <<matching, question, failed, overlapped, presses>>

TableFails(a) ==
  /\ CallFails(a, {"table"})
  /\ answer' = Emptied(question) /\ asking' = FALSE /\ failed' = TRUE /\ settled' = FALSE
  /\ UNCHANGED <<matching, question, overlapped, presses>>

KnowledgeNext ==
  \/ \E t \in Table : SetTable(t)
  \/ \E f \in Filter : TypeFilter(f)
  \/ \E c \in Column : SetSort(c)
  \/ NextPage
  \/ PrevPage
  \/ \E a \in Ask : ServeTable(a)
  \/ \E t \in Table, f \in Filter : RowsChange(t, f)
  \/ \E a \in Ask : TableComes(a)
  \/ \E a \in Ask : TableFails(a)

KnowledgeSpec == KnowledgeInit /\ [][KnowledgeNext]_knowledgeVars

-----------------------------------------------------------------------------
(* A table that came with no call beside it answers the question the panel *)
(* shows, of the rows there are (CuratorKnowledgeBaseViewModel.ts:127-152). *)
TableIsTrue ==
  (settled /\ Quiet /\ ~failed) => answer = TableRead(question)

(* While answers come in turn and rows do not change, the curator is never *)
(* left on a page past the last: it would have no button to go back        *)
(* (CuratorKnowledgeBaseViewModel.ts:88-125, KnowledgeBaseView.ts:88-160). *)
PageExists ==
  (Quiet /\ ~overlapped) =>
    (question.page = 0 \/ question.page * RowsOfPage < matching[question.table][question.filter])

KnowledgeDeskIsTrue == TableIsTrue /\ PageExists
=============================================================================
