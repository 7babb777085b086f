----------------------------- MODULE ThreadView -----------------------------
(***************************************************************************)
(* The threads' tab and the thread dialog.  The tab shows a list and, at   *)
(* its side, the timeline of the thread selected.  Neither load knows of   *)
(* another one under way: answers come in any order and the last one stays.*)
(* Nothing asks for a second page.                                         *)
(*                                                                         *)
(* A thread is given by the number of events it has had; a row is read     *)
(* when its answer comes.                                                  *)
(***************************************************************************)
EXTENDS Integers, SequencesExt

CONSTANTS
  Thread,
  Subject, Called,  \* names in stories, and [Subject -> threads of that canonical entity]
  PageSize,         \* rows of a list, 25 in the code
  MaxGrowth,        \* bound: events of one thread
  MaxReads,         \* bound: what the reader does
  None

(* What the configurations keep to. *)
ThreadViewAssumption == None \notin Thread /\ MaxGrowth \in Nat /\ PageSize \in Nat

VARIABLES
  rows,       \* story_threads, the latest event first: [id, events, coherent]
  filter,     \* statusFilter: "all" or "dormant"; every row is active
  list,       \* threads: those of the list held
  chosen,     \* selectedThreadId
  heading,    \* selectedThread: None or its id
  timeline,   \* events: None, or [of : thread, size]
  listing,    \* [filter -> list calls without an answer]
  telling,    \* [thread -> detail calls without an answer]
  dialog,     \* None, or what the dialog on top shows: [about, state]
  reads

threadsViewVars == <<rows, filter, list, chosen, heading, timeline, listing, telling, dialog, reads>>
ThreadFilter == {"all", "dormant"}

ThreadsViewInit ==
  /\ rows = <<>> /\ filter = "all" /\ list = {}
  /\ chosen = None /\ heading = None /\ timeline = None
  /\ listing = [f \in ThreadFilter |-> 0] /\ telling = [t \in Thread |-> 0]
  /\ dialog = None /\ reads = 0

Reading == reads < MaxReads /\ reads' = reads + 1

-----------------------------------------------------------------------------
(* The table.  A crawl's event takes its thread to the front; the events it
   leaves coherent may be fewer than those the row counts, even none. *)
Has(t) == \E i \in DOMAIN rows : rows[i].id = t
Place(t) == CHOOSE i \in DOMAIN rows : rows[i].id = t
RowOfThread(t) == rows[Place(t)]

Grow(t) ==
  LET size == IF Has(t) THEN RowOfThread(t).events ELSE 0
      others == IF Has(t) THEN RemoveAt(rows, Place(t)) ELSE rows
  IN /\ size < MaxGrowth
     /\ \E n \in {size, size + 1} : \E fit \in 0 .. n :
          rows' = <<[id |-> t, events |-> n, coherent |-> fit]>> \o others
     /\ UNCHANGED <<filter, list, chosen, heading, timeline, listing, telling, dialog, reads>>

(* handleListThreads: rows without events are taken out of the page; here
   the places of those that stay. *)
Listed(f) ==
  {i \in DOMAIN rows : f # "dormant" /\ i <= PageSize /\ rows[i].events > 0}

(* handleGetThreadDetail: the thread and what is coherent of its events. *)
Told(t) ==
  IF RowOfThread(t).coherent = 0 THEN None
  ELSE [of |-> t, size |-> RowOfThread(t).coherent]

-----------------------------------------------------------------------------
(* loadThreads: begun by every drawing of the tab and by a new filter. *)
Load(f) == list' = {} /\ listing' = [listing EXCEPT ![f] = @ + 1]

DrawTab ==
  /\ Reading /\ Load(filter)
  /\ UNCHANGED <<rows, filter, chosen, heading, timeline, telling, dialog>>

SetStatusFilter ==
  /\ Reading /\ filter' \in ThreadFilter \ {filter} /\ Load(filter')
  /\ UNCHANGED <<rows, chosen, heading, timeline, telling, dialog>>

(* selectThread empties the timeline before it asks. *)
Emptied == timeline' = None

Select(t, among) ==
  /\ chosen' = t /\ heading' = (IF t \in among THEN t ELSE None) /\ Emptied
  /\ telling' = [telling EXCEPT ![t] = @ + 1]

ListComes(f) ==
  /\ listing[f] > 0 /\ listing' = [listing EXCEPT ![f] = @ - 1]
  /\ list' = {rows[i].id : i \in Listed(f)}
  /\ IF chosen = None /\ Listed(f) # {}
     THEN \E i \in Listed(f) : /\ \A j \in Listed(f) : i <= j
                               /\ Select(rows[i].id, list')
     ELSE UNCHANGED <<chosen, heading, timeline, telling>>
  /\ UNCHANGED <<rows, filter, dialog, reads>>

(* An error empties what another load may have listed meanwhile. *)
ListFails(f) ==
  /\ listing[f] > 0 /\ listing' = [listing EXCEPT ![f] = @ - 1]
  /\ list' = {}
  /\ UNCHANGED <<rows, filter, chosen, heading, timeline, telling, dialog, reads>>

(* A thread with a timeline under its name is not asked for again. *)
Click(t) ==
  /\ Reading /\ t \in list
  /\ IF chosen = t /\ timeline # None THEN UNCHANGED <<chosen, heading, timeline, telling>>
     ELSE Select(t, list)
  /\ UNCHANGED <<rows, filter, list, listing, dialog>>

DetailComes(t) ==
  /\ telling[t] > 0 /\ telling' = [telling EXCEPT ![t] = @ - 1]
  /\ Has(t) /\ heading' = t /\ timeline' = Told(t)
  /\ UNCHANGED <<rows, filter, list, chosen, listing, dialog, reads>>

(* fetchThreadDetail turns a failure into no thread and no events. *)
DetailFails(t) ==
  /\ telling[t] > 0 /\ telling' = [telling EXCEPT ![t] = @ - 1]
  /\ timeline' = None
  /\ UNCHANGED <<rows, filter, list, chosen, heading, listing, dialog, reads>>

-----------------------------------------------------------------------------
(* openThreadDetailModal.  Of the rows with the subject's name any may be
   found.  Only a network error is told; any other failure, like a thread
   without coherent events, is a briefing being compiled. *)
OpenDialog(s) ==
  /\ Reading /\ dialog = None /\ dialog' = [about |-> s, state |-> "loading"]
  /\ UNCHANGED <<rows, filter, list, chosen, heading, timeline, listing, telling>>

DialogAnswer(s) ==
  {"error", "compiling"} \cup
  {"timeline" : t \in {u \in Called[s] : Has(u) /\ Told(u) # None}}

DialogComes ==
  /\ dialog # None /\ dialog.state = "loading"
  /\ \E what \in DialogAnswer(dialog.about) : dialog' = [dialog EXCEPT !.state = what]
  /\ UNCHANGED <<rows, filter, list, chosen, heading, timeline, listing, telling, reads>>

CloseDialog ==
  /\ dialog # None /\ dialog' = None
  /\ UNCHANGED <<rows, filter, list, chosen, heading, timeline, listing, telling, reads>>

ThreadsViewNext ==
  \/ \E t \in Thread : Grow(t)
  \/ DrawTab \/ SetStatusFilter
  \/ \E f \in ThreadFilter : ListComes(f)
  \/ \E f \in ThreadFilter : ListFails(f)
  \/ \E t \in Thread : Click(t)
  \/ \E t \in Thread : DetailComes(t)
  \/ \E t \in Thread : DetailFails(t)
  \/ \E s \in Subject : OpenDialog(s)
  \/ DialogComes \/ CloseDialog

ThreadsViewSpec == ThreadsViewInit /\ [][ThreadsViewNext]_threadsViewVars

-----------------------------------------------------------------------------
(* However late the answers are, events never stand under the name of
   another thread, and as soon as any list was shown a thread is chosen. *)
TimelineIsItsThreads ==
  /\ timeline # None => heading = timeline.of
  /\ list # {} => chosen # None
=============================================================================
