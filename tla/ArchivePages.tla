---------------------------- MODULE ArchivePages ----------------------------
(***************************************************************************)
(* The archive as a reader pages through it.  A crawl archives the stories *)
(* that leave the feed, all under one time, and takes back one that        *)
(* returns; a reader searches, or browses with a blank query, and is sent  *)
(* the next page when the end of the list shows, from the time of the last *)
(* row on.  Calls of one page may overlap.                                 *)
(*                                                                         *)
(* A list is how often it holds each story.  Caches are left out.          *)
(***************************************************************************)
EXTENDS Integers, FiniteSets, FiniteSetsExt

CONSTANTS
  Story,
  Query,
  Browse,       \* the blank query
  Matches,      \* [Query -> SUBSET Story]
  Unreadable,   \* SUBSET Story: archived, with a payload that cannot be read
  PageSize,     \* 30 in the code
  MaxClock,     \* bound: crawls that archive
  MaxCalls      \* bound: calls of the page

(* What the configurations keep to. *)
ArchivePageAssumption ==
  /\ PageSize \in Nat \ {0} /\ IsFiniteSet(Story)
  /\ Browse \in Query /\ Matches \in [Query -> SUBSET Story]

VARIABLES
  clock,
  archivedAt,   \* archived_stories: [Story -> time], 0 if not archived
  query, listed, cursor, loading, loadingMore, failed,   \* the view model
  calls,        \* calls under way: {[n, kind, query, before]}
  asked,        \* calls made
  lastSearch,   \* history: the number of the last search
  overtaken     \* history: an older call was answered after a newer search

archivePageVars == <<clock, archivedAt, query, listed, cursor, loading, loadingMore,
                     failed, calls, asked, lastSearch, overtaken>>

Unlisted == [x \in Story |-> 0]

ArchivePageInit ==
  /\ clock = 0 /\ archivedAt = [x \in Story |-> 0]
  /\ query = Browse /\ listed = Unlisted /\ cursor = 0
  /\ loading = FALSE /\ loadingMore = FALSE /\ failed = FALSE
  /\ calls = {} /\ asked = 0
  /\ lastSearch = 0 /\ overtaken = FALSE

ViewModel == <<query, listed, cursor, loading, loadingMore, failed>>
Calls == <<calls, asked, lastSearch, overtaken>>

(* One crawl's stories share one archived_at.                              *)
ArchiveBatch(xs) ==
  /\ clock < MaxClock /\ clock' = clock + 1
  /\ xs # {} /\ \A x \in xs : archivedAt[x] = 0
  /\ archivedAt' = [x \in Story |-> IF x \in xs THEN clock' ELSE archivedAt[x]]
  /\ UNCHANGED <<ViewModel, Calls>>

Return(x) ==
  /\ archivedAt[x] > 0
  /\ archivedAt' = [archivedAt EXCEPT ![x] = 0]
  /\ UNCHANGED <<clock, ViewModel, Calls>>

-----------------------------------------------------------------------------
(* search, the browse listing of an opened tab included.                   *)
Search(q) ==
  /\ asked < MaxCalls /\ asked' = asked + 1
  /\ query' = q /\ loading' = TRUE /\ failed' = FALSE
  /\ calls' = calls \cup {[n |-> asked', kind |-> "search", query |-> q, before |-> 0]}
  /\ lastSearch' = asked'
  /\ UNCHANGED <<clock, archivedAt, listed, cursor, loadingMore, overtaken>>

(* The end of the list is in sight: there is one, and nothing hides it.    *)
EndInSight == ~failed /\ ~loading /\ listed # Unlisted

LoadMore ==
  /\ EndInSight
  /\ ~loadingMore /\ cursor # 0
  /\ asked < MaxCalls /\ asked' = asked + 1
  /\ loadingMore' = TRUE
  /\ calls' = calls \cup {[n |-> asked', kind |-> "more", query |-> query, before |-> cursor]}
  /\ UNCHANGED <<clock, archivedAt, query, listed, cursor, loading, failed,
                 lastSearch, overtaken>>

Older(x, before) == archivedAt[x] < before

Found(call) == {x \in Matches[call.query] : archivedAt[x] > 0 /\
                                             (call.before = 0 \/ Older(x, call.before))}

(* ORDER BY archived_at DESC LIMIT: any choice among rows of one time.     *)
Pages(rows) ==
  IF Cardinality(rows) <= PageSize THEN {rows}
  ELSE {page \in kSubset(PageSize, rows) :
          \A x \in page, y \in rows \ page : archivedAt[x] >= archivedAt[y]}

(* One row more was asked for, and says whether there is a next page.      *)
NextCursor(rows, page) ==
  IF Cardinality(rows) > PageSize THEN CHOOSE t \in {archivedAt[x] : x \in page} :
                                         \A x \in page : t <= archivedAt[x]
  ELSE 0

Readable(page) == page \ Unreadable
Appended(page) == [x \in Story |-> IF x \in Readable(page) /\ listed[x] < 2 THEN listed[x] + 1
                                   ELSE listed[x]]
Anew(page) == [x \in Story |-> IF x \in Readable(page) THEN 1 ELSE 0]

Received(call) ==
  /\ calls' = calls \ {call}
  /\ overtaken' = (overtaken \/ call.n < lastSearch)
  /\ UNCHANGED <<clock, archivedAt, query, asked, lastSearch>>

(* The view model takes an answer for that of what it shows.               *)
SearchAnswered(call) ==
  /\ call.kind = "search" /\ Received(call)
  /\ LET rows == Found(call)
     IN \E page \in Pages(rows) : listed' = Anew(page) /\ cursor' = NextCursor(rows, page)
  /\ loading' = FALSE /\ failed' = FALSE /\ UNCHANGED loadingMore

MoreAnswered(call) ==
  /\ call.kind = "more" /\ Received(call)
  /\ LET rows == Found(call)
     IN \E page \in Pages(rows) : listed' = Appended(page) /\ cursor' = NextCursor(rows, page)
  /\ loadingMore' = FALSE /\ failed' = FALSE /\ UNCHANGED loading

(* A call that fails answers with no story, no cursor and an error.        *)
SearchFails(call) ==
  /\ call.kind = "search" /\ Received(call)
  /\ listed' = Unlisted /\ cursor' = 0
  /\ loading' = FALSE /\ failed' = TRUE /\ UNCHANGED loadingMore

MoreFails(call) ==
  /\ call.kind = "more" /\ Received(call)
  /\ cursor' = 0
  /\ loadingMore' = FALSE /\ failed' = TRUE /\ UNCHANGED <<listed, loading>>

ArchivePageNext ==
  \/ \E xs \in SUBSET Story : ArchiveBatch(xs)
  \/ \E x \in Story : Return(x)
  \/ \E q \in Query : Search(q)
  \/ LoadMore
  \/ \E call \in calls : SearchAnswered(call)
  \/ \E call \in calls : MoreAnswered(call)
  \/ \E call \in calls : SearchFails(call)
  \/ \E call \in calls : MoreFails(call)

ArchivePageSpec == ArchivePageInit /\ [][ArchivePageNext]_archivePageVars

-----------------------------------------------------------------------------
(* Once every call is answered, the list is that of the query in the box,  *)
(* and holds no story twice, though crawls archive and take back between   *)
(* its pages; unless an older call was answered after a newer search, which *)
(* nothing prevents (ArchiveViewModel.ts:56-86).                           *)
ListIsOneSearch ==
  (calls = {} /\ ~overtaken) =>
    \A x \in Story : /\ listed[x] <= 1
                     /\ listed[x] = 1 => x \in Matches[query]
=============================================================================
