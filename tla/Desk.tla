-------------------------------- MODULE Desk --------------------------------
(***************************************************************************)
(* One open page, a reader's or a curator's.  It fetches the feed once     *)
(* when it loads, polls it on focus and every five minutes, and shows what *)
(* it got: the stories at once, the river when the stories are saved.  A   *)
(* curator works on the stories shown, and publishes them as they are.     *)
(*                                                                         *)
(* A feed is its stamp; 0 is the built-in seed.  One story stands for all  *)
(* a curator may delete.  Every feed has stories, a river and a stamp, as  *)
(* a crawl and a publish write it.                                         *)
(***************************************************************************)
EXTENDS Integers, Sequences, SequencesExt

CONSTANTS
  MaxStamp,    \* bound: feeds there may be
  MaxChanges,  \* bound: times the feed that is served changes
  MaxFaults,   \* bound: calls and saves that fail
  MaxEdits,    \* bound: deletions
  MaxSaves     \* bound: saves under way at once

Stamp == 1..MaxStamp

VARIABLES
  served,         \* the feed /data/news.json answers with
  cached,         \* feeds an edge cache may still answer with
  hydration,      \* the fetch of the loading page: [step, feed]
  poll,           \* checkAndSync: [step, feed]
  lastGeneratedAt,
  clusters, river,  \* the feeds whose stories and river are on screen
  gone,           \* the story is tombstoned on screen
  saves,          \* feeds whose stories are being saved, oldest first
  publish,        \* the publish under way: [step, gone, meant]
  rows,           \* curator_overrides holds the deletion
  changes, faults, edits,
  meant,          \* history: deleted by the curator, not yet published
  spoiled         \* history: a save failed or was overtaken by the hydration

deskVars == <<served, cached, hydration, poll, lastGeneratedAt, clusters, river, gone,
              saves, publish, rows, changes, faults, edits, meant, spoiled>>

NoFetch == [step |-> "none", feed |-> 0]
NotPublishing == [step |-> "none", gone |-> FALSE, meant |-> FALSE]

DeskInit ==
  /\ served = 1 /\ cached = {1}
  /\ hydration = NoFetch /\ poll = NoFetch
  /\ lastGeneratedAt = 0 /\ clusters = 0 /\ river = 0 /\ gone = FALSE
  /\ saves = <<>> /\ publish = NotPublishing /\ rows = FALSE
  /\ changes = 0 /\ faults = 0 /\ edits = 0
  /\ meant = FALSE /\ spoiled = FALSE

Fault == faults < MaxFaults /\ faults' = faults + 1

Screen == <<lastGeneratedAt, clusters, river, gone>>
Work == <<publish, rows, edits, meant>>

(* A crawl deploys, another curator publishes, or one rolls back: any      *)
(* other stamp, older ones included.                                       *)
Serve(t) ==
  /\ changes < MaxChanges /\ changes' = changes + 1
  /\ t # served /\ served' = t /\ cached' = cached \cup {t}
  /\ UNCHANGED <<hydration, poll, Screen, saves, Work, faults, spoiled>>

(* The caches in front of the feed let go of older answers.                *)
Expire ==
  /\ cached # {served} /\ cached' = {served}
  /\ UNCHANGED <<served, hydration, poll, Screen, saves, Work, changes, faults, spoiled>>

-----------------------------------------------------------------------------
(* The loading page.  It does not know of the polls, nor they of it.       *)
Open ==
  /\ hydration.step = "none"
  /\ \E t \in cached : hydration' = [step |-> "asked", feed |-> t]
  /\ UNCHANGED <<served, cached, poll, Screen, saves, Work, changes, faults, spoiled>>

Hydrate ==
  /\ hydration.step = "asked"
  /\ lastGeneratedAt' = hydration.feed
  /\ clusters' = hydration.feed /\ river' = hydration.feed /\ gone' = FALSE
  /\ spoiled' = (spoiled \/ saves # <<>>)
  /\ hydration' = [hydration EXCEPT !.step = "done"]
  /\ UNCHANGED <<served, cached, poll, saves, Work, changes, faults>>

HydrationFails ==
  /\ hydration.step = "asked" /\ Fault
  /\ hydration' = [hydration EXCEPT !.step = "done"]
  /\ UNCHANGED <<served, cached, poll, Screen, saves, Work, changes, spoiled>>

-----------------------------------------------------------------------------
(* checkAndSync: one at a time.  The cooldown is left out: a check may come *)
(* at any time.                                                            *)
Check ==
  /\ hydration.step # "none"
  /\ poll.step = "none"
  /\ \E t \in cached : poll' = [step |-> "checking", feed |-> t]
  /\ UNCHANGED <<served, cached, hydration, Screen, saves, Work, changes, faults, spoiled>>

(* Mutant: only a later stamp is news.                                     *)
NewsIfLater(t) == t > lastGeneratedAt
News(t) == t # lastGeneratedAt

Unchanged ==
  /\ poll.step = "checking" /\ ~News(poll.feed)
  /\ poll' = NoFetch
  /\ UNCHANGED <<served, cached, hydration, Screen, saves, Work, changes, faults, spoiled>>

(* The stories are replaced, whatever was done to them, and their save     *)
(* begun; the river waits for it.                                          *)
Sync ==
  /\ poll.step = "checking" /\ News(poll.feed) /\ Len(saves) < MaxSaves
  /\ lastGeneratedAt' = poll.feed
  /\ clusters' = poll.feed /\ gone' = FALSE
  /\ saves' = Append(saves, poll.feed)
  /\ poll' = NoFetch
  /\ UNCHANGED <<served, cached, hydration, river, Work, changes, faults, spoiled>>

CheckFails ==
  /\ poll.step = "checking" /\ Fault
  /\ poll' = NoFetch
  /\ UNCHANGED <<served, cached, hydration, Screen, saves, Work, changes, spoiled>>

(* Writes to one object store finish in the order they were begun.         *)
Saved ==
  /\ saves # <<>>
  /\ river' = Head(saves) /\ saves' = Tail(saves)
  /\ UNCHANGED <<served, cached, hydration, poll, lastGeneratedAt, clusters, gone,
                 Work, changes, faults, spoiled>>

(* A save that is refused (storage full) leaves the river as it was.       *)
SaveFails ==
  /\ saves # <<>> /\ Fault
  /\ saves' = Tail(saves) /\ spoiled' = TRUE
  /\ UNCHANGED <<served, cached, hydration, poll, Screen, Work, changes>>

-----------------------------------------------------------------------------
(* The curator's desk.                                                     *)
Delete ==
  /\ hydration.step = "done" /\ clusters # 0 /\ ~gone
  /\ edits < MaxEdits /\ edits' = edits + 1
  /\ gone' = TRUE /\ meant' = TRUE
  /\ UNCHANGED <<served, cached, hydration, poll, lastGeneratedAt, clusters, river,
                 saves, publish, rows, changes, faults, spoiled>>

(* What goes out is what the page holds at the click.                      *)
Publish ==
  /\ publish.step = "none" /\ clusters # 0
  /\ publish' = [step |-> "sent", gone |-> gone, meant |-> meant]
  /\ meant' = FALSE
  /\ UNCHANGED <<served, cached, hydration, poll, Screen, saves, rows, edits,
                 changes, faults, spoiled>>

(* The row is written and the snapshot is live, under a stamp of its own.  *)
Publishes(t) ==
  /\ publish.step = "sent"
  /\ changes < MaxChanges /\ changes' = changes + 1
  /\ t # served /\ served' = t /\ cached' = cached \cup {t}
  /\ rows' = (rows \/ publish.gone)
  /\ publish' = NotPublishing
  /\ UNCHANGED <<hydration, poll, Screen, saves, edits, meant, faults, spoiled>>

PublishFails ==
  /\ publish.step = "sent" /\ Fault
  /\ publish' = NotPublishing /\ meant' = (meant \/ publish.meant)
  /\ UNCHANGED <<served, cached, hydration, poll, Screen, saves, rows, edits, changes, spoiled>>

DeskNext ==
  \/ \E t \in Stamp : Serve(t)
  \/ Expire \/ Open \/ Hydrate \/ HydrationFails
  \/ Check \/ Unchanged \/ Sync \/ CheckFails \/ Saved \/ SaveFails
  \/ Delete \/ Publish
  \/ \E t \in Stamp : Publishes(t)
  \/ PublishFails

(* The interval of the page, and calls that are answered.                  *)
DeskFairness ==
  /\ WF_deskVars(Expire) /\ WF_deskVars(Hydrate) /\ WF_deskVars(Check)
  /\ WF_deskVars(Unchanged \/ Sync) /\ WF_deskVars(Saved)

DeskSpec == DeskInit /\ [][DeskNext]_deskVars /\ DeskFairness

-----------------------------------------------------------------------------
(* The page comes to show the feed that is served, an older one after a    *)
(* rollback too, stories and river, unless a save was lost or overtaken    *)
(* (feedSyncService.ts:116-159, main.ts:64-90, 266-275).                   *)
Shows(t) == clusters = t /\ (spoiled \/ river = t)
FeedReachesScreen ==
  \A t \in Stamp : (hydration.step = "done" /\ served = t) ~> (served # t \/ Shows(t))

(* What the code promises and does not keep: the next publish after a      *)
(* deletion tells of it (EditorViewModel.ts:211-216).  A poll in between   *)
(* puts the story back.                                                    *)
PublishTellsDeletion == publish.step = "sent" => (publish.meant => publish.gone)
=============================================================================
