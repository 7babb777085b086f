----------------------------- MODULE MCStoring -----------------------------
(***************************************************************************)
(* What a crawl does again until it is done: the durable write of the same *)
(* stories, the archive of those that left the homepage, and the threads   *)
(* they belong to.  They share no variable, so a behaviour is of one of    *)
(* the three, and the others rest where they began.                        *)
(***************************************************************************)
EXTENDS ArchiveSync, Threads, TLC

CONSTANTS s1, s2, s3, NoInput

(* Three stories, one of them in the committed snapshot.                   *)
MCStory == {s1, s2, s3}
MCCommitted == {s1}

VARIABLES
  part,       \* the component this behaviour is of
  \* DurableIngest
  run, articles, manifest, cluster, source, lineage, orphan, blob, published,
  stage, input, score, plan, k, draft, interruptions

(* The same two stories, crawled again and again.                          *)
Store == INSTANCE DurableIngest WITH
  Article <- {"a", "b"}, Event <- {"A", "B"}, Members <- "A" :> <<"a">> @@ "B" :> <<"b">>,
  Input <- {"same"}, EventsOf <- "same" :> <<"A", "B">>, Score <- {1}, None <- NoInput,
  HomepageSize <- 1, MaxClusterIds <- 4, MaxFaults <- 2,
  homepage <- published, pc <- stage, faults <- interruptions

(* Two threads and four stories: b was split from a; e tells of a's        *)
(* programme under another topic, so that the lookup does not find the     *)
(* thread; c starts no thread, joins both, and mentions only the second.   *)
MCNames == "a" :> {"t1"} @@ "b" :> {"t1", "t2"} @@ "c" :> {"t2"} @@ "e" :> {"t1"}
MCLead == "a" :> "t1" @@ "b" :> "t2" @@ "c" :> "t2" @@ "e" :> "t1"
MCResembles == {<<"c", "t1">>}
MCMention == {<<"a", "t1">>, <<"b", "t1">>, <<"b", "t2">>, <<"c", "t2">>, <<"e", "t1">>}
MCTopical == "a" :> {"x"} @@ "b" :> {"x"} @@ "c" :> {"x", "y"} @@ "e" :> {"y"}
MCAt == "a" :> 2 @@ "b" :> 1 @@ "c" :> 4 @@ "e" :> 3

storeVars == <<run, articles, manifest, cluster, source, lineage, orphan, blob, published,
               stage, input, score, plan, k, draft, interruptions>>
allVars == <<part, vars, storeVars, threadVars>>

-----------------------------------------------------------------------------
(* A step of one component: it is the one looked at, and the others stay.  *)
OnlyArchive == part = "archive" /\ UNCHANGED <<part, storeVars, threadVars>>
OnlyStore == part = "store" /\ UNCHANGED <<part, vars, threadVars>>
OnlyThreads == part = "threads" /\ UNCHANGED <<part, vars, storeVars>>

ArchiveSteps ==
  \/ OnlyArchive /\ BailOut
  \/ OnlyArchive /\ BeginCrawl
  \/ OnlyArchive /\ Persist
  \/ \E x \in Story, effect, ok \in BOOLEAN : OnlyArchive /\ PutPayload(x, effect, ok)
  \/ \E effect, ok \in BOOLEAN : OnlyArchive /\ InsertRow(effect, ok)
  \/ \E ok \in BOOLEAN : OnlyArchive /\ Lookup(ok)
  \/ \E x \in Story, effect, ok \in BOOLEAN : OnlyArchive /\ ErasePayload(x, effect, ok)
  \/ \E effect, ok \in BOOLEAN : OnlyArchive /\ DeleteRows(effect, ok)
  \/ OnlyArchive /\ Refuse
  \/ OnlyArchive /\ Admit
  \/ OnlyArchive /\ Deploy
  \/ OnlyArchive /\ Killed

ThreadSteps ==
  \/ OnlyThreads /\ BeginPass
  \/ OnlyThreads /\ LoadAny
  \/ OnlyThreads /\ MatchNext
  \/ OnlyThreads /\ Compose
  \/ OnlyThreads /\ Write
  \/ OnlyThreads /\ WriteFails
  \/ OnlyThreads /\ EndPass
  \/ OnlyThreads /\ SelectAny
  \/ OnlyThreads /\ PassKilled

AllNext ==
  \/ ArchiveSteps
  \/ OnlyStore /\ Store!Next
  \/ ThreadSteps

AllInit ==
  /\ part \in {"archive", "store", "threads"}
  /\ Init /\ Store!Init /\ ThreadInit

(* What the parts' own specifications assume, of the part looked at.       *)
AllFairness ==
  /\ WF_vars(part = "archive" /\ Work) /\ WF_vars(part = "archive" /\ BeginCrawl)
  /\ WF_storeVars(part = "store" /\ Store!Work)
  /\ SF_storeVars(part = "store" /\ Store!BeginCrawl("same", 1))
  /\ WF_threadVars(part = "threads" /\ PassGoesOn)
  /\ WF_threadVars(part = "threads" /\ BeginPass)

AllSpec == AllInit /\ [][AllNext]_allVars /\ AllFairness

-----------------------------------------------------------------------------
(* While crawls of the same stories go on and failures end, a run that     *)
(* failed is completed (durableIngestService.ts).                          *)
FailedRunCompletes == Store!FailedRunCompletes

(* The constants keep what the module asks of them.                        *)
ASSUME ThreadAssumed == ThreadAssumption
=============================================================================
