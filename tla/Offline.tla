------------------------------- MODULE Offline -------------------------------
(***************************************************************************)
(* One browser that comes back to the site: the service worker in front of *)
(* its pages, the store of the last stories, and the banners about the     *)
(* network and the installation.  The site is deployed again and again;    *)
(* each build names its scripts by their content, and the host answers a   *)
(* name it no longer has with the page itself.                             *)
(***************************************************************************)
EXTENDS Integers

CONSTANTS
  Builds,     \* how many builds there are, any of which may be deployed
  MaxDeploys, \* bound: deployments
  MaxVisits,  \* bound: visits
  MaxOutages  \* bound: times the network goes

Build == 1..Builds
(* What the configurations keep to. *)
OfflineAssumption == Builds \in Nat \ {0}

VARIABLES
  deployed,   \* the build the host has
  online,
  worker,     \* the worker is there, and in charge of the next visits
  indexPage, rootPage, \* the builds whose page is cached as /index.html and as /
  cachedChunk,\* [Build -> "none", "script" or "page"]: what the chunk's name holds
  page,       \* the page open: [build, chunk, screen, offline], build 0 if none
  store,      \* the feed in IndexedDB, 0 if none
  banner,     \* about the network: "none", "offline", "online"
  fading,     \* the four seconds run of the banner shown
  prompt,     \* the install event is kept
  invited,    \* the install banner is shown
  deploys, visits, outages,
  brokenAgain \* history: online visits in a row whose chunk did not run

offlineVars == <<deployed, online, worker, indexPage, rootPage, cachedChunk, page, store, banner, fading,
                 prompt, invited, deploys, visits, outages, brokenAgain>>

(* chunk: "wanted" until a part of the page is asked for that is a script  *)
(* of its own.  screen: the feed shown, 0 the seed.  dark: the page was    *)
(* opened without the network.                                             *)
NoPage == [build |-> 0, chunk |-> "wanted", screen |-> 0, fetched |-> FALSE, dark |-> FALSE]

OfflineInit ==
  /\ deployed = 1 /\ online = TRUE /\ worker = FALSE
  /\ indexPage = 0 /\ rootPage = 0 /\ cachedChunk = [b \in Build |-> "none"]
  /\ page = NoPage /\ store = 0 /\ banner = "none" /\ fading = FALSE
  /\ prompt = FALSE /\ invited = FALSE
  /\ deploys = 0 /\ visits = 0 /\ outages = 0 /\ brokenAgain = 0

Worker == <<worker, indexPage, rootPage, cachedChunk>>
Banners == <<banner, fading, prompt, invited>>
Bounds == <<deploys, visits, outages>>

Deploy(b) ==
  /\ deploys < MaxDeploys /\ deploys' = deploys + 1
  /\ b # deployed /\ deployed' = b /\ brokenAgain' = 0
  /\ UNCHANGED <<online, Worker, page, store, Banners, visits, outages>>

-----------------------------------------------------------------------------
(* A visit, or a reload.  The banners go with the page of before.          *)
Opened(b) ==
  /\ visits < MaxVisits /\ visits' = visits + 1
  /\ page' = [NoPage EXCEPT !.build = b, !.dark = ~online]
  /\ banner' = "none" /\ fading' = FALSE /\ prompt' = FALSE /\ invited' = FALSE
  /\ UNCHANGED <<deployed, online, cachedChunk, store, deploys, outages, brokenAgain>>

(* The network first, and the page is kept under its address.  The first   *)
(* visit brings the worker, whose installation takes /index.html along.    *)
VisitOnline ==
  /\ online /\ Opened(deployed)
  /\ rootPage' = deployed /\ worker' = TRUE
  /\ indexPage' = IF worker THEN indexPage ELSE deployed

(* Without it /index.html, as it was at the installation, and / if that    *)
(* is missing.                                                             *)
Fallback == IF indexPage # 0 THEN indexPage ELSE rootPage
VisitOffline ==
  /\ ~online /\ worker /\ Opened(Fallback)
  /\ UNCHANGED <<worker, indexPage, rootPage>>

(* What the host answers to a build's script: the page, once it is gone.   *)
FromHost(b) == IF b = deployed THEN "script" ELSE "page"

(* Mutant: a script that is cached is not asked for again.                 *)
RevalidatedNever(b) == IF online /\ cachedChunk[b] = "none" THEN FromHost(b) ELSE cachedChunk[b]
Revalidated(b) == IF online THEN FromHost(b) ELSE cachedChunk[b]

(* A tab's code is imported: from the cache if it is there, and fetched    *)
(* all the same, the answer kept for the next time.  Any answer of 200     *)
(* is kept.                                                                *)
LoadChunk ==
  LET b == page.build
      got == IF cachedChunk[b] # "none" THEN cachedChunk[b]
             ELSE IF online THEN FromHost(b) ELSE "none"
  IN /\ b # 0 /\ page.chunk = "wanted"
     /\ page' = [page EXCEPT !.chunk = IF got = "script" THEN "runs" ELSE "broken"]
     /\ cachedChunk' = [cachedChunk EXCEPT ![b] = Revalidated(b)]
     /\ brokenAgain' = IF got = "script" \/ ~online \/ b # deployed THEN 0 ELSE brokenAgain + 1
     /\ UNCHANGED <<deployed, online, worker, indexPage, rootPage, store, Banners, Bounds>>

-----------------------------------------------------------------------------
(* The loading page: the feed is shown and saved.  Without the network the *)
(* seed stays, and is saved beside what is there.                          *)
Hydrate ==
  /\ page.build # 0 /\ ~page.fetched /\ online
  /\ page' = [page EXCEPT !.fetched = TRUE, !.screen = deployed] /\ store' = deployed
  /\ UNCHANGED <<deployed, online, Worker, Banners, Bounds, brokenAgain>>

HydrateOffline ==
  /\ page.build # 0 /\ ~page.fetched /\ ~online
  /\ page' = [page EXCEPT !.fetched = TRUE]
  /\ UNCHANGED <<deployed, online, Worker, store, Banners, Bounds, brokenAgain>>

(* Entries of before the last seven days, at the end of a hydration.       *)
Prune ==
  /\ page.fetched /\ store # 0 /\ store # page.screen /\ store' = 0
  /\ UNCHANGED <<deployed, online, Worker, page, Banners, Bounds, brokenAgain>>

-----------------------------------------------------------------------------
GoOffline ==
  /\ online /\ outages < MaxOutages /\ outages' = outages + 1
  /\ online' = FALSE /\ brokenAgain' = 0
  /\ IF page.build # 0 THEN banner' = "offline" /\ fading' = FALSE ELSE UNCHANGED <<banner, fading>>
  /\ UNCHANGED <<deployed, Worker, page, store, prompt, invited, deploys, visits>>

GoOnline ==
  /\ ~online /\ online' = TRUE
  /\ IF page.build # 0 THEN banner' = "online" /\ fading' = TRUE ELSE UNCHANGED <<banner, fading>>
  /\ UNCHANGED <<deployed, Worker, page, store, prompt, invited, Bounds, brokenAgain>>

AfterFade == IF fading THEN "none" ELSE banner

(* Four seconds after the network came back: that banner goes, if it is    *)
(* there still.                                                            *)
Fade ==
  /\ page.build # 0 /\ outages > 0
  /\ banner' = AfterFade /\ fading' = FALSE
  /\ UNCHANGED <<deployed, online, Worker, page, store, prompt, invited, Bounds, brokenAgain>>

(* beforeinstallprompt, again after each choice that was no.               *)
Invite ==
  /\ page.build # 0 /\ prompt' = TRUE /\ invited' = TRUE
  /\ UNCHANGED <<deployed, online, Worker, page, store, banner, fading, Bounds, brokenAgain>>

Dismiss ==
  /\ invited /\ invited' = FALSE
  /\ UNCHANGED <<deployed, online, Worker, page, store, banner, fading, prompt, Bounds, brokenAgain>>

(* Accepted, declined, refused by the browser, or installed elsewhere.     *)
Answered ==
  /\ prompt /\ prompt' = FALSE /\ invited' = FALSE
  /\ UNCHANGED <<deployed, online, Worker, page, store, banner, fading, Bounds, brokenAgain>>

OfflineNext ==
  \/ \E b \in Build : Deploy(b)
  \/ VisitOnline \/ VisitOffline \/ LoadChunk
  \/ Hydrate \/ HydrateOffline \/ Prune
  \/ GoOffline \/ GoOnline \/ Fade
  \/ Invite \/ Dismiss \/ Answered

OfflineSpec == OfflineInit /\ [][OfflineNext]_offlineVars

-----------------------------------------------------------------------------
(* A page that cannot run because the cache holds the wrong answer under a *)
(* script's name runs the next time it is loaded with the network there    *)
(* and nothing deployed in between (sw.js:87-106).                         *)
BrokenOnce == brokenAgain <= 1

(* An outage seen by a page stays on its banner while it lasts, and the    *)
(* banner that invites to install stands for an event that is kept         *)
(* (pwaService.ts:27-46, 86-102, main.ts:138-158).                         *)
BannersAreTrue ==
  /\ banner = "offline" => ~online
  /\ (page.build # 0 /\ ~page.dark /\ ~online) => banner = "offline"
  /\ invited => prompt
=============================================================================
