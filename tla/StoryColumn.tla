---------------------------- MODULE StoryColumn ----------------------------
(***************************************************************************)
(* What lives in the column of stories beside the stories, in two parts    *)
(* that share no variable: the drawers of a story, its summary and its     *)
(* sources, and the banner of approved patterns above the stories.  Both   *)
(* meet every drawing of the column, which is made anew at every change of *)
(* the feed.                                                               *)
(***************************************************************************)
EXTENDS Integers, Sequences, FiniteSets

CONSTANTS
  Story,
  Body,          \* {<<story, drawer>>}: the drawers there is something to put in
  NoLink,
  MaxPatterns    \* approved patterns served, 10 asked for in the code

Drawer == Story \X {"ssb", "sources"}
(* What the configurations keep to. *)
DrawerAssumption == Body \subseteq Drawer
BannerAssumption == MaxPatterns \in Nat

(***************************************************************************)
(* The drawers.  The view model holds which are open and every change      *)
(* draws the column anew, but for one: a drawer that a scroll leaves out   *)
(* of view is taken out of the page and of the view model without a        *)
(* drawing.  A link to a story opens one of its drawers and begins to      *)
(* scroll to it.                                                           *)
(***************************************************************************)
VARIABLES
  cards,     \* the stories in the column
  expanded,  \* expandedSSBClusterIds and expandedSourcesClusterIds
  drawn,     \* the drawers in the page
  told,      \* those whose button says open
  frame,     \* whether a frame is asked for, to look at the drawers
  link       \* the drawer a link opened and scrolls to: [drawer, there]

drawerVars == <<cards, expanded, drawn, told, frame, link>>

OnScreen(open, among) == {d \in open \cap Body : d[1] \in among}

DrawersInit ==
  /\ cards = Story /\ expanded = {} /\ drawn = {} /\ told = {}
  /\ frame = FALSE /\ link = NoLink

-----------------------------------------------------------------------------
(* renderStoryCluster, for each card of a new drawing of the column.       *)
Redrawn(open, among) ==
  /\ cards' = among /\ expanded' = open
  /\ drawn' = OnScreen(open, among) /\ told' = OnScreen(open, among)
  /\ UNCHANGED frame

(* Another tab, another search, a poll's feed.                             *)
ColumnChanges(among) == Redrawn(expanded, among) /\ link' = NoLink

(* A button of the card: there is one for each drawer with something in it. *)
ToggleDrawerOf(d) ==
  /\ d \in Body /\ d[1] \in cards
  /\ Redrawn(IF d \in expanded THEN expanded \ {d} ELSE expanded \cup {d}, cards)
  /\ link' = NoLink

(* The page's address names the story: a summary is opened if there is one, *)
(* sources whether or not there are any.                                   *)
FollowLink(d) ==
  /\ d[2] = "ssb" => d \in Body
  /\ Redrawn(expanded \cup {d}, cards)
  /\ link' = IF d \in Body /\ d[1] \in cards THEN [drawer |-> d, there |-> FALSE] ELSE NoLink

(* A scroll, the reader's or the link's, asks for one frame at a time.     *)
Scroll ==
  /\ expanded # {} /\ ~frame /\ frame' = TRUE
  /\ UNCHANGED <<cards, expanded, drawn, told, link>>

(* The link's story has come to the top.                                   *)
LinkArrives ==
  /\ link # NoLink /\ ~link.there /\ link' = [link EXCEPT !.there = TRUE]
  /\ UNCHANGED <<cards, expanded, drawn, told, frame>>

Left(out) == (expanded \cap drawn) \ out

(* checkAndAutoCollapseSummaries: any of the drawers may be out of view by  *)
(* now; one that is open and not in the page is forgotten.                 *)
LookAt(out) ==
  /\ frame /\ frame' = FALSE
  /\ drawn' = drawn \ out /\ told' = told \ out /\ expanded' = Left(out)
  /\ link' = IF link # NoLink /\ link.there THEN NoLink ELSE link
  /\ UNCHANGED cards

DrawersNext ==
  \/ \E among \in SUBSET Story : ColumnChanges(among)
  \/ \E d \in Drawer : ToggleDrawerOf(d)
  \/ \E d \in Drawer : FollowLink(d)
  \/ Scroll
  \/ LinkArrives
  \/ \E out \in SUBSET drawn : LookAt(out)

DrawersSpec == DrawersInit /\ [][DrawersNext]_drawerVars

-----------------------------------------------------------------------------
(* The silent way agrees with the drawn one: at any moment the page and    *)
(* its buttons are what a drawing of the view model would make of them, so *)
(* that no later change of the feed opens or closes a drawer               *)
(* (summaryAutoCollapseService.ts:105-152, StoryClusterView.ts:119-254).   *)
DrawersAgree == drawn = OnScreen(expanded, cards) /\ told = drawn

-----------------------------------------------------------------------------
(***************************************************************************)
(* The banner.  Its view model and its code are two imports; the view      *)
(* model asks for the patterns once a visit.  Each drawing without a       *)
(* search has a container of its own, filled at once if both imports are   *)
(* here and later otherwise.  A banner draws itself when mounted and       *)
(* whenever the view model tells a change.                                 *)
(***************************************************************************)
VARIABLES
  chunk,       \* ["vm", "view" -> "unasked", "loading", "ready" or "failed"]
  fetching,    \* "no", "asked" or "done": the one call of the visit
  carousel,    \* [size, index, expanded, dismissed]
  container,   \* whether the column as drawn has a container
  pending,     \* whether that container waits for the imports
  banners      \* what is drawn in it: a sequence of contents

bannerVars == <<chunk, fetching, carousel, container, pending, banners>>

HiddenBanner == [shown |-> 0, of |-> 0, drawer |-> FALSE]

(* renderContent: which of how many, and whether the drawer is open.       *)
Content(c) ==
  IF c.dismissed \/ c.size = 0 THEN HiddenBanner
  ELSE [shown |-> c.index + 1, of |-> c.size, drawer |-> c.expanded]

BothReady == chunk["vm"] = "ready" /\ chunk["view"] = "ready"

BannerInit ==
  /\ chunk = [m \in {"vm", "view"} |-> "unasked"] /\ fetching = "no"
  /\ carousel = [size |-> 0, index |-> 0, expanded |-> FALSE, dismissed |-> FALSE]
  /\ container = FALSE /\ pending = FALSE /\ banners = <<>>

(* renderStoryClustersView, or another tab's drawing, which has none.  A    *)
(* continuation of an earlier drawing fills a container no one sees.        *)
DrawColumn(hasContainer) ==
  /\ container' = hasContainer
  /\ pending' = (hasContainer /\ ~BothReady)
  /\ banners' = IF hasContainer /\ BothReady THEN <<Content(carousel)>> ELSE <<>>
  /\ chunk' = IF hasContainer
                THEN [m \in DOMAIN chunk |-> IF chunk[m] = "unasked" THEN "loading" ELSE chunk[m]]
                ELSE chunk
  /\ UNCHANGED <<fetching, carousel>>

(* The view model begins its one call as it is made.                       *)
ChunkComes(m) ==
  /\ chunk[m] = "loading" /\ chunk' = [chunk EXCEPT ![m] = "ready"]
  /\ fetching' = IF m = "vm" THEN "asked" ELSE fetching
  /\ UNCHANGED <<carousel, container, pending, banners>>

ChunkLost(m) ==
  /\ chunk[m] = "loading" /\ chunk' = [chunk EXCEPT ![m] = "failed"]
  /\ UNCHANGED <<fetching, carousel, container, pending, banners>>

MountBanner ==
  /\ pending /\ BothReady /\ pending' = FALSE
  /\ banners' = Append(banners, Content(carousel))
  /\ UNCHANGED <<chunk, fetching, carousel, container>>

(* notify: every mounted banner draws itself from the new state.           *)
Changed(c) ==
  /\ carousel' = c /\ banners' = [i \in DOMAIN banners |-> Content(c)]
  /\ UNCHANGED <<chunk, container, pending>>

(* The answer; the place is kept within it.  A failed call answers none,   *)
(* and no other is made.                                                   *)
PatternsCome(n) ==
  /\ fetching = "asked" /\ fetching' = "done"
  /\ Changed([carousel EXCEPT !.size = n, !.index = IF @ < n THEN @ ELSE IF n = 0 THEN 0 ELSE n - 1])

PatternsFail == PatternsCome(0)

Visible == \E i \in DOMAIN banners : banners[i] # HiddenBanner

Turned(by) == (carousel.index + by + carousel.size) % carousel.size
Turn(by) ==
  /\ Visible /\ carousel.size > 1
  /\ Changed([carousel EXCEPT !.index = Turned(by)]) /\ UNCHANGED fetching

ToggleDrawer == Visible /\ Changed([carousel EXCEPT !.expanded = ~@]) /\ UNCHANGED fetching
Dismiss == Visible /\ Changed([carousel EXCEPT !.dismissed = TRUE]) /\ UNCHANGED fetching

BannerNext ==
  \/ \E h \in BOOLEAN : DrawColumn(h)
  \/ \E m \in {"vm", "view"} : ChunkComes(m)
  \/ \E m \in {"vm", "view"} : ChunkLost(m)
  \/ MountBanner
  \/ \E n \in 1 .. MaxPatterns : PatternsCome(n)
  \/ PatternsFail
  \/ \E by \in {-1, 1} : Turn(by)
  \/ ToggleDrawer
  \/ Dismiss

BannerSpec == BannerInit /\ [][BannerNext]_bannerVars

-----------------------------------------------------------------------------
(* However drawings, imports and the call cross, a column has one banner   *)
(* at most, none without a container, and it shows what the view model     *)
(* holds: a pattern there is, or nothing once dismissed                    *)
(* (MainFeedRouter.ts:53-88, PublicPatternBanner.ts:26-36,214-215).        *)
BannerIsTrue ==
  /\ Len(banners) = (IF container /\ ~pending THEN 1 ELSE 0)
  /\ \A i \in DOMAIN banners : banners[i] = Content(carousel)
  /\ carousel.size > 0 => carousel.index \in 0 .. carousel.size - 1
=============================================================================
