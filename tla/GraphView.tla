----------------------------- MODULE GraphView -----------------------------
(***************************************************************************)
(* The knowledge graph's tab: one view model that outlives the drawings of *)
(* the tab, a playback through the dates of the links, and in each drawing *)
(* a canvas whose frames go on until its forces have cooled.  Nothing      *)
(* calls a drawing's clean-up, so the canvases of earlier drawings follow  *)
(* the view model too.                                                     *)
(***************************************************************************)
EXTENDS Integers, FiniteSetsExt

CONSTANTS
  Node, CategoryOf,     \* the nodes, and [Node -> category]
  Link, Ends, Seen,     \* the links, [Link -> set of nodes], [Link -> <<first, last>>]
  Centre, Around,       \* what may be asked for, [Centre -> set of links] answered
  Today,                \* dates are 0 .. Today, of which a tick of playback takes one
  Week,                 \* and a step of the reader this many
  MaxViews, MaxActs,    \* bounds: drawings of the tab, acts of the reader
  None

(* What the configurations keep to. *)
GraphViewAssumption ==
  /\ \A l \in Link : Ends[l] \subseteq Node /\ Seen[l][1] <= Seen[l][2]
  /\ \A c \in Centre : Around[c] \subseteq Link

VARIABLES
  board,      \* allEdges: the links held
  span, date, \* <<minDate, maxDate>> and currentDate
  playing,    \* isPlaying, that is, whether the interval is set
  filter,     \* activeCategory, or None for all
  selected, hovered,
  asked,      \* centres asked for and not yet answered
  views,      \* drawings so far; the last is the one on screen
  heat,       \* [view -> how far its simulation is from rest]
  framing,    \* the views that have asked for an animation frame
  held,       \* what the pointer holds: None, or [on : view, what : "canvas" or a node]
  acts

boardVars == <<board, span, date, playing, filter, selected, hovered, asked,
               views, heat, framing, held, acts>>
View == 1 .. MaxViews
Hot == 2

BoardInit ==
  /\ board = {} /\ span = <<0, Today>> /\ date = Today /\ playing = FALSE
  /\ filter = None /\ selected = None /\ hovered = None /\ asked = {}
  /\ views = 0 /\ heat = [v \in View |-> 0] /\ framing = {} /\ held = None /\ acts = 0

-----------------------------------------------------------------------------
(* getFilteredData. *)
Happened == {l \in board : Seen[l][1] <= date}
DrawnNodes == {n \in UNION {Ends[l] : l \in Happened} : filter \in {None, CategoryOf[n]}}

(* notify: every canvas takes the new data, which warms it, and runs. *)
Notify(drawings) ==
  /\ heat' = [v \in View |-> IF v <= drawings THEN Hot ELSE 0]
  /\ framing' = 1 .. drawings

Acts == acts < MaxActs /\ acts' = acts + 1
Ask(c) == asked' = asked \cup {c}

(* The tab is drawn: when it is chosen, and at every change in the feed's
   view model while it is open. *)
Drawn ==
  /\ views < MaxViews /\ views' = views + 1
  /\ Ask(IF selected \in Centre THEN selected ELSE None) /\ Notify(views')
  /\ UNCHANGED <<board, span, date, playing, filter, selected, hovered, held, acts>>

(* setData: an answer without links leaves the dates alone. *)
Held(ls) ==
  /\ board' = ls
  /\ IF ls = {} THEN UNCHANGED <<span, date>>
     ELSE /\ span' = <<Min({Seen[l][1] : l \in ls}), Max({Seen[l][2] : l \in ls})>>
          /\ date' = span'[2]

Answered(c) ==
  /\ c \in asked /\ asked' = asked \ {c} /\ Held(Around[c]) /\ Notify(views)
  /\ UNCHANGED <<playing, filter, selected, hovered, views, held, acts>>

(* fetchSubgraph turns a failure into an empty graph. *)
Failed(c) ==
  /\ c \in asked /\ asked' = asked \ {c} /\ Held({}) /\ Notify(views)
  /\ UNCHANGED <<playing, filter, selected, hovered, views, held, acts>>

-----------------------------------------------------------------------------
(* The dates. *)
(* Mutant: the last date is not the end. *)
AtEndPast(d) == d > span[2]
AtEnd(d) == d >= span[2]

StepForward(days) ==
  LET next == Min({date + days, span[2]})
  IN /\ date' = next /\ playing' = (playing /\ ~AtEnd(next)) /\ Notify(views)
     /\ UNCHANGED <<board, span, filter, selected, hovered, asked, views, held>>

PlaybackTick == playing /\ StepForward(1) /\ UNCHANGED acts

Step == views > 0 /\ Acts /\ \E days \in {-Week, Week} : StepForward(days)

TogglePlay ==
  /\ views > 0 /\ Acts /\ playing' = ~playing
  /\ date' = (IF ~playing /\ date >= span[2] THEN span[1] ELSE date)
  /\ Notify(views)
  /\ UNCHANGED <<board, span, filter, selected, hovered, asked, views, held>>

Scrub ==
  /\ views > 0 /\ Acts /\ date' \in span[1] .. span[2] /\ Notify(views)
  /\ UNCHANGED <<board, span, playing, filter, selected, hovered, asked, views, held>>

SetCategory ==
  /\ views > 0 /\ Acts /\ filter' \in {None} \cup {CategoryOf[n] : n \in Node} /\ Notify(views)
  /\ UNCHANGED <<board, span, date, playing, selected, hovered, asked, views, held>>

-----------------------------------------------------------------------------
(* The canvas on screen. *)
Warm(v, to) == heat' = [heat EXCEPT ![v] = Max({@, to})]
Holds(v) == held # None /\ held.on = v
HoldsNode == held # None /\ held.what \in Node

PointerDown ==
  /\ views > 0 /\ held = None /\ Acts
  /\ \E what \in {"canvas"} \cup DrawnNodes :
       /\ held' = [on |-> views, what |-> what]
       /\ IF what \in Node THEN Warm(views, 1) ELSE UNCHANGED heat
  /\ framing' = framing \cup {views}
  /\ UNCHANGED <<board, span, date, playing, filter, selected, hovered, asked, views>>

(* A dragged node keeps its canvas warm. *)
Drag ==
  /\ HoldsNode /\ Acts /\ Warm(held.on, 1)
  /\ UNCHANGED <<board, span, date, playing, filter, selected, hovered, asked, views, framing, held>>

Hover ==
  /\ views > 0 /\ ~Holds(views) /\ Acts
  /\ hovered' \in {None} \cup DrawnNodes /\ hovered' # hovered /\ Notify(views)
  /\ UNCHANGED <<board, span, date, playing, filter, selected, asked, views, held>>

(* Letting go of a node selects it. *)
PointerUp ==
  /\ held # None /\ held' = None
  /\ IF HoldsNode THEN selected' = held.what /\ Notify(views) ELSE UNCHANGED <<selected, heat, framing>>
  /\ UNCHANGED <<board, span, date, playing, filter, hovered, asked, views, acts>>

(* The inspector: a neighbour is selected, or the node's surroundings asked for. *)
Neighbours(n) == UNION {Ends[l] : l \in {k \in Happened : n \in Ends[k]}} \ {n}

SelectNeighbour ==
  /\ selected # None /\ Acts
  /\ \E n \in Neighbours(selected) : selected' = n
  /\ Notify(views)
  /\ UNCHANGED <<board, span, date, playing, filter, hovered, asked, views, held>>

Focus ==
  /\ selected \in Centre \cap UNION {Ends[l] : l \in board} /\ Acts /\ Ask(selected) /\ Notify(views)
  /\ UNCHANGED <<board, span, date, playing, filter, selected, hovered, views, held>>

(* A pattern of the banner is inspected in the graph: focusNodes. *)
FocusNodes ==
  /\ Acts /\ selected' \in Node /\ Notify(views)
  /\ UNCHANGED <<board, span, date, playing, filter, hovered, asked, views, held>>

ResetView ==
  /\ views > 0 /\ Acts /\ Warm(views, Hot) /\ framing' = framing \cup {views}
  /\ UNCHANGED <<board, span, date, playing, filter, selected, hovered, asked, views, held>>

(* A frame: the forces act and cool, and another frame is asked for while
   they are not at rest or the pointer holds this canvas. *)
Cooled(v) == Max({heat[v] - 1, 0})
Frame(v) ==
  /\ v \in framing
  /\ heat' = [heat EXCEPT ![v] = Cooled(v)]
  /\ framing' = (IF Cooled(v) > 0 \/ Holds(v) THEN framing ELSE framing \ {v})
  /\ UNCHANGED <<board, span, date, playing, filter, selected, hovered, asked, views, held, acts>>

-----------------------------------------------------------------------------
BoardNext ==
  \/ Drawn
  \/ \E c \in Centre : Answered(c)
  \/ \E c \in Centre : Failed(c)
  \/ PlaybackTick \/ Step \/ TogglePlay \/ Scrub \/ SetCategory
  \/ PointerDown \/ Drag \/ Hover \/ PointerUp
  \/ SelectNeighbour \/ Focus \/ FocusNodes \/ ResetView
  \/ \E v \in View : Frame(v)

(* The browser calls the interval and the frames; the network owes nothing. *)
BoardFairness == WF_boardVars(PlaybackTick) /\ \A v \in View : WF_boardVars(Frame(v))
BoardSpec == BoardInit /\ [][BoardNext]_boardVars /\ BoardFairness

(* Left alone, the tab comes to rest: whatever the reader did and whichever
   answers came meanwhile, the playback reaches its end and stops, and no
   canvas, the forgotten ones included, goes on drawing. *)
CanvasRests == <>[](held = None) => <>[](~playing /\ framing = {})
=============================================================================
