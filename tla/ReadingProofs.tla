--------------------------- MODULE ReadingProofs ---------------------------
(***************************************************************************)
(* The main column and the curator's panels, for any number of tabs,       *)
(* modules, candidates, queues, topics and calls under way.                *)
(***************************************************************************)
EXTENDS MCReading, TLAPS

-----------------------------------------------------------------------------
(***************************************************************************)
(* The column.  A placeholder whose continuation will find it is the one   *)
(* thing in the column, and no other continuation will: each drawing       *)
(* empties the column of what was waited for before.                       *)
(***************************************************************************)
WaitingType == \A w \in waiting : w \in [tab : Tab \cup {Home}, here : BOOLEAN]
RouteInv ==
  /\ WaitingType
  /\ column = <<column[1]>> /\ column[1].tab = category /\ category \in Tab \cup {Home}
  /\ \A w \in waiting : w.here => w.tab = category /\ column[1].kind = "placeholder"

LEMMA RouteDrawn ==
  ASSUME RouteInv, NEW t \in Tab \cup {Home}, Tabs!Draw(t), category' = t
  PROVE  RouteInv'
<1> DEFINE old == {[tab |-> w.tab, here |-> FALSE] : w \in waiting}
           new == [tab |-> t, here |-> TRUE]
<1>1. \A w \in old : w \in [tab : Tab \cup {Home}, here : BOOLEAN] /\ w.here = FALSE
  <2> SUFFICES ASSUME NEW w \in waiting
               PROVE  LET v == [tab |-> w.tab, here |-> FALSE]
                      IN v \in [tab : Tab \cup {Home}, here : BOOLEAN] /\ v.here = FALSE
    OBVIOUS
  <2>1. w.tab \in Tab \cup {Home}
    BY DEF RouteInv, WaitingType
  <2> QED  BY <2>1
<1>2. new \in [tab : Tab \cup {Home}, here : BOOLEAN] /\ new.tab = t
  OBVIOUS
<1>3. CASE waiting' = old /\ column' = <<Tabs!Shown("view", t)>>
  <2> HIDE DEF old
  <2> QED  BY <1>1, <1>3 DEF RouteInv, WaitingType, Tabs!Shown
<1>4. CASE waiting' = old \cup {new} /\ column' = <<Tabs!Shown("placeholder", t)>>
  <2>1. column'[1] = Tabs!Shown("placeholder", t)
    BY <1>4
  <2>2. column'[1].tab = t /\ column'[1].kind = "placeholder"
    BY <2>1 DEF Tabs!Shown
  <2>3. column' = <<column'[1]>>
    BY <1>4
  <2> HIDE DEF old, new
  <2> QED  BY <1>1, <1>2, <1>4, <2>2, <2>3 DEF RouteInv, WaitingType
<1> QED  BY <1>3, <1>4 DEF Tabs!Draw

LEMMA RouteArrived ==
  ASSUME RouteInv, NEW w \in waiting, Tabs!Arrived(w) PROVE RouteInv'
<1>1. waiting' = waiting \ {w} /\ category' = category
  BY DEF Tabs!Arrived
<1>2. CASE ~Tabs!StillThere(w)
  <2>1. column' = column
    BY <1>2 DEF Tabs!Arrived
  <2> QED  BY <1>1, <2>1 DEF RouteInv, WaitingType
<1>3. CASE Tabs!StillThere(w)
  <2> DEFINE x == Tabs!Shown("view", w.tab)
  <2>1. w.here /\ w.tab = category /\ column' = Append(Tabs!WithoutPlaceholder(w), x)
    BY <1>3 DEF Tabs!Arrived, Tabs!StillThere
  <2>2. column = <<column[1]>> /\ column[1].kind = "placeholder"
    BY <2>1 DEF RouteInv
  <2> DEFINE c == column[1]
  <2>3. DOMAIN column = {1} /\ Len(column) = 1
    <3> HIDE DEF c
    <3>1. column = <<c>>
      BY <2>2 DEF c
    <3> QED  BY <3>1
  <2>4. PICK i : i = (CHOOSE j \in DOMAIN column : column[j].kind = "placeholder")
    OBVIOUS
  <2>5. i = 1
    BY <2>2, <2>3, <2>4
  <2>6. Tabs!WithoutPlaceholder(w) = SubSeq(column, 1, i - 1) \o SubSeq(column, i + 1, 1)
    BY <2>1, <2>3, <2>4 DEF Tabs!WithoutPlaceholder
  <2>7. SubSeq(column, 1, i - 1) = <<>> /\ SubSeq(column, i + 1, 1) = <<>>
    <3> HIDE DEF c
    <3>1. column = <<c>>
      BY <2>2 DEF c
    <3> QED  BY <2>5, <3>1
  <2> HIDE DEF x
  <2>8. column' = <<x>>
    <3>1. Tabs!WithoutPlaceholder(w) = <<>>
      BY <2>6, <2>7
    <3> QED  BY <2>1, <3>1
  <2>9. column'[1] = x /\ column' = <<column'[1]>>
    BY <2>8
  <2>10. x.tab = category
    BY <2>1 DEF x, Tabs!Shown
  <2>11. ASSUME NEW v \in waiting', v.here PROVE FALSE
    <3>1. v \in waiting /\ v # w /\ v.tab = w.tab /\ v.here = w.here
      BY <1>1, <2>1, <2>11 DEF RouteInv, WaitingType
    <3> QED  BY <3>1 DEF RouteInv, WaitingType
  <2> QED  BY <1>1, <2>10, <2>11, <2>9 DEF RouteInv, WaitingType
<1> QED  BY <1>2, <1>3

LEMMA RouteFailed ==
  ASSUME RouteInv, NEW w \in waiting, Tabs!NeverArrives(w) PROVE RouteInv'
<1>1. /\ waiting' = waiting \ {w} /\ category' = category
      /\ column' = IF w.here THEN <<Tabs!Shown("failed", w.tab)>> ELSE column
  BY DEF Tabs!NeverArrives
<1>2. CASE ~w.here
  BY <1>1, <1>2 DEF RouteInv, WaitingType
<1>3. CASE w.here
  <2> DEFINE x == Tabs!Shown("failed", w.tab)
  <2>1. x.tab = category
    BY <1>3 DEF RouteInv, Tabs!Shown
  <2>2. column' = <<x>>
    BY <1>1, <1>3
  <2> HIDE DEF x
  <2>3. column'[1] = x /\ column' = <<column'[1]>>
    BY <2>2
  <2>4. ASSUME NEW v \in waiting', v.here PROVE FALSE
    <3>1. v \in waiting /\ v # w /\ v.tab = w.tab /\ v.here = w.here
      BY <1>1, <1>3, <2>4 DEF RouteInv, WaitingType
    <3> QED  BY <3>1 DEF RouteInv, WaitingType
  <2> QED  BY <1>1, <2>1, <2>3, <2>4 DEF RouteInv, WaitingType
<1> QED  BY <1>2, <1>3

LEMMA RouteBegin == Tabs!RoutesInit => RouteInv
BY DEF Tabs!RoutesInit, RouteInv, WaitingType, Tabs!Shown

LEMMA RouteStep == RouteInv /\ [Tabs!RoutesNext]_(Tabs!routeVars) => RouteInv'
<1> SUFFICES ASSUME RouteInv, [Tabs!RoutesNext]_(Tabs!routeVars) PROVE RouteInv'
  OBVIOUS
<1>1. ASSUME NEW t \in Tab, Tabs!Choose(t) PROVE RouteInv'
  BY <1>1, RouteDrawn DEF Tabs!Choose
<1>2. CASE Tabs!Redraw
  <2>1. category \in Tab \cup {Home} /\ Tabs!Draw(category) /\ category' = category
    BY <1>2 DEF Tabs!Redraw, RouteInv
  <2> QED  BY <2>1, RouteDrawn
<1>3. ASSUME UNCHANGED <<category, column, waiting>> PROVE RouteInv'
  BY <1>3 DEF RouteInv, WaitingType
<1> QED  BY <1>1, <1>2, <1>3, RouteArrived, RouteFailed DEF Tabs!RoutesNext, Tabs!Permalink,
         Tabs!Loaded, Tabs!LoadFails, Tabs!routeVars

LEMMA RouteIsTrue == RouteInv => Tabs!OneThingShown
<1> SUFFICES ASSUME RouteInv PROVE Tabs!OneThingShown
  OBVIOUS
<1> DEFINE c == column[1]
<1>1. column = <<c>> /\ c.tab = category
  BY DEF RouteInv
<1> HIDE DEF c
<1>2. Len(column) = 1 /\ column[1] = c
  BY <1>1
<1> QED  BY <1>1, <1>2 DEF Tabs!OneThingShown

\* However loads and redraws fall, the column holds one thing, of the tab that is chosen
\* (MainFeedRouter.ts:134-142, main.ts:178-179).
THEOREM ColumnHoldsOneThing == Tabs!RoutesSpec => []Tabs!OneThingShown
<1> QED  BY RouteIsTrue, RouteBegin, RouteStep, PTL DEF Tabs!RoutesSpec

-----------------------------------------------------------------------------
(***************************************************************************)
(* The panels.  A call that is alone finds all other slots idle.  The same *)
(* facts are stated of the panels of MCServing in module ServingProofs.    *)
(***************************************************************************)
Field == {"kind", "of", "with", "served", "alone", "answer"}
Called1(c) == DOMAIN c = Field /\ c.served \in BOOLEAN /\ c.alone \in BOOLEAN
Busy(c) == c.kind # "none"

Slots(S, as) == as = [a \in S |-> as[a]] /\ \A a \in S : Called1(as[a])
OneAlone(S, as) ==
  \A a \in S : as[a].alone => Busy(as[a]) /\ \A b \in S \ {a} : ~Busy(as[b])

\* A call is sent: it is alone if no other is under way, and no other is.
SentInto(S, as, as2, slot, c) ==
  /\ slot \in S /\ ~Busy(as[slot])
  /\ Called1(c) /\ Busy(c)
  /\ c.alone <=> \A a \in S : ~Busy(as[a])
  /\ as2 = [b \in S |-> IF b = slot THEN c ELSE [as[b] EXCEPT !.alone = FALSE]]

OthersKept(S, as, as2, slot) ==
  \A b \in S \ {slot} :
    /\ as2[b].alone = FALSE /\ as2[b].kind = as[b].kind /\ as2[b].of = as[b].of
    /\ as2[b].with = as[b].with /\ as2[b].served = as[b].served
    /\ as2[b].answer = as[b].answer

LEMMA SentAlone ==
  ASSUME NEW S, NEW as, NEW as2, NEW slot, NEW c,
         Slots(S, as), OneAlone(S, as), SentInto(S, as, as2, slot, c)
  PROVE  Slots(S, as2) /\ OneAlone(S, as2) /\ as2[slot] = c /\ OthersKept(S, as, as2, slot)
<1> USE DEF SentInto
<1>1. ASSUME NEW b \in S \ {slot}
      PROVE  /\ as2[b].alone = FALSE /\ as2[b].kind = as[b].kind /\ as2[b].of = as[b].of
             /\ as2[b].with = as[b].with /\ as2[b].served = as[b].served
             /\ as2[b].answer = as[b].answer /\ Called1(as2[b])
  <2> DEFINE d == as[b]
  <2>1. as2[b] = [d EXCEPT !.alone = FALSE] /\ Called1(d)
    BY DEF Slots
  <2> HIDE DEF d
  <2>2. /\ as2[b].alone = FALSE /\ as2[b].kind = d.kind /\ as2[b].of = d.of /\ as2[b].with = d.with
        /\ as2[b].served = d.served /\ as2[b].answer = d.answer /\ DOMAIN as2[b] = Field
    BY <2>1 DEF Called1, Field
  <2>3. Called1(as2[b])
    BY <2>1, <2>2 DEF Called1
  <2> QED  BY <2>2, <2>3 DEF d
<1>2. as2[slot] = c
  OBVIOUS
<1>3. Slots(S, as2)
  BY <1>1, <1>2 DEF Slots
<1>4. ASSUME NEW a \in S, as2[a].alone, NEW b \in S \ {a}
      PROVE  Busy(as2[a]) /\ ~Busy(as2[b])
  <2>1. a = slot /\ c.alone
    BY <1>1, <1>2, <1>4
  <2>2. as2[b].kind = as[b].kind /\ ~Busy(as[b])
    BY <1>1, <1>4, <2>1
  <2> QED  BY <1>2, <2>1, <2>2 DEF Busy
<1>5. ASSUME NEW a \in S, as2[a].alone PROVE Busy(as2[a])
  BY <1>1, <1>2, <1>5
<1>6. OneAlone(S, as2)
  BY <1>4, <1>5 DEF OneAlone
<1> QED  BY <1>1, <1>2, <1>3, <1>6 DEF OthersKept

\* A call is answered, or fails, and its slot is idle.
EndedIn(S, as, as2, a, c) ==
  a \in S /\ Called1(c) /\ ~Busy(c) /\ c.alone = FALSE /\ as2 = [as EXCEPT ![a] = c]
OthersSame(S, as, as2, a) == \A b \in S \ {a} : as2[b] = as[b]

LEMMA EndedAlone ==
  ASSUME NEW S, NEW as, NEW as2, NEW a, NEW c,
         Slots(S, as), OneAlone(S, as), EndedIn(S, as, as2, a, c)
  PROVE  Slots(S, as2) /\ OneAlone(S, as2) /\ as2[a] = c /\ OthersSame(S, as, as2, a)
<1>1. as2[a] = c /\ OthersSame(S, as, as2, a)
  BY DEF Slots, EndedIn, OthersSame
<1>2. /\ a \in S /\ Called1(c) /\ ~Busy(c) /\ c.alone = FALSE
      /\ as2 = [b \in S |-> IF b = a THEN c ELSE as[b]]
  BY DEF Slots, EndedIn
<1>3. Slots(S, as2)
  BY <1>1, <1>2 DEF Slots, OthersSame
<1>4. OneAlone(S, as2)
  BY <1>1, <1>2 DEF OneAlone, OthersSame
<1> QED  BY <1>1, <1>3, <1>4

\* A call is served.
ServedIn(S, as, as2, a, x) ==
  a \in S /\ as2 = [as EXCEPT ![a].served = TRUE, ![a].answer = x]
ServedWith(d, e, x) ==
  /\ e.served = TRUE /\ e.answer = x /\ e.kind = d.kind /\ e.of = d.of /\ e.with = d.with
  /\ e.alone = d.alone

LEMMA ServedAlone ==
  ASSUME NEW S, NEW as, NEW as2, NEW a, NEW x,
         Slots(S, as), OneAlone(S, as), ServedIn(S, as, as2, a, x)
  PROVE  /\ Slots(S, as2) /\ OneAlone(S, as2)
         /\ ServedWith(as[a], as2[a], x) /\ OthersSame(S, as, as2, a)
<1> DEFINE d == as[a]
           e == [[d EXCEPT !.served = TRUE] EXCEPT !.answer = x]
<1>1. a \in S /\ as2[a] = e /\ Called1(d) /\ OthersSame(S, as, as2, a)
  BY DEF Slots, Called1, Field, ServedIn, OthersSame
<1>2. as2 = [b \in S |-> as2[b]]
  BY DEF Slots, ServedIn
<1> HIDE DEF d
<1>3. ServedWith(d, e, x) /\ DOMAIN e = Field
  BY <1>1 DEF Called1, Field, ServedWith
<1> HIDE DEF e
<1>4. Called1(e)
  BY <1>1, <1>3 DEF Called1, ServedWith
<1>5. Slots(S, as2)
  BY <1>1, <1>2, <1>4 DEF Slots, OthersSame
<1>6. ASSUME NEW b \in S PROVE as2[b].kind = as[b].kind /\ as2[b].alone = as[b].alone
  BY <1>1, <1>3 DEF d, ServedWith, OthersSame
<1>7. OneAlone(S, as2)
  BY <1>6 DEF OneAlone, Busy
<1> QED  BY <1>1, <1>3, <1>5, <1>7 DEF d

\* Someone else changes what the server holds: no call is alone.
NoneAlone(S, as, as2) ==
  \A b \in S :
    /\ as2[b].alone = FALSE /\ as2[b].kind = as[b].kind /\ as2[b].of = as[b].of
    /\ as2[b].with = as[b].with /\ as2[b].served = as[b].served
    /\ as2[b].answer = as[b].answer

LEMMA DisturbedAlone ==
  ASSUME NEW S, NEW as, NEW as2, Slots(S, as),
         as2 = [b \in S |-> [as[b] EXCEPT !.alone = FALSE]]
  PROVE  Slots(S, as2) /\ OneAlone(S, as2) /\ NoneAlone(S, as, as2)
<1>1. ASSUME NEW b \in S
      PROVE  /\ as2[b].alone = FALSE /\ as2[b].kind = as[b].kind /\ as2[b].of = as[b].of
             /\ as2[b].with = as[b].with /\ as2[b].served = as[b].served
             /\ as2[b].answer = as[b].answer /\ Called1(as2[b])
  <2> DEFINE d == as[b]
  <2>1. as2[b] = [d EXCEPT !.alone = FALSE] /\ Called1(d)
    BY DEF Slots
  <2> HIDE DEF d
  <2>2. /\ as2[b].alone = FALSE /\ as2[b].kind = d.kind /\ as2[b].of = d.of /\ as2[b].with = d.with
        /\ as2[b].served = d.served /\ as2[b].answer = d.answer /\ DOMAIN as2[b] = Field
    BY <2>1 DEF Called1, Field
  <2>3. Called1(as2[b])
    BY <2>1, <2>2 DEF Called1
  <2> QED  BY <2>2, <2>3 DEF d
<1> QED  BY <1>1 DEF Slots, OneAlone, NoneAlone

-----------------------------------------------------------------------------
(***************************************************************************)
(* The candidates.  A list asked for alone is the server's once served.    *)
(* When the list came alone and so did every review since, the panel has   *)
(* what is pending and what a review, whose answer is to come, has taken.  *)
(***************************************************************************)
FormKinds == {"none", "candidates", "review", "ingest"} \cup Forms!Bar
FormCall(c) ==
  /\ c.kind \in FormKinds
  /\ c.kind = "candidates" /\ c.served => c.answer \subseteq Candidate
  /\ c.kind = "review" => c.of \in Candidate
  /\ c.alone /\ c.kind = "candidates" /\ c.served => c.answer = undecided

CallsOfForms ==
  /\ Slots(FormAsk, formAsks) /\ OneAlone(FormAsk, formAsks)
  /\ \A a \in FormAsk : FormCall(formAsks[a])
Taken(c) ==
  \E a \in FormAsk : /\ formAsks[a].kind = "review" /\ formAsks[a].served
                     /\ formAsks[a].answer = "done" /\ formAsks[a].of = c
ReviewsAlone ==
  \A a \in FormAsk : /\ formAsks[a].kind # "candidates"
                     /\ formAsks[a].kind = "review" => formAsks[a].alone
PendingInv ==
  /\ undecided \subseteq Candidate /\ onDesk \subseteq Candidate
  /\ formSettled /\ ReviewsAlone =>
       \A c \in Candidate : c \in undecided <=> c \in onDesk /\ ~Taken(c)

FormsInv == CallsOfForms /\ PendingInv

\* What touches neither the calls nor the candidates.
LEMMA FormsRest ==
  ASSUME FormsInv, UNCHANGED <<undecided, onDesk, formAsks, formSettled>> PROVE FormsInv'
<1>1. CallsOfForms'
  BY DEF FormsInv, CallsOfForms, FormCall
<1>2. ReviewsAlone' = ReviewsAlone /\ \A c : Taken(c)' = Taken(c)
  BY DEF ReviewsAlone, Taken
<1>3. PendingInv'
  BY <1>2 DEF FormsInv, PendingInv
<1> QED  BY <1>1, <1>3 DEF FormsInv

\* A call goes out.
LEMMA FormsSent ==
  ASSUME FormsInv, NEW k \in FormKinds \ {"none"}, NEW x, NEW y, Forms!Sent(k, x, y),
         k = "review" => x \in Candidate,
         UNCHANGED <<undecided, onDesk, formSettled>>
  PROVE  FormsInv'
<1> DEFINE slot == CHOOSE a \in FormAsk : Forms!Idle(a)
           c == Forms!NewCall(k, x, y, Forms!Quiet)
           as == formAsks
           as2 == formAsks'
<1>1. /\ slot \in FormAsk /\ ~Busy(as[slot])
      /\ as2 = [b \in FormAsk |-> IF b = slot THEN c ELSE [as[b] EXCEPT !.alone = FALSE]]
  BY DEF Forms!Sent, Forms!Idle, Busy
<1>2. /\ Called1(c) /\ Busy(c) /\ c.kind = k /\ c.of = x
      /\ ~c.served /\ (c.alone <=> \A a \in FormAsk : ~Busy(as[a]))
  <2> DEFINE q == Forms!Quiet
  <2>1. q \in BOOLEAN /\ (q <=> \A a \in FormAsk : ~Busy(as[a]))
    BY DEF Forms!Quiet, Forms!Idle, Busy
  <2> HIDE DEF q
  <2>2. c = [kind |-> k, of |-> x, with |-> y, served |-> FALSE, alone |-> q,
             answer |-> Nothing]
    BY DEF Forms!NewCall, q
  <2> HIDE DEF c
  <2>3. DOMAIN c = Field /\ c.served = FALSE /\ c.alone = q /\ c.kind = k /\ c.of = x
    BY <2>2 DEF Field
  <2> QED  BY <2>1, <2>3 DEF Called1, Busy
<1> HIDE DEF slot, c
<1>3. /\ Slots(FormAsk, as2) /\ OneAlone(FormAsk, as2) /\ as2[slot] = c
      /\ OthersKept(FormAsk, as, as2, slot)
  <2>1. Slots(FormAsk, as) /\ OneAlone(FormAsk, as)
    BY DEF FormsInv, CallsOfForms
  <2>2. SentInto(FormAsk, as, as2, slot, c)
    BY <1>1, <1>2 DEF SentInto
  <2> HIDE DEF as, as2
  <2> QED  BY <2>1, <2>2, SentAlone
<1>4. ASSUME NEW b \in FormAsk PROVE FormCall(formAsks[b])'
  <2>1. FormCall(as[b])
    BY DEF FormsInv, CallsOfForms
  <2>2. CASE b = slot
    BY <1>2, <1>3, <2>2 DEF FormCall
  <2>3. CASE b # slot
    BY <1>3, <2>1, <2>3 DEF FormCall, OthersKept
  <2> QED  BY <2>2, <2>3
<1>5. CallsOfForms'
  BY <1>3, <1>4 DEF CallsOfForms
<1>6. ASSUME ReviewsAlone' PROVE ReviewsAlone /\ \A r \in Candidate : Taken(r)' = Taken(r)
  <2>1. ASSUME NEW b \in FormAsk PROVE as[b].kind # "candidates" /\ as[b].kind # "review"
    <3>1. CASE b = slot
      BY <1>1, <3>1 DEF Busy
    <3>2. CASE b # slot
      BY <1>3, <1>6, <3>2 DEF ReviewsAlone, OthersKept
    <3> QED  BY <3>1, <3>2
  <2>2. \A r : ~Taken(r)
    BY <2>1 DEF Taken
  <2>3. ASSUME NEW b \in FormAsk PROVE ~(as2[b].kind = "review" /\ as2[b].served)
    <3>1. CASE b = slot
      BY <1>2, <1>3, <3>1
    <3>2. CASE b # slot
      BY <1>3, <2>1, <3>2 DEF OthersKept
    <3> QED  BY <3>1, <3>2
  <2>4. \A r : ~Taken(r)'
    BY <2>3 DEF Taken
  <2> QED  BY <2>1, <2>2, <2>4 DEF ReviewsAlone, Taken
<1>7. PendingInv'
  BY <1>6 DEF FormsInv, PendingInv
<1> QED  BY <1>5, <1>7 DEF FormsInv

\* The server answers.
LEMMA FormsServed ==
  ASSUME FormsInv, NEW a \in FormAsk,
         \/ Forms!ServeCandidates(a) \/ Forms!ServeDecision(a)
         \/ Forms!ServeStory(a) \/ Forms!ServeBar(a)
  PROVE  FormsInv'
<1> DEFINE as == formAsks
           as2 == formAsks'
<1>1. Slots(FormAsk, as) /\ OneAlone(FormAsk, as) /\ \A b \in FormAsk : FormCall(as[b])
  BY DEF FormsInv, CallsOfForms
<1>2. ASSUME NEW x, Forms!Served(a, x)
      PROVE  /\ Slots(FormAsk, as2) /\ OneAlone(FormAsk, as2)
             /\ ServedWith(as[a], as2[a], x) /\ OthersSame(FormAsk, as, as2, a)
  <2>1. ServedIn(FormAsk, as, as2, a, x)
    BY <1>2 DEF Forms!Served, ServedIn
  <2> HIDE DEF as, as2
  <2> QED  BY <1>1, <2>1, ServedAlone
<1>3. ASSUME NEW x, Forms!Served(a, x)
      PROVE  ReviewsAlone' => ReviewsAlone
  <2> SUFFICES ASSUME ReviewsAlone', NEW b \in FormAsk
               PROVE  as[b].kind # "candidates" /\ (as[b].kind = "review" => as[b].alone)
    BY DEF ReviewsAlone
  <2>1. as2[b].kind = as[b].kind /\ as2[b].alone = as[b].alone
    BY <1>2, <1>3 DEF ServedWith, OthersSame
  <2> QED  BY <2>1 DEF ReviewsAlone
<1>4. CASE Forms!ServeCandidates(a) \/ Forms!ServeStory(a) \/ Forms!ServeBar(a)
  <2>1. /\ as[a].kind # "review" /\ UNCHANGED <<undecided, onDesk, formSettled>>
        /\ \E x : Forms!Served(a, x) /\ (as[a].kind = "candidates" => x = undecided)
    BY <1>4 DEF Forms!ServeCandidates, Forms!ServeStory, Forms!ServeBar, Forms!Unserved,
      Forms!PendingRows, Forms!Bar, Forms!deskFormsOwn
  <2>2. PICK x : Forms!Served(a, x) /\ (as[a].kind = "candidates" => x = undecided)
    BY <2>1
  <2>3. /\ Slots(FormAsk, as2) /\ OneAlone(FormAsk, as2)
        /\ ServedWith(as[a], as2[a], x) /\ OthersSame(FormAsk, as, as2, a)
    BY <1>2, <2>2
  <2>4. undecided \subseteq Candidate
    BY DEF FormsInv, PendingInv
  <2>5. ASSUME NEW b \in FormAsk PROVE FormCall(formAsks[b])'
    <3>1. FormCall(as[b])
      BY <1>1
    <3>2. CASE b = a
      BY <2>1, <2>2, <2>3, <2>4, <3>1, <3>2 DEF FormCall, ServedWith
    <3>3. CASE b # a
      BY <2>1, <2>3, <3>1, <3>3 DEF FormCall, OthersSame
    <3> QED  BY <3>2, <3>3
  <2>6. CallsOfForms'
    BY <2>3, <2>5 DEF CallsOfForms
  <2>7. \A r : Taken(r)' <=> Taken(r)
    <3>1. \A b \in FormAsk : b # a => as2[b] = as[b]
      BY <2>3 DEF OthersSame
    <3>2. as[a].kind # "review" /\ as2[a].kind # "review"
      BY <2>1, <2>3 DEF ServedWith
    <3> QED  BY <3>1, <3>2 DEF Taken
  <2>8. PendingInv'
    BY <1>3, <2>1, <2>2, <2>7 DEF FormsInv, PendingInv
  <2> QED  BY <2>6, <2>8 DEF FormsInv
<1>5. CASE Forms!ServeDecision(a)
  <2> DEFINE r == as[a].of
             x == IF r \in undecided THEN "done" ELSE "refused"
  <2>1. /\ as[a].kind = "review" /\ ~as[a].served /\ undecided' = undecided \ {r}
        /\ Forms!Served(a, x) /\ UNCHANGED <<onDesk, formSettled>>
    BY <1>5 DEF Forms!ServeDecision, Forms!Unserved
  <2>2. x = "done" <=> r \in undecided
    OBVIOUS
  <2> HIDE DEF x
  <2>3. /\ Slots(FormAsk, as2) /\ OneAlone(FormAsk, as2)
        /\ ServedWith(as[a], as2[a], x) /\ OthersSame(FormAsk, as, as2, a)
    BY <1>2, <2>1
  <2>4. ASSUME NEW b \in FormAsk PROVE FormCall(formAsks[b])'
    <3>1. FormCall(as[b])
      BY <1>1
    <3>2. CASE b = a
      BY <2>1, <2>3, <3>1, <3>2 DEF FormCall, ServedWith
    <3>3. CASE b # a
      <4>1. ~as[b].alone
        BY <1>1, <2>1, <3>3 DEF OneAlone, Busy
      <4> QED  BY <2>3, <3>1, <3>3, <4>1 DEF FormCall, OthersSame
    <3> QED  BY <3>2, <3>3
  <2>5. CallsOfForms'
    BY <2>3, <2>4 DEF CallsOfForms
  <2>6. ASSUME NEW c \in Candidate
        PROVE  Taken(c)' <=> Taken(c) \/ (c = r /\ r \in undecided)
    <3>1. \A b \in FormAsk : b # a => as2[b] = as[b]
      BY <2>3 DEF OthersSame
    <3>2. /\ as2[a].kind = "review" /\ as2[a].served /\ as2[a].of = r
          /\ as2[a].answer = "done" <=> r \in undecided
      BY <2>1, <2>2, <2>3 DEF ServedWith
    <3> QED  BY <2>1, <3>1, <3>2 DEF Taken
  <2>7. PendingInv'
    BY <1>3, <2>1, <2>6 DEF FormsInv, PendingInv
  <2> QED  BY <2>5, <2>7 DEF FormsInv
<1> QED  BY <1>4, <1>5

\* An answer comes, or a call fails.
LEMMA FormsEnded ==
  ASSUME FormsInv, NEW a \in FormAsk, Forms!CallEnds(a) PROVE FormsInv'
<1> DEFINE as == formAsks
           as2 == formAsks'
           c == Forms!NoCall
<1>1. /\ as[a].kind # "none" /\ as2 = [as EXCEPT ![a] = c] /\ undecided' = undecided
  BY DEF Forms!CallEnds, Forms!CandidatesCome, Forms!CandidatesFail, Forms!DecisionComes,
    Forms!DecisionFails, Forms!StoryTaken, Forms!StoryFails, Forms!BarDone, Forms!BarFails,
    Forms!Answered, Forms!CallFails, Forms!Bar
<1>2. Called1(c) /\ c.kind = "none" /\ c.alone = FALSE /\ ~c.served
  BY DEF Forms!NoCall, Forms!NewCall, Called1, Field
<1>3. Slots(FormAsk, as) /\ OneAlone(FormAsk, as) /\ \A b \in FormAsk : FormCall(as[b])
  BY DEF FormsInv, CallsOfForms
<1>4. Slots(FormAsk, as2) /\ OneAlone(FormAsk, as2) /\ as2[a] = c
      /\ OthersSame(FormAsk, as, as2, a)
  <2>1. EndedIn(FormAsk, as, as2, a, c)
    BY <1>1, <1>2 DEF EndedIn, Busy
  <2> HIDE DEF as, as2, c
  <2> QED  BY <1>3, <2>1, EndedAlone
<1> HIDE DEF c
<1>5. ASSUME NEW b \in FormAsk PROVE FormCall(formAsks[b])'
  <2>1. FormCall(as[b])
    BY <1>3
  <2>2. CASE b = a
    BY <1>2, <1>4, <2>2 DEF FormCall, FormKinds
  <2>3. CASE b # a
    BY <1>1, <1>4, <2>1, <2>3 DEF FormCall, OthersSame
  <2> QED  BY <2>2, <2>3
<1>6. CallsOfForms'
  BY <1>4, <1>5 DEF CallsOfForms
<1>7. as[a].alone => \A b \in FormAsk \ {a} : as[b].kind = "none" /\ as2[b].kind = "none"
  BY <1>3, <1>4 DEF OneAlone, OthersSame, Busy
<1>8. as[a].alone => \A r : ~Taken(r)'
  BY <1>2, <1>4, <1>7 DEF Taken
<1>9. CASE Forms!CandidatesFail(a) \/ Forms!DecisionFails(a)
  <2>1. ~formSettled' /\ (onDesk' = {} \/ onDesk' = onDesk)
    BY <1>9 DEF Forms!CandidatesFail, Forms!DecisionFails
  <2> QED  BY <1>1, <1>6, <2>1 DEF FormsInv, PendingInv
<1>10. CASE Forms!CandidatesCome(a)
  <2>1. /\ as[a].kind = "candidates" /\ as[a].served /\ onDesk' = as[a].answer
        /\ formSettled' = as[a].alone
    BY <1>10 DEF Forms!CandidatesCome, Forms!Answered
  <2>2. onDesk' \subseteq Candidate /\ (as[a].alone => onDesk' = undecided)
    BY <1>3, <2>1 DEF FormCall
  <2> QED  BY <1>1, <1>6, <1>8, <2>1, <2>2 DEF FormsInv, PendingInv
<1>11. CASE Forms!DecisionComes(a)
  <2> DEFINE r == as[a].of
  <2>1. /\ as[a].kind = "review" /\ as[a].served
        /\ onDesk' = IF as[a].answer = "done" THEN onDesk \ {r} ELSE onDesk
        /\ formSettled' = (formSettled /\ as[a].alone /\ as[a].answer = "done")
    BY <1>11 DEF Forms!DecisionComes, Forms!Answered, Forms!RowsAfter
  <2>2. onDesk' \subseteq Candidate
    BY <2>1 DEF FormsInv, PendingInv
  <2>3. ASSUME formSettled', NEW k \in Candidate
        PROVE  k \in undecided <=> k \in onDesk' /\ ~Taken(k)'
    <3>1. formSettled /\ as[a].alone /\ onDesk' = onDesk \ {r} /\ as[a].answer = "done"
      BY <2>1, <2>3
    <3>2. ReviewsAlone
      BY <1>7, <2>1, <3>1 DEF ReviewsAlone
    <3>3. Taken(k) <=> k = r
      BY <1>7, <2>1, <3>1 DEF Taken
    <3>4. k \in undecided <=> k \in onDesk /\ ~Taken(k)
      BY <3>1, <3>2 DEF FormsInv, PendingInv
    <3> QED  BY <1>8, <3>1, <3>3, <3>4
  <2> QED  BY <1>1, <1>6, <2>2, <2>3 DEF FormsInv, PendingInv
<1>12. CASE Forms!StoryTaken(a) \/ Forms!StoryFails(a) \/ Forms!BarDone(a) \/ Forms!BarFails(a)
  <2>1. /\ as[a].kind \notin {"review", "candidates"} /\ UNCHANGED <<onDesk, formSettled>>
    BY <1>12 DEF Forms!StoryTaken, Forms!StoryFails, Forms!BarDone, Forms!BarFails,
      Forms!Answered, Forms!CallFails, Forms!Bar
  <2>2. \A b \in FormAsk : b # a => as2[b] = as[b]
    BY <1>4 DEF OthersSame
  <2>3. as2[a].kind = "none"
    BY <1>2, <1>4
  <2>4. (ReviewsAlone' <=> ReviewsAlone) /\ \A r : Taken(r)' <=> Taken(r)
    BY <2>1, <2>2, <2>3 DEF ReviewsAlone, Taken
  <2> QED  BY <1>1, <1>6, <2>1, <2>4 DEF FormsInv, PendingInv
<1> QED  BY <1>9, <1>10, <1>11, <1>12 DEF Forms!CallEnds

\* Another reviewer decides, or a crawl finds a candidate: no call is alone after it.
LEMMA FormsElsewhere ==
  ASSUME FormsInv, NEW c \in Candidate, Forms!DecidedElsewhere(c) PROVE FormsInv'
<1>1. /\ Forms!Elsewhere /\ UNCHANGED onDesk
      /\ undecided' \in {undecided \ {c}, undecided \cup {c}}
  BY DEF Forms!DecidedElsewhere
<1>2. /\ ~formSettled' /\ undecided' \subseteq Candidate /\ onDesk' \subseteq Candidate
      /\ formAsks' = [a \in FormAsk |-> [formAsks[a] EXCEPT !.alone = FALSE]]
  BY <1>1 DEF Forms!Elsewhere, FormsInv, PendingInv
<1> DEFINE as == formAsks
           as2 == formAsks'
<1>3. Slots(FormAsk, as) /\ \A b \in FormAsk : FormCall(as[b])
  BY DEF FormsInv, CallsOfForms
<1>4. Slots(FormAsk, as2) /\ OneAlone(FormAsk, as2) /\ NoneAlone(FormAsk, as, as2)
  <2> HIDE DEF as, as2
  <2> QED  BY <1>2, <1>3, DisturbedAlone DEF as, as2
<1>5. ASSUME NEW b \in FormAsk PROVE FormCall(formAsks[b])'
  BY <1>3, <1>4 DEF FormCall, NoneAlone
<1>6. CallsOfForms'
  BY <1>4, <1>5 DEF CallsOfForms
<1> QED  BY <1>2, <1>6 DEF FormsInv, PendingInv

LEMMA FormsBegin == FormAsk # {} /\ Forms!DeskFormsInit => FormsInv
<1> SUFFICES ASSUME FormAsk # {}, Forms!DeskFormsInit PROVE FormsInv
  OBVIOUS
<1> DEFINE slot == CHOOSE a \in FormAsk : TRUE
           c == Forms!NewCall("candidates", Nothing, Nothing, TRUE)
           n == Forms!NoCall
<1>1. /\ slot \in FormAsk /\ ~formSettled /\ onDesk = {} /\ undecided \subseteq Candidate
      /\ formAsks = [b \in FormAsk |-> IF b = slot THEN c ELSE n]
  BY DEF Forms!DeskFormsInit, Forms!CallsBegin
<1>2. /\ Called1(c) /\ c.kind = "candidates" /\ ~c.served
      /\ Called1(n) /\ n.kind = "none" /\ n.alone = FALSE
  BY DEF Forms!NoCall, Forms!NewCall, Called1, Field
<1> HIDE DEF slot, c, n
<1>3. CallsOfForms
  BY <1>1, <1>2 DEF CallsOfForms, Slots, OneAlone, Busy, FormCall, FormKinds
<1> QED  BY <1>1, <1>3 DEF FormsInv, PendingInv

LEMMA FormsStep == FormsInv /\ [Forms!DeskFormsNext]_(Forms!deskFormsVars) => FormsInv'
<1> SUFFICES ASSUME FormsInv, [Forms!DeskFormsNext]_(Forms!deskFormsVars) PROVE FormsInv'
  OBVIOUS
<1>1. CASE Forms!LoadCandidates
  <2>1. /\ Forms!Sent("candidates", Nothing, Nothing)
        /\ UNCHANGED <<undecided, onDesk, formSettled>>
    BY <1>1 DEF Forms!LoadCandidates, Forms!deskFormsOwn
  <2> QED  BY <2>1, FormsSent DEF FormKinds
<1>2. ASSUME NEW c \in Candidate, Forms!ReviewCandidate(c) PROVE FormsInv'
  <2>1. Forms!Sent("review", c, Nothing) /\ UNCHANGED <<undecided, onDesk, formSettled>>
    BY <1>2 DEF Forms!ReviewCandidate
  <2> QED  BY <2>1, FormsSent DEF FormKinds
<1>3. CASE Forms!SubmitStory
  <2>1. Forms!Sent("ingest", mode, Nothing) /\ UNCHANGED <<undecided, onDesk, formSettled>>
    BY <1>3 DEF Forms!SubmitStory
  <2> QED  BY <2>1, FormsSent DEF FormKinds
<1>4. ASSUME NEW k \in Forms!Bar, Forms!PressBar(k) PROVE FormsInv'
  <2>1. /\ Forms!Sent(k, Nothing, Nothing) /\ UNCHANGED <<undecided, onDesk, formSettled>>
        /\ k \in FormKinds \ {"none"} /\ k # "review"
    BY <1>4 DEF Forms!PressBar, FormKinds, Forms!Bar
  <2> QED  BY <2>1, FormsSent
<1>5. ASSUME NEW m \in Forms!Mode, Forms!SetMode(m) PROVE FormsInv'
  BY <1>5, FormsRest DEF Forms!SetMode
<1>6. CASE Forms!WriteField
  BY <1>6, FormsRest DEF Forms!WriteField
<1>7. CASE UNCHANGED Forms!deskFormsVars
  BY <1>7, FormsRest DEF Forms!deskFormsVars, Forms!deskFormsOwn, Forms!callVars
<1>8. ASSUME NEW a \in FormAsk, Forms!CallEnds(a) PROVE FormsInv'
  BY <1>8, FormsEnded
<1> QED  BY <1>1, <1>2, <1>3, <1>4, <1>5, <1>6, <1>7, <1>8, FormsServed, FormsElsewhere
         DEF Forms!DeskFormsNext, Forms!CallEnds

LEMMA FormsAreTrue == FormsInv => Forms!CandidatesShown
<1> SUFFICES ASSUME FormsInv, formSettled, Forms!Quiet PROVE onDesk = undecided
  BY DEF Forms!CandidatesShown
<1>1. \A a \in FormAsk : formAsks[a].kind = "none"
  BY DEF Forms!Quiet, Forms!Idle
<1>2. ReviewsAlone /\ \A c : ~Taken(c)
  BY <1>1 DEF ReviewsAlone, Taken
<1> QED  BY <1>2 DEF FormsInv, PendingInv

\* When the candidates came with no call beside them, and every review since then did too,
\* the panel shows the pending ones, all of them (SupplierCandidatesPanelViewModel.ts:50-77).
THEOREM PendingStandOnDesk ==
  FormAsk # {} => (Forms!DeskFormsSpec => []Forms!CandidatesShown)
<1> QED  BY FormsAreTrue, FormsBegin, FormsStep, PTL DEF Forms!DeskFormsSpec

-----------------------------------------------------------------------------
(***************************************************************************)
(* The queues of topic governance.  A queue asked for alone is the active  *)
(* one, and once served what the server lists.  When the rows came alone,  *)
(* they are what the server lists until a queue is asked for, or a change  *)
(* is made whose answer will ask for it.                                   *)
(***************************************************************************)
TopicCall(c) ==
  /\ c.kind \in {"none", "queue", "detail", "version", "submit"}
  /\ c.alone /\ c.kind = "queue" => c.of = queue /\ (c.served => c.answer = filed[queue])

CallsOfTopics ==
  /\ Slots(TopicAsk, topicAsks) /\ OneAlone(TopicAsk, topicAsks)
  /\ \A a \in TopicAsk : TopicCall(topicAsks[a])
Reloads(c) == c.kind = "queue" \/ (c.kind = "submit" /\ c.served /\ c.answer = "done")
QueueInv ==
  /\ filed = [q \in Queue |-> filed[q]] /\ queue \in Queue
  /\ topicSettled /\ (\A a \in TopicAsk : ~Reloads(topicAsks[a])) => rowsShown = filed[queue]

TopicsInv == CallsOfTopics /\ QueueInv

\* What touches neither the calls nor the rows.
LEMMA TopicsRest ==
  ASSUME TopicsInv, UNCHANGED <<filed, queue, rowsShown, topicAsks, topicSettled>>
  PROVE  TopicsInv'
<1>1. CallsOfTopics'
  BY DEF TopicsInv, CallsOfTopics, TopicCall
<1>2. QueueInv'
  BY DEF TopicsInv, QueueInv, Reloads
<1> QED  BY <1>1, <1>2 DEF TopicsInv

\* A call goes out.
LEMMA TopicsSent ==
  ASSUME TopicsInv, NEW k \in {"queue", "detail", "version"}, NEW x, NEW y,
         Governance!Sent(k, x, y),
         k = "queue" => x = queue' /\ queue' \in Queue,
         k # "queue" => queue' = queue,
         UNCHANGED <<filed, rowsShown, topicSettled>>
  PROVE  TopicsInv'
<1> DEFINE slot == CHOOSE a \in TopicAsk : Governance!Idle(a)
           c == Governance!NewCall(k, x, y, Governance!Quiet)
           as == topicAsks
           as2 == topicAsks'
<1>1. /\ slot \in TopicAsk /\ ~Busy(as[slot])
      /\ as2 = [b \in TopicAsk |-> IF b = slot THEN c ELSE [as[b] EXCEPT !.alone = FALSE]]
  BY DEF Governance!Sent, Governance!Idle, Busy
<1>2. /\ Called1(c) /\ Busy(c) /\ c.kind = k /\ c.of = x
      /\ ~c.served /\ (c.alone <=> \A a \in TopicAsk : ~Busy(as[a]))
  <2> DEFINE s == Governance!Quiet
  <2>1. s \in BOOLEAN /\ (s <=> \A a \in TopicAsk : ~Busy(as[a]))
    BY DEF Governance!Quiet, Governance!Idle, Busy
  <2> HIDE DEF s
  <2>2. c = [kind |-> k, of |-> x, with |-> y, served |-> FALSE, alone |-> s,
             answer |-> Nothing]
    BY DEF Governance!NewCall, s
  <2> HIDE DEF c
  <2>3. DOMAIN c = Field /\ c.served = FALSE /\ c.alone = s /\ c.kind = k /\ c.of = x
    BY <2>2 DEF Field
  <2> QED  BY <2>1, <2>3 DEF Called1, Busy
<1> HIDE DEF slot, c
<1>3. /\ Slots(TopicAsk, as2) /\ OneAlone(TopicAsk, as2) /\ as2[slot] = c
      /\ OthersKept(TopicAsk, as, as2, slot)
  <2>1. Slots(TopicAsk, as) /\ OneAlone(TopicAsk, as)
    BY DEF TopicsInv, CallsOfTopics
  <2>2. SentInto(TopicAsk, as, as2, slot, c)
    BY <1>1, <1>2 DEF SentInto
  <2> HIDE DEF as, as2
  <2> QED  BY <2>1, <2>2, SentAlone
<1>4. ASSUME NEW b \in TopicAsk PROVE TopicCall(topicAsks[b])'
  <2>1. TopicCall(as[b])
    BY DEF TopicsInv, CallsOfTopics
  <2>2. CASE b = slot
    BY <1>2, <1>3, <2>2 DEF TopicCall
  <2>3. CASE b # slot
    BY <1>3, <2>1, <2>3 DEF TopicCall, OthersKept
  <2> QED  BY <2>2, <2>3
<1>5. CallsOfTopics'
  BY <1>3, <1>4 DEF CallsOfTopics
<1>6. k = "queue" => Reloads(as2[slot])
  BY <1>2, <1>3 DEF Reloads
<1>7. ASSUME k # "queue", \A b \in TopicAsk : ~Reloads(as2[b]), NEW b \in TopicAsk
      PROVE  ~Reloads(as[b])
  <2>1. CASE b = slot
    BY <1>1, <2>1 DEF Reloads, Busy
  <2>2. CASE b # slot
    <3>1. as2[b].kind = as[b].kind /\ as2[b].served = as[b].served /\ as2[b].answer = as[b].answer
      BY <1>3, <2>2 DEF OthersKept
    <3> QED  BY <1>7, <3>1 DEF Reloads
  <2> QED  BY <2>1, <2>2
<1>8. QueueInv'
  <2>1. CASE k = "queue"
    <3>1. /\ filed' = [q \in Queue |-> filed'[q]] /\ queue' \in Queue
      BY <2>1 DEF TopicsInv, QueueInv
    <3> QED  BY <1>1, <1>6, <2>1, <3>1 DEF QueueInv
  <2>2. CASE k # "queue"
    BY <1>7, <2>2 DEF TopicsInv, QueueInv
  <2> QED  BY <2>1, <2>2
<1> QED  BY <1>5, <1>8 DEF TopicsInv

\* The server answers a read.
LEMMA TopicsRead ==
  ASSUME TopicsInv, NEW a \in TopicAsk, Governance!ServeRead(a) PROVE TopicsInv'
<1> DEFINE as == topicAsks
           as2 == topicAsks'
           x == Governance!ReadOf(as[a])
<1>1. /\ as[a].kind \in {"queue", "detail", "version"} /\ ServedIn(TopicAsk, as, as2, a, x)
      /\ UNCHANGED <<filed, queue, rowsShown, topicSettled>>
  BY DEF Governance!ServeRead, Governance!Unserved, Governance!Served, ServedIn,
    Governance!topicDeskOwn
<1>2. as[a].kind = "queue" => x = filed[as[a].of]
  BY DEF Governance!ReadOf
<1>3. Slots(TopicAsk, as) /\ OneAlone(TopicAsk, as) /\ \A b \in TopicAsk : TopicCall(as[b])
  BY DEF TopicsInv, CallsOfTopics
<1> HIDE DEF x
<1>4. /\ Slots(TopicAsk, as2) /\ OneAlone(TopicAsk, as2)
      /\ ServedWith(as[a], as2[a], x) /\ OthersSame(TopicAsk, as, as2, a)
  <2> HIDE DEF as, as2
  <2> QED  BY <1>1, <1>3, ServedAlone
<1>5. ASSUME NEW b \in TopicAsk PROVE TopicCall(topicAsks[b])'
  <2>1. TopicCall(as[b])
    BY <1>3
  <2>2. CASE b = a
    BY <1>1, <1>2, <1>4, <2>1, <2>2 DEF TopicCall, ServedWith
  <2>3. CASE b # a
    BY <1>1, <1>4, <2>1, <2>3 DEF TopicCall, OthersSame
  <2> QED  BY <2>2, <2>3
<1>6. CallsOfTopics'
  BY <1>4, <1>5 DEF CallsOfTopics
<1>7. \A b \in TopicAsk : Reloads(as2[b]) <=> Reloads(as[b])
  <2>1. Reloads(as2[a]) <=> Reloads(as[a])
    BY <1>1, <1>4 DEF ServedWith, Reloads
  <2> QED  BY <1>4, <2>1 DEF OthersSame
<1>8. QueueInv'
  BY <1>1, <1>7 DEF TopicsInv, QueueInv
<1> QED  BY <1>6, <1>8 DEF TopicsInv

\* The server makes a change, or refuses it.
LEMMA TopicsChanged ==
  ASSUME TopicsInv, NEW a \in TopicAsk, Governance!ServeSubmit(a) PROVE TopicsInv'
<1> DEFINE as == topicAsks
           as2 == topicAsks'
<1>1. PICK x \in {"done", "refused"} :
        /\ as[a].kind = "submit" /\ ~as[a].served /\ ServedIn(TopicAsk, as, as2, a, x)
        /\ filed' = [filed EXCEPT ![Shadowed] = IF x = "done" THEN @ \ {as[a].of} ELSE @]
        /\ UNCHANGED <<queue, rowsShown, topicSettled>>
  <2> DEFINE g == as[a].of
             claimed == as[a].with[2] = version[g]
  <2>1. /\ as[a].kind = "submit" /\ ~as[a].served
        /\ UNCHANGED <<queue, rowsShown, topicSettled>>
        /\ \E may : /\ filed' = [filed EXCEPT ![Shadowed] = IF claimed /\ may THEN @ \ {g} ELSE @]
                    /\ Governance!Served(a, IF claimed /\ may THEN "done" ELSE "refused")
    BY DEF Governance!ServeSubmit, Governance!Unserved
  <2> HIDE DEF claimed
  <2>2. PICK may : /\ filed' = [filed EXCEPT ![Shadowed] = IF claimed /\ may THEN @ \ {g} ELSE @]
                   /\ Governance!Served(a, IF claimed /\ may THEN "done" ELSE "refused")
    BY <2>1
  <2>3. CASE claimed /\ may
    <3>1. /\ filed' = [filed EXCEPT ![Shadowed] = @ \ {g}]
          /\ ServedIn(TopicAsk, as, as2, a, "done")
      BY <2>2, <2>3 DEF Governance!Served, ServedIn
    <3> QED  BY <2>1, <3>1
  <2>4. CASE ~(claimed /\ may)
    <3>1. /\ filed' = [filed EXCEPT ![Shadowed] = @]
          /\ ServedIn(TopicAsk, as, as2, a, "refused")
      BY <2>2, <2>4 DEF Governance!Served, ServedIn
    <3> QED  BY <2>1, <3>1
  <2> QED  BY <2>3, <2>4
<1>2. Slots(TopicAsk, as) /\ OneAlone(TopicAsk, as) /\ \A b \in TopicAsk : TopicCall(as[b])
  BY DEF TopicsInv, CallsOfTopics
<1>3. /\ Slots(TopicAsk, as2) /\ OneAlone(TopicAsk, as2)
      /\ ServedWith(as[a], as2[a], x) /\ OthersSame(TopicAsk, as, as2, a)
  <2> HIDE DEF as, as2
  <2> QED  BY <1>1, <1>2, ServedAlone
<1>4. ASSUME NEW b \in TopicAsk PROVE TopicCall(topicAsks[b])'
  <2>1. TopicCall(as[b])
    BY <1>2
  <2>2. CASE b = a
    BY <1>1, <1>3, <2>1, <2>2 DEF TopicCall, ServedWith
  <2>3. CASE b # a
    <3>1. ~as[b].alone
      BY <1>1, <1>2, <2>3 DEF OneAlone, Busy
    <3> QED  BY <1>3, <2>1, <2>3, <3>1 DEF TopicCall, OthersSame
  <2> QED  BY <2>2, <2>3
<1>5. CallsOfTopics'
  BY <1>3, <1>4 DEF CallsOfTopics
<1>6. filed' = [q \in Queue |-> filed'[q]] /\ (x # "done" => filed' = filed)
  BY <1>1 DEF TopicsInv, QueueInv
<1>7. Reloads(as2[a]) <=> x = "done"
  BY <1>1, <1>3 DEF ServedWith, Reloads
<1>8. ~Reloads(as[a]) /\ \A b \in TopicAsk : b # a => as2[b] = as[b]
  BY <1>1, <1>3 DEF OthersSame, Reloads
<1>9. QueueInv'
  BY <1>1, <1>6, <1>7, <1>8 DEF TopicsInv, QueueInv
<1> QED  BY <1>5, <1>9 DEF TopicsInv

\* A call is put into the place of one that ends: an idle one, or the next of its kind.
LEMMA TopicsReplaced ==
  ASSUME TopicsInv, NEW a \in TopicAsk, NEW c, Busy(topicAsks[a]),
         Called1(c), TopicCall(c), topicAsks' = [topicAsks EXCEPT ![a] = c],
         c.alone => Busy(c) /\ \A b \in TopicAsk \ {a} : ~Busy(topicAsks[b]),
         UNCHANGED <<filed, queue>>
  PROVE  CallsOfTopics' /\ topicAsks'[a] = c /\ OthersSame(TopicAsk, topicAsks, topicAsks', a)
<1> DEFINE as == topicAsks
           as2 == topicAsks'
<1>1. Slots(TopicAsk, as) /\ OneAlone(TopicAsk, as) /\ \A b \in TopicAsk : TopicCall(as[b])
  BY DEF TopicsInv, CallsOfTopics
<1>2. as2 = [b \in TopicAsk |-> IF b = a THEN c ELSE as[b]]
  BY <1>1 DEF Slots
<1>3. as2[a] = c /\ OthersSame(TopicAsk, as, as2, a)
  BY <1>2 DEF OthersSame
<1>4. Slots(TopicAsk, as2)
  BY <1>1, <1>2, <1>3 DEF Slots, OthersSame
<1>5. OneAlone(TopicAsk, as2)
  <2> SUFFICES ASSUME NEW d \in TopicAsk, as2[d].alone
               PROVE  Busy(as2[d]) /\ \A b \in TopicAsk \ {d} : ~Busy(as2[b])
    BY DEF OneAlone
  <2>1. CASE d = a
    BY <1>3, <2>1 DEF OthersSame
  <2>2. CASE d # a
    <3>1. as[d].alone /\ as2[d] = as[d]
      BY <1>3, <2>2 DEF OthersSame
    <3>2. ~Busy(as[a])
      BY <1>1, <2>2, <3>1 DEF OneAlone
    <3> QED  BY <3>2
  <2> QED  BY <2>1, <2>2
<1>6. ASSUME NEW b \in TopicAsk PROVE TopicCall(topicAsks[b])'
  <2>1. TopicCall(as[b]) /\ (b # a => as2[b] = as[b])
    BY <1>1, <1>3 DEF OthersSame
  <2> QED  BY <1>3, <2>1 DEF TopicCall
<1> QED  BY <1>3, <1>4, <1>5, <1>6 DEF CallsOfTopics

\* An answer comes, or a call fails.
LEMMA TopicsEnded ==
  ASSUME TopicsInv, NEW a \in TopicAsk, Governance!TopicCallEnds(a) PROVE TopicsInv'
<1> DEFINE as == topicAsks
           as2 == topicAsks'
           n == Governance!NoCall
<1>1. Slots(TopicAsk, as) /\ OneAlone(TopicAsk, as) /\ \A b \in TopicAsk : TopicCall(as[b])
  BY DEF TopicsInv, CallsOfTopics
<1>2. Called1(n) /\ n.kind = "none" /\ n.alone = FALSE
  BY DEF Governance!NoCall, Governance!NewCall, Called1, Field
<1>3. TopicCall(n) /\ ~Reloads(n)
  BY <1>2 DEF TopicCall, Reloads
<1>4. filed = [q \in Queue |-> filed[q]] /\ queue \in Queue
  BY DEF TopicsInv, QueueInv
<1>5. ASSUME as[a].kind # "none", as2 = [as EXCEPT ![a] = n], UNCHANGED <<filed, queue>>
      PROVE  CallsOfTopics' /\ as2[a] = n /\ OthersSame(TopicAsk, as, as2, a)
  <2> HIDE DEF n
  <2> QED  BY <1>2, <1>3, <1>5, TopicsReplaced DEF Busy
<1> HIDE DEF n
<1>6. CASE Governance!QueueFails(a) \/ Governance!ChangeFails(a)
  <2>1. /\ as[a].kind # "none" /\ as2 = [as EXCEPT ![a] = n] /\ UNCHANGED <<filed, queue>>
        /\ ~topicSettled'
    BY <1>6 DEF Governance!QueueFails, Governance!ChangeFails, Governance!CallFails, n
  <2> QED  BY <1>4, <1>5, <2>1 DEF TopicsInv, QueueInv
<1>7. CASE Governance!QueueComes(a)
  <2>1. /\ as[a].kind = "queue" /\ as[a].served /\ as2 = [as EXCEPT ![a] = n]
        /\ rowsShown' = as[a].answer /\ topicSettled' = as[a].alone /\ UNCHANGED <<filed, queue>>
    BY <1>7 DEF Governance!QueueComes, Governance!Answered, n
  <2>2. as[a].alone => rowsShown' = filed[queue]
    BY <1>1, <2>1 DEF TopicCall
  <2> QED  BY <1>4, <1>5, <2>1, <2>2 DEF TopicsInv, QueueInv
<1>8. CASE Governance!DetailComes(a) \/ Governance!DetailFails(a) \/ Governance!ChangeRefused(a)
  <2>1. /\ as[a].kind # "none" /\ as2 = [as EXCEPT ![a] = n] /\ ~Reloads(as[a])
        /\ UNCHANGED <<filed, queue, rowsShown, topicSettled>>
    BY <1>8 DEF Governance!DetailComes, Governance!DetailFails, Governance!ChangeRefused,
      Governance!Answered, Governance!CallFails, Reloads, n
  <2>2. CallsOfTopics' /\ as2[a] = n /\ OthersSame(TopicAsk, as, as2, a)
    BY <1>5, <2>1
  <2>3. \A b \in TopicAsk : Reloads(as2[b]) <=> Reloads(as[b])
    BY <1>3, <2>1, <2>2 DEF OthersSame
  <2>4. QueueInv'
    BY <2>1, <2>3 DEF TopicsInv, QueueInv
  <2> QED  BY <2>2, <2>4 DEF TopicsInv
<1>9. CASE Governance!VersionComes(a)
  <2>1. PICK v : as2 = Governance!AskedWith(a, v)
    BY <1>9 DEF Governance!VersionComes
  <2> DEFINE c == Governance!NewCall("submit", as[a].of, <<as[a].with, v>>, FALSE)
  <2>2. /\ as[a].kind = "version" /\ as2 = [as EXCEPT ![a] = c]
        /\ UNCHANGED <<filed, queue, rowsShown, topicSettled>>
    BY <1>9, <2>1 DEF Governance!VersionComes, Governance!AskedWith, Governance!topicDeskOwn
  <2>3. Called1(c) /\ c.kind = "submit" /\ c.alone = FALSE /\ c.served = FALSE
    BY DEF Governance!NewCall, Called1, Field
  <2> HIDE DEF c
  <2>4. TopicCall(c) /\ ~Reloads(c) /\ ~Reloads(as[a])
    BY <2>2, <2>3 DEF TopicCall, Reloads
  <2>5. CallsOfTopics' /\ as2[a] = c /\ OthersSame(TopicAsk, as, as2, a)
    BY <2>2, <2>3, <2>4, TopicsReplaced DEF Busy
  <2>6. \A b \in TopicAsk : Reloads(as2[b]) <=> Reloads(as[b])
    BY <2>4, <2>5 DEF OthersSame
  <2>7. QueueInv'
    BY <2>2, <2>6 DEF TopicsInv, QueueInv
  <2> QED  BY <2>5, <2>7 DEF TopicsInv
<1>10. CASE Governance!ChangeMade(a)
  <2> DEFINE s == \A b \in TopicAsk \ {a} : Governance!Idle(b)
             c == Governance!NewCall("queue", queue, Nothing, s)
  <2>1. /\ as[a].kind = "submit" /\ as2 = [as EXCEPT ![a] = c]
        /\ UNCHANGED <<filed, queue, rowsShown, topicSettled>>
    BY <1>10 DEF Governance!ChangeMade, Governance!Reloaded
  <2>2. s \in BOOLEAN /\ (s => \A b \in TopicAsk \ {a} : ~Busy(as[b]))
    BY DEF Governance!Idle, Busy
  <2> HIDE DEF s
  <2>3. /\ Called1(c) /\ c.kind = "queue" /\ c.of = queue /\ c.served = FALSE /\ c.alone = s
    BY <2>2 DEF Governance!NewCall, Called1, Field
  <2> HIDE DEF c
  <2>4. TopicCall(c) /\ Reloads(c) /\ Busy(c)
    BY <2>3 DEF TopicCall, Reloads, Busy
  <2>5. CallsOfTopics' /\ as2[a] = c
    BY <2>1, <2>2, <2>3, <2>4, TopicsReplaced DEF Busy
  <2>6. QueueInv'
    BY <1>4, <2>1, <2>4, <2>5 DEF QueueInv
  <2> QED  BY <2>5, <2>6 DEF TopicsInv
<1> QED  BY <1>6, <1>7, <1>8, <1>9, <1>10 DEF Governance!TopicCallEnds

\* Another curator or a crawl changes a queue: no call is alone after it.
LEMMA TopicsElsewhere ==
  ASSUME TopicsInv, NEW q \in Queue, NEW r, Governance!GovernedElsewhere(q, r)
  PROVE  TopicsInv'
<1> DEFINE as == topicAsks
           as2 == topicAsks'
<1>1. /\ ~topicSettled' /\ as2 = [a \in TopicAsk |-> [as[a] EXCEPT !.alone = FALSE]]
      /\ filed' = [filed EXCEPT ![q] = IF r \in @ THEN @ \ {r} ELSE @ \cup {r}]
      /\ queue' = queue
  BY DEF Governance!GovernedElsewhere, Governance!Elsewhere
<1>2. Slots(TopicAsk, as) /\ \A b \in TopicAsk : TopicCall(as[b])
  BY DEF TopicsInv, CallsOfTopics
<1>3. Slots(TopicAsk, as2) /\ OneAlone(TopicAsk, as2) /\ NoneAlone(TopicAsk, as, as2)
  <2> HIDE DEF as, as2
  <2> QED  BY <1>1, <1>2, DisturbedAlone DEF as, as2
<1>4. ASSUME NEW b \in TopicAsk PROVE TopicCall(topicAsks[b])'
  BY <1>2, <1>3 DEF TopicCall, NoneAlone
<1>5. CallsOfTopics'
  BY <1>3, <1>4 DEF CallsOfTopics
<1>6. filed' = [p \in Queue |-> filed'[p]] /\ queue' \in Queue
  BY <1>1 DEF TopicsInv, QueueInv
<1> QED  BY <1>1, <1>5, <1>6 DEF TopicsInv, QueueInv

LEMMA TopicsBegin ==
  ASSUME TopicAsk # {}, Governance!TopicDeskAssumption, Governance!TopicDeskInit
  PROVE  TopicsInv
<1> DEFINE slot == CHOOSE a \in TopicAsk : TRUE
           c == Governance!NewCall("queue", Governance!FirstQueue, Nothing, TRUE)
           n == Governance!NoCall
<1>1. /\ slot \in TopicAsk /\ ~topicSettled /\ filed = RowsOf /\ queue = Governance!FirstQueue
      /\ topicAsks = [b \in TopicAsk |-> IF b = slot THEN c ELSE n]
  BY DEF Governance!TopicDeskInit, Governance!CallsBegin
<1>2. /\ Called1(c) /\ c.kind = "queue" /\ ~c.served /\ c.of = Governance!FirstQueue
      /\ Called1(n) /\ n.kind = "none" /\ n.alone = FALSE
  BY DEF Governance!NoCall, Governance!NewCall, Called1, Field
<1> HIDE DEF slot, c, n
<1>3. CallsOfTopics
  BY <1>1, <1>2 DEF CallsOfTopics, Slots, OneAlone, Busy, TopicCall
<1>4. filed = [q \in Queue |-> filed[q]] /\ queue \in Queue
  BY <1>1 DEF Governance!TopicDeskAssumption
<1> QED  BY <1>1, <1>3, <1>4 DEF TopicsInv, QueueInv

LEMMA TopicsStep ==
  TopicsInv /\ [Governance!TopicDeskNext]_(Governance!topicDeskVars) => TopicsInv'
<1> SUFFICES ASSUME TopicsInv, [Governance!TopicDeskNext]_(Governance!topicDeskVars)
             PROVE  TopicsInv'
  OBVIOUS
<1>0. queue \in Queue
  BY DEF TopicsInv, QueueInv
<1>1. ASSUME NEW q \in Queue, Governance!SetActiveQueue(q) PROVE TopicsInv'
  <2>1. /\ Governance!Sent("queue", q, Nothing) /\ queue' = q
        /\ UNCHANGED <<filed, rowsShown, topicSettled>>
    BY <1>1 DEF Governance!SetActiveQueue
  <2> QED  BY <2>1, TopicsSent
<1>2. CASE Governance!RefreshQueue
  <2>1. /\ Governance!Sent("queue", queue, Nothing) /\ queue' = queue
        /\ UNCHANGED <<filed, rowsShown, topicSettled>>
    BY <1>2 DEF Governance!RefreshQueue
  <2> QED  BY <1>0, <2>1, TopicsSent
<1>3. ASSUME NEW r, Governance!OpenDetail(r) PROVE TopicsInv'
  <2>1. /\ Governance!Sent("detail", r, DetailOf[queue])
        /\ UNCHANGED <<filed, queue, rowsShown, topicSettled>>
    BY <1>3 DEF Governance!OpenDetail, Governance!topicDeskOwn
  <2> QED  BY <2>1, TopicsSent
<1>4. CASE Governance!ClearDetail
  BY <1>4, TopicsRest DEF Governance!ClearDetail
<1>5. ASSUME NEW g, NEW change, Governance!Submit(g, change) PROVE TopicsInv'
  <2>1. /\ Governance!Sent("version", g, change)
        /\ UNCHANGED <<filed, queue, rowsShown, topicSettled>>
    BY <1>5 DEF Governance!Submit
  <2> QED  BY <2>1, TopicsSent
<1>6. CASE UNCHANGED Governance!topicDeskVars
  BY <1>6, TopicsRest DEF Governance!topicDeskVars, Governance!topicDeskOwn, Governance!callVars
<1>7. ASSUME NEW a \in TopicAsk, Governance!TopicCallEnds(a) PROVE TopicsInv'
  BY <1>7, TopicsEnded
<1> QED  BY <1>1, <1>2, <1>3, <1>4, <1>5, <1>6, <1>7, TopicsRead, TopicsChanged, TopicsElsewhere
         DEF Governance!TopicDeskNext, Governance!TopicCallEnds, Governance!Reject,
           Governance!Adopt, Governance!QuickTool

LEMMA TopicsAreTrue == TopicsInv => Governance!QueueIsTrue
<1> SUFFICES ASSUME TopicsInv, topicSettled, Governance!Quiet PROVE rowsShown = filed[queue]
  BY DEF Governance!QueueIsTrue
<1>1. \A a \in TopicAsk : ~Reloads(topicAsks[a])
  BY DEF Governance!Quiet, Governance!Idle, Reloads
<1> QED  BY <1>1 DEF TopicsInv, QueueInv

\* When the queue came with no call beside it, it is the queue that is active and what the
\* server would list, whatever was changed from the panel since
\* (TopicGovernanceViewModel.ts:64-81, 124-138).
THEOREM QueueStaysTrue ==
  TopicAsk # {} /\ Governance!TopicDeskAssumption =>
    (Governance!TopicDeskSpec => []Governance!QueueIsTrue)
<1> SUFFICES ASSUME TopicAsk # {}, Governance!TopicDeskAssumption
             PROVE  Governance!TopicDeskSpec => []Governance!QueueIsTrue
  OBVIOUS
<1>1. Governance!TopicDeskInit => TopicsInv
  BY TopicsBegin
<1> QED  BY TopicsAreTrue, <1>1, TopicsStep, PTL DEF Governance!TopicDeskSpec

-----------------------------------------------------------------------------
(***************************************************************************)
(* The whole: a step is of one part and the others rest.                   *)
(***************************************************************************)
OneSteps ==
  /\ TabsSteps \/ UNCHANGED tabsVars
  /\ FormsSteps \/ UNCHANGED formsVars
  /\ GovernanceSteps \/ UNCHANGED governanceVars

LEMMA OnePartSteps == [Next]_vars => OneSteps
<1> SUFFICES ASSUME [Next]_vars PROVE OneSteps
  OBVIOUS
<1>1. CASE ScreenSteps
  BY <1>1 DEF ScreenSteps, OnlyScreen, OneSteps
<1>2. CASE TabsSteps
  BY <1>2 DEF TabsSteps, OnlyTabs, OneSteps
<1>3. CASE GraphSteps
  BY <1>3 DEF GraphSteps, OnlyGraph, OneSteps
<1>4. CASE ListsSteps
  BY <1>4 DEF ListsSteps, OnlyLists, OneSteps
<1>5. CASE FormsSteps
  BY <1>5 DEF FormsSteps, OnlyForms, OneSteps
<1>6. CASE GovernanceSteps
  BY <1>6 DEF GovernanceSteps, OnlyGovernance, OneSteps
<1>7. CASE UNCHANGED vars
  BY <1>7 DEF vars, OneSteps
<1> QED  BY <1>1, <1>2, <1>3, <1>4, <1>5, <1>6, <1>7 DEF Next

LEMMA TabsPart == Spec => Tabs!RoutesInit /\ [][Tabs!RoutesNext]_(Tabs!routeVars)
<1>1. Init => Tabs!RoutesInit
  BY DEF Init
<1>2. [Next]_vars => [Tabs!RoutesNext]_(Tabs!routeVars)
  <2>1. TabsSteps => Tabs!RoutesNext
    BY DEF TabsSteps, Tabs!RoutesNext
  <2>2. UNCHANGED tabsVars => UNCHANGED Tabs!routeVars
    BY DEF tabsVars, Tabs!routeVars
  <2> QED  BY <2>1, <2>2, OnePartSteps DEF OneSteps
<1> QED  BY <1>1, <1>2, PTL DEF Spec

LEMMA FormsPart ==
  Spec => Forms!DeskFormsInit /\ [][Forms!DeskFormsNext]_(Forms!deskFormsVars)
<1>1. Init => Forms!DeskFormsInit
  BY DEF Init
<1>2. [Next]_vars => [Forms!DeskFormsNext]_(Forms!deskFormsVars)
  <2>1. FormsSteps => Forms!DeskFormsNext
    BY DEF FormsSteps, Forms!DeskFormsNext
  <2>2. UNCHANGED formsVars => UNCHANGED Forms!deskFormsVars
    BY DEF formsVars, Forms!deskFormsVars, Forms!deskFormsOwn, Forms!barVars, Forms!callVars
  <2> QED  BY <2>1, <2>2, OnePartSteps DEF OneSteps
<1> QED  BY <1>1, <1>2, PTL DEF Spec

LEMMA GovernancePart ==
  Spec => Governance!TopicDeskInit /\ [][Governance!TopicDeskNext]_(Governance!topicDeskVars)
<1>1. Init => Governance!TopicDeskInit
  BY DEF Init
<1>2. [Next]_vars => [Governance!TopicDeskNext]_(Governance!topicDeskVars)
  <2>1. GovernanceSteps => Governance!TopicDeskNext
    BY DEF GovernanceSteps, Governance!TopicDeskNext
  <2>2. UNCHANGED governanceVars => UNCHANGED Governance!topicDeskVars
    BY DEF governanceVars, Governance!topicDeskVars, Governance!topicDeskOwn,
      Governance!callVars
  <2> QED  BY <2>1, <2>2, OnePartSteps DEF OneSteps
<1> QED  BY <1>1, <1>2, PTL DEF Spec

(* What is on screen in the column and in the curator's panels of          *)
(* candidates and topics, however loads, redraws and answers fall          *)
(* (MainFeedRouter.ts, SupplierCandidatesPanelViewModel.ts,                *)
(* TopicGovernanceViewModel.ts).                                           *)
THEOREM ColumnStaysTrue == Spec => []ColumnIsTrue
<1>0. FormAsk # {} /\ TopicAsk # {} /\ Governance!TopicDeskAssumption
  BY ReadingAssumed DEF ReadingAssumption, Forms!DeskCallsAssumption,
    Governance!DeskCallsAssumption
<1>1. Spec => []Tabs!OneThingShown
  BY TabsPart, RouteBegin, RouteStep, RouteIsTrue, PTL
<1>2. Spec => []Forms!CandidatesShown
  <2>1. Forms!DeskFormsInit => FormsInv
    BY <1>0, FormsBegin
  <2> QED  BY <2>1, FormsPart, FormsStep, FormsAreTrue, PTL
<1>3. Spec => []Governance!QueueIsTrue
  <2>1. Governance!TopicDeskInit => TopicsInv
    BY <1>0, TopicsBegin
  <2> QED  BY <2>1, GovernancePart, TopicsStep, TopicsAreTrue, PTL
<1> QED  BY <1>1, <1>2, <1>3, PTL DEF ColumnIsTrue
=============================================================================
