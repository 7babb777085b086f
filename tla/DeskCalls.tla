------------------------------ MODULE DeskCalls ------------------------------
(***************************************************************************)
(* Calls of a curator's panel to the server, as its modules share them.    *)
(* Nothing keeps a curator from asking again before an answer has come:    *)
(* the server takes the calls in any order, answers come in any order, and *)
(* any call may fail, before the server or after it.                       *)
(***************************************************************************)
EXTENDS Naturals

CONSTANTS
  Ask,          \* bound: calls under way at once
  MaxPresses,   \* bound: what the curator does
  Nil

(* What the configurations keep to. *)
DeskCallsAssumption == Ask # {}

VARIABLES
  asks,      \* [Ask -> a call: [kind, of, with, served, alone, answer], or NoCall]
  presses,
  settled    \* history: the rows came alone, and every change since

callVars == <<asks, presses, settled>>

(* alone: no other call was under way since this one began. *)
NewCall(kind, of, with, alone) ==
  [kind |-> kind, of |-> of, with |-> with, served |-> FALSE, alone |-> alone, answer |-> Nil]

NoCall == NewCall("none", Nil, Nil, FALSE)
Idle(a) == asks[a].kind = "none"
Quiet == \A a \in Ask : Idle(a)

(* The panel begins with a call under way. *)
CallsBegin(kind, of, with) ==
  /\ LET a == CHOOSE a \in Ask : TRUE
     IN asks = [b \in Ask |-> IF b = a THEN NewCall(kind, of, with, TRUE) ELSE NoCall]
  /\ presses = 0 /\ settled = FALSE

Press == presses < MaxPresses /\ presses' = presses + 1

(* A call goes out: those under way are alone no longer. *)
Sent(kind, of, with) ==
  LET slot == CHOOSE a \in Ask : Idle(a)
  IN /\ \E a \in Ask : Idle(a)
     /\ asks' = [b \in Ask |->
          IF b = slot THEN NewCall(kind, of, with, Quiet) ELSE [asks[b] EXCEPT !.alone = FALSE]]

(* Someone else changes what the server holds. *)
Elsewhere ==
  /\ settled' = FALSE
  /\ asks' = [a \in Ask |-> [asks[a] EXCEPT !.alone = FALSE]]

(* The server does what is asked, once. *)
Unserved(a, kinds) == asks[a].kind \in kinds /\ ~asks[a].served
Served(a, answer) == asks' = [asks EXCEPT ![a].served = TRUE, ![a].answer = answer]

(* The answer comes; or the call fails, and no one knows what was done. *)
Answered(a, kinds) ==
  asks[a].kind \in kinds /\ asks[a].served /\ asks' = [asks EXCEPT ![a] = NoCall]
CallFails(a, kinds) ==
  asks[a].kind \in kinds /\ asks' = [asks EXCEPT ![a] = NoCall]
=============================================================================
