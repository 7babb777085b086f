------------------------------- MODULE Modals -------------------------------
(***************************************************************************)
(* The dialogs over the page: dossiers that open over one another, and the *)
(* curator's sign-in, which the desk's container holds.  The manager keeps *)
(* a stack of them, locks the page's scrolling while there is one, and     *)
(* gives the Escape key to the top one.  A dialog that is closed leaves    *)
(* the page a moment later; one that is replaced or redrawn is gone at     *)
(* once, and the manager finds out at its next operation.                  *)
(***************************************************************************)
EXTENDS Integers, Sequences, SequencesExt

CONSTANTS
  Single,   \* dossiers with an id of their own: opening one removes the last
  Several,  \* dossiers that may be open twice
  MaxElements  \* bound: dialogs in the page

Element == 1..MaxElements
Kind == Single \cup Several \cup {"sign-in"}

VARIABLES
  kind,      \* [Element -> Kind or "none"]: what is in the page or in the stack
  stack,     \* activeModalStack, the top last
  inPage,    \* elements that are in the page
  leaving,   \* elements whose 150 ms are running
  bodyLocked,
  deskOpen,  \* the view model has the desk open
  drawing,   \* the desk's code is on its way to draw it
  signedIn   \* the page takes itself for signed in

modalVars == <<kind, stack, inPage, leaving, bodyLocked, deskOpen, drawing, signedIn>>

ModalInit ==
  /\ kind = [e \in Element |-> "none"] /\ stack = <<>> /\ inPage = {} /\ leaving = {}
  /\ bodyLocked = FALSE /\ deskOpen = FALSE /\ drawing = FALSE /\ signedIn \in BOOLEAN

Gone(k) == {e \in inPage : kind[e] = k}
Unused == {e \in Element : kind[e] = "none"}
(* An element nobody refers to is forgotten.                               *)
Forget(st, page, timers) ==
  kind' = [e \in Element |-> IF e \in page \cup timers \cup Range(st) THEN kind[e] ELSE "none"]

-----------------------------------------------------------------------------
(* cleanDisconnectedModals, the first thing every operation does: what is  *)
(* left of the stack are its elements at some places, in their order.      *)
At(s, I) ==
  [k \in {n \in DOMAIN s : n <= Cardinality(I)} |->
     s[CHOOSE i \in I : Cardinality({j \in I : j < i}) = k - 1]]
Connected(st, page) == At(st, {i \in DOMAIN st : st[i] \in page})
Cleaned(st, page) ==
  [stack |-> Connected(st, page), locked |-> bodyLocked /\ Connected(st, page) # <<>>]

(* openModal: an element that is new to the page, over those still there.  *)
Pushed(k, page) ==
  LET e == CHOOSE x \in Unused : TRUE
      c == Cleaned(stack, page)
  IN /\ Unused # {}
     /\ stack' = Append(c.stack, e) /\ inPage' = page \cup {e}
     /\ bodyLocked' = (c.locked \/ c.stack = <<>>)
     /\ kind' = [x \in Element |-> IF x = e THEN k
                   ELSE IF x \in page \cup leaving \cup Range(c.stack) THEN kind[x] ELSE "none"]

OpenDossier(k) ==
  /\ Pushed(k, IF k \in Single THEN inPage \ Gone(k) ELSE inPage)
  /\ UNCHANGED <<leaving, deskOpen, drawing, signedIn>>

(* closeModal of an element: the close button, the backdrop, a link.       *)
Taken(e) ==
  LET st == Cleaned(stack, inPage).stack
      left == At(st, {i \in DOMAIN st : st[i] # e})
  IN /\ stack' = left
     /\ bodyLocked' = (bodyLocked /\ left # <<>>)
     /\ leaving' = IF e \in Range(st) THEN leaving \cup {e} ELSE leaving
     /\ Forget(left, inPage, leaving')

CloseButton(e) ==
  /\ e \in inPage /\ Taken(e)
  /\ UNCHANGED <<inPage, deskOpen, drawing, signedIn>>

(* updateEditorDesk: the container is emptied, and filled again when the   *)
(* code is there and the desk still open.                                  *)
Emptied(page) == {e \in page : kind[e] # "sign-in"}
Redrawn(open) == deskOpen' = open /\ inPage' = Emptied(inPage) /\ drawing' = open

(* What any view model or the session's answer brings.                     *)
DeskChanges(in) ==
  /\ deskOpen /\ Redrawn(TRUE) /\ signedIn' = in
  /\ Forget(stack, inPage', leaving) /\ UNCHANGED <<stack, leaving, bodyLocked>>

(* Opened by its address.                                                  *)
OpenDesk ==
  /\ ~deskOpen /\ Redrawn(TRUE)
  /\ Forget(stack, inPage', leaving)
  /\ UNCHANGED <<stack, leaving, bodyLocked, signedIn>>

DrawSignIn ==
  /\ drawing /\ deskOpen /\ ~signedIn /\ drawing' = FALSE
  /\ Pushed("sign-in", Emptied(inPage))
  /\ UNCHANGED <<leaving, deskOpen, signedIn>>

(* The desk itself is no dialog of the manager's.                          *)
DrawDesk ==
  /\ drawing /\ deskOpen /\ signedIn /\ drawing' = FALSE
  /\ inPage' = Emptied(inPage) /\ Forget(stack, inPage', leaving)
  /\ UNCHANGED <<stack, leaving, bodyLocked, deskOpen, signedIn>>

(* The desk's own close button.                                            *)
CloseDesk ==
  /\ deskOpen /\ signedIn /\ Redrawn(FALSE)
  /\ Forget(stack, inPage', leaving)
  /\ UNCHANGED <<stack, leaving, bodyLocked, signedIn>>

(* Ctrl+Shift+C: the manager's listeners, on the document and the window,  *)
(* run before and after the page's own, if there is a dialog.              *)
Toggle ==
  /\ Redrawn(~deskOpen)
  /\ stack' = Cleaned(stack, inPage').stack
  /\ bodyLocked' = Cleaned(stack, inPage').locked
  /\ Forget(stack', inPage', leaving)
  /\ UNCHANGED <<leaving, signedIn>>

Open == Cleaned(stack, inPage).stack

(* Escape with a dialog open: it goes no further than the manager.         *)
(* Mutant: the event reaches the page's listener too.                      *)
DeskAfterBoth == FALSE
DeskAfter == deskOpen
EscapeDialog ==
  /\ Open # <<>>
  /\ Taken(Last(Open)) /\ deskOpen' = DeskAfter
  /\ UNCHANGED <<inPage, drawing, signedIn>>

(* Escape with none: the manager tidies up, and the desk is closed.        *)
EscapeDesk ==
  /\ Open = <<>> /\ (stack # <<>> \/ deskOpen)
  /\ stack' = <<>> /\ bodyLocked' = FALSE
  /\ IF deskOpen THEN Redrawn(FALSE) ELSE UNCHANGED <<deskOpen, inPage, drawing>>
  /\ Forget(<<>>, inPage', leaving)
  /\ UNCHANGED <<leaving, signedIn>>

(* The moment is over: the element goes, and a sign-in takes the desk with *)
(* it, one that was opened again since as well.                            *)
Leave(e) ==
  /\ e \in leaving /\ leaving' = leaving \ {e}
  /\ IF kind[e] = "sign-in" /\ deskOpen
       THEN deskOpen' = FALSE /\ drawing' = FALSE /\ inPage' = Emptied(inPage \ {e})
       ELSE inPage' = inPage \ {e} /\ UNCHANGED <<deskOpen, drawing>>
  /\ Forget(stack, inPage', leaving')
  /\ UNCHANGED <<stack, bodyLocked, signedIn>>

ModalNext ==
  \/ \E k \in Single \cup Several : OpenDossier(k)
  \/ \E e \in Element : CloseButton(e)
  \/ \E in \in BOOLEAN : DeskChanges(in)
  \/ OpenDesk \/ DrawSignIn \/ DrawDesk \/ CloseDesk \/ Toggle
  \/ EscapeDialog \/ EscapeDesk
  \/ \E e \in Element : Leave(e)

ModalSpec == ModalInit /\ [][ModalNext]_modalVars

-----------------------------------------------------------------------------
(* The page scrolls unless a dialog is in the manager's hands, whatever    *)
(* was removed behind its back (modalManager.ts:48-55, 89-97, 119-144).    *)
LockFollowsStack == bodyLocked <=> stack # <<>>

(* One key closes one thing: the desk never closes in a step that also     *)
(* dismisses a dialog of the page (modalManager.ts:57-68, main.ts:251-253). *)
OneKeyOneThing ==
  [][(deskOpen /\ ~deskOpen') =>
       \A e \in Range(stack) : e \in inPage' => e \in Range(stack')]_modalVars
=============================================================================
