----------------------------- MODULE MCLiveFeed -----------------------------
(* One story.  The committed snapshot shows it, or hides it by a lock.      *)
EXTENDS LiveFeed, TLC

CONSTANTS s1, r1, r2

MCOneStory == {s1}
MCOneRequest == {r1}
MCTwoRequests == {r1, r2}
MCCommitted == [mark |-> [s \in Story |-> "plain"], at |-> 0]
MCLocked == [mark |-> [s \in Story |-> "ignored"], at |-> 0]
MCSymmetry == Permutations(Request)
=============================================================================
