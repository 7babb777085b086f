------------------------------ MODULE MCTopics ------------------------------
(* Two published topics and one concept two clusters let the model         *)
(* discover.                                                               *)
EXTENDS TopicAssignment, TLC

CONSTANTS ta, tb, tn, c1, c2, k1, al, u1, u2

MCTopic == {ta, tb, tn}
MCCluster == {c1, c2}
MCMentions == (c1 :> {ta}) @@ (c2 :> {ta, tb})
MCDiscovers == (c1 :> {tn}) @@ (c2 :> {tn})
MCNameOf == [t \in MCTopic |-> k1]
MCAliasOf == [t \in MCTopic |-> al]
MCOwner == (c1 :> "x") @@ (c2 :> "y")

R(act, t, o, flag) == [act |-> act, topic |-> t, other |-> o, flag |-> flag]

(* The requests of one behaviour are those that meet on the same rows.     *)
MCAgendas ==
  {{R("assign", ta, c1, TRUE), R("assign", ta, c1, FALSE), R("remove", ta, c1, FALSE),
    R("suppress", ta, ta, FALSE)},
   {R("approve", ta, k1, FALSE), R("suppress", ta, ta, FALSE), R("restore", ta, ta, FALSE),
    R("topic", ta, ta, FALSE), R("merge", ta, tb, FALSE)},
   {R("merge", ta, tb, FALSE), R("merge", tb, ta, FALSE), R("reverse_merge", ta, tb, FALSE)},
   {R("alias", ta, al, FALSE), R("alias", tb, al, FALSE), R("alias", tb, al, TRUE)},
   {R("implication", ta, tb, FALSE), R("implication", tb, ta, FALSE)},
   {R("approve", tn, k1, FALSE), R("reject", tn, k1, FALSE), R("reject", NoTopic, k1, FALSE),
    R("suppress", tn, tn, FALSE)}}

(* Bound: requests and classification jobs together.                       *)
MaxJobs == 3
MCBound == sent + loads <= MaxJobs
MCSymmetry == Permutations(Curator)
=============================================================================
