--------------------------- MODULE TopicLifecycle ---------------------------
(***************************************************************************)
(* What the topic registry promises its readers: a topic moves along its   *)
(* lifecycle only, a merged topic stays merged into the same topic, and    *)
(* following redirects always ends.  TopicGovernance implements this with  *)
(* concurrent curator requests and a classifier that writes topics too.    *)
(***************************************************************************)
EXTENDS FiniteSets

CONSTANTS Topic, NoTopic

VARIABLES status, redirect

Allowed == {<<"absent", "provisional">>, <<"absent", "active">>,
            <<"provisional", "active">>, <<"provisional", "deprecated">>,
            <<"provisional", "merged">>, <<"active", "deprecated">>,
            <<"active", "merged">>, <<"deprecated", "active">>,
            <<"deprecated", "merged">>}

(* A set of redirects that every member leaves to another member would be  *)
(* a cycle.                                                                *)
Acyclic(to) ==
    \A C \in (SUBSET Topic) \ {{}} : \E t \in C : to[t] \notin C

Init == /\ status \in [Topic -> {"absent", "provisional", "active"}]
        /\ redirect = [t \in Topic |-> NoTopic]

Step == /\ \A t \in Topic : status'[t] # status[t]
                                => <<status[t], status'[t]>> \in Allowed
        /\ \A t \in Topic : status[t] = "merged" /\ status'[t] = "merged"
                                => redirect'[t] \in Topic
        /\ \A t \in Topic : (redirect'[t] # NoTopic) <=> (status'[t] = "merged")
        /\ Acyclic(redirect')

Spec == Init /\ [][Step]_<<status, redirect>>
=============================================================================
