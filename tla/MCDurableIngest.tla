-------------------------- MODULE MCDurableIngest --------------------------
(* Small inputs for DurableIngest: three articles, the events the crawler  *)
(* can group them into, and inputs that split, merge and move articles.    *)
EXTENDS DurableIngest

CONSTANTS a, b, c

MCArticle == {a, b, c}
MCEvent == {"A", "B", "AB", "BC", "C"}
MCMembers ==
  [e \in MCEvent |->
    CASE e = "A" -> <<a>>
      [] e = "B" -> <<b>>
      [] e = "AB" -> <<a, b>>
      [] e = "BC" -> <<b, c>>
      [] e = "C" -> <<c>>]

\* An article moves from one story to the other.
MoveEventsOf == [before |-> <<"A", "BC">>, after |-> <<"AB", "C">>]
MoveInput == DOMAIN MoveEventsOf

\* One story, then two.
SplitEventsOf == [together |-> <<"AB">>, apart |-> <<"A", "B">>]
SplitInput == DOMAIN SplitEventsOf
=============================================================================
