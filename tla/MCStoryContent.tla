--------------------------- MODULE MCStoryContent ---------------------------
(***************************************************************************)
(* A story, and the news (Feeds). The two have nothing in common, and are  *)
(* not interleaved: the news begin once nothing is left of the story.      *)
(***************************************************************************)
EXTENDS StoryContent, Feeds

StoryIsOver == part = "text" /\ story = Nothing /\ \A r \in Requests : request[r] = Nothing

MCNext ==
    \/ Next /\ UNCHANGED feeds
    \/ StoryIsOver /\ FeedsStep /\ UNCHANGED vars

MCInit == Init /\ FeedsInit

MCSpec == MCInit /\ [][MCNext]_<<vars, feeds>> /\ Fairness
=============================================================================
