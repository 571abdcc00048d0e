------------------------------- MODULE MCSites -------------------------------
(* One run checks the credential and the posts of Bluesky one after the      *)
(* other, each from its own initial states.                                  *)
EXTENDS SiteFeeds, TLC

CONSTANTS c1, c2, v1, v2, w1, w2, post

VARIABLE part

MCInit == part \in {"credential", "posts"} /\ Init /\ B!Init
MCNext ==
    /\ part' = part
    /\ \/ part = "credential" /\ Next /\ UNCHANGED feed
       \/ part = "posts" /\ B!Next /\ UNCHANGED vars

\* Nothing that fairness is about is enabled in the part that rests.
MCSpec == MCInit /\ [][MCNext]_<<part, vars, feed>> /\ Fairness /\ B!Fairness
=============================================================================
