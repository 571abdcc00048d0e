------------------------------- MODULE MCLinks -------------------------------
(* One run checks the links one after the other, each from its own initial   *)
(* states.                                                                   *)
EXTENDS Links, TLC

CONSTANTS h1, h2, h3, c1, c2, c3, t1, t2, a1, a2, a3

VARIABLE part

MCInit == part \in {"link", "account", "archive", "campaign"} /\ Init /\ A!Init /\ Z!Init /\ P!Init

MCNext ==
    /\ part' = part
    /\ \/ part = "link" /\ Next /\ UNCHANGED <<tAccount, archive, campaign>>
       \/ part = "account" /\ A!Next /\ UNCHANGED <<vars, archive, campaign>>
       \/ part = "archive" /\ Z!Next /\ UNCHANGED <<vars, tAccount, campaign>>
       \/ part = "campaign" /\ P!Next /\ UNCHANGED <<vars, tAccount, archive>>

MCSpec == MCInit /\ [][MCNext]_<<part, vars, tAccount, archive, campaign>>

\* The values of one part stand for others in another.
Symmetry == Permutations(Handler) \cup Permutations(Tweet) \cup Permutations(Account)
=============================================================================
