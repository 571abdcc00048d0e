------------------------------- MODULE MCUsers -------------------------------
(* One run checks the address and the sessions of a user one after the       *)
(* other.                                                                    *)
EXTENDS Users, TLC

CONSTANTS b1, b2, x, y, z, h1, h2

VARIABLE part

\* Bound: of the addresses, other users take the first one only.
OthersTake == taken' \subseteq {x}

MCInit == part \in {"address", "sessions"} /\ Init /\ S!Init
MCNext ==
    /\ part' = part
    /\ \/ part = "address" /\ Next /\ OthersTake /\ UNCHANGED browsers
       \/ part = "sessions" /\ S!Next /\ UNCHANGED vars

\* Nothing that fairness is about is enabled in the part that rests.
MCSpec == MCInit /\ [][MCNext]_<<part, vars, browsers>> /\ S!Fairness
=============================================================================
