----------------------------- MODULE MCWatchers -----------------------------
(* One run checks the loaders, the F-list watcher and the Reddit watcher one *)
(* after the other, each from its own initial states.                        *)
EXTENDS Watchers, TLC

CONSTANTS w1, w2, s1, s2, file, post, None

VARIABLE part

MCInit ==
    /\ part \in {"loaders", "flist", "reddit"}
    /\ Init /\ F!Init /\ R!Init
    /\ part # "loaders" => \A x \in Item : content[x] = None

MCNext ==
    /\ part' = part
    /\ \/ part = "loaders" /\ Next /\ UNCHANGED <<gallery, flist, reddit>>
       \/ part = "flist" /\ F!Next /\ UNCHANGED <<vars, reddit>>
       \/ part = "reddit" /\ R!Next /\ UNCHANGED <<vars, flist>>

MCSpec == MCInit /\ [][MCNext]_<<part, vars, gallery, flist, reddit>>

Symmetry == Permutations(Worker) \cup Permutations(Sha)
=============================================================================
