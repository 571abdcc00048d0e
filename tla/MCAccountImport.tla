--------------------------- MODULE MCAccountImport ---------------------------
(* Instances of AccountImport for TLC. *)
EXTENDS AccountImport, TLC

CONSTANTS a1, a2, s1, s2, w1, w2

\* One account of each kind of site the configurations use.
FurAffinitySite == [a \in Account |-> "FurAffinity"]
DeviantArtSite == [a \in Account |-> "DeviantArt"]

\* One account of either kind that is verified, of which one is linked.
VerifiedSites == (a1 :> "FurAffinity") @@ (a2 :> "Weasyl")
\* Two verification requests race only where no job was interrupted.
OneAccount ==
    /\ Cardinality(linked \cup removed) <= 1
    /\ \A a \in Account : clicks[a] > 1 =>
        a = a2 /\ \A j \in Job : j.attempt > 0 => queue[j] = 0 /\ j \notin dead

Symmetric == Permutations(Sub) \cup Permutations(Worker)
=============================================================================
