--------------------------- MODULE MCMediaLibrary ---------------------------
EXTENDS MediaLibrary, TLC
CONSTANTS h1, h2, h3, s1, s2, w1, w2, r1, r2
Symmetric ==
    Permutations(Sha) \cup Permutations(Source) \cup Permutations(Worker) \cup Permutations(Request)
=============================================================================
