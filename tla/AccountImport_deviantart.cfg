\* A DeviantArt account, every job delivered up to twice, fair workers.
SPECIFICATION FairSpec
CONSTANTS
    a1 = a1  a2 = a2  s1 = s1  s2 = s2  w1 = w1  w2 = w2
    Account = {a1}
    Site <- DeviantArtSite
    Sub = {s1, s2}
    NoSub = NoSub
    Worker = {w1, w2}
    NoJob = NoJob
    MaxRetry = 1
    MaxClicks = 0
    SkipVerifications = FALSE
INVARIANTS CompleteUnlessDoubleCounted NothingLostSilently
PROPERTIES ImplementsLifecycle ImportSettles
CHECK_DEADLOCK FALSE
