\* A FurAffinity or a Weasyl account: verify, add, discover, load.
SPECIFICATION Spec
CONSTANTS
    a1 = a1  a2 = a2  s1 = s1  s2 = s2  w1 = w1  w2 = w2
    Account = {a1, a2}
    Site <- VerifiedSites
    Sub = {s1}
    NoSub = NoSub
    Worker = {w1, w2}
    NoJob = NoJob
    MaxRetry = 1
    MaxClicks = 2
    SkipVerifications = FALSE
SYMMETRY Symmetric
INVARIANTS ImportOnlyVerified IInv
PROPERTY ImportNotRestarted
CONSTRAINT OneAccount
CHECK_DEADLOCK FALSE
