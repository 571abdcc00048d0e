\* A verified account whose import is never requested.
SPECIFICATION Spec
CONSTANTS
    a1 = a1  a2 = a2  s1 = s1  s2 = s2  w1 = w1  w2 = w2
    Account = {a1}
    Site <- FurAffinitySite
    Sub = {s1}
    NoSub = NoSub
    Worker = {w1, w2}
    NoJob = NoJob
    MaxRetry = 1
    MaxClicks = 1
    SkipVerifications = FALSE
INVARIANT VerifiedIsRequested
CHECK_DEADLOCK FALSE
