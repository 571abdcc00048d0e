\* An owner is mailed after unsubscribing.
SPECIFICATION FairSpec
CONSTANTS
    u1 = u1  u2 = u2  p1 = p1  p2 = p2  c1 = c1  c2 = c2  d1 = d1  d2 = d2
    User = {u1}
    Post = {p1}
    Creator = {c1}
    Sender = {d1}
    None = None
    MaxRetry = 0
    MaxFaults = 0
    MaxChanges = 1
PROPERTY UnsubscribeStops
CHECK_DEADLOCK FALSE
