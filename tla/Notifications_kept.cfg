\* One owner, one submission, two digest jobs at a time, one interruption, fair workers
\* and a schedule that goes on.
SPECIFICATION FairSpec
CONSTANTS
    u1 = u1  u2 = u2  p1 = p1  p2 = p2  c1 = c1  c2 = c2  d1 = d1  d2 = d2
    User = {u1}
    Post = {p1}
    Creator = {c1, c2}
    Sender = {d1}
    None = None
    MaxRetry = 1
    MaxFaults = 1
    MaxChanges = 1
INVARIANTS IInv NothingForgotten MailedOnce
PROPERTY DigestArrives
CHECK_DEADLOCK FALSE
