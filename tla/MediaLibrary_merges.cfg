\* Two requests and an ingest at a time over three items.
SPECIFICATION Spec
CONSTANTS
    h1 = h1  h2 = h2  h3 = h3  s1 = s1  s2 = s2  w1 = w1  w2 = w2  r1 = r1  r2 = r2
    Sha = {h1, h2, h3}
    Source = {s1, s2}
    NoSource = NoSource
    Worker = {w1}
    Request = {r1, r2}
    MaxItems = 3
    MaxIngests = 3
    MaxRequests = 2
    MaxFaults = 0
    MaxUnread = 0
    UserMayLeave = FALSE
    SlashMatters = FALSE
SYMMETRY Symmetric
INVARIANTS IInv SourceKept
CHECK_DEADLOCK FALSE
