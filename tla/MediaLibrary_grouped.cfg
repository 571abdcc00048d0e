\* Two ingests of the same content.
SPECIFICATION Spec
CONSTANTS
    h1 = h1  h2 = h2  h3 = h3  s1 = s1  s2 = s2  w1 = w1  w2 = w2  r1 = r1  r2 = r2
    Sha = {h1}
    Source = {s1, s2}
    NoSource = NoSource
    Worker = {w1, w2}
    Request = {r1}
    MaxItems = 2
    MaxIngests = 2
    MaxRequests = 0
    MaxFaults = 0
    MaxUnread = 0
    UserMayLeave = FALSE
    SlashMatters = FALSE
SYMMETRY Symmetric
INVARIANT IdenticalFilesGrouped
CHECK_DEADLOCK FALSE
