\* Ingests, requests and the deletion of the user, any of them interrupted.
SPECIFICATION FairSpec
CONSTANTS
    h1 = h1  h2 = h2  h3 = h3  s1 = s1  s2 = s2  w1 = w1  w2 = w2  r1 = r1  r2 = r2
    Sha = {h1}
    Source = {s1}
    NoSource = NoSource
    Worker = {w1, w2}
    Request = {r1}
    MaxItems = 2
    MaxIngests = 3
    MaxRequests = 1
    MaxFaults = 1
    MaxUnread = 2
    UserMayLeave = TRUE
    SlashMatters = FALSE
INVARIANTS PictureShown PictureAccounted NewItemSearched
PROPERTY DoomedGoes
CHECK_DEADLOCK FALSE
