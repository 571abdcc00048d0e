SPECIFICATION MCSpec
CONSTANTS
    w1 = w1  w2 = w2  s1 = s1  s2 = s2
    file = file  post = post  None = None
    FListFile = {file}
    RedditPost = {post}
    Worker = {w1, w2}
    NoItem = None
    Sha = {s1, s2}
    NoSha = None
    MaxJob = 2
    MaxFault = 2
    RunId = {1, 2}
    NoRun = 0
    LastImage = 3
    GalleryPage = 2
    MaxRunFault = 2
    LastPost = 3
    ListingPage = 2
    MaxQueued = 1
    MaxUpdateFault = 1
INVARIANTS NothingOutOfReach NothingPassedOver StoredIsSubmitted SubmittedOnce
SYMMETRY Symmetry
CHECK_DEADLOCK FALSE
