SPECIFICATION MCSpec
CONSTANTS
    h1 = h1  h2 = h2  h3 = h3  c1 = c1  c2 = c2  c3 = c3
    t1 = t1  t2 = t2  a1 = a1  a2 = a2  a3 = a3  None = None  Deleted = Deleted
    Visit = {1, 2, 3}
    Worker = {h1, h2}
    Post = {t1, t2}
    MaxFault = 2
    Handler = {h1, h2}
    MaxTweet = 2
    MaxToken = 2
    MaxRow = 2
    MaxAccountFault = 1
    Chunk = {c1, c2, c3}
    Archive = {a3}
    Tweet = {t1, t2}
    Parallel = 2
    Limit = 1
    Buffer = 1
    Request = {1}
    MaxPost = 2
    MaxArchiveFault = 1
    User = {t1, t2}
    Account = {a1, a2}
    Visitor = {h1, h2, h3}
    MaxHook = 3
INVARIANTS
    NothingSkipped LostOnlyByOverlap ChunksBounded  ImportStillComes
    LastLinkReceives
SYMMETRY Symmetry
CHECK_DEADLOCK FALSE
