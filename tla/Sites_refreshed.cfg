\* Two jobs and two callbacks of a DeviantArt or a Patreon account; one post
\* of Bluesky with two images and four faults.
SPECIFICATION MCSpec
CONSTANTS
    c1 = c1  c2 = c2  v1 = v1  v2 = v2
    w1 = w1  w2 = w2  post = post  None = None
    Caller = {c1, c2}
    Visit = {v1, v2}
    NoCaller = NoCaller
    Sites = {"DeviantArt", "Patreon"}
    MaxToken = 3
    Post = {post}
    Images = 2
    Worker = {w1, w2}
    MaxFault = 4
INVARIANTS IInv StoredTokenLive BearerIsAccess DeletedIsHidden StoredIsSubmitted
PROPERTIES CallsEnd ImplementsGrantStore PostsArrive
CHECK_DEADLOCK FALSE
