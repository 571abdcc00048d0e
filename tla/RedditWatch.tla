----------------------------- MODULE RedditWatch -----------------------------
(* The Reddit watcher: check_subreddits queues an update of every subreddit  *)
(* that is not disabled, update_subreddit pages through its newest posts and *)
(* queues those it does not have for load_post (one step here: ImageLoaders  *)
(* shows what it does).                                                      *)
(*                                                                           *)
(* A post is its id, which grows; the listing has the newest first.          *)
EXTENDS Naturals, FiniteSetsExt

CONSTANTS Updater,     \* workers that run update_subreddit
          LastPost,    \* bound on the posts published
          PageSize,    \* posts on a page of the listing
          MaxQueued,   \* bound on the update jobs that wait at once
          MaxFault     \* bound on deaths and removals

Post == 1..LastPost

VARIABLES published,   \* how many posts there have been
          listed,      \* those the listing still shows
          disabled,    \* reddit_subreddit.disabled
          position,    \* reddit_subreddit.last_page
          recent,      \* was last_updated less than 15 minutes ago
          updates,     \* UpdateSubredditJobs in the queue
          upd,         \* a run of update_subreddit per worker
          queued,      \* posts with a LoadRedditPostJob
          stored,      \* posts with a reddit_post row
          dead,        \* posts whose job failed for the last time
          faults

subreddit == <<disabled, position, recent>>
posts == <<queued, stored, dead>>
listing == <<published, listed>>
vars == <<listing, subreddit, updates, upd, posts, faults>>

Idle == [pc |-> "idle", prev |-> 0, max |-> 0, after |-> LastPost + 1, page |-> {}, last |-> FALSE]
Update == [pc : {"idle", "paging", "queueing", "saving"}, prev : 0..LastPost, max : 0..LastPost,
           after : 1..(LastPost + 1), page : SUBSET Post, last : BOOLEAN]

TypeOK ==
    /\ published \in 0..LastPost /\ listed \subseteq 1..published
    /\ disabled \in BOOLEAN /\ position \in 0..published /\ recent \in BOOLEAN
    /\ updates \in 0..MaxQueued
    /\ upd \in [Updater -> Update]
    /\ queued \subseteq Post /\ stored \subseteq Post /\ dead \subseteq Post
    /\ faults \in 0..MaxFault

Init ==
    /\ published = 0 /\ listed = {}
    /\ disabled = FALSE /\ position = 0 /\ recent = FALSE
    /\ updates = 0 /\ upd = [u \in Updater |-> Idle]
    /\ queued = {} /\ stored = {} /\ dead = {} /\ faults = 0

Saving(max) == [Idle EXCEPT !.pc = "saving", !.max = max]
At(u, pc) == upd[u].pc = pc
Fault == faults < MaxFault /\ faults' = faults + 1

\* The newest posts of the listing older than this one.
Page(after) ==
    {x \in listed : x < after
        /\ Cardinality({y \in listed : x < y /\ y < after}) < PageSize}

-----------------------------------------------------------------------------
Publish ==
    /\ published < LastPost
    /\ published' = published + 1 /\ listed' = listed \cup {published'}
    /\ UNCHANGED <<subreddit, updates, upd, posts, faults>>

Withdraw ==
    /\ Fault
    /\ \E x \in listed : listed' = listed \ {x}
    /\ UNCHANGED <<published, subreddit, updates, upd, posts>>

\* POST /admin/sites/reddit/state.
ToggleState ==
    /\ disabled' = ~disabled
    /\ UNCHANGED <<listing, position, recent, updates, upd, posts, faults>>

\* check_subreddits: the query adds the 15 minutes where it means to take them
\* away, so that every subreddit that is not disabled needs an update.
CheckSubreddits ==
    /\ ~disabled /\ updates < MaxQueued
    /\ updates' = updates + 1
    /\ UNCHANGED <<listing, subreddit, upd, posts, faults>>

QuarterHour ==
    /\ recent /\ recent' = FALSE
    /\ UNCHANGED <<listing, disabled, position, updates, upd, posts, faults>>

-----------------------------------------------------------------------------
(* update_subreddit.                                                         *)

SkipRecent ==
    /\ updates > 0 /\ recent
    /\ updates' = updates - 1
    /\ UNCHANGED <<listing, subreddit, upd, posts, faults>>

\* A subreddit disabled since the job was queued is updated all the same.
Begin(u) ==
    /\ At(u, "idle") /\ updates > 0 /\ ~recent
    /\ updates' = updates - 1
    /\ upd' = [upd EXCEPT ![u] = [Idle EXCEPT !.pc = "paging", !.prev = position]]
    /\ UNCHANGED <<listing, subreddit, posts, faults>>

LoadPage(u) ==
    LET page == Page(upd[u].after)
        older == {x \in listed : x < upd[u].after} \ page
    IN  /\ At(u, "paging")
        /\ upd' = [upd EXCEPT ![u] =
                IF page = {} THEN Saving(@.max)
                ELSE [@ EXCEPT !.pc = "queueing", !.page = page, !.last = (older = {})]]
        /\ UNCHANGED <<listing, subreddit, updates, posts, faults>>

\* The posts that have no row are queued for load_post, whether or not a job of
\* theirs waits already; the page that reaches below the previous max is the last.
QueuePosts(u) ==
    LET run == upd[u]
        max == Max(run.page \cup {run.max})
        ends == run.last \/ \E x \in run.page : x < run.prev
    IN  /\ At(u, "queueing")
        /\ queued' = queued \cup (run.page \ stored)
        /\ upd' = [upd EXCEPT ![u] =
                IF ends THEN Saving(max)
                ELSE [Idle EXCEPT !.pc = "paging", !.prev = run.prev, !.max = max,
                                  !.after = Min(run.page)]]
        /\ UNCHANGED <<listing, subreddit, updates, stored, dead, faults>>

\* update_position, whatever another update saved meanwhile and although an
\* empty listing leaves the max at zero.
SavePosition(u) ==
    /\ At(u, "saving")
    /\ position' = upd[u].max /\ recent' = TRUE
    /\ upd' = [upd EXCEPT ![u] = Idle]
    /\ UNCHANGED <<listing, disabled, updates, posts, faults>>

\* Variant for mutation: the position is saved although the update failed.
DieSaving(u) ==
    /\ ~At(u, "idle") /\ Fault
    /\ position' = upd[u].max
    /\ upd' = [upd EXCEPT ![u] = Idle]
    /\ UNCHANGED <<listing, disabled, recent, updates, posts>>

\* Reddit or the database fails or the worker dies; the job is not retried.
Die(u) ==
    /\ ~At(u, "idle") /\ Fault
    /\ \E some \in SUBSET (upd[u].page \ stored) : queued' = queued \cup some
    /\ upd' = [upd EXCEPT ![u] = Idle]
    /\ UNCHANGED <<listing, subreddit, updates, stored, dead>>

-----------------------------------------------------------------------------
(* load_post.                                                                *)

LoadPost(x) ==
    /\ x \in queued
    /\ queued' = queued \ {x} /\ stored' = stored \cup {x}
    /\ UNCHANGED <<listing, subreddit, updates, upd, dead, faults>>

\* The job failed before the row was there, as often as Faktory retries it.
LosePost(x) ==
    /\ x \in queued /\ Fault
    /\ queued' = queued \ {x} /\ dead' = dead \cup {x}
    /\ UNCHANGED <<listing, subreddit, updates, upd, stored>>

Updating(u) == Begin(u) \/ LoadPage(u) \/ QueuePosts(u) \/ SavePosition(u)

Next ==
    \/ Publish \/ Withdraw \/ ToggleState \/ CheckSubreddits \/ QuarterHour \/ SkipRecent
    \/ \E u \in Updater : Updating(u) \/ Die(u)
    \/ \E x \in Post : LoadPost(x) \/ LosePost(x)

Spec == Init /\ [][Next]_vars

-----------------------------------------------------------------------------
Handed == queued \cup stored \cup dead
\* No post of the listing older than this one is left to queue.
Covered(from) == \A x \in listed : x < from => x \in Handed

\* A run has left out none between the newest post it saw and the page it is at.
\* What its page has not is older than the page, or new since.
Sound(run) ==
    /\ Covered(run.prev) /\ run.prev <= published /\ run.max <= published
    /\ run.pc \in {"paging", "queueing"} =>
        \A x \in listed : x >= run.after /\ x <= run.max => x \in Handed
    /\ run.pc = "queueing" =>
        /\ run.page # {} /\ run.page \subseteq 1..published
        /\ \A x \in run.page : x < run.after
        /\ \A x \in listed \ run.page : x < run.after =>
            \/ ~run.last /\ \A y \in run.page : x < y
            \/ x > run.max /\ \A y \in run.page : x > y
    /\ run.pc = "saving" => Covered(run.max + 1)

\* Every position an update saves has all before it covered: zero has nothing
\* before it, and no other is above a post that was left to queue.
IInv == TypeOK /\ Covered(position) /\ \A u \in Updater : Sound(upd[u])

Newer(x) == Cardinality({y \in listed : y > x})
\* Will an update that starts from this position come to the page of x?
Reaches(from, x) ==
    \A y \in listed : Newer(y) < PageSize * (Newer(x) \div PageSize) => y >= from

\* No post is passed over: each post of the listing has its row, its job, a job
\* that failed for good, or will be on a page of the next update, whatever
\* updates overlapped, died half way or saved an older position over a newer.
NothingPassedOver == \A x \in listed : x \in Handed \/ Reaches(position, x)
=============================================================================
