---------------------------- MODULE ImageLoaders ----------------------------
(* What becomes of one image a watcher found: hash_image of F-list and       *)
(* load_post of Reddit, run by any number of workers from jobs that may be   *)
(* queued again by the next collector and delivered again by Faktory.        *)
(*                                                                           *)
(* A file is known by its SHA-256; what a url answers may change.            *)
EXTENDS Naturals, FiniteSets

CONSTANTS FListFile,   \* rows of flist_file
          RedditPost,  \* posts of a subreddit
          Worker, NoItem,
          Sha, NoSha,  \* what a url may answer: a file, or no image
          MaxJob,      \* bound on the jobs queued by watchers for an item
          MaxFault     \* bound on the faults

Item == FListFile \cup RedditPost

VARIABLES content,     \* what the item's url answers now
          jobs,        \* load jobs in the queue
          given,       \* load jobs the watchers queued so far
          work,        \* the handler a worker runs
          stored,      \* flist_file rows with a sha256, posts with a reddit_post row
          images,      \* reddit_image: a post and a sha256
          submitted,   \* NewSubmissionJobs queued per item and file, at most 2 counted
          cut,         \* items a handler gave up after storing them
          overlapped,  \* items two handlers found not yet stored
          faults

queue == <<jobs, given>>
history == <<cut, overlapped>>
vars == <<content, queue, work, stored, images, submitted, history, faults>>

Answer == Sha \cup {NoSha}
Idle == [pc |-> "idle", item |-> NoItem, sha |-> NoSha]
Run == [pc : {"idle", "lookup", "create", "download", "save", "submit", "ack"},
        item : Item \cup {NoItem}, sha : Answer]

TypeOK ==
    /\ content \in [Item -> Answer]
    /\ jobs \in [Item -> Nat] /\ given \in [Item -> Nat]
    /\ work \in [Worker -> Run]
    /\ \A w \in Worker : work[w].pc # "idle" => work[w].item \in Item
    /\ stored \subseteq Item /\ images \subseteq RedditPost \X Sha
    /\ submitted \in [Item \X Answer -> 0..2]
    /\ cut \subseteq Item /\ overlapped \subseteq Item /\ faults \in Nat

Init ==
    /\ content \in [Item -> Answer]
    /\ jobs = [x \in Item |-> 0] /\ given = jobs
    /\ work = [w \in Worker |-> Idle]
    /\ stored = {} /\ images = {}
    /\ submitted = [s \in Item \X Answer |-> 0]
    /\ cut = {} /\ overlapped = {} /\ faults = 0

At(w, pc) == work[w].pc = pc
GoWith(w, pc, x, s) == work' = [work EXCEPT ![w] = [pc |-> pc, item |-> x, sha |-> s]]
Go(w, pc) == GoWith(w, pc, work[w].item, work[w].sha)
Done(w) == work' = [work EXCEPT ![w] = Idle]
Fault == faults < MaxFault /\ faults' = faults + 1

\* A collector queues a load job, whatever was queued before.
Queue(x) ==
    /\ given[x] < MaxJob
    /\ given' = [given EXCEPT ![x] = @ + 1]
    /\ jobs' = [jobs EXCEPT ![x] = @ + 1]
    /\ UNCHANGED <<content, work, stored, images, submitted, history, faults>>

\* The site answers the url with something else.
Replace(x) ==
    /\ Fault
    /\ \E s \in Answer \ {content[x]} : content' = [content EXCEPT ![x] = s]
    /\ UNCHANGED <<queue, work, stored, images, submitted, history>>

Take(w, x) ==
    /\ At(w, "idle") /\ jobs[x] > 0
    /\ jobs' = [jobs EXCEPT ![x] = @ - 1]
    /\ GoWith(w, "lookup", x, NoSha)
    /\ UNCHANGED <<content, given, stored, images, submitted, history, faults>>

\* The file has its sha256, the post its row: nothing is left to do.
SkipKnown(w) ==
    /\ At(w, "lookup") /\ work[w].item \in stored
    /\ Go(w, "ack")
    /\ UNCHANGED <<content, queue, stored, images, submitted, history, faults>>

\* The handlers past their look-up of the item and not yet at their end.
Handling(x) ==
    {w \in Worker : work[w].item = x /\ work[w].pc \in {"create", "download", "save", "submit"}}
LookupItem(w) ==
    /\ At(w, "lookup") /\ work[w].item \notin stored
    /\ Go(w, IF work[w].item \in FListFile THEN "download" ELSE "create")
    /\ overlapped' = overlapped \cup {x \in {work[w].item} : Handling(x) # {}}
    /\ UNCHANGED <<content, queue, stored, images, submitted, cut, faults>>

\* RedditPost::create comes before the download; the row of another handler is
\* left as it is and the handler goes on.
CreatePost(w) ==
    /\ At(w, "create")
    /\ stored' = stored \cup {work[w].item}
    /\ Go(w, "download")
    /\ UNCHANGED <<content, queue, images, submitted, history, faults>>

\* hash_image takes the bytes of any answer for the file; limited_image_download
\* of load_post wants an image.
Download(w) ==
    LET x == work[w].item
    IN  /\ At(w, "download") /\ (x \in RedditPost => content[x] # NoSha)
        /\ GoWith(w, "save", x, content[x])
        /\ UNCHANGED <<content, queue, stored, images, submitted, history, faults>>

\* What is no image, or did not arrive, ends load_post with Ok.
DownloadFails(w) ==
    LET x == work[w].item
    IN  /\ At(w, "download") /\ x \in RedditPost
        /\ IF content[x] = NoSha THEN UNCHANGED faults ELSE Fault
        /\ cut' = cut \cup {x}
        /\ Go(w, "ack")
        /\ UNCHANGED <<content, queue, stored, images, submitted, overlapped>>

\* FListFile::update.
UpdateFile(w) ==
    /\ At(w, "save") /\ work[w].item \in FListFile
    /\ stored' = stored \cup {work[w].item}
    /\ Go(w, "submit")
    /\ UNCHANGED <<content, queue, images, submitted, history, faults>>

\* Variant for mutation: the insert does not tell whether it inserted.
CreateImageAnyway(w) ==
    /\ At(w, "save") /\ work[w].item \in RedditPost
    /\ images' = images \cup {<<work[w].item, work[w].sha>>}
    /\ Go(w, "submit")
    /\ UNCHANGED <<content, queue, stored, submitted, history, faults>>

\* Variant for mutation: an image that was there already is taken for a new one.
CreateImageInverted(w) ==
    LET image == <<work[w].item, work[w].sha>>
    IN  /\ At(w, "save") /\ work[w].item \in RedditPost
        /\ images' = images \cup {image}
        /\ Go(w, IF image \in images THEN "submit" ELSE "ack")
        /\ UNCHANGED <<content, queue, stored, submitted, history, faults>>

\* RedditImage::create returns an id only to the handler that inserted the row.
CreateImage(w) ==
    LET image == <<work[w].item, work[w].sha>>
    IN  /\ At(w, "save") /\ work[w].item \in RedditPost
        /\ images' = images \cup {image}
        /\ Go(w, IF image \in images THEN "ack" ELSE "submit")
        /\ UNCHANGED <<content, queue, stored, submitted, history, faults>>

\* NewSubmissionJob is queued; then the handler returns.
Submit(w) ==
    LET s == <<work[w].item, work[w].sha>>
    IN  /\ At(w, "submit")
        /\ submitted' = [submitted EXCEPT ![s] = IF @ = 2 THEN 2 ELSE @ + 1]
        /\ Go(w, "ack")
        /\ UNCHANGED <<content, queue, stored, images, history, faults>>

Ack(w) ==
    /\ At(w, "ack") /\ Done(w)
    /\ UNCHANGED <<content, queue, stored, images, submitted, history, faults>>

\* A request fails or the worker dies, even after its last enqueue: Faktory
\* delivers the job again.
Interrupt(w) ==
    /\ ~At(w, "idle") /\ Fault
    /\ jobs' = [jobs EXCEPT ![work[w].item] = @ + 1]
    /\ cut' = cut \cup {x \in {work[w].item} : x \in stored /\ w \in Handling(x)}
    /\ Done(w)
    /\ UNCHANGED <<content, given, stored, images, submitted, overlapped>>

Handle(w) ==
    \/ SkipKnown(w) \/ LookupItem(w) \/ CreatePost(w) \/ Download(w) \/ DownloadFails(w)
    \/ UpdateFile(w) \/ CreateImage(w) \/ Submit(w) \/ Ack(w)

Next ==
    \/ \E x \in Item : Queue(x) \/ Replace(x)
    \/ \E w \in Worker : Handle(w) \/ Interrupt(w) \/ \E x \in Item : Take(w, x)

Spec == Init /\ [][Next]_vars

-----------------------------------------------------------------------------
\* What a handler has behind it, by where it is: a post has its row before its
\* download and its image before its submission, a file has its sha256 then.
PlaceInv ==
    \A w \in Worker :
        LET x == work[w].item
            at == work[w].pc
        IN  /\ at = "create" => x \in RedditPost
            /\ at \in {"download", "save"} /\ x \in RedditPost => x \in stored
            /\ at = "save" /\ x \in RedditPost => work[w].sha \in Sha
            /\ at = "submit" => x \in stored
            /\ at = "submit" /\ x \in RedditPost => <<x, work[w].sha>> \in images

\* An image with a row was submitted, or the handler that made the row will.
ImageInv ==
    \A x \in RedditPost, s \in Sha : <<x, s>> \in images =>
        \/ submitted[<<x, s>>] > 0 \/ x \in cut
        \/ \E w \in Worker : work[w].pc = "submit" /\ work[w].item = x /\ work[w].sha = s

\* That handler is the only one, and nobody has submitted before it.
InserterInv ==
    \A w \in Worker : work[w].pc = "submit" /\ work[w].item \in RedditPost =>
        /\ submitted[<<work[w].item, work[w].sha>>] = 0
        /\ \A v \in Worker :
            work[v].pc = "submit" /\ work[v].item = work[w].item /\ work[v].sha = work[w].sha
                => v = w

\* A file whose handlers never overlapped has one, and was not submitted before.
FileInv ==
    \A x \in FListFile \ overlapped : \A w \in Handling(x) :
        /\ \A v \in Handling(x) : v = w
        /\ \A s \in Answer : submitted[<<x, s>>] = 0

Submissions(x) == {s \in Answer : submitted[<<x, s>>] > 0}

\* What was stored is submitted: an item marked stored, which no later job will
\* load again, has its submission queued, or a handler that will queue it, or
\* a handler stopped between the two.
StoredIsSubmitted ==
    \A x \in stored : Submissions(x) # {} \/ Handling(x) # {} \/ x \in cut

\* One submission for one file: a reddit_image row is submitted at most once,
\* however many handlers, deliveries and failures there were; an F-list file
\* twice only when two handlers had both found it without a sha256.
SubmittedOnce ==
    \A x \in Item, s \in Answer :
        submitted[<<x, s>>] > 1 => x \in FListFile /\ x \in overlapped

\* Every file of a post that was stored is submitted under that post's row, and
\* nothing is submitted that is not stored.
SubmittedIsStored ==
    \A x \in Item, s \in Answer : submitted[<<x, s>>] > 0 =>
        x \in stored /\ (x \in RedditPost => <<x, s>> \in images)

IInv ==
    /\ TypeOK /\ PlaceInv /\ ImageInv /\ InserterInv /\ FileInv
    /\ StoredIsSubmitted /\ SubmittedOnce /\ SubmittedIsStored
=============================================================================
