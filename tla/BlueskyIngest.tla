---------------------------- MODULE BlueskyIngest ----------------------------
(* Posts of Bluesky: ingest_bsky reads the commits of the network from a     *)
(* JetStream consumer, queues a load_bluesky_post for a post with images and *)
(* marks a deleted post itself; the load runs in one transaction that        *)
(* inserts the post first and commits after its last image.                  *)
(*                                                                           *)
(* A message that is not acknowledged is delivered again, a job that fails   *)
(* too, while its retries last; a transaction that inserted a post keeps     *)
(* others off its row until it ends.                                         *)
EXTENDS Naturals, FiniteSets

CONSTANTS Post,       \* posts with images, whose commits can be parsed
          Images,     \* images of a post: 1..Images
          Worker,     \* workers that run load_bluesky_post
          None,
          MaxFault    \* bound on the faults

VARIABLES site,       \* the post at Bluesky
          messages,   \* commits not acknowledged
          ingest,     \* the message ingest_bsky handles
          jobs,       \* LoadBlueskyPostJobs in the queue
          work,       \* the run of load_bluesky_post of a worker, with its transaction
          row,        \* bluesky_post, as committed: absent, live, or with deleted_at
          images,     \* bluesky_image, as committed
          submitted,  \* NewSubmissionJobs queued for an image, at most 2 counted
          skipped,    \* images that were not images, or did not arrive
          lost,       \* posts whose delete_post failed
          again,      \* posts whose load failed half way
          dead,       \* posts with a load that was given up
          faults

history == <<skipped, lost, again, dead>>
vars == <<site, messages, ingest, jobs, work, row, images, submitted, history, faults>>

Image == Post \X (1..Images)
Message == Post \X {"create", "delete"}
Resting == [pc |-> "idle", message |-> None]
Idle == [pc |-> "idle", post |-> None, next |-> 0, saved |-> {}]
Run == [pc : {"idle", "insert", "images", "ack"}, post : Post \cup {None},
        next : 0..(Images + 1), saved : SUBSET (1..Images)]

TypeOK ==
    /\ site \in [Post -> {"none", "created", "deleted"}]
    /\ messages \subseteq Message
    /\ ingest \in [pc : {"idle", "handle", "ack", "stopped"}, message : Message \cup {None}]
    /\ ingest.pc \in {"handle", "ack"} => ingest.message \in Message
    /\ jobs \in [Post -> Nat]
    /\ work \in [Worker -> Run]
    /\ \A w \in Worker : work[w].pc # "idle" => work[w].post \in Post
    /\ row \in [Post -> {"none", "live", "deleted"}]
    /\ images \subseteq Image /\ submitted \in [Image -> 0..2] /\ skipped \subseteq Image
    /\ lost \subseteq Post /\ again \subseteq Post /\ dead \subseteq Post /\ faults \in Nat

Init ==
    /\ site = [p \in Post |-> "none"]
    /\ messages = {} /\ ingest = Resting
    /\ jobs = [p \in Post |-> 0] /\ work = [w \in Worker |-> Idle]
    /\ row = [p \in Post |-> "none"] /\ images = {}
    /\ submitted = [i \in Image |-> 0]
    /\ skipped = {} /\ lost = {} /\ again = {} /\ dead = {} /\ faults = 0

Fault == faults < MaxFault /\ faults' = faults + 1
\* Is the post's row inserted by a transaction that has not ended?
Locked(p) == \E w \in Worker : work[w].post = p /\ work[w].pc = "images"

-----------------------------------------------------------------------------
(* Bluesky.                                                                  *)

CreateAtSite(p) ==
    /\ site[p] = "none"
    /\ site' = [site EXCEPT ![p] = "created"]
    /\ messages' = messages \cup {<<p, "create">>}
    /\ UNCHANGED <<ingest, jobs, work, row, images, submitted, history, faults>>

DeleteAtSite(p) ==
    /\ site[p] = "created"
    /\ site' = [site EXCEPT ![p] = "deleted"]
    /\ messages' = messages \cup {<<p, "delete">>}
    /\ UNCHANGED <<ingest, jobs, work, row, images, submitted, history, faults>>

-----------------------------------------------------------------------------
(* ingest_bsky.                                                              *)

\* The consumer gives out the commits of a repository in order unless the first
\* is delivered again.
Receive ==
    /\ ingest.pc = "idle"
    /\ \E m \in messages :
        /\ ingest' = [pc |-> "handle", message |-> m]
        /\ IF m[2] = "delete" /\ <<m[1], "create">> \in messages THEN Fault ELSE UNCHANGED faults
    /\ UNCHANGED <<site, messages, jobs, work, row, images, submitted, history>>

EnqueueLoad ==
    LET p == ingest.message[1]
    IN  /\ ingest.pc = "handle" /\ ingest.message[2] = "create"
        /\ jobs' = [jobs EXCEPT ![p] = @ + 1]
        /\ ingest' = [ingest EXCEPT !.pc = "ack"]
        /\ UNCHANGED <<site, messages, work, row, images, submitted, history, faults>>

\* Variant for mutation: only a post that is there is marked.
DeleteKnownPost ==
    LET p == ingest.message[1]
    IN  /\ ingest.pc = "handle" /\ ingest.message[2] = "delete" /\ ~Locked(p)
        /\ row' = [row EXCEPT ![p] = IF @ = "none" THEN @ ELSE "deleted"]
        /\ ingest' = [ingest EXCEPT !.pc = "ack"]
        /\ UNCHANGED <<site, messages, jobs, work, images, submitted, history, faults>>

\* delete_post: an upsert, which waits for a transaction that inserted the post.
DeletePost ==
    LET p == ingest.message[1]
    IN  /\ ingest.pc = "handle" /\ ingest.message[2] = "delete" /\ ~Locked(p)
        /\ row' = [row EXCEPT ![p] = "deleted"]
        /\ ingest' = [ingest EXCEPT !.pc = "ack"]
        /\ UNCHANGED <<site, messages, jobs, work, images, submitted, history, faults>>

\* A failed delete is logged and acknowledged like one that did not fail.
DeleteFails ==
    /\ ingest.pc = "handle" /\ ingest.message[2] = "delete" /\ Fault
    /\ lost' = lost \cup {ingest.message[1]}
    /\ ingest' = [ingest EXCEPT !.pc = "ack"]
    /\ UNCHANGED <<site, messages, jobs, work, row, images, submitted, skipped, again, dead>>

AckMessage ==
    /\ ingest.pc = "ack"
    /\ messages' = messages \ {ingest.message}
    /\ ingest' = Resting
    /\ UNCHANGED <<site, jobs, work, row, images, submitted, history, faults>>

\* The load cannot be queued: the message is refused, and delivered again.
RefuseMessage ==
    /\ ingest.pc = "handle" /\ ingest.message[2] = "create" /\ Fault
    /\ ingest' = Resting
    /\ UNCHANGED <<site, messages, jobs, work, row, images, submitted, history>>

\* The ack gets lost, or that of a delete fails and is only logged.
LoseAck ==
    /\ ingest.pc = "ack" /\ Fault
    /\ ingest' = Resting
    /\ UNCHANGED <<site, messages, jobs, work, row, images, submitted, history>>

\* The first error of the stream ends ingest_bsky; an ack or a refusal of a create
\* that fails ends it in a panic; or the process dies.  Nothing starts it again
\* while the process lives.
StopIngest ==
    /\ ingest.pc # "stopped" /\ Fault
    /\ ingest' = [pc |-> "stopped", message |-> None]
    /\ UNCHANGED <<site, messages, jobs, work, row, images, submitted, history>>

\* The process is started.
StartIngest ==
    /\ ingest.pc = "stopped"
    /\ ingest' = Resting
    /\ UNCHANGED <<site, messages, jobs, work, row, images, submitted, history, faults>>

-----------------------------------------------------------------------------
(* load_bluesky_post.                                                        *)

Go(w, pc, p, next, saved) ==
    work' = [work EXCEPT ![w] = [pc |-> pc, post |-> p, next |-> next, saved |-> saved]]

Take(w, p) ==
    /\ work[w].pc = "idle" /\ jobs[p] > 0
    /\ jobs' = [jobs EXCEPT ![p] = @ - 1]
    /\ Go(w, "insert", p, 0, {})
    /\ UNCHANGED <<site, messages, ingest, row, images, submitted, history, faults>>

\* Variant for mutation: the images are loaded although the post was there.
InsertOrLoad(w) ==
    LET p == work[w].post
    IN  /\ work[w].pc = "insert" /\ ~Locked(p)
        /\ Go(w, "images", p, 1, {})
        /\ UNCHANGED <<site, messages, ingest, jobs, row, images, submitted, history, faults>>

\* create_post, which waits for a transaction that inserted the post; when the
\* post is there the transaction is dropped.
InsertPost(w) ==
    LET p == work[w].post
    IN  /\ work[w].pc = "insert" /\ ~Locked(p)
        /\ IF row[p] = "none" THEN Go(w, "images", p, 1, {}) ELSE Go(w, "ack", p, 0, {})
        /\ UNCHANGED <<site, messages, ingest, jobs, row, images, submitted, history, faults>>

\* The next image: its row goes into the transaction, its submission is queued
\* although the transaction has not been committed.
LoadImage(w) ==
    LET i == <<work[w].post, work[w].next>>
    IN  /\ work[w].pc = "images" /\ work[w].next \in 1..Images
        /\ submitted' = [submitted EXCEPT ![i] = IF @ = 2 THEN 2 ELSE @ + 1]
        /\ Go(w, "images", i[1], i[2] + 1, work[w].saved \cup {i[2]})
        /\ UNCHANGED <<site, messages, ingest, jobs, row, images, history, faults>>

\* Its cid cannot be read, or limited_image_download fails: it is passed over.
SkipImage(w) ==
    LET i == <<work[w].post, work[w].next>>
    IN  /\ work[w].pc = "images" /\ work[w].next \in 1..Images /\ Fault
        /\ skipped' = skipped \cup {i}
        /\ Go(w, "images", i[1], i[2] + 1, work[w].saved)
        /\ UNCHANGED <<site, messages, ingest, jobs, row, images, submitted, lost, again, dead>>

Commit(w) ==
    LET p == work[w].post
    IN  /\ work[w].pc = "images" /\ work[w].next = Images + 1
        /\ row' = [row EXCEPT ![p] = "live"]
        /\ images' = images \cup ({p} \X work[w].saved)
        /\ Go(w, "ack", p, 0, {})
        /\ UNCHANGED <<site, messages, ingest, jobs, submitted, history, faults>>

AckJob(w) ==
    /\ work[w].pc = "ack"
    /\ work' = [work EXCEPT ![w] = Idle]
    /\ UNCHANGED <<site, messages, ingest, jobs, row, images, submitted, history, faults>>

\* Variant for mutation: a job that failed is not delivered again.
ForgetLoad(w) ==
    /\ work[w].pc # "idle" /\ Fault
    /\ again' = IF work[w].pc = "images" THEN again \cup {work[w].post} ELSE again
    /\ work' = [work EXCEPT ![w] = Idle]
    /\ UNCHANGED <<site, messages, ingest, jobs, row, images, submitted, skipped, lost, dead>>

\* An enqueue or a query fails or the worker dies: the transaction is rolled
\* back, the job delivered again or, its retries used up or its error none to
\* retry, given up.
InterruptLoad(w) ==
    LET p == work[w].post
    IN  /\ work[w].pc # "idle" /\ Fault
        /\ \/ jobs' = [jobs EXCEPT ![p] = @ + 1] /\ UNCHANGED dead
           \/ dead' = dead \cup {p} /\ UNCHANGED jobs
        /\ again' = IF work[w].pc = "images" THEN again \cup {p} ELSE again
        /\ work' = [work EXCEPT ![w] = Idle]
        /\ UNCHANGED <<site, messages, ingest, row, images, submitted, skipped, lost>>

-----------------------------------------------------------------------------
Ingesting == Receive \/ EnqueueLoad \/ DeletePost \/ AckMessage
Loading(w) ==
    (\E p \in Post : Take(w, p)) \/ InsertPost(w) \/ LoadImage(w) \/ Commit(w) \/ AckJob(w)

Next ==
    \/ \E p \in Post : CreateAtSite(p) \/ DeleteAtSite(p)
    \/ Ingesting \/ DeleteFails \/ RefuseMessage \/ LoseAck \/ StopIngest \/ StartIngest
    \/ \E w \in Worker : Loading(w) \/ SkipImage(w) \/ InterruptLoad(w)

Spec == Init /\ [][Next]_vars

\* The ingester, until it stops, and the workers go on with what they have; nobody
\* promises that the process is started again.
Fairness == WF_vars(Ingesting) /\ \A w \in Worker : WF_vars(Loading(w))

FairSpec == Spec /\ Fairness

-----------------------------------------------------------------------------
Settled(p) == \A m \in messages : m[1] # p

\* The transaction that inserted a post is the only one, and nobody sees its row.
LockInv ==
    \A w \in Worker : work[w].pc = "images" =>
        /\ row[work[w].post] = "none"
        /\ \A x \in Worker : work[x].pc = "images" /\ work[x].post = work[w].post => x = w

\* A delete that is being acknowledged is done, or was lost.
DeleteInv ==
    /\ \A p \in Post :
        site[p] = "deleted" =>
            <<p, "delete">> \in messages \/ row[p] = "deleted" \/ p \in lost
    /\ ingest.pc = "ack" /\ ingest.message[2] = "delete" =>
        row[ingest.message[1]] = "deleted" \/ ingest.message[1] \in lost

\* A transaction has passed over, or saved and submitted, the images before next.
BatchInv ==
    \A w \in Worker :
        /\ work[w].pc = "insert" => work[w].saved = {}
        /\ work[w].pc = "images" =>
            /\ work[w].next \in 1..(Images + 1)
            /\ \A k \in 1..(work[w].next - 1) :
                k \in work[w].saved \/ <<work[w].post, k>> \in skipped
            /\ \A k \in work[w].saved : submitted[<<work[w].post, k>>] > 0

\* What was submitted is behind a transaction that is open, ended or failed.
SubmittedInv ==
    \A p \in Post, k \in 1..Images :
        submitted[<<p, k>>] > 0 =>
            \/ p \in again \/ row[p] # "none"
            \/ \E w \in Worker : work[w].pc = "images" /\ work[w].post = p /\ k < work[w].next

\* Once its messages are acknowledged a deleted post is hidden, and stays so
\* whatever jobs still load it: a delete that overtook the load left a row the
\* load finds.  Only a delete that failed is lost.
DeletedIsHidden ==
    \A p \in Post : site[p] = "deleted" /\ Settled(p) => row[p] = "deleted" \/ p \in lost

\* A post that was stored is whole: every image that did arrive is stored with
\* it and was submitted.
StoredIsSubmitted ==
    \A p \in Post, k \in 1..Images :
        LET i == <<p, k>>
        IN  /\ i \in images => submitted[i] > 0
            /\ (row[p] = "live") => (i \in images \/ i \in skipped)

\* An image is submitted twice only when a load of its post failed half way.
SubmittedOnce == \A i \in Image : submitted[i] > 1 => i[1] \in again

\* Every post that was made is stored in the end, or its deletion is, unless its
\* load was given up or the ingester has stopped with its messages unread.
PostsArrive ==
    <>[](\A p \in Post :
            site[p] # "none" =>
                row[p] # "none" \/ p \in dead \/ (ingest.pc = "stopped" /\ ~Settled(p)))

IInv ==
    /\ TypeOK /\ LockInv /\ DeleteInv /\ BatchInv /\ SubmittedInv
    /\ StoredIsSubmitted /\ SubmittedOnce
=============================================================================
