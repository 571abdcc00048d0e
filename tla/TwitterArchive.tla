--------------------------- MODULE TwitterArchive ---------------------------
(* A Twitter archive: chunk_add takes it in pieces, archive_post queues the  *)
(* job that loads it, load_archive puts it together, finds its tweets and    *)
(* hands them to a task that saves them, removes the pieces and marks the    *)
(* account complete.                                                         *)
(*                                                                           *)
(* A chunk is the request that uploaded it; chunks have one size.            *)
EXTENDS Naturals, FiniteSets

CONSTANTS Chunk,       \* chunk_add requests of the user
          Archive,     \* collection ids
          None,
          Tweet,       \* tweets with photos in an archive
          Parallel,    \* chunk_add requests between their two queries at once
          Limit,       \* chunks a user may have at once (5 GiB)
          Buffer,      \* tweets between the parser and the task (4)
          Request,     \* archive_post requests at work at once
          MaxPost,     \* bound on archive_post requests
          MaxFault     \* bound on the faults

VARIABLES upload,      \* a run of chunk_add per chunk: its archive and how far it is
          rows,        \* file_upload_chunk
          objects,     \* chunks in S3
          request,     \* a run of archive_post
          posts,       \* how many there have been
          jobs,        \* LoadTwitterArchiveJobs in the queue
          load,        \* the job at work, and whether its task is gone
          sink,        \* tweets handed to the task that saves them
          saved,       \* tweets that are owned media
          loading,     \* the account's loading_state
          dropped,     \* tweets not read, not saved by the task or lost with it
          failed,      \* a job failed at its last delivery
          late,        \* an archive_post ended after a job it had queued
          faults

history == <<dropped, failed, late>>
chunks == <<upload, rows, objects>>
vars == <<chunks, request, posts, jobs, load, sink, saved, loading, history, faults>>

Free == [pc |-> "idle", archive |-> None]
Resting == [pc |-> "idle", archive |-> None, left |-> {}, deaf |-> FALSE]

TypeOK ==
    /\ upload \in [Chunk -> [pc : {"idle", "sized", "added", "over"}, archive : Archive \cup {None}]]
    /\ rows \subseteq Chunk /\ objects \subseteq rows
    /\ request \in [Request -> [pc : {"idle", "read", "queued", "marked"}, archive : Archive \cup {None}]]
    /\ posts \in 0..MaxPost
    /\ jobs \in [Archive -> Nat]
    /\ load \in [pc : {"idle", "reading", "parsing", "removing", "completing", "ack"},
                 archive : Archive \cup {None}, left : SUBSET Tweet, deaf : BOOLEAN]
    /\ sink \subseteq Tweet /\ Cardinality(sink) <= Buffer + 1 /\ saved \subseteq Tweet
    /\ loading \in {"none", "importing", "complete"}
    /\ dropped \subseteq Tweet /\ failed \in BOOLEAN /\ late \in BOOLEAN /\ faults \in 0..MaxFault

Init ==
    /\ upload = [u \in Chunk |-> Free] /\ rows = {} /\ objects = {}
    /\ request = [q \in Request |-> Free] /\ posts = 0
    /\ jobs = [a \in Archive |-> 0] /\ load = Resting
    /\ sink = {} /\ saved = {} /\ loading = "none"
    /\ dropped = {} /\ failed = FALSE /\ late = FALSE /\ faults = 0

Fault == faults < MaxFault /\ faults' = faults + 1
Sized == {u \in Chunk : upload[u].pc = "sized"}
\* Is a job of the archive still to mark the account?
Pending(a) == jobs[a] > 0 \/ (load.archive = a /\ load.pc # "ack")
ChunksOf(a) == {u \in rows : upload[u].archive = a}

-----------------------------------------------------------------------------
(* POST /api/chunk/{collection}/add.                                         *)

\* FileUploadChunk::size sums the user's rows: those of archives that were
\* loaded are never deleted.
CheckSize(u) ==
    /\ upload[u].pc = "idle" /\ Cardinality(Sized) < Parallel
    /\ \E a \in Archive :
        upload' = [upload EXCEPT ![u] =
            [pc |-> IF Cardinality(rows) < Limit THEN "sized" ELSE "over", archive |-> a]]
    /\ UNCHANGED <<rows, objects, request, posts, jobs, load, sink, saved, loading,
                   history, faults>>

\* Variant for mutation: no size was asked for.
AddUnsized(u) ==
    /\ upload[u].pc \in {"sized", "over"} /\ u \notin rows
    /\ rows' = rows \cup {u}
    /\ upload' = [upload EXCEPT ![u].pc = "added"]
    /\ UNCHANGED <<objects, request, posts, jobs, load, sink, saved, loading,
                   history, faults>>

AddRow(u) ==
    /\ upload[u].pc = "sized"
    /\ rows' = rows \cup {u}
    /\ upload' = [upload EXCEPT ![u].pc = "added"]
    /\ UNCHANGED <<objects, request, posts, jobs, load, sink, saved, loading,
                   history, faults>>

PutObject(u) ==
    /\ upload[u].pc = "added"
    /\ objects' = objects \cup {u}
    /\ upload' = [upload EXCEPT ![u].pc = "over"]
    /\ UNCHANGED <<rows, request, posts, jobs, load, sink, saved, loading, history, faults>>

\* The request ends with an error: the row of the chunk may be there, its object not.
UploadFails(u) ==
    /\ upload[u].pc \in {"sized", "added"} /\ Fault
    /\ upload' = [upload EXCEPT ![u].pc = "over"]
    /\ UNCHANGED <<rows, objects, request, posts, jobs, load, sink, saved, loading, history>>

-----------------------------------------------------------------------------
(* POST /twitter/archive.                                                    *)

\* Whatever was uploaded of the archive, or is still on its way.
ReadAccount(q) ==
    /\ request[q].pc = "idle" /\ posts < MaxPost
    /\ posts' = posts + 1
    /\ \E a \in Archive : request' = [request EXCEPT ![q] = [pc |-> "read", archive |-> a]]
    /\ UNCHANGED <<chunks, jobs, load, sink, saved, loading, history, faults>>

EnqueueLoad(q) ==
    /\ request[q].pc = "read"
    /\ jobs' = [jobs EXCEPT ![request[q].archive] = @ + 1]
    /\ request' = [request EXCEPT ![q].pc = "queued"]
    /\ UNCHANGED <<chunks, posts, load, sink, saved, loading, history, faults>>

\* update_data sets has_imported_archive (TwitterAccount): no state of this module.
\* Then the loading state is set, whatever the job has done since.
MarkImporting(q) ==
    /\ request[q].pc = "queued"
    /\ loading' = "importing"
    /\ late' = (late \/ ~Pending(request[q].archive))
    /\ request' = [request EXCEPT ![q] = Free]
    /\ UNCHANGED <<chunks, posts, jobs, load, sink, saved, dropped, failed, faults>>

-----------------------------------------------------------------------------
(* load_archive.                                                             *)

Take(a) ==
    /\ load.pc = "idle" /\ jobs[a] > 0
    /\ jobs' = [jobs EXCEPT ![a] = @ - 1]
    /\ load' = [Resting EXCEPT !.pc = "reading", !.archive = a]
    /\ UNCHANGED <<chunks, request, posts, sink, saved, loading, history, faults>>

\* The job goes on to its next delivery, or this was its last.
Redeliver ==
    /\ load' = Resting
    /\ \/ jobs' = [jobs EXCEPT ![load.archive] = @ + 1] /\ UNCHANGED failed
       \/ failed' = TRUE /\ UNCHANGED jobs

Fetched == ChunksOf(load.archive) # {} /\ ChunksOf(load.archive) \subseteq objects

ReadChunks ==
    /\ load.pc = "reading" /\ Fetched
    /\ load' = [load EXCEPT !.pc = "parsing", !.left = Tweet]
    /\ UNCHANGED <<chunks, request, posts, jobs, sink, saved, loading, history, faults>>

\* A chunk is not in S3, or there is none: an empty file is no archive.
ReadFails ==
    /\ load.pc = "reading" /\ ~Fetched
    /\ Redeliver
    /\ UNCHANGED <<chunks, request, posts, sink, saved, loading, dropped, late, faults>>

\* The task has taken one tweet from the channel, which holds Buffer others.
\* (The tasks of two jobs share them here.)
SendTweet ==
    /\ load.pc = "parsing" /\ ~load.deaf
    /\ \E t \in load.left \ sink :
        /\ Cardinality(sink) <= Buffer
        /\ sink' = sink \cup {t} /\ load' = [load EXCEPT !.left = @ \ {t}]
    /\ UNCHANGED <<chunks, request, posts, jobs, saved, loading, history, faults>>

\* process_tweet fails: it is logged and the next tweet taken.
SkipTweet ==
    /\ load.pc = "parsing" /\ Fault
    /\ \E t \in load.left :
        /\ load' = [load EXCEPT !.left = @ \ {t}]
        /\ dropped' = dropped \cup ({t} \ saved)
    /\ UNCHANGED <<chunks, request, posts, jobs, sink, saved, loading, failed, late>>

\* The chunks are no whole archive, a file in it is not as expected, or nobody takes
\* the tweets: the parser returns an error or panics, at every delivery of the like.
ParseFails ==
    /\ load.pc = "parsing"
    /\ Redeliver
    /\ UNCHANGED <<chunks, request, posts, sink, saved, loading, dropped, late, faults>>

\* Variant for mutation: the parser ends with a tweet it has not sent.
EndParsingEarly ==
    /\ load.pc = "parsing" /\ Cardinality(load.left) <= 1
    /\ load' = [load EXCEPT !.pc = "removing", !.left = {}]
    /\ UNCHANGED <<chunks, request, posts, jobs, sink, saved, loading, history, faults>>

\* Nobody waits for the task that saves the tweets: it ends by itself.
EndParsing ==
    /\ load.pc = "parsing" /\ load.left = {}
    /\ load' = [load EXCEPT !.pc = "removing"]
    /\ UNCHANGED <<chunks, request, posts, jobs, sink, saved, loading, history, faults>>

SaveTweet(t) ==
    /\ t \in sink
    /\ sink' = sink \ {t} /\ saved' = saved \cup {t}
    /\ UNCHANGED <<chunks, request, posts, jobs, load, loading, history, faults>>

\* add_tweet fails: it is logged and the next tweet taken.
SaveFails(t) ==
    /\ t \in sink /\ Fault
    /\ sink' = sink \ {t} /\ dropped' = dropped \cup ({t} \ saved)
    /\ UNCHANGED <<chunks, request, posts, jobs, load, saved, loading, failed, late>>

\* The picture of a new item is not stored: the task panics, and what it had yet to
\* save is lost with it.  It is the task of the job at work, or an earlier one's.
TaskPanics(t) ==
    /\ t \in sink /\ t \notin saved /\ Fault
    /\ saved' = saved \cup {t}
    /\ \E lost \in SUBSET (sink \ {t}) :
        sink' = (sink \ {t}) \ lost /\ dropped' = dropped \cup (lost \ saved)
    /\ UNCHANGED load \/ (load.pc = "parsing" /\ load' = [load EXCEPT !.deaf = TRUE])
    /\ UNCHANGED <<chunks, request, posts, jobs, loading, failed, late>>

\* The chunks of the archive are removed from S3; a failure is logged only.
RemoveObjects ==
    /\ load.pc = "removing"
    /\ \/ /\ objects' = objects \ ChunksOf(load.archive)
          /\ UNCHANGED faults
       \/ Fault /\ UNCHANGED objects
    /\ load' = [load EXCEPT !.pc = "completing"]
    /\ UNCHANGED <<upload, rows, request, posts, jobs, sink, saved, loading, history>>

Complete ==
    /\ load.pc = "completing"
    /\ loading' = "complete"
    /\ load' = [load EXCEPT !.pc = "ack"]
    /\ UNCHANGED <<chunks, request, posts, jobs, sink, saved, history, faults>>

Ack ==
    /\ load.pc = "ack"
    /\ load' = Resting
    /\ UNCHANGED <<chunks, request, posts, jobs, sink, saved, loading, history, faults>>

\* The worker dies, with the task in it.
Die ==
    /\ load.pc # "idle" /\ Fault
    /\ Redeliver
    /\ dropped' = dropped \cup (sink \ saved) /\ sink' = {}
    /\ UNCHANGED <<chunks, request, posts, saved, loading, late>>

\* It dies when only the task is left.
DieSaving ==
    /\ load.pc = "idle" /\ sink # {} /\ Fault
    /\ dropped' = dropped \cup (sink \ saved) /\ sink' = {}
    /\ UNCHANGED <<chunks, request, posts, jobs, load, saved, loading, failed, late>>

Loading ==
    \/ (\E a \in Archive : Take(a)) \/ ReadChunks \/ ReadFails
    \/ SendTweet \/ SkipTweet \/ ParseFails \/ EndParsing
    \/ RemoveObjects \/ Complete \/ Ack

Next ==
    \/ \E u \in Chunk : CheckSize(u) \/ AddRow(u) \/ PutObject(u) \/ UploadFails(u)
    \/ \E q \in Request : ReadAccount(q) \/ EnqueueLoad(q) \/ MarkImporting(q)
    \/ Loading \/ Die \/ DieSaving
    \/ \E t \in Tweet : SaveTweet(t) \/ SaveFails(t) \/ TaskPanics(t)

Spec == Init /\ [][Next]_vars

-----------------------------------------------------------------------------
\* A user's chunks exceed the limit only by the requests that asked for their
\* size at the same time.
ChunksBounded == Cardinality(rows \cup Sized) <= Limit + Parallel - 1

\* An account marked complete has its tweets, or a task is still saving them; or one
\* was dropped: its processing failed and was logged, or the task was lost with what
\* it had yet to save, after a panic or with its worker.
CompleteIsSaved ==
    loading = "complete" => \A t \in Tweet : t \in saved \cup sink \cup dropped

\* An account does not stay at importing, unless a job failed at its last delivery (as
\* it does for an archive that cannot be read or parsed) or the request that queued
\* the job marked the account after the job had completed.
ImportingEnds ==
    loading = "importing" =>
        (\E a \in Archive : Pending(a)) \/ failed \/ late

-----------------------------------------------------------------------------
(* What makes them inductive.                                                *)

\* A chunk that is about to be stored has its row.
RowFirst == \A u \in Chunk : upload[u].pc = "added" => u \in rows

\* The job and the requests at work have an archive.
HaveArchive ==
    /\ load.pc # "idle" => load.archive \in Archive
    /\ \A q \in Request : request[q].pc # "idle" => request[q].archive \in Archive

Handled(t) == t \in saved \cup sink \cup dropped

\* What the parser is past was handed over, and was not lost unnoticed since.
HandedOver ==
    /\ load.pc \in {"parsing", "removing", "completing", "ack"} =>
           \A t \in Tweet \ load.left : Handled(t)
    /\ load.pc \in {"removing", "completing", "ack"} => load.left = {}
    /\ loading = "complete" => \A t \in Tweet : Handled(t)

IInv ==
    /\ TypeOK /\ RowFirst /\ HaveArchive /\ ChunksBounded
    /\ HandedOver /\ CompleteIsSaved /\ ImportingEnds
=============================================================================
