------------------------------ MODULE FListRuns ------------------------------
(* The F-list watcher: collect_gallery_images pages through F-list's latest  *)
(* images under an flist_import_run row and queues each for hash_image.  The *)
(* schedule starts a collector every five minutes whatever the others do.    *)
(*                                                                           *)
(* An image is its id, one whose item in the gallery can be parsed; F-list    *)
(* numbers images in the order they are published and lists the latest first. *)
EXTENDS Integers, SequencesExt

CONSTANTS Collector,   \* workers that run collect_gallery_images
          Run,         \* ids of flist_import_run rows
          NoRun,
          LastImage,   \* bound on the images published
          PageSize,    \* images on a page of the gallery
          MaxFault     \* bound on deaths, delays past 30 minutes, removals, refusals

Image == 1..LastImage

VARIABLES published,   \* how many images F-list has numbered
          listed,      \* those still in its gallery
          files,       \* flist_file: is the image found, was its HashImageJob queued
          open,        \* unfinished runs by started_at
          done,        \* max_id of the run that finished last
          gone,        \* runs whose row was aborted
          coll,        \* a run of collect_gallery_images per worker
          faults,      \* faults so far
          shifted,     \* an image left the gallery while a collector was between pages
          refused,     \* a run ended at a page that was refused, before the gallery did
          taken        \* how many runs were taken over

gallery == <<published, listed>>
runs == <<open, done, gone>>
history == <<shifted, refused, taken>>
vars == <<gallery, files, runs, coll, faults, history>>

Idle == [pc |-> "idle", prev |-> 0, run |-> NoRun, offset |-> 0, max |-> 0, page |-> {}]
Row == [run : Run, start : Nat, old : BOOLEAN, resumed : BOOLEAN]
Collecting == [pc : {"idle", "starting", "paging", "queueing", "ending"},
               prev : Nat, run : Run \cup {NoRun}, offset : Nat, max : Nat, page : SUBSET Image]

TypeOK ==
    /\ published \in 0..LastImage /\ listed \subseteq 1..published
    /\ files \in [Image -> {"unknown", "found", "queued"}]
    /\ open \in Seq(Row) /\ done \in Nat /\ gone \subseteq Run
    /\ coll \in [Collector -> Collecting]
    /\ faults \in 0..MaxFault /\ shifted \in BOOLEAN /\ refused \in BOOLEAN /\ taken \in Nat

Init ==
    /\ published = 0 /\ listed = {}
    /\ files = [x \in Image |-> "unknown"]
    /\ open = <<>> /\ done = 0 /\ gone = {}
    /\ coll = [c \in Collector |-> Idle]
    /\ faults = 0 /\ shifted = FALSE /\ refused = FALSE /\ taken = 0

Queue(images) == files' = [x \in Image |-> IF x \in images THEN "queued" ELSE files[x]]
Rank(x) == Cardinality({y \in listed : y > x})
\* get_latest_gallery_items: the page of the gallery from this offset on.
Page(offset) == {x \in listed : Rank(x) \in offset..(offset + PageSize - 1)}
Fault == faults < MaxFault /\ faults' = faults + 1

-----------------------------------------------------------------------------
(* F-list.                                                                   *)

Publish ==
    /\ published < LastImage
    /\ published' = published + 1
    /\ listed' = listed \cup {published'}
    /\ UNCHANGED <<files, runs, coll, faults, history>>

Withdraw ==
    /\ Fault
    /\ \E x \in listed : listed' = listed \ {x}
    /\ shifted' = (shifted \/ \E c \in Collector : coll[c].pc \in {"paging", "queueing"})
    /\ UNCHANGED <<published, files, runs, coll, refused, taken>>

-----------------------------------------------------------------------------
(* collect_gallery_images.                                                   *)

\* previous_run: unfinished runs come first, the one started last before others.
LatestOpen == Last(open)

\* It never finished and is 30 minutes old: take it over.
Resume(c) ==
    /\ coll[c].pc = "idle" /\ open # <<>> /\ LatestOpen.old
    /\ coll' = [coll EXCEPT ![c] = [Idle EXCEPT !.pc = "paging", !.run = LatestOpen.run,
                                                !.prev = LatestOpen.start, !.max = LatestOpen.start]]
    /\ open' = [open EXCEPT ![Len(open)].resumed = TRUE]
    /\ taken' = IF LatestOpen.resumed THEN taken ELSE taken + 1
    /\ UNCHANGED <<gallery, files, done, gone, faults, shifted, refused>>

\* It finished, or there is none: go on from its max_id.  (An unfinished run
\* younger than 30 minutes ends the job at once.)
Continue(c) ==
    /\ coll[c].pc = "idle" /\ open = <<>>
    /\ coll' = [coll EXCEPT ![c] = [Idle EXCEPT !.pc = "starting", !.prev = done, !.max = done]]
    /\ UNCHANGED <<gallery, files, runs, faults, history>>

\* FListImportRun::start: a row of its own.
Free(r) == (\A i \in DOMAIN open : open[i].run # r) /\ (\A c \in Collector : coll[c].run # r)
Start(c) ==
    /\ coll[c].pc = "starting"
    /\ \E r \in Run :
        /\ Free(r) /\ \A q \in Run : q < r => ~Free(q)
        /\ open' = Append(open, [run |-> r, start |-> coll[c].prev + 1,
                                 old |-> FALSE, resumed |-> FALSE])
        /\ gone' = gone \ {r}
        /\ coll' = [coll EXCEPT ![c].pc = "paging", ![c].run = r]
    /\ UNCHANGED <<gallery, files, done, faults, history>>

\* A page is read and its images are inserted in one transaction; an empty one
\* ends the run.
LoadPage(c) ==
    /\ coll[c].pc = "paging"
    /\ LET page == Page(coll[c].offset)
       IN  /\ coll' = [coll EXCEPT ![c].pc = IF page = {} THEN "ending" ELSE "queueing",
                                   ![c].page = page]
           /\ files' = [x \in Image |-> IF x \in page /\ files[x] = "unknown" THEN "found" ELSE files[x]]
    /\ UNCHANGED <<gallery, runs, faults, history>>

\* No item is found in the answer, whose status is not looked at: an error page, a
\* redirect to the sign-in, or an offset past 10,000, which is not even asked for.
\* It passes for the end of the gallery, wherever that is.
RefusedPage(c) ==
    /\ coll[c].pc = "paging" /\ Fault
    /\ coll' = [coll EXCEPT ![c].pc = "ending"]
    /\ refused' = (refused \/ coll[c].offset > 0)
    /\ UNCHANGED <<gallery, files, runs, shifted, taken>>

\* Variant for mutation: a page that reaches above the previous max is the last.
QueueHashesShort(c) ==
    /\ coll[c].pc = "queueing"
    /\ LET page == coll[c].page
       IN  /\ Queue(page)
           /\ coll' = [coll EXCEPT
                ![c].pc = IF \E x \in page : x > coll[c].prev THEN "ending" ELSE "paging",
                ![c].max = Max(page \cup {coll[c].max}),
                ![c].offset = coll[c].offset + Cardinality(page),
                ![c].page = {}]
    /\ UNCHANGED <<gallery, runs, faults, history>>

\* After the commit a HashImageJob is queued for every image of the page, known
\* before or not; a page that reaches below the previous max is the last.
QueueHashes(c) ==
    /\ coll[c].pc = "queueing"
    /\ LET page == coll[c].page
       IN  /\ Queue(page)
           /\ coll' = [coll EXCEPT
                ![c].pc = IF \E x \in page : x < coll[c].prev THEN "ending" ELSE "paging",
                ![c].max = Max(page \cup {coll[c].max}),
                ![c].offset = coll[c].offset + Cardinality(page),
                ![c].page = {}]
    /\ UNCHANGED <<gallery, runs, faults, history>>

\* FListImportRun::complete, also on a run that another collector finished; the
\* UPDATE finds nothing when the run was aborted.
Complete(c) ==
    /\ coll[c].pc = "ending"
    /\ coll' = [coll EXCEPT ![c] = Idle]
    /\ IF coll[c].run \in gone
       THEN UNCHANGED <<open, done>>
       ELSE /\ \/ \E i \in DOMAIN open : open[i].run = coll[c].run /\ open' = RemoveAt(open, i)
               \/ (\A i \in DOMAIN open : open[i].run # coll[c].run) /\ open' = open
            /\ done' = coll[c].max
    /\ UNCHANGED <<gallery, files, gone, faults, history>>

\* The sign-in is refused, a request gets no answer, the database or an enqueue
\* fails or the worker dies: some of the page's jobs may have been queued.
Die(c) ==
    /\ coll[c].pc # "idle" /\ Fault
    /\ \E some \in SUBSET coll[c].page : Queue(some)
    /\ coll' = [coll EXCEPT ![c] = Idle]
    /\ UNCHANGED <<gallery, runs, history>>

\* 30 minutes pass for the oldest run still open.  They pass without fault for
\* a run no collector works on.
Age ==
    \E i \in DOMAIN open :
        /\ ~open[i].old /\ \A j \in 1..(i - 1) : open[j].old
        /\ open' = [open EXCEPT ![i].old = TRUE]
        /\ IF \E c \in Collector : coll[c].run = open[i].run THEN Fault ELSE UNCHANGED faults
        /\ UNCHANGED <<gallery, files, done, gone, coll, history>>

\* POST /admin/sites/flist/abort: the row of an unfinished run is deleted.
Abort ==
    /\ Fault
    /\ \E i \in DOMAIN open :
        /\ open' = RemoveAt(open, i)
        /\ gone' = gone \cup {open[i].run}
    /\ UNCHANGED <<gallery, files, done, coll, history>>

Collect(c) ==
    Resume(c) \/ Continue(c) \/ Start(c) \/ LoadPage(c) \/ QueueHashes(c) \/ Complete(c)

Next ==
    \/ Publish \/ Withdraw \/ Age \/ Abort
    \/ \E c \in Collector : Collect(c) \/ RefusedPage(c) \/ Die(c)

Spec == Init /\ [][Next]_vars

-----------------------------------------------------------------------------
\* What the exceptions to the properties below are: a gallery that shifted
\* between two pages, a run that a refused page ended after its first, or more
\* than two runs taken over.  Taking over starts
\* from starting_id, one more than the max_id before: a run that dies and finds
\* nothing moves the recorded max_id one further above every image.
Exact == ~shifted /\ ~refused /\ taken <= 2

\* No recorded id is further above the images than runs were taken over, and
\* no image that much older than it is left without its job.
Covered(id) ==
    /\ id <= published + taken
    /\ \A x \in listed : x + taken <= id => files[x] = "queued"
\* The id a run left open would be taken over from, before that moves it.
Ceiling(row) == IF row.resumed THEN row.start ELSE row.start - 1
RowInv == Covered(done) /\ \A i \in DOMAIN open : Covered(Ceiling(open[i]))

\* A collector past its first page has queued what it came past; what its page
\* has not is newer, or further down than its next page begins.
Sound(run) ==
    /\ Covered(run.prev)
    /\ run.pc \in {"starting", "paging", "queueing"} =>
        IF run.offset = 0 THEN run.max = run.prev
        ELSE run.pc # "starting" /\ run.max <= published
    /\ run.pc = "paging" =>
        \A x \in listed : Rank(x) < run.offset /\ x <= run.max => files[x] = "queued"
    /\ run.pc = "queueing" =>
        /\ run.page # {} /\ run.page \subseteq 1..published
        /\ \A x \in listed \ run.page :
            \/ /\ \A y \in run.page : x > y
               /\ run.offset > 0 /\ x <= run.max => files[x] = "queued"
            \/ /\ \A y \in run.page : x < y
               /\ Rank(x) >= run.offset + Cardinality(run.page)
    /\ run.pc = "ending" => Covered(run.max)

IInv == TypeOK /\ (Exact => RowInv /\ \A c \in Collector : Sound(coll[c]))

\* Would a run that starts with this previous max get as far as x?
Reaches(prev, x) ==
    \A y \in listed : Rank(y) < PageSize * (Rank(x) \div PageSize) => y >= prev

\* No image falls between two runs: the job that hashes an image of the gallery
\* was queued, or a run that starts from the recorded max_id still comes to it,
\* whatever runs died between the commit and the jobs of a page, found their first
\* page refused, were taken over while still at work, finished twice or were aborted.
NothingOutOfReach ==
    Exact => \A x \in listed : files[x] = "queued" \/ Reaches(done, x)
=============================================================================
