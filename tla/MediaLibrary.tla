---------------------------- MODULE MediaLibrary ----------------------------
(***************************************************************************)
(* The media items of one owner, the links that say where each was posted, *)
(* and the pictures kept for them in S3.  Items come from ingests (site    *)
(* jobs, NewSubmissionJob, uploads) and go by removals, merges and the     *)
(* deletion of the user; the pictures follow in steps of their own,        *)
(* outside every transaction, and PendingDeletionJob clears up after a     *)
(* deleted user.                                                           *)
(*                                                                         *)
(* Ids stand for last_modified too: a merge keeps the oldest item.  A      *)
(* picture (content and thumbnail) is named by the item it was made for.   *)
(***************************************************************************)
EXTENDS Naturals, FiniteSets

CONSTANTS
    Sha,            \* contents an image may have
    Source,         \* submissions: an account and an id on its site
    NoSource,       \* the source of an uploaded file
    Worker,         \* ingests at a time
    Request,        \* web requests (remove, merge) at a time
    MaxItems,       \* bound: ids handed out
    MaxIngests,     \* bound: ingests started
    MaxRequests,    \* bound: requests started
    MaxFaults,      \* bound: interrupted handlers and failed transactions
    MaxUnread,      \* bound: items whose picture cannot be had
    UserMayLeave,   \* bound: whether the user may be deleted
    SlashMatters    \* the store tells the keys "/a" and "a" apart

ASSUME ConstantsAssumption ==
    /\ {MaxItems, MaxIngests, MaxRequests, MaxFaults, MaxUnread} \subseteq Nat
    /\ SlashMatters \in BOOLEAN /\ UserMayLeave \in BOOLEAN
    /\ NoSource \notin Source

VARIABLES
    user,       \* user_account: present, marked (its deletion is open) or gone
    used,       \* ids handed out so far
    rows,       \* owned_media_item, as committed
    sha,        \* its sha256_hash
    links,      \* owned_media_item_account, as committed
    attached,   \* items whose content_url and thumb_url are set
    stored,     \* pictures in the bucket
    marked,     \* pictures the open deletion of the user will put on the list
    doomed,     \* pending_deletion
    purging,    \* the picture PendingDeletionJob is at
    work,       \* what each ingest is doing
    req,        \* what each request is doing
    known,      \* history: sources that were linked
    discarded,  \* history: sources whose item was removed on request
    late,       \* history: links that came in while their item was merged away
    twice,      \* history: sources of an item that a merge was given twice, and kept
    searched,   \* history: items a search was queued for
    unread,     \* history: items whose picture could not be had
    abandoned,  \* history: items whose ingest was interrupted after the insert
    spoiled,    \* history: items whose picture a failed request had deleted
    leaked,     \* history: pictures whose item went before they were noticed
    count       \* ingests, requests and faults so far

library  == <<used, rows, sha, links, attached>>
pictures == <<stored, marked, doomed, purging>>
fate     == <<known, discarded, late, twice, searched, unread, abandoned, spoiled, leaked>>
vars == <<user, library, pictures, work, req, fate, count>>

Item   == 1 .. MaxItems
NoItem == 0
Link   == [item: Item, source: Source]

Of(i)      == {l \in links : l.item = i}
Sources(L) == {l.source : l \in L}
Posted(s)  == {s} \ {NoSource}

Idle == [at |-> "idle", sha |-> NoSource, source |-> NoSource, item |-> NoItem]
Free == [at |-> "idle", into |-> NoItem, todo |-> {}, had |-> {}, erased |-> {},
         moved |-> {}, dead |-> {}]

Init ==
    /\ user = "present" /\ used = 0 /\ rows = {} /\ links = {} /\ attached = {}
    /\ sha = [i \in Item |-> NoSource]
    /\ stored = {} /\ marked = {} /\ doomed = {} /\ purging = NoItem
    /\ work = [w \in Worker |-> Idle]
    /\ req = [r \in Request |-> Free]
    /\ known = {} /\ discarded = {} /\ late = {} /\ twice = {} /\ searched = {}
    /\ unread = {} /\ abandoned = {} /\ spoiled = {} /\ leaked = {}
    /\ count = [ingests |-> 0, requests |-> 0, faults |-> 0]

Counted(what, bound) == count[what] < bound /\ count' = [count EXCEPT ![what] = @ + 1]
Fault == Counted("faults", MaxFaults)

\* A request whose open transaction has deleted the row (its lock is held).
Deleting(i) == \E r \in Request : i \in req[r].dead

\* The item a merge or removal is at: they go by last_modified.
Current(r) == CHOOSE i \in req[r].todo : \A j \in req[r].todo : i <= j

\* A merge has moved the links of the item and not deleted it yet: what is
\* linked to it now goes with the row.
MergedAway(i) ==
    \E r \in Request : req[r].at = "row" /\ req[r].into # NoItem /\ Current(r) = i

-----------------------------------------------------------------------------
(* Ingests: any submission may come, again and again, in any job.          *)

\* lookup_by_sha256; an upload of what is there is over at once.
Lookup(w) ==
    /\ work[w].at = "idle" /\ user # "gone"
    /\ Counted("ingests", MaxIngests)
    /\ \E h \in Sha, s \in Source \cup {NoSource} :
        LET same == {i \in rows : sha[i] = h}
            To(step, i) == work' = [work EXCEPT ![w] =
                               [at |-> step, sha |-> h, source |-> s, item |-> i]] IN
        \/ /\ s # NoSource
           /\ \E i \in same : To("link", i)
           /\ UNCHANGED used
        \/ /\ same = {} /\ used < MaxItems
           /\ used' = used + 1
           /\ To("insert", used')
    /\ UNCHANGED <<user, rows, sha, links, attached, pictures, req, fate>>

\* INSERT of the item and its link, in the transaction of the lookup.
Insert(w) ==
    LET i == work[w].item  s == Posted(work[w].source) IN
    /\ work[w].at = "insert"
    /\ user # "gone"
    /\ rows' = rows \cup {i}
    /\ sha' = [sha EXCEPT ![i] = work[w].sha]
    /\ links' = links \cup [item: {i}, source: s]
    /\ known' = known \cup s
    /\ work' = [work EXCEPT ![w].at = "upload"]
    /\ UNCHANGED <<user, used, attached, pictures, req, discarded, late, twice,
                   searched, unread, abandoned, spoiled, leaked, count>>

\* The link of an item that is there: waits for a merge that holds either row.
InsertLink(w) ==
    LET l == [item |-> work[w].item, source |-> work[w].source] IN
    /\ work[w].at = "link"
    /\ l.item \in rows /\ ~Deleting(l.item)
    /\ \A r \in Request : l \notin req[r].moved
    /\ links' = links \cup {l}
    /\ known' = known \cup {l.source}
    /\ late' = IF MergedAway(l.item) THEN late \cup {l.source} ELSE late
    /\ work' = [work EXCEPT ![w] = Idle]
    /\ UNCHANGED <<user, used, rows, sha, attached, pictures, req, discarded, twice,
                   searched, unread, abandoned, spoiled, leaked, count>>

\* A foreign key fails: the owner or the item is gone.
InsertFails(w) ==
    /\ \/ work[w].at = "insert" /\ user = "gone"
       \/ work[w].at = "link" /\ work[w].item \notin rows
    /\ work' = [work EXCEPT ![w] = Idle]
    /\ UNCHANGED <<user, library, pictures, req, fate, count>>

\* update_media puts both sizes of the picture under new keys.
Upload(w) ==
    /\ work[w].at = "upload"
    /\ stored' = stored \cup {work[w].item}
    /\ work' = [work EXCEPT ![w].at = "attach"]
    /\ UNCHANGED <<user, library, marked, doomed, purging, req, fate, count>>

\* Not a picture, or no download: import_add searches all the same.
NoPicture(w) ==
    /\ work[w].at = "upload"
    /\ Cardinality(unread) < MaxUnread
    /\ unread' = unread \cup {work[w].item}
    /\ \/ work' = [work EXCEPT ![w].at = "search"]
       \/ work' = [work EXCEPT ![w] = Idle]
    /\ UNCHANGED <<user, library, pictures, req, known, discarded, late, twice,
                   searched, abandoned, spoiled, leaked, count>>

\* Variant for mutation: nothing is left to do once the picture is attached.
AttachLast(w) ==
    LET i == work[w].item IN
    /\ work[w].at = "attach"
    /\ ~Deleting(i)
    /\ i \in rows
    /\ attached' = attached \cup {i}
    /\ work' = [work EXCEPT ![w] = Idle]
    /\ UNCHANGED <<user, used, rows, sha, links, pictures, req, fate, count>>

\* The UPDATE at the end of update_media, which may find no row.
Attach(w) ==
    LET i == work[w].item IN
    /\ work[w].at = "attach"
    /\ ~Deleting(i)
    /\ IF i \in rows
       THEN attached' = attached \cup {i} /\ UNCHANGED leaked
       ELSE leaked' = leaked \cup {i} /\ UNCHANGED attached
    /\ work' = [work EXCEPT ![w].at = "search"]
    /\ UNCHANGED <<user, used, rows, sha, links, pictures, req, known, discarded, late,
                   twice, searched, unread, abandoned, spoiled, count>>

QueueSearch(w) ==
    /\ work[w].at = "search"
    /\ searched' = searched \cup {work[w].item}
    /\ work' = [work EXCEPT ![w] = Idle]
    /\ UNCHANGED <<user, library, pictures, req, known, discarded, late, twice,
                   unread, abandoned, spoiled, leaked, count>>

\* An error or a dead worker.  Delivered again, the job finds the item and
\* takes it for an old one.
InterruptIngest(w) ==
    LET i == work[w].item IN
    /\ work[w].at # "idle"
    /\ Fault
    /\ abandoned' = IF work[w].at \in {"upload", "attach", "search"}
                    THEN abandoned \cup {i} ELSE abandoned
    /\ leaked' = IF work[w].at = "attach" THEN leaked \cup {i} ELSE leaked
    /\ work' = [work EXCEPT ![w] = Idle]
    /\ UNCHANGED <<user, library, pictures, req, known, discarded, late, twice,
                   searched, unread, spoiled>>

-----------------------------------------------------------------------------
(* POST /user/media/remove and /user/media/merge.                          *)

Begin(r, into, todo) ==
    /\ req[r].at = "idle" /\ user # "gone"
    /\ Counted("requests", MaxRequests)
    /\ req' = [req EXCEPT ![r] = [Free EXCEPT !.at = "objects", !.into = into, !.todo = todo,
                                              !.had = todo \cap attached]]
    /\ UNCHANGED <<user, library, pictures, work, fate>>

StartRemove(r) == \E i \in rows : Begin(r, NoItem, {i})

\* Ids that are not there any more are passed over, but an id given twice is
\* read twice: when it is the oldest, that item is merged into itself, and goes.
\* (Given twice, any other is gone already when its turn comes again.)
StartMerge(r) ==
    \E ids \in SUBSET rows, into \in rows, again \in BOOLEAN :
        /\ Cardinality(ids) > 1 \/ again
        /\ into \in ids /\ \A i \in ids : into <= i
        /\ Begin(r, into, IF again THEN ids ELSE ids \ {into})

\* delete_prefixed_object leaves the slash after the prefix in the key.
Erase(urls) == stored' = IF SlashMatters THEN stored ELSE stored \ urls

\* Variant for mutation: the picture of the item that is kept goes too.
DeleteAllObjects(r) ==
    /\ req[r].at = "objects"
    /\ Erase((req[r].todo \cup {req[r].into}) \cap attached)
    /\ req' = [req EXCEPT ![r].erased = @ \cup ({Current(r)} \cap req[r].had),
                          ![r].at = IF req[r].into = NoItem THEN "row" ELSE "links"]
    /\ UNCHANGED <<user, library, marked, doomed, purging, work, fate, count>>

\* Only what had a content_url when the item was read.
DeleteObjects(r) ==
    LET urls == {Current(r)} \cap req[r].had IN
    /\ req[r].at = "objects"
    /\ Erase(urls)
    /\ req' = [req EXCEPT ![r].erased = @ \cup urls,
                          ![r].at = IF req[r].into = NoItem THEN "row" ELSE "links"]
    /\ UNCHANGED <<user, library, marked, doomed, purging, work, fate, count>>

\* The links are kept under an item that is gone, maybe by this transaction, or
\* has the source already.
Collides(r) ==
    LET mine == Of(Current(r))
        taken == Sources(Of(req[r].into)) \cup Sources(req[r].moved) IN
    /\ mine # {} /\ Current(r) # req[r].into
    /\ req[r].into \notin rows \ req[r].dead \/ Sources(mine) \cap taken # {}

\* Variant for mutation: the links are left to the cascade.
MoveNoLinks(r) ==
    /\ req[r].at = "links"
    /\ req' = [req EXCEPT ![r].at = "row"]
    /\ UNCHANGED <<user, library, pictures, work, fate, count>>

\* UPDATE owned_media_item_account: waits for rows other transactions hold.
MoveLinks(r) ==
    LET mine == Of(Current(r)) IN
    /\ req[r].at = "links"
    /\ ~Collides(r)
    /\ mine # {} =>
        \A q \in Request \ {r} :
            /\ req[q].moved \cap mine = {}
            /\ {Current(r), req[r].into} \cap req[q].dead = {}
            /\ req[q].into = req[r].into => Sources(req[q].moved) \cap Sources(mine) = {}
    /\ req' = [req EXCEPT ![r].moved = @ \cup mine, ![r].at = "row"]
    /\ UNCHANGED <<user, library, pictures, work, fate, count>>

\* A DELETE of the row waits for others that deleted it, moved its links, or
\* moved links to it (a foreign key holds it).
RowIsFree(r, i) ==
    \A q \in Request \ {r} :
        /\ i \notin req[q].dead
        /\ \A l \in req[q].moved : l.item # i
        /\ req[q].into = i => req[q].moved = {}

RemoveRow(r) ==
    LET i == Current(r) IN
    /\ req[r].at = "row" /\ req[r].into # NoItem
    /\ RowIsFree(r, i)
    /\ req' = [req EXCEPT ![r].dead = @ \cup ({i} \cap rows), ![r].todo = @ \ {i},
                          ![r].at = IF req[r].todo = {i} THEN "commit" ELSE "objects"]
    /\ UNCHANGED <<user, library, pictures, work, fate, count>>

\* The rows go, and with them every link the UPDATE did not see.
CommitMerge(r) ==
    LET to == req[r].into
        sources == IF to \in req[r].dead THEN {} ELSE Sources(req[r].moved) IN
    /\ req[r].at = "commit"
    /\ rows' = rows \ req[r].dead
    /\ links' = {l \in links : l.item \notin req[r].dead} \cup [item: {to}, source: sources]
    /\ attached' = attached \ req[r].dead
    /\ leaked' = leaked \cup ((attached \cap req[r].dead) \ req[r].erased)
    /\ late' = IF MergedAway(to) THEN late \cup sources ELSE late
    /\ twice' = IF to \in req[r].dead THEN twice \cup Sources(Of(to)) ELSE twice
    /\ req' = [req EXCEPT ![r] = Free]
    /\ UNCHANGED <<user, used, sha, pictures, work, known, discarded, searched, unread,
                   abandoned, spoiled, count>>

RemoveItem(r) ==
    LET i == Current(r) IN
    /\ req[r].at = "row" /\ req[r].into = NoItem
    /\ RowIsFree(r, i)
    /\ rows' = rows \ {i}
    /\ links' = links \ Of(i)
    /\ attached' = attached \ {i}
    /\ leaked' = leaked \cup ((attached \cap {i}) \ req[r].erased)
    /\ discarded' = discarded \cup Sources(Of(i))
    /\ req' = [req EXCEPT ![r] = Free]
    /\ UNCHANGED <<user, used, sha, pictures, work, known, late, twice, searched, unread,
                   abandoned, spoiled, count>>

\* The transaction is rolled back; what S3 deleted stays deleted.
Abort(r) ==
    /\ req' = [req EXCEPT ![r] = Free]
    /\ spoiled' = spoiled \cup req[r].erased
    /\ UNCHANGED <<user, library, pictures, work, known, discarded, late, twice,
                   searched, unread, abandoned, leaked>>

MergeFails(r) == req[r].at = "links" /\ Collides(r) /\ Abort(r) /\ UNCHANGED count

\* S3 or the database fails, two merges deadlock, or the client hangs up.
InterruptRequest(r) == req[r].at # "idle" /\ Fault /\ Abort(r)

-----------------------------------------------------------------------------
(* POST /user/delete and PendingDeletionJob.                               *)

\* move_media_to_delete.sql
MarkPictures ==
    /\ UserMayLeave /\ user = "present"
    /\ user' = "marked"
    /\ marked' = attached
    /\ UNCHANGED <<library, stored, doomed, purging, work, req, fate, count>>

\* The DELETE cascades to all items, waiting for transactions that hold any.
DeleteUser ==
    /\ user = "marked"
    /\ \A r \in Request : req[r].dead = {} /\ req[r].moved = {}
    /\ user' = "gone"
    /\ rows' = {} /\ links' = {} /\ attached' = {}
    /\ doomed' = doomed \cup marked
    /\ marked' = {}
    /\ leaked' = leaked \cup (attached \ marked)
    /\ discarded' = discarded \cup Sources(links)
    /\ UNCHANGED <<used, sha, stored, purging, work, req, known, late, twice,
                   searched, unread, abandoned, spoiled, count>>

DeleteUserFails ==
    /\ user = "marked"
    /\ Fault
    /\ user' = "present"
    /\ marked' = {}
    /\ UNCHANGED <<library, stored, doomed, purging, work, req, fate>>

\* Variant for mutation: the entry goes whether S3 deleted the picture or not.
PurgeAnyway ==
    /\ purging = NoItem
    /\ \E i \in doomed : purging' = i
    /\ UNCHANGED <<user, library, stored, marked, doomed, work, req, fate, count>>

\* An error of S3 is logged and the picture left for another hour.
PurgeObject ==
    /\ purging = NoItem
    /\ \E i \in doomed : Erase({i}) /\ purging' = i
    /\ UNCHANGED <<user, library, marked, doomed, work, req, fate, count>>

ForgetObject ==
    /\ purging # NoItem
    /\ doomed' = doomed \ {purging}
    /\ purging' = NoItem
    /\ UNCHANGED <<user, library, stored, marked, work, req, fate, count>>

InterruptPurge ==
    /\ purging # NoItem
    /\ Fault
    /\ purging' = NoItem
    /\ UNCHANGED <<user, library, stored, marked, doomed, work, req, fate>>

-----------------------------------------------------------------------------
Ingest(w) ==
    \/ Lookup(w) \/ Insert(w) \/ InsertLink(w) \/ InsertFails(w) \/ Upload(w) \/ NoPicture(w)
    \/ Attach(w) \/ QueueSearch(w)

Handle(r) ==
    \/ DeleteObjects(r) \/ MoveLinks(r) \/ RemoveRow(r) \/ CommitMerge(r) \/ RemoveItem(r)
    \/ MergeFails(r)

Next ==
    \/ \E w \in Worker : Ingest(w) \/ InterruptIngest(w)
    \/ \E r \in Request : StartRemove(r) \/ StartMerge(r) \/ Handle(r) \/ InterruptRequest(r)
    \/ MarkPictures \/ DeleteUser \/ DeleteUserFails
    \/ PurgeObject \/ ForgetObject \/ InterruptPurge

Spec == Init /\ [][Next]_vars

\* The schedule queues PendingDeletionJob every hour.
FairSpec == Spec /\ WF_vars(PurgeObject) /\ WF_vars(ForgetObject)

-----------------------------------------------------------------------------
(* Properties.                                                             *)

\* What a worker and a request may be at, and know.
Ingesting ==
    {Idle} \cup [at: {"link"}, sha: Sha, source: Source, item: 1 .. used]
    \cup [at: {"insert", "upload", "attach", "search"},
          sha: Sha, source: Source \cup {NoSource}, item: 1 .. used]
Asking ==
    [at: {"idle", "objects", "links", "row", "commit"}, into: 0 .. used,
     todo: SUBSET (1 .. used), had: SUBSET (1 .. used), erased: SUBSET (1 .. used),
     moved: SUBSET [item: 1 .. used, source: Source], dead: SUBSET (1 .. used)]

TypeOK ==
    /\ user \in {"present", "marked", "gone"} /\ used \in 0 .. MaxItems
    /\ rows \subseteq 1 .. used /\ attached \subseteq rows
    /\ sha \in [Item -> Sha \cup {NoSource}]
    /\ links \subseteq [item: rows, source: Source]
    /\ stored \subseteq 1 .. used /\ marked \subseteq 1 .. used /\ doomed \subseteq 1 .. used
    /\ purging \in 0 .. used
    /\ work \in [Worker -> Ingesting] /\ req \in [Request -> Asking]
    /\ known \subseteq Source /\ discarded \subseteq Source /\ late \subseteq Source
    /\ twice \subseteq Source
    /\ searched \subseteq Item /\ unread \subseteq Item
    /\ abandoned \subseteq Item /\ spoiled \subseteq Item /\ leaked \subseteq Item
    /\ count \in [{"ingests", "requests", "faults"} -> Nat]

\* The picture an item shows is in the bucket: only a request that deleted it
\* before the row, and is not through or failed, can leave an item without.
PictureShown ==
    \A i \in attached :
        i \in stored \/ i \in spoiled \/ \E r \in Request : i \in req[r].erased

\* Every picture belongs to an item, waits to be deleted or is about to be
\* attached.  It is orphaned only where its item goes without having known
\* it (leaked).
PictureAccounted ==
    \A i \in stored :
        \/ i \in attached \cup doomed \cup leaked
        \/ SlashMatters
        \/ \E w \in Worker : work[w].at = "attach" /\ work[w].item = i

\* However merges, removals and ingests interleave, where something was posted
\* is forgotten only when its item is removed on request, when the link came in
\* between the two statements of a merge, or when a merge was given the id of
\* the item it keeps twice.
SourceKept ==
    known \subseteq Sources(links) \cup discarded \cup late \cup twice

\* A new item is searched for, unless its ingest was interrupted or there was
\* no picture: no second delivery makes up for it.
NewItemSearched ==
    \A i \in rows :
        \/ i \in searched \cup unread \cup abandoned
        \/ \E w \in Worker : work[w].at \in {"upload", "attach", "search"} /\ work[w].item = i

\* What the list of a deleted user names is deleted in the end.
DoomedGoes == \A i \in Item : (i \in doomed) ~> (i \notin stored)

\* "automatically grouping identical files": an owner has one item a content.
IdenticalFilesGrouped == \A i, j \in rows : sha[i] = sha[j] => i = j

-----------------------------------------------------------------------------
(* The inductive invariant behind the four safety properties.              *)

Making(w) == work[w].at \in {"insert", "upload", "attach", "search"}

\* Whoever makes a new item is alone with it: until it is attached nobody
\* knows a picture of it, until it is inserted nobody knows the item.
Alone(w) ==
    LET i == work[w].item IN
    /\ \A v \in Worker \ {w} : Making(v) => work[v].item # i
    /\ work[w].at # "search" =>
           i \notin attached \cup marked \cup doomed /\ \A r \in Request : i \notin req[r].had
    /\ work[w].at = "insert" =>
           /\ i \notin rows
           /\ \A r \in Request : req[r].into # i /\ i \notin req[r].todo \cup req[r].dead

FreshInv == \A w \in Worker : Making(w) => Alone(w)

\* A picture that is about to be attached is in the bucket.
UploadInv == \A w \in Worker : work[w].at = "attach" => work[w].item \in stored

\* A deleted user has no items, and only then is anything listed or purged.
UserInv ==
    /\ user = "gone" => rows = {}
    /\ user # "gone" => doomed = {}
    /\ purging # NoItem => purging \in doomed /\ (SlashMatters \/ purging \notin stored)

\* How far a request is, and that what it erased goes with the row.
InStep(r) ==
    /\ req[r].at = "idle" => req[r] = Free
    /\ req[r].at \in {"objects", "links", "row"} => req[r].todo # {}
    /\ req[r].at = "commit" => req[r].todo = {} /\ req[r].into # NoItem
    /\ req[r].at = "links" => req[r].into # NoItem
    /\ req[r].into = NoItem =>
           /\ req[r].moved = {} /\ req[r].dead = {}
           /\ \A i, j \in req[r].todo \cup req[r].had : i = j
    /\ req[r].into \in req[r].todo =>
           req[r].dead = {} /\ \A i \in req[r].todo : req[r].into <= i
    /\ req[r].erased \subseteq req[r].had
    /\ SlashMatters \/ req[r].erased \cap stored = {}
    /\ \A i \in req[r].erased \cap rows :
           i \in req[r].dead \/ (req[r].at \in {"links", "row"} /\ i = Current(r))

StepInv == \A r \in Request : InStep(r)

\* The links a merge has taken from an item, by the UPDATE it has behind it.
Emptied(r) ==
    req[r].dead \cup (IF req[r].at = "row" /\ req[r].into # NoItem THEN {Current(r)} ELSE {})

\* A link of such an item was moved or came late, and the item the links are
\* moved to is there and stays, unless they were its own.
LinksKept(r) ==
    /\ \A l \in links : l.item \in Emptied(r) => l \in req[r].moved \/ l.source \in late
    /\ req[r].moved # {} =>
           req[r].into \in rows /\ \A q \in Request \ {r} : req[r].into \notin req[q].dead
    /\ req[r].into \in req[r].todo \cup req[r].dead =>
           \A l \in req[r].moved : l.item = req[r].into

MoveInv == \A r \in Request : LinksKept(r)

IInv ==
    /\ FreshInv /\ UploadInv /\ UserInv /\ StepInv /\ MoveInv
    /\ PictureShown /\ PictureAccounted /\ SourceKept /\ NewItemSearched
=============================================================================
