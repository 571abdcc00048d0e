# fuzzysearch-owo in TLA+

fuzzysearch-owo lets artists link their accounts on art sites, imports what they
have posted there, and tells them when a copy of it shows up elsewhere.  The
program is one Rust crate (`src/src`) that runs either as a web service (actix)
or as a worker (Faktory jobs); both share PostgreSQL (`src/queries`,
`src/migrations`), S3 storage and NATS subjects.  This directory holds
specifications of its parts, the TLC configurations that check them, and TLAPS
proofs.

## Inventory

### How the parts interact

* The **web service** handles a request, writes rows, and hands slow work over by
  queueing a Faktory job.  Nothing ties the two together: a row can be committed
  and its job never queued.
* **Workers** fetch jobs from four queues (core, outgoing, outgoing bulk,
  FurAffinity).  Faktory delivers *at least once*.  A handler that fails, or whose
  reservation expires, is delivered again from its first line until its retries
  are used up; `Error::should_retry` (error.rs 85-95) refuses a retry for
  `Missing`, `TooLarge`, `EmailContent` and `Unauthorized`.
* A **cron** (jobs.yaml) queues the periodic jobs: F-list and Reddit every five
  minutes, DeviantArt and the digests daily, weekly digests on Monday, pending
  deletions and expired sessions hourly.
* **PostgreSQL** runs every statement in a transaction of its own unless the code
  opens one (`add_item`, `merge`, `refresh_credentials`, `User::delete`, digest
  creation, Bluesky posts), at the default READ COMMITTED level.
* **NATS** carries events to open browser tabs and is fire-and-forget: no state is
  rebuilt from it.
* **S3** holds the images, outside every transaction.

### Components

For each part: its state, its operations, what is hard, what makes it correct.

| component | state | operations | hard | correct when |
|---|---|---|---|---|
| Linking and verification (user.rs, jobs.rs) | `linked_account` | link, OAuth callback, verify, remove | a verification key cleared before the import is queued; two verifications at once | nothing is imported for an account that was not proved to be the owner's; a proved one is imported |
| Initial import (site/mod.rs, site/*.rs) | `linked_account_import`, `loading_state` | discover, queue one job a submission, load, count, complete | redelivery, crash in the queueing loop, double counting, removal in flight | no submission is lost silently; complete means loaded; a running import is not restarted |
| Media library (models.rs, common.rs) | `owned_media_item`, `owned_media_item_account` | ingest by hash, merge, remove | check-then-insert races; merges while an ingest links the merged item | one item a hash and owner; a link is not lost by a merge |
| Storage (models.rs, jobs.rs) | S3 objects, `pending_deletion` | upload, delete, pending deletion, migration | S3 deletes before the commit; leaked objects; a batch of failing rows | an item's object exists as long as the item does; deleted users' objects go eventually |
| Credential refresh (site/mod.rs) | tokens in `linked_account.data` | refresh under a row lock | one-time refresh tokens spent and not saved | at most one exchange of one token; no token is overwritten by an older one |
| Incoming submissions (common.rs) | `user_event`, `pending_notification` | record events, mail, Telegram, import | redelivery duplicates; settings read before use | an event is not lost, and not mailed twice without a fault |
| Email digests (jobs/email.rs) | `pending_notification`, digest jobs | create digests, send one | delete/enqueue/commit with a crash between | every pending notification reaches a digest |
| F-list (site/flist.rs) | `flist_import_run`, `flist_file` | collect, resume, abort, hash | two collectors, abort during a run | the id range has no holes |
| Reddit (site/reddit.rs) | `reddit_subreddit`, posts, images | page through, load a post | a row made before its download | a post in range is loaded |
| Bluesky (site/bsky.rs) | posts, tombstones, cursors, sessions | consume the stream, load a post, delete, link, import | deletion racing the load; lost sessions | a deleted post does not stay indexed |
| Twitter (site/twitter.rs, api.rs) | account data, upload chunks | update, archive upload, archive import | read-modify-write of the whole data; chunks deleted too early | an archive is imported once it was accepted |
| Patreon (site/patreon.rs) | campaign, webhook | callback, webhook | two callbacks register two webhooks | one webhook a campaign |
| Accounts and email (user.rs) | `user_account` | add, change, verify, unsubscribe, delete | check-then-set of unique values, stale tokens | a token is used once and for its own address |
| Sessions and authentication (auth.rs) | sessions, reset tokens, passkeys, cookies | log in by four ways, reset, revoke | revocation racing use; token overwritten in flight | a revoked session stays out |
| WebSocket events (api.rs) | bounded channel of 32 | subscribe, forward, session end | a slow client and a full channel | an ended session's socket closes |
| Administration (admin.rs) | the rows above | complete imports, abort runs, disable subreddits, queue any job | two updates with jobs between | the same invariants as above |
| Allowlist, settings, alerts, pages, feeds, start-up, templates | single rows or none | reads and single statements | nothing that spans two of them | not modelled |

`PROJECT.json` lists the same parts with what each model covers, and every
hazard with the line where it bites.

## The modules

In the order they were built, most important behaviour first:

1. `AccountImport` (the handlers), `ImportLifecycle` (what they promise an
   account), `AccountImportProofs`: linking, verification and import.
2. `Notifications`, `NotificationsProofs`: incoming submissions, events, pending
   notifications and both digest jobs.
3. `MediaLibrary`, `MediaLibraryProofs`: ingests, merges, removals and the
   pictures behind the items, user deletion and the pending-deletion job.
4. `CredentialRefresh`, `GrantStore` (what the stored credential promises),
   `BlueskyIngest`; `SiteFeeds` joins them, `SiteFeedsProofs`: the OAuth credential
   of an account and the posts of Bluesky.
5. `FListRuns`, `RedditWatch`, `ImageLoaders`; `Watchers` joins them,
   `WatchersProofs`: the watched sites.
6. `TwitterAccount`, `TwitterArchive`, `BlueskyLink`, `PatreonCampaign`; `Links`
   joins them, `LinksProofs`: the sites whose linking has state of its own.
7. `UserSessions` (with the event sockets), `UserEmail`; `Users` joins them,
   `UsersProofs`: a user's account.

Next, in this order: the removal of one linked account with the links of its items
in `MediaLibrary`; `MigrateStorageJob`; the DeviantArt watch jobs.

The stages compose through their jobs: what `AccountImport` loads, what the
watchers and `BlueskyIngest` submit, and what an incoming submission of a linked
account brings, is an ingest of `MediaLibrary`, which lets any submission come at
any time and again; what it finds is an incoming submission of `Notifications`,
which does the same.  The refresh that `PatreonCampaign` takes in one step is
`CredentialRefresh`, whose refinement of `GrantStore` justifies that step; the
archive job that `TwitterAccount` leaves out is `TwitterArchive`.  So each stays a
model of its own; the redelivery rules are the same in all of them.

Four modules join components that share no state, so that one proof module and one
run hold the theorems and properties of all of them: `SiteFeeds`, `Watchers`,
`Links` and `Users` each extend one component, instantiate the others (`B`, `F`
and `R`, `A`, `Z` and `P`, `S`) and name their properties, for instance
`NothingPassedOver == R!IInv /\ R!NothingPassedOver`.  A theorem about an instance
is about that instance's specification, `R!Spec => []NothingPassedOver`.

A `MC` module instantiates a component for TLC.  `MCSites`, `MCWatchers`,
`MCLinks` and `MCUsers` extend the four modules that join: their variable `part`,
chosen in the initial state, says which component runs, and the others keep their
initial state.  A run of such a module is the union of the separate runs.  Where
it has fairness, nothing that fairness is about is enabled in a part that rests.
The runs so check the very definitions the theorems state.

### What is proved and what is not

Every invariant that a passing run checks is a theorem, and so are
`ImportNotRestarted` (an action property) and the two refinements.  Not
proved, and checked by TLC alone, are the liveness properties, which are out of
the prover's reach: `ImportSettles`, `DigestArrives`, `DoomedGoes`, `CallsEnd`,
`PostsArrive`, `EndedSocketCloses`.  Cardinalities are proved about with the
library's facts on finite sets; no model has a recursive operator.

The theorems about instances name what they ask of the constants:
`Images \in Nat`; `RedditConstants`, `FListConstants`, `ArchiveConstants`,
`AccountConstants`, `CampaignConstants` and `SessionBounds` say that the bounds
are natural numbers, that a page and the size limit are not zero, that chunks and
tweets are finite sets, and that `None` and `Deleted` are no account, user or
archive.  The runs' constants satisfy all of them.

## Linking and importing accounts: `AccountImport`, `ImportLifecycle`

### State and actions

`linked`, `verified`, `loading` are columns of `linked_account`; `started`,
`expected`, `loaded`, `completed` are the `linked_account_import` row; `queue` and
`dead` are Faktory's bag of waiting jobs and its dead set; `pc`, `job`, `todo` are
what each worker is doing.  `callback` and `closing` are web handlers between two
of their statements (`callback` in deviantart.rs, `admin_imports_complete`).
`removed` and the three history variables (`requested`, `foundEmpty`,
`overridden`) record what happened; no action reads them except that ids, being
UUIDs, are not reused.

One action is one database statement, one enqueue or one acknowledgement, so every
interleaving of two handlers is explored.  `Interrupt` is everything that can go
wrong at any point of a handler: an error, a lost connection, a dead worker, an
expired reservation.  The job goes back with its attempt raised, or to the dead
set.  `loaded` keeps the pairs (submission, attempt) because `array_append` adds an
element each time: the length the code compares is the cardinality of that set.

FurAffinity, Weasyl and DeviantArt each have a shape of their own (a separate
discovery job; verification by profile text; a callback that creates the row
verified).  Bluesky's and Twitter's `add_account` call the same two functions in
the same order as DeviantArt's.

`ImportLifecycle` says what an account may go through (linked, verified,
importing, complete, gone) with no job or worker in it; `AccountImport` implements
it under the mapping `Lifecycle`, checked by TLC (`ImplementsLifecycle`) and proved
(`LifecycleImplemented`).

### Runs

| run | asks | bounds |
|---|---|---|
| `AccountImport_verified` | the verification gate and the inductive invariant; can a second discovery restart an import? | a FurAffinity or a Weasyl account (`OneAccount`), one submission, two workers, one redelivery; a Weasyl account is verified twice, so that two discoveries race, where no job was interrupted |
| `AccountImport_deviantart` | what can make an import lie or lose a submission; refinement; does every import settle? | two submissions and one redelivery of each job, fair workers: enough for a double count to reach the expected number, and to step over it |
| `AccountImport_requested` | *violated*: a verified account's import is requested | an interrupt between `verify` and the enqueue |

One account is enough: no statement of these handlers touches two accounts, what
they share is the queue and the workers, and the proofs hold for any number of
them.  Two workers are enough for every race of two handlers.
Symmetry over values that no action tells apart is used for safety only.  The
system may stop when the queue is empty, so deadlock is not checked.

Fairness (`FairSpec`) is weak fairness of each worker's whole loop: the Faktory
client runs for ever, always has the next statement to execute, and is not
starved by anything else.  Nothing is assumed of web requests, of failures, or of
which job a worker takes.

### What the violated property and the exceptions mean

* A verification interrupted between clearing the key and queueing the import
  leaves the account verified, its redelivery gives up because the key is gone,
  and the page offers no second verification (`_requested`).
* The count of loaded submissions is the length of an array to which each
  *delivery* appends.  A job interrupted after its append is counted again, so the
  count can reach the expected number with a submission missing ("Loading
  Complete" is then not true), or step over it without any job seeing equality:
  the import then shows as loading for ever.  Those are the exceptions for
  submissions counted twice in `CompleteUnlessDoubleCounted` and `ImportSettles`.

`CompleteUnlessDoubleCounted`, `ImportSettles` and `NothingLostSilently` say what
holds in spite of them.

### Proofs (`AccountImportProofs`)

`IInv` is the conjunction of what each handler relies on: which rows exist
together (`RowsInv`), what a job says about its account (`JobsInv`), where a worker
can be (`PlacesInv`), that whoever is past the gate is verified (`VerifiedInv`),
how far the queueing loop has got (`HandoverInv`), that what was counted was
expected (`LoadedInv`, `ReachedInv`), and `NothingLostSilently` itself.  None is
inductive alone: that no submission is lost needs the position in the loop, which
needs the discovery's kind, which needs the types of jobs.  `TypeCorrect`,
`InductiveInvariant`, `OnlyVerified`, `NothingLost`, `CompleteIsHonest` (a
pigeonhole argument on the pairs counted), `NotRestarted` and
`LifecycleImplemented` hold for any accounts, sites, workers, retry count and any
finite set of submissions, from `ConstantsAssumption` and `NoJobAssumption`.
`ImportSettles` stays with TLC: liveness under fairness is out of the prover's
reach.

## Notifications and digests: `Notifications`

### State and actions

`freq` and `address` are the setting and the address of an owner; `incoming` and
`handling` are the NewSubmissionJobs that wait and run.  Each delivery makes one
event an owner (an event of a second delivery is another event), and `task` walks
it through `notify_found`: look the owner up, record the event, read the
settings, notify.  `seen` is what was read on the way, which the last step goes
by.  `pending` is the table of pending notifications as committed; `batch`,
`owner` and `locked` are what a CreateEmailDigestsJob read, whose transaction is
open and which rows it deleted; `digests` and `dead` are Faktory's digest jobs.
`recorded`, `noted`, `dropped` and `overlapped` are histories.

`RemoveItem` and `DeleteUser` are what other handlers do to these tables: the rows
of `user_event` and `pending_notification` refer to the item and to the owner with
ON DELETE CASCADE, so removing an item, merging it into another (`remove.sql` for
every merged item) or deleting the account takes them along (`gone`).  The cascade
waits for rows an open transaction has deleted.  From then on recording an event or
leaving a notification about the item fails, and a digest that names such an event
mails the rest of its list (`found`, what `UserEvent::resolve` returned).

`RemovePending` waits for rows another transaction deleted and then finds them
gone, as PostgreSQL's DELETE does, and `EnqueueDigest` still carries every id that
was read.  Errors the code logs and goes on after (recording, mailing, queueing a
digest) are choices of the action; errors it returns are `Interrupt...`.

### Runs

| run | asks | bounds |
|---|---|---|
| `Notifications_kept` | is a pending notification ever forgotten, does it arrive in a digest; who can be mailed twice without a fault? | two digest jobs, one redelivery (two events of one submission), one interruption anywhere, one change of the owner's (setting, address, item removed, account deleted); fair workers and schedule |
| `Notifications_unsubscribed` | *violated*: an owner who unsubscribed is not mailed | one setting read before the change suffices |

`DigestArrives` assumes weak fairness of a digest job's and a sender's next step
(`Create`, `Send`: a running worker goes on) and strong fairness of
`StartDigests` by any worker: the cron queues both kinds for ever, and as long as
one worker or another is free again and again, one of them is given each kind again
and again.  An owner who leaves the
digests keeps the rows (`ready.sql` joins the setting of the moment), which the
property allows for.

The start may have any setting and any state of the address, since owners chose
them before the first submission.

### Proofs (`NotificationsProofs`)

`PendingIsKept` says no noted event is forgotten, for any owners, submissions,
workers and interruptions; the ways out it names are an enqueue that failed and the
cascade.  By itself that is not inductive: a commit deletes rows
on the strength of an enqueue two steps before, and a sender acknowledges a job on
the strength of a mail one step before.  `CreatorInv` and `SenderInv` remember
those.

`EventsMailedOnce` says that an event is mailed twice only after an interruption or
an overlap of two digest jobs.  `OnePlace` is why: as long as neither happened, an
event is in one place.  Until its task is over nothing is left or sent
(`TaskFirst`); an open transaction has deleted all it read that is still there, and
no row of another (`Exclusive`); a row is in no digest until the transaction that deletes it has
queued one (`RowFirst`), which is what makes that digest the first; and no two
digests that wait or are being sent name one event (`OneDigest`).  `IInv` is
`CreatorInv`, `SenderInv`, `NothingForgotten` and, unless `faults` or `overlapped`
say otherwise, `OnePlace`; the run checks it.  Both theorems hold for any owners,
submissions, workers, retries and interruptions.

## The media library and its pictures: `MediaLibrary`

### State and actions

`rows`, `sha`, `links` and `attached` are what is committed of one owner's items;
`stored` is the bucket.  `work[w]` is an ingest between two of its statements,
`req[r]` a removal or a merge: the items still to do, which of them had a URL when
they were read (`had`), whose picture it erased, and, of its open transaction,
the links it moved and the rows it deleted.  A removal is the same walk with
nothing to merge into and without the transaction.  `merge` takes the ids as the
form sent them: one that is given twice is two items to it, so the oldest item,
given twice, is merged into itself (`again` in `StartMerge`).

Row locks are guards: `RowIsFree` and the conditions of `MoveLinks`, `InsertLink`
and `Attach` say which open transaction each statement waits for, and after the
wait the statement sees what was committed, as at READ COMMITTED.  Two merges that
wait for each other are one of the cases of `InterruptRequest`.  A foreign key or
the primary key of the links makes a merge fail after it has deleted the picture
(`MergeFails`).

The content and the thumbnail of an item are one picture; at most `MaxUnread`
files are none.  An id also stands for
`last_modified`.  A merge reads its items in one step.

### Runs

| run | asks | bounds |
|---|---|---|
| `MediaLibrary_merges` | the inductive invariant; can a merge lose where an item was posted? | three items and two requests: one merge moves links into an item the other is merging away, or is given an id twice; every file is a picture |
| `MediaLibrary_pictures` | which items lose pictures, which pictures their items, which items are not searched for; do the pictures of a deleted user go? | two ingests at a time and three in all, one request, the user's deletion (`UserMayLeave`), one fault, a fair purge |
| `MediaLibrary_grouped` | *violated*: one item a content | two ingests |

Content matters only by equality, so as many hashes as items are enough, and one
hash where only pictures matter.  Three items are the fewest for two merges that
meet: one moves links into an item that the other is merging away.  Fairness
(`FairSpec`) is that of the hourly PendingDeletionJob alone, with faults bounded:
S3 does not fail for ever.

The key that `delete_prefixed_object` deletes begins with the slash of the URL's
path, the key that was stored does not.  `SlashMatters` chooses between a store
that tells the two apart (nothing is ever deleted) and one that cleans its keys.
The runs use the second, the kinder one; `PictureAccounted`, `UserInv` and
`StepInv` are written for either.

### What the violated property and the exceptions mean

* Nothing stops two ingests from inserting one hash twice (`_grouped`); if both
  came from one submission, merging the two fails on the primary key of the links,
  after the picture of the younger one was deleted.
* A merge that was given the id of the oldest item twice deletes that item, with
  its picture and its links, and keeps none: `twice` collects the sources, the
  third exception in `SourceKept` beside removals and links that came `late`.
* `remove` deletes what it read; a picture that is uploaded and not yet attached at
  that moment is on no list and stays in the bucket.  The same window is open to
  `User::delete`: it is what `leaked` collects, the exception in
  `PictureAccounted`.

`PictureShown`, `PictureAccounted`, `SourceKept` and `NewItemSearched` say what
holds in spite of them, naming each window.

### Proofs (`MediaLibraryProofs`)

None of the four is inductive alone, so `IInv` joins them with what the code
relies on: whoever makes a new item is alone with it (`FreshInv`), a picture about
to be attached is in the bucket (`UploadInv`), nothing is listed for deletion while
the user exists (`UserInv`), how far a request is and that what it erased goes with
its row (`StepInv`), and that a link of an item whose links were moved was moved
too or came late, to an item that stays, unless the links were its own
(`MoveInv`).  `FreshInv` and `UploadInv` are
why `Attach` cannot show a picture that is gone; `StepInv` why only a failed request
can leave an item without; `MoveInv`, which rests on the row locks, why the commit
of a merge forgets nothing.  TLC checks `IInv` in the run of the merges; the theorems
hold for any contents, submissions, workers, requests and bounds, for a user who
may or may not leave and for either kind of store, from `ConstantsAssumption`.
`DoomedGoes` is liveness and stays with TLC.

## OAuth credentials: `CredentialRefresh`, `GrantStore`

### State and actions

A credential is the number of the token pair the site issued.  `row` is the pair
in `linked_account.data`, `lock` the holder of its row lock, `live` the refresh
tokens the site still accepts, `expired` how far the clock has got.  `call[c]` is
one run of `refresh_credentials`: `Load` and `Begin` are the read without a lock
and the start of the transaction, `LookupForUpdate` the `SELECT ... FOR UPDATE` and
the read that goes with it, `UseCurrent` the recheck, `Exchange` and `Save` the
request to the site and the update with its commit.  `visit[v]` is the pair an OAuth callback holds;
Patreon's callback creates the account with it (`CreateAccount`, after which `v` is
in `created`), asks for the webhooks, and then saves it a second time together with
the webhook, whatever the row has by then (`StoreAgain`, which waits for the row lock
as any update does).  `Fail` is any error and the death of the worker, after which
PostgreSQL rolls back; `lost` records a token that was spent and whose successor
went with the transaction, `stale` one that was spent and is stored again.

The three closures the function is given differ by site: Patreon's `extract_fn`
returns the refresh token where the access token belongs (`ExtractPatreon`), which
is why `BearerIsAccess` is stated for DeviantArt only.

`GrantStore` is the abstract specification: a stored token that moves together
with the site in one step, or is lost, or is put back by the visit that created the
account (its `again`, the pairs of `created`).  The mapping hides a refresh in flight: its
new token does not exist yet and the old one is still live until it is saved.

### Runs

| run | asks | bounds |
|---|---|---|
| `Sites_refreshed`, part `credential` | is a refresh token spent twice; is a DeviantArt job given an access token; refinement; does a waiter get the lock? | two jobs, two callbacks, three pairs, either site: a link and two refreshes, or a link, a refresh and one more link, can meet, and a refresh fits between the two writes of one callback |
| `Sites_refreshed`, part `posts` | see Bluesky below | |

`Fairness`: a running call goes on (`WF` of `Refreshing`), and PostgreSQL hands a
row lock to its waiters in the order they came, so a caller that could have the
lock again and again gets it (`SF` of `LookupForUpdate`).  Nothing is assumed of
the site, of callbacks or of failures.

### Proofs of the credential (`SiteFeedsProofs`)

`StoredTokenLive` is the property: the refresh token in the row is one the site
accepts, unless it is being exchanged by the holder of the lock, a refresh failed
half way, or the callback that created a Patreon account put its pair back.  It is not inductive alone.  `IInv` adds who holds the lock and that the
holder sees the row as it is (`LockHeld`), that a pair about to be saved is live and
is the successor of the stored one (`NewIsLive`), that the pair in a callback's hands
is no other's and, unless it is the one it created the account with, has been neither
stored nor spent (`VisitsApart`), and that a lost token is
not live (`LostIsSpent`).  `Invariant`, `TypeCorrect`, `StoredLive`,
`DeviantArtBearer` and `Refinement` (every step is a step of `GrantStore` or a
stutter) hold for any callers, visits and number of pairs, from the three
assumptions on the constants.  `CallsEnd` is liveness and stays with TLC.

## Bluesky posts: `BlueskyIngest`

`messages` are the commits JetStream has not had acknowledged, `ingest` the one
`ingest_bsky` handles, `jobs` and `work` the `load_bluesky_post` jobs and their open
transactions; `row` and `images` are as committed.  An insert of a post keeps
others off its key until the transaction ends (`Locked`), and then they see what
was committed: `DeletePost`, an upsert, and `InsertPost`, which does nothing if the
row exists, wait there.  A submission is queued inside the transaction, before its
commit (`LoadImage`).

`Sites_refreshed` (part `posts`) checks that a deleted post stays hidden although
its load may come after the deletion, run twice or start over
(`DeletedIsHidden`), that a stored post is whole and its images submitted
(`StoredIsSubmitted`), once unless a load failed half way, and that every post
arrives (`PostsArrive`).  One post with two images, two workers and four faults:
posts share only the ingester and the workers, and no step touches two of them;
four faults are, say, a redelivery out of order, a failed delete, a failed load and
an ingester that stops.  A delete that fails is logged and acknowledged (`lost`, in
`SiteFeeds` `forgotten`, the exception).

`ingest_bsky` is one task, spawned at start: the first error of its stream ends it,
an acknowledgement or refusal of a create that fails makes it panic, and nothing
starts it again while the process lives (`StopIngest`, `StartIngest`).  So fairness
is weak fairness of the ingester's steps *until it stops*, and of each worker, whose
loop takes the next job; nothing is assumed of `StartIngest`.  `PostsArrive`
therefore names two ways for a post not to arrive: a load that Faktory gave up
(`dead`: retries used up, or an error `should_retry` refuses), and messages still
unread when the ingester stops for good.

### Proofs of the posts (`SiteFeedsProofs`)

`DeletedHidden` and `StoredSubmitted` (with `SubmittedOnce`) hold for any posts,
workers and faults and any number of images (`Images \in Nat`, the one hypothesis).  None of
the properties is inductive alone.  `IInv` adds that an open transaction is the only
one of its post and that the row it inserted is not there for others (`LockInv`);
that a delete about to be acknowledged is done or lost, and one that is not
acknowledged is still among the messages (`DeleteInv`, from which `DeletedIsHidden`
follows); that a transaction has passed over, or saved and submitted, every image
before its `next` (`BatchInv`), which is what a commit makes visible; and that an
image is submitted only behind a transaction that is open, committed or rolled back
(`SubmittedInv`), so that a second submission finds `again`.  The proofs treat the
ingester, which leaves the transactions alone, and the load apart.
`PostsArrive` is liveness and stays with TLC.

## Watched sites: `FListRuns`, `RedditWatch`, `ImageLoaders`

* `FListRuns` is `collect_gallery_images`: `open`, `done`, `gone` are the
  `flist_import_run` rows, `coll[c]` a collector between two statements, `files`
  what is known of each image.  The schedule starts collectors whatever the others
  do; a run 30 minutes old is taken over (`Resume`) even if its collector still
  works (`Age`, a fault then), an administrator may abort one at any time.
  `NothingOutOfReach`: each image of the gallery has its job queued, or a run that
  starts from the recorded `max_id` comes to it.  Three exceptions, `Exact`: a
  gallery that lost an image while a collector was between two pages (offsets
  shift); a page after a run's first that was refused; and more than two runs taken
  over.  The client does not look at the status of a page, so an error page, a
  redirect to the sign-in or an offset past 10,000 passes for the end of the gallery
  and completes the run (`RefusedPage`): on the first page nothing is recorded that
  was not recorded before, on a later one the newest image is recorded over images
  nobody read.  `start` records `max_id + 1`, a
  take-over goes on from that value: each run that dies moves the recorded
  position one above what was seen.  Two such steps do no harm, whatever the size
  of a page, because a page ends a run only when it reaches *below* the previous
  position; a third can end a run above an image nobody queued.  (A larger page
  does not help: the proof of a bound that grows with the page fails, and TLC then
  finds the behaviour with pages of two, six images and three faults.)
* `RedditWatch` is `check_subreddits` and `update_subreddit`: `position` and
  `recent` are the subreddit's row, `upd[u]` an update between two statements,
  `queued`, `stored`, `dead` what became of a post.  `NothingPassedOver` is the same
  promise for posts, without exception.  The query of `check_subreddits` adds the
  quarter of an hour where it should subtract it, so every subreddit is queued
  every time; `SkipRecent` in the job makes up for it.
* `ImageLoaders` is `hash_image` and `load_post`, for one image each: jobs that may
  be queued again by the next collector and delivered again.  `load_post` makes the
  row before the download, so a failure in between leaves a post that is never
  loaded again (`cut`); the `INSERT ... RETURNING` of the image lets one handler go
  on, so that it is submitted once, whereas two overlapping `hash_image` may both
  submit (`overlapped`).

`Watchers_collected` checks them with three images or posts in pages of two, so
that a run has two pages to die between and its last one is short; two workers; two
faults, a refused page being one (one fault in `RedditWatch`); two runs at a time; two files a url can answer with.  Safety only: symmetry over the
workers and the files is sound.

### Proofs (`WatchersProofs`)

`LoadedSubmitted`, `LoadedOnce` and `LoadedStored` hold for any files, posts,
workers, answers of a url and faults; the one hypothesis is that a file is not a
post.  `IInv` adds what a handler has behind it where it stands (`PlaceInv`); that
an image with a row was submitted, given up, or has the handler that made the row
(`ImageInv`), which is what a handler that finds the row leaves the submission to;
that this handler is alone and first (`InserterInv`); and the same of a file whose
handlers never overlapped (`FileInv`).  The runs check `StoredIsSubmitted` and
`SubmittedOnce`; `SubmittedIsStored` and the rest of `IInv` are proved only.

`PostsNotPassedOver` and `ImagesNotOutOfReach` hold for any number of posts and
images, any page size, collectors and updates, and faults, from `RedditConstants`
and `FListConstants`.  Neither property is inductive: it speaks of the page a later
run will come to.  What the code keeps is simpler.  `Covered(position)`: nothing
older than a recorded position is left to queue, which implies the property, since
a post that is left is not older and so no page before its own can end the update.
And `Sound(run)`, for each collector or update between two statements: the position
it started from is covered; what it came past between the newest image it saw
(`max`) and its current place is queued; what the page in its hands does not show is
newer or further down; and when it is about to record `max`, `max` is covered.  So
whoever records a position, however late, records one that is covered, and overlaps,
take-overs, aborts and older values saved over newer do no harm.  For F-list
everything is shifted by `taken`, the take-overs so far, and `RowInv` says it of the
runs left open too; a gallery that lost an image between two pages is an exception
because the offset no longer separates what was passed from what is to come, and a
refused page after the first because the run then records a `max` it did not come
down from.  The
arithmetic of ranks and pages is in lemmas of their own (what a page shows, that
ranks below an offset are those it passed, that the page of the `x`-th image begins
at `PageSize * (x \div PageSize)`).

## Twitter: `TwitterAccount`, `TwitterArchive`

`TwitterAccount`: the account's `data` is one document that the callback, the first
import, the updates and the archive request each read, change in one field and
write back whole; `work[h].seen` is what a handler read.  The import saves
`newest_id` first (`SaveFirst`), then inserts the account's one import row
(`StartImport`, an INSERT that no delivery can repeat) and then queues tweet by tweet
(`QueueOne`).  `NothingSkipped` says no tweet below `newest_id` is passed over however
handlers mix, with one exception, `stuck`: an import that came again after it had
inserted the row (`ImportRefused`) saves a `newest_id` and can never queue what is
below it, and so does one that was given up.  `LostOnlyByOverlap` says that a saved
token or the archive mark disappears only if two handlers of the row overlapped (they
do lose it then: nothing locks the row).

`TwitterArchive`: `upload`, `rows`, `objects` are `chunk_add`, its table and S3;
`request` is `archive_post`; `load` is `load_archive`, which hands tweets to a task
through a channel of `Buffer` and does not wait for it: `sink` is what the task has,
`RemoveObjects` and `Complete` do not look at it.  `ChunksBounded`: the limit is
exceeded only by as many requests as asked for the size at once; the rows of loaded
archives are never deleted, so a user's allowance only shrinks.  `ImportingEnds`
(with `CompleteIsSaved`): an account does not stay at "importing" and a complete one
has its tweets, but for these windows.  `failed`: a job failed at its last delivery,
which `archive_post` invites, as it queues the job whatever was uploaded so far
(`ReadAccount` has no guard) and the job fails alike at every delivery when there are
no chunks, when one is gone from S3 (`ReadFails`), or when what they make is no whole
archive, a file of it is not as expected or the parser panics (`ParseFails`).
`late`: the request marks the account after its job has finished.  `dropped`: a
tweet that cannot be read out (`SkipTweet`) or saved (`SaveFails`) is logged and left;
the task panics on a picture it cannot store (`TaskPanics`, after which the parser it
served panics at its next tweet: `deaf`) or dies with its worker, and what it had yet
to save is gone.

## Bluesky and Patreon links: `BlueskyLink`, `PatreonCampaign`

`BlueskyLink` is `auth_verify` and `add_account`: the session that stands for the
user's password is kept in the account for the import and then taken out.  The import
inserts its row (`StartImport`) and queues post by post (`QueueSubmission`) before it
drops the session; interrupted in between, it is refused the row at every further
delivery (`ImportRefused`) until its retries end.  `ImportStillComes`: the submissions
of a linked account are all queued, or an import is to come; its session then goes
(`SessionIsDropped`, proved).  The exceptions are named: signing in again overwrites
the session with none although the first import has not read it, and the import then
fails for good (`undone`; also a request that stopped between the row and the
enqueue, which a second sign-in does not repair), and an import given up at its last
delivery (`dead`), which leaves the session where it is.

`PatreonCampaign` is the OAuth callback with its webhook, `webhook_post`, refresh
and removal; `hooks` is what Patreon has.  `LastLinkReceives` (with
`OneWebhookAlone`): the events of the campaign are accepted by the account linked
last and the campaign has one webhook, unless callbacks overlapped or one died
between listing the webhooks and saving (`dirty`), which nothing repairs but the
next link that runs alone.

### Proofs (`LinksProofs`)

**Bluesky.** `ImportComes` and `SessionGoes` hold for any visits, workers and
faults, without a hypothesis.  `IInv` adds that a job and its runs are of an account
that is there, and have queued its submissions once they are past that step
(`JobInv`), and that an account without a session has been imported or was signed in
to again, which a run that found no session implies too (`SessionInv`).

**Twitter accounts.** `AccountNothingSkipped` and `AccountLostOnlyByOverlap`, from
`AccountConstants`.  What is saved was read earlier, so the invariant is about what
handlers hold: `WritesCovered`, whatever a handler may write as `newest_id` is
queued or will be by an import (a document read long ago included, as what is
covered stays covered while no import is stuck), and `WritesAlone`, without an overlap one handler at most
is between its read and its write and holds what the row holds.  `Numbered` bounds
what they hold: rows are numbered upwards, and nothing newer than the newest tweet
was read.

**Archives.** `ArchiveChunksBounded` and `ArchiveImportEnds`, from
`ArchiveConstants`.  For the limit: as many uploads as run in parallel have passed
the check, and each adds one row (`RowFirst`).  For the import: `HandedOver`, a
tweet the parser is past was saved, is with the task, or was dropped and counted as
such, from the parsing to the mark that the account is complete; a job that fails is
pending again or has failed for good (`ArchiveRedelivered`).

**Patreon.** `CampaignLastLinkReceives`, from `CampaignConstants`.  `AloneKnows`: a
callback that has been alone since it read the row knows the row's webhook, and the
webhook it found or made is the only one and names its account.  `CleanAlone`: while
nothing happened to the webhooks every callback is alone, and until one lists them
the account linked last still receives the events.  `HaveAccount` says where a
callback has what.

### Runs

`Links_imported` checks these four: two handlers, two tweets, tokens and rows; three
chunks of one archive, a limit of one chunk and two uploads at once, so that the
limit is passed, and two archive requests; three sign-ins and two posts, so that an
import can stop between them; three callbacks of two
users with three webhooks, one callback more than can overlap, to repair.  Faults:
one (two sign-ins or imports may fail in `BlueskyLink`), any number of deaths in
`PatreonCampaign`; a failed read, a failed save, a failed request and a dead worker
are each a window of their own in `TwitterArchive`, and the theorem covers any
number of them together.  Symmetry is over values no
action tells apart.

## Users: `UserSessions`, `UserEmail`

`UserSessions`: `live` are the session rows, `cookie`, `request` and `socket` a
browser's; all ways to sign in end in the same `UserSession::create`.  A request
checks its session first and goes by that (`own`) to its end.  `stream`, `channel`
and `fed` are NATS, the channel of 32 and the task between them: `Forward` ends the
task when the channel is full, and the socket stops once it has drained
(`Drained`).  `SessionsKept`: an open socket's session is live or its end is about
to reach it, and the session page never leaves a user without a session.
`EndedSocketCloses`: every socket whose session ended closes.  Exceptions: nobody
is told of sessions that expire, that go with their user, or whose event NATS
refused (`silent`), nor a socket that was still connecting (`late`); two removals
may remove each other's session, and a logout, an expiry or a deletion leaves none
(`left`).  Fairness is that of the server: it
finishes the request it has begun, one of a socket's actor and task goes on while
either can, and clients answer the close frame; nothing is assumed of users.

`UserEmail`: the address, its verifier and the reset token, the requests that set
them and the jobs that mail them.  `AddressIsProven`: an address counts as verified
only if it was itself mailed the verifier that verified it; `TokenIsMailed`: a token
in the row is mailed, or on its way, unless that very token is one nobody will try
again (`lost`): its request stopped before the enqueue, or a job that had read it was
given up.  A mail job that fails is delivered again until its retries run out or the
error is one `should_retry` refuses (`GiveUp`); `POST /user/settings` stores any
string, and an address that does not parse (`Unparsed`) fails every delivery
(`ParseFails`, which needs no fault) until the job is given up; a mail whose job was
not acknowledged is sent twice.  What SMTP does with a mail it took, and the deletion
of the user (which takes the row and its tokens along), are left out.
`ResetWorksOnce`: a token sets one password, unless two requests compared
it before either used it (`crossed`).

`Users_served` checks both: two browsers, two sessions, one socket (a socket changes
neither a session nor another socket), a channel that is full after two events
(`Buffer` 1: one of 32 fills in the same way later) and two events of another kind
to fill it; three addresses, of which one does not parse and one may be taken by another user
(`OthersTake`), two handlers, two tokens of each kind; one fault each.

### Proofs (`UsersProofs`)

`AddressProven`, `TokenMailed` and `ResetOnce` hold for any addresses, parsed or not,
and handlers and any number of tokens and faults, from `MaxToken \in Nat` and
`None \notin Address`.  `IInv` adds that mails, and handlers about to
send one, carry a token that was made and an address (`MailInv`); that the verifier
now in the row was mailed to no address but the row's (`VerifierInv`: a new address
takes a new verifier in the same statement, so an older mail cannot verify it); and
that the reset token in the row is the newest and unused unless requests crossed
(`ResetInv`).

`SessionsAreKept` holds for any browsers, sessions, events, faults and size of the
channel (`SessionBounds`).  `SocketHasSession` needs what was true while the socket
connected: `ConnectingInTime`, the end of its session was not published before it
subscribed, or it is counted as `late`; from then on the end is in the stream, in
the channel, or the task that moves it was cut off.  `Named` says that a checked
request and a socket each belong to a session.

## Findings in words

The findings of `PROJECT.json` have runs that show them.  Three more that no state
machine is needed for: a Patreon credential that has not expired yields its refresh
token as the bearer (patreon.rs 72); the settings page says an address was removed when the field
is emptied, but changes nothing (user.rs 236); and `twitter_auth` refers to the user
without `ON DELETE CASCADE`, so that `User::delete` fails for a user who began to link
Twitter.

## Not modelled

* The content of pages, images and hashes: what a file holds is a member of a small
  set, and a page lists what the site has, fails, or (F-list) yields no items.
* `job_manual` (admin.rs), by which an administrator queues any job with any
  arguments: no invariant survives that, by design.
* Two handlers of one job at once after its reservation expired: the first is
  taken as dead when the second starts.
* `import_submission` of Bluesky and Twitter, one ingest of `MediaLibrary` each;
  Patreon's `add_account`, which only marks the import complete.
* The DeviantArt watch jobs (feeds of every account read with its credential),
  `MigrateStorageJob`, the removal of one linked account's links from the library.
* The resolution of Bluesky identities before a sign-in.
* How a user is authenticated: password hashes, the Telegram signature and the
  passkey ceremony are the one choice `SignIn` makes.  Telegram messages.
* Presentation, feeds, configuration, and single-statement settings.
