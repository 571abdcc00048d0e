---------------------------- MODULE AccountImport ----------------------------
(***************************************************************************)
(* Linking an account on an art site and importing everything it already   *)
(* posted: the web handlers that create, verify and remove the link, the   *)
(* four background jobs that verify the account, discover its submissions  *)
(* and load each of them, and the linked_account_import row by which the   *)
(* jobs agree on when the import is complete.                              *)
(*                                                                         *)
(* Jobs live in Faktory, which delivers at least once: a handler that      *)
(* fails, or whose worker dies, is delivered again from its first line     *)
(* with the attempt number raised, until MaxRetry redeliveries are used up *)
(* and the job goes to the dead set.  One action is one database statement *)
(* (or transaction), one enqueue, or one acknowledgement.                  *)
(***************************************************************************)
EXTENDS Naturals, FiniteSets

CONSTANTS
    Account,            \* the ids linked_account rows get; never reused
    Site,               \* Account -> the site the account is on
    Sub,                \* submissions the sites can list
    NoSub,              \* the submission field of a job that has none
    Worker,             \* concurrent job handlers
    NoJob,              \* what an idle worker holds
    MaxRetry,           \* redeliveries before Faktory gives a job up
    MaxClicks,          \* bound: verification requests per account
    SkipVerifications   \* the skip_verifications configuration flag

VARIABLES
    linked,     \* accounts with a linked_account row
    removed,    \* accounts whose row was deleted
    verified,   \* rows whose verification_key is NULL
    loading,    \* the loading_state column
    started,    \* accounts with a linked_account_import row
    expected,   \* its expected_ids
    loaded,     \* its loaded_ids: one element for each append
    completed,  \* rows with a completed_at
    clicks,     \* verification requests made (bounded by MaxClicks)
    callback,   \* OAuth callbacks between their INSERT and their enqueue
    closing,    \* admin completions between their two updates
    queue,      \* Faktory: how many of each job are waiting
    dead,       \* Faktory: jobs it will not deliver again
    pc,         \* where each worker is in its handler
    job,        \* the job it handles
    todo,       \* discovered submissions it has not queued yet
    requested,  \* history: accounts an AddAccountJob was queued for
    foundEmpty, \* history: accounts some discovery found nothing for
    overridden  \* history: imports an administrator marked complete

rows    == <<linked, removed, verified, loading>>
imports == <<started, expected, loaded, completed>>
web     == <<clicks, callback, closing>>
faktory == <<queue, dead>>
workers == <<pc, job, todo>>
history == <<requested, foundEmpty, overridden>>
vars    == <<rows, imports, web, faktory, workers, history>>

Sites == {"FurAffinity", "Weasyl", "DeviantArt"}

ASSUME ConstantsAssumption ==
    /\ Site \in [Account -> Sites]
    /\ IsFiniteSet(Sub)
    /\ NoSub \notin Sub
    /\ MaxRetry \in Nat
    /\ MaxClicks \in Nat
    /\ SkipVerifications \in BOOLEAN

Attempt      == 0 .. MaxRetry
LoadingState == {"Unknown", "DiscoveringItems", "LoadingItems", "Complete"}
Kind         == {"VerifyAccount", "AddAccount", "DiscoverFurAffinity", "AddSubmission"}
Job          == {j \in [kind: Kind, account: Account, sub: Sub \cup {NoSub}, attempt: Attempt] :
                    j.kind = "AddSubmission" <=> j.sub \in Sub}

ASSUME NoJobAssumption == NoJob \notin Job

Label == {"idle", "start", "profile", "enqueue_add", "enqueue_discover", "discover",
          "set_loading", "queue", "progress", "complete", "set_complete", "done"}

MakeJob(kind, a, s, n) == [kind |-> kind, account |-> a, sub |-> s, attempt |-> n]
AccountJob(kind, a) == MakeJob(kind, a, NoSub, 0)
SubmissionJob(a, s) == MakeJob("AddSubmission", a, s, 0)
Redelivery(j) == MakeJob(j.kind, j.account, j.sub, j.attempt + 1)

\* The job that lists the submissions of an account: FurAffinity has one of
\* its own, the other sites discover inside AddAccountJob.
Discoverer(a) == IF Site[a] = "FurAffinity" THEN "DiscoverFurAffinity" ELSE "AddAccount"

Init ==
    /\ linked = {} /\ removed = {} /\ verified = {}
    /\ loading = [a \in Account |-> "Unknown"]
    /\ started = {} /\ completed = {}
    /\ expected = [a \in Account |-> {}]
    /\ loaded = [a \in Account |-> {}]
    /\ clicks = [a \in Account |-> 0]
    /\ callback = {} /\ closing = {}
    /\ queue = [j \in Job |-> 0]
    /\ dead = {}
    /\ pc = [w \in Worker |-> "idle"]
    /\ job = [w \in Worker |-> NoJob]
    /\ todo = [w \in Worker |-> {}]
    /\ requested = {} /\ foundEmpty = {} /\ overridden = {}

Enqueue(j) == queue' = [queue EXCEPT ![j] = @ + 1]

\* update_loading_state: an UPDATE that changes nothing when the row is gone.
SetLoading(a, state) ==
    loading' = IF a \in linked THEN [loading EXCEPT ![a] = state] ELSE loading

-----------------------------------------------------------------------------
(* Web handlers.                                                           *)

\* POST /user/account/link for a site checked by a token on the profile.
LinkWithToken(a) ==
    /\ a \notin linked \cup removed
    /\ Site[a] # "DeviantArt"
    /\ linked' = linked \cup {a}
    /\ UNCHANGED <<removed, verified, loading, imports, web, faktory, workers, history>>

\* The OAuth callback: the row is created verified, and then, in a second
\* step, the job that imports it is queued.
CallbackCreate(a) ==
    /\ a \notin linked \cup removed
    /\ Site[a] = "DeviantArt"
    /\ linked' = linked \cup {a}
    /\ verified' = verified \cup {a}
    /\ callback' = callback \cup {a}
    /\ UNCHANGED <<removed, loading, imports, clicks, closing, faktory, workers, history>>

CallbackEnqueue(a) ==
    /\ a \in callback
    /\ callback' = callback \ {a}
    /\ Enqueue(AccountJob("AddAccount", a))
    /\ requested' = requested \cup {a}
    /\ UNCHANGED <<rows, imports, clicks, closing, dead, workers, foundEmpty, overridden>>

\* The enqueue fails or the server stops: nothing undoes the INSERT.
CallbackFail(a) ==
    /\ a \in callback
    /\ callback' = callback \ {a}
    /\ UNCHANGED <<rows, imports, clicks, closing, faktory, workers, history>>

\* POST /user/account/verify
RequestVerify(a) ==
    /\ a \in linked
    /\ clicks[a] < MaxClicks
    /\ clicks' = [clicks EXCEPT ![a] = @ + 1]
    /\ Enqueue(AccountJob("VerifyAccount", a))
    /\ UNCHANGED <<rows, imports, callback, closing, dead, workers, history>>

\* Variant for mutation: the foreign key of the import row does not cascade.
RemoveKeepingImport(a) ==
    /\ a \in linked
    /\ linked' = linked \ {a}
    /\ removed' = removed \cup {a}
    /\ verified' = verified \ {a}
    /\ loading' = [loading EXCEPT ![a] = "Unknown"]
    /\ UNCHANGED <<imports, web, faktory, workers, history>>

\* POST /user/account/remove: the DELETE cascades to the import row.
Remove(a) ==
    /\ a \in linked
    /\ linked' = linked \ {a}
    /\ removed' = removed \cup {a}
    /\ verified' = verified \ {a}
    /\ loading' = [loading EXCEPT ![a] = "Unknown"]
    /\ started' = started \ {a}
    /\ expected' = [expected EXCEPT ![a] = {}]
    /\ loaded' = [loaded EXCEPT ![a] = {}]
    /\ completed' = completed \ {a}
    /\ UNCHANGED <<web, faktory, workers, history>>

\* POST /admin/imports/{id}/complete, two UPDATEs.
AdminComplete(a) ==
    /\ a \in started
    /\ completed' = completed \cup {a}
    /\ overridden' = overridden \cup {a}
    /\ closing' = closing \cup {a}
    /\ UNCHANGED <<rows, started, expected, loaded, clicks, callback, faktory, workers,
                   requested, foundEmpty>>

AdminSetState(a) ==
    /\ a \in closing
    /\ closing' = closing \ {a}
    /\ SetLoading(a, "Complete")
    /\ UNCHANGED <<linked, removed, verified, imports, clicks, callback, faktory, workers,
                   history>>

-----------------------------------------------------------------------------
(* Delivery.                                                               *)

Goto(w, label) == pc' = [pc EXCEPT ![w] = label]
At(w, kind, label) == pc[w] = label /\ job[w].kind = kind

Leave(w) ==
    /\ pc' = [pc EXCEPT ![w] = "idle"]
    /\ job' = [job EXCEPT ![w] = NoJob]
    /\ todo' = [todo EXCEPT ![w] = {}]

\* A worker fetches a job.
Take(w) ==
    /\ pc[w] = "idle"
    /\ \E j \in Job :
        /\ queue[j] > 0
        /\ queue' = [queue EXCEPT ![j] = @ - 1]
        /\ job' = [job EXCEPT ![w] = j]
    /\ Goto(w, "start")
    /\ UNCHANGED <<rows, imports, web, dead, todo, history>>

\* The handler returned Ok and the worker acknowledges.
Ack(w) ==
    /\ pc[w] = "done"
    /\ Leave(w)
    /\ UNCHANGED <<rows, imports, web, faktory, history>>

\* What Faktory does with a job that failed with a retryable error, or whose
\* reservation ran out.
Return(j) ==
    IF j.attempt < MaxRetry
    THEN Enqueue(Redelivery(j)) /\ UNCHANGED dead
    ELSE dead' = dead \cup {j} /\ UNCHANGED queue

Retry(w) == Return(job[w]) /\ Leave(w)

\* An error should_retry refuses: Error::Missing.
GiveUp(w) == dead' = dead \cup {job[w]} /\ UNCHANGED queue /\ Leave(w)

\* A statement, an enqueue or a request to the site fails, or the worker
\* process dies, at any point of the handler, before it acknowledged.
Interrupt(w) ==
    /\ pc[w] # "idle"
    /\ Retry(w)
    /\ UNCHANGED <<rows, imports, web, history>>

-----------------------------------------------------------------------------
(* VerifyAccountJob.                                                       *)

VerifyLookup(w) ==
    /\ At(w, "VerifyAccount", "start")
    /\ IF job[w].account \in linked \ verified
       THEN Goto(w, "profile") /\ UNCHANGED <<faktory, job, todo>>
       ELSE GiveUp(w)
    /\ UNCHANGED <<rows, imports, web, history>>

\* The profile shows the key: LinkedAccount::verify clears it.
VerifyFound(w) ==
    /\ At(w, "VerifyAccount", "profile")
    /\ verified' = verified \cup ({job[w].account} \cap linked)
    /\ Goto(w, "enqueue_add")
    /\ UNCHANGED <<linked, removed, loading, imports, web, faktory, job, todo, history>>

\* Variant for mutation: the import is queued whatever the profile shows.
VerifyIgnored(w) ==
    /\ At(w, "VerifyAccount", "profile")
    /\ Goto(w, "enqueue_add")
    /\ UNCHANGED <<rows, imports, web, faktory, job, todo, history>>

VerifyNotFound(w) ==
    /\ At(w, "VerifyAccount", "profile")
    /\ Goto(w, IF SkipVerifications THEN "enqueue_add" ELSE "done")
    /\ UNCHANGED <<rows, imports, web, faktory, job, todo, history>>

VerifyEnqueue(w) ==
    /\ At(w, "VerifyAccount", "enqueue_add")
    /\ Enqueue(AccountJob("AddAccount", job[w].account))
    /\ requested' = requested \cup {job[w].account}
    /\ Goto(w, "done")
    /\ UNCHANGED <<rows, imports, web, dead, job, todo, foundEmpty, overridden>>

-----------------------------------------------------------------------------
(* AddAccountJob and DiscoverFurAffinityJob.                               *)

AddAccountStart(w) ==
    /\ At(w, "AddAccount", "start")
    /\ IF job[w].account \in linked
       THEN /\ SetLoading(job[w].account, "DiscoveringItems")
            /\ Goto(w, IF Discoverer(job[w].account) = "AddAccount"
                       THEN "discover" ELSE "enqueue_discover")
            /\ UNCHANGED <<faktory, job, todo>>
       ELSE GiveUp(w) /\ UNCHANGED loading
    /\ UNCHANGED <<linked, removed, verified, imports, web, history>>

AddAccountFurAffinity(w) ==
    /\ At(w, "AddAccount", "enqueue_discover")
    /\ Enqueue(AccountJob("DiscoverFurAffinity", job[w].account))
    /\ Goto(w, "done")
    /\ UNCHANGED <<rows, imports, web, dead, job, todo, history>>

DiscoverLookup(w) ==
    /\ At(w, "DiscoverFurAffinity", "start")
    /\ IF job[w].account \in linked
       THEN Goto(w, "discover") /\ UNCHANGED <<faktory, job, todo>>
       ELSE GiveUp(w)
    /\ UNCHANGED <<rows, imports, web, history>>

\* The site lists no submission: set_loading_submissions with no ids.
DiscoverNothing(w) ==
    LET a == job[w].account IN
    /\ pc[w] = "discover"
    /\ SetLoading(a, "Complete")
    /\ foundEmpty' = foundEmpty \cup {a}
    /\ Goto(w, "done")
    /\ UNCHANGED <<linked, removed, verified, imports, web, faktory, job, todo,
                   requested, overridden>>

\* Variant for mutation: the INSERT is an upsert.
CanRestart(a) == a \in linked

\* LinkedAccountImport::start is a plain INSERT: the foreign key refuses an
\* account that is gone, the primary key a second import of the same account.
CanStart(a) == a \in linked /\ a \notin started

StartImport(w) ==
    LET a == job[w].account IN
    /\ pc[w] = "discover"
    /\ \E ids \in SUBSET Sub \ {{}} :
        IF CanStart(a)
        THEN /\ started' = started \cup {a}
             /\ expected' = [expected EXCEPT ![a] = ids]
             /\ loaded' = [loaded EXCEPT ![a] = {}]
             /\ completed' = completed \ {a}
             /\ todo' = [todo EXCEPT ![w] = ids]
             /\ Goto(w, "set_loading")
             /\ UNCHANGED <<faktory, job>>
        ELSE Retry(w) /\ UNCHANGED imports
    /\ UNCHANGED <<rows, web, history>>

SetLoadingItems(w) ==
    /\ pc[w] = "set_loading"
    /\ SetLoading(job[w].account, "LoadingItems")
    /\ Goto(w, "queue")
    /\ UNCHANGED <<linked, removed, verified, imports, web, faktory, job, todo, history>>

\* Variant for mutation: a failed enqueue is logged and the loop goes on.
QueueSubmissionOrSkip(w) ==
    /\ pc[w] = "queue"
    /\ \E s \in todo[w] :
        /\ Enqueue(SubmissionJob(job[w].account, s)) \/ UNCHANGED queue
        /\ todo' = [todo EXCEPT ![w] = @ \ {s}]
    /\ UNCHANGED <<rows, imports, web, dead, pc, job, history>>

\* One turn of the loop of queue_new_submissions.
QueueSubmission(w) ==
    /\ pc[w] = "queue"
    /\ \E s \in todo[w] :
        /\ Enqueue(SubmissionJob(job[w].account, s))
        /\ todo' = [todo EXCEPT ![w] = @ \ {s}]
    /\ UNCHANGED <<rows, imports, web, dead, pc, job, history>>

\* Variant for mutation: the job finishes with submissions still to queue.
QueueStops(w) ==
    /\ pc[w] = "queue"
    /\ Goto(w, "done")
    /\ UNCHANGED <<rows, imports, web, faktory, job, todo, history>>

QueueDone(w) ==
    /\ pc[w] = "queue"
    /\ todo[w] = {}
    /\ Goto(w, "done")
    /\ UNCHANGED <<rows, imports, web, faktory, job, todo, history>>

-----------------------------------------------------------------------------
(* The job that loads one submission, and update_import_progress.          *)

\* process_submission returned, Ok or Missing; other errors are Interrupt.
ProcessSubmission(w) ==
    /\ At(w, "AddSubmission", "start")
    /\ Goto(w, "progress")
    /\ UNCHANGED <<rows, imports, web, faktory, job, todo, history>>

\* Variants for mutation: the comparison is off by one, either way.
AllButOneLoaded(a, ids) == Cardinality(ids) + 1 = Cardinality(expected[a])
MoreThanAllLoaded(a, ids) == Cardinality(ids) = Cardinality(expected[a]) + 1

\* The comparison update_import_progress makes with what the UPDATE returned.
AllLoaded(a, ids) == Cardinality(ids) = Cardinality(expected[a])

\* array_append RETURNING the count, and the comparison the handler makes
\* with it.  Without a row fetch_one fails and the job is retried.
RecordLoaded(w) ==
    LET a == job[w].account
        ids == loaded[a] \cup {<<job[w].sub, job[w].attempt>>} IN
    /\ pc[w] = "progress"
    /\ IF a \in started
       THEN /\ loaded' = [loaded EXCEPT ![a] = ids]
            /\ Goto(w, IF AllLoaded(a, ids) THEN "complete" ELSE "done")
            /\ UNCHANGED <<faktory, job, todo>>
       ELSE Retry(w) /\ UNCHANGED loaded
    /\ UNCHANGED <<rows, started, expected, completed, web, history>>

MarkComplete(w) ==
    /\ pc[w] = "complete"
    /\ completed' = completed \cup ({job[w].account} \cap started)
    /\ Goto(w, "set_complete")
    /\ UNCHANGED <<rows, started, expected, loaded, web, faktory, job, todo, history>>

SetComplete(w) ==
    /\ pc[w] = "set_complete"
    /\ SetLoading(job[w].account, "Complete")
    /\ Goto(w, "done")
    /\ UNCHANGED <<linked, removed, verified, imports, web, faktory, job, todo, history>>

-----------------------------------------------------------------------------
WebStep(a) ==
    \/ LinkWithToken(a)
    \/ CallbackCreate(a) \/ CallbackEnqueue(a) \/ CallbackFail(a)
    \/ RequestVerify(a)
    \/ Remove(a)
    \/ AdminComplete(a) \/ AdminSetState(a)

Verify(w) == VerifyLookup(w) \/ VerifyFound(w) \/ VerifyNotFound(w) \/ VerifyEnqueue(w)

Discover(w) ==
    \/ AddAccountStart(w) \/ AddAccountFurAffinity(w) \/ DiscoverLookup(w)
    \/ DiscoverNothing(w) \/ StartImport(w) \/ SetLoadingItems(w)
    \/ QueueSubmission(w) \/ QueueDone(w)

AddSubmission(w) ==
    ProcessSubmission(w) \/ RecordLoaded(w) \/ MarkComplete(w) \/ SetComplete(w)

\* What a worker does as long as nothing fails around it.
Work(w) == Take(w) \/ Ack(w) \/ Verify(w) \/ Discover(w) \/ AddSubmission(w)

Next ==
    \/ \E a \in Account : WebStep(a)
    \/ \E w \in Worker : Work(w) \/ Interrupt(w)

Spec == Init /\ [][Next]_vars

\* Workers keep running: the forge loop fetches and handles jobs for ever.
FairSpec == Spec /\ \A w \in Worker : WF_vars(Work(w))

-----------------------------------------------------------------------------
(* Properties.                                                             *)

TypeOK ==
    /\ linked \subseteq Account /\ removed \subseteq Account
    /\ verified \subseteq Account
    /\ loading \in [Account -> LoadingState]
    /\ started \subseteq Account /\ completed \subseteq Account
    /\ expected \in [Account -> SUBSET Sub]
    /\ loaded \in [Account -> SUBSET (Sub \X Attempt)]
    /\ clicks \in [Account -> 0 .. MaxClicks]
    /\ callback \subseteq Account /\ closing \subseteq Account
    /\ queue \in [Job -> Nat]
    /\ dead \subseteq Job
    /\ pc \in [Worker -> Label]
    /\ job \in [Worker -> Job \cup {NoJob}]
    /\ \A w \in Worker : pc[w] # "idle" =>
          /\ job[w] \in Job
          /\ pc[w] \in {"progress", "complete", "set_complete"} =>
                job[w].kind = "AddSubmission"
    /\ todo \in [Worker -> SUBSET Sub]
    /\ requested \subseteq Account /\ foundEmpty \subseteq Account
    /\ overridden \subseteq Account

\* A job of this kind, for this account and submission, waits, runs, or is in
\* the dead set, at whatever attempt.
Known(j) ==
    j \in Job /\ (queue[j] > 0 \/ j \in dead \/ \E w \in Worker : pc[w] # "idle" /\ job[w] = j)
Carried(kind, a, s) == \E n \in Attempt : Known(MakeJob(kind, a, s, n))

Counted(a, s) == \E n \in Attempt : <<s, n>> \in loaded[a]
CountedTwice(a, s) ==
    \E m, n \in Attempt : m # n /\ <<s, m>> \in loaded[a] /\ <<s, n>> \in loaded[a]

Accounted(a, s) == Counted(a, s) \/ Carried("AddSubmission", a, s)
DiscoveryKnown(a) == Carried(Discoverer(a), a, NoSub)

\* Nothing of an account is imported before its owner proved that it is
\* theirs: an import row, and every AddAccount, Discover and AddSubmission job
\* Faktory holds or has given up, belongs to a verified account (or to one
\* that was removed since).  It is what the key in VerifyAccountJob is for.
ImportOnlyVerified ==
    ~SkipVerifications =>
        /\ started \subseteq verified
        /\ \A kind \in Kind \ {"VerifyAccount"}, a \in Account, s \in Sub \cup {NoSub} :
            Carried(kind, a, s) => a \in verified \cup removed

\* No submission of a running import vanishes without a trace: each one is
\* counted, or its own job is waiting, running or in the dead set, or the job
\* that should have queued it still is (it died halfway through the loop of
\* queue_new_submissions).  The one exception is a discovery that was
\* delivered again and then found an empty gallery.
NothingLostSilently ==
    \A a \in started \ foundEmpty : \A s \in expected[a] :
        Accounted(a, s) \/ DiscoveryKnown(a)

\* update_import_progress marks an import complete only when every expected
\* submission was counted, or because some submission was counted twice:
\* double counting is the only way the count can lie.
CompleteUnlessDoubleCounted ==
    \A a \in completed \ overridden :
        \/ \A s \in expected[a] : Counted(a, s)
        \/ \E s \in expected[a] : CountedTwice(a, s)

\* A second discovery (two verification requests, or a redelivered job) never
\* restarts a running import: as long as the row lives, the ids it expects
\* stay the same and what it counted stays counted.
ImportNotRestarted ==
    [][\A a \in started \cap started' :
          /\ expected'[a] = expected[a]
          /\ loaded[a] \subseteq loaded'[a]
          /\ a \in completed => a \in completed']_vars

\* Every import is settled: it becomes complete, or the account is removed,
\* or a job of it ends in the dead set, or a submission was counted twice, or
\* a later discovery found nothing.
GaveUp(a) == \E j \in dead : j.account = a /\ j.kind \in {Discoverer(a), "AddSubmission"}

Settled(a) ==
    \/ a \notin started \/ a \in completed \/ a \in foundEmpty \/ GaveUp(a)
    \/ \E s \in expected[a] : CountedTwice(a, s)

ImportSettles == \A a \in Account : (a \in started) ~> Settled(a)

\* An account that proved to be its owner's gets its submissions imported:
\* once the key is cleared, the AddAccountJob was queued or some step that
\* will queue it is still to come.
VerifiedIsRequested ==
    \A a \in verified :
        \/ a \in requested \cup callback
        \/ \E w \in Worker : pc[w] = "enqueue_add" /\ job[w].account = a

-----------------------------------------------------------------------------
(* What all this implements: the lifecycle of a linked account.            *)

Phase(a) ==
    CASE a \in removed -> "gone"
      [] a \in completed -> "complete"
      [] a \in started \ completed -> "importing"
      [] a \in verified \ started -> "verified"
      [] a \in linked \ (verified \cup started) -> "linked"
      [] OTHER -> "absent"

Doubted(a) == a \in overridden \/ \E s \in Sub : CountedTwice(a, s)

Lifecycle == INSTANCE ImportLifecycle WITH
    Gate    <- ~SkipVerifications,
    phase   <- [a \in Account |-> Phase(a)],
    wanted  <- expected,
    counted <- [a \in Account |-> {s \in Sub : Counted(a, s)}],
    doubt   <- {a \in started : Doubted(a)}

\* Handlers, jobs, redeliveries and administrators together do nothing to an
\* account that its lifecycle does not allow.
ImplementsLifecycle == Lifecycle!Spec

-----------------------------------------------------------------------------
(* The inductive invariant behind the safety properties.                   *)

\* Rows hang together as the foreign keys and the DELETE keep them, and a
\* removed account stays removed.
RowsInv ==
    /\ linked \cap removed = {}
    /\ verified \subseteq linked /\ started \subseteq linked
    /\ completed \subseteq started
    /\ callback \subseteq verified \cup removed
    /\ overridden \subseteq started \cup removed
    /\ \A a \in Account \ started : loaded[a] = {}

\* What a job Faktory knows says about its account.
JobsInv ==
    \A kind \in Kind, a \in Account, s \in Sub \cup {NoSub} :
        Carried(kind, a, s) =>
            /\ a \in linked \cup removed
            /\ kind = "DiscoverFurAffinity" => Discoverer(a) = kind
            /\ kind = "AddSubmission" =>
                  a \in removed \/ (a \in started /\ s \in expected[a])

\* Where each worker can be, by the kind of its job.
PlacesInv ==
    \A w \in Worker : pc[w] # "idle" =>
        /\ pc[w] \in {"profile", "enqueue_add"} => job[w].kind = "VerifyAccount"
        /\ pc[w] = "enqueue_discover" =>
              job[w].kind = "AddAccount" /\ Discoverer(job[w].account) = "DiscoverFurAffinity"
        /\ pc[w] \in {"discover", "set_loading", "queue"} =>
              job[w].kind = Discoverer(job[w].account)

\* Without skip_verifications, whoever is past verification holds an account
\* that is verified, or gone.
VerifiedInv ==
    ~SkipVerifications =>
        /\ started \subseteq verified
        /\ \A w \in Worker :
              pc[w] = "enqueue_add" => job[w].account \in verified \cup removed
        /\ \A kind \in Kind \ {"VerifyAccount"}, a \in Account, s \in Sub \cup {NoSub} :
              Carried(kind, a, s) => a \in verified \cup removed

\* How far the discovery a worker runs has handed its submissions over.
HandoverInv ==
    \A w \in Worker :
        LET a == job[w].account IN
        /\ pc[w] \in {"set_loading", "queue"} =>
              \/ a \in removed
              \/ /\ a \in started
                 /\ todo[w] \subseteq expected[a]
                 /\ \A s \in expected[a] \ todo[w] : Accounted(a, s)
        /\ pc[w] = "done" /\ job[w].kind = Discoverer(a) =>
              \/ a \in removed \cup foundEmpty
              \/ a \in started /\ \A s \in expected[a] : Accounted(a, s)

\* What was appended came from submissions the import expects, and a
\* submission job that is past the append has been counted.
LoadedInv ==
    /\ \A a \in started : loaded[a] \subseteq expected[a] \X Attempt
    /\ \A w \in Worker :
          pc[w] \in {"complete", "set_complete", "done"} /\ job[w].kind = "AddSubmission" =>
              \/ job[w].account \in removed
              \/ /\ job[w].account \in started
                 /\ <<job[w].sub, job[w].attempt>> \in loaded[job[w].account]

Reached(a) == Cardinality(loaded[a]) >= Cardinality(expected[a])

\* Whoever is about to mark an import complete saw the count reach what was
\* expected, and the count never goes back.
ReachedInv ==
    /\ \A w \in Worker :
          pc[w] = "complete" => job[w].account \in removed \/ Reached(job[w].account)
    /\ \A a \in completed \ overridden : Reached(a)

IInv ==
    /\ RowsInv /\ JobsInv /\ PlacesInv /\ VerifiedInv
    /\ HandoverInv /\ LoadedInv /\ ReachedInv
    /\ NothingLostSilently
=============================================================================
