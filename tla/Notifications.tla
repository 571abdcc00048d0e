---------------------------- MODULE Notifications ----------------------------
(***************************************************************************)
(* From an incoming submission to the mail that tells the owners of        *)
(* similar items about it: NewSubmissionJob records an event for each      *)
(* owner and mails at once or leaves a pending notification;               *)
(* CreateEmailDigestsJob turns pending notifications into digest jobs, one *)
(* an owner, each in a transaction; SendEmailDigestJob sends one digest.   *)
(* Owners change their settings and addresses meanwhile, remove or merge   *)
(* their items and delete their accounts, and the events and pending       *)
(* notifications about these go with them (ON DELETE CASCADE).             *)
(*                                                                         *)
(* One item of an owner is similar to a submission, and only mail is       *)
(* followed, not Telegram.                                                 *)
(***************************************************************************)
EXTENDS Naturals

CONSTANTS
    User,           \* owners of media items
    Post,           \* incoming submissions, one NewSubmissionJob each
    Creator,        \* workers that can run CreateEmailDigestsJob
    Sender,         \* workers that can run SendEmailDigestJob
    None,           \* what an idle worker holds
    MaxRetry,       \* redeliveries of a job
    MaxFaults,      \* bound: interrupted handlers
    MaxChanges      \* bound: changes owners make to settings, address, items or account

ASSUME BoundsAssumption ==
    MaxRetry \in Nat /\ MaxFaults \in Nat /\ MaxChanges \in Nat

VARIABLES
    freq,       \* the email-frequency setting
    address,    \* none, unverified (email_verifier is set) or verified; deleted with
                \* the account
    unsub,      \* owners told they are unsubscribed, until they choose again
    changes,    \* changes made (bounded by MaxChanges)
    gone,       \* events whose item was removed or merged, or whose owner was deleted
    incoming,   \* NewSubmissionJobs waiting
    handling,   \* NewSubmissionJobs being handled
    task,       \* notify_found: how far it is for each event
    seen,       \* what it read: a verified address, a frequency
    recorded,   \* events whose id notify_found got back
    pending,    \* pending_notification rows, as committed
    step,       \* where each creator is
    batch,      \* the notifications it read and has not committed yet
    owner,      \* the owner whose transaction is open
    locked,     \* the rows that transaction deleted
    digests,    \* Faktory: how many of each SendEmailDigestJob wait
    dead,       \* Faktory: digest jobs given up
    sending,    \* where each sender is
    digest,     \* the job it handles
    found,      \* the events of the job that are still there
    mailed,     \* mails sent about each event; 2 stands for more
    noted,      \* history: events that were left as pending notifications
    dropped,    \* history: events of a digest that could not be queued
    overlapped, \* history: some DELETE found rows already gone
    faults      \* interrupted handlers (bounded by MaxFaults)

settings == <<freq, address, unsub, changes, gone>>
tasks    == <<incoming, handling, task, seen>>
creating == <<step, batch, owner, locked>>
mailing  == <<digests, dead, sending, digest, found, mailed>>
history  == <<noted, dropped, overlapped>>
vars == <<settings, tasks, recorded, pending, creating, mailing, history, faults>>

Frequency == {"never", "instantly", "daily", "weekly"}
Digested  == {"daily", "weekly"}
Address   == {"none", "unverified", "verified", "deleted"}
Attempt   == 0 .. MaxRetry
Event     == [user: User, post: Post, attempt: Attempt]
Digest    == [user: User, events: SUBSET Event, attempt: Attempt]
Delivery  == [post: Post, attempt: Attempt]
TaskStep  == {"none", "lookup", "record", "settings", "notify", "over"}

ASSUME NoneAssumption == None \notin Digest /\ None \notin User

Of(u, events) == {e \in events : e.user = u}

Init ==
    /\ freq \in [User -> Frequency]
    /\ address \in [User -> Address \ {"deleted"}]
    /\ unsub = {} /\ changes = 0 /\ gone = {}
    /\ incoming = [post: Post, attempt: {0}]
    /\ handling = {}
    /\ task = [e \in Event |-> "none"]
    /\ seen = [e \in Event |-> [verified |-> FALSE, freq |-> "never"]]
    /\ recorded = {} /\ pending = {}
    /\ step = [c \in Creator |-> "idle"]
    /\ batch = [c \in Creator |-> {}]
    /\ owner = [c \in Creator |-> None]
    /\ locked = [c \in Creator |-> {}]
    /\ digests = [d \in Digest |-> 0]
    /\ dead = {}
    /\ sending = [s \in Sender |-> "idle"]
    /\ digest = [s \in Sender |-> None]
    /\ found = [s \in Sender |-> {}]
    /\ mailed = [e \in Event |-> 0]
    /\ noted = {} /\ dropped = {} /\ overlapped = FALSE
    /\ faults = 0

-----------------------------------------------------------------------------
(* What owners do.                                                         *)

Change(u) ==
    /\ address[u] # "deleted"
    /\ changes < MaxChanges
    /\ changes' = changes + 1

\* POST /user/settings writes the frequency, whatever else the form holds.
SetFrequency(u) ==
    /\ Change(u)
    /\ \E f \in Frequency :
        /\ freq' = [freq EXCEPT ![u] = f]
        /\ unsub' = IF f = "never" THEN unsub ELSE unsub \ {u}
    /\ UNCHANGED <<address, gone, tasks, recorded, pending, creating, mailing, history, faults>>

\* POST /user/unsubscribe, the link in every mail.
Unsubscribe(u) ==
    /\ Change(u)
    /\ freq' = [freq EXCEPT ![u] = "never"]
    /\ unsub' = unsub \cup {u}
    /\ UNCHANGED <<address, gone, tasks, recorded, pending, creating, mailing, history, faults>>

\* set_email makes a new verifier, verify_email clears it.
ChangeAddress(u) ==
    /\ Change(u)
    /\ \/ address' = [address EXCEPT ![u] = "unverified"]
       \/ address[u] = "unverified" /\ address' = [address EXCEPT ![u] = "verified"]
    /\ UNCHANGED <<freq, unsub, gone, tasks, recorded, pending, creating, mailing, history, faults>>

\* The rows about events: the cascade waits for a transaction that deleted some.
Cascade(events) ==
    /\ \A c \in Creator : locked[c] \cap events = {}
    /\ gone' = gone \cup events
    /\ pending' = pending \ events

\* An item that resembles these submissions is removed, or merged into another.
RemoveItem(u) ==
    /\ Change(u)
    /\ \E posts \in SUBSET Post \ {{}} : Cascade({e \in Event : e.user = u /\ e.post \in posts})
    /\ UNCHANGED <<freq, address, unsub, tasks, recorded, creating, mailing, history, faults>>

\* The settings go as well, and notify_found would read the default.
DeleteUser(u) ==
    /\ Change(u)
    /\ Cascade(Of(u, Event))
    /\ freq' = [freq EXCEPT ![u] = "never"]
    /\ address' = [address EXCEPT ![u] = "deleted"]
    /\ UNCHANGED <<unsub, tasks, recorded, creating, mailing, history, faults>>

Fault == faults < MaxFaults /\ faults' = faults + 1

-----------------------------------------------------------------------------
(* NewSubmissionJob: notify_for_incoming and, for each owner, notify_found. *)

TasksOf(d) == {e \in Event : e.post = d.post /\ e.attempt = d.attempt}

\* find_similar returned the items of some owners, those that are there.
FindSimilar(d) ==
    /\ d \in incoming
    /\ incoming' = incoming \ {d}
    /\ handling' = handling \cup {d}
    /\ \E owners \in SUBSET User :
        task' = [e \in Event |->
                    IF e \in TasksOf(d) \ gone /\ e.user \in owners THEN "lookup" ELSE task[e]]
    /\ UNCHANGED <<settings, seen, recorded, pending, creating, mailing, history, faults>>

\* An owner deleted by now is told nothing either way.
LookupOwner(e) ==
    /\ task[e] = "lookup"
    /\ seen' = [seen EXCEPT ![e].verified = (address[e.user] = "verified")]
    /\ task' = [task EXCEPT ![e] = "record"]
    /\ UNCHANGED <<settings, incoming, handling, recorded, pending, creating, mailing,
                   history, faults>>

\* similar_found; an error, of the INSERT (the item may be gone) or of the NATS
\* message after it, is logged and the rest goes on without an event id.
RecordEvent(e) ==
    /\ task[e] = "record"
    /\ recorded' \in {recorded, recorded \cup ({e} \ gone)}
    /\ task' = [task EXCEPT ![e] = "settings"]
    /\ UNCHANGED <<settings, incoming, handling, seen, pending, creating, mailing,
                   history, faults>>

\* The poster is allowlisted, or the site skipped, or reading fails.
StayQuiet(e) ==
    /\ task[e] = "settings"
    /\ task' = [task EXCEPT ![e] = "over"]
    /\ UNCHANGED <<settings, incoming, handling, seen, recorded, pending, creating, mailing,
                   history, faults>>

ReadSettings(e) ==
    /\ task[e] = "settings"
    /\ seen' = [seen EXCEPT ![e].freq = freq[e.user]]
    /\ task' = [task EXCEPT ![e] = "notify"]
    /\ UNCHANGED <<settings, incoming, handling, recorded, pending, creating, mailing,
                   history, faults>>

\* Another mail about these events.
Mail(events) ==
    mailed' = [e \in Event |-> IF e \in events /\ mailed[e] < 2 THEN mailed[e] + 1 ELSE mailed[e]]

\* notify_email, by what was read before; its errors are logged.
NotifyInstantly(e) ==
    /\ task[e] = "notify"
    /\ seen[e] = [verified |-> TRUE, freq |-> "instantly"]
    /\ Mail({e}) \/ UNCHANGED mailed
    /\ task' = [task EXCEPT ![e] = "over"]
    /\ UNCHANGED <<settings, incoming, handling, seen, recorded, pending, creating,
                   digests, dead, sending, digest, found, history, faults>>

\* PendingNotification::create, which fails for an event that is gone.
NotifyLater(e) ==
    /\ task[e] = "notify"
    /\ seen[e].verified /\ seen[e].freq \in Digested
    /\ \/ /\ e \in recorded \ gone
          /\ pending' = pending \cup {e}
          /\ noted' = noted \cup {e}
       \/ UNCHANGED <<pending, noted>>
    /\ task' = [task EXCEPT ![e] = "over"]
    /\ UNCHANGED <<settings, incoming, handling, seen, recorded, creating, mailing,
                   dropped, overlapped, faults>>

NotifyNever(e) ==
    /\ task[e] = "notify"
    /\ ~seen[e].verified \/ seen[e].freq = "never"
    /\ task' = [task EXCEPT ![e] = "over"]
    /\ UNCHANGED <<settings, incoming, handling, seen, recorded, pending, creating, mailing,
                   history, faults>>

FinishIncoming(d) ==
    /\ d \in handling
    /\ \A e \in TasksOf(d) : task[e] \in {"none", "over"}
    /\ handling' = handling \ {d}
    /\ UNCHANGED <<settings, incoming, task, seen, recorded, pending, creating, mailing,
                   history, faults>>

\* Delivered again, the job starts over: new events for the same submission.
InterruptIncoming(d) ==
    /\ d \in handling
    /\ Fault
    /\ handling' = handling \ {d}
    /\ incoming' = IF d.attempt < MaxRetry
                   THEN incoming \cup {[d EXCEPT !.attempt = @ + 1]} ELSE incoming
    /\ task' = [e \in Event |-> IF e \in TasksOf(d) THEN "none" ELSE task[e]]
    /\ UNCHANGED <<settings, seen, recorded, pending, creating, mailing, history>>

-----------------------------------------------------------------------------
(* CreateEmailDigestsJob.                                                  *)

\* Variant for mutation: the argument of the schedule is ignored.
StartWeeklyDigests(c, f) ==
    /\ step[c] = "idle"
    /\ \E e \in pending : freq[e.user] = "weekly"
    /\ batch' = [batch EXCEPT ![c] = {e \in pending : freq[e.user] = "weekly"}]
    /\ step' = [step EXCEPT ![c] = "owners"]
    /\ UNCHANGED <<settings, tasks, recorded, pending, owner, locked, mailing, history, faults>>

\* PendingNotification::ready joins the setting as it is now; a job that reads
\* nothing changes nothing.
StartDigests(c, f) ==
    /\ step[c] = "idle"
    /\ \E e \in pending : freq[e.user] = f
    /\ batch' = [batch EXCEPT ![c] = {e \in pending : freq[e.user] = f}]
    /\ step' = [step EXCEPT ![c] = "owners"]
    /\ UNCHANGED <<settings, tasks, recorded, pending, owner, locked, mailing, history, faults>>

\* Variant for mutation: DELETE by owner, not by the ids that were read.
RemoveAllPending(c) ==
    /\ step[c] = "owners"
    /\ \E u \in User :
        /\ Of(u, batch[c]) # {}
        /\ \A other \in Creator : locked[other] \cap Of(u, pending) = {}
        /\ owner' = [owner EXCEPT ![c] = u]
        /\ locked' = [locked EXCEPT ![c] = Of(u, pending)]
        /\ overlapped' = (overlapped \/ ~(Of(u, batch[c]) \subseteq pending \cup gone))
    /\ step' = [step EXCEPT ![c] = "enqueue"]
    /\ UNCHANGED <<settings, tasks, recorded, pending, batch, mailing, noted, dropped, faults>>

\* BEGIN and the DELETE, which waits for rows another transaction deleted,
\* and then skips those that are gone.
RemovePending(c) ==
    /\ step[c] = "owners"
    /\ \E u \in User :
        LET ids == Of(u, batch[c]) IN
        /\ ids # {}
        /\ \A other \in Creator : locked[other] \cap ids = {}
        /\ owner' = [owner EXCEPT ![c] = u]
        /\ locked' = [locked EXCEPT ![c] = ids \cap pending]
        /\ overlapped' = (overlapped \/ ~(ids \subseteq pending \cup gone))
    /\ step' = [step EXCEPT ![c] = "enqueue"]
    /\ UNCHANGED <<settings, tasks, recorded, pending, batch, mailing, noted, dropped, faults>>

\* The job carries every id that was read, deleted by this transaction or not.
EnqueueDigest(c) ==
    LET d == [user |-> owner[c], events |-> Of(owner[c], batch[c]), attempt |-> 0] IN
    /\ step[c] = "enqueue"
    /\ digests' = [digests EXCEPT ![d] = @ + 1]
    /\ step' = [step EXCEPT ![c] = "commit"]
    /\ UNCHANGED <<settings, tasks, recorded, pending, batch, owner, locked, dead, sending,
                   digest, found, mailed, history, faults>>

\* An error of the enqueue is logged, and the transaction committed.
DropDigest(c) ==
    /\ step[c] = "enqueue"
    /\ dropped' = dropped \cup Of(owner[c], batch[c])
    /\ step' = [step EXCEPT ![c] = "commit"]
    /\ UNCHANGED <<settings, tasks, recorded, pending, batch, owner, locked, mailing, noted,
                   overlapped, faults>>

\* The transaction is over: the next owner, or the end of the job.
NextOwner(c) ==
    LET rest == batch[c] \ Of(owner[c], batch[c]) IN
    /\ step[c] = "commit"
    /\ batch' = [batch EXCEPT ![c] = rest]
    /\ owner' = [owner EXCEPT ![c] = None]
    /\ locked' = [locked EXCEPT ![c] = {}]
    /\ step' = [step EXCEPT ![c] = IF rest = {} THEN "idle" ELSE "owners"]

\* Variant for mutation: the transaction ends without its DELETE.
RollBackDigest(c) ==
    /\ NextOwner(c)
    /\ UNCHANGED <<settings, tasks, recorded, pending, mailing, history, faults>>

CommitDigest(c) ==
    /\ NextOwner(c)
    /\ pending' = pending \ locked[c]
    /\ UNCHANGED <<settings, tasks, recorded, mailing, history, faults>>

\* The open transaction is rolled back; what was queued stays queued.
InterruptCreator(c) ==
    /\ step[c] # "idle"
    /\ Fault
    /\ batch' = [batch EXCEPT ![c] = {}]
    /\ owner' = [owner EXCEPT ![c] = None]
    /\ locked' = [locked EXCEPT ![c] = {}]
    /\ step' = [step EXCEPT ![c] = "idle"]
    /\ UNCHANGED <<settings, tasks, recorded, pending, mailing, history>>

-----------------------------------------------------------------------------
(* SendEmailDigestJob.                                                     *)

TakeDigest(s) ==
    /\ sending[s] = "idle"
    /\ \E d \in Digest :
        /\ digests[d] > 0
        /\ digests' = [digests EXCEPT ![d] = @ - 1]
        /\ digest' = [digest EXCEPT ![s] = d]
    /\ sending' = [sending EXCEPT ![s] = "lookup"]
    /\ UNCHANGED <<settings, tasks, recorded, pending, creating, dead, found, mailed, history,
                   faults>>

Release(s) ==
    /\ sending' = [sending EXCEPT ![s] = "idle"]
    /\ digest' = [digest EXCEPT ![s] = None]
    /\ found' = [found EXCEPT ![s] = {}]

\* Without a verified address the job fails with Error::Missing, for good;
\* UserEvent::resolve passes over events that are gone.
LookupRecipient(s) ==
    /\ sending[s] = "lookup"
    /\ IF address[digest[s].user] = "verified"
       THEN /\ sending' = [sending EXCEPT ![s] = "send"]
            /\ found' = [found EXCEPT ![s] = digest[s].events \ gone]
            /\ UNCHANGED <<dead, digest>>
       ELSE dead' = dead \cup {digest[s]} /\ Release(s)
    /\ UNCHANGED <<settings, tasks, recorded, pending, creating, digests, mailed, history, faults>>

SendDigest(s) ==
    /\ sending[s] = "send"
    /\ Mail(found[s])
    /\ sending' = [sending EXCEPT ![s] = "sent"]
    /\ UNCHANGED <<settings, tasks, recorded, pending, creating, digests, dead, digest, found,
                   history, faults>>

AckDigest(s) ==
    /\ sending[s] = "sent"
    /\ Release(s)
    /\ UNCHANGED <<settings, tasks, recorded, pending, creating, digests, dead, mailed, history,
                   faults>>

\* The mail server refuses, or the worker dies, before the job is acknowledged.
InterruptSender(s) ==
    /\ sending[s] # "idle"
    /\ Fault
    /\ IF digest[s].attempt < MaxRetry
       THEN /\ digests' = [digests EXCEPT ![[digest[s] EXCEPT !.attempt = @ + 1]] = @ + 1]
            /\ UNCHANGED dead
       ELSE dead' = dead \cup {digest[s]} /\ UNCHANGED digests
    /\ Release(s)
    /\ UNCHANGED <<settings, tasks, recorded, pending, creating, mailed, history>>

-----------------------------------------------------------------------------
OwnerActs(u) ==
    SetFrequency(u) \/ Unsubscribe(u) \/ ChangeAddress(u) \/ RemoveItem(u) \/ DeleteUser(u)

Notify(e) ==
    \/ LookupOwner(e) \/ RecordEvent(e) \/ StayQuiet(e) \/ ReadSettings(e)
    \/ NotifyInstantly(e) \/ NotifyLater(e) \/ NotifyNever(e)

Create(c) ==
    RemovePending(c) \/ EnqueueDigest(c) \/ DropDigest(c) \/ CommitDigest(c)

Send(s) == TakeDigest(s) \/ LookupRecipient(s) \/ SendDigest(s) \/ AckDigest(s)

Next ==
    \/ \E u \in User : OwnerActs(u)
    \/ \E d \in Delivery : FindSimilar(d) \/ FinishIncoming(d) \/ InterruptIncoming(d)
    \/ \E e \in Event : Notify(e)
    \/ \E c \in Creator : Create(c) \/ InterruptCreator(c)
    \/ \E c \in Creator, f \in Digested : StartDigests(c, f)
    \/ \E s \in Sender : Send(s) \/ InterruptSender(s)

Spec == Init /\ [][Next]_vars

\* Workers keep running, and the schedule queues both kinds of digest job
\* again and again: while one worker or another is free, one of them runs each.
FairSpec ==
    /\ Spec
    /\ \A c \in Creator : WF_vars(Create(c))
    /\ \A f \in Digested : SF_vars(\E c \in Creator : StartDigests(c, f))
    /\ \A s \in Sender : WF_vars(Send(s))

-----------------------------------------------------------------------------
(* Properties.                                                             *)

TypeOK ==
    /\ freq \in [User -> Frequency] /\ address \in [User -> Address]
    /\ unsub \subseteq User /\ changes \in 0 .. MaxChanges /\ gone \subseteq Event
    /\ incoming \subseteq Delivery /\ handling \subseteq Delivery
    /\ task \in [Event -> TaskStep]
    /\ seen \in [Event -> [verified: BOOLEAN, freq: Frequency]]
    /\ recorded \subseteq Event /\ pending \subseteq Event
    /\ step \in [Creator -> {"idle", "owners", "enqueue", "commit"}]
    /\ batch \in [Creator -> SUBSET Event]
    /\ owner \in [Creator -> User \cup {None}]
    /\ \A c \in Creator : step[c] \in {"enqueue", "commit"} => owner[c] \in User
    /\ locked \in [Creator -> SUBSET Event]
    /\ digests \in [Digest -> Nat] /\ dead \subseteq Digest
    /\ sending \in [Sender -> {"idle", "lookup", "send", "sent"}]
    /\ digest \in [Sender -> Digest \cup {None}]
    /\ \A s \in Sender : sending[s] # "idle" => digest[s] \in Digest
    /\ found \in [Sender -> SUBSET Event]
    /\ mailed \in [Event -> 0 .. 2]
    /\ noted \subseteq Event /\ dropped \subseteq Event /\ overlapped \in BOOLEAN
    /\ faults \in 0 .. MaxFaults

\* A digest job about this event waits, runs, or was given up.
Known(d) ==
    d \in Digest /\ (digests[d] > 0 \/ d \in dead \/ \E s \in Sender : sending[s] # "idle" /\ digest[s] = d)
HandedOver(e) ==
    \/ \E d \in Digest : Known(d) /\ e \in d.events
    \/ mailed[e] > 0
    \/ e \in dropped
    \/ e \in gone

\* A notification left for a digest is never forgotten: its row is there, or
\* a digest job that names it is, or it was mailed.  There are two ways out: the
\* enqueue whose error CreateEmailDigestsJob logs before it commits, and the
\* cascade when the item or the owner is deleted.
NothingForgotten == \A e \in noted : e \in pending \/ HandedOver(e)

\* Owners hear of an event once, except when a handler was interrupted, or
\* two digest jobs read the same rows: a DELETE that finds nothing does not
\* stop the digest from being queued.
MailedOnce == \A e \in Event : mailed[e] <= 1 \/ faults > 0 \/ overlapped

\* "Unsubscribed from future emails": an owner who unsubscribed is not mailed
\* until they choose a frequency again.
UnsubscribeStops ==
    [][\A e \in Event : e.user \in unsub => mailed'[e] = mailed[e]]_vars

\* Time after time, every notification left for a digest has been mailed, or its
\* digest was given up or could not be queued, or the item or the owner it is
\* about is gone, or its owner keeps no digests.
GaveUp(e) == \E d \in dead : e \in d.events

DigestArrives ==
    []<>(\A e \in noted :
            \/ mailed[e] > 0 \/ GaveUp(e) \/ e \in dropped \/ e \in gone
            \/ e \in pending /\ freq[e.user] \notin Digested)

-----------------------------------------------------------------------------
(* The inductive invariant behind NothingForgotten.                        *)

\* Once its job is queued or given up, everything a transaction will delete is
\* handed over; it deletes only what it read for the owner.
CreatorInv ==
    \A c \in Creator :
        /\ locked[c] # {} => step[c] \in {"enqueue", "commit"}
        /\ locked[c] \subseteq Of(owner[c], batch[c])
        /\ step[c] = "commit" => \A e \in locked[c] : HandedOver(e)

\* A digest mails each of its events that is there, and is acknowledged after.
SenderInv ==
    \A s \in Sender :
        /\ sending[s] = "send" => digest[s].events \subseteq found[s] \cup gone
        /\ sending[s] = "sent" => \A e \in digest[s].events : mailed[e] > 0 \/ e \in gone

-----------------------------------------------------------------------------
(* The inductive invariant behind MailedOnce: as long as no handler was     *)
(* interrupted and every DELETE found its rows, an event is in one place.   *)

Queued(d, e) == digests[d] > 0 /\ e \in d.events \ gone
Carried(s, e) ==
    \/ sending[s] = "lookup" /\ e \in digest[s].events \ gone
    \/ sending[s] = "send" /\ e \in found[s]

Untold(e) ==
    /\ mailed[e] = 0
    /\ \A d \in Digest : ~Queued(d, e)
    /\ \A s \in Sender : ~Carried(s, e)

\* Until notify_found is over, nothing is left or sent.
TaskFirst ==
    /\ \A d \in incoming : \A e \in TasksOf(d) : task[e] = "none"
    /\ \A e \in Event : task[e] # "over" => e \notin pending /\ Untold(e)

\* A transaction has deleted all it read for its owner that is still there, and
\* nobody else's rows.
Exclusive ==
    \A c \in Creator :
        /\ step[c] \in {"enqueue", "commit"} =>
               Of(owner[c], batch[c]) \subseteq locked[c] \cup gone /\ locked[c] \subseteq pending
        /\ \A other \in Creator \ {c} : locked[c] \cap locked[other] = {}

\* A row is in no digest until the transaction that deletes it has queued one.
RowFirst ==
    \A e \in pending :
        Untold(e) \/ \E c \in Creator : step[c] = "commit" /\ e \in locked[c]

\* No two digests that wait or are being sent name the same event.
OneDigest ==
    \A e \in Event :
        /\ mailed[e] <= 1
        /\ \A d \in Digest : Queued(d, e) =>
               /\ mailed[e] = 0 /\ digests[d] = 1
               /\ \A i \in Digest : Queued(i, e) => i = d
               /\ \A s \in Sender : ~Carried(s, e)
        /\ \A s \in Sender : Carried(s, e) =>
               mailed[e] = 0 /\ \A t \in Sender : Carried(t, e) => t = s

OnePlace == TaskFirst /\ Exclusive /\ RowFirst /\ OneDigest

IInv == CreatorInv /\ SenderInv /\ NothingForgotten /\ (faults > 0 \/ overlapped \/ OnePlace)
=============================================================================
