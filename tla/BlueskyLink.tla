----------------------------- MODULE BlueskyLink -----------------------------
(* Linking a Bluesky account: auth_verify signs in with the user's password  *)
(* and keeps the session in the account's data for the first import, which   *)
(* takes it out again.                                                       *)
EXTENDS Naturals, FiniteSets

CONSTANTS Visit,      \* sign-ins of one user to one account
          Worker,     \* workers that run add_account
          Post,       \* posts the account may have
          MaxFault    \* bound on the faults

VARIABLES exists,     \* is there a linked_account row
          session,    \* does its data hold a session
          visit,      \* a run of auth_verify per visit
          adds,       \* AddAccountJobs in the queue
          work,       \* a run of add_account per worker
          started,    \* the account has its linked_account_import row
          imported,   \* the submissions of a listing were all queued
          undone,     \* linked again before the import, or the visit that made it stopped
          failed,     \* an import found no session: it is not tried again
          dead,       \* an import failed at its last delivery
          faults

vars == <<exists, session, visit, adds, work, started, imported, undone, failed, dead, faults>>

Idle == [pc |-> "idle", session |-> FALSE, left |-> {}]
TypeOK ==
    /\ exists \in BOOLEAN /\ session \in BOOLEAN /\ (session => exists)
    /\ visit \in [Visit -> {"idle", "signed", "update", "create", "enqueue", "over"}]
    /\ adds \in Nat
    /\ work \in [Worker -> [pc : {"idle", "read", "listed", "queueing", "queued", "ack"},
                            session : BOOLEAN, left : SUBSET Post]]
    /\ started \in BOOLEAN /\ imported \in BOOLEAN
    /\ undone \in BOOLEAN /\ failed \in BOOLEAN /\ dead \in BOOLEAN /\ faults \in Nat

Init ==
    /\ exists = FALSE /\ session = FALSE
    /\ visit = [v \in Visit |-> "idle"]
    /\ adds = 0 /\ work = [w \in Worker |-> Idle]
    /\ started = FALSE /\ imported = FALSE
    /\ undone = FALSE /\ failed = FALSE /\ dead = FALSE /\ faults = 0

Fault == faults < MaxFault /\ faults' = faults + 1
Go(v, pc) == visit' = [visit EXCEPT ![v] = pc]

-----------------------------------------------------------------------------
(* POST /bluesky/auth.                                                       *)

\* createSession; a wrong password ends the visit on the page it came from.
SignIn(v) ==
    /\ visit[v] = "idle"
    /\ Go(v, "signed") \/ Go(v, "over")
    /\ UNCHANGED <<exists, session, adds, work, started, imported, undone, failed, dead, faults>>

LookupAccount(v) ==
    /\ visit[v] = "signed"
    /\ Go(v, IF exists THEN "update" ELSE "create")
    /\ UNCHANGED <<exists, session, adds, work, started, imported, undone, failed, dead, faults>>

\* An account that is there gets data without a session, imported or not.
UpdateData(v) ==
    /\ visit[v] = "update"
    /\ session' = FALSE
    /\ undone' = (undone \/ ~imported)
    /\ Go(v, "over")
    /\ UNCHANGED <<exists, adds, work, started, imported, failed, dead, faults>>

\* Variant for mutation: the session is not kept.
CreateEmpty(v) ==
    /\ visit[v] = "create"
    /\ IF exists
       THEN Go(v, "over") /\ UNCHANGED <<exists, session>>
       ELSE Go(v, "enqueue") /\ exists' = TRUE /\ session' = FALSE
    /\ UNCHANGED <<adds, work, started, imported, undone, failed, dead, faults>>

\* The index on owner, site and username refuses a second row.
CreateAccount(v) ==
    /\ visit[v] = "create"
    /\ IF exists
       THEN Go(v, "over") /\ UNCHANGED <<exists, session>>
       ELSE Go(v, "enqueue") /\ exists' = TRUE /\ session' = TRUE
    /\ UNCHANGED <<adds, work, started, imported, undone, failed, dead, faults>>

EnqueueAddAccount(v) ==
    /\ visit[v] = "enqueue"
    /\ adds' = adds + 1
    /\ Go(v, "over")
    /\ UNCHANGED <<exists, session, work, started, imported, undone, failed, dead, faults>>

VisitFails(v) ==
    /\ visit[v] \notin {"idle", "over"} /\ Fault
    /\ undone' = (undone \/ visit[v] = "enqueue")
    /\ Go(v, "over")
    /\ UNCHANGED <<exists, session, adds, work, started, imported, failed, dead>>

-----------------------------------------------------------------------------
(* add_account.                                                              *)

Begin(w) ==
    /\ work[w].pc = "idle" /\ adds > 0
    /\ adds' = adds - 1
    /\ work' = [work EXCEPT ![w] = [Idle EXCEPT !.pc = "read", !.session = session]]
    /\ UNCHANGED <<exists, session, visit, started, imported, undone, failed, dead, faults>>

\* Without a session it is Error::Missing, which is not retried.
MissingSession(w) ==
    /\ work[w].pc = "read" /\ ~work[w].session
    /\ failed' = (failed \/ ~imported)
    /\ work' = [work EXCEPT ![w] = Idle]
    /\ UNCHANGED <<exists, session, visit, adds, started, imported, undone, dead, faults>>

\* refreshSession, then the whole feed, whatever it has by now.
ListPosts(w) ==
    /\ work[w].pc = "read" /\ work[w].session
    /\ \E posts \in SUBSET Post :
        work' = [work EXCEPT ![w].pc = "listed", ![w].left = posts]
    /\ UNCHANGED <<exists, session, visit, adds, started, imported, undone, failed, dead, faults>>

\* The job goes on to its next delivery, or this was its last.
Redeliver ==
    \/ adds' = adds + 1 /\ UNCHANGED dead
    \/ dead' = TRUE /\ UNCHANGED adds

\* set_loading_submissions inserts the import row, once in the life of the
\* account; an empty feed needs none.
StartImport(w) ==
    /\ work[w].pc = "listed" /\ (work[w].left # {} => ~started)
    /\ started' = (started \/ work[w].left # {})
    /\ imported' = (imported \/ work[w].left = {})
    /\ work' = [work EXCEPT ![w].pc = IF work[w].left # {} THEN "queueing" ELSE "queued"]
    /\ UNCHANGED <<exists, session, visit, adds, undone, failed, dead, faults>>

\* The row is there, from a delivery that got this far: it refuses every further one.
ImportRefused(w) ==
    /\ work[w].pc = "listed" /\ work[w].left # {} /\ started
    /\ Redeliver
    /\ work' = [work EXCEPT ![w] = Idle]
    /\ UNCHANGED <<exists, session, visit, started, imported, undone, failed, faults>>

\* queue_new_submissions.
QueueSubmission(w) ==
    /\ work[w].pc = "queueing"
    /\ \E post \in work[w].left :
        LET left == work[w].left \ {post}
        IN  /\ work' = [work EXCEPT ![w].pc = IF left # {} THEN "queueing" ELSE "queued",
                                    ![w].left = left]
            /\ imported' = (imported \/ left = {})
    /\ UNCHANGED <<exists, session, visit, adds, started, undone, failed, dead, faults>>

\* The data is saved without the session.
DropSession(w) ==
    /\ work[w].pc = "queued"
    /\ session' = FALSE
    /\ work' = [work EXCEPT ![w].pc = "ack"]
    /\ UNCHANGED <<exists, visit, adds, started, imported, undone, failed, dead, faults>>

Ack(w) ==
    /\ work[w].pc = "ack"
    /\ work' = [work EXCEPT ![w] = Idle]
    /\ UNCHANGED <<exists, session, visit, adds, started, imported, undone, failed, dead, faults>>

\* Bluesky or the database fails or the worker dies.
AddFails(w) ==
    /\ work[w].pc # "idle" /\ Fault
    /\ Redeliver
    /\ work' = [work EXCEPT ![w] = Idle]
    /\ UNCHANGED <<exists, session, visit, started, imported, undone, failed>>

Next ==
    \/ \E v \in Visit :
        \/ SignIn(v) \/ LookupAccount(v) \/ UpdateData(v) \/ CreateAccount(v)
        \/ EnqueueAddAccount(v) \/ VisitFails(v)
    \/ \E w \in Worker :
        \/ Begin(w) \/ MissingSession(w) \/ ListPosts(w) \/ StartImport(w) \/ ImportRefused(w)
        \/ QueueSubmission(w) \/ DropSession(w) \/ Ack(w) \/ AddFails(w)

Spec == Init /\ [][Next]_vars

-----------------------------------------------------------------------------
Importing ==
    \/ adds > 0
    \/ \E w \in Worker : work[w].pc # "idle"
    \/ \E v \in Visit : visit[v] = "enqueue"

\* What add_account relies on: a job and its runs are of an account that is there,
\* and past the enqueueing of the submissions they are queued.
JobInv ==
    /\ adds > 0 \/ (\E v \in Visit : visit[v] = "enqueue") => exists
    /\ \A w \in Worker :
        /\ work[w].pc # "idle" => exists
        /\ work[w].pc \in {"queued", "ack"} => imported
        /\ work[w].pc = "ack" => ~session

\* The session is put into the account once, with its row: without it the import
\* is done, or a second sign-in took it away; and a job that found none leaves none.
SessionInv ==
    /\ exists /\ ~session => imported \/ undone
    /\ \A w \in Worker : work[w].pc # "idle" /\ ~work[w].session =>
        ~session /\ (imported \/ undone)

\* The session that stands for the user's password does not outlive the import,
\* if that is not given up: the save that drops it is its last step.
SessionIsDropped == session => Importing \/ undone \/ dead

\* The submissions of a linked account are all queued, or an import that may queue
\* them is to come; unless it was linked again before its import had read the
\* session, the visit that made it stopped before it queued the import, or the import
\* was given up, as one is that was interrupted after it had inserted its row.
ImportStillComes ==
    /\ exists => imported \/ Importing \/ undone \/ dead
    /\ failed => undone

IInv == TypeOK /\ JobInv /\ SessionInv /\ SessionIsDropped /\ ImportStillComes
=============================================================================
