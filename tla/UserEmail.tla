------------------------------ MODULE UserEmail ------------------------------
(* The email address of a user: the forms that set it, the mail that proves  *)
(* it, and the mail that lets a forgotten password be set anew.              *)
(*                                                                           *)
(* Verifiers and reset tokens are numbered as they are made; 0 is NULL.      *)
EXTENDS Naturals

CONSTANTS Address,
          Unparsed,    \* addresses the settings form takes and no mail can go to
          None,
          Handler,     \* requests and mail jobs at work at once
          MaxToken,    \* bound on the verifiers and on the reset tokens
          MaxFault     \* bound on handlers that fail

VARIABLES email,       \* the user's row: the address,
          verifier,    \* email_verifier,
          reset,       \* reset_token
          taken,       \* addresses of other users
          verifiers,   \* verifiers made
          resets,      \* reset tokens made
          jobs,        \* jobs in the queue, by kind
          work,        \* what a handler does and what it has read
          inbox,       \* mails sent
          spent,       \* the verifier that last verified the address
          used,        \* times each reset token set a password
          crossed,     \* a password was set with a token the row no longer held
          lost,        \* mails given up: the job never queued, or out of retries
          faults

row == <<email, verifier, reset>>
made == <<verifiers, resets>>
history == <<spent, used, crossed, lost>>
vars == <<row, taken, made, jobs, work, inbox, history, faults>>

Token == 1..MaxToken
Kind == {"verify", "reset"}
Idle == [pc |-> "idle", to |-> None, token |-> 0]
Work == [pc : {"idle", "free", "set", "known", "tokened", "verify", "reset", "setting"},
         to : Address \cup {None}, token : 0..(MaxToken + 1)]
Mail == [kind : Kind, to : Address, token : 1..(MaxToken + 1)]

TypeOK ==
    /\ email \in Address \cup {None} /\ email \notin taken
    /\ verifier \in 0..verifiers /\ reset \in 0..resets
    /\ taken \subseteq Address
    /\ verifiers \in 1..(MaxToken + 1) /\ resets \in 0..MaxToken
    /\ jobs \in [Kind -> Nat] /\ work \in [Handler -> Work]
    /\ inbox \subseteq Mail
    /\ spent \in 0..verifiers /\ used \in [Token -> 0..2]
    /\ crossed \in BOOLEAN
    /\ lost \subseteq Kind \X (0..(MaxToken + 1)) /\ faults \in Nat

\* A new row has a verifier and no address.
Init ==
    /\ email = None /\ verifier = 1 /\ reset = 0 /\ taken = {}
    /\ verifiers = 1 /\ resets = 0
    /\ jobs = [k \in Kind |-> 0] /\ work = [h \in Handler |-> Idle] /\ inbox = {}
    /\ spent = 0 /\ used = [t \in Token |-> 0] /\ crossed = FALSE /\ lost = {}
    /\ faults = 0

Go(h, pc, to, token) == work' = [work EXCEPT ![h] = [pc |-> pc, to |-> to, token |-> token]]
Rest(h) == work' = [work EXCEPT ![h] = Idle]
Enqueue(k) == jobs' = [jobs EXCEPT ![k] = @ + 1]

-----------------------------------------------------------------------------
(* The address: POST /user/email/add and POST /user/settings.                *)

\* email_exists; the user's own address exists too.  /user/email/add has parsed
\* the address, /user/settings takes any string.
AskEmail(h, a) ==
    /\ work[h].pc = "idle" /\ a # email /\ a \notin taken
    /\ Go(h, "free", a, 0)
    /\ UNCHANGED <<row, taken, made, jobs, inbox, history, faults>>

\* Variant for mutation: an address that was verified stays so.
SetAddressOnly(h) ==
    /\ work[h].pc = "free" /\ verifiers <= MaxToken
    /\ IF work[h].to \in taken
       THEN Rest(h) /\ UNCHANGED <<email, verifier, verifiers>>
       ELSE /\ email' = work[h].to
            /\ verifiers' = verifiers + 1
            /\ verifier' = IF verifier = 0 THEN 0 ELSE verifiers'
            /\ Go(h, "set", None, verifiers')
    /\ UNCHANGED <<reset, taken, resets, jobs, inbox, spent, used, crossed, lost, faults>>

\* set_email; the unique index refuses an address another user took meanwhile.
SetEmail(h) ==
    /\ work[h].pc = "free" /\ verifiers <= MaxToken
    /\ IF work[h].to \in taken
       THEN Rest(h) /\ UNCHANGED <<email, verifier, verifiers>>
       ELSE /\ email' = work[h].to
            /\ verifiers' = verifiers + 1 /\ verifier' = verifiers'
            /\ Go(h, "set", None, verifiers')
    /\ UNCHANGED <<reset, taken, resets, jobs, inbox, spent, used, crossed, lost, faults>>

EnqueueVerification(h) ==
    /\ work[h].pc = "set"
    /\ Enqueue("verify") /\ Rest(h)
    /\ UNCHANGED <<row, taken, made, inbox, history, faults>>

\* Another user's set_email.
TakeElsewhere(a) ==
    /\ a # email /\ a \notin taken
    /\ taken' = taken \cup {a}
    /\ UNCHANGED <<row, made, jobs, work, inbox, history, faults>>

\* POST /user/email/verify from a mail, by one UPDATE.
Verify(m) ==
    /\ m.kind = "verify" /\ m.token = verifier
    /\ verifier' = 0 /\ spent' = m.token
    /\ UNCHANGED <<email, reset, taken, made, jobs, work, inbox, used, crossed, lost, faults>>

-----------------------------------------------------------------------------
(* A forgotten password: POST /auth/forgot and POST /auth/forgot/email.      *)

\* lookup_by_email, verified or not.
Forgot(h) ==
    /\ work[h].pc = "idle" /\ email # None /\ resets < MaxToken
    /\ Go(h, "known", None, 0)
    /\ UNCHANGED <<row, taken, made, jobs, inbox, history, faults>>

SetResetToken(h) ==
    /\ work[h].pc = "known" /\ resets < MaxToken
    /\ resets' = resets + 1 /\ reset' = resets'
    /\ Go(h, "tokened", None, resets')
    /\ UNCHANGED <<email, verifier, taken, verifiers, jobs, inbox, history, faults>>

EnqueueReset(h) ==
    /\ work[h].pc = "tokened"
    /\ Enqueue("reset") /\ Rest(h)
    /\ UNCHANGED <<row, taken, made, inbox, history, faults>>

\* The form of the mailed link: the row is read and its token compared.
OpenReset(h, m) ==
    /\ work[h].pc = "idle" /\ m.kind = "reset" /\ m.token = reset
    /\ Go(h, "setting", None, m.token)
    /\ UNCHANGED <<row, taken, made, jobs, inbox, history, faults>>

\* Variant for mutation: the token is left in the row.
UpdatePasswordOnly(h) ==
    /\ work[h].pc = "setting" /\ used[work[h].token] < 2
    /\ crossed' = (crossed \/ reset # work[h].token)
    /\ used' = [used EXCEPT ![work[h].token] = @ + 1]
    /\ Rest(h)
    /\ UNCHANGED <<row, taken, made, jobs, inbox, spent, lost, faults>>

\* update_password clears whatever token the row has by now.  (A third use of
\* one token is like the second.)
UpdatePassword(h) ==
    /\ work[h].pc = "setting" /\ used[work[h].token] < 2
    /\ reset' = 0
    /\ crossed' = (crossed \/ reset # work[h].token)
    /\ used' = [used EXCEPT ![work[h].token] = @ + 1]
    /\ Rest(h)
    /\ UNCHANGED <<email, verifier, taken, made, jobs, inbox, spent, lost, faults>>

-----------------------------------------------------------------------------
(* EmailVerificationJob and SendPasswordResetEmailJob.                       *)

TokenFor(k) == IF k = "verify" THEN verifier ELSE reset

\* The job reads the row; without a token it is Error::Missing, and over.
ReadUser(h, k) ==
    /\ work[h].pc = "idle" /\ jobs[k] > 0
    /\ jobs' = [jobs EXCEPT ![k] = @ - 1]
    /\ IF TokenFor(k) = 0 THEN UNCHANGED work ELSE Go(h, k, email, TokenFor(k))
    /\ UNCHANGED <<row, taken, made, inbox, history, faults>>

\* The mail is sent; a job whose acknowledgement is lost is delivered again.
SendMail(h) ==
    /\ work[h].pc \in Kind /\ work[h].to \notin Unparsed
    /\ inbox' = inbox \cup {[kind |-> work[h].pc, to |-> work[h].to, token |-> work[h].token]}
    /\ \/ UNCHANGED <<jobs, faults>>
       \/ faults < MaxFault /\ faults' = faults + 1 /\ Enqueue(work[h].pc)
    /\ Rest(h)
    /\ UNCHANGED <<row, taken, made, history>>

\* The mail a request or a job is about, and that nobody will try again.
KindOf(h) == IF work[h].pc \in {"set", "verify"} THEN "verify" ELSE "reset"
GiveUp(h) == lost' = lost \cup {<<KindOf(h), work[h].token>>} /\ UNCHANGED jobs

\* A failed job is delivered again, until its retries run out or the error is one
\* that should_retry refuses (EmailContent).
Redelivered(h) == Enqueue(work[h].pc) /\ UNCHANGED lost
JobFails(h) == (Redelivered(h) \/ GiveUp(h)) /\ Rest(h)

\* The job parses the address: one that does not parse fails every delivery.
ParseFails(h) ==
    /\ work[h].pc \in Kind /\ work[h].to \in Unparsed
    /\ JobFails(h)
    /\ UNCHANGED <<row, taken, made, inbox, spent, used, crossed, faults>>

\* Variant for mutation: a mail that fails is taken for sent.
FailForGood(h) ==
    /\ work[h].pc \in Kind \cup {"set", "tokened"} /\ faults < MaxFault
    /\ faults' = faults + 1
    /\ IF work[h].pc \in Kind THEN UNCHANGED <<jobs, lost>> ELSE GiveUp(h)
    /\ Rest(h)
    /\ UNCHANGED <<row, taken, made, inbox, spent, used, crossed>>

\* A job fails by a fault, or a request does, which nobody repeats.
Fail(h) ==
    /\ work[h].pc \in Kind \cup {"set", "tokened"} /\ faults < MaxFault
    /\ faults' = faults + 1
    /\ IF work[h].pc \in Kind THEN JobFails(h) ELSE GiveUp(h) /\ Rest(h)
    /\ UNCHANGED <<row, taken, made, inbox, spent, used, crossed>>

Next ==
    \/ \E h \in Handler :
        \/ (\E a \in Address : AskEmail(h, a))
        \/ SetEmail(h) \/ EnqueueVerification(h)
        \/ Forgot(h) \/ SetResetToken(h) \/ EnqueueReset(h)
        \/ (\E m \in inbox : OpenReset(h, m)) \/ UpdatePassword(h)
        \/ (\E k \in Kind : ReadUser(h, k)) \/ SendMail(h)
        \/ ParseFails(h) \/ Fail(h)
    \/ \E m \in inbox : Verify(m)
    \/ \E a \in Address : TakeElsewhere(a)

Spec == Init /\ [][Next]_vars

-----------------------------------------------------------------------------
\* A mail is of a token that was made, to an address, and so is one about to be sent.
MailInv ==
    /\ \A m \in inbox : m.token <= IF m.kind = "verify" THEN verifiers ELSE resets
    /\ \A h \in Handler :
        LET k == work[h].pc
        IN  /\ k = "free" => work[h].to \in Address
            /\ k \in Kind => work[h].to \in Address
            /\ k = "verify" => work[h].token \in 1..verifiers
            /\ k \in {"reset", "setting"} => work[h].token \in 1..resets
            /\ k \in Kind \cup {"set", "known", "tokened"} => email # None
    /\ \A k \in Kind : jobs[k] > 0 => email # None

\* The verifier of the row was mailed, or is about to be, to no other address.
VerifierInv ==
    /\ \A m \in inbox : m.kind = "verify" /\ m.token = verifier => m.to = email
    /\ \A h \in Handler : work[h].pc = "verify" /\ work[h].token = verifier => work[h].to = email

\* The reset token of the row is the newest, and unused unless requests crossed.
ResetInv ==
    /\ reset \in {0, resets}
    /\ ~crossed /\ reset # 0 => used[reset] = 0
    /\ \A t \in Token : t > resets => used[t] = 0

\* An address that counts as verified was itself sent the verifier that
\* verified it, however changes of address, mail jobs and clicks mix.
AddressIsProven ==
    email # None /\ verifier = 0 => [kind |-> "verify", to |-> email, token |-> spent] \in inbox

\* Is a mail of the kind with this token sent, or on its way?
Comes(k, token) ==
    \/ \E m \in inbox : m.kind = k /\ m.token = token
    \/ jobs[k] > 0
    \/ \E h \in Handler :
        /\ work[h].pc \in {k, IF k = "verify" THEN "set" ELSE "tokened"}
        /\ work[h].token = token

\* The verifier or reset token a row holds reaches the user, or will, unless the
\* request that set this very token failed before queueing its mail, or a job
\* that had read it was given up.
TokenIsMailed ==
    /\ email # None /\ verifier # 0 /\ <<"verify", verifier>> \notin lost
        => Comes("verify", verifier)
    /\ reset # 0 /\ <<"reset", reset>> \notin lost => Comes("reset", reset)

\* A reset link sets one password, and the newest one works until it has: unless
\* a password was set by a request that had compared the token before another
\* used or replaced it.
ResetWorksOnce ==
    ~crossed => /\ \A t \in Token : used[t] <= 1
                /\ resets > 0 /\ reset = 0 => used[resets] = 1

IInv ==
    /\ TypeOK /\ MailInv /\ VerifierInv /\ ResetInv
    /\ AddressIsProven /\ TokenIsMailed /\ ResetWorksOnce
=============================================================================
