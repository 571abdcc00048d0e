------------------------- MODULE AccountImportProofs -------------------------
(* Proofs about AccountImport, for every value of its constants. *)
EXTENDS AccountImport, TLAPS, FiniteSetTheorems

\* The fields of a job, and what MakeJob builds.
LEMMA JobFields ==
    ASSUME NEW j \in Job
    PROVE  /\ j.kind \in Kind /\ j.account \in Account
           /\ j.sub \in Sub \cup {NoSub} /\ j.attempt \in Attempt
           /\ j.kind = "AddSubmission" <=> j.sub \in Sub
           /\ j = MakeJob(j.kind, j.account, j.sub, j.attempt)
  BY DEF Job, MakeJob

LEMMA MadeJob ==
    ASSUME NEW kind \in Kind, NEW a \in Account, NEW s \in Sub \cup {NoSub},
           NEW n \in Attempt, kind = "AddSubmission" <=> s \in Sub
    PROVE  MakeJob(kind, a, s, n) \in Job
  BY DEF Job, MakeJob

LEMMA RedeliveredJob ==
    ASSUME NEW j \in Job, j.attempt < MaxRetry
    PROVE  Redelivery(j) \in Job
  <1>1. j.attempt + 1 \in Attempt
    BY JobFields, ConstantsAssumption DEF Attempt
  <1>2. QED
    BY <1>1, JobFields, MadeJob DEF Redelivery

LEMMA EnqueueType ==
    ASSUME queue \in [Job -> Nat], NEW j, Enqueue(j)
    PROVE  queue' \in [Job -> Nat]
  <1>1. queue' = [queue EXCEPT ![j] = queue[j] + 1]
    BY DEF Enqueue
  <1>2. \A i \in Job : queue'[i] \in Nat
    <2>1. TAKE i \in Job
    <2>2. CASE i = j
      BY <1>1, <2>2
    <2>3. CASE i # j
      BY <1>1, <2>3
    <2>4. QED
      BY <2>2, <2>3
  <1>3. QED
    BY <1>1, <1>2

\* Every variable stays in its type, a worker that is not idle holds a job,
\* and only submission jobs reach the code that counts them.
THEOREM TypeCorrect == Spec => []TypeOK
  <1>1. Init => TypeOK
    BY ConstantsAssumption
    DEF Init, TypeOK, LoadingState, Label
  <1>2. TypeOK /\ [Next]_vars => TypeOK'
    <2> SUFFICES ASSUME TypeOK, [Next]_vars PROVE TypeOK'
      OBVIOUS
    <2> USE DEF TypeOK, Goto, Label
    <2>1. CASE UNCHANGED vars
      BY <2>1 DEF vars, rows, imports, web, faktory, workers, history
    <2>2. ASSUME NEW a \in Account, WebStep(a) PROVE TypeOK'
      <3> USE DEF rows, imports, web, faktory, workers, history
      <3>1. CASE LinkWithToken(a)
        BY <3>1 DEF LinkWithToken
      <3>2. CASE CallbackCreate(a)
        BY <3>2 DEF CallbackCreate
      <3>3. CASE CallbackEnqueue(a)
        BY <3>3, EnqueueType DEF CallbackEnqueue
      <3>4. CASE CallbackFail(a)
        BY <3>4 DEF CallbackFail
      <3>5. CASE RequestVerify(a)
        BY <3>5, ConstantsAssumption, EnqueueType DEF RequestVerify
      <3>6. CASE Remove(a)
        BY <3>6 DEF Remove, LoadingState
      <3>7. CASE AdminComplete(a)
        BY <3>7 DEF AdminComplete
      <3>8. CASE AdminSetState(a)
        BY <3>8 DEF AdminSetState, SetLoading, LoadingState
      <3>9. QED
        BY <2>2, <3>1, <3>2, <3>3, <3>4, <3>5, <3>6, <3>7, <3>8 DEF WebStep
    <2>3. ASSUME NEW w \in Worker, Work(w) \/ Interrupt(w) PROVE TypeOK'
      <3> USE DEF rows, imports, web, faktory, workers, history, At
      <3>1. CASE Take(w)
        BY <3>1 DEF Take
      <3>2. CASE Ack(w)
        BY <3>2 DEF Ack, Leave
      <3>3. CASE Interrupt(w)
        BY <3>3 DEF Interrupt, Retry, Return, Leave, Enqueue
      <3>4. CASE VerifyLookup(w)
        BY <3>4 DEF VerifyLookup, GiveUp, Leave
      <3>5. CASE VerifyFound(w)
        BY <3>5 DEF VerifyFound
      <3>6. CASE VerifyNotFound(w)
        BY <3>6 DEF VerifyNotFound
      <3>7. CASE VerifyEnqueue(w)
        BY <3>7, JobFields, EnqueueType DEF VerifyEnqueue
      <3>8. CASE AddAccountStart(w)
        BY <3>8 DEF AddAccountStart, SetLoading, LoadingState, GiveUp, Leave
      <3>9. CASE AddAccountFurAffinity(w)
        BY <3>9, EnqueueType DEF AddAccountFurAffinity
      <3>10. CASE DiscoverLookup(w)
        BY <3>10 DEF DiscoverLookup, GiveUp, Leave
      <3>11. CASE DiscoverNothing(w)
        BY <3>11, JobFields DEF DiscoverNothing, SetLoading, LoadingState
      <3>12. CASE StartImport(w)
        BY <3>12, JobFields
        DEF StartImport, CanStart, Retry, Return, Leave, Enqueue
      <3>13. CASE SetLoadingItems(w)
        BY <3>13 DEF SetLoadingItems, SetLoading, LoadingState
      <3>14. CASE QueueSubmission(w)
        BY <3>14, EnqueueType DEF QueueSubmission
      <3>15. CASE QueueDone(w)
        BY <3>15 DEF QueueDone
      <3>16. CASE ProcessSubmission(w)
        BY <3>16 DEF ProcessSubmission
      <3>17. CASE RecordLoaded(w)
        BY <3>17, JobFields DEF RecordLoaded, Retry, Return, Leave, Enqueue
      <3>18. CASE MarkComplete(w)
        BY <3>18 DEF MarkComplete
      <3>19. CASE SetComplete(w)
        BY <3>19 DEF SetComplete, SetLoading, LoadingState
      <3>20. QED
        BY <2>3, <3>1, <3>2, <3>3, <3>4, <3>5, <3>6, <3>7, <3>8, <3>9, <3>10, <3>11,
           <3>12, <3>13, <3>14, <3>15, <3>16, <3>17, <3>18, <3>19
        DEF Work, Verify, Discover, AddSubmission
    <2>4. QED
      BY <2>1, <2>2, <2>3 DEF Next
  <1>3. QED
    BY <1>1, <1>2, PTL DEF Spec

-----------------------------------------------------------------------------
(* Delivery: which jobs a step adds to, or takes out of, what Faktory and  *)
(* the workers hold between them.                                          *)

IdleSame == \A v \in Worker : pc'[v] = "idle" <=> pc[v] = "idle"
Still == queue' = queue /\ dead' = dead /\ job' = job /\ IdleSame
Queued(j) == Enqueue(j) /\ dead' = dead /\ job' = job /\ IdleSame

LEMMA KnownStill ==
    ASSUME Still, NEW j
    PROVE  Known(j)' <=> Known(j)
  BY DEF Still, IdleSame, Known

LEMMA KnownQueued ==
    ASSUME TypeOK, NEW i \in Job, Queued(i), NEW j
    PROVE  Known(j)' <=> Known(j) \/ j = i
  BY DEF TypeOK, Queued, IdleSame, Enqueue, Known

LEMMA KnownTake ==
    ASSUME TypeOK, NEW w \in Worker, Take(w), NEW j
    PROVE  Known(j)' <=> Known(j)
  <1>1. PICK i \in Job : /\ queue[i] > 0
                         /\ queue' = [queue EXCEPT ![i] = @ - 1]
                         /\ job' = [job EXCEPT ![w] = i]
    BY DEF Take
  <1>2. /\ pc[w] = "idle" /\ pc'[w] = "start" /\ dead' = dead
        /\ \A v \in Worker \ {w} : pc'[v] = pc[v] /\ job'[v] = job[v]
        /\ job'[w] = i
    BY <1>1 DEF Take, Goto, TypeOK
  <1>3. CASE j = i
    BY <1>1, <1>2, <1>3 DEF Known
  <1>4. CASE j # i
    BY <1>1, <1>2, <1>4 DEF Known, TypeOK
  <1>5. QED
    BY <1>3, <1>4

LEMMA LeaveOthers ==
    ASSUME TypeOK, NEW w \in Worker, Leave(w)
    PROVE  /\ pc'[w] = "idle"
           /\ \A v \in Worker \ {w} : pc'[v] = pc[v] /\ job'[v] = job[v] /\ todo'[v] = todo[v]
  BY DEF TypeOK, Leave

LEMMA KnownAck ==
    ASSUME TypeOK, NEW w \in Worker, Ack(w), NEW j
    PROVE  /\ Known(j)' => Known(j)
           /\ Known(j) => Known(j)' \/ j = job[w]
  BY LeaveOthers DEF Ack, faktory, Known

LEMMA KnownGiveUp ==
    ASSUME TypeOK, NEW w \in Worker, pc[w] # "idle", GiveUp(w), NEW j
    PROVE  Known(j)' <=> Known(j)
  BY LeaveOthers DEF GiveUp, Known, TypeOK

\* A returned job stays known, at this attempt or at the next one.
LEMMA KnownRetry ==
    ASSUME TypeOK, NEW w \in Worker, pc[w] # "idle", Retry(w)
    PROVE  \/ \A j : Known(j)' <=> Known(j)
           \/ \E i \in Job :
                /\ i = Redelivery(job[w])
                /\ \A j : Known(j)' => Known(j) \/ j = i
                /\ \A j : Known(j) => Known(j)' \/ j = job[w]
                /\ Known(i)'
  <1>1. job[w] \in Job
    BY DEF TypeOK
  <1>2. CASE job[w].attempt < MaxRetry
    <2>1. PICK i \in Job : i = Redelivery(job[w])
      BY <1>1, <1>2, RedeliveredJob
    <2>2. /\ queue' = [queue EXCEPT ![i] = @ + 1]
          /\ dead' = dead
      BY <1>2, <2>1 DEF Retry, Return, Enqueue
    <2>3. /\ queue'[i] > 0
          /\ \A j \in Job : queue[j] > 0 => queue'[j] > 0
          /\ \A j \in Job : queue'[j] > 0 => queue[j] > 0 \/ j = i
      BY <2>1, <2>2 DEF TypeOK
    <2>4. \A j : Known(j)' => Known(j) \/ j = i
      BY <2>2, <2>3, LeaveOthers DEF Retry, Known
    <2>5. \A j : Known(j) => Known(j)' \/ j = job[w]
      BY <2>2, <2>3, LeaveOthers DEF Retry, Known
    <2>6. QED
      BY <2>1, <2>3, <2>4, <2>5 DEF Known
  <1>3. CASE ~(job[w].attempt < MaxRetry)
    BY <1>1, <1>3, LeaveOthers DEF Retry, Return, Known
  <1>4. QED
    BY <1>2, <1>3

LEMMA RunningCarried ==
    ASSUME TypeOK, NEW w \in Worker, pc[w] # "idle"
    PROVE  /\ job[w].kind \in Kind /\ job[w].account \in Account
           /\ job[w].sub \in Sub \cup {NoSub}
           /\ job[w].kind = "AddSubmission" <=> job[w].sub \in Sub
           /\ Carried(job[w].kind, job[w].account, job[w].sub)
  <1>1. job[w] \in Job
    BY DEF TypeOK
  <1>2. Known(job[w])
    BY <1>1 DEF Known
  <1>3. QED
    BY <1>1, <1>2, JobFields DEF Carried

LEMMA CarriedSame ==
    ASSUME \A j : Known(j)' <=> Known(j), NEW kind, NEW a, NEW s
    PROVE  Carried(kind, a, s)' <=> Carried(kind, a, s)
  BY DEF Carried

LEMMA CarriedRetry ==
    ASSUME TypeOK, NEW w \in Worker, pc[w] # "idle", Retry(w), NEW kind, NEW a, NEW s
    PROVE  Carried(kind, a, s)' <=> Carried(kind, a, s)
  <1>1. CASE \A j : Known(j)' <=> Known(j)
    BY <1>1, CarriedSame
  <1>2. ASSUME NEW i \in Job, i = Redelivery(job[w]),
               \A j : Known(j)' => Known(j) \/ j = i,
               \A j : Known(j) => Known(j)' \/ j = job[w],
               Known(i)'
        PROVE  Carried(kind, a, s)' <=> Carried(kind, a, s)
    <2>1. PICK r \in Job : r = job[w] /\ Known(r)
      BY DEF TypeOK, Known
    <2>2. /\ r.attempt \in Attempt /\ i.attempt \in Attempt
          /\ r = MakeJob(r.kind, r.account, r.sub, r.attempt)
          /\ i = MakeJob(r.kind, r.account, r.sub, i.attempt)
      BY <1>2, <2>1, JobFields DEF Redelivery, MakeJob
    <2>3. ASSUME Carried(kind, a, s)' PROVE Carried(kind, a, s)
      <3>1. PICK n \in Attempt : Known(MakeJob(kind, a, s, n))'
        BY <2>3 DEF Carried
      <3>2. CASE Known(MakeJob(kind, a, s, n))
        BY <3>2 DEF Carried
      <3>3. CASE MakeJob(kind, a, s, n) = i
        <4>1. kind = r.kind /\ a = r.account /\ s = r.sub
          BY <2>2, <3>3 DEF MakeJob
        <4>2. QED
          BY <2>1, <2>2, <4>1 DEF Carried
      <3>4. QED
        BY <1>2, <3>1, <3>2, <3>3
    <2>4. ASSUME Carried(kind, a, s) PROVE Carried(kind, a, s)'
      <3>1. PICK n \in Attempt : Known(MakeJob(kind, a, s, n))
        BY <2>4 DEF Carried
      <3>2. CASE Known(MakeJob(kind, a, s, n))'
        BY <3>2 DEF Carried
      <3>3. CASE MakeJob(kind, a, s, n) = r
        <4>1. kind = r.kind /\ a = r.account /\ s = r.sub
          BY <3>3 DEF MakeJob
        <4>2. Known(MakeJob(kind, a, s, i.attempt))'
          BY <1>2, <2>2, <4>1
        <4>3. QED
          BY <2>2, <4>2 DEF Carried
      <3>4. QED
        BY <1>2, <2>1, <3>1, <3>2, <3>3
    <2>5. QED
      BY <2>3, <2>4
  <1>3. QED
    BY <1>1, <1>2, KnownRetry

LEMMA CarriedQueued ==
    ASSUME TypeOK, NEW i \in Job, Queued(i), NEW kind, NEW a, NEW s
    PROVE  /\ Carried(kind, a, s) => Carried(kind, a, s)'
           /\ Carried(kind, a, s)' =>
                 Carried(kind, a, s) \/ (kind = i.kind /\ a = i.account /\ s = i.sub)
           /\ Carried(i.kind, i.account, i.sub)'
  <1>1. \A j : Known(j)' <=> Known(j) \/ j = i
    BY KnownQueued
  <1>2. i.attempt \in Attempt /\ i = MakeJob(i.kind, i.account, i.sub, i.attempt)
    BY JobFields
  <1>3. \A n : MakeJob(kind, a, s, n) = i => kind = i.kind /\ a = i.account /\ s = i.sub
    BY DEF MakeJob
  <1>4. QED
    BY <1>1, <1>2, <1>3 DEF Carried

LEMMA CarriedAck ==
    ASSUME TypeOK, NEW w \in Worker, Ack(w), NEW kind, NEW a, NEW s
    PROVE  /\ Carried(kind, a, s)' => Carried(kind, a, s)
           /\ Carried(kind, a, s) =>
                 \/ Carried(kind, a, s)'
                 \/ kind = job[w].kind /\ a = job[w].account /\ s = job[w].sub
  <1>1. \A j : (Known(j)' => Known(j)) /\ (Known(j) => Known(j)' \/ j = job[w])
    BY KnownAck
  <1>2. \A n : MakeJob(kind, a, s, n) = job[w] =>
                  kind = job[w].kind /\ a = job[w].account /\ s = job[w].sub
    BY DEF MakeJob
  <1>3. QED
    BY <1>1, <1>2 DEF Carried

\* The step queues a job of this kind, for this account and submission ...
NewJob(kind, a, s) ==
    \/ kind = "AddAccount" /\ s = NoSub /\ CallbackEnqueue(a)
    \/ kind = "VerifyAccount" /\ s = NoSub /\ RequestVerify(a)
    \/ \E w \in Worker :
        /\ a = job[w].account
        /\ \/ kind = "AddAccount" /\ s = NoSub /\ VerifyEnqueue(w)
           \/ kind = "DiscoverFurAffinity" /\ s = NoSub /\ AddAccountFurAffinity(w)
           \/ kind = "AddSubmission" /\ pc[w] = "queue" /\ s \in todo[w]

\* ... or acknowledges one.
Acked(kind, a, s) ==
    \E w \in Worker :
        Ack(w) /\ kind = job[w].kind /\ a = job[w].account /\ s = job[w].sub

\* The submission a turn of the queueing loop takes from the list is carried
\* by a job from then on.
LEMMA QueueSubmissionStep ==
    ASSUME TypeOK, NEW w \in Worker, QueueSubmission(w)
    PROVE  \E a \in Account, t \in todo[w] :
              /\ a = job[w].account
              /\ SubmissionJob(a, t) \in Job
              /\ Queued(SubmissionJob(a, t))
              /\ todo' = [todo EXCEPT ![w] = @ \ {t}]
  <1>1. PICK t \in todo[w] : /\ Enqueue(SubmissionJob(job[w].account, t))
                             /\ todo' = [todo EXCEPT ![w] = @ \ {t}]
    BY DEF QueueSubmission
  <1>2. job[w] \in Job /\ t \in Sub
    BY DEF TypeOK, QueueSubmission
  <1>3. PICK a \in Account : a = job[w].account
    BY <1>2, JobFields
  <1>4. 0 \in Attempt /\ "AddSubmission" \in Kind
    BY ConstantsAssumption DEF Attempt, Kind
  <1>5. SubmissionJob(a, t) \in Job
    BY <1>2, <1>3, <1>4, MadeJob DEF SubmissionJob
  <1>6. Queued(SubmissionJob(a, t))
    BY <1>1, <1>3 DEF QueueSubmission, Queued, IdleSame
  <1>7. QED
    BY <1>1, <1>3, <1>5, <1>6

\* The other enqueues are of jobs about the account as a whole.
LEMMA AccountJobStep ==
    ASSUME TypeOK, [Next]_vars, NEW kind \in Kind \ {"AddSubmission"}, NEW a \in Account,
           Queued(AccountJob(kind, a))
    PROVE  \A k, b, s :
              /\ Carried(k, b, s) => Carried(k, b, s)'
              /\ Carried(k, b, s)' => Carried(k, b, s) \/ (k = kind /\ b = a /\ s = NoSub)
  <1>1. 0 \in Attempt
    BY ConstantsAssumption DEF Attempt
  <1>2. AccountJob(kind, a) \in Job
    BY <1>1, MadeJob, ConstantsAssumption DEF AccountJob
  <1>3. /\ AccountJob(kind, a).kind = kind /\ AccountJob(kind, a).account = a
        /\ AccountJob(kind, a).sub = NoSub
    BY DEF AccountJob, MakeJob
  <1>4. QED
    BY <1>2, <1>3, CarriedQueued

\* How a step changes what is carried: only the five enqueues add a job, only
\* an acknowledgement loses one.
LEMMA CarriedStep ==
    ASSUME TypeOK, [Next]_vars
    PROVE  \A kind, a, s :
              /\ Carried(kind, a, s)' => Carried(kind, a, s) \/ NewJob(kind, a, s)
              /\ Carried(kind, a, s) => Carried(kind, a, s)' \/ Acked(kind, a, s)
  <1> DEFINE Goal == \A kind, a, s :
              /\ Carried(kind, a, s)' => Carried(kind, a, s) \/ NewJob(kind, a, s)
              /\ Carried(kind, a, s) => Carried(kind, a, s)' \/ Acked(kind, a, s)
  <1>1. ASSUME Still PROVE Goal
    BY <1>1, KnownStill, CarriedSame
  <1>2. CASE UNCHANGED vars
    BY <1>1, <1>2 DEF vars, workers, faktory, Still, IdleSame
  <1>3. ASSUME NEW b \in Account, WebStep(b) PROVE Goal
    <2>1. CASE CallbackEnqueue(b)
      <3>1. Queued(AccountJob("AddAccount", b))
        BY <2>1 DEF CallbackEnqueue, Queued, workers, IdleSame
      <3>2. QED
        BY <2>1, <3>1, AccountJobStep DEF NewJob, Kind
    <2>2. CASE RequestVerify(b)
      <3>1. Queued(AccountJob("VerifyAccount", b))
        BY <2>2 DEF RequestVerify, Queued, workers, IdleSame
      <3>2. QED
        BY <2>2, <3>1, AccountJobStep DEF NewJob, Kind
    <2>3. CASE \/ LinkWithToken(b) \/ CallbackCreate(b) \/ CallbackFail(b)
               \/ Remove(b) \/ AdminComplete(b) \/ AdminSetState(b)
      <3>1. Still
        BY <2>3
        DEF LinkWithToken, CallbackCreate, CallbackFail, Remove, AdminComplete,
            AdminSetState, Still, IdleSame, workers, faktory
      <3>2. QED
        BY <3>1, <1>1
    <2>4. QED
      BY <1>3, <2>1, <2>2, <2>3 DEF WebStep
  <1>4. ASSUME NEW w \in Worker, Work(w) \/ Interrupt(w) PROVE Goal
    <2>1. ASSUME pc[w] # "idle", Retry(w) \/ GiveUp(w) PROVE Goal
      BY <2>1, CarriedRetry, KnownGiveUp, CarriedSame
    <2>2. CASE Take(w)
      BY <2>2, KnownTake, CarriedSame
    <2>3. CASE Ack(w)
      BY <2>3, CarriedAck DEF Acked
    <2>4. CASE Interrupt(w)
      BY <2>4, <2>1 DEF Interrupt
    <2>5. CASE VerifyLookup(w) \/ AddAccountStart(w) \/ DiscoverLookup(w)
      <3>1. \/ Still
            \/ pc[w] # "idle" /\ GiveUp(w)
        BY <2>5
        DEF VerifyLookup, AddAccountStart, DiscoverLookup, At, Goto, Still, IdleSame,
            faktory, TypeOK
      <3>2. QED
        BY <3>1, <2>1, <1>1
    <2>6. CASE StartImport(w) \/ RecordLoaded(w)
      <3>1. \/ Still
            \/ pc[w] # "idle" /\ Retry(w)
        BY <2>6 DEF StartImport, RecordLoaded, Goto, Still, IdleSame, faktory, TypeOK
      <3>2. QED
        BY <3>1, <2>1, <1>1
    <2>7. CASE VerifyEnqueue(w) \/ AddAccountFurAffinity(w)
      <3>1. job[w] \in Job
        BY <2>7 DEF VerifyEnqueue, AddAccountFurAffinity, At, TypeOK
      <3>2. PICK b \in Account : b = job[w].account
        BY <3>1, JobFields
      <3>3. CASE VerifyEnqueue(w)
        <4>1. Queued(AccountJob("AddAccount", b))
          BY <3>2, <3>3 DEF VerifyEnqueue, At, Goto, Queued, IdleSame, TypeOK
        <4>2. QED
          BY <3>2, <3>3, <4>1, AccountJobStep DEF NewJob, Kind
      <3>4. CASE AddAccountFurAffinity(w)
        <4>1. Queued(AccountJob("DiscoverFurAffinity", b))
          BY <3>2, <3>4 DEF AddAccountFurAffinity, At, Goto, Queued, IdleSame, TypeOK
        <4>2. QED
          BY <3>2, <3>4, <4>1, AccountJobStep DEF NewJob, Kind
      <3>5. QED
        BY <2>7, <3>3, <3>4
    <2>8. CASE QueueSubmission(w)
      <3>1. PICK b \in Account, t \in todo[w] :
              /\ b = job[w].account
              /\ SubmissionJob(b, t) \in Job
              /\ Queued(SubmissionJob(b, t))
        BY <2>8, QueueSubmissionStep
      <3>2. /\ SubmissionJob(b, t).kind = "AddSubmission"
            /\ SubmissionJob(b, t).account = b /\ SubmissionJob(b, t).sub = t
        BY DEF SubmissionJob, MakeJob
      <3>3. pc[w] = "queue"
        BY <2>8 DEF QueueSubmission
      <3>4. QED
        BY <3>1, <3>2, <3>3, CarriedQueued DEF NewJob
    <2>9. CASE \/ VerifyFound(w) \/ VerifyNotFound(w) \/ DiscoverNothing(w)
               \/ SetLoadingItems(w) \/ QueueDone(w) \/ ProcessSubmission(w)
               \/ MarkComplete(w) \/ SetComplete(w)
      <3>1. Still
        BY <2>9
        DEF VerifyFound, VerifyNotFound, DiscoverNothing, SetLoadingItems, QueueDone,
            ProcessSubmission, MarkComplete, SetComplete, At, Goto, Still, IdleSame,
            faktory, TypeOK
      <3>2. QED
        BY <3>1, <1>1
    <2>10. QED
      BY <1>4, <2>2, <2>3, <2>4, <2>5, <2>6, <2>7, <2>8, <2>9
      DEF Work, Verify, Discover, AddSubmission
  <1>5. QED
    BY <1>2, <1>3, <1>4 DEF Next

-----------------------------------------------------------------------------
(* The rows.                                                               *)

\* What no step undoes: an account that is gone stays gone, and as long as
\* its import row lives it expects the same ids and forgets none it counted.
RowsKept ==
    /\ linked \cup removed \subseteq linked' \cup removed'
    /\ removed \subseteq removed'
    /\ started \subseteq started' \cup removed'
    /\ verified \subseteq verified' \cup removed'
    /\ foundEmpty \subseteq foundEmpty' /\ overridden \subseteq overridden'
    /\ \A a \in started \cap started' :
          /\ expected'[a] = expected[a] /\ loaded[a] \subseteq loaded'[a]
          /\ a \in completed => a \in completed'

LEMMA RowsStep ==
    ASSUME TypeOK, RowsInv, [Next]_vars
    PROVE  RowsInv' /\ RowsKept
  <1> USE DEF RowsInv, RowsKept, rows, imports, web, history, TypeOK
  <1>1. CASE UNCHANGED vars
    BY <1>1 DEF vars
  <1>2. ASSUME NEW b \in Account, WebStep(b) PROVE RowsInv' /\ RowsKept
    <2>1. CASE LinkWithToken(b) \/ CallbackCreate(b)
      BY <2>1 DEF LinkWithToken, CallbackCreate
    <2>2. CASE CallbackEnqueue(b) \/ CallbackFail(b) \/ RequestVerify(b)
      BY <2>2 DEF CallbackEnqueue, CallbackFail, RequestVerify
    <2>3. CASE Remove(b)
      BY <2>3 DEF Remove
    <2>4. CASE AdminComplete(b) \/ AdminSetState(b)
      BY <2>4 DEF AdminComplete, AdminSetState
    <2>5. QED
      BY <1>2, <2>1, <2>2, <2>3, <2>4 DEF WebStep
  <1>3. ASSUME NEW w \in Worker, Work(w) \/ Interrupt(w) PROVE RowsInv' /\ RowsKept
    <2>1. CASE StartImport(w)
      BY <2>1 DEF StartImport, CanStart
    <2>2. CASE RecordLoaded(w)
      BY <2>2 DEF RecordLoaded
    <2>3. CASE MarkComplete(w)
      BY <2>3 DEF MarkComplete
    <2>4. CASE VerifyFound(w)
      BY <2>4 DEF VerifyFound
    <2>5. CASE DiscoverNothing(w)
      BY <2>5 DEF DiscoverNothing
    <2>6. CASE \/ Take(w) \/ Ack(w) \/ Interrupt(w)
               \/ VerifyLookup(w) \/ VerifyNotFound(w) \/ VerifyEnqueue(w)
               \/ AddAccountStart(w) \/ AddAccountFurAffinity(w) \/ DiscoverLookup(w)
               \/ SetLoadingItems(w) \/ QueueSubmission(w) \/ QueueDone(w)
               \/ ProcessSubmission(w) \/ SetComplete(w)
      BY <2>6
      DEF Take, Ack, Interrupt, VerifyLookup, VerifyNotFound, VerifyEnqueue,
          AddAccountStart, AddAccountFurAffinity, DiscoverLookup, SetLoadingItems,
          QueueSubmission, QueueDone, ProcessSubmission, SetComplete
    <2>7. QED
      BY <1>3, <2>1, <2>2, <2>3, <2>4, <2>5, <2>6
      DEF Work, Verify, Discover, AddSubmission
  <1>4. QED
    BY <1>1, <1>2, <1>3 DEF Next

\* What a known job says of its account stays true: the three facts depend on
\* rows that no step undoes, and each enqueue establishes them.
LEMMA JobsStep ==
    ASSUME TypeOK, RowsInv, JobsInv, PlacesInv, HandoverInv, [Next]_vars
    PROVE  JobsInv'
  <1> SUFFICES ASSUME NEW kind \in Kind, NEW a \in Account, NEW s \in Sub \cup {NoSub},
                      Carried(kind, a, s)'
               PROVE  /\ a \in linked' \cup removed'
                      /\ kind = "DiscoverFurAffinity" => Discoverer(a) = kind
                      /\ kind = "AddSubmission" =>
                            a \in removed' \/ (a \in started' /\ s \in expected'[a])
    BY DEF JobsInv, Discoverer
  <1>1. CASE Carried(kind, a, s)
    BY <1>1, RowsStep DEF JobsInv, RowsKept
  <1>2. CASE NewJob(kind, a, s)
    <2>1. CASE CallbackEnqueue(a) /\ kind = "AddAccount"
      BY <2>1, RowsStep DEF CallbackEnqueue, RowsInv, RowsKept
    <2>2. CASE RequestVerify(a) /\ kind = "VerifyAccount"
      BY <2>2, RowsStep DEF RequestVerify, RowsKept
    <2>3. ASSUME NEW w \in Worker, a = job[w].account, pc[w] # "idle"
          PROVE  a \in linked' \cup removed'
      BY <2>3, RunningCarried, RowsStep DEF JobsInv, RowsKept
    <2>4. ASSUME NEW w \in Worker, a = job[w].account, AddAccountFurAffinity(w)
          PROVE  Discoverer(a) = "DiscoverFurAffinity"
      BY <2>4 DEF PlacesInv, AddAccountFurAffinity, At
    <2>5. ASSUME NEW w \in Worker, a = job[w].account, pc[w] = "queue", s \in todo[w]
          PROVE  a \in removed' \/ (a \in started' /\ s \in expected'[a])
      BY <2>5, RowsStep DEF HandoverInv, RowsKept
    <2>6. QED
      BY <1>2, <2>1, <2>2, <2>3, <2>4, <2>5
      DEF NewJob, VerifyEnqueue, AddAccountFurAffinity, At
  <1>3. QED
    BY <1>1, <1>2, CarriedStep

-----------------------------------------------------------------------------
(* The workers.                                                            *)

\* Only the worker that acts moves.
LEMMA OthersKept ==
    ASSUME TypeOK, [Next]_vars, NEW v \in Worker
    PROVE  \/ pc'[v] = pc[v] /\ job'[v] = job[v] /\ todo'[v] = todo[v]
           \/ Work(v) \/ Interrupt(v)
  <1>1. CASE UNCHANGED vars
    BY <1>1 DEF vars, workers
  <1>2. ASSUME NEW b \in Account, WebStep(b) PROVE UNCHANGED workers
    BY <1>2
    DEF WebStep, LinkWithToken, CallbackCreate, CallbackEnqueue, CallbackFail,
        RequestVerify, Remove, AdminComplete, AdminSetState
  <1>3. ASSUME NEW w \in Worker, Work(w) \/ Interrupt(w), v # w
        PROVE  pc'[v] = pc[v] /\ job'[v] = job[v] /\ todo'[v] = todo[v]
    <2> USE DEF TypeOK, Goto, Leave, GiveUp, Retry
    <2>1. CASE Take(w) \/ Ack(w) \/ Interrupt(w)
      BY <1>3, <2>1 DEF Take, Ack, Interrupt
    <2>2. CASE Verify(w)
      BY <1>3, <2>2
      DEF Verify, VerifyLookup, VerifyFound, VerifyNotFound, VerifyEnqueue
    <2>3. CASE Discover(w)
      BY <1>3, <2>3
      DEF Discover, AddAccountStart, AddAccountFurAffinity, DiscoverLookup,
          DiscoverNothing, StartImport, SetLoadingItems, QueueSubmission, QueueDone
    <2>4. CASE AddSubmission(w)
      BY <1>3, <2>4
      DEF AddSubmission, ProcessSubmission, RecordLoaded, MarkComplete, SetComplete
    <2>5. QED
      BY <1>3, <2>1, <2>2, <2>3, <2>4 DEF Work
  <1>4. QED
    BY <1>1, <1>2, <1>3 DEF Next, workers

\* What an acting worker does to its own program counter, action by action.
LEMMA ActorMoves ==
    ASSUME TypeOK, NEW w \in Worker, Work(w) \/ Interrupt(w)
    PROVE  \/ Take(w) /\ pc'[w] = "start"
           \/ pc'[w] = "idle"
           \/ /\ job'[w] = job[w]
              /\ \/ At(w, "VerifyAccount", "start") /\ pc'[w] = "profile"
                 \/ VerifyFound(w) /\ pc'[w] = "enqueue_add"
                 \/ VerifyNotFound(w)
                    /\ pc'[w] = (IF SkipVerifications THEN "enqueue_add" ELSE "done")
                 \/ VerifyEnqueue(w) /\ pc'[w] = "done"
                 \/ /\ At(w, "AddAccount", "start")
                    /\ pc'[w] = (IF Discoverer(job[w].account) = "AddAccount"
                                 THEN "discover" ELSE "enqueue_discover")
                 \/ AddAccountFurAffinity(w) /\ pc'[w] = "done"
                 \/ At(w, "DiscoverFurAffinity", "start") /\ pc'[w] = "discover"
                 \/ DiscoverNothing(w) /\ pc'[w] = "done"
                 \/ StartImport(w) /\ pc'[w] = "set_loading" /\ CanStart(job[w].account)
                 \/ SetLoadingItems(w) /\ pc'[w] = "queue"
                 \/ QueueSubmission(w) /\ pc'[w] = "queue"
                 \/ QueueDone(w) /\ pc'[w] = "done"
                 \/ ProcessSubmission(w) /\ pc'[w] = "progress"
                 \/ /\ RecordLoaded(w) /\ job[w].account \in started
                    /\ pc'[w] \in {"complete", "done"}
                 \/ MarkComplete(w) /\ pc'[w] = "set_complete"
                 \/ SetComplete(w) /\ pc'[w] = "done"
  <1> USE DEF TypeOK, Goto, Leave, GiveUp, Retry
  <1>1. CASE Take(w)
    BY <1>1 DEF Take
  <1>2. CASE Ack(w) \/ Interrupt(w)
    BY <1>2 DEF Ack, Interrupt
  <1>3. CASE VerifyLookup(w) \/ DiscoverLookup(w) \/ AddAccountStart(w)
    BY <1>3 DEF VerifyLookup, DiscoverLookup, AddAccountStart, At
  <1>4. CASE VerifyFound(w) \/ VerifyNotFound(w) \/ VerifyEnqueue(w)
    BY <1>4 DEF VerifyFound, VerifyNotFound, VerifyEnqueue, At
  <1>5. CASE AddAccountFurAffinity(w) \/ DiscoverNothing(w)
    BY <1>5 DEF AddAccountFurAffinity, DiscoverNothing
  <1>6. CASE StartImport(w)
    BY <1>6 DEF StartImport
  <1>7. CASE SetLoadingItems(w) \/ QueueSubmission(w) \/ QueueDone(w)
    BY <1>7 DEF SetLoadingItems, QueueSubmission, QueueDone
  <1>8. CASE ProcessSubmission(w) \/ MarkComplete(w) \/ SetComplete(w)
    BY <1>8 DEF ProcessSubmission, MarkComplete, SetComplete
  <1>9. CASE RecordLoaded(w)
    BY <1>9 DEF RecordLoaded
  <1>10. QED
    BY <1>1, <1>2, <1>3, <1>4, <1>5, <1>6, <1>7, <1>8, <1>9
    DEF Work, Verify, Discover, AddSubmission

LEMMA PlacesStep ==
    ASSUME TypeOK, JobsInv, PlacesInv, [Next]_vars
    PROVE  PlacesInv'
  <1> DEFINE Place(v) ==
        /\ pc[v] \in {"profile", "enqueue_add"} => job[v].kind = "VerifyAccount"
        /\ pc[v] = "enqueue_discover" =>
              job[v].kind = "AddAccount" /\ Discoverer(job[v].account) = "DiscoverFurAffinity"
        /\ pc[v] \in {"discover", "set_loading", "queue"} =>
              job[v].kind = Discoverer(job[v].account)
  <1> SUFFICES ASSUME NEW v \in Worker, pc'[v] # "idle" PROVE Place(v)'
    BY DEF PlacesInv, Discoverer
  <1>1. pc[v] # "idle" => Place(v)
    BY DEF PlacesInv
  <1>2. CASE pc'[v] = pc[v] /\ job'[v] = job[v]
    BY <1>1, <1>2 DEF Discoverer
  <1>3. CASE Work(v) \/ Interrupt(v)
    <2>1. ASSUME At(v, "DiscoverFurAffinity", "start")
          PROVE  Discoverer(job[v].account) = "DiscoverFurAffinity"
      BY <2>1, RunningCarried DEF JobsInv, At
    <2>2. QED
      BY <1>1, <1>3, <2>1, ActorMoves
      DEF Discoverer, At, VerifyFound, VerifyNotFound, StartImport, SetLoadingItems,
          QueueSubmission
  <1>4. QED
    BY <1>2, <1>3, OthersKept

\* A new import row belongs to the account whose discovery just ran.
LEMMA NewImport ==
    ASSUME TypeOK, [Next]_vars, NEW a \in started', a \notin started
    PROVE  \E w \in Worker : StartImport(w) /\ a = job[w].account
  <1> USE DEF rows, imports
  <1>1. CASE UNCHANGED vars
    BY <1>1 DEF vars
  <1>2. ASSUME NEW b \in Account, WebStep(b) PROVE started' \subseteq started
    BY <1>2
    DEF WebStep, LinkWithToken, CallbackCreate, CallbackEnqueue, CallbackFail,
        RequestVerify, Remove, AdminComplete, AdminSetState
  <1>3. ASSUME NEW w \in Worker, Work(w) \/ Interrupt(w), ~StartImport(w)
        PROVE  started' = started
    BY <1>3
    DEF Work, Take, Ack, Interrupt, Verify, VerifyLookup, VerifyFound, VerifyNotFound,
        VerifyEnqueue, Discover, AddAccountStart, AddAccountFurAffinity, DiscoverLookup,
        DiscoverNothing, SetLoadingItems, QueueSubmission, QueueDone, AddSubmission,
        ProcessSubmission, RecordLoaded, MarkComplete, SetComplete
  <1>4. ASSUME NEW w \in Worker, StartImport(w)
        PROVE  started' \subseteq started \cup {job[w].account}
    BY <1>4 DEF StartImport
  <1>5. QED
    BY <1>1, <1>2, <1>3, <1>4 DEF Next

-----------------------------------------------------------------------------
(* Verification.                                                           *)

LEMMA VerifiedStep ==
    ASSUME TypeOK, RowsInv, JobsInv, PlacesInv, VerifiedInv, [Next]_vars
    PROVE  VerifiedInv'
  <1> SUFFICES ASSUME ~SkipVerifications PROVE VerifiedInv'
    BY DEF VerifiedInv
  <1> DEFINE Good(a) == a \in verified \cup removed
  <1>1. \A a : Good(a) => Good(a)'
    BY RowsStep DEF RowsKept
  <1>2. ASSUME NEW w \in Worker, pc[w] # "idle", job[w].kind # "VerifyAccount"
        PROVE  Good(job[w].account)
    BY <1>2, RunningCarried DEF VerifiedInv
  <1>3. ASSUME NEW a \in started' PROVE a \in verified'
    <2>1. Good(a)
      <3>1. CASE a \in started
        BY <3>1 DEF VerifiedInv
      <3>2. CASE a \notin started
        <4>1. PICK w \in Worker : StartImport(w) /\ a = job[w].account
          BY <3>2, NewImport
        <4>2. pc[w] = "discover" /\ job[w].kind # "VerifyAccount"
          BY <4>1 DEF StartImport, PlacesInv, Discoverer
        <4>3. QED
          BY <1>2, <4>1, <4>2
      <3>3. QED
        BY <3>1, <3>2
    <2>2. QED
      BY <1>1, <2>1, RowsStep DEF RowsInv
  <1>4. ASSUME NEW v \in Worker, pc'[v] = "enqueue_add" PROVE Good(job[v].account)'
    <2>1. CASE pc'[v] = pc[v] /\ job'[v] = job[v]
      BY <1>1, <1>4, <2>1 DEF VerifiedInv
    <2>2. CASE Work(v) \/ Interrupt(v)
      <3>1. VerifyFound(v) /\ job'[v] = job[v]
        BY <1>4, <2>2, ActorMoves
      <3>2. job[v].account \in linked \cup removed
        BY <3>1, RunningCarried DEF VerifyFound, At, JobsInv
      <3>3. QED
        BY <3>1, <3>2, RowsStep DEF VerifyFound, RowsKept, rows
    <2>3. QED
      BY <2>1, <2>2, OthersKept
  <1>5. ASSUME NEW kind \in Kind \ {"VerifyAccount"}, NEW a \in Account,
               NEW s \in Sub \cup {NoSub}, Carried(kind, a, s)'
        PROVE  Good(a)'
    <2>1. CASE Carried(kind, a, s)
      BY <1>1, <2>1 DEF VerifiedInv
    <2>2. CASE NewJob(kind, a, s)
      <3>1. CASE CallbackEnqueue(a)
        BY <1>1, <3>1 DEF CallbackEnqueue, RowsInv
      <3>2. ASSUME NEW w \in Worker, a = job[w].account, VerifyEnqueue(w) PROVE Good(a)'
        BY <1>1, <3>2 DEF VerifyEnqueue, At, VerifiedInv
      <3>3. ASSUME NEW w \in Worker, a = job[w].account,
                   AddAccountFurAffinity(w) \/ pc[w] = "queue"
            PROVE  Good(a)'
        <4>1. pc[w] # "idle" /\ job[w].kind # "VerifyAccount"
          BY <3>3 DEF AddAccountFurAffinity, At, PlacesInv, Discoverer
        <4>2. QED
          BY <1>1, <1>2, <3>3, <4>1
      <3>4. QED
        BY <2>2, <3>1, <3>2, <3>3 DEF NewJob
    <2>3. QED
      BY <1>5, <2>1, <2>2, CarriedStep
  <1>6. QED
    BY <1>3, <1>4, <1>5 DEF VerifiedInv

-----------------------------------------------------------------------------
(* Handing the submissions over.                                           *)

\* An expected submission that is accounted for stays so: a submission job is
\* acknowledged only after the append.
LEMMA AccountedStep ==
    ASSUME TypeOK, RowsInv, LoadedInv, [Next]_vars,
           NEW a \in started, a \in started', NEW s \in Sub, Accounted(a, s)
    PROVE  Accounted(a, s)'
  <1>1. loaded[a] \subseteq loaded'[a]
    BY RowsStep DEF RowsKept
  <1>2. CASE Counted(a, s)
    BY <1>1, <1>2 DEF Accounted, Counted
  <1>3. CASE Acked("AddSubmission", a, s)
    <2>1. PICK w \in Worker : /\ Ack(w) /\ job[w].kind = "AddSubmission"
                              /\ a = job[w].account /\ s = job[w].sub
      BY <1>3 DEF Acked
    <2>2. pc[w] = "done" /\ job[w].attempt \in Attempt
      BY <2>1, JobFields DEF Ack, TypeOK
    <2>3. <<s, job[w].attempt>> \in loaded[a]
      BY <2>1, <2>2 DEF LoadedInv, RowsInv
    <2>4. PICK n \in Attempt : <<s, n>> \in loaded[a]
      BY <2>2, <2>3
    <2>5. QED
      BY <1>1, <2>4 DEF Accounted, Counted
  <1>4. QED
    BY <1>2, <1>3, CarriedStep DEF Accounted

\* All submissions the import of a expects, but these, are accounted for.
Handed(a, rest) ==
    \/ a \in removed
    \/ /\ a \in started
       /\ rest \subseteq expected[a]
       /\ \A s \in expected[a] \ rest : Accounted(a, s)

LEMMA HandedStep ==
    ASSUME TypeOK, RowsInv, LoadedInv, [Next]_vars,
           NEW a \in Account, NEW rest, Handed(a, rest)
    PROVE  Handed(a, rest)'
  <1>1. CASE a \in started /\ a \in started'
    <2>1. expected'[a] = expected[a] /\ expected[a] \subseteq Sub
      BY <1>1, RowsStep DEF RowsKept, TypeOK
    <2>2. \A s \in expected[a] \ rest : Accounted(a, s)
      BY <1>1 DEF Handed, RowsInv
    <2>3. \A s \in expected[a] \ rest : Accounted(a, s)'
      BY <1>1, <2>1, <2>2, AccountedStep
    <2>4. QED
      BY <1>1, <2>1, <2>3 DEF Handed, RowsInv
  <1>2. CASE ~(a \in started /\ a \in started')
    BY <1>2, RowsStep DEF Handed, RowsKept
  <1>3. QED
    BY <1>1, <1>2

LEMMA HandoverStep ==
    ASSUME TypeOK, RowsInv, PlacesInv, LoadedInv, HandoverInv, [Next]_vars
    PROVE  HandoverInv'
  <1> DEFINE Queueing(v) ==
        pc[v] \in {"set_loading", "queue"} => Handed(job[v].account, todo[v])
  <1> DEFINE Finished(v) ==
        pc[v] = "done" /\ job[v].kind = Discoverer(job[v].account) =>
            job[v].account \in foundEmpty \/ Handed(job[v].account, {})
  <1>1. \A v \in Worker : Queueing(v) /\ Finished(v)
    BY DEF HandoverInv, Handed
  <1>2. SUFFICES ASSUME NEW v \in Worker PROVE Queueing(v)' /\ Finished(v)'
    BY DEF HandoverInv, Handed, Discoverer
  <1>3. CASE pc'[v] = pc[v] /\ job'[v] = job[v] /\ todo'[v] = todo[v]
    <2>1. CASE pc[v] = "idle"
      BY <1>3, <2>1
    <2>2. CASE pc[v] # "idle"
      <3>1. PICK a \in Account : a = job[v].account
        BY <2>2, RunningCarried
      <3>2. PICK rest : rest = todo[v]
        OBVIOUS
      <3>3. /\ Handed(a, rest) => Handed(a, rest)'
            /\ Handed(a, {}) => Handed(a, {})'
        BY HandedStep
      <3>4. Queueing(v)'
        BY <1>1, <1>3, <3>1, <3>2, <3>3
      <3>5. Finished(v)'
        BY <1>1, <1>3, <3>1, <3>3, RowsStep DEF RowsKept, Discoverer
      <3>6. QED
        BY <3>4, <3>5
    <2>3. QED
      BY <2>1, <2>2
  <1>4. CASE Work(v) \/ Interrupt(v)
    <2>1. CASE pc'[v] \notin {"set_loading", "queue", "done"}
      BY <2>1
    <2>2. ASSUME pc'[v] \in {"set_loading", "queue", "done"} PROVE pc[v] # "idle"
      BY <1>4, <2>2, ActorMoves
      DEF At, VerifyFound, VerifyNotFound, VerifyEnqueue, AddAccountFurAffinity,
          DiscoverNothing, StartImport, SetLoadingItems, QueueSubmission, QueueDone,
          RecordLoaded, SetComplete
    <2>3. ASSUME NEW a \in Account, a = job[v].account, job'[v] = job[v],
                 StartImport(v), CanStart(a), pc'[v] = "set_loading"
          PROVE  Queueing(v)' /\ Finished(v)'
      <3>1. PICK ids \in SUBSET Sub : /\ started' = started \cup {a}
                                      /\ expected' = [expected EXCEPT ![a] = ids]
                                      /\ todo' = [todo EXCEPT ![v] = ids]
        BY <2>3 DEF StartImport
      <3>2. a \in started' /\ expected'[a] = ids /\ todo'[v] = ids
        BY <3>1 DEF TypeOK
      <3>3. Handed(a, ids)'
        BY <3>2 DEF Handed
      <3>4. QED
        BY <2>3, <3>2, <3>3
    <2>4. ASSUME NEW a \in Account, a = job[v].account, job'[v] = job[v],
                 SetLoadingItems(v), pc'[v] = "queue"
          PROVE  Queueing(v)' /\ Finished(v)'
      <3>1. PICK rest : rest = todo[v] /\ rest = todo'[v]
        BY <2>4 DEF SetLoadingItems
      <3>2. Handed(a, rest)
        BY <1>1, <2>4, <3>1 DEF SetLoadingItems
      <3>3. QED
        BY <2>4, <3>1, <3>2, HandedStep
    <2>5. ASSUME NEW a \in Account, a = job[v].account, job'[v] = job[v],
                 QueueSubmission(v), pc'[v] = "queue"
          PROVE  Queueing(v)' /\ Finished(v)'
      <3>1. PICK rest, t :
              /\ t \in rest /\ rest = todo[v]
              /\ SubmissionJob(a, t) \in Job
              /\ Queued(SubmissionJob(a, t))
              /\ todo' = [todo EXCEPT ![v] = @ \ {t}]
        BY <2>5, QueueSubmissionStep
      <3>2. todo'[v] = rest \ {t}
        BY <3>1 DEF TypeOK
      <3>3. Handed(a, rest)'
        BY <1>1, <2>5, <3>1, HandedStep DEF QueueSubmission
      <3>4. /\ SubmissionJob(a, t).kind = "AddSubmission"
            /\ SubmissionJob(a, t).account = a /\ SubmissionJob(a, t).sub = t
        BY DEF SubmissionJob, MakeJob
      <3>5. Carried("AddSubmission", a, t)'
        BY <3>1, <3>4, CarriedQueued
      <3>6. Handed(a, rest \ {t})'
        BY <3>3, <3>5 DEF Handed, Accounted
      <3>7. QED
        BY <2>5, <3>2, <3>6
    <2>6. ASSUME NEW a \in Account, a = job[v].account, job'[v] = job[v],
                 QueueDone(v), pc'[v] = "done"
          PROVE  Queueing(v)' /\ Finished(v)'
      <3>1. Handed(a, {})
        BY <1>1, <2>6 DEF QueueDone
      <3>2. Handed(a, {})'
        BY <3>1, HandedStep
      <3>3. QED
        BY <2>6, <3>2
    <2>7. ASSUME NEW a \in Account, a = job[v].account, job'[v] = job[v],
                 DiscoverNothing(v), pc'[v] = "done"
          PROVE  Queueing(v)' /\ Finished(v)'
      BY <2>7 DEF DiscoverNothing
    <2>8. ASSUME NEW a \in Account, a = job[v].account, job'[v] = job[v], pc'[v] = "done",
                 \/ VerifyNotFound(v) \/ VerifyEnqueue(v) \/ AddAccountFurAffinity(v)
                 \/ RecordLoaded(v) \/ SetComplete(v)
          PROVE  Queueing(v)' /\ Finished(v)'
      <3>1. job[v].kind # Discoverer(a)
        BY <2>8
        DEF VerifyNotFound, VerifyEnqueue, AddAccountFurAffinity, RecordLoaded,
            SetComplete, At, Discoverer, PlacesInv, TypeOK
      <3>2. QED
        BY <2>8, <3>1 DEF Discoverer
    <2>9. QED
      <3>1. SUFFICES ASSUME pc'[v] \in {"set_loading", "queue", "done"}
                     PROVE  Queueing(v)' /\ Finished(v)'
        BY <2>1
      <3>2. PICK a \in Account : a = job[v].account
        BY <2>2, <3>1, RunningCarried
      <3>3. /\ job'[v] = job[v]
            /\ \/ StartImport(v) /\ CanStart(a) /\ pc'[v] = "set_loading"
               \/ SetLoadingItems(v) /\ pc'[v] = "queue"
               \/ QueueSubmission(v) /\ pc'[v] = "queue"
               \/ QueueDone(v) /\ pc'[v] = "done"
               \/ DiscoverNothing(v) /\ pc'[v] = "done"
               \/ /\ pc'[v] = "done"
                  /\ \/ VerifyNotFound(v) \/ VerifyEnqueue(v) \/ AddAccountFurAffinity(v)
                     \/ RecordLoaded(v) \/ SetComplete(v)
        BY <1>4, <3>1, <3>2, ActorMoves
      <3>4. QED
        BY <3>2, <3>3, <2>3, <2>4, <2>5, <2>6, <2>7, <2>8
  <1>5. QED
    BY <1>3, <1>4, OthersKept

-----------------------------------------------------------------------------
(* Counting.                                                               *)

\* How the import rows change: an append for a submission job, a fresh row,
\* and a completion by the job that saw the count reached or by an
\* administrator.
LEMMA ImportMoves ==
    ASSUME TypeOK, RowsInv, [Next]_vars, NEW a \in started'
    PROVE  /\ \/ a \in started /\ loaded'[a] = loaded[a]
              \/ a \notin started /\ loaded'[a] = {}
              \/ \E w \in Worker :
                    /\ RecordLoaded(w) /\ a = job[w].account /\ a \in started
                    /\ loaded'[a] = loaded[a] \cup {<<job[w].sub, job[w].attempt>>}
           /\ a \in completed' =>
                 \/ a \in completed \/ a \in overridden'
                 \/ \E w \in Worker : MarkComplete(w) /\ a = job[w].account
  <1> DEFINE Goal ==
           /\ \/ a \in started /\ loaded'[a] = loaded[a]
              \/ a \notin started /\ loaded'[a] = {}
              \/ \E w \in Worker :
                    /\ RecordLoaded(w) /\ a = job[w].account /\ a \in started
                    /\ loaded'[a] = loaded[a] \cup {<<job[w].sub, job[w].attempt>>}
           /\ a \in completed' =>
                 \/ a \in completed \/ a \in overridden'
                 \/ \E w \in Worker : MarkComplete(w) /\ a = job[w].account
  <1> USE DEF TypeOK, rows, imports
  <1>1. CASE UNCHANGED vars
    BY <1>1 DEF vars
  <1>2. ASSUME NEW b \in Account, WebStep(b) PROVE Goal
    <2>1. CASE Remove(b)
      BY <2>1 DEF Remove
    <2>2. CASE AdminComplete(b)
      BY <2>2 DEF AdminComplete
    <2>3. CASE \/ LinkWithToken(b) \/ CallbackCreate(b) \/ CallbackEnqueue(b)
               \/ CallbackFail(b) \/ RequestVerify(b) \/ AdminSetState(b)
      BY <2>3
      DEF LinkWithToken, CallbackCreate, CallbackEnqueue, CallbackFail, RequestVerify,
          AdminSetState
    <2>4. QED
      BY <1>2, <2>1, <2>2, <2>3 DEF WebStep
  <1>3. ASSUME NEW w \in Worker, Work(w) \/ Interrupt(w) PROVE Goal
    <2>1. CASE StartImport(w)
      BY <2>1 DEF StartImport, CanStart
    <2>2. CASE RecordLoaded(w)
      <3>1. CASE a = job[w].account /\ job[w].account \in started
        BY <2>2, <3>1 DEF RecordLoaded
      <3>2. CASE ~(a = job[w].account /\ job[w].account \in started)
        BY <2>2, <3>2 DEF RecordLoaded
      <3>3. QED
        BY <3>1, <3>2
    <2>3. CASE MarkComplete(w)
      BY <2>3 DEF MarkComplete
    <2>4. CASE \/ Take(w) \/ Ack(w) \/ Interrupt(w) \/ Verify(w)
               \/ AddAccountStart(w) \/ AddAccountFurAffinity(w) \/ DiscoverLookup(w)
               \/ DiscoverNothing(w) \/ SetLoadingItems(w) \/ QueueSubmission(w)
               \/ QueueDone(w) \/ ProcessSubmission(w) \/ SetComplete(w)
      BY <2>4
      DEF Take, Ack, Interrupt, Verify, VerifyLookup, VerifyFound, VerifyNotFound,
          VerifyEnqueue, AddAccountStart, AddAccountFurAffinity, DiscoverLookup,
          DiscoverNothing, SetLoadingItems, QueueSubmission, QueueDone,
          ProcessSubmission, SetComplete
    <2>5. QED
      BY <1>3, <2>1, <2>2, <2>3, <2>4 DEF Work, Discover, AddSubmission
  <1>4. QED
    BY <1>1, <1>2, <1>3 DEF Next

\* A worker about to append runs a submission job, of a submission its
\* account's import expects.
LEMMA AppendExpected ==
    ASSUME TypeOK, RowsInv, JobsInv, NEW w \in Worker, RecordLoaded(w),
           job[w].account \in started
    PROVE  <<job[w].sub, job[w].attempt>> \in expected[job[w].account] \X Attempt
  <1>1. pc[w] = "progress" /\ job[w] \in Job /\ job[w].kind = "AddSubmission"
    BY DEF RecordLoaded, TypeOK
  <1>2. job[w].sub \in expected[job[w].account]
    BY <1>1, RunningCarried DEF JobsInv, RowsInv
  <1>3. QED
    BY <1>1, <1>2, JobFields

LEMMA LoadedStep ==
    ASSUME TypeOK, RowsInv, JobsInv, PlacesInv, LoadedInv, [Next]_vars
    PROVE  LoadedInv'
  <1>1. ASSUME NEW a \in started' PROVE loaded'[a] \subseteq expected'[a] \X Attempt
    <2>1. a \in started => expected'[a] = expected[a]
      BY RowsStep DEF RowsKept
    <2>2. CASE a \in started /\ loaded'[a] = loaded[a]
      BY <2>1, <2>2 DEF LoadedInv
    <2>3. ASSUME NEW w \in Worker, RecordLoaded(w), a = job[w].account, a \in started,
                 loaded'[a] = loaded[a] \cup {<<job[w].sub, job[w].attempt>>}
          PROVE  loaded'[a] \subseteq expected'[a] \X Attempt
      BY <2>1, <2>3, AppendExpected DEF LoadedInv
    <2>4. QED
      BY <2>2, <2>3, ImportMoves
  <1>2. ASSUME NEW v \in Worker, pc'[v] \in {"complete", "set_complete", "done"},
               job'[v].kind = "AddSubmission"
        PROVE  \/ job'[v].account \in removed'
               \/ /\ job'[v].account \in started'
                  /\ <<job'[v].sub, job'[v].attempt>> \in loaded'[job'[v].account]
    <2>1. ASSUME job'[v] = job[v], pc[v] \in {"complete", "set_complete", "done"}
          PROVE  \/ job[v].account \in removed'
                 \/ /\ job[v].account \in started'
                    /\ <<job[v].sub, job[v].attempt>> \in loaded'[job[v].account]
      BY <1>2, <2>1, RowsStep DEF LoadedInv, RowsKept
    <2>2. CASE pc'[v] = pc[v] /\ job'[v] = job[v]
      BY <1>2, <2>1, <2>2
    <2>3. CASE Work(v) \/ Interrupt(v)
      <3>1. /\ job'[v] = job[v]
            /\ \/ RecordLoaded(v) /\ job[v].account \in started
               \/ MarkComplete(v) \/ SetComplete(v)
               \/ VerifyNotFound(v) \/ VerifyEnqueue(v) \/ AddAccountFurAffinity(v)
               \/ DiscoverNothing(v) \/ QueueDone(v)
        BY <1>2, <2>3, ActorMoves
      <3>2. CASE RecordLoaded(v) /\ job[v].account \in started
        BY <3>1, <3>2 DEF RecordLoaded, TypeOK, rows
      <3>3. CASE MarkComplete(v) \/ SetComplete(v)
        BY <2>1, <3>1, <3>3 DEF MarkComplete, SetComplete
      <3>4. CASE \/ VerifyNotFound(v) \/ VerifyEnqueue(v) \/ AddAccountFurAffinity(v)
                 \/ DiscoverNothing(v) \/ QueueDone(v)
        BY <1>2, <3>1, <3>4
        DEF VerifyNotFound, VerifyEnqueue, AddAccountFurAffinity, DiscoverNothing,
            QueueDone, At, PlacesInv, Discoverer
      <3>5. QED
        BY <3>1, <3>2, <3>3, <3>4
    <2>4. QED
      BY <2>2, <2>3, OthersKept
  <1>3. QED
    BY <1>1, <1>2 DEF LoadedInv

LEMMA FiniteCounts ==
    /\ \A S \in SUBSET (Sub \X Attempt) : IsFiniteSet(S) /\ Cardinality(S) \in Nat
    /\ \A S \in SUBSET Sub : IsFiniteSet(S) /\ Cardinality(S) \in Nat
  <1>1. IsFiniteSet(Attempt)
    BY FS_Interval, ConstantsAssumption DEF Attempt
  <1>2. IsFiniteSet(Sub \X Attempt)
    BY <1>1, FS_Product, ConstantsAssumption
  <1>3. QED
    BY <1>2, FS_Subset, FS_CardinalityType, ConstantsAssumption

\* The count never goes back.
LEMMA ReachedKept ==
    ASSUME TypeOK, TypeOK', RowsInv, [Next]_vars, NEW a \in started, a \in started', Reached(a)
    PROVE  Reached(a)'
  <1>1. expected'[a] = expected[a] /\ loaded[a] \subseteq loaded'[a]
    BY RowsStep DEF RowsKept
  <1>2. a \in Account
    BY DEF TypeOK
  <1>3. /\ IsFiniteSet(loaded'[a]) /\ Cardinality(loaded'[a]) \in Nat
        /\ Cardinality(expected[a]) \in Nat /\ Cardinality(loaded[a]) \in Nat
    BY <1>2, FiniteCounts DEF TypeOK
  <1>4. Cardinality(loaded[a]) <= Cardinality(loaded'[a])
    BY <1>1, <1>3, FS_Subset
  <1>5. QED
    BY <1>1, <1>3, <1>4 DEF Reached

LEMMA ReachedStep ==
    ASSUME TypeOK, TypeOK', RowsInv, LoadedInv, ReachedInv, [Next]_vars
    PROVE  ReachedInv'
  <1>1. ASSUME NEW v \in Worker, pc'[v] = "complete"
        PROVE  (job[v].account \in removed \/ Reached(job[v].account))'
    <2>1. CASE pc[v] = "complete" /\ job'[v] = job[v]
      <3>1. PICK a \in Account : a = job[v].account /\ job[v].kind = "AddSubmission"
        BY <2>1, RunningCarried DEF TypeOK
      <3>2. a \in removed \/ (a \in started /\ Reached(a))
        BY <2>1, <3>1 DEF ReachedInv, LoadedInv
      <3>3. a \in removed' \/ Reached(a)'
        BY <3>2, ReachedKept, RowsStep DEF RowsKept
      <3>4. QED
        BY <2>1, <3>1, <3>3
    <2>2. CASE Work(v) \/ Interrupt(v)
      <3>1. RecordLoaded(v) /\ job[v].account \in started /\ job'[v] = job[v]
        BY <1>1, <2>2, ActorMoves
      <3>2. PICK a \in Account : a = job[v].account
        BY <3>1, RunningCarried DEF RecordLoaded
      <3>3. /\ expected'[a] = expected[a]
            /\ loaded'[a] = loaded[a] \cup {<<job[v].sub, job[v].attempt>>}
            /\ Cardinality(loaded[a] \cup {<<job[v].sub, job[v].attempt>>})
                  = Cardinality(expected[a])
        BY <1>1, <3>1, <3>2 DEF RecordLoaded, AllLoaded, TypeOK, Goto
      <3>4. Cardinality(expected[a]) \in Nat
        BY FiniteCounts DEF TypeOK
      <3>5. Reached(a)'
        BY <3>2, <3>3, <3>4 DEF Reached
      <3>6. QED
        BY <3>1, <3>2, <3>5
    <2>3. QED
      BY <1>1, <2>1, <2>2, OthersKept
  <1>2. ASSUME NEW a \in completed', a \notin overridden' PROVE Reached(a)'
    <2>1. a \in started'
      BY RowsStep DEF RowsInv
    <2>2. CASE a \in completed
      BY <1>2, <2>1, <2>2, ReachedKept, RowsStep DEF ReachedInv, RowsInv, RowsKept
    <2>3. ASSUME NEW w \in Worker, MarkComplete(w), a = job[w].account PROVE Reached(a)'
      <3>1. pc[w] = "complete" /\ started' = started
        BY <2>3 DEF MarkComplete
      <3>2. Reached(a)
        BY <2>1, <2>3, <3>1 DEF ReachedInv, RowsInv
      <3>3. QED
        BY <2>1, <3>1, <3>2, ReachedKept
    <2>4. QED
      BY <1>2, <2>1, <2>2, <2>3, ImportMoves
  <1>3. QED
    BY <1>1, <1>2 DEF ReachedInv

LEMMA NothingLostStep ==
    ASSUME TypeOK, RowsInv, JobsInv, PlacesInv, LoadedInv, HandoverInv,
           NothingLostSilently, [Next]_vars
    PROVE  NothingLostSilently'
  <1> SUFFICES ASSUME NEW a \in started', a \notin foundEmpty', NEW s \in expected'[a]
               PROVE  Accounted(a, s)' \/ DiscoveryKnown(a)'
    BY DEF NothingLostSilently
  <1>1. a \notin foundEmpty /\ a \notin removed
    BY RowsStep DEF RowsKept, RowsInv
  <1>2. CASE a \in started
    <2>1. expected'[a] = expected[a] /\ s \in Sub
      BY <1>2, RowsStep DEF RowsKept, TypeOK
    <2>2. CASE Accounted(a, s)
      BY <1>2, <2>1, <2>2, AccountedStep
    <2>3. CASE DiscoveryKnown(a)
      <3>1. Carried(Discoverer(a), a, NoSub)' \/ Acked(Discoverer(a), a, NoSub)
        BY <2>3, CarriedStep DEF DiscoveryKnown
      <3>2. CASE Carried(Discoverer(a), a, NoSub)'
        BY <3>2 DEF DiscoveryKnown, Discoverer
      <3>3. CASE Acked(Discoverer(a), a, NoSub)
        <4>1. PICK w \in Worker : Ack(w) /\ job[w].kind = Discoverer(a) /\ a = job[w].account
          BY <3>3 DEF Acked
        <4>2. pc[w] = "done"
          BY <4>1 DEF Ack
        <4>3. Accounted(a, s)
          BY <1>1, <2>1, <4>1, <4>2 DEF HandoverInv
        <4>4. QED
          BY <1>2, <2>1, <4>3, AccountedStep
      <3>4. QED
        BY <3>1, <3>2, <3>3
    <2>4. QED
      BY <1>1, <1>2, <2>1, <2>2, <2>3 DEF NothingLostSilently
  <1>3. CASE a \notin started
    <2>1. PICK w \in Worker : StartImport(w) /\ a = job[w].account
      BY <1>3, NewImport
    <2>2. pc[w] # "idle" /\ job[w].kind = Discoverer(a)
      BY <2>1 DEF StartImport, PlacesInv
    <2>3. Carried(Discoverer(a), a, NoSub)
      BY <2>1, <2>2, RunningCarried DEF Discoverer
    <2>4. ~Acked(Discoverer(a), a, NoSub)
      BY <1>3 DEF Acked, Ack, imports
    <2>5. QED
      BY <2>3, <2>4, CarriedStep DEF DiscoveryKnown, Discoverer
  <1>4. QED
    BY <1>2, <1>3

-----------------------------------------------------------------------------
(* The theorems.                                                           *)

\* The inductive invariant: the eight facts about rows, jobs and workers hold
\* in every reachable state, for any number of accounts, submissions, workers
\* and redeliveries.
THEOREM InductiveInvariant == Spec => []IInv
  <1>1. Init => IInv
    <2> SUFFICES ASSUME Init PROVE IInv
      OBVIOUS
    <2>1. \A j : ~Known(j)
      BY DEF Init, Known
    <2>2. \A kind, a, s : ~Carried(kind, a, s)
      BY <2>1 DEF Carried
    <2>3. QED
      BY <2>2
      DEF Init, IInv, RowsInv, JobsInv, PlacesInv, VerifiedInv, HandoverInv, LoadedInv,
          ReachedInv, NothingLostSilently
  <1>2. TypeOK /\ TypeOK' /\ IInv /\ [Next]_vars => IInv'
    <2> SUFFICES ASSUME TypeOK, TypeOK', IInv, [Next]_vars PROVE IInv'
      OBVIOUS
    <2>1. /\ RowsInv /\ JobsInv /\ PlacesInv /\ VerifiedInv
          /\ HandoverInv /\ LoadedInv /\ ReachedInv /\ NothingLostSilently
      BY DEF IInv
    <2>2. QED
      BY <2>1, RowsStep, JobsStep, PlacesStep, VerifiedStep, HandoverStep, LoadedStep,
         ReachedStep, NothingLostStep
      DEF IInv
  <1>3. QED
    BY <1>1, <1>2, TypeCorrect, PTL DEF Spec

\* Nothing is imported for an account whose owner did not prove it is theirs.
THEOREM OnlyVerified == Spec => []ImportOnlyVerified
  <1>1. IInv => ImportOnlyVerified
    BY DEF IInv, VerifiedInv, ImportOnlyVerified
  <1>2. QED
    BY <1>1, InductiveInvariant, PTL

\* No submission of a running import vanishes without a trace.
THEOREM NothingLost == Spec => []NothingLostSilently
  <1>1. IInv => NothingLostSilently
    BY DEF IInv
  <1>2. QED
    BY <1>1, InductiveInvariant, PTL

\* If as many appends as expected submissions were made, and none was made
\* twice, then every submission was counted: the appends map one to one into
\* what is expected, so they cover it.
LEMMA Pigeonhole ==
    ASSUME TypeOK, NEW a \in Account, loaded[a] \subseteq expected[a] \X Attempt,
           Reached(a), \A s \in expected[a] : ~CountedTwice(a, s)
    PROVE  \A s \in expected[a] : Counted(a, s)
  <1> DEFINE f == [x \in loaded[a] |-> x[1]]
  <1>1. /\ IsFiniteSet(expected[a]) /\ Cardinality(expected[a]) \in Nat
        /\ Cardinality(loaded[a]) \in Nat
    BY FiniteCounts DEF TypeOK
  <1>2. \A x \in loaded[a] : \E s \in expected[a], n \in Attempt : x = <<s, n>>
    OBVIOUS
  <1>3. f \in [loaded[a] -> expected[a]]
    BY <1>2
  <1>4. ASSUME NEW x \in loaded[a], NEW y \in loaded[a], f[x] = f[y] PROVE x = y
    <2>1. PICK s \in expected[a], m \in Attempt, n \in Attempt : x = <<s, m>> /\ y = <<s, n>>
      BY <1>2, <1>4
    <2>2. QED
      BY <2>1 DEF CountedTwice
  <1>5. f \in Injection(loaded[a], expected[a])
    BY <1>3, <1>4 DEF Injection, IsInjective
  <1>6. f \in Surjection(loaded[a], expected[a])
    BY <1>1, <1>5, FS_Injection DEF Reached
  <1>7. TAKE s \in expected[a]
  <1>8. PICK x \in loaded[a] : f[x] = s
    BY <1>6 DEF Surjection
  <1>9. QED
    BY <1>2, <1>8 DEF Counted

\* An import is marked complete by its jobs only when every submission was
\* counted, or when one was counted twice.
THEOREM CompleteIsHonest == Spec => []CompleteUnlessDoubleCounted
  <1>1. TypeOK /\ IInv => CompleteUnlessDoubleCounted
    BY Pigeonhole
    DEF IInv, RowsInv, LoadedInv, ReachedInv, TypeOK, CompleteUnlessDoubleCounted
  <1>2. QED
    BY <1>1, TypeCorrect, InductiveInvariant, PTL

\* A running import is never restarted, whatever discovers the account again.
THEOREM NotRestarted == Spec => ImportNotRestarted
  <1>1. TypeOK /\ IInv /\ [Next]_vars =>
          [\A a \in started \cap started' :
              /\ expected'[a] = expected[a]
              /\ loaded[a] \subseteq loaded'[a]
              /\ a \in completed => a \in completed']_vars
    BY RowsStep DEF IInv, RowsKept
  <1>2. QED
    BY <1>1, TypeCorrect, InductiveInvariant, PTL DEF Spec, ImportNotRestarted

-----------------------------------------------------------------------------
(* The lifecycle of a linked account.                                      *)

PhaseOf == [a \in Account |-> Phase(a)]
CountedOf == [a \in Account |-> {s \in Sub : Counted(a, s)}]
DoubtedOf == {a \in started : Doubted(a)}

\* What the lifecycle reads of the rows.
View == <<linked, removed, verified, started, completed, expected, loaded, overridden>>

LEMMA ViewSame ==
    ASSUME UNCHANGED View
    PROVE  PhaseOf' = PhaseOf /\ CountedOf' = CountedOf /\ DoubtedOf' = DoubtedOf
  BY DEF View, PhaseOf, CountedOf, DoubtedOf, Phase, Counted, Doubted, CountedTwice

LEMMA LifecycleStutters ==
    ASSUME UNCHANGED View
    PROVE  UNCHANGED Lifecycle!vars
  BY ViewSame DEF Lifecycle!vars, View, PhaseOf, CountedOf, DoubtedOf

\* The phases told apart by the rows.
LEMMA PhaseCases ==
    ASSUME RowsInv, NEW a \in Account
    PROVE  /\ Phase(a) = "gone" <=> a \in removed
           /\ Phase(a) = "complete" <=> a \in completed
           /\ Phase(a) = "importing" <=> a \in started \ completed
           /\ Phase(a) = "verified" <=> a \in verified \ started
           /\ Phase(a) = "linked" <=> a \in linked \ (verified \cup started)
           /\ Phase(a) = "absent" <=> a \notin linked \cup removed
  BY DEF RowsInv, Phase

\* The rows of the other accounts stay as they are.
Only(b) ==
    \A a \in Account \ {b} :
        /\ a \in linked' <=> a \in linked
        /\ a \in removed' <=> a \in removed
        /\ a \in verified' <=> a \in verified
        /\ a \in started' <=> a \in started
        /\ a \in completed' <=> a \in completed

LEMMA PhaseMoves ==
    ASSUME NEW b \in Account, Only(b)
    PROVE  PhaseOf' = [PhaseOf EXCEPT ![b] = Phase(b)']
  <1>1. \A a \in Account \ {b} : Phase(a)' = Phase(a)
    BY DEF Only, Phase
  <1>2. QED
    BY <1>1 DEF PhaseOf

LEMMA CountsSame ==
    ASSUME loaded' = loaded
    PROVE  /\ CountedOf' = CountedOf
           /\ started' = started /\ overridden' = overridden => DoubtedOf' = DoubtedOf
  BY DEF CountedOf, DoubtedOf, Counted, Doubted, CountedTwice

LEMMA LifecycleWeb ==
    ASSUME TypeOK, RowsInv, RowsInv', NEW b \in Account, WebStep(b)
    PROVE  Lifecycle!Next \/ UNCHANGED Lifecycle!vars
  <1> USE DEF rows, imports, web, history, TypeOK
  <1>1. CASE LinkWithToken(b) \/ CallbackCreate(b)
    <2>1. /\ Phase(b) = "absent" /\ Phase(b)' \in {"linked", "verified"}
          /\ Only(b) /\ loaded' = loaded /\ expected' = expected
          /\ started' = started /\ overridden' = overridden
      BY <1>1, PhaseCases DEF LinkWithToken, CallbackCreate, Only, Phase, RowsInv
    <2>2. Lifecycle!Link(b)
      BY <2>1, PhaseMoves, CountsSame
      DEF Lifecycle!Link, Lifecycle!Move, PhaseOf, CountedOf, DoubtedOf
    <2>3. QED
      BY <2>2 DEF Lifecycle!Next
  <1>2. CASE Remove(b)
    <2>1. /\ Phase(b) \in {"linked", "verified", "importing", "complete"}
          /\ Phase(b)' = "gone" /\ Only(b)
      BY <1>2, PhaseCases DEF Remove, Only, Phase, RowsInv
    <2>2. CountedOf' = [CountedOf EXCEPT ![b] = {}]
      BY <1>2 DEF Remove, CountedOf, Counted
    <2>3. DoubtedOf' = DoubtedOf \ {b}
      BY <1>2 DEF Remove, DoubtedOf, Doubted, CountedTwice
    <2>4. Lifecycle!Remove(b)
      BY <1>2, <2>1, <2>2, <2>3, PhaseMoves
      DEF Remove, Lifecycle!Remove, Lifecycle!Move, Lifecycle!Importing, PhaseOf,
          CountedOf, DoubtedOf
    <2>5. QED
      BY <2>4 DEF Lifecycle!Next
  <1>3. CASE AdminComplete(b)
    <2>1. /\ Phase(b) \in {"importing", "complete"}
          /\ Phase(b)' = "complete" /\ Only(b)
          /\ loaded' = loaded /\ expected' = expected
      BY <1>3, PhaseCases DEF AdminComplete, Only, Phase, RowsInv
    <2>2. DoubtedOf' = DoubtedOf \cup {b}
      BY <1>3 DEF AdminComplete, DoubtedOf, Doubted, CountedTwice
    <2>3. Lifecycle!Declare(b)
      BY <2>1, <2>2, PhaseMoves, CountsSame
      DEF Lifecycle!Declare, Lifecycle!Move, Lifecycle!Importing, PhaseOf, CountedOf,
          DoubtedOf
    <2>4. QED
      BY <2>3 DEF Lifecycle!Next
  <1>4. CASE CallbackEnqueue(b) \/ CallbackFail(b) \/ RequestVerify(b) \/ AdminSetState(b)
    <2>1. UNCHANGED View
      BY <1>4 DEF View, CallbackEnqueue, CallbackFail, RequestVerify, AdminSetState
    <2>2. QED
      BY <2>1, LifecycleStutters
  <1>5. QED
    BY <1>1, <1>2, <1>3, <1>4 DEF WebStep

\* An append counts a submission, or counts it again, or changes nothing.
LEMMA LifecycleAppend ==
    ASSUME TypeOK, RowsInv, RowsInv', JobsInv, NEW w \in Worker, RecordLoaded(w)
    PROVE  Lifecycle!Next \/ UNCHANGED Lifecycle!vars
  <1> USE DEF rows, imports, history, TypeOK
  <1>1. UNCHANGED <<linked, removed, verified, started, completed, expected, overridden>>
    BY DEF RecordLoaded
  <1>2. CASE job[w].account \notin started
    BY <1>1, <1>2, LifecycleStutters DEF RecordLoaded, View
  <1>3. CASE job[w].account \in started
    <2>1. PICK a \in Account, s \in Sub, n \in Attempt :
            /\ a = job[w].account /\ s = job[w].sub /\ n = job[w].attempt
            /\ s \in expected[a]
      BY <1>3, AppendExpected
    <2>2. loaded' = [loaded EXCEPT ![a] = loaded[a] \cup {<<s, n>>}]
      BY <1>3, <2>1 DEF RecordLoaded
    <2>3. Phase(a) \in {"importing", "complete"} /\ PhaseOf' = PhaseOf
      BY <1>1, <1>3, <2>1, PhaseCases DEF PhaseOf, Phase
    <2>4. CASE <<s, n>> \in loaded[a]
      BY <1>1, <2>2, <2>4, LifecycleStutters DEF View
    <2>5. CASE <<s, n>> \notin loaded[a] /\ Counted(a, s)
      <3>1. CountedOf' = CountedOf
        BY <2>2, <2>5 DEF CountedOf, Counted
      <3>2. CountedTwice(a, s)'
        BY <2>2, <2>5 DEF Counted, CountedTwice
      <3>3. DoubtedOf' = DoubtedOf \cup {a}
        <4>1. \A b \in Account \ {a} : Doubted(b)' <=> Doubted(b)
          BY <1>1, <2>2 DEF Doubted, CountedTwice
        <4>2. Doubted(a)'
          BY <3>2 DEF Doubted
        <4>3. QED
          BY <1>1, <1>3, <2>1, <4>1, <4>2 DEF DoubtedOf
      <3>4. Lifecycle!CountAgain(a)
        BY <1>1, <2>3, <3>1, <3>3
        DEF Lifecycle!CountAgain, Lifecycle!Importing, PhaseOf, CountedOf, DoubtedOf
      <3>5. QED
        BY <3>4 DEF Lifecycle!Next
    <2>6. CASE ~Counted(a, s)
      <3>1. CountedOf' = [CountedOf EXCEPT ![a] = @ \cup {s}]
        BY <2>2, <2>6 DEF CountedOf, Counted
      <3>2. \A b \in Account, t \in Sub : CountedTwice(b, t)' <=> CountedTwice(b, t)
        BY <2>2, <2>6 DEF Counted, CountedTwice
      <3>3. DoubtedOf' = DoubtedOf
        BY <1>1, <3>2 DEF DoubtedOf, Doubted
      <3>4. \E t \in expected[a] : CountedOf' = [CountedOf EXCEPT ![a] = @ \cup {t}]
        BY <2>1, <3>1
      <3>5. Lifecycle!Count(a)
        BY <1>1, <2>3, <3>3, <3>4
        DEF Lifecycle!Count, Lifecycle!Importing, PhaseOf, CountedOf, DoubtedOf
      <3>6. QED
        BY <3>5 DEF Lifecycle!Next
    <2>7. QED
      BY <2>4, <2>5, <2>6
  <1>4. QED
    BY <1>2, <1>3

\* Nobody completes an import that still misses a submission, unless one was
\* counted twice.
LEMMA LifecycleFinish ==
    ASSUME TypeOK, RowsInv, RowsInv', LoadedInv, ReachedInv, NEW w \in Worker, MarkComplete(w)
    PROVE  Lifecycle!Next \/ UNCHANGED Lifecycle!vars
  <1> USE DEF rows, imports, history, TypeOK
  <1>1. /\ UNCHANGED <<linked, removed, verified, started, expected, loaded, overridden>>
        /\ completed' = completed \cup ({job[w].account} \cap started)
        /\ pc[w] = "complete"
    BY DEF MarkComplete
  <1>2. PICK a \in Account : a = job[w].account
    BY <1>1, RunningCarried
  <1>3. CASE a \notin started \ completed
    BY <1>1, <1>2, <1>3, LifecycleStutters DEF View
  <1>4. CASE a \in started \ completed
    <2>1. /\ Phase(a) = "importing" /\ Phase(a)' = "complete" /\ Only(a)
      BY <1>1, <1>2, <1>4, PhaseCases DEF Only, Phase, RowsInv
    <2>2. Reached(a)
      BY <1>1, <1>2, <1>4 DEF ReachedInv, RowsInv
    <2>3. \/ \A s \in expected[a] : Counted(a, s)
          \/ \E s \in expected[a] : CountedTwice(a, s)
      BY <1>4, <2>2, Pigeonhole DEF LoadedInv
    <2>4. expected[a] \subseteq CountedOf[a] \/ a \in DoubtedOf
      BY <1>4, <2>3 DEF CountedOf, DoubtedOf, Doubted
    <2>5. Lifecycle!Finish(a)
      BY <1>1, <2>1, <2>4, PhaseMoves, CountsSame
      DEF Lifecycle!Finish, Lifecycle!Move, PhaseOf, CountedOf, DoubtedOf
    <2>6. QED
      BY <2>5 DEF Lifecycle!Next
  <1>5. QED
    BY <1>3, <1>4

LEMMA LifecycleWork ==
    ASSUME TypeOK, IInv, RowsInv', NEW w \in Worker, Work(w) \/ Interrupt(w)
    PROVE  Lifecycle!Next \/ UNCHANGED Lifecycle!vars
  <1> USE DEF rows, imports, history, TypeOK
  <1>1. CASE RecordLoaded(w)
    BY <1>1, LifecycleAppend DEF IInv
  <1>2. CASE MarkComplete(w)
    BY <1>2, LifecycleFinish DEF IInv
  <1>3. CASE VerifyFound(w)
    <2>1. PICK a \in Account : a = job[w].account
      BY <1>3, RunningCarried DEF VerifyFound, At
    <2>2. /\ UNCHANGED <<linked, removed, started, completed, expected, loaded, overridden>>
          /\ verified' = verified \cup ({a} \cap linked)
      BY <1>3, <2>1 DEF VerifyFound
    <2>3. CASE Phase(a) = "linked"
      <3>1. Phase(a)' = "verified" /\ Only(a)
        BY <2>2, <2>3, PhaseCases DEF IInv, Only, Phase, RowsInv
      <3>2. Lifecycle!Prove(a)
        BY <2>2, <2>3, <3>1, PhaseMoves, CountsSame
        DEF Lifecycle!Prove, Lifecycle!Move, PhaseOf, CountedOf, DoubtedOf
      <3>3. QED
        BY <3>2 DEF Lifecycle!Next
    <2>4. CASE Phase(a) # "linked"
      <3>1. Phase(a)' = Phase(a) /\ Only(a)
        BY <2>2, <2>4, PhaseCases DEF IInv, Only, Phase, RowsInv
      <3>2. PhaseOf' = PhaseOf
        BY <3>1, PhaseMoves DEF PhaseOf
      <3>3. QED
        BY <2>2, <3>2, CountsSame DEF Lifecycle!vars, PhaseOf, CountedOf, DoubtedOf
    <2>5. QED
      BY <2>3, <2>4
  <1>4. CASE StartImport(w)
    <2>1. PICK a \in Account : a = job[w].account
      BY <1>4, RunningCarried DEF StartImport
    <2>2. CASE ~CanStart(a)
      <3>1. UNCHANGED View
        BY <1>4, <2>1, <2>2 DEF StartImport, View
      <3>2. QED
        BY <3>1, LifecycleStutters
    <2>3. CASE CanStart(a)
      <3>1. PICK ids \in SUBSET Sub \ {{}} :
              /\ started' = started \cup {a}
              /\ expected' = [expected EXCEPT ![a] = ids]
              /\ loaded' = [loaded EXCEPT ![a] = {}]
              /\ completed' = completed \ {a}
              /\ UNCHANGED <<linked, removed, verified, overridden>>
        BY <1>4, <2>1, <2>3 DEF StartImport
      <3>2. a \in linked /\ a \notin started
        BY <2>3 DEF CanStart
      <3>3. SkipVerifications \/ a \in verified
        <4>1. job[w].kind \in Kind \ {"VerifyAccount"}
          BY <1>4, RunningCarried DEF StartImport, IInv, PlacesInv, Discoverer
        <4>2. QED
          BY <1>4, <2>1, <3>2, <4>1, RunningCarried
          DEF StartImport, IInv, VerifiedInv, RowsInv
      <3>4. /\ Phase(a) \in IF ~SkipVerifications THEN {"verified"} ELSE {"linked", "verified"}
            /\ Phase(a)' = "importing" /\ Only(a)
        BY <3>1, <3>2, <3>3, PhaseCases DEF IInv, Only, Phase, RowsInv
      <3>5. /\ loaded' = loaded
            /\ a \in overridden => a \in removed
        BY <3>1, <3>2 DEF IInv, RowsInv
      <3>6. /\ DoubtedOf' = DoubtedOf
            /\ CountedOf' = CountedOf
        <4>1. ~Doubted(a)
          BY <3>2, <3>5 DEF IInv, RowsInv, Doubted, CountedTwice
        <4>2. \A b \in Account : Doubted(b)' <=> Doubted(b)
          BY <3>1, <3>5 DEF Doubted, CountedTwice
        <4>3. QED
          BY <3>1, <3>5, <4>1, <4>2, CountsSame DEF DoubtedOf
      <3>7. Lifecycle!Begin(a)
        BY <3>1, <3>4, <3>6, PhaseMoves
        DEF Lifecycle!Begin, Lifecycle!Move, PhaseOf, CountedOf, DoubtedOf
      <3>8. QED
        BY <3>7 DEF Lifecycle!Next
    <2>4. QED
      BY <2>2, <2>3
  <1>5. CASE \/ Take(w) \/ Ack(w) \/ Interrupt(w)
             \/ VerifyLookup(w) \/ VerifyNotFound(w) \/ VerifyEnqueue(w)
             \/ AddAccountStart(w) \/ AddAccountFurAffinity(w) \/ DiscoverLookup(w)
             \/ DiscoverNothing(w) \/ SetLoadingItems(w) \/ QueueSubmission(w)
             \/ QueueDone(w) \/ ProcessSubmission(w) \/ SetComplete(w)
    <2>1. UNCHANGED View
      BY <1>5
      DEF View, Take, Ack, Interrupt, VerifyLookup, VerifyNotFound, VerifyEnqueue,
          AddAccountStart, AddAccountFurAffinity, DiscoverLookup, DiscoverNothing,
          SetLoadingItems, QueueSubmission, QueueDone, ProcessSubmission, SetComplete
    <2>2. QED
      BY <2>1, LifecycleStutters
  <1>6. QED
    BY <1>1, <1>2, <1>3, <1>4, <1>5 DEF Work, Verify, Discover, AddSubmission

\* Jobs, redeliveries, crashes and administrators together do nothing to a
\* linked account that its lifecycle does not allow.
THEOREM LifecycleImplemented == Spec => ImplementsLifecycle
  <1>1. Init => Lifecycle!Init
    BY DEF Init, Lifecycle!Init, Phase, Counted
  <1>2. TypeOK /\ IInv /\ IInv' /\ [Next]_vars => [Lifecycle!Next]_Lifecycle!vars
    <2> SUFFICES ASSUME TypeOK, IInv, IInv', [Next]_vars
                 PROVE  Lifecycle!Next \/ UNCHANGED Lifecycle!vars
      OBVIOUS
    <2>1. RowsInv /\ RowsInv'
      BY DEF IInv
    <2>2. CASE UNCHANGED vars
      BY <2>2, LifecycleStutters DEF vars, rows, imports, history, View
    <2>3. CASE Next
      BY <2>1, <2>3, LifecycleWeb, LifecycleWork DEF Next
    <2>4. QED
      BY <2>2, <2>3
  <1>3. QED
    BY <1>1, <1>2, TypeCorrect, InductiveInvariant, PTL
    DEF Spec, Lifecycle!Spec, ImplementsLifecycle
=============================================================================
