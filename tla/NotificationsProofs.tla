------------------------ MODULE NotificationsProofs ------------------------
(* Proofs about Notifications, for every value of its constants. *)
EXTENDS Notifications, TLAPS

LEMMA RedeliveredDigest ==
    ASSUME NEW d \in Digest, d.attempt < MaxRetry
    PROVE  /\ [d EXCEPT !.attempt = @ + 1] \in Digest
           /\ [d EXCEPT !.attempt = @ + 1].events = d.events
  BY BoundsAssumption DEF Digest, Attempt

LEMMA OneMore ==
    ASSUME digests \in [Digest -> Nat], NEW d, digests' = [digests EXCEPT ![d] = @ + 1]
    PROVE  /\ digests' \in [Digest -> Nat]
           /\ \A i \in Digest : digests[i] > 0 => digests'[i] > 0
           /\ d \in Digest => digests'[d] > 0
  <1>1. \A i \in Digest : digests'[i] \in Nat /\ digests'[i] >= digests[i]
    <2>1. TAKE i \in Digest
    <2>2. CASE i = d
      BY <2>2
    <2>3. CASE i # d
      BY <2>3
    <2>4. QED
      BY <2>2, <2>3
  <1>2. ASSUME d \in Digest PROVE digests'[d] > 0
    <2>1. digests[d] \in Nat /\ digests'[d] = digests[d] + 1
      BY <1>2
    <2>2. QED
      BY <2>1
  <1>3. \A i \in Digest : digests[i] > 0 => digests'[i] > 0
    BY <1>1
  <1>4. digests' \in [Digest -> Nat]
    BY <1>1
  <1>5. QED
    BY <1>2, <1>3, <1>4

LEMMA OneLess ==
    ASSUME digests \in [Digest -> Nat], NEW d \in Digest, digests[d] > 0,
           digests' = [digests EXCEPT ![d] = @ - 1]
    PROVE  /\ digests' \in [Digest -> Nat]
           /\ \A i \in Digest : i # d => digests'[i] = digests[i]
  <1>1. \A i \in Digest : digests'[i] \in Nat
    <2>1. TAKE i \in Digest
    <2>2. CASE i = d
      BY <2>2
    <2>3. CASE i # d
      BY <2>3
    <2>4. QED
      BY <2>2, <2>3
  <1>2. QED
    BY <1>1

LEMMA MailType ==
    ASSUME mailed \in [Event -> 0 .. 2], NEW events, Mail(events)
    PROVE  /\ mailed' \in [Event -> 0 .. 2]
           /\ \A e \in Event : mailed[e] > 0 => mailed'[e] > 0
           /\ \A e \in Event \cap events : mailed'[e] > 0
  BY DEF Mail

-----------------------------------------------------------------------------
\* No step leaves the types.
LEMMA TypeStep ==
    ASSUME TypeOK, [Next]_vars PROVE TypeOK'
  <1> USE DEF TypeOK, settings, tasks, creating, mailing, history
  <1>1. CASE UNCHANGED vars
    BY <1>1 DEF vars
  <1>2. ASSUME NEW u \in User, OwnerActs(u)
        PROVE  TypeOK'
    <2>1. changes' \in 0 .. MaxChanges
      BY <1>2, BoundsAssumption DEF OwnerActs, SetFrequency, Unsubscribe, ChangeAddress, RemoveItem,
                                    DeleteUser, Change
    <2>6. CASE RemoveItem(u)
      BY <2>1, <2>6 DEF RemoveItem, Cascade
    <2>7. CASE DeleteUser(u)
      BY <2>1, <2>7 DEF DeleteUser, Cascade, Of, Address, Frequency
    <2>2. CASE SetFrequency(u)
      BY <2>1, <2>2 DEF SetFrequency
    <2>3. CASE Unsubscribe(u)
      BY <2>1, <2>3 DEF Unsubscribe, Frequency
    <2>4. CASE ChangeAddress(u)
      BY <2>1, <2>4 DEF ChangeAddress, Address
    <2>5. QED
      BY <1>2, <2>2, <2>3, <2>4, <2>6, <2>7 DEF OwnerActs
  <1>3. ASSUME NEW d \in Delivery, FindSimilar(d) \/ FinishIncoming(d) \/ InterruptIncoming(d)
        PROVE  TypeOK'
    <2>1. CASE FindSimilar(d)
      BY <2>1 DEF FindSimilar, TaskStep
    <2>2. CASE FinishIncoming(d)
      BY <2>2 DEF FinishIncoming
    <2>3. CASE InterruptIncoming(d)
      <3>1. faults' \in 0 .. MaxFaults
        BY <2>3, BoundsAssumption DEF InterruptIncoming, Fault
      <3>2. d.attempt < MaxRetry => [d EXCEPT !.attempt = @ + 1] \in Delivery
        BY BoundsAssumption DEF Delivery, Attempt
      <3>3. incoming' \subseteq Delivery
        BY <2>3, <3>2 DEF InterruptIncoming
      <3>4. QED
        BY <2>3, <3>1, <3>3 DEF InterruptIncoming, TaskStep
    <2>4. QED
      BY <1>3, <2>1, <2>2, <2>3
  <1>4. ASSUME NEW e \in Event, Notify(e) PROVE TypeOK'
    <2> USE DEF TaskStep
    <2>1. CASE LookupOwner(e)
      <3>1. \A i \in Event : seen'[i] \in [verified: BOOLEAN, freq: Frequency]
        <4>1. TAKE i \in Event
        <4>2. CASE i = e
          BY <2>1, <4>2 DEF LookupOwner
        <4>3. CASE i # e
          BY <2>1, <4>3 DEF LookupOwner
        <4>4. QED
          BY <4>2, <4>3
      <3>2. seen' \in [Event -> [verified: BOOLEAN, freq: Frequency]]
        BY <2>1, <3>1 DEF LookupOwner
      <3>3. QED
        BY <2>1, <3>2 DEF LookupOwner
    <2>2. CASE RecordEvent(e)
      BY <2>2 DEF RecordEvent
    <2>3. CASE StayQuiet(e)
      BY <2>3 DEF StayQuiet
    <2>4. CASE ReadSettings(e)
      <3>1. freq[e.user] \in Frequency
        BY DEF Event
      <3>2. \A i \in Event : seen'[i] \in [verified: BOOLEAN, freq: Frequency]
        <4>1. TAKE i \in Event
        <4>2. CASE i = e
          BY <2>4, <3>1, <4>2 DEF ReadSettings
        <4>3. CASE i # e
          BY <2>4, <4>3 DEF ReadSettings
        <4>4. QED
          BY <4>2, <4>3
      <3>4. seen' \in [Event -> [verified: BOOLEAN, freq: Frequency]]
        BY <2>4, <3>2 DEF ReadSettings
      <3>3. QED
        BY <2>4, <3>4 DEF ReadSettings
    <2>5. CASE NotifyInstantly(e)
      BY <2>5, MailType DEF NotifyInstantly
    <2>6. CASE NotifyLater(e)
      BY <2>6 DEF NotifyLater
    <2>7. CASE NotifyNever(e)
      BY <2>7 DEF NotifyNever
    <2>8. QED
      BY <1>4, <2>1, <2>2, <2>3, <2>4, <2>5, <2>6, <2>7 DEF Notify
  <1>5. ASSUME NEW c \in Creator, Create(c) \/ InterruptCreator(c) PROVE TypeOK'
    <2>1. CASE RemovePending(c)
      BY <2>1 DEF RemovePending
    <2>2. CASE EnqueueDigest(c)
      BY <2>2, OneMore DEF EnqueueDigest
    <2>3. CASE DropDigest(c)
      BY <2>3 DEF DropDigest, Of
    <2>4. CASE CommitDigest(c)
      BY <2>4 DEF CommitDigest, NextOwner
    <2>6. CASE InterruptCreator(c)
      <3>1. faults' \in 0 .. MaxFaults
        BY <2>6, BoundsAssumption DEF InterruptCreator, Fault
      <3>2. QED
        BY <2>6, <3>1 DEF InterruptCreator
    <2>7. QED
      BY <1>5, <2>1, <2>2, <2>3, <2>4, <2>6 DEF Create
  <1>6. ASSUME NEW c \in Creator, NEW f \in Digested, StartDigests(c, f) PROVE TypeOK'
    BY <1>6 DEF StartDigests
  <1>7. ASSUME NEW s \in Sender, Send(s) \/ InterruptSender(s) PROVE TypeOK'
    <2>1. CASE TakeDigest(s)
      <3>1. PICK d \in Digest :
              /\ digests[d] > 0
              /\ digests' = [digests EXCEPT ![d] = @ - 1]
              /\ digest' = [digest EXCEPT ![s] = d]
        BY <2>1 DEF TakeDigest
      <3>2. digests' \in [Digest -> Nat]
        BY <3>1, OneLess
      <3>3. QED
        BY <2>1, <3>1, <3>2 DEF TakeDigest
    <2>2. CASE LookupRecipient(s)
      <3>1. digest[s] \in Digest /\ digest[s].events \subseteq Event
        BY <2>2 DEF LookupRecipient, Digest
      <3>2. found' \in [Sender -> SUBSET Event]
        BY <2>2, <3>1 DEF LookupRecipient, Release
      <3>3. dead' \subseteq Digest /\ digest' \in [Sender -> Digest \cup {None}]
        BY <2>2, <3>1 DEF LookupRecipient, Release
      <3>4. QED
        BY <2>2, <3>1, <3>2, <3>3 DEF LookupRecipient, Release
    <2>3. CASE SendDigest(s)
      BY <2>3, MailType DEF SendDigest
    <2>4. CASE AckDigest(s)
      BY <2>4 DEF AckDigest, Release
    <2>5. CASE InterruptSender(s)
      <3>1. faults' \in 0 .. MaxFaults
        BY <2>5, BoundsAssumption DEF InterruptSender, Fault
      <3>2. digests' \in [Digest -> Nat] /\ dead' \subseteq Digest
        BY <2>5, OneMore DEF InterruptSender
      <3>3. QED
        BY <2>5, <3>1, <3>2 DEF InterruptSender, Release
    <2>6. QED
      BY <1>7, <2>1, <2>2, <2>3, <2>4, <2>5 DEF Send
  <1>8. QED
    BY <1>1, <1>2, <1>3, <1>4, <1>5, <1>6, <1>7 DEF Next

\* Every variable stays in its type, a transaction has an owner, and a sender
\* that is not idle holds a digest.
THEOREM TypeCorrect == Spec => []TypeOK
  <1>1. Init => TypeOK
    <2> SUFFICES ASSUME Init PROVE TypeOK
      OBVIOUS
    <2>1. incoming \subseteq Delivery
      BY BoundsAssumption DEF Init, Delivery, Attempt
    <2>2. seen \in [Event -> [verified: BOOLEAN, freq: Frequency]]
      BY DEF Init, Frequency
    <2>3. /\ changes \in 0 .. MaxChanges /\ faults \in 0 .. MaxFaults
          /\ mailed \in [Event -> 0 .. 2] /\ digests \in [Digest -> Nat]
      BY BoundsAssumption DEF Init
    <2>4. /\ task \in [Event -> TaskStep]
          /\ step \in [Creator -> {"idle", "owners", "enqueue", "commit"}]
          /\ \A c \in Creator : step[c] \in {"enqueue", "commit"} => owner[c] \in User
          /\ sending \in [Sender -> {"idle", "lookup", "send", "sent"}]
          /\ \A s \in Sender : sending[s] # "idle" => digest[s] \in Digest
      BY DEF Init, TaskStep
    <2>5. QED
      BY <2>1, <2>2, <2>3, <2>4 DEF Init, TypeOK
  <1>2. TypeOK /\ [Next]_vars => TypeOK'
    BY TypeStep
  <1>3. QED
    BY <1>1, <1>2, PTL DEF Spec

-----------------------------------------------------------------------------
(* What was handed over to a digest stays handed over.                     *)

LEMMA MailedGrows ==
    ASSUME TypeOK, [Next]_vars, NEW e \in Event
    PROVE  mailed[e] > 0 => mailed'[e] > 0
  <1> USE DEF settings, tasks, creating, mailing, history
  <1>1. CASE UNCHANGED mailed
    BY <1>1 DEF TypeOK
  <1>2. CASE \E i \in Event : NotifyInstantly(i)
    BY <1>1, <1>2, MailType DEF NotifyInstantly, TypeOK
  <1>3. CASE \E s \in Sender : SendDigest(s)
    BY <1>3, MailType DEF SendDigest, TypeOK
  <1>4. CASE UNCHANGED vars
    BY <1>1, <1>4 DEF vars
  <1>5. ASSUME NEW u \in User, OwnerActs(u)
        PROVE  UNCHANGED mailed
    BY <1>5 DEF OwnerActs, SetFrequency, Unsubscribe, ChangeAddress, RemoveItem, DeleteUser
  <1>6. ASSUME NEW d \in Delivery, FindSimilar(d) \/ FinishIncoming(d) \/ InterruptIncoming(d)
        PROVE  UNCHANGED mailed
    BY <1>6 DEF FindSimilar, FinishIncoming, InterruptIncoming
  <1>7. ASSUME NEW i \in Event, Notify(i), ~NotifyInstantly(i) PROVE UNCHANGED mailed
    BY <1>7 DEF Notify, LookupOwner, RecordEvent, StayQuiet, ReadSettings, NotifyLater,
                NotifyNever
  <1>8. ASSUME NEW c \in Creator,
               Create(c) \/ InterruptCreator(c) \/ \E f \in Digested : StartDigests(c, f)
        PROVE  UNCHANGED mailed
    BY <1>8 DEF Create, RemovePending, EnqueueDigest, DropDigest, CommitDigest, NextOwner,
                InterruptCreator, StartDigests
  <1>9. ASSUME NEW s \in Sender, Send(s) \/ InterruptSender(s), ~SendDigest(s)
        PROVE  UNCHANGED mailed
    BY <1>9 DEF Send, TakeDigest, LookupRecipient, AckDigest, InterruptSender
  <1>10. QED
    BY <1>1, <1>2, <1>3, <1>4, <1>5, <1>6, <1>7, <1>8, <1>9 DEF Next

LEMMA LossGrows ==
    ASSUME [Next]_vars PROVE dropped \subseteq dropped' /\ gone \subseteq gone'
  BY DEF Next, vars, settings, tasks, creating, mailing, history, OwnerActs, SetFrequency,
         Unsubscribe, ChangeAddress, RemoveItem, DeleteUser, Cascade, FindSimilar, FinishIncoming, InterruptIncoming, Notify, LookupOwner,
         RecordEvent, StayQuiet, ReadSettings, NotifyInstantly, NotifyLater, NotifyNever,
         Create, RemovePending, EnqueueDigest, DropDigest, CommitDigest, NextOwner,
         InterruptCreator, StartDigests, Send, TakeDigest, LookupRecipient, SendDigest,
         AckDigest, InterruptSender

\* Only a sender takes a digest job out of what is known, and every way a
\* sender lets go of it leaves its events handed over.
LEMMA KnownStays ==
    ASSUME TypeOK, SenderInv, [Next]_vars,
           NEW d \in Digest, Known(d), NEW e \in Event, e \in d.events
    PROVE  HandedOver(e)'
  <1> USE DEF settings, tasks, creating, mailing, history
  <1>1. Known(d)' => HandedOver(e)'
    BY DEF HandedOver
  <1>2. CASE UNCHANGED <<digests, dead, sending, digest>>
    BY <1>1, <1>2 DEF Known
  <1>3. CASE UNCHANGED vars
    BY <1>2, <1>3 DEF vars
  <1>4. ASSUME NEW u \in User, OwnerActs(u)
        PROVE  HandedOver(e)'
    BY <1>2, <1>4 DEF OwnerActs, SetFrequency, Unsubscribe, ChangeAddress, RemoveItem, DeleteUser
  <1>5. ASSUME NEW i \in Delivery, FindSimilar(i) \/ FinishIncoming(i) \/ InterruptIncoming(i)
        PROVE  HandedOver(e)'
    BY <1>2, <1>5 DEF FindSimilar, FinishIncoming, InterruptIncoming
  <1>6. ASSUME NEW i \in Event, Notify(i) PROVE HandedOver(e)'
    BY <1>2, <1>6 DEF Notify, LookupOwner, RecordEvent, StayQuiet, ReadSettings,
                      NotifyInstantly, NotifyLater, NotifyNever
  <1>7. ASSUME NEW c \in Creator,
               Create(c) \/ InterruptCreator(c) \/ \E f \in Digested : StartDigests(c, f)
        PROVE  HandedOver(e)'
    <2>1. CASE EnqueueDigest(c)
      <3>1. \A i \in Digest : digests[i] > 0 => digests'[i] > 0
        BY <2>1, OneMore DEF EnqueueDigest, TypeOK
      <3>2. QED
        BY <1>1, <2>1, <3>1 DEF EnqueueDigest, Known
    <2>2. CASE ~EnqueueDigest(c)
      BY <1>2, <1>7, <2>2 DEF Create, RemovePending, DropDigest, CommitDigest, NextOwner,
                              InterruptCreator, StartDigests
    <2>3. QED
      BY <2>1, <2>2
  <1>8. ASSUME NEW s \in Sender, Send(s) \/ InterruptSender(s) PROVE HandedOver(e)'
    <2>1. \/ digests[d] > 0 \/ d \in dead
          \/ \E t \in Sender : sending[t] # "idle" /\ digest[t] = d
      BY DEF Known
    <2>2. CASE TakeDigest(s)
      <3>1. PICK i \in Digest :
              /\ digests[i] > 0
              /\ digests' = [digests EXCEPT ![i] = @ - 1]
              /\ digest' = [digest EXCEPT ![s] = i]
        BY <2>2 DEF TakeDigest
      <3>2. sending[s] = "idle" /\ sending' = [sending EXCEPT ![s] = "lookup"] /\ dead' = dead
        BY <2>2 DEF TakeDigest
      <3>3. i = d => Known(d)'
        BY <3>1, <3>2 DEF Known, TypeOK
      <3>4. i # d => Known(d)'
        BY <2>1, <3>1, <3>2, OneLess DEF Known, TypeOK
      <3>5. QED
        BY <1>1, <3>3, <3>4
    <2>3. CASE LookupRecipient(s)
      <3>1. Known(d)'
        BY <2>1, <2>3 DEF LookupRecipient, Release, Known, TypeOK
      <3>2. QED
        BY <1>1, <3>1
    <2>4. CASE SendDigest(s)
      <3>1. Known(d)'
        BY <2>1, <2>4 DEF SendDigest, Known, TypeOK
      <3>2. QED
        BY <1>1, <3>1
    <2>5. CASE AckDigest(s)
      <3>1. CASE digest[s] = d
        BY <2>5, <3>1, LossGrows DEF AckDigest, SenderInv, HandedOver
      <3>2. CASE digest[s] # d
        <4>1. Known(d)'
          BY <2>1, <2>5, <3>2 DEF AckDigest, Release, Known, TypeOK
        <4>2. QED
          BY <1>1, <4>1
      <3>3. QED
        BY <3>1, <3>2
    <2>6. CASE InterruptSender(s)
      <3> DEFINE again == [digest[s] EXCEPT !.attempt = @ + 1]
      <3>1. digest[s] \in Digest
        BY <2>6 DEF InterruptSender, TypeOK
      <3>2. \A i \in Digest : digests[i] > 0 => digests'[i] > 0
        BY <2>6, OneMore DEF InterruptSender, TypeOK
      <3>3. CASE digest[s] # d
        <4>1. Known(d)'
          BY <2>1, <2>6, <3>2, <3>3 DEF InterruptSender, Release, Known, TypeOK
        <4>2. QED
          BY <1>1, <4>1
      <3>4. CASE digest[s] = d /\ d.attempt < MaxRetry
        <4>1. again \in Digest /\ again.events = d.events
          BY <3>4, RedeliveredDigest
        <4>2. digests'[again] > 0
          BY <2>6, <3>4, <4>1, OneMore DEF InterruptSender, TypeOK
        <4>3. QED
          BY <4>1, <4>2 DEF HandedOver, Known
      <3>5. CASE digest[s] = d /\ ~(d.attempt < MaxRetry)
        <4>1. Known(d)'
          BY <2>6, <3>5 DEF InterruptSender, Known
        <4>2. QED
          BY <1>1, <4>1
      <3>6. QED
        BY <3>3, <3>4, <3>5
    <2>7. QED
      BY <1>8, <2>2, <2>3, <2>4, <2>5, <2>6 DEF Send
  <1>9. QED
    BY <1>3, <1>4, <1>5, <1>6, <1>7, <1>8 DEF Next

LEMMA HandedOverStays ==
    ASSUME TypeOK, SenderInv, [Next]_vars, NEW e \in Event, HandedOver(e)
    PROVE  HandedOver(e)'
  <1>1. CASE \E d \in Digest : Known(d) /\ e \in d.events
    BY <1>1, KnownStays
  <1>2. CASE mailed[e] > 0
    BY <1>2, MailedGrows DEF HandedOver
  <1>3. CASE e \in dropped
    BY <1>3, LossGrows DEF HandedOver
  <1>4. CASE e \in gone
    BY <1>4, LossGrows DEF HandedOver
  <1>5. QED
    BY <1>1, <1>2, <1>3, <1>4 DEF HandedOver

-----------------------------------------------------------------------------
\* Every creator that has queued its digest, or given up on queueing it, has
\* handed over what its transaction deletes.
LEMMA CreatorStep ==
    ASSUME TypeOK, IInv, [Next]_vars
    PROVE  CreatorInv'
  <1> SUFFICES ASSUME NEW c \in Creator
               PROVE  /\ locked'[c] # {} => step'[c] \in {"enqueue", "commit"}
                      /\ locked'[c] \subseteq Of(owner'[c], batch'[c])
                      /\ step'[c] = "commit" => \A e \in locked'[c] : HandedOver(e)'
    BY DEF CreatorInv
  <1> USE DEF settings, tasks, creating, mailing, history
  <1>1. /\ locked[c] # {} => step[c] \in {"enqueue", "commit"}
        /\ locked[c] \subseteq Of(owner[c], batch[c])
        /\ step[c] = "commit" => \A e \in locked[c] : HandedOver(e)
        /\ locked[c] \subseteq Event
    BY DEF IInv, CreatorInv, TypeOK
  <1>2. \A e \in Event : HandedOver(e) => HandedOver(e)'
    BY HandedOverStays DEF IInv
  <1>3. CASE step'[c] = step[c] /\ batch'[c] = batch[c] /\ owner'[c] = owner[c]
             /\ locked'[c] = locked[c]
    BY <1>1, <1>2, <1>3
  <1>4. CASE UNCHANGED creating
    BY <1>3, <1>4
  <1>5. CASE UNCHANGED vars
    BY <1>4, <1>5 DEF vars
  <1>6. CASE \E u \in User : OwnerActs(u)
    BY <1>4, <1>6 DEF OwnerActs, SetFrequency, Unsubscribe, ChangeAddress, RemoveItem, DeleteUser
  <1>7. CASE \E d \in Delivery : FindSimilar(d) \/ FinishIncoming(d) \/ InterruptIncoming(d)
    BY <1>4, <1>7 DEF FindSimilar, FinishIncoming, InterruptIncoming
  <1>8. CASE \E e \in Event : Notify(e)
    BY <1>4, <1>8 DEF Notify, LookupOwner, RecordEvent, StayQuiet, ReadSettings,
                      NotifyInstantly, NotifyLater, NotifyNever
  <1>9. CASE \E s \in Sender : Send(s) \/ InterruptSender(s)
    BY <1>4, <1>9 DEF Send, TakeDigest, LookupRecipient, SendDigest, AckDigest, InterruptSender
  <1>10. ASSUME NEW i \in Creator, i # c,
                Create(i) \/ InterruptCreator(i) \/ \E f \in Digested : StartDigests(i, f)
         PROVE  /\ step'[c] = step[c] /\ batch'[c] = batch[c] /\ owner'[c] = owner[c]
                /\ locked'[c] = locked[c]
    BY <1>10 DEF Create, RemovePending, EnqueueDigest, DropDigest, CommitDigest, NextOwner,
                 InterruptCreator, StartDigests, TypeOK
  <1>11. CASE Create(c) \/ InterruptCreator(c) \/ \E f \in Digested : StartDigests(c, f)
    <2>1. CASE RemovePending(c)
      BY <2>1 DEF RemovePending, TypeOK
    <2>2. CASE EnqueueDigest(c)
      <3> DEFINE d == [user |-> owner[c], events |-> Of(owner[c], batch[c]), attempt |-> 0]
      <3>1. d \in Digest
        BY <2>2, BoundsAssumption DEF EnqueueDigest, TypeOK, Digest, Attempt, Of
      <3>2. digests'[d] > 0
        BY <2>2, <3>1, OneMore DEF EnqueueDigest, TypeOK
      <3>3. \A e \in Of(owner[c], batch[c]) : HandedOver(e)'
        BY <3>1, <3>2 DEF HandedOver, Known
      <3>4. QED
        BY <1>1, <2>2, <3>3 DEF EnqueueDigest, TypeOK
    <2>3. CASE DropDigest(c)
      <3>1. \A e \in Of(owner[c], batch[c]) : HandedOver(e)'
        BY <2>3 DEF DropDigest, HandedOver
      <3>2. QED
        BY <1>1, <2>3, <3>1 DEF DropDigest, TypeOK
    <2>4. CASE CommitDigest(c)
      BY <2>4 DEF CommitDigest, NextOwner, TypeOK
    <2>6. CASE InterruptCreator(c)
      BY <2>6 DEF InterruptCreator, TypeOK
    <2>7. CASE \E f \in Digested : StartDigests(c, f)
      BY <1>1, <2>7 DEF StartDigests, TypeOK
    <2>8. QED
      BY <1>11, <2>1, <2>2, <2>3, <2>4, <2>6, <2>7 DEF Create
  <1>12. QED
    BY <1>3, <1>5, <1>6, <1>7, <1>8, <1>9, <1>10, <1>11 DEF Next

LEMMA SenderStep ==
    ASSUME TypeOK, SenderInv, [Next]_vars
    PROVE  SenderInv'
  <1> SUFFICES ASSUME NEW s \in Sender, TypeOK'
               PROVE  /\ sending'[s] = "send" => digest'[s].events \subseteq found'[s] \cup gone'
                      /\ sending'[s] = "sent" =>
                             \A e \in digest'[s].events : mailed'[e] > 0 \/ e \in gone'
    BY TypeStep DEF SenderInv
  <1> USE DEF settings, tasks, creating, mailing, history
  <1>1. sending[s] # "idle" => digest[s] \in Digest /\ digest[s].events \subseteq Event
    BY DEF TypeOK, Digest
  <1>2. /\ \A e \in Event : mailed[e] > 0 => mailed'[e] > 0
        /\ gone \subseteq gone'
    BY MailedGrows, LossGrows
  <1>3. /\ sending[s] = "send" => digest[s].events \subseteq found[s] \cup gone
        /\ sending[s] = "sent" => \A e \in digest[s].events : mailed[e] > 0 \/ e \in gone
    BY DEF SenderInv
  <1>4. CASE sending'[s] = sending[s] /\ digest'[s] = digest[s] /\ found'[s] = found[s]
    BY <1>1, <1>2, <1>3, <1>4
  <1>5. CASE UNCHANGED <<sending, digest, found>>
    BY <1>4, <1>5
  <1>6. CASE UNCHANGED vars
    BY <1>5, <1>6 DEF vars
  <1>7. CASE \E u \in User : OwnerActs(u)
    BY <1>5, <1>7 DEF OwnerActs, SetFrequency, Unsubscribe, ChangeAddress, RemoveItem, DeleteUser
  <1>8. CASE \E d \in Delivery : FindSimilar(d) \/ FinishIncoming(d) \/ InterruptIncoming(d)
    BY <1>5, <1>8 DEF FindSimilar, FinishIncoming, InterruptIncoming
  <1>9. CASE \E i \in Event : Notify(i)
    BY <1>5, <1>9 DEF Notify, LookupOwner, RecordEvent, StayQuiet, ReadSettings,
                      NotifyInstantly, NotifyLater, NotifyNever
  <1>10. CASE \E c \in Creator :
                Create(c) \/ InterruptCreator(c) \/ \E f \in Digested : StartDigests(c, f)
    BY <1>5, <1>10 DEF Create, RemovePending, EnqueueDigest, DropDigest, CommitDigest,
                       InterruptCreator, StartDigests
  <1>11. CASE \E t \in Sender : Send(t) \/ InterruptSender(t)
    <2>1. PICK t \in Sender : Send(t) \/ InterruptSender(t)
      BY <1>11
    <2>2. CASE t # s
      <3>1. sending'[s] = sending[s] /\ digest'[s] = digest[s] /\ found'[s] = found[s]
        BY <2>1, <2>2 DEF Send, TakeDigest, LookupRecipient, SendDigest, AckDigest,
                          InterruptSender, Release, TypeOK
      <3>2. QED
        BY <1>4, <3>1
    <2>3. CASE t = s /\ LookupRecipient(s)
      <3>1. CASE address[digest[s].user] = "verified"
        <4>1. /\ sending'[s] = "send" /\ digest' = digest
              /\ found'[s] = digest[s].events \ gone
          BY <2>3, <3>1 DEF LookupRecipient, TypeOK
        <4>2. QED
          BY <1>2, <4>1
      <3>2. CASE ~(address[digest[s].user] = "verified")
        BY <2>3, <3>2 DEF LookupRecipient, Release, TypeOK
      <3>3. QED
        BY <3>1, <3>2
    <2>4. CASE t = s /\ SendDigest(s)
      <3>1. /\ sending[s] = "send" /\ sending'[s] = "sent" /\ digest' = digest
            /\ Mail(found[s]) /\ mailed \in [Event -> 0 .. 2]
        BY <2>4 DEF SendDigest, TypeOK
      <3>2. \A e \in Event \cap found[s] : mailed'[e] > 0
        BY <3>1, MailType
      <3>3. QED
        BY <1>1, <1>2, <1>3, <3>1, <3>2
    <2>5. CASE t = s /\ (TakeDigest(s) \/ AckDigest(s) \/ InterruptSender(s))
      BY <2>5 DEF TakeDigest, AckDigest, InterruptSender, Release, TypeOK
    <2>6. QED
      BY <2>1, <2>2, <2>3, <2>4, <2>5 DEF Send
  <1>12. QED
    BY <1>6, <1>7, <1>8, <1>9, <1>10, <1>11 DEF Next

\* No pending notification is forgotten: a row leaves the table only with a
\* transaction that queued, or knowingly dropped, the digest that names it, or by
\* the cascade.
LEMMA NothingForgottenStep ==
    ASSUME TypeOK, IInv, [Next]_vars
    PROVE  NothingForgotten'
  <1> SUFFICES ASSUME NEW e \in noted', e \notin pending' PROVE HandedOver(e)'
    BY DEF NothingForgotten
  <1> USE DEF settings, tasks, creating, mailing, history
  <1>1. \A i \in Event : HandedOver(i) => HandedOver(i)'
    BY HandedOverStays DEF IInv
  <1>2. \A i \in noted : i \in Event /\ (i \in pending \/ HandedOver(i))
    BY DEF IInv, NothingForgotten, TypeOK
  <1>3. CASE e \in noted /\ UNCHANGED pending
    BY <1>1, <1>2, <1>3
  <1>4. CASE UNCHANGED <<noted, pending>>
    BY <1>3, <1>4
  <1>5. CASE UNCHANGED vars
    BY <1>4, <1>5 DEF vars
  <1>6. CASE \E u \in User : OwnerActs(u)
    <2>1. PICK u \in User : OwnerActs(u)
      BY <1>6
    <2>2. ASSUME NEW events, Cascade(events), noted' = noted PROVE HandedOver(e)'
      <3>1. e \in pending => e \in gone'
        BY <2>2 DEF Cascade
      <3>2. QED
        BY <1>1, <1>2, <2>2, <3>1 DEF HandedOver
    <2>3. CASE RemoveItem(u)
      BY <2>2, <2>3 DEF RemoveItem
    <2>4. CASE DeleteUser(u)
      BY <2>2, <2>4 DEF DeleteUser
    <2>5. CASE SetFrequency(u) \/ Unsubscribe(u) \/ ChangeAddress(u)
      BY <1>4, <2>5 DEF SetFrequency, Unsubscribe, ChangeAddress
    <2>6. QED
      BY <2>1, <2>3, <2>4, <2>5 DEF OwnerActs
  <1>7. CASE \E d \in Delivery : FindSimilar(d) \/ FinishIncoming(d) \/ InterruptIncoming(d)
    BY <1>4, <1>7 DEF FindSimilar, FinishIncoming, InterruptIncoming
  <1>8. CASE \E i \in Event : Notify(i)
    <2>1. PICK i \in Event : Notify(i)
      BY <1>8
    <2>2. CASE NotifyLater(i)
      <3>1. pending \subseteq pending' /\ (e \in noted \/ (e = i /\ e \in pending'))
        BY <2>2 DEF NotifyLater
      <3>2. QED
        BY <1>1, <1>2, <3>1
    <2>3. CASE ~NotifyLater(i)
      BY <1>4, <2>1, <2>3 DEF Notify, LookupOwner, RecordEvent, StayQuiet, ReadSettings,
                              NotifyInstantly, NotifyNever
    <2>4. QED
      BY <2>2, <2>3
  <1>9. CASE \E s \in Sender : Send(s) \/ InterruptSender(s)
    BY <1>4, <1>9 DEF Send, TakeDigest, LookupRecipient, SendDigest, AckDigest, InterruptSender
  <1>10. CASE \E c \in Creator :
                Create(c) \/ InterruptCreator(c) \/ \E f \in Digested : StartDigests(c, f)
    <2>1. PICK c \in Creator :
            Create(c) \/ InterruptCreator(c) \/ \E f \in Digested : StartDigests(c, f)
      BY <1>10
    <2>2. CASE CommitDigest(c)
      <3>1. e \in noted /\ pending' = pending \ locked[c] /\ step[c] = "commit"
        BY <2>2 DEF CommitDigest, NextOwner
      <3>2. e \in locked[c] => HandedOver(e)
        BY <3>1 DEF IInv, CreatorInv
      <3>3. QED
        BY <1>1, <1>2, <3>1, <3>2
    <2>3. CASE ~CommitDigest(c)
      BY <1>4, <2>1, <2>3 DEF Create, RemovePending, EnqueueDigest, DropDigest, NextOwner,
                              InterruptCreator, StartDigests
    <2>4. QED
      BY <2>2, <2>3
  <1>11. QED
    BY <1>5, <1>6, <1>7, <1>8, <1>9, <1>10 DEF Next

-----------------------------------------------------------------------------
(* Without interruptions and overlapping digest jobs an event is in one     *)
(* place: a task, a row, a waiting digest, a sender, or a mail.             *)

LEMMA MailOnce ==
    ASSUME mailed \in [Event -> 0 .. 2], NEW events, Mail(events), NEW e \in Event
    PROVE  /\ e \in events /\ mailed[e] = 0 => mailed'[e] = 1
           /\ e \notin events => mailed'[e] = mailed[e]
  BY DEF Mail

\* A step that moves tasks only.
LEMMA TasksMove ==
    ASSUME OnePlace, UNCHANGED <<pending, creating, mailing, gone>>,
           \A e \in Event : task'[e] # "over" => task[e] # "over",
           \A d \in incoming' : \A e \in TasksOf(d) : task'[e] = "none"
    PROVE  OnePlace'
  <1> USE DEF creating, mailing
  <1>1. \A e \in Event : Untold(e) => Untold(e)'
    BY DEF Untold, Queued, Carried
  <1>2. TaskFirst'
    BY <1>1 DEF OnePlace, TaskFirst, TasksOf
  <1>3. Exclusive'
    BY DEF OnePlace, Exclusive, Of
  <1>4. RowFirst'
    <2> SUFFICES ASSUME NEW e \in pending', ~Untold(e)'
                 PROVE  \E c \in Creator : step'[c] = "commit" /\ e \in locked'[c]
      BY DEF RowFirst
    <2>1. e \in pending /\ (Untold(e) => Untold(e)')
      BY DEF Untold, Queued, Carried
    <2>2. QED
      BY <2>1 DEF OnePlace, RowFirst
  <1>5. OneDigest'
    BY DEF OnePlace, OneDigest, Queued, Carried
  <1>6. QED
    BY <1>2, <1>3, <1>4, <1>5 DEF OnePlace

\* A cascade takes events from where they are, and puts none anywhere.
LEMMA OnePlaceCascade ==
    ASSUME TypeOK, OnePlace, UNCHANGED <<incoming, task, creating, mailing>>,
           NEW events, Cascade(events)
    PROVE  OnePlace'
  <1> USE DEF creating, mailing
  <1>1. /\ gone \subseteq gone' /\ pending' \subseteq pending
        /\ \A c \in Creator : locked[c] \subseteq pending => locked[c] \subseteq pending'
    BY DEF Cascade
  <1>2. /\ \A d \in Digest, e \in Event : Queued(d, e)' => Queued(d, e)
        /\ \A s \in Sender, e \in Event : Carried(s, e)' => Carried(s, e)
    BY <1>1 DEF Queued, Carried
  <1>3. \A e \in Event : Untold(e) => Untold(e)'
    BY <1>2 DEF Untold
  <1>4. TaskFirst'
    BY <1>1, <1>3 DEF OnePlace, TaskFirst, TasksOf
  <1>5. Exclusive'
    BY <1>1 DEF OnePlace, Exclusive, Of
  <1>6. RowFirst'
    <2> SUFFICES ASSUME NEW e \in pending', ~Untold(e)'
                 PROVE  \E c \in Creator : step'[c] = "commit" /\ e \in locked'[c]
      BY DEF RowFirst
    <2>1. e \in pending /\ e \in Event
      BY <1>1 DEF TypeOK
    <2>2. QED
      BY <1>3, <2>1 DEF OnePlace, RowFirst
  <1>7. OneDigest'
    BY <1>2 DEF OnePlace, OneDigest
  <1>8. QED
    BY <1>4, <1>5, <1>6, <1>7 DEF OnePlace

LEMMA OnePlaceTask ==
    ASSUME TypeOK, OnePlace, NEW e \in Event, Notify(e)
    PROVE  OnePlace'
  <1> USE DEF creating, mailing
  <1>1. task \in [Event -> TaskStep] /\ mailed \in [Event -> 0 .. 2] /\ incoming \subseteq Delivery
    BY DEF TypeOK
  <1>2. task[e] \notin {"none", "over"} /\ incoming' = incoming
    BY <1>1 DEF Notify, LookupOwner, RecordEvent, StayQuiet, ReadSettings, NotifyInstantly,
                NotifyLater, NotifyNever
  <1>3. \A i \in Event : i # e => task'[i] = task[i]
    BY <1>1 DEF Notify, LookupOwner, RecordEvent, StayQuiet, ReadSettings, NotifyInstantly,
                NotifyLater, NotifyNever
  <1>4. \A d \in incoming : \A i \in TasksOf(d) : task'[i] = "none"
    BY <1>2, <1>3 DEF OnePlace, TaskFirst, TasksOf
  <1>5. \A i \in Event : task'[i] # "over" => task[i] # "over"
    BY <1>2, <1>3
  <1>6. e \notin pending /\ Untold(e)
    BY <1>2 DEF OnePlace, TaskFirst
  <1>7. CASE UNCHANGED <<pending, mailing>>
    <2>1. UNCHANGED <<creating, gone>>
      BY DEF settings, Notify, LookupOwner, RecordEvent, StayQuiet, ReadSettings, NotifyInstantly,
             NotifyLater, NotifyNever
    <2>2. QED
      BY <1>2, <1>4, <1>5, <1>7, <2>1, TasksMove
  <1>8. CASE NotifyInstantly(e) /\ Mail({e})
    <2>1. /\ UNCHANGED <<pending, creating, digests, dead, sending, digest, found, gone>>
          /\ task'[e] = "over"
      BY <1>1, <1>8 DEF NotifyInstantly, settings
    <2>2. mailed'[e] = 1 /\ \A i \in Event \ {e} : mailed'[i] = mailed[i]
      <3>1. mailed[e] = 0
        BY <1>6 DEF Untold
      <3>2. mailed'[e] = 1
        BY <1>1, <1>8, <3>1, MailOnce
      <3>3. \A i \in Event \ {e} : mailed'[i] = mailed[i]
        BY <1>1, <1>8, MailOnce
      <3>4. QED
        BY <3>2, <3>3
    <2>3. ASSUME NEW i \in Event \ {e}, Untold(i) PROVE Untold(i)'
      BY <2>1, <2>2, <2>3 DEF Untold, Queued, Carried
    <2>4. TaskFirst'
      BY <1>2, <1>4, <1>5, <2>1, <2>3 DEF OnePlace, TaskFirst, TasksOf
    <2>5. Exclusive'
      BY <2>1 DEF OnePlace, Exclusive, Of
    <2>6. RowFirst'
      <3> SUFFICES ASSUME NEW i \in pending', ~Untold(i)'
                   PROVE  \E c \in Creator : step'[c] = "commit" /\ i \in locked'[c]
        BY DEF RowFirst
      <3>1. i \in pending /\ i \in Event \ {e}
        BY <1>6, <2>1 DEF TypeOK
      <3>2. QED
        BY <2>1, <2>3, <3>1 DEF OnePlace, RowFirst
    <2>7. OneDigest'
      <3> SUFFICES ASSUME NEW i \in Event
                   PROVE  /\ mailed'[i] <= 1
                          /\ \A d \in Digest : Queued(d, i)' =>
                                /\ mailed'[i] = 0 /\ digests'[d] = 1
                                /\ \A j \in Digest : Queued(j, i)' => j = d
                                /\ \A s \in Sender : ~Carried(s, i)'
                          /\ \A s \in Sender : Carried(s, i)' =>
                                mailed'[i] = 0 /\ \A t \in Sender : Carried(t, i)' => t = s
        BY DEF OneDigest
      <3>1. CASE i = e
        <4>1. /\ \A d \in Digest : ~Queued(d, e)'
              /\ \A s \in Sender : ~Carried(s, e)'
          BY <1>6, <2>1 DEF Untold, Queued, Carried
        <4>2. QED
          BY <2>2, <3>1, <4>1
      <3>2. CASE i # e
        BY <2>1, <2>2, <3>2 DEF OnePlace, OneDigest, Queued, Carried
      <3>3. QED
        BY <3>1, <3>2
    <2>8. QED
      BY <2>4, <2>5, <2>6, <2>7 DEF OnePlace
  <1>9. CASE NotifyLater(e) /\ pending' = pending \cup {e}
    <2>1. UNCHANGED <<creating, mailing, gone>> /\ task'[e] = "over"
      BY <1>1, <1>9 DEF NotifyLater, settings
    <2>2. ASSUME NEW i \in Event, Untold(i) PROVE Untold(i)'
      BY <2>1, <2>2 DEF Untold, Queued, Carried
    <2>3. TaskFirst'
      BY <1>2, <1>4, <1>5, <1>9, <2>1, <2>2 DEF OnePlace, TaskFirst, TasksOf
    <2>4. Exclusive'
      BY <1>9, <2>1 DEF OnePlace, Exclusive, Of
    <2>5. RowFirst'
      <3> SUFFICES ASSUME NEW i \in pending', ~Untold(i)'
                   PROVE  \E c \in Creator : step'[c] = "commit" /\ i \in locked'[c]
        BY DEF RowFirst
      <3>1. i \in pending /\ i \in Event
        BY <1>6, <1>9, <2>2 DEF TypeOK
      <3>2. QED
        BY <2>1, <2>2, <3>1 DEF OnePlace, RowFirst
    <2>6. OneDigest'
      BY <2>1 DEF OnePlace, OneDigest, Queued, Carried
    <2>7. QED
      BY <2>3, <2>4, <2>5, <2>6 DEF OnePlace
  <1>10. QED
    BY <1>7, <1>8, <1>9 DEF Notify, LookupOwner, RecordEvent, StayQuiet, ReadSettings,
                            NotifyInstantly, NotifyLater, NotifyNever

\* The digests and senders are left alone: what is untold stays so.
LEMMA OnePlaceCreator ==
    ASSUME TypeOK, TypeOK', CreatorInv, OnePlace, NEW c \in Creator,
           Create(c) \/ \E f \in Digested : StartDigests(c, f), ~overlapped'
    PROVE  OnePlace'
  <1> USE DEF tasks, creating, mailing
  <1>1. /\ step \in [Creator -> {"idle", "owners", "enqueue", "commit"}]
        /\ batch \in [Creator -> SUBSET Event] /\ locked \in [Creator -> SUBSET Event]
        /\ owner \in [Creator -> User \cup {None}] /\ pending \subseteq Event
        /\ digests \in [Digest -> Nat]
        /\ \A i \in Creator : step[i] \in {"enqueue", "commit"} => owner[i] \in User
    BY DEF TypeOK
  <1>2. /\ \A i \in Creator : step[i] \in {"enqueue", "commit"} =>
              Of(owner[i], batch[i]) \subseteq locked[i] \cup gone /\ locked[i] \subseteq pending
        /\ \A i \in Creator : \A j \in Creator \ {i} : locked[i] \cap locked[j] = {}
    BY DEF OnePlace, Exclusive
  <1>3. \A i \in Creator : locked[i] # {} => step[i] \in {"enqueue", "commit"}
    BY DEF CreatorInv
  <1>4. UNCHANGED <<incoming, task, gone>> /\ pending' \subseteq pending
    BY DEF settings, Create, RemovePending, EnqueueDigest, DropDigest, CommitDigest, NextOwner,
           StartDigests
  <1>5. /\ \A i \in Creator \ {c} : /\ step'[i] = step[i] /\ batch'[i] = batch[i]
                                    /\ owner'[i] = owner[i] /\ locked'[i] = locked[i]
        /\ DOMAIN locked' = Creator
    BY <1>1 DEF Create, RemovePending, EnqueueDigest, DropDigest, CommitDigest, NextOwner,
                StartDigests
  <1>6. Exclusive'
    <2> SUFFICES /\ step'[c] \in {"enqueue", "commit"} =>
                       /\ Of(owner'[c], batch'[c]) \subseteq locked'[c] \cup gone
                       /\ locked'[c] \subseteq pending'
                 /\ \A i \in Creator \ {c} : locked'[c] \cap locked[i] = {}
                 /\ \A i \in Creator \ {c} : step[i] \in {"enqueue", "commit"} =>
                       locked[i] \subseteq pending'
      BY <1>2, <1>4, <1>5 DEF Exclusive, Of
    <2>1. CASE RemovePending(c)
      <3>1. PICK u \in User :
              /\ \A other \in Creator : locked[other] \cap Of(u, batch[c]) = {}
              /\ owner' = [owner EXCEPT ![c] = u]
              /\ locked' = [locked EXCEPT ![c] = Of(u, batch[c]) \cap pending]
              /\ overlapped' = (overlapped \/ ~(Of(u, batch[c]) \subseteq pending \cup gone))
        BY <2>1 DEF RemovePending
      <3>2. Of(u, batch[c]) \subseteq pending \cup gone
        BY <3>1
      <3>3. locked'[c] = Of(u, batch[c]) \cap pending /\ owner'[c] = u
        BY <1>1, <3>1, <3>2
      <3>4. UNCHANGED <<pending, batch>>
        BY <2>1 DEF RemovePending
      <3>5. QED
        BY <1>2, <3>1, <3>2, <3>3, <3>4
    <2>2. CASE EnqueueDigest(c) \/ DropDigest(c)
      <3>1. /\ step[c] = "enqueue" /\ UNCHANGED <<pending, batch, owner, locked>>
        BY <2>2 DEF EnqueueDigest, DropDigest
      <3>2. QED
        BY <1>2, <3>1
    <2>3. CASE CommitDigest(c)
      <3>1. /\ pending' = pending \ locked[c] /\ locked'[c] = {}
            /\ step'[c] \in {"idle", "owners"}
        BY <1>1, <2>3 DEF CommitDigest, NextOwner
      <3>2. QED
        BY <1>2, <3>1
    <2>4. CASE \E f \in Digested : StartDigests(c, f)
      <3>1. /\ step'[c] = "owners" /\ step[c] = "idle"
            /\ UNCHANGED <<pending, locked>>
        BY <1>1, <2>4 DEF StartDigests
      <3>2. QED
        BY <1>2, <3>1
    <2>5. QED
      BY <2>1, <2>2, <2>3, <2>4 DEF Create
  <1>7. CASE ~EnqueueDigest(c)
    <2>1. UNCHANGED mailing
      BY <1>7 DEF Create, RemovePending, DropDigest, CommitDigest, NextOwner, StartDigests
    <2>2. ASSUME NEW e, Untold(e) PROVE Untold(e)'
      BY <1>4, <2>1, <2>2 DEF Untold, Queued, Carried
    <2>3. TaskFirst'
      BY <1>4, <2>2 DEF OnePlace, TaskFirst, TasksOf
    <2>4. RowFirst'
      <3> SUFFICES ASSUME NEW e \in pending', ~Untold(e)'
                   PROVE  \E i \in Creator : step'[i] = "commit" /\ e \in locked'[i]
        BY DEF RowFirst
      <3>1. PICK i \in Creator : step[i] = "commit" /\ e \in locked[i]
        BY <1>4, <2>2 DEF OnePlace, RowFirst
      <3>2. CASE i # c
        BY <1>5, <3>1, <3>2
      <3>3. CASE i = c
        <4>1. step[c] = "commit" /\ e \in locked[c]
          BY <3>1, <3>3
        <4>2. CommitDigest(c)
          BY <1>7, <4>1 DEF Create, RemovePending, DropDigest, StartDigests
        <4>3. pending' = pending \ locked[c]
          BY <4>2 DEF CommitDigest
        <4>4. QED
          BY <4>1, <4>3
      <3>4. QED
        BY <3>2, <3>3
    <2>5. OneDigest'
      BY <1>4, <2>1 DEF OnePlace, OneDigest, Queued, Carried
    <2>6. QED
      BY <1>6, <2>3, <2>4, <2>5 DEF OnePlace
  <1>8. CASE EnqueueDigest(c)
    <2> DEFINE d == [user |-> owner[c], events |-> Of(owner[c], batch[c]), attempt |-> 0]
    <2>1. /\ step[c] = "enqueue" /\ step'[c] = "commit"
          /\ digests' = [digests EXCEPT ![d] = @ + 1]
          /\ UNCHANGED <<pending, batch, owner, locked, dead, sending, digest, found, mailed>>
      BY <1>1, <1>8 DEF EnqueueDigest
    <2>2. /\ d \in Digest /\ locked[c] \subseteq d.events /\ d.events \subseteq locked[c] \cup gone
          /\ locked[c] \subseteq pending
      <3>1. /\ owner[c] \in User /\ Of(owner[c], batch[c]) \subseteq locked[c] \cup gone
            /\ locked[c] \subseteq Of(owner[c], batch[c]) /\ locked[c] \subseteq pending
            /\ Of(owner[c], batch[c]) \subseteq Event
        BY <1>1, <1>2, <2>1 DEF CreatorInv, Of
      <3>2. QED
        BY <1>1, <3>1, BoundsAssumption DEF Digest, Attempt
    <2>3. \A e \in locked[c] : Untold(e)
      <3> SUFFICES ASSUME NEW e \in locked[c], ~Untold(e) PROVE FALSE
        OBVIOUS
      <3>1. PICK i \in Creator : step[i] = "commit" /\ e \in locked[i]
        BY <2>2 DEF OnePlace, RowFirst
      <3>2. i # c
        BY <2>1, <3>1
      <3>3. QED
        BY <1>2, <3>1, <3>2
    <2>4. ASSUME NEW i \in Digest \ {d} PROVE digests'[i] = digests[i]
      BY <1>1, <2>1, <2>4
    <2>5. digests'[d] = digests[d] + 1 /\ digests[d] \in Nat
      BY <1>1, <2>1, <2>2
    <2>6. ASSUME NEW e, e \notin locked[c], NEW i \in Digest
          PROVE  Queued(i, e)' => i # d /\ digests'[i] = digests[i] /\ Queued(i, e)
      <3>1. CASE i = d
        BY <1>4, <2>2, <2>6, <3>1 DEF Queued
      <3>2. CASE i # d
        BY <1>4, <2>4, <3>2 DEF Queued
      <3>3. QED
        BY <3>1, <3>2
    <2>7. \A e, s : Carried(s, e)' <=> Carried(s, e)
      BY <1>4, <2>1 DEF Carried
    <2>8. ASSUME NEW e, e \notin locked[c], Untold(e) PROVE Untold(e)'
      BY <2>1, <2>6, <2>7, <2>8 DEF Untold
    <2>9. TaskFirst'
      <3>1. ASSUME NEW e \in Event, task'[e] # "over" PROVE e \notin pending' /\ Untold(e)'
        <4>1. e \notin pending /\ Untold(e)
          BY <1>4, <3>1 DEF OnePlace, TaskFirst
        <4>2. QED
          BY <2>1, <2>2, <2>8, <4>1
      <3>2. \A i \in incoming' : \A e \in TasksOf(i) : task'[e] = "none"
        BY <1>4 DEF OnePlace, TaskFirst
      <3>3. QED
        BY <3>1, <3>2 DEF TaskFirst, TasksOf
    <2>10. RowFirst'
      <3> SUFFICES ASSUME NEW e \in pending', ~Untold(e)'
                   PROVE  \E i \in Creator : step'[i] = "commit" /\ e \in locked'[i]
        BY DEF RowFirst
      <3>1. CASE e \in locked[c]
        BY <2>1, <3>1
      <3>2. CASE e \notin locked[c]
        <4>1. PICK i \in Creator : step[i] = "commit" /\ e \in locked[i]
          BY <2>1, <2>8, <3>2 DEF OnePlace, RowFirst
        <4>2. QED
          BY <1>5, <2>1, <4>1
      <3>3. QED
        BY <3>1, <3>2
    <2>11. OneDigest'
      <3> SUFFICES ASSUME NEW e \in Event
                   PROVE  /\ mailed'[e] <= 1
                          /\ \A i \in Digest : Queued(i, e)' =>
                                /\ mailed'[e] = 0 /\ digests'[i] = 1
                                /\ \A j \in Digest : Queued(j, e)' => j = i
                                /\ \A s \in Sender : ~Carried(s, e)'
                          /\ \A s \in Sender : Carried(s, e)' =>
                                mailed'[e] = 0 /\ \A t \in Sender : Carried(t, e)' => t = s
        BY DEF OneDigest
      <3>1. CASE e \in locked[c]
        <4>1. /\ mailed[e] = 0 /\ \A i \in Digest : ~Queued(i, e)
              /\ \A s \in Sender : ~Carried(s, e)
          BY <2>3, <3>1 DEF Untold
        <4>2. e \notin gone => digests'[d] = 1
          BY <2>2, <2>5, <3>1, <4>1 DEF Queued
        <4>3. ASSUME NEW i \in Digest, Queued(i, e)' PROVE i = d /\ e \notin gone
          BY <1>4, <2>4, <4>1, <4>3 DEF Queued
        <4>4. QED
          BY <2>1, <2>7, <4>1, <4>2, <4>3
      <3>2. CASE e \notin locked[c]
        <4>1. /\ mailed[e] <= 1
              /\ \A i \in Digest : Queued(i, e) =>
                    /\ mailed[e] = 0 /\ digests[i] = 1
                    /\ \A j \in Digest : Queued(j, e) => j = i
                    /\ \A s \in Sender : ~Carried(s, e)
              /\ \A s \in Sender : Carried(s, e) =>
                    mailed[e] = 0 /\ \A t \in Sender : Carried(t, e) => t = s
          BY DEF OnePlace, OneDigest
        <4>2. \A i \in Digest : Queued(i, e)' => digests'[i] = digests[i] /\ Queued(i, e)
          BY <2>6, <3>2
        <4>3. QED
          BY <2>1, <2>7, <4>1, <4>2
      <3>3. QED
        BY <3>1, <3>2
    <2>12. QED
      BY <1>6, <2>9, <2>10, <2>11 DEF OnePlace
  <1>9. QED
    BY <1>7, <1>8

\* A digest goes from the queue to one sender, and from there to one mail.
LEMMA OnePlaceSender ==
    ASSUME TypeOK, TypeOK', OnePlace, NEW s \in Sender, Send(s)
    PROVE  OnePlace'
  <1> USE DEF tasks, creating, mailing
  <1>1. /\ digests \in [Digest -> Nat] /\ mailed \in [Event -> 0 .. 2]
        /\ sending \in [Sender -> {"idle", "lookup", "send", "sent"}]
        /\ digest \in [Sender -> Digest \cup {None}]
        /\ pending \subseteq Event
        /\ sending[s] # "idle" => digest[s] \in Digest
        /\ found \in [Sender -> SUBSET Event]
    BY DEF TypeOK
  <1>2. UNCHANGED <<incoming, task, pending, creating, gone>>
    BY DEF settings, Send, TakeDigest, LookupRecipient, SendDigest, AckDigest
  <1>3. \A t \in Sender \ {s} :
            sending'[t] = sending[t] /\ digest'[t] = digest[t] /\ found'[t] = found[t]
    BY <1>1 DEF Send, TakeDigest, LookupRecipient, SendDigest, AckDigest, Release
  <1>4. SUFFICES /\ OneDigest'
                 /\ \A e \in Event : Untold(e) => Untold(e)'
    <2>1. TaskFirst'
      BY <1>2, <1>4 DEF OnePlace, TaskFirst, TasksOf
    <2>2. Exclusive'
      BY <1>2 DEF OnePlace, Exclusive, Of
    <2>3. RowFirst'
      <3> SUFFICES ASSUME NEW e \in pending', ~Untold(e)'
                   PROVE  \E c \in Creator : step'[c] = "commit" /\ e \in locked'[c]
        BY DEF RowFirst
      <3>1. e \in pending /\ ~Untold(e)
        BY <1>1, <1>2, <1>4
      <3>2. QED
        BY <1>2, <3>1 DEF OnePlace, RowFirst
    <2>4. QED
      BY <1>4, <2>1, <2>2, <2>3 DEF OnePlace
  <1>5. SUFFICES ASSUME NEW e \in Event
                 PROVE  /\ mailed'[e] <= 1
                        /\ \A d \in Digest : Queued(d, e)' =>
                              /\ mailed'[e] = 0 /\ digests'[d] = 1
                              /\ \A i \in Digest : Queued(i, e)' => i = d
                              /\ \A t \in Sender : ~Carried(t, e)'
                        /\ \A t \in Sender : Carried(t, e)' =>
                              mailed'[e] = 0 /\ \A i \in Sender : Carried(i, e)' => i = t
                        /\ Untold(e) => Untold(e)'
    BY DEF OneDigest
  <1>6. /\ mailed[e] <= 1
        /\ \A d \in Digest : Queued(d, e) =>
              /\ mailed[e] = 0 /\ digests[d] = 1
              /\ \A i \in Digest : Queued(i, e) => i = d
              /\ \A t \in Sender : ~Carried(t, e)
        /\ \A t \in Sender : Carried(t, e) =>
              mailed[e] = 0 /\ \A i \in Sender : Carried(i, e) => i = t
    BY DEF OnePlace, OneDigest
  <1>7. \A t \in Sender \ {s} : Carried(t, e)' <=> Carried(t, e)
    BY <1>2, <1>3 DEF Carried
  <1>8. CASE /\ UNCHANGED digests /\ mailed'[e] = mailed[e]
             /\ Carried(s, e)' => Carried(s, e)
    <2>1. \A t \in Sender : Carried(t, e)' => Carried(t, e)
      BY <1>7, <1>8
    <2>2. \A d \in Digest : Queued(d, e)' <=> Queued(d, e)
      BY <1>2, <1>8 DEF Queued
    <2>3. QED
      BY <1>6, <1>8, <2>1, <2>2 DEF Untold
  <1>9. CASE TakeDigest(s)
    <2>1. PICK d \in Digest :
            /\ digests[d] > 0
            /\ digests' = [digests EXCEPT ![d] = @ - 1]
            /\ digest' = [digest EXCEPT ![s] = d]
      BY <1>9 DEF TakeDigest
    <2>2. mailed' = mailed /\ digest'[s] = d /\ digests'[d] = digests[d] - 1
      BY <1>1, <1>9, <2>1 DEF TakeDigest
    <2>3. \A i \in Digest \ {d} : digests'[i] = digests[i]
      BY <1>1, <2>1
    <2>4. ASSUME NEW i \in Digest, Queued(i, e)' PROVE Queued(i, e) /\ digests'[i] <= digests[i]
      <3>1. digests[i] \in Nat /\ digests[d] \in Nat
        BY <1>1
      <3>2. CASE i = d
        BY <2>1, <2>2, <2>4, <3>1, <3>2, <1>2 DEF Queued
      <3>3. CASE i # d
        BY <1>2, <2>3, <2>4, <3>1, <3>3 DEF Queued
      <3>4. QED
        BY <3>2, <3>3
    <2>5. ~Carried(s, e)
      BY <1>9 DEF TakeDigest, Carried
    <2>6. CASE e \in d.events \ gone
      <3>1. /\ mailed[e] = 0 /\ digests[d] = 1
            /\ \A i \in Digest : Queued(i, e) => i = d
            /\ \A t \in Sender : ~Carried(t, e)
        BY <1>6, <2>1, <2>6 DEF Queued
      <3>2. digests'[d] = 0
        BY <2>2, <3>1
      <3>3. \A i \in Digest : ~Queued(i, e)'
        <4>1. SUFFICES ASSUME NEW i \in Digest, Queued(i, e)' PROVE FALSE
          OBVIOUS
        <4>2. i = d
          BY <2>4, <3>1, <4>1
        <4>3. digests'[d] > 0
          BY <4>1, <4>2 DEF Queued
        <4>4. QED
          BY <3>2, <4>3
      <3>4. \A t \in Sender : Carried(t, e)' => t = s
        BY <1>7, <3>1
      <3>5. ~Untold(e)
        BY <2>1, <2>6 DEF Untold, Queued
      <3>6. QED
        BY <2>2, <3>1, <3>3, <3>4, <3>5
    <2>7. CASE e \notin d.events \ gone
      <3>1. ~Carried(s, e)'
        BY <1>1, <1>2, <1>9, <2>2, <2>7 DEF TakeDigest, Carried
      <3>2. \A t \in Sender : Carried(t, e)' <=> Carried(t, e)
        BY <1>7, <2>5, <3>1
      <3>3. ASSUME NEW i \in Digest, Queued(i, e)' PROVE digests'[i] = digests[i] /\ Queued(i, e)
        <4>1. i # d
          BY <1>2, <2>7, <3>3 DEF Queued
        <4>2. QED
          BY <2>3, <2>4, <3>3, <4>1
      <3>4. QED
        BY <1>6, <2>2, <3>2, <3>3 DEF Untold
    <2>8. QED
      BY <2>6, <2>7
  <1>10. CASE LookupRecipient(s)
    <2>1. sending[s] = "lookup" /\ UNCHANGED <<digests, mailed>>
      BY <1>10 DEF LookupRecipient
    <2>2. \/ sending'[s] = "send" /\ found'[s] = digest[s].events \ gone
          \/ sending'[s] = "idle"
      BY <1>1, <1>10 DEF LookupRecipient, Release
    <2>3. QED
      BY <1>8, <2>1, <2>2 DEF Carried
  <1>11. CASE AckDigest(s)
    <2>1. sending'[s] = "idle" /\ UNCHANGED <<digests, mailed>>
      BY <1>1, <1>11 DEF AckDigest, Release
    <2>2. QED
      BY <1>8, <2>1 DEF Carried
  <1>12. CASE SendDigest(s)
    <2>1. /\ sending[s] = "send" /\ sending'[s] = "sent"
          /\ UNCHANGED digests /\ Mail(found[s])
      BY <1>1, <1>12 DEF SendDigest
    <2>2. CASE e \notin found[s]
      <3>1. mailed'[e] = mailed[e]
        BY <1>1, <2>1, <2>2, MailOnce
      <3>2. QED
        BY <1>8, <2>1, <3>1 DEF Carried
    <2>3. CASE e \in found[s]
      <3>1. Carried(s, e) /\ ~Carried(s, e)'
        BY <2>1, <2>3 DEF Carried
      <3>2. mailed[e] = 0 /\ mailed'[e] = 1
        BY <1>1, <1>6, <2>1, <2>3, <3>1, MailOnce
      <3>3. \A t \in Sender : ~Carried(t, e)'
        BY <1>6, <1>7, <3>1
      <3>4. \A d \in Digest : ~Queued(d, e)'
        BY <1>2, <1>6, <2>1, <3>1 DEF Queued
      <3>5. QED
        BY <3>1, <3>2, <3>3, <3>4 DEF Untold
    <2>4. QED
      BY <2>2, <2>3
  <1>13. QED
    BY <1>9, <1>10, <1>11, <1>12 DEF Send

\* A submission is handled once, and starts with tasks that have not begun.
LEMMA OnePlaceFind ==
    ASSUME TypeOK, OnePlace, NEW d \in Delivery, FindSimilar(d)
    PROVE  OnePlace'
  <1>1. UNCHANGED <<pending, creating, mailing, gone>> /\ incoming' = incoming \ {d} /\ d \in incoming
    BY DEF FindSimilar, settings
  <1>2. PICK owners \in SUBSET User :
          task' = [e \in Event |->
                      IF e \in TasksOf(d) \ gone /\ e.user \in owners THEN "lookup" ELSE task[e]]
    BY DEF FindSimilar
  <1>3. \A i \in incoming : \A e \in TasksOf(i) : task[e] = "none"
    BY DEF OnePlace, TaskFirst
  <1>4. \A e \in Event : task'[e] # "over" => task[e] # "over"
    <2> SUFFICES ASSUME NEW e \in Event, task[e] = "over" PROVE task'[e] = "over"
      OBVIOUS
    <2>1. e \notin TasksOf(d)
      BY <1>1, <1>3
    <2>2. QED
      BY <1>2, <2>1
  <1>5. \A i \in incoming' : \A e \in TasksOf(i) : task'[e] = "none"
    <2> SUFFICES ASSUME NEW i \in incoming, i # d, i \in Delivery, NEW e \in TasksOf(i)
                 PROVE  task'[e] = "none"
      BY <1>1 DEF TypeOK
    <2>1. e \notin TasksOf(d) /\ e \in Event
      BY DEF TasksOf, Delivery
    <2>2. QED
      BY <1>2, <1>3, <2>1
  <1>6. QED
    BY <1>1, <1>4, <1>5, TasksMove

LEMMA OverlappedStays ==
    ASSUME [Next]_vars PROVE overlapped => overlapped'
  BY Zenon DEF Next, vars, settings, tasks, creating, mailing, history, OwnerActs, SetFrequency,
         Unsubscribe, ChangeAddress, RemoveItem, DeleteUser, Cascade, FindSimilar, FinishIncoming, InterruptIncoming, Notify, LookupOwner,
         RecordEvent, StayQuiet, ReadSettings, NotifyInstantly, NotifyLater, NotifyNever,
         Create, RemovePending, EnqueueDigest, DropDigest, CommitDigest, NextOwner,
         InterruptCreator, StartDigests, Send, TakeDigest, LookupRecipient, SendDigest,
         AckDigest, InterruptSender

LEMMA FaultsStay ==
    ASSUME [Next]_vars PROVE faults' = faults \/ Fault
  BY DEF Next, vars, settings, tasks, creating, mailing, history, OwnerActs, SetFrequency,
         Unsubscribe, ChangeAddress, RemoveItem, DeleteUser, Cascade, FindSimilar, FinishIncoming, InterruptIncoming, Notify, LookupOwner,
         RecordEvent, StayQuiet, ReadSettings, NotifyInstantly, NotifyLater, NotifyNever,
         Create, RemovePending, EnqueueDigest, DropDigest, CommitDigest, NextOwner,
         InterruptCreator, StartDigests, Send, TakeDigest, LookupRecipient, SendDigest,
         AckDigest, InterruptSender

LEMMA OnePlaceStep ==
    ASSUME TypeOK, IInv, [Next]_vars
    PROVE  (faults > 0 \/ overlapped \/ OnePlace)'
  <1> SUFFICES ASSUME ~(faults' > 0), ~overlapped' PROVE OnePlace'
    OBVIOUS
  <1> USE DEF settings, tasks, creating, mailing, history
  <1>1. TypeOK'
    BY TypeStep
  <1>2. faults \in Nat /\ faults' = 0
    BY <1>1, BoundsAssumption DEF TypeOK
  <1>3. ~Fault
    BY <1>2 DEF Fault
  <1>4. faults = 0 /\ ~overlapped
    BY <1>2, <1>3, FaultsStay, OverlappedStays
  <1>5. OnePlace /\ CreatorInv
    BY <1>4 DEF IInv
  <1>6. CASE UNCHANGED <<incoming, task, pending, creating, mailing, gone>>
    <2>1. \A d \in incoming : \A e \in TasksOf(d) : task[e] = "none"
      BY <1>5 DEF OnePlace, TaskFirst
    <2>2. QED
      BY <1>5, <1>6, <2>1, TasksMove
  <1>7. CASE UNCHANGED vars
    BY <1>6, <1>7 DEF vars
  <1>8. ASSUME NEW u \in User, OwnerActs(u)
        PROVE  OnePlace'
    <2>1. CASE SetFrequency(u) \/ Unsubscribe(u) \/ ChangeAddress(u)
      BY <1>6, <2>1 DEF SetFrequency, Unsubscribe, ChangeAddress
    <2>2. CASE RemoveItem(u)
      <3>1. PICK posts \in SUBSET Post : Cascade({e \in Event : e.user = u /\ e.post \in posts})
        BY <2>2 DEF RemoveItem
      <3>2. QED
        BY <1>5, <2>2, <3>1, OnePlaceCascade DEF RemoveItem
    <2>3. CASE DeleteUser(u)
      BY <1>5, <2>3, OnePlaceCascade DEF DeleteUser
    <2>4. QED
      BY <1>8, <2>1, <2>2, <2>3 DEF OwnerActs
  <1>9. ASSUME NEW d \in Delivery, FindSimilar(d) \/ FinishIncoming(d) \/ InterruptIncoming(d)
        PROVE  OnePlace'
    <2>1. ~InterruptIncoming(d)
      BY <1>3 DEF InterruptIncoming
    <2>2. CASE FindSimilar(d)
      BY <1>5, <2>2, OnePlaceFind
    <2>3. CASE FinishIncoming(d)
      BY <1>6, <2>3 DEF FinishIncoming
    <2>4. QED
      BY <1>9, <2>1, <2>2, <2>3
  <1>10. ASSUME NEW e \in Event, Notify(e) PROVE OnePlace'
    BY <1>5, <1>10, OnePlaceTask
  <1>11. ASSUME NEW c \in Creator,
                Create(c) \/ InterruptCreator(c) \/ \E f \in Digested : StartDigests(c, f)
         PROVE  OnePlace'
    <2>1. ~InterruptCreator(c)
      BY <1>3 DEF InterruptCreator
    <2>2. QED
      BY <1>1, <1>5, <1>11, <2>1, OnePlaceCreator
  <1>12. ASSUME NEW s \in Sender, Send(s) \/ InterruptSender(s) PROVE OnePlace'
    <2>1. ~InterruptSender(s)
      BY <1>3 DEF InterruptSender
    <2>2. QED
      BY <1>1, <1>5, <1>12, <2>1, OnePlaceSender
  <1>13. QED
    BY <1>7, <1>8, <1>9, <1>10, <1>11, <1>12 DEF Next

-----------------------------------------------------------------------------
\* The strengthening of NothingForgotten and MailedOnce is inductive.
THEOREM InductiveInvariant == Spec => []IInv
  <1>1. Init => IInv
    <2> SUFFICES ASSUME Init PROVE IInv
      OBVIOUS
    <2>1. CreatorInv /\ SenderInv /\ NothingForgotten
      BY DEF Init, CreatorInv, SenderInv, NothingForgotten
    <2>2. \A e \in Event : mailed[e] = 0 /\ task[e] = "none" /\ Untold(e)
      BY DEF Init, Untold, Queued, Carried
    <2>3. TaskFirst
      BY <2>2 DEF Init, TaskFirst, TasksOf
    <2>4. Exclusive /\ RowFirst
      BY DEF Init, Exclusive, RowFirst
    <2>5. OneDigest
      BY <2>2 DEF OneDigest, Untold
    <2>6. QED
      BY <2>1, <2>3, <2>4, <2>5 DEF IInv, OnePlace
  <1>2. TypeOK /\ IInv /\ [Next]_vars => IInv'
    BY CreatorStep, SenderStep, NothingForgottenStep, OnePlaceStep DEF IInv
  <1>3. QED
    BY <1>1, <1>2, TypeCorrect, PTL DEF Spec

\* For any owners, submissions, workers and number of interruptions, a
\* notification left for a digest is pending, or named by a digest job, or
\* mailed, or was in a digest whose enqueue failed, or went with the item it is
\* about or with its owner's account.
THEOREM PendingIsKept == Spec => []NothingForgotten
  <1>1. IInv => NothingForgotten
    BY DEF IInv
  <1>2. QED
    BY <1>1, InductiveInvariant, PTL

\* For any owners, submissions and workers, an event that is mailed twice was
\* in the hands of a handler that was interrupted, or of two digest jobs.
THEOREM EventsMailedOnce == Spec => []MailedOnce
  <1>1. IInv => MailedOnce
    BY DEF IInv, MailedOnce, OnePlace, OneDigest
  <1>2. QED
    BY <1>1, InductiveInvariant, PTL
=============================================================================
