----------------------------- MODULE WatchersProofs ----------------------------
(* Proofs about the watchers: the loaders, for any files, posts, workers,     *)
(* answers of a url, jobs and faults, then Reddit's updates and F-list's runs  *)
(* for any number of workers, posts and images, any page size and any faults.  *)
EXTENDS Watchers, FiniteSetTheorems, SequenceTheorems, WellFoundedInduction, TLAPS

-----------------------------------------------------------------------------
(* ImageLoaders.                                                             *)

Working == {"create", "download", "save", "submit"}
Resting == {"idle", "lookup", "ack"}

LEMMA RunType ==
    ASSUME NEW pc \in Working \cup Resting, NEW x \in Item \cup {NoItem}, NEW s \in Answer
    PROVE  [pc |-> pc, item |-> x, sha |-> s] \in Run
  BY DEF Run, Working, Resting

LEMMA IdleRun == Idle \in Run /\ Idle.pc = "idle"
  BY DEF Idle, Run, Answer

\* What a worker's step does to work.
LEMMA OneRun ==
    ASSUME work \in [Worker -> Run], NEW w \in Worker, NEW r \in Run,
           work' = [work EXCEPT ![w] = r]
    PROVE  /\ work' \in [Worker -> Run] /\ work'[w] = r
           /\ \A v \in Worker : v # w => work'[v] = work[v]
  OBVIOUS

LEMMA RunParts ==
    ASSUME TypeOK, NEW w \in Worker
    PROVE  /\ work[w] \in Run /\ work[w].pc \in Working \cup Resting
           /\ work[w].item \in Item \cup {NoItem} /\ work[w].sha \in Answer
           /\ work[w].pc # "idle" => work[w].item \in Item
  <1>1. work[w] \in Run
    BY DEF TypeOK
  <1>2. QED
    BY <1>1 DEF TypeOK, Run, Working, Resting

\* Go and GoWith put a run into work.
LEMMA GoRun ==
    ASSUME TypeOK, NEW w \in Worker, NEW pc \in Working \cup Resting,
           NEW x \in Item, NEW s \in Answer, GoWith(w, pc, x, s)
    PROVE  /\ work' \in [Worker -> Run]
           /\ work'[w].pc = pc /\ work'[w].item = x /\ work'[w].sha = s
           /\ \A v \in Worker : v # w => work'[v] = work[v]
           /\ \A v \in Worker : work'[v].pc # "idle" => work'[v].item \in Item
  <1> DEFINE r == [pc |-> pc, item |-> x, sha |-> s]
  <1>1. r \in Run /\ r.pc = pc /\ r.item = x /\ r.sha = s
    BY RunType
  <1>2. work' = [work EXCEPT ![w] = r]
    BY DEF GoWith
  <1> HIDE DEF r
  <1>3. /\ work' \in [Worker -> Run] /\ work'[w] = r
        /\ \A v \in Worker : v # w => work'[v] = work[v]
    BY <1>1, <1>2, OneRun DEF TypeOK
  <1>4. QED
    BY <1>1, <1>3 DEF TypeOK

LEMMA InitInv == ASSUME Init PROVE IInv
  <1>1. work \in [Worker -> Run] /\ \A w \in Worker : work[w].pc = "idle"
    BY IdleRun DEF Init
  <1>2. submitted \in [Item \X Answer -> 0..2] /\ \A x \in Item, s \in Answer : submitted[<<x, s>>] = 0
    BY DEF Init
  <1>3. TypeOK
    <2>1. /\ content \in [Item -> Answer] /\ jobs \in [Item -> Nat] /\ given \in [Item -> Nat]
          /\ stored = {} /\ images = {} /\ cut = {} /\ overlapped = {} /\ faults = 0
      BY DEF Init
    <2>2. QED
      BY <1>1, <1>2, <2>1 DEF TypeOK
  <1>4. PlaceInv /\ ImageInv /\ InserterInv
    BY <1>1 DEF Init, PlaceInv, ImageInv, InserterInv
  <1>5. FileInv
    BY <1>1 DEF FileInv, Handling
  <1>6. StoredIsSubmitted /\ SubmittedOnce /\ SubmittedIsStored
    BY <1>2 DEF Init, StoredIsSubmitted, SubmittedOnce, SubmittedIsStored
  <1>7. QED
    BY <1>3, <1>4, <1>5, <1>6 DEF IInv

-----------------------------------------------------------------------------
(* Steps of a handler before its work on the item and after it.              *)

\* A handler rests after the step: it was not at work on its item, or had not
\* stored it, or the item is now among those given up.
LEMMA RestInv ==
    ASSUME IInv, NEW w \in Worker, work' \in [Worker -> Run],
           work'[w].pc \in Resting, work'[w].pc # "idle" => work'[w].item \in Item,
           \A v \in Worker : v # w => work'[v] = work[v],
           cut' \subseteq Item, cut \subseteq cut',
           work[w].pc \in Working /\ work[w].item \in stored => work[w].item \in cut',
           content' \in [Item -> Answer], jobs' \in [Item -> Nat], faults' \in Nat,
           UNCHANGED <<given, stored, images, submitted, overlapped>>
    PROVE  IInv'
  <1>1. TypeOK'
    BY DEF IInv, TypeOK
  <1>2. PlaceInv'
    BY DEF IInv, PlaceInv, Resting
  <1>3. \A x \in Item : Handling(x)' = Handling(x) \ {w}
    BY DEF Handling, Resting
  <1>4. ImageInv'
    <2> SUFFICES ASSUME NEW x \in RedditPost, NEW s \in Sha, <<x, s>> \in images
                 PROVE  \/ submitted[<<x, s>>] > 0 \/ x \in cut'
                        \/ \E v \in Worker : work'[v].pc = "submit" /\ work'[v].item = x /\ work'[v].sha = s
      BY DEF ImageInv
    <2>1. CASE submitted[<<x, s>>] > 0 \/ x \in cut
      BY <2>1
    <2>2. ASSUME NEW v \in Worker, work[v].pc = "submit" /\ work[v].item = x /\ work[v].sha = s
          PROVE  \/ x \in cut'
                 \/ \E u \in Worker : work'[u].pc = "submit" /\ work'[u].item = x /\ work'[u].sha = s
      <3>1. CASE v = w
        <4>1. x \in stored
          BY <2>2 DEF IInv, PlaceInv
        <4>2. QED
          BY <2>2, <3>1, <4>1 DEF Working
      <3>2. CASE v # w
        BY <2>2, <3>2
      <3>3. QED
        BY <3>1, <3>2
    <2>3. QED
      BY <2>1, <2>2 DEF IInv, ImageInv
  <1>5. InserterInv'
    BY DEF IInv, InserterInv, Resting
  <1>6. FileInv'
    BY <1>3 DEF IInv, FileInv, Item
  <1>7. StoredIsSubmitted'
    <2> SUFFICES ASSUME NEW x \in stored, x \notin cut'
                 PROVE  Submissions(x) # {} \/ Handling(x)' # {}
      BY DEF StoredIsSubmitted, Submissions
    <2>1. x \in Item
      BY DEF IInv, TypeOK
    <2>2. w \notin Handling(x)
      BY DEF Handling, Working
    <2>3. Submissions(x) # {} \/ Handling(x) # {}
      BY DEF IInv, StoredIsSubmitted
    <2>4. QED
      BY <1>3, <2>1, <2>2, <2>3
  <1>8. SubmittedOnce' /\ SubmittedIsStored'
    BY DEF IInv, SubmittedOnce, SubmittedIsStored
  <1>9. QED
    BY <1>1, <1>2, <1>4, <1>5, <1>6, <1>7, <1>8 DEF IInv

\* Steps that leave the handlers alone.
LEMMA KeptInv ==
    ASSUME IInv, content' \in [Item -> Answer], jobs' \in [Item -> Nat], given' \in [Item -> Nat],
           faults' \in Nat, UNCHANGED <<work, stored, images, submitted, history>>
    PROVE  IInv'
  <1>1. TypeOK'
    BY DEF IInv, TypeOK, history
  <1>2. PlaceInv' /\ ImageInv' /\ InserterInv'
    BY DEF IInv, PlaceInv, ImageInv, InserterInv, history
  <1>3. FileInv' /\ StoredIsSubmitted'
    <2>1. \A x : Handling(x)' = Handling(x)
      BY DEF Handling
    <2>2. \A x : Submissions(x)' = Submissions(x)
      BY DEF Submissions
    <2>3. FileInv'
      BY <2>1 DEF IInv, FileInv, history
    <2>4. StoredIsSubmitted'
      BY <2>1, <2>2 DEF IInv, StoredIsSubmitted, history
    <2>5. QED
      BY <2>3, <2>4
  <1>4. SubmittedOnce' /\ SubmittedIsStored'
    BY DEF IInv, SubmittedOnce, SubmittedIsStored, history
  <1>5. QED
    BY <1>1, <1>2, <1>3, <1>4 DEF IInv

LEMMA QueueInv == ASSUME IInv, NEW x \in Item, Queue(x) PROVE IInv'
  <1>1. jobs' \in [Item -> Nat] /\ given' \in [Item -> Nat]
    BY DEF Queue, IInv, TypeOK
  <1>2. QED
    BY <1>1, KeptInv DEF Queue, IInv, TypeOK

LEMMA ReplaceInv == ASSUME IInv, NEW x \in Item, Replace(x) PROVE IInv'
  <1>1. content' \in [Item -> Answer] /\ faults' \in Nat
    BY DEF Replace, Fault, IInv, TypeOK
  <1>2. QED
    BY <1>1, KeptInv DEF Replace, queue, IInv, TypeOK

LEMMA TakeInv == ASSUME IInv, NEW w \in Worker, NEW x \in Item, Take(w, x) PROVE IInv'
  <1>1. jobs' \in [Item -> Nat]
    BY DEF Take, IInv, TypeOK
  <1>2. work[w].pc = "idle" /\ GoWith(w, "lookup", x, NoSha)
    BY DEF Take, At
  <1>3. /\ work' \in [Worker -> Run] /\ work'[w].pc = "lookup" /\ work'[w].item = x
        /\ \A v \in Worker : v # w => work'[v] = work[v]
    BY <1>2, GoRun DEF IInv, Resting, Answer
  <1>4. UNCHANGED <<content, given, stored, images, submitted, cut, overlapped, faults>>
    BY DEF Take, history
  <1>5. QED
    BY <1>1, <1>2, <1>3, <1>4, RestInv DEF IInv, TypeOK, Working, Resting

LEMMA SkipInv == ASSUME IInv, NEW w \in Worker, SkipKnown(w) PROVE IInv'
  <1>1. work[w].pc = "lookup" /\ GoWith(w, "ack", work[w].item, work[w].sha)
    BY DEF SkipKnown, At, Go
  <1>2. work[w].item \in Item /\ work[w].sha \in Answer
    BY <1>1, RunParts DEF IInv
  <1>3. /\ work' \in [Worker -> Run] /\ work'[w].pc = "ack" /\ work'[w].item = work[w].item
        /\ \A v \in Worker : v # w => work'[v] = work[v]
    BY <1>1, <1>2, GoRun DEF IInv, Resting
  <1>4. UNCHANGED <<content, jobs, given, stored, images, submitted, cut, overlapped, faults>>
    BY DEF SkipKnown, queue, history
  <1>5. QED
    BY <1>1, <1>2, <1>3, <1>4, RestInv DEF IInv, TypeOK, Working, Resting

LEMMA FailInv == ASSUME IInv, NEW w \in Worker, DownloadFails(w) PROVE IInv'
  <1>1. /\ work[w].pc = "download" /\ GoWith(w, "ack", work[w].item, work[w].sha)
        /\ cut' = cut \cup {work[w].item}
    BY DEF DownloadFails, At, Go
  <1>2. work[w].item \in Item /\ work[w].sha \in Answer
    BY <1>1, RunParts DEF IInv
  <1>3. /\ work' \in [Worker -> Run] /\ work'[w].pc = "ack" /\ work'[w].item = work[w].item
        /\ \A v \in Worker : v # w => work'[v] = work[v]
    BY <1>1, <1>2, GoRun DEF IInv, Resting
  <1>4. UNCHANGED <<content, jobs, given, stored, images, submitted, overlapped>> /\ faults' \in Nat
    BY DEF DownloadFails, queue, Fault, IInv, TypeOK
  <1>5. cut' \subseteq Item
    BY <1>1, <1>2 DEF IInv, TypeOK
  <1>6. QED
    BY <1>1, <1>2, <1>3, <1>4, <1>5, RestInv DEF IInv, TypeOK, Resting

LEMMA AckInv == ASSUME IInv, NEW w \in Worker, Ack(w) PROVE IInv'
  <1>1. work[w].pc = "ack" /\ work' = [work EXCEPT ![w] = Idle]
    BY DEF Ack, At, Done
  <1>2. /\ work' \in [Worker -> Run] /\ work'[w].pc = "idle"
        /\ \A v \in Worker : v # w => work'[v] = work[v]
    BY <1>1, IdleRun, OneRun DEF IInv, TypeOK
  <1>3. UNCHANGED <<content, jobs, given, stored, images, submitted, cut, overlapped, faults>>
    BY DEF Ack, queue, history
  <1>4. QED
    BY <1>1, <1>2, <1>3, RestInv DEF IInv, TypeOK, Working, Resting

LEMMA InterruptInv == ASSUME IInv, NEW w \in Worker, Interrupt(w) PROVE IInv'
  <1>1. work[w].pc # "idle" /\ work' = [work EXCEPT ![w] = Idle]
    BY DEF Interrupt, At, Done
  <1>2. /\ work' \in [Worker -> Run] /\ work'[w].pc = "idle"
        /\ \A v \in Worker : v # w => work'[v] = work[v]
    BY <1>1, IdleRun, OneRun DEF IInv, TypeOK
  <1>3. work[w].item \in Item
    BY <1>1, RunParts DEF IInv
  <1>4. jobs' \in [Item -> Nat] /\ faults' \in Nat
    BY <1>3 DEF Interrupt, Fault, IInv, TypeOK
  <1>5. cut' = cut \cup {x \in {work[w].item} : x \in stored /\ w \in Handling(x)}
    BY DEF Interrupt
  <1>6. /\ cut' \subseteq Item /\ cut \subseteq cut'
        /\ work[w].pc \in Working /\ work[w].item \in stored => work[w].item \in cut'
    BY <1>3, <1>5 DEF IInv, TypeOK, Handling, Working
  <1>7. UNCHANGED <<content, given, stored, images, submitted, overlapped>>
    BY DEF Interrupt
  <1>8. QED
    BY <1>2, <1>4, <1>6, <1>7, RestInv DEF IInv, TypeOK, Resting

-----------------------------------------------------------------------------
(* Steps of a handler at work on its item.                                   *)

LEMMA LookupInv ==
    ASSUME FListFile \cap RedditPost = {}, IInv, NEW w \in Worker, LookupItem(w)
    PROVE  IInv'
  <1> DEFINE x == work[w].item
             pc == IF x \in FListFile THEN "download" ELSE "create"
  <1>1. /\ work[w].pc = "lookup" /\ x \notin stored /\ GoWith(w, pc, x, work[w].sha)
        /\ overlapped' = overlapped \cup {y \in {x} : Handling(y) # {}}
        /\ UNCHANGED <<content, jobs, given, stored, images, submitted, cut, faults>>
    BY DEF LookupItem, At, Go, queue
  <1>2. x \in Item /\ work[w].sha \in Answer /\ pc \in Working
    BY <1>1, RunParts DEF IInv, Working
  <1>3. /\ work' \in [Worker -> Run] /\ work'[w].pc = pc /\ work'[w].item = x
        /\ \A v \in Worker : v # w => work'[v] = work[v]
        /\ \A v \in Worker : work'[v].pc # "idle" => work'[v].item \in Item
    BY <1>1, <1>2, GoRun DEF IInv
  <1>4. overlapped' \subseteq Item /\ overlapped \subseteq overlapped'
        /\ (x \notin overlapped' => Handling(x) = {})
    BY <1>1, <1>2 DEF IInv, TypeOK
  <1>5. TypeOK'
    BY <1>1, <1>3, <1>4 DEF IInv, TypeOK
  <1>6. PlaceInv'
    BY <1>1, <1>2, <1>3 DEF IInv, PlaceInv, Item
  <1>7. ImageInv' /\ InserterInv'
    BY <1>1, <1>3 DEF IInv, ImageInv, InserterInv
  <1>8. \A y \in Item : Handling(y)' = IF y = x THEN Handling(y) \cup {w} ELSE Handling(y)
    BY <1>1, <1>3 DEF Handling
  <1>9. FileInv'
    <2> SUFFICES ASSUME NEW y \in FListFile, y \notin overlapped', NEW v \in Handling(y)'
                 PROVE  /\ \A u \in Handling(y)' : u = v
                        /\ \A s \in Answer : submitted[<<y, s>>] = 0
      BY <1>1 DEF FileInv
    <2>1. CASE y = x
      <3>1. Handling(y)' = {w}
        BY <1>2, <1>4, <1>8, <2>1
      <3>2. \A s \in Answer : submitted[<<y, s>>] = 0
        BY <1>1, <1>2, <2>1 DEF IInv, TypeOK, SubmittedIsStored
      <3>3. QED
        BY <3>1, <3>2
    <2>2. CASE y # x
      <3>1. Handling(y)' = Handling(y) /\ y \notin overlapped
        BY <1>4, <1>8, <2>2 DEF Item
      <3>2. QED
        BY <3>1 DEF IInv, FileInv
    <2>3. QED
      BY <2>1, <2>2
  <1>10. StoredIsSubmitted'
    <2> SUFFICES ASSUME NEW y \in stored
                 PROVE  Submissions(y) # {} \/ Handling(y)' # {} \/ y \in cut
      BY <1>1 DEF StoredIsSubmitted, Submissions
    <2>1. Handling(y) \subseteq Handling(y)'
      BY <1>8 DEF IInv, TypeOK
    <2>2. QED
      BY <2>1 DEF IInv, StoredIsSubmitted
  <1>11. SubmittedOnce' /\ SubmittedIsStored'
    BY <1>1, <1>4 DEF IInv, SubmittedOnce, SubmittedIsStored
  <1>12. QED
    BY <1>5, <1>6, <1>7, <1>9, <1>10, <1>11 DEF IInv

\* A handler goes on with its item, and does not submit an image that way.
LEMMA WorkInv ==
    ASSUME IInv, NEW w \in Worker, work' \in [Worker -> Run],
           work[w].pc \in Working, work[w].pc # "submit", work'[w].pc \in Working,
           work'[w].item = work[w].item, \A v \in Worker : v # w => work'[v] = work[v],
           stored' \subseteq Item, stored \subseteq stored', stored' \subseteq stored \cup {work[w].item},
           work'[w].pc = "create" => work[w].item \in RedditPost,
           work[w].item \in RedditPost => /\ work'[w].item \in stored' /\ work'[w].pc # "submit"
                                          /\ work'[w].pc = "save" => work'[w].sha \in Sha,
           work'[w].pc = "submit" => work[w].item \in stored',
           UNCHANGED <<content, jobs, given, images, submitted, cut, overlapped, faults>>
    PROVE  IInv'
  <1>1. work[w].item \in Item
    BY RunParts DEF IInv, Working
  <1>2. \A x : Handling(x)' = Handling(x)
    BY DEF Handling, Working
  <1>3. TypeOK'
    BY <1>1 DEF IInv, TypeOK
  <1>4. PlaceInv'
    BY DEF IInv, PlaceInv
  <1>5. ImageInv'
    BY DEF IInv, ImageInv
  <1>6. InserterInv'
    BY DEF IInv, InserterInv
  <1>7. FileInv'
    BY <1>2 DEF IInv, FileInv
  <1>8. StoredIsSubmitted'
    <2> SUFFICES ASSUME NEW x \in stored'
                 PROVE  Submissions(x) # {} \/ Handling(x) # {} \/ x \in cut
      BY <1>2 DEF StoredIsSubmitted, Submissions
    <2>1. w \in Handling(work[w].item)
      BY DEF Handling, Working
    <2>2. QED
      BY <2>1 DEF IInv, StoredIsSubmitted
  <1>9. SubmittedOnce' /\ SubmittedIsStored'
    BY DEF IInv, SubmittedOnce, SubmittedIsStored
  <1>10. QED
    BY <1>3, <1>4, <1>5, <1>6, <1>7, <1>8, <1>9 DEF IInv

LEMMA CreatePostInv == ASSUME IInv, NEW w \in Worker, CreatePost(w) PROVE IInv'
  <1>1. /\ work[w].pc = "create" /\ GoWith(w, "download", work[w].item, work[w].sha)
        /\ stored' = stored \cup {work[w].item}
        /\ UNCHANGED <<content, jobs, given, images, submitted, cut, overlapped, faults>>
    BY DEF CreatePost, At, Go, queue, history
  <1>2. work[w].item \in Item /\ work[w].sha \in Answer
    BY <1>1, RunParts DEF IInv
  <1>3. /\ work' \in [Worker -> Run] /\ work'[w].pc = "download" /\ work'[w].item = work[w].item
        /\ \A v \in Worker : v # w => work'[v] = work[v]
    BY <1>1, <1>2, GoRun DEF IInv, Working
  <1>4. stored' \subseteq Item
    BY <1>1, <1>2 DEF IInv, TypeOK
  <1>5. QED
    BY <1>1, <1>3, <1>4, WorkInv DEF Working

LEMMA DownloadInv == ASSUME IInv, NEW w \in Worker, Download(w) PROVE IInv'
  <1> DEFINE x == work[w].item
  <1>1. /\ work[w].pc = "download" /\ (x \in RedditPost => content[x] # NoSha)
        /\ GoWith(w, "save", x, content[x])
        /\ UNCHANGED <<content, jobs, given, stored, images, submitted, cut, overlapped, faults>>
    BY DEF Download, At, queue, history
  <1>2. x \in Item /\ content[x] \in Answer
    BY <1>1, RunParts DEF IInv, TypeOK
  <1>3. /\ work' \in [Worker -> Run] /\ work'[w].pc = "save" /\ work'[w].item = x
        /\ work'[w].sha = content[x] /\ \A v \in Worker : v # w => work'[v] = work[v]
    BY <1>1, <1>2, GoRun DEF IInv, Working
  <1>4. x \in RedditPost => x \in stored /\ work'[w].sha \in Sha
    BY <1>1, <1>2, <1>3 DEF IInv, PlaceInv, Answer
  <1>5. stored \subseteq Item
    BY DEF IInv, TypeOK
  <1>6. QED
    BY <1>1, <1>3, <1>4, <1>5, WorkInv DEF Working

LEMMA UpdateFileInv ==
    ASSUME FListFile \cap RedditPost = {}, IInv, NEW w \in Worker, UpdateFile(w)
    PROVE  IInv'
  <1>1. /\ work[w].pc = "save" /\ work[w].item \in FListFile
        /\ GoWith(w, "submit", work[w].item, work[w].sha) /\ stored' = stored \cup {work[w].item}
        /\ UNCHANGED <<content, jobs, given, images, submitted, cut, overlapped, faults>>
    BY DEF UpdateFile, At, Go, queue, history
  <1>2. work[w].item \in Item /\ work[w].sha \in Answer /\ work[w].item \notin RedditPost
    BY <1>1, RunParts DEF IInv
  <1>3. /\ work' \in [Worker -> Run] /\ work'[w].pc = "submit" /\ work'[w].item = work[w].item
        /\ \A v \in Worker : v # w => work'[v] = work[v]
    BY <1>1, <1>2, GoRun DEF IInv, Working
  <1>4. stored' \subseteq Item
    BY <1>1, <1>2 DEF IInv, TypeOK
  <1>5. QED
    BY <1>1, <1>2, <1>3, <1>4, WorkInv DEF Working

\* A handler that has its image in the table goes on only if it put it there.
LEMMA CreateImageInv ==
    ASSUME FListFile \cap RedditPost = {}, IInv, NEW w \in Worker, CreateImage(w)
    PROVE  IInv'
  <1> DEFINE x == work[w].item
             t == work[w].sha
             pc == IF <<x, t>> \in images THEN "ack" ELSE "submit"
  <1>1. /\ work[w].pc = "save" /\ x \in RedditPost /\ GoWith(w, pc, x, t)
        /\ images' = images \cup {<<x, t>>}
        /\ UNCHANGED <<content, jobs, given, stored, submitted, cut, overlapped, faults>>
    BY DEF CreateImage, At, Go, queue, history
  <1>2. x \in Item /\ t \in Answer /\ pc \in Working \cup Resting
    BY <1>1, RunParts DEF IInv, Working, Resting
  <1>3. /\ work' \in [Worker -> Run] /\ work'[w].pc = pc /\ work'[w].item = x /\ work'[w].sha = t
        /\ \A v \in Worker : v # w => work'[v] = work[v]
        /\ \A v \in Worker : work'[v].pc # "idle" => work'[v].item \in Item
    BY <1>1, <1>2, GoRun DEF IInv
  <1>4. t \in Sha /\ x \in stored
    BY <1>1 DEF IInv, PlaceInv
  <1> HIDE DEF x, t
  <1>5. TypeOK'
    BY <1>1, <1>3, <1>4 DEF IInv, TypeOK
  <1>6. PlaceInv'
    <2>1. ASSUME NEW v \in Worker, v # w
          PROVE  /\ work[v].pc = "submit" => work[v].item \in stored
                 /\ work[v].pc = "submit" /\ work[v].item \in RedditPost =>
                        <<work[v].item, work[v].sha>> \in images'
      BY <1>1 DEF IInv, PlaceInv
    <2>2. QED
      BY <1>1, <1>3, <1>4, <2>1 DEF IInv, PlaceInv
  <1>7. ImageInv'
    <2> SUFFICES ASSUME NEW y \in RedditPost, NEW s \in Sha, <<y, s>> \in images'
                 PROVE  \/ submitted[<<y, s>>] > 0 \/ y \in cut
                        \/ \E v \in Worker : work'[v].pc = "submit" /\ work'[v].item = y /\ work'[v].sha = s
      BY <1>1 DEF ImageInv
    <2>1. CASE <<y, s>> \in images
      <3>1. \A v \in Worker : work[v].pc = "submit" => v # w
        BY <1>1
      <3>2. QED
        BY <1>3, <2>1, <3>1 DEF IInv, ImageInv
    <2>2. CASE <<y, s>> \notin images
      BY <1>1, <1>3, <2>2
    <2>3. QED
      BY <2>1, <2>2
  <1>8. InserterInv'
    <2>1. pc = "submit" => /\ submitted[<<x, t>>] = 0
                           /\ \A v \in Worker : ~(work[v].pc = "submit" /\ work[v].item = x /\ work[v].sha = t)
      <3>1. pc = "submit" => <<x, t>> \notin images
        OBVIOUS
      <3>2. submitted[<<x, t>>] > 0 => <<x, t>> \in images
        BY <1>1, <1>2 DEF IInv, SubmittedIsStored
      <3>3. submitted[<<x, t>>] \in 0..2
        BY <1>2 DEF IInv, TypeOK
      <3>4. ASSUME NEW v \in Worker, work[v].pc = "submit", work[v].item = x, work[v].sha = t
            PROVE  <<x, t>> \in images
        BY <1>1, <3>4 DEF IInv, PlaceInv
      <3>5. QED
        BY <3>1, <3>2, <3>3, <3>4
    <2> HIDE DEF pc
    <2>2. QED
      BY <1>1, <1>3, <2>1 DEF IInv, InserterInv
  <1>9. \A y \in Item : Handling(y)' \cup {w} = Handling(y) \cup {w} /\ (y # x => Handling(y)' = Handling(y))
    BY <1>1, <1>3 DEF Handling, x
  <1>10. FileInv'
    <2>1. \A y \in FListFile : Handling(y)' = Handling(y)
      BY <1>1, <1>9 DEF Item
    <2>2. QED
      BY <1>1, <2>1 DEF IInv, FileInv
  <1>11. StoredIsSubmitted'
    <2> SUFFICES ASSUME NEW y \in stored
                 PROVE  Submissions(y) # {} \/ Handling(y)' # {} \/ y \in cut
      BY <1>1 DEF StoredIsSubmitted, Submissions
    <2>1. CASE y # x
      BY <1>9, <2>1 DEF IInv, TypeOK, StoredIsSubmitted
    <2>2. CASE y = x /\ <<x, t>> \notin images
      BY <1>3, <2>2 DEF Handling
    <2>3. CASE y = x /\ <<x, t>> \in images
      <3>1. \/ submitted[<<x, t>>] > 0 \/ x \in cut
            \/ \E v \in Worker : work[v].pc = "submit" /\ work[v].item = x
        BY <1>1, <1>4, <2>3 DEF IInv, ImageInv
      <3>2. submitted[<<x, t>>] > 0 => Submissions(y) # {}
        BY <1>2, <2>3 DEF Submissions
      <3>3. ASSUME NEW v \in Worker, work[v].pc = "submit" /\ work[v].item = x
            PROVE  Handling(y)' # {}
        <4>1. work'[v].pc = "submit" /\ work'[v].item = y
          BY <1>1, <1>3, <2>3, <3>3
        <4>2. QED
          BY <4>1 DEF Handling
      <3>4. QED
        BY <2>3, <3>1, <3>2, <3>3
    <2>4. QED
      BY <2>1, <2>2, <2>3
  <1>12. SubmittedOnce' /\ SubmittedIsStored'
    BY <1>1 DEF IInv, SubmittedOnce, SubmittedIsStored
  <1>13. QED
    BY <1>5, <1>6, <1>7, <1>8, <1>10, <1>11, <1>12 DEF IInv

LEMMA SubmitInv == ASSUME IInv, NEW w \in Worker, Submit(w) PROVE IInv'
  <1> DEFINE x == work[w].item
             t == work[w].sha
  <1>1. /\ work[w].pc = "submit" /\ GoWith(w, "ack", x, t)
        /\ submitted' = [submitted EXCEPT ![<<x, t>>] = IF @ = 2 THEN 2 ELSE @ + 1]
        /\ UNCHANGED <<content, jobs, given, stored, images, cut, overlapped, faults>>
    BY DEF Submit, At, Go, queue, history
  <1>2. x \in Item /\ t \in Answer
    BY <1>1, RunParts DEF IInv
  <1>3. /\ work' \in [Worker -> Run] /\ work'[w].pc = "ack" /\ work'[w].item = x
        /\ \A v \in Worker : v # w => work'[v] = work[v]
        /\ \A v \in Worker : work'[v].pc # "idle" => work'[v].item \in Item
    BY <1>1, <1>2, GoRun DEF IInv, Resting
  <1> HIDE DEF x, t
  <1>4. /\ submitted' \in [Item \X Answer -> 0..2] /\ submitted'[<<x, t>>] > 0
        /\ submitted[<<x, t>>] = 0 => submitted'[<<x, t>>] = 1
        /\ \A y \in Item, s \in Answer : <<y, s>> # <<x, t>> => submitted'[<<y, s>>] = submitted[<<y, s>>]
        /\ \A y \in Item, s \in Answer : submitted[<<y, s>>] > 0 => submitted'[<<y, s>>] > 0
    <2>1. submitted \in [Item \X Answer -> 0..2] /\ <<x, t>> \in Item \X Answer
      BY <1>2 DEF IInv, TypeOK
    <2> DEFINE n == IF submitted[<<x, t>>] = 2 THEN 2 ELSE submitted[<<x, t>>] + 1
    <2>2. n \in 1..2 /\ (submitted[<<x, t>>] = 0 => n = 1)
      BY <2>1
    <2>3. submitted' = [submitted EXCEPT ![<<x, t>>] = n]
      BY <1>1
    <2> HIDE DEF n
    <2>4. submitted' \in [Item \X Answer -> 0..2] /\ submitted'[<<x, t>>] = n
      BY <2>1, <2>2, <2>3
    <2>5. \A y \in Item, s \in Answer : <<y, s>> # <<x, t>> => submitted'[<<y, s>>] = submitted[<<y, s>>]
      BY <2>1, <2>3
    <2>6. QED
      BY <2>2, <2>4, <2>5
  <1>5. x \in stored /\ (x \in RedditPost => <<x, t>> \in images)
    BY <1>1 DEF IInv, PlaceInv, x, t
  <1>6. TypeOK'
    BY <1>1, <1>3, <1>4 DEF IInv, TypeOK
  <1>7. PlaceInv'
    BY <1>1, <1>3 DEF IInv, PlaceInv
  <1>8. ImageInv'
    <2> SUFFICES ASSUME NEW y \in RedditPost, NEW s \in Sha, <<y, s>> \in images
                 PROVE  \/ submitted'[<<y, s>>] > 0 \/ y \in cut
                        \/ \E v \in Worker : work'[v].pc = "submit" /\ work'[v].item = y /\ work'[v].sha = s
      BY <1>1 DEF ImageInv
    <2>1. y \in Item /\ s \in Answer
      BY DEF Item, Answer
    <2>2. CASE submitted[<<y, s>>] > 0 \/ y \in cut
      BY <1>4, <2>1, <2>2
    <2>3. ASSUME NEW v \in Worker, work[v].pc = "submit" /\ work[v].item = y /\ work[v].sha = s
          PROVE  \/ submitted'[<<y, s>>] > 0
                 \/ \E u \in Worker : work'[u].pc = "submit" /\ work'[u].item = y /\ work'[u].sha = s
      <3>1. CASE v = w
        BY <1>4, <2>3, <3>1 DEF x, t
      <3>2. CASE v # w
        BY <1>3, <2>3, <3>2
      <3>3. QED
        BY <3>1, <3>2
    <2>4. QED
      BY <2>2, <2>3 DEF IInv, ImageInv
  <1>9. InserterInv'
    <2> SUFFICES ASSUME NEW v \in Worker, work'[v].pc = "submit", work'[v].item \in RedditPost
                 PROVE  /\ submitted'[<<work'[v].item, work'[v].sha>>] = 0
                        /\ \A u \in Worker :
                            work'[u].pc = "submit" /\ work'[u].item = work'[v].item
                                /\ work'[u].sha = work'[v].sha => u = v
      BY DEF InserterInv
    <2>1. v # w /\ work'[v] = work[v]
      BY <1>3
    <2>2. /\ submitted[<<work[v].item, work[v].sha>>] = 0
          /\ ~(work[v].item = x /\ work[v].sha = t)
      BY <1>1, <2>1 DEF IInv, InserterInv, x, t
    <2>3. work[v].item \in Item /\ work[v].sha \in Answer
      BY <2>1, RunParts DEF IInv
    <2>4. submitted'[<<work[v].item, work[v].sha>>] = 0
      BY <1>4, <2>2, <2>3
    <2>5. \A u \in Worker : work'[u].pc = "submit" /\ work'[u].item = work[v].item
                                /\ work'[u].sha = work[v].sha => u = v
      BY <1>3, <2>1 DEF IInv, InserterInv
    <2>6. QED
      BY <2>1, <2>4, <2>5
  <1>10. \A y \in Item : Handling(y)' = Handling(y) \ {w} /\ (y # x => Handling(y)' = Handling(y))
    BY <1>1, <1>3 DEF Handling, x
  <1>11. w \in Handling(x)
    BY <1>1 DEF Handling, x
  <1>12. FileInv'
    <2> SUFFICES ASSUME NEW y \in FListFile, y \notin overlapped, NEW v \in Handling(y)'
                 PROVE  /\ \A u \in Handling(y)' : u = v
                        /\ \A s \in Answer : submitted'[<<y, s>>] = 0
      BY <1>1 DEF FileInv
    <2>1. y \in Item
      BY DEF Item
    <2>2. y # x
      BY <1>10, <1>11, <2>1 DEF IInv, FileInv
    <2>3. Handling(y)' = Handling(y)
      BY <1>10, <2>1, <2>2
    <2>4. \A s \in Answer : submitted'[<<y, s>>] = submitted[<<y, s>>]
      BY <1>4, <2>1, <2>2
    <2>5. QED
      BY <2>3, <2>4 DEF IInv, FileInv
  <1>13. StoredIsSubmitted'
    <2> SUFFICES ASSUME NEW y \in stored
                 PROVE  Submissions(y)' # {} \/ Handling(y)' # {} \/ y \in cut
      BY <1>1 DEF StoredIsSubmitted
    <2>1. y \in Item
      BY DEF IInv, TypeOK
    <2>2. CASE y = x
      BY <1>2, <1>4, <2>2 DEF Submissions
    <2>3. CASE y # x
      <3>1. Submissions(y) \subseteq Submissions(y)' /\ Handling(y)' = Handling(y)
        BY <1>4, <1>10, <2>1, <2>3 DEF Submissions
      <3>2. QED
        BY <3>1 DEF IInv, StoredIsSubmitted
    <2>4. QED
      BY <2>2, <2>3
  <1>14. SubmittedOnce'
    <2> SUFFICES ASSUME NEW y \in Item, NEW s \in Answer, submitted'[<<y, s>>] > 1
                 PROVE  y \in FListFile /\ y \in overlapped
      BY <1>1 DEF SubmittedOnce
    <2>1. CASE <<y, s>> # <<x, t>>
      BY <1>4, <2>1 DEF IInv, SubmittedOnce
    <2>2. CASE <<y, s>> = <<x, t>>
      <3>1. submitted[<<x, t>>] # 0
        BY <1>4, <2>2
      <3>2. x \notin RedditPost
        BY <1>1, <3>1 DEF IInv, InserterInv, x, t
      <3>3. x \in FListFile
        BY <1>2, <3>2 DEF Item
      <3>4. x \in overlapped
        BY <1>2, <1>11, <3>1, <3>3 DEF IInv, FileInv
      <3>5. QED
        BY <2>2, <3>3, <3>4
    <2>3. QED
      BY <2>1, <2>2
  <1>15. SubmittedIsStored'
    <2> SUFFICES ASSUME NEW y \in Item, NEW s \in Answer, submitted'[<<y, s>>] > 0
                 PROVE  y \in stored /\ (y \in RedditPost => <<y, s>> \in images)
      BY <1>1 DEF SubmittedIsStored
    <2>1. CASE <<y, s>> # <<x, t>>
      BY <1>4, <2>1 DEF IInv, SubmittedIsStored
    <2>2. CASE <<y, s>> = <<x, t>>
      BY <1>5, <2>2
    <2>3. QED
      BY <2>1, <2>2
  <1>16. QED
    BY <1>6, <1>7, <1>8, <1>9, <1>12, <1>13, <1>14, <1>15 DEF IInv

-----------------------------------------------------------------------------
LEMMA StutterInv == ASSUME IInv, UNCHANGED vars PROVE IInv'
  BY KeptInv DEF vars, queue, IInv, TypeOK

LEMMA StepInv ==
    ASSUME FListFile \cap RedditPost = {}, IInv, [Next]_vars PROVE IInv'
  <1>1. CASE \E x \in Item : Queue(x) \/ Replace(x)
    BY <1>1, QueueInv, ReplaceInv
  <1>2. ASSUME NEW w \in Worker, Handle(w)
        PROVE  IInv'
    BY <1>2, SkipInv, LookupInv, CreatePostInv, DownloadInv, FailInv, UpdateFileInv,
       CreateImageInv, SubmitInv, AckInv DEF Handle
  <1>3. ASSUME NEW w \in Worker, Interrupt(w) \/ \E x \in Item : Take(w, x)
        PROVE  IInv'
    BY <1>3, InterruptInv, TakeInv
  <1>4. CASE UNCHANGED vars
    BY <1>4, StutterInv
  <1>5. QED
    BY <1>1, <1>2, <1>3, <1>4 DEF Next

LEMMA Invariant == ASSUME FListFile \cap RedditPost = {} PROVE Spec => []IInv
  <1>1. Init => IInv
    BY InitInv
  <1>2. IInv /\ [Next]_vars => IInv'
    BY StepInv
  <1>3. QED
    BY <1>1, <1>2, PTL DEF Spec

\* hash_image and load_post: what was stored is submitted, has a handler that
\* will submit it, or was given up in between.
THEOREM LoadedSubmitted ==
    ASSUME FListFile \cap RedditPost = {} PROVE Spec => []StoredIsSubmitted
  <1>1. IInv => StoredIsSubmitted
    BY DEF IInv
  <1>2. QED
    BY <1>1, Invariant, PTL

\* NewSubmissionJob is queued once for an image of a post, and twice for a file
\* only by handlers that overlapped.
THEOREM LoadedOnce ==
    ASSUME FListFile \cap RedditPost = {} PROVE Spec => []SubmittedOnce
  <1>1. IInv => SubmittedOnce
    BY DEF IInv
  <1>2. QED
    BY <1>1, Invariant, PTL

\* What is submitted is stored, an image of a post under that post's row.
THEOREM LoadedStored ==
    ASSUME FListFile \cap RedditPost = {} PROVE Spec => []SubmittedIsStored
  <1>1. IInv => SubmittedIsStored
    BY DEF IInv
  <1>2. QED
    BY <1>1, Invariant, PTL

-----------------------------------------------------------------------------
(* Sets of numbers.                                                          *)

LEMMA Smallest ==
    ASSUME NEW S, S \subseteq Nat, S # {}
    PROVE  \E m \in S : \A x \in S : m <= x
  <1>1. PICK m \in S : \A x \in S : <<x, m>> \notin OpToRel(<, Nat)
    BY NatLessThanWellFounded, WFMin, Zenon
  <1>2. \A x \in S : ~(x < m)
    BY <1>1, Zenon DEF OpToRel
  <1>3. \A x \in S : m <= x
    BY <1>2
  <1>4. QED
    BY <1>3

LEMMA Greatest ==
    ASSUME NEW n \in Nat, NEW S, S \subseteq 0..n, S # {}
    PROVE  \E m \in S : \A x \in S : x <= m
  <1> DEFINE T == {n - x : x \in S}
  <1>1. T \subseteq Nat /\ T # {}
    <2>1. PICK s \in S : TRUE
      OBVIOUS
    <2>2. n - s \in T /\ \A x \in S : n - x \in Nat
      OBVIOUS
    <2>3. QED
      BY <2>2
  <1>2. PICK t \in T : \A u \in T : t <= u
    <2> HIDE DEF T
    <2>1. QED
      BY <1>1, Smallest
  <1>3. PICK m \in S : t = n - m
    BY <1>2
  <1>4. \A x \in S : n - m <= n - x
    BY <1>2, <1>3
  <1>5. \A x \in S : x <= m
    BY <1>4
  <1>6. QED
    BY <1>5

\* The pages before the one with the item of rank n hold at most n items.
LEMMA WholePages ==
    ASSUME NEW size \in Nat \ {0}, NEW n \in Nat
    PROVE  size * (n \div size) \in Int /\ size * (n \div size) <= n
  OBVIOUS

-----------------------------------------------------------------------------
(* RedditWatch.  No post before the saved position is left to queue, since an *)
(* update queues all between the newest post it saw and the position it       *)
(* started from.                                                              *)

RedditConstants ==
    /\ LastPost \in Nat /\ ListingPage \in Nat \ {0}
    /\ MaxQueued \in Nat /\ MaxUpdateFault \in Nat

LEMMA RCardinality == \A S : R!Cardinality(S) = Cardinality(S)
  BY DEF R!Cardinality, Cardinality

LEMMA RIdle ==
    ASSUME RedditConstants
    PROVE  /\ R!Idle \in R!Update /\ R!Idle.pc = "idle" /\ R!Idle.prev = 0 /\ R!Idle.max = 0
           /\ R!Idle.after = LastPost + 1
  BY DEF R!Idle, R!Update, R!Post, RedditConstants

LEMMA RedditParts ==
    ASSUME RedditConstants, R!TypeOK
    PROVE  /\ published \in Nat /\ published <= LastPost
           /\ listed \subseteq 1..published /\ listed \subseteq R!Post
           /\ position \in Nat /\ position <= published
           /\ upd \in [Worker -> R!Update]
           /\ updateFaults \in 0..MaxUpdateFault
  BY DEF RedditConstants, R!TypeOK, R!Post

LEMMA UpdateParts ==
    ASSUME RedditConstants, NEW run \in R!Update
    PROVE  /\ run.pc \in {"idle", "paging", "queueing", "saving"}
           /\ run.prev \in Nat /\ run.max \in Nat /\ run.after \in Nat
           /\ run.prev <= LastPost /\ run.max <= LastPost /\ run.after <= LastPost + 1
           /\ run.page \subseteq R!Post /\ run.last \in BOOLEAN
           /\ run.prev \in 0..LastPost /\ run.max \in 0..LastPost /\ run.after \in 1..(LastPost + 1)
  BY DEF RedditConstants, R!Update

\* What a step of one updater does to upd.
LEMMA OneUpdate ==
    ASSUME upd \in [Worker -> R!Update], NEW u \in Worker, NEW r \in R!Update,
           upd' = [upd EXCEPT ![u] = r]
    PROVE  /\ upd' \in [Worker -> R!Update] /\ upd'[u] = r
           /\ \A v \in Worker : v # u => upd'[v] = upd[v]
  OBVIOUS

\* A position stays covered when posts are handed on, withdrawn or published.
LEMMA RedditGrows ==
    ASSUME RedditConstants, R!TypeOK, published' \in Nat, published <= published',
           \A x \in R!Handed : x \in R!Handed',
           \A x \in listed' : x \in Nat /\ (x \in listed \/ x > published)
    PROVE  /\ \A from \in Nat : from <= published + 1 /\ R!Covered(from) => R!Covered(from)'
           /\ \A run \in R!Update : R!Sound(run) => R!Sound(run)'
  <1>1. /\ published \in Nat /\ listed \subseteq 1..published
    BY RedditParts
  <1>2. ASSUME NEW from \in Nat, from <= published + 1, R!Covered(from)
        PROVE  R!Covered(from)'
    BY <1>1, <1>2 DEF R!Covered
  <1>3. ASSUME NEW run \in R!Update, R!Sound(run)
        PROVE  R!Sound(run)'
    <2>1. /\ run.pc \in {"idle", "paging", "queueing", "saving"}
          /\ run.prev \in Nat /\ run.max \in Nat /\ run.after \in Nat
      BY UpdateParts
    <2>2. R!Covered(run.prev) /\ run.prev <= published /\ run.max <= published
      BY <1>3 DEF R!Sound
    <2>3. R!Covered(run.prev)' /\ run.prev <= published' /\ run.max <= published'
      BY <1>1, <1>2, <2>1, <2>2
    <2>4. ASSUME run.pc \in {"paging", "queueing"}, NEW x \in listed', x >= run.after, x <= run.max
          PROVE  x \in R!Handed'
      <3>1. x \in listed
        BY <1>1, <2>1, <2>2, <2>4
      <3>2. QED
        BY <1>3, <2>4, <3>1 DEF R!Sound
    <2>5. ASSUME run.pc = "queueing"
          PROVE  /\ run.page # {} /\ run.page \subseteq 1..published'
                 /\ \A x \in run.page : x < run.after
                 /\ \A x \in listed' \ run.page : x < run.after =>
                     \/ ~run.last /\ \A y \in run.page : x < y
                     \/ x > run.max /\ \A y \in run.page : x > y
      <3>1. /\ run.page # {} /\ run.page \subseteq 1..published
            /\ \A x \in run.page : x < run.after
        BY <1>3, <2>5 DEF R!Sound
      <3>2. run.page \subseteq 1..published'
        BY <1>1, <3>1
      <3>3. ASSUME NEW x \in listed' \ run.page, x < run.after
            PROVE  \/ ~run.last /\ \A y \in run.page : x < y
                   \/ x > run.max /\ \A y \in run.page : x > y
        <4>1. CASE x \in listed
          BY <1>3, <2>5, <3>3, <4>1 DEF R!Sound
        <4>2. CASE x > published
          BY <1>1, <2>1, <2>2, <3>1, <4>2
        <4>3. QED
          BY <4>1, <4>2
      <3>4. QED
        BY <3>1, <3>2, <3>3
    <2>6. ASSUME run.pc = "saving" PROVE R!Covered(run.max + 1)'
      <3>1. R!Covered(run.max + 1)
        BY <1>3, <2>6 DEF R!Sound
      <3>2. run.max + 1 \in Nat /\ run.max + 1 <= published + 1
        BY <1>1, <2>1, <2>2
      <3>3. QED
        BY <1>2, <3>1, <3>2
    <2>7. QED
      BY <2>3, <2>4, <2>5, <2>6 DEF R!Sound
  <1>4. QED
    BY <1>2, <1>3

LEMMA SoundRun ==
    ASSUME NEW v, NEW run, run = upd'[v], R!Sound(run)' PROVE R!Sound(upd[v])'
  BY DEF R!Sound

\* A step of one updater that leaves the listing alone.
LEMMA UpdaterStep ==
    ASSUME RedditConstants, R!IInv, NEW u \in Worker, NEW r \in R!Update,
           upd' = [upd EXCEPT ![u] = r],
           UNCHANGED <<published, listed, disabled, had, dead>>,
           position' \in Nat, position' <= published, R!Covered(position)',
           recent' \in BOOLEAN, updates' \in 0..MaxQueued,
           queued \subseteq queued', queued' \subseteq R!Post,
           updateFaults' \in 0..MaxUpdateFault,
           R!Sound(r)'
    PROVE  R!IInv'
  <1>1. R!TypeOK
    BY DEF R!IInv
  <1>2. upd' \in [Worker -> R!Update] /\ upd'[u] = r
        /\ \A v \in Worker : v # u => upd'[v] = upd[v]
    BY <1>1, RedditParts, OneUpdate
  <1>3. R!TypeOK'
    BY <1>1, <1>2 DEF R!TypeOK, RedditConstants, R!Post
  <1>4. /\ published' \in Nat /\ published <= published'
        /\ \A x \in R!Handed : x \in R!Handed'
        /\ \A x \in listed' : x \in Nat /\ (x \in listed \/ x > published)
    BY <1>1, RedditParts DEF R!Handed
  <1>5. \A run \in R!Update : R!Sound(run) => R!Sound(run)'
    BY <1>1, <1>4, RedditGrows
  <1>6. ASSUME NEW v \in Worker PROVE R!Sound(upd[v])'
    <2>1. CASE v = u
      BY <1>2, <2>1, SoundRun
    <2>2. CASE v # u
      <3>1. PICK run \in R!Update : run = upd[v]
        BY <1>1, RedditParts
      <3>2. R!Sound(run)
        BY <3>1 DEF R!IInv
      <3>3. R!Sound(run)' /\ upd'[v] = run
        BY <1>2, <1>5, <2>2, <3>1, <3>2
      <3>4. QED
        BY <3>3, SoundRun
    <2>3. QED
      BY <2>1, <2>2
  <1>7. QED
    BY <1>3, <1>6 DEF R!IInv

\* Nothing but the listing changes, or no updater moves.
LEMMA RedditRests ==
    ASSUME RedditConstants, R!IInv, R!TypeOK', UNCHANGED <<upd, position>>,
           published <= published', \A x \in R!Handed : x \in R!Handed',
           \A x \in listed' : x \in listed \/ x > published
    PROVE  R!IInv'
  <1>1. R!TypeOK /\ R!Covered(position)
    BY DEF R!IInv
  <1>2. /\ published \in Nat /\ position \in Nat /\ position <= published + 1
        /\ upd \in [Worker -> R!Update]
    BY <1>1, RedditParts
  <1>3. published' \in Nat /\ \A x \in listed' : x \in Nat
    BY DEF R!TypeOK, RedditConstants
  <1>4. /\ \A from \in Nat : from <= published + 1 /\ R!Covered(from) => R!Covered(from)'
        /\ \A run \in R!Update : R!Sound(run) => R!Sound(run)'
    BY <1>1, <1>3, RedditGrows
  <1>5. R!Covered(position)'
    <2>1. PICK from \in Nat : from = position
      BY <1>2
    <2>2. R!Covered(from)'
      BY <1>1, <1>2, <1>4, <2>1
    <2>3. QED
      BY <2>1, <2>2 DEF R!Covered
  <1>6. ASSUME NEW u \in Worker PROVE R!Sound(upd[u])'
    <2>1. PICK run \in R!Update : run = upd[u]
      BY <1>2
    <2>2. R!Sound(run)' /\ run = upd'[u]
      BY <1>4, <2>1 DEF R!IInv
    <2>3. QED
      BY <2>2, SoundRun
  <1>7. QED
    BY <1>5, <1>6 DEF R!IInv

LEMMA RedditQuiet ==
    ASSUME RedditConstants, R!IInv,
           \/ R!Publish \/ R!Withdraw \/ R!ToggleState \/ R!CheckSubreddits \/ R!QuarterHour
           \/ R!SkipRecent \/ (\E x \in R!Post : R!LoadPost(x) \/ R!LosePost(x))
           \/ UNCHANGED R!vars
    PROVE  R!IInv'
  <1>1. R!TypeOK
    BY DEF R!IInv
  <1>2. /\ published \in Nat /\ published <= LastPost /\ LastPost \in Nat
        /\ listed \subseteq 1..published /\ position \in Nat /\ position <= published
        /\ updateFaults \in 0..MaxUpdateFault /\ updates \in 0..MaxQueued
        /\ MaxUpdateFault \in Nat /\ MaxQueued \in Nat
        /\ disabled \in BOOLEAN /\ recent \in BOOLEAN
        /\ queued \subseteq R!Post /\ had \subseteq R!Post /\ dead \subseteq R!Post
    BY <1>1, RedditParts DEF RedditConstants, R!TypeOK
  <1> USE DEF R!listing, R!subreddit, R!posts
  <1>3. CASE R!Publish
    <2>1. /\ published' = published + 1 /\ published' <= LastPost
          /\ listed' = listed \cup {published + 1}
          /\ UNCHANGED <<upd, position, queued, had, dead, disabled, recent, updates, updateFaults>>
      BY <1>2, <1>3 DEF R!Publish
    <2>2. published' \in 0..LastPost /\ listed' \subseteq 1..published' /\ position' \in 0..published'
      BY <1>2, <2>1
    <2>3. R!TypeOK'
      BY <1>1, <2>1, <2>2 DEF R!TypeOK
    <2>4. QED
      BY <1>2, <2>1, <2>3, RedditRests DEF R!Handed
  <1>4. CASE R!Withdraw
    <2>1. /\ listed' \subseteq listed /\ updateFaults' \in 0..MaxUpdateFault
          /\ UNCHANGED <<published, upd, position, queued, had, dead, disabled, recent, updates>>
      BY <1>2, <1>4 DEF R!Withdraw, R!Fault
    <2>2. R!TypeOK'
      BY <1>1, <2>1 DEF R!TypeOK
    <2>3. QED
      BY <1>2, <2>1, <2>2, RedditRests DEF R!Handed
  <1>5. CASE R!ToggleState \/ R!CheckSubreddits \/ R!QuarterHour \/ R!SkipRecent
    <2>1. /\ disabled' \in BOOLEAN /\ recent' \in BOOLEAN /\ updates' \in 0..MaxQueued
          /\ UNCHANGED <<published, listed, upd, position, queued, had, dead, updateFaults>>
      <3>1. CASE R!ToggleState \/ R!QuarterHour
        BY <1>2, <3>1 DEF R!ToggleState, R!QuarterHour
      <3>2. CASE R!CheckSubreddits
        BY <1>2, <3>2 DEF R!CheckSubreddits
      <3>3. CASE R!SkipRecent
        BY <1>2, <3>3 DEF R!SkipRecent
      <3>4. QED
        BY <1>5, <3>1, <3>2, <3>3
    <2>2. R!TypeOK'
      BY <1>1, <2>1 DEF R!TypeOK
    <2>3. QED
      BY <1>2, <2>1, <2>2, RedditRests DEF R!Handed
  <1>6. CASE \E x \in R!Post : R!LoadPost(x) \/ R!LosePost(x)
    <2>1. PICK x \in R!Post : R!LoadPost(x) \/ R!LosePost(x)
      BY <1>6
    <2>2. /\ queued' \subseteq R!Post /\ had' \subseteq R!Post /\ dead' \subseteq R!Post
          /\ updateFaults' \in 0..MaxUpdateFault
          /\ UNCHANGED <<published, listed, upd, position, disabled, recent, updates>>
      BY <1>2, <2>1 DEF R!LoadPost, R!LosePost, R!Fault
    <2>3. \A y \in R!Handed : y \in R!Handed'
      BY <2>1 DEF R!LoadPost, R!LosePost, R!Handed
    <2>4. R!TypeOK'
      BY <1>1, <2>2 DEF R!TypeOK
    <2>5. QED
      BY <1>2, <2>2, <2>3, <2>4, RedditRests
  <1>7. CASE UNCHANGED R!vars
    <2>1. UNCHANGED <<published, listed, upd, position, queued, had, dead, disabled, recent,
                      updates, updateFaults>>
      BY <1>7 DEF R!vars
    <2>2. R!TypeOK'
      BY <1>1, <2>1 DEF R!TypeOK
    <2>3. QED
      BY <1>2, <2>1, <2>2, RedditRests DEF R!Handed
  <1>8. QED
    BY <1>3, <1>4, <1>5, <1>6, <1>7

\* A page is the newest part of what is older than its start.
LEMMA PageIsNewest ==
    ASSUME RedditConstants, R!TypeOK, NEW after \in Nat
    PROVE  /\ R!Page(after) \subseteq listed
           /\ \A x \in R!Page(after) : x < after
           /\ \A x \in listed \ R!Page(after) : x < after => \A y \in R!Page(after) : x < y
           /\ R!Page(after) = {} => \A x \in listed : x >= after
  <1>1. listed \subseteq 1..published /\ published \in Nat /\ ListingPage \in Nat \ {0}
    BY RedditParts DEF RedditConstants
  <1> DEFINE Between(x) == {y \in listed : x < y /\ y < after}
  <1>2. \A x \in listed : x \in R!Page(after) <=> x < after /\ Cardinality(Between(x)) < ListingPage
    BY RCardinality DEF R!Page
  <1>3. IsFiniteSet(listed) /\ \A x : IsFiniteSet(Between(x)) /\ Cardinality(Between(x)) \in Nat
    <2>1. IsFiniteSet(1..published)
      BY <1>1, FS_Interval
    <2>2. IsFiniteSet(listed)
      BY <1>1, <2>1, FS_Subset
    <2>3. ASSUME NEW x PROVE IsFiniteSet(Between(x)) /\ Cardinality(Between(x)) \in Nat
      <3>1. Between(x) \in SUBSET listed
        OBVIOUS
      <3>2. IsFiniteSet(Between(x))
        BY <2>2, <3>1, FS_Subset
      <3>3. QED
        BY <3>2, FS_CardinalityType
    <2>4. QED
      BY <2>2, <2>3
  <1>4. ASSUME NEW x \in listed \ R!Page(after), x < after, NEW y \in R!Page(after)
        PROVE  x < y
    <2>1. y \in listed /\ y < after /\ Cardinality(Between(y)) < ListingPage
      BY <1>2 DEF R!Page
    <2>2. SUFFICES ASSUME x > y PROVE FALSE
      BY <1>1, <2>1
    <2>3. Between(x) \in SUBSET Between(y)
      <3>1. ASSUME NEW z \in Between(x) PROVE z \in Between(y)
        <4>1. z \in Nat /\ x \in Nat /\ y \in Nat /\ x < z /\ z < after /\ z \in listed
          BY <1>1, <2>1
        <4>2. QED
          BY <2>2, <4>1
      <3>2. QED
        BY <3>1
    <2>4. Cardinality(Between(x)) <= Cardinality(Between(y))
      <3> HIDE DEF Between
      <3>1. QED
        BY <1>3, <2>3, FS_Subset
    <2>5. Cardinality(Between(x)) < ListingPage
      BY <1>1, <1>3, <2>1, <2>4
    <2>6. QED
      BY <1>2, <1>4, <2>5
  <1>5. ASSUME R!Page(after) = {}, NEW z \in listed, z < after PROVE FALSE
    <2> DEFINE Older == {x \in listed : x < after}
    <2>1. Older \subseteq 0..published /\ Older # {}
      <3>1. z \in Older
        BY <1>5
      <3>2. ASSUME NEW x \in Older PROVE x \in 0..published
        <4>1. x \in listed
          OBVIOUS
        <4>2. QED
          BY <1>1, <4>1
      <3> HIDE DEF Older
      <3>3. QED
        BY <3>1, <3>2
    <2>2. PICK m \in Older : \A x \in Older : x <= m
      <3> HIDE DEF Older
      <3>1. QED
        BY <1>1, <2>1, Greatest
    <2>3. Between(m) = {}
      <3>1. SUFFICES ASSUME NEW y \in Between(m) PROVE FALSE
        OBVIOUS
      <3>2. y \in listed /\ m < y /\ y < after
        OBVIOUS
      <3>3. y \in Older /\ y \in Nat /\ m \in Nat
        BY <1>1, <2>2, <3>2
      <3>4. y <= m
        BY <2>2, <3>3
      <3>5. QED
        BY <3>2, <3>3, <3>4
    <2>4. Cardinality(Between(m)) = 0
      BY <2>3, FS_EmptySet
    <2>5. m \in R!Page(after)
      BY <1>1, <1>2, <2>2, <2>4
    <2>6. QED
      BY <1>5, <2>5
  <1>6. R!Page(after) \subseteq listed /\ \A x \in R!Page(after) : x < after
    BY DEF R!Page
  <1>7. QED
    BY <1>1, <1>4, <1>5, <1>6

LEMMA RedditBegin == ASSUME RedditConstants, R!IInv, NEW u \in Worker, R!Begin(u) PROVE R!IInv'
  <1>1. /\ R!TypeOK /\ R!Covered(position)
        /\ published \in Nat /\ published <= LastPost /\ LastPost \in Nat
        /\ listed \subseteq 1..published /\ position \in Nat /\ position <= published
        /\ updates \in 0..MaxQueued /\ MaxQueued \in Nat
    BY RedditParts DEF RedditConstants, R!TypeOK, R!IInv
  <1>2. PICK r : r = [R!Idle EXCEPT !.pc = "paging", !.prev = position]
    OBVIOUS
  <1>3. /\ r \in R!Update /\ r.pc = "paging" /\ r.prev = position /\ r.max = 0
        /\ r.after = LastPost + 1
    <2>1. position \in 0..LastPost
      BY <1>1
    <2>2. QED
      BY <1>2, <2>1, RIdle DEF R!Update
  <1>4. /\ upd' = [upd EXCEPT ![u] = r] /\ updates' \in 0..MaxQueued
        /\ UNCHANGED <<published, listed, disabled, position, recent, queued, had, dead, updateFaults>>
    BY <1>1, <1>2 DEF R!Begin, R!listing, R!subreddit, R!posts
  <1>5. R!Covered(position)' /\ R!Covered(r.prev)'
    BY <1>1, <1>3, <1>4 DEF R!Covered, R!Handed
  <1>6. R!Sound(r)'
    <2>1. r.prev <= published' /\ r.max <= published'
      BY <1>1, <1>3, <1>4
    <2>2. \A x \in listed' : x >= r.after /\ x <= r.max => x \in R!Handed'
      BY <1>1, <1>3, <1>4
    <2>3. QED
      BY <1>3, <1>5, <2>1, <2>2 DEF R!Sound
  <1>7. /\ queued' \subseteq R!Post /\ queued \subseteq queued' /\ updateFaults' \in 0..MaxUpdateFault
        /\ recent' \in BOOLEAN /\ position' \in Nat /\ position' <= published
    BY <1>1, <1>4 DEF R!TypeOK
  <1>8. QED
    BY <1>3, <1>4, <1>5, <1>6, <1>7, UpdaterStep

LEMMA RedditLoadPage == ASSUME RedditConstants, R!IInv, NEW u \in Worker, R!LoadPage(u) PROVE R!IInv'
  <1>1. PICK run \in R!Update : run = upd[u]
    BY RedditParts DEF R!IInv
  <1>2. /\ R!TypeOK /\ R!Covered(position) /\ R!Sound(run)
        /\ published \in Nat /\ published <= LastPost /\ LastPost \in Nat
        /\ listed \subseteq 1..published /\ position \in Nat /\ position <= published
    BY <1>1, RedditParts DEF RedditConstants, R!TypeOK, R!IInv
  <1>3. /\ run.prev \in Nat /\ run.max \in Nat /\ run.after \in Nat
        /\ run.max \in 0..LastPost /\ run.pc = "paging"
    BY <1>1, UpdateParts DEF R!LoadPage, R!At
  <1>4. PICK page : page = R!Page(run.after)
    OBVIOUS
  <1>5. PICK last \in BOOLEAN : last <=> {x \in listed : x < run.after} \ page = {}
    OBVIOUS
  <1>6. /\ page \subseteq listed
        /\ \A x \in page : x < run.after
        /\ \A x \in listed \ page : x < run.after => \A y \in page : x < y
        /\ page = {} => \A x \in listed : x >= run.after
    BY <1>2, <1>3, <1>4, PageIsNewest
  <1>7. /\ R!Covered(run.prev) /\ run.prev <= published /\ run.max <= published
        /\ \A x \in listed : x >= run.after /\ x <= run.max => x \in R!Handed
    BY <1>2, <1>3 DEF R!Sound
  <1>8. UNCHANGED <<published, listed, disabled, position, recent, queued, had, dead, updates, updateFaults>>
    BY DEF R!LoadPage, R!listing, R!subreddit, R!posts
  <1>9. /\ R!Covered(position)' /\ R!Covered(run.prev)'
        /\ \A x \in listed' : x >= run.after /\ x <= run.max => x \in R!Handed'
    BY <1>2, <1>7, <1>8 DEF R!Covered, R!Handed
  <1>10. /\ queued' \subseteq R!Post /\ queued \subseteq queued' /\ updateFaults' \in 0..MaxUpdateFault
         /\ recent' \in BOOLEAN /\ updates' \in 0..MaxQueued /\ position' \in Nat /\ position' <= published
    BY <1>2, <1>8 DEF R!TypeOK
  <1>11. CASE page = {}
    <2>1. PICK r : r = R!Saving(run.max)
      OBVIOUS
    <2>2. r \in R!Update /\ r.pc = "saving" /\ r.max = run.max /\ r.prev = 0
      BY <1>3, <2>1, RIdle DEF R!Saving, R!Update
    <2>3. upd' = [upd EXCEPT ![u] = r]
      BY <1>1, <1>4, <1>11, <2>1 DEF R!LoadPage
    <2>4. R!Covered(0)' /\ R!Covered(run.max + 1)'
      <3>1. ASSUME NEW x \in listed', x < run.max + 1 PROVE x \in R!Handed'
        <4>1. x \in Nat /\ x <= run.max /\ x >= run.after
          BY <1>2, <1>3, <1>6, <1>8, <1>11, <3>1
        <4>2. QED
          BY <1>9, <4>1
      <3>2. \A x \in listed' : ~(x < 0)
        BY <1>2, <1>8
      <3>3. QED
        BY <3>1, <3>2 DEF R!Covered
    <2>5. R!Sound(r)'
      <3>1. r.prev <= published' /\ r.max <= published'
        BY <1>2, <1>7, <1>8, <2>2
      <3>2. R!Covered(r.prev)' /\ R!Covered(r.max + 1)'
        BY <2>2, <2>4 DEF R!Covered
      <3>3. QED
        BY <2>2, <3>1, <3>2 DEF R!Sound
    <2>6. QED
      BY <1>8, <1>9, <1>10, <2>2, <2>3, <2>5, UpdaterStep
  <1>12. CASE page # {}
    <2>1. PICK r : r = [run EXCEPT !.pc = "queueing", !.page = page, !.last = last]
      OBVIOUS
    <2>2. page \subseteq R!Post
      BY <1>2, <1>6 DEF R!Post
    <2>3. /\ r \in R!Update /\ r.pc = "queueing" /\ r.max = run.max /\ r.prev = run.prev
          /\ r.after = run.after /\ r.page = page /\ r.last = last
      BY <2>1, <2>2 DEF R!Update
    <2>4. upd' = [upd EXCEPT ![u] = r]
      <3>1. last = ({x \in listed : x < run.after} \ page = {})
        BY <1>5
      <3>2. QED
        BY <1>1, <1>4, <1>12, <2>1, <3>1 DEF R!LoadPage
    <2>5. R!Sound(r)'
      <3>1. R!Covered(r.prev)' /\ r.prev <= published' /\ r.max <= published'
        BY <1>2, <1>7, <1>8, <1>9, <2>3 DEF R!Covered
      <3>2. r.page # {} /\ r.page \subseteq 1..published' /\ \A x \in r.page : x < r.after
        BY <1>2, <1>6, <1>8, <1>12, <2>3
      <3>3. ASSUME NEW x \in listed' \ r.page, x < r.after
            PROVE  ~r.last /\ \A y \in r.page : x < y
        BY <1>5, <1>6, <1>8, <2>3, <3>3
      <3>4. QED
        BY <1>9, <2>3, <3>1, <3>2, <3>3 DEF R!Sound
    <2>6. QED
      BY <1>8, <1>9, <1>10, <2>3, <2>4, <2>5, UpdaterStep
  <1>13. QED
    BY <1>11, <1>12

\* The page and the newest post seen, as QueuePosts takes them.
LEMMA QueuedBounds ==
    ASSUME RedditConstants, NEW page, page \subseteq 1..published, page # {},
           published \in Nat, NEW max \in Nat, max <= published
    PROVE  /\ R!Max(page \cup {max}) \in page \cup {max}
           /\ \A x \in page \cup {max} : x <= R!Max(page \cup {max})
           /\ R!Min(page) \in page /\ \A x \in page : R!Min(page) <= x
  <1>1. page \cup {max} \subseteq 0..published /\ page \cup {max} # {}
    OBVIOUS
  <1>2. \E m \in page \cup {max} : \A x \in page \cup {max} : x <= m
    BY <1>1, Greatest
  <1>3. page \subseteq Nat
    OBVIOUS
  <1>4. \E m \in page : \A x \in page : m <= x
    BY <1>3, Smallest
  <1>5. /\ R!Max(page \cup {max}) \in page \cup {max}
        /\ \A x \in page \cup {max} : x <= R!Max(page \cup {max})
    <2> DEFINE S == page \cup {max}
    <2>1. R!Max(S) = CHOOSE m \in S : \A x \in S : m >= x
      BY DEF R!Max
    <2>2. \E m \in S : \A x \in S : m >= x
      <3>1. PICK m \in S : \A x \in S : x <= m
        BY <1>2
      <3>2. \A x \in S : m >= x
        BY <1>1, <3>1
      <3>3. QED
        BY <3>2
    <2> HIDE DEF S
    <2>3. R!Max(S) \in S /\ \A x \in S : R!Max(S) >= x
      BY <2>1, <2>2, Zenon
    <2>4. \A x \in S : x <= R!Max(S)
      BY <1>1, <2>3 DEF S
    <2>5. QED
      BY <2>3, <2>4 DEF S
  <1>6. R!Min(page) \in page /\ \A x \in page : R!Min(page) <= x
    BY <1>4, Zenon DEF R!Min
  <1>7. QED
    BY <1>5, <1>6

LEMMA RedditQueuePosts ==
    ASSUME RedditConstants, R!IInv, NEW u \in Worker, R!QueuePosts(u) PROVE R!IInv'
  <1>1. PICK run \in R!Update : run = upd[u]
    BY RedditParts DEF R!IInv
  <1>2. /\ R!TypeOK /\ R!Covered(position) /\ R!Sound(run)
        /\ published \in Nat /\ published <= LastPost /\ LastPost \in Nat
        /\ listed \subseteq 1..published /\ position \in Nat /\ position <= published
    BY <1>1, RedditParts DEF RedditConstants, R!TypeOK, R!IInv
  <1>3. /\ run.prev \in Nat /\ run.max \in Nat /\ run.after \in Nat
        /\ run.prev \in 0..LastPost /\ run.pc = "queueing"
        /\ run.page \subseteq R!Post /\ run.last \in BOOLEAN
    BY <1>1, UpdateParts DEF R!QueuePosts, R!At
  <1>4. PICK max : max = R!Max(run.page \cup {run.max})
    OBVIOUS
  <1>5. PICK ends \in BOOLEAN : ends <=> run.last \/ \E x \in run.page : x < run.prev
    OBVIOUS
  <1>6. /\ R!Covered(run.prev) /\ run.prev <= published /\ run.max <= published
        /\ \A x \in listed : x >= run.after /\ x <= run.max => x \in R!Handed
        /\ run.page # {} /\ run.page \subseteq 1..published
        /\ \A x \in run.page : x < run.after
        /\ \A x \in listed \ run.page : x < run.after =>
             \/ ~run.last /\ \A y \in run.page : x < y
             \/ x > run.max /\ \A y \in run.page : x > y
    BY <1>2, <1>3 DEF R!Sound
  <1>7. /\ max \in run.page \cup {run.max} /\ \A x \in run.page : x <= max
        /\ run.max <= max /\ max \in 0..LastPost /\ max <= published /\ max \in Nat
    <2>1. /\ max \in run.page \cup {run.max} /\ \A x \in run.page \cup {run.max} : x <= max
      <3>1. /\ run.page \subseteq 1..published /\ run.page # {} /\ published \in Nat
            /\ run.max \in Nat /\ run.max <= published
        BY <1>2, <1>3, <1>6
      <3>2. /\ R!Max(run.page \cup {run.max}) \in run.page \cup {run.max}
            /\ \A x \in run.page \cup {run.max} : x <= R!Max(run.page \cup {run.max})
        BY <3>1, QueuedBounds, Zenon
      <3>3. QED
        BY <1>4, <3>2, Zenon
    <2>2. QED
      BY <1>2, <1>3, <1>6, <2>1
  <1>8. PICK oldest : oldest = R!Min(run.page)
    OBVIOUS
  <1>9. oldest \in run.page /\ \A x \in run.page : oldest <= x
    BY <1>2, <1>3, <1>6, <1>8, QueuedBounds
  <1>10. /\ queued' = queued \cup (run.page \ had)
         /\ UNCHANGED <<published, listed, disabled, position, recent, had, dead, updates, updateFaults>>
    BY <1>1 DEF R!QueuePosts, R!listing, R!subreddit
  <1>11. /\ queued' \subseteq R!Post /\ queued \subseteq queued' /\ updateFaults' \in 0..MaxUpdateFault
         /\ recent' \in BOOLEAN /\ updates' \in 0..MaxQueued /\ position' \in Nat /\ position' <= published
    BY <1>2, <1>3, <1>10 DEF R!TypeOK
  <1>12. (\A x \in R!Handed : x \in R!Handed') /\ \A x \in run.page : x \in R!Handed'
    BY <1>10 DEF R!Handed
  <1>13. /\ R!Covered(position)' /\ R!Covered(run.prev)'
         /\ \A x \in listed' : x >= run.after /\ x <= run.max => x \in R!Handed'
    BY <1>2, <1>6, <1>10, <1>12 DEF R!Covered
  \* A post that is not on the page and not older than all of it is covered,
  \* or newer than all the run saw.
  <1>14. ASSUME NEW x \in listed, x <= max, ~(~run.last /\ \A y \in run.page : x < y)
         PROVE  x \in R!Handed'
    <2>1. x \in Nat
      BY <1>2
    <2>2. CASE x \in run.page
      BY <1>12, <2>2
    <2>3. CASE x >= run.after
      <3>1. max \notin run.page
        BY <1>3, <1>6, <1>7, <1>14, <2>1, <2>3
      <3>2. max = run.max
        BY <1>7, <3>1
      <3>3. QED
        BY <1>6, <1>12, <1>14, <2>3, <3>2
    <2>4. CASE x \notin run.page /\ x < run.after
      <3>1. x > run.max /\ \A y \in run.page : x > y
        BY <1>6, <1>14, <2>4
      <3>2. x > max
        BY <1>7, <3>1
      <3>3. QED
        BY <1>7, <1>14, <2>1, <3>2
    <2>5. QED
      BY <1>3, <2>1, <2>2, <2>3, <2>4
  <1>15. CASE ends
    <2>1. PICK r : r = R!Saving(max)
      OBVIOUS
    <2>2. r \in R!Update /\ r.pc = "saving" /\ r.max = max /\ r.prev = 0
      BY <1>7, <2>1, RIdle DEF R!Saving, R!Update
    <2>3. upd' = [upd EXCEPT ![u] = r]
      <3>1. run.last \/ \E x \in run.page : x < run.prev
        BY <1>5, <1>15
      <3>2. QED
        BY <1>1, <1>4, <2>1, <3>1 DEF R!QueuePosts
    <2>4. R!Covered(0)' /\ R!Covered(max + 1)'
      <3>1. ASSUME NEW x \in listed', x < max + 1 PROVE x \in R!Handed'
        <4>1. x \in listed /\ x \in Nat /\ x <= max
          BY <1>2, <1>7, <1>10, <3>1
        <4>2. CASE ~run.last /\ \A y \in run.page : x < y
          <5>1. PICK z \in run.page : z < run.prev
            BY <1>5, <1>15, <4>2
          <5>2. x < run.prev
            <6>1. x < z /\ z \in Nat
              BY <1>6, <4>2
            <6>2. QED
              BY <1>3, <4>1, <5>1, <6>1
          <5>3. QED
            BY <1>6, <1>12, <4>1, <5>2 DEF R!Covered
        <4>3. CASE ~(~run.last /\ \A y \in run.page : x < y)
          BY <1>14, <4>1, <4>3
        <4>4. QED
          BY <4>2, <4>3
      <3>2. \A x \in listed' : ~(x < 0)
        BY <1>2, <1>10
      <3>3. QED
        BY <3>1, <3>2 DEF R!Covered
    <2>5. R!Sound(r)'
      <3>1. r.prev <= published' /\ r.max <= published'
        BY <1>2, <1>7, <1>10, <2>2
      <3>2. R!Covered(r.prev)' /\ R!Covered(r.max + 1)'
        BY <2>2, <2>4 DEF R!Covered
      <3>3. QED
        BY <2>2, <3>1, <3>2 DEF R!Sound
    <2>6. QED
      BY <1>10, <1>11, <1>13, <2>2, <2>3, <2>5, UpdaterStep
  <1>16. CASE ~ends
    <2>1. PICK r : r = [R!Idle EXCEPT !.pc = "paging", !.prev = run.prev, !.max = max, !.after = oldest]
      OBVIOUS
    <2>2. oldest \in 1..(LastPost + 1)
      BY <1>2, <1>6, <1>9
    <2>3. /\ r \in R!Update /\ r.pc = "paging" /\ r.prev = run.prev /\ r.max = max /\ r.after = oldest
      BY <1>3, <1>7, <2>1, <2>2, RIdle DEF R!Update
    <2>4. upd' = [upd EXCEPT ![u] = r]
      <3>1. ~(run.last \/ \E x \in run.page : x < run.prev)
        BY <1>5, <1>16
      <3>2. QED
        BY <1>1, <1>4, <1>8, <2>1, <3>1 DEF R!QueuePosts
    <2>5. R!Sound(r)'
      <3>1. R!Covered(r.prev)' /\ r.prev <= published' /\ r.max <= published'
        BY <1>2, <1>6, <1>7, <1>10, <1>13, <2>3 DEF R!Covered
      <3>2. ASSUME NEW x \in listed', x >= r.after, x <= r.max PROVE x \in R!Handed'
        <4>1. x \in listed /\ x <= max /\ x >= oldest /\ x \in Nat /\ oldest \in Nat
          <5>1. x \in listed /\ x \in Nat
            BY <1>2, <1>10
          <5>2. oldest \in Nat
            BY <1>6, <1>9
          <5>3. QED
            BY <2>3, <3>2, <5>1, <5>2
        <4>2. ~(x < oldest)
          BY <4>1
        <4>3. ~(\A y \in run.page : x < y)
          BY <1>9, <4>2
        <4>4. QED
          BY <1>14, <4>1, <4>3
      <3>3. QED
        BY <2>3, <3>1, <3>2 DEF R!Sound
    <2>6. QED
      BY <1>10, <1>11, <1>13, <2>3, <2>4, <2>5, UpdaterStep
  <1>17. QED
    BY <1>15, <1>16

LEMMA RedditStops ==
    ASSUME RedditConstants, R!IInv, NEW u \in Worker, R!SavePosition(u) \/ R!Die(u) PROVE R!IInv'
  <1>1. PICK run \in R!Update : run = upd[u]
    BY RedditParts DEF R!IInv
  <1>2. /\ R!TypeOK /\ R!Covered(position) /\ R!Sound(run)
        /\ published \in Nat /\ published <= LastPost /\ LastPost \in Nat
        /\ listed \subseteq 1..published /\ position \in Nat /\ position <= published
        /\ updateFaults \in 0..MaxUpdateFault /\ MaxUpdateFault \in Nat
    BY <1>1, RedditParts DEF RedditConstants, R!TypeOK, R!IInv
  <1>3. run.max \in Nat /\ run.max <= published /\ run.page \subseteq R!Post
    BY <1>2, UpdateParts DEF R!Sound
  <1>4. PICK r : r = R!Idle
    OBVIOUS
  <1>5. r \in R!Update /\ r.pc = "idle" /\ r.prev = 0 /\ r.max = 0
    BY <1>4, RIdle
  <1>6. /\ upd' = [upd EXCEPT ![u] = r]
        /\ UNCHANGED <<published, listed, disabled, had, dead, updates>>
    BY <1>4 DEF R!SavePosition, R!Die, R!listing, R!subreddit, R!posts
  <1>7. /\ queued \subseteq queued' /\ queued' \subseteq R!Post /\ updateFaults' \in 0..MaxUpdateFault
        /\ recent' \in BOOLEAN
    <2>1. CASE R!SavePosition(u)
      BY <1>2, <2>1 DEF R!SavePosition, R!posts, R!TypeOK
    <2>2. CASE R!Die(u)
      <3>1. PICK some \in SUBSET (run.page \ had) : queued' = queued \cup some
        BY <1>1, <2>2 DEF R!Die
      <3>2. updateFaults' \in 0..MaxUpdateFault
        BY <1>2, <2>2 DEF R!Die, R!Fault
      <3>3. QED
        BY <1>2, <1>3, <2>2, <3>1, <3>2 DEF R!Die, R!subreddit, R!TypeOK
    <2>3. QED
      BY <2>1, <2>2
  <1>8. R!Covered(position)' /\ position' \in Nat /\ position' <= published
    <2>1. \A x \in R!Handed : x \in R!Handed'
      BY <1>6, <1>7 DEF R!Handed
    <2>2. CASE R!SavePosition(u)
      <3>1. position' = run.max /\ run.pc = "saving"
        BY <1>1, <2>2 DEF R!SavePosition, R!At
      <3>2. R!Covered(run.max + 1)
        BY <1>2, <3>1 DEF R!Sound
      <3>3. \A x \in listed' : x < run.max => x \in R!Handed'
        BY <1>2, <1>3, <1>6, <2>1, <3>2 DEF R!Covered
      <3>4. QED
        BY <1>3, <3>1, <3>3 DEF R!Covered
    <2>3. CASE R!Die(u)
      <3>1. position' = position
        BY <2>3 DEF R!Die, R!subreddit
      <3>2. QED
        BY <1>2, <1>6, <2>1, <3>1 DEF R!Covered
    <2>4. QED
      BY <2>2, <2>3
  <1>9. R!Sound(r)'
    <2>1. \A x \in listed' : ~(x < 0)
      BY <1>2, <1>6
    <2>2. r.prev <= published' /\ r.max <= published' /\ R!Covered(r.prev)'
      BY <1>2, <1>5, <1>6, <2>1 DEF R!Covered
    <2>3. QED
      BY <1>5, <2>2 DEF R!Sound
  <1>10. updates' \in 0..MaxQueued
    BY <1>2, <1>6 DEF R!TypeOK
  <1>11. QED
    BY <1>5, <1>6, <1>7, <1>8, <1>9, <1>10, UpdaterStep

LEMMA RedditInit == ASSUME RedditConstants, R!Init PROVE R!IInv
  <1>1. /\ published = 0 /\ listed = {} /\ position = 0 /\ disabled = FALSE /\ recent = FALSE
        /\ updates = 0 /\ queued = {} /\ had = {} /\ dead = {} /\ updateFaults = 0
        /\ upd = [u \in Worker |-> R!Idle]
    BY DEF R!Init
  <1>2. R!TypeOK
    <2>1. upd \in [Worker -> R!Update]
      BY <1>1, RIdle
    <2>2. /\ published \in 0..LastPost /\ position \in 0..published /\ updates \in 0..MaxQueued
          /\ updateFaults \in 0..MaxUpdateFault /\ listed \subseteq 1..published
      BY <1>1 DEF RedditConstants
    <2>3. QED
      BY <1>1, <2>1, <2>2 DEF R!TypeOK
  <1>3. R!Covered(position)
    BY <1>1 DEF R!Covered
  <1>4. ASSUME NEW u \in Worker PROVE R!Sound(upd[u])
    BY <1>1, RIdle DEF R!Sound, R!Covered
  <1>5. QED
    BY <1>2, <1>3, <1>4 DEF R!IInv

\* What is covered below the position is reached from it: earlier pages are newer.
LEMMA RedditReached == ASSUME RedditConstants, R!IInv PROVE R!NothingPassedOver
  <1>1. /\ R!TypeOK /\ R!Covered(position) /\ listed \subseteq 1..published /\ published \in Nat
        /\ position \in Nat /\ ListingPage \in Nat \ {0}
    BY RedditParts DEF R!IInv, RedditConstants
  <1>2. SUFFICES ASSUME NEW x \in listed, x \notin R!Handed, NEW y \in listed, y < position,
                        R!Newer(y) < ListingPage * (R!Newer(x) \div ListingPage)
                 PROVE  FALSE
    <2>1. \A y \in listed : y \in Nat
      BY <1>1
    <2>2. QED
      BY <1>1, <2>1 DEF R!NothingPassedOver, R!Reaches
  <1>3. x \in Nat /\ y \in Nat /\ x >= position
    BY <1>1, <1>2 DEF R!Covered
  <1> DEFINE Above(z) == {v \in listed : v > z}
  <1>4. R!Newer(x) = Cardinality(Above(x)) /\ R!Newer(y) = Cardinality(Above(y))
    BY RCardinality DEF R!Newer
  <1>5. IsFiniteSet(listed)
    <2>1. IsFiniteSet(1..published)
      BY <1>1, FS_Interval
    <2>2. QED
      BY <1>1, <2>1, FS_Subset
  <1>6. Above(x) \in SUBSET Above(y) /\ Above(y) \in SUBSET listed
    <2>1. y < x
      BY <1>1, <1>2, <1>3
    <2>2. ASSUME NEW v \in Above(x) PROVE v \in Above(y)
      <3>1. v \in listed /\ v > x /\ v \in Nat
        BY <1>1
      <3>2. v > y
        BY <1>3, <2>1, <3>1
      <3>3. QED
        BY <3>1, <3>2
    <2>3. QED
      BY <2>2
  <1>7. R!Newer(x) \in Nat /\ R!Newer(y) \in Nat /\ R!Newer(x) <= R!Newer(y)
    <2> HIDE DEF Above
    <2>1. IsFiniteSet(Above(y)) /\ IsFiniteSet(Above(x))
      BY <1>5, <1>6, FS_Subset
    <2>2. QED
      BY <1>4, <1>6, <2>1, FS_Subset, FS_CardinalityType
  <1>8. ListingPage * (R!Newer(x) \div ListingPage) <= R!Newer(x)
    BY <1>1, <1>7, WholePages
  <1>9. QED
    BY <1>2, <1>7, <1>8, WholePages, <1>1

LEMMA RedditStep == ASSUME RedditConstants, R!IInv, [R!Next]_(R!vars) PROVE R!IInv'
  <1>1. CASE \E u \in Worker : R!Updating(u) \/ R!Die(u)
    <2>1. PICK u \in Worker : R!Updating(u) \/ R!Die(u)
      BY <1>1
    <2>2. QED
      BY <2>1, RedditBegin, RedditLoadPage, RedditQueuePosts, RedditStops DEF R!Updating
  <1>2. CASE ~\E u \in Worker : R!Updating(u) \/ R!Die(u)
    BY <1>2, RedditQuiet DEF R!Next
  <1>3. QED
    BY <1>1, <1>2

\* Whatever updates overlap, fail or save an older position, each post of the
\* listing is queued, stored, given up for good or on a page the next one loads.
THEOREM PostsNotPassedOver ==
    ASSUME RedditConstants PROVE R!Spec => []NothingPassedOver
  <1>1. R!Init => R!IInv
    BY RedditInit
  <1>2. R!IInv /\ [R!Next]_(R!vars) => R!IInv'
    BY RedditStep
  <1>3. R!IInv => NothingPassedOver
    BY RedditReached DEF NothingPassedOver
  <1>4. QED
    BY <1>1, <1>2, <1>3, PTL DEF R!Spec

-----------------------------------------------------------------------------
(* FListRuns.  What a run leaves behind below the id it records is covered up *)
(* to the number of runs taken over, each of which moved the id one too far.  *)

FListConstants == LastImage \in Nat /\ GalleryPage \in Nat \ {0} /\ MaxRunFault \in Nat

LEMMA FCardinality == \A S : F!Cardinality(S) = Cardinality(S)
  BY DEF F!Cardinality, Cardinality

LEMMA FIdle ==
    /\ F!Idle \in F!Collecting /\ F!Idle.pc = "idle" /\ F!Idle.prev = 0 /\ F!Idle.max = 0
    /\ F!Idle.offset = 0
  BY DEF F!Idle, F!Collecting

LEMMA FListParts ==
    ASSUME FListConstants, F!TypeOK
    PROVE  /\ published \in Nat /\ published <= LastImage /\ LastImage \in Nat
           /\ listed \subseteq 1..published /\ listed \subseteq F!Image
           /\ \A x \in listed : x \in Nat /\ x <= published
           /\ files \in [F!Image -> {"unknown", "found", "queued"}]
           /\ open \in Seq(F!Row) /\ done \in Nat /\ gone \subseteq RunId
           /\ coll \in [Worker -> F!Collecting]
           /\ runFaults \in 0..MaxRunFault /\ MaxRunFault \in Nat
           /\ shifted \in BOOLEAN /\ refused \in BOOLEAN /\ taken \in Nat
  BY DEF FListConstants, F!TypeOK, F!Image

LEMMA CollectingParts ==
    ASSUME NEW run \in F!Collecting
    PROVE  /\ run.pc \in {"idle", "starting", "paging", "queueing", "ending"}
           /\ run.prev \in Nat /\ run.offset \in Nat /\ run.max \in Nat
           /\ run.page \subseteq F!Image /\ run.run \in RunId \cup {NoRun}
  BY DEF F!Collecting

LEMMA RowParts ==
    ASSUME NEW row \in F!Row
    PROVE  /\ row.start \in Nat /\ row.resumed \in BOOLEAN /\ row.run \in RunId /\ row.old \in BOOLEAN
           /\ F!Ceiling(row) \in Int
  BY DEF F!Row, F!Ceiling

\* An image has at least the rank of those newer than it.
LEMMA RankFalls ==
    ASSUME FListConstants, F!TypeOK
    PROVE  /\ \A x : F!Rank(x) \in Nat
           /\ \A x, y \in Int : x <= y => F!Rank(y) <= F!Rank(x)
  <1>1. IsFiniteSet(listed) /\ \A x \in listed : x \in Nat
    <2>1. IsFiniteSet(1..published)
      BY FListParts, FS_Interval
    <2>2. QED
      BY <2>1, FListParts, FS_Subset
  <1> DEFINE Above(z) == {v \in listed : v > z}
  <1>2. \A x : F!Rank(x) = Cardinality(Above(x)) /\ Above(x) \in SUBSET listed
    BY FCardinality DEF F!Rank
  <1>3. ASSUME NEW x, NEW y, x \in Int, y \in Int, x <= y PROVE Above(y) \in SUBSET Above(x)
    BY <1>1, <1>3
  <1>4. \A x : IsFiniteSet(Above(x))
    <2> HIDE DEF Above
    <2>1. QED
      BY <1>1, <1>2, FS_Subset
  <1> HIDE DEF Above
  <1>5. \A x : F!Rank(x) \in Nat
    BY <1>2, <1>4, FS_CardinalityType
  <1>6. ASSUME NEW x \in Int, NEW y \in Int, x <= y PROVE F!Rank(y) <= F!Rank(x)
    <2>1. Above(y) \in SUBSET Above(x)
      BY <1>3, <1>6
    <2>2. QED
      BY <1>2, <1>4, <2>1, FS_Subset
  <1>7. QED
    BY <1>5, <1>6

\* While nothing leaves the gallery ranks only grow.
LEMMA RankGrows ==
    ASSUME FListConstants, F!TypeOK, F!TypeOK', listed \subseteq listed', NEW x
    PROVE  F!Rank(x)' \in Nat /\ F!Rank(x) <= F!Rank(x)'
  <1>1. IsFiniteSet(listed')
    <2>1. IsFiniteSet(1..published')
      BY FS_Interval DEF F!TypeOK, FListConstants
    <2>2. QED
      BY <2>1, FS_Subset DEF F!TypeOK
  <1> DEFINE Above == {v \in listed : v > x}
             AboveNow == {v \in listed' : v > x}
  <1>2. F!Rank(x) = Cardinality(Above) /\ F!Rank(x)' = Cardinality(AboveNow)
    BY FCardinality DEF F!Rank
  <1>3. Above \in SUBSET AboveNow /\ AboveNow \in SUBSET listed'
    OBVIOUS
  <1> HIDE DEF Above, AboveNow
  <1>4. IsFiniteSet(AboveNow)
    BY <1>1, <1>3, FS_Subset
  <1>5. QED
    BY <1>2, <1>3, <1>4, FS_Subset, FS_CardinalityType

\* The image before this one in the gallery has the rank before.
LEMMA RankNext ==
    ASSUME FListConstants, F!TypeOK, NEW x \in listed, F!Rank(x) > 0
    PROVE  \E y \in listed :
             /\ y > x /\ F!Rank(x) = F!Rank(y) + 1
             /\ \A v \in listed : v > x => y <= v
  <1>1. IsFiniteSet(listed) /\ \A v \in listed : v \in Nat
    <2>1. IsFiniteSet(1..published)
      BY FListParts, FS_Interval
    <2>2. QED
      BY <2>1, FListParts, FS_Subset
  <1> DEFINE Above(z) == {v \in listed : v > z}
  <1>2. \A z : F!Rank(z) = Cardinality(Above(z)) /\ Above(z) \in SUBSET listed
    BY FCardinality DEF F!Rank
  <1>3. \A z : IsFiniteSet(Above(z))
    <2> HIDE DEF Above
    <2>1. QED
      BY <1>1, <1>2, FS_Subset
  <1>4. Above(x) # {}
    <2> HIDE DEF Above
    <2>1. QED
      BY <1>2, FS_EmptySet
  <1>5. PICK y \in Above(x) : \A v \in Above(x) : y <= v
    <2>1. Above(x) \subseteq Nat
      BY <1>1
    <2> HIDE DEF Above
    <2>2. QED
      BY <1>4, <2>1, Smallest
  <1>6. y \in listed /\ y > x /\ y \in Nat /\ x \in Nat
    BY <1>1
  <1>7. Above(x) = Above(y) \cup {y} /\ y \notin Above(y)
    <2>1. ASSUME NEW v \in listed PROVE v \in Above(x) <=> v \in Above(y) \cup {y}
      <3>1. v \in Nat
        BY <1>1
      <3>2. v > x <=> (v > y \/ v = y)
        BY <1>5, <1>6, <3>1
      <3>3. QED
        BY <1>6, <3>2
    <2>2. y \notin Above(y)
      BY <1>6
    <2>3. QED
      BY <1>6, <2>1, <2>2
  <1>8. \A v \in listed : v > x => y <= v
    BY <1>5
  <1> HIDE DEF Above
  <1>9. Cardinality(Above(x)) = Cardinality(Above(y)) + 1
    BY <1>3, <1>7, FS_AddElement
  <1>10. QED
    BY <1>2, <1>6, <1>8, <1>9

\* A page of the gallery, and what is on none of the pages up to it.
LEMMA PageSpan ==
    ASSUME FListConstants, F!TypeOK, NEW offset \in Nat, NEW page, page = F!Page(offset)
    PROVE  /\ page \subseteq listed
           /\ Cardinality(page) \in Nat
           /\ \A x \in listed \ page :
                \/ F!Rank(x) < offset /\ \A y \in page : x > y
                \/ F!Rank(x) >= offset + Cardinality(page) /\ \A y \in page : x < y
           /\ page = {} => \A x \in listed : F!Rank(x) < offset
  <1>1. GalleryPage \in Nat \ {0} /\ (\A x \in listed : x \in Nat) /\ \A x : F!Rank(x) \in Nat
    BY FListParts, RankFalls DEF FListConstants
  <1>2. /\ page \subseteq listed
        /\ \A x \in listed : x \in page <=> F!Rank(x) \in offset..(offset + GalleryPage - 1)
    BY DEF F!Page
  <1>3. IsFiniteSet(page)
    <2>1. IsFiniteSet(1..published)
      BY FListParts, FS_Interval
    <2>2. QED
      BY <1>2, <2>1, FListParts, FS_Subset
  \* No two images of the page have one rank.
  <1>4. Cardinality(page) <= GalleryPage
    <2> DEFINE places == offset..(offset + GalleryPage - 1)
               f == [x \in page |-> F!Rank(x)]
    <2>1. IsFiniteSet(places) /\ Cardinality(places) = GalleryPage
      BY <1>1, FS_Interval
    <2>2. f \in [page -> places]
      BY <1>2
    <2>3. ASSUME NEW x \in page, NEW y \in page, x < y PROVE F!Rank(x) # F!Rank(y)
      <3>1. x \in listed /\ y \in listed /\ x \in Nat /\ y \in Nat
        BY <1>1, <1>2
      <3>2. F!Rank(x) > 0
        <4>1. y \in {v \in listed : v > x}
          BY <2>3, <3>1
        <4>2. F!Rank(x) = Cardinality({v \in listed : v > x})
          BY FCardinality DEF F!Rank
        <4>3. IsFiniteSet({v \in listed : v > x})
          <5>1. IsFiniteSet(1..published)
            BY FListParts, FS_Interval
          <5>2. {v \in listed : v > x} \in SUBSET (1..published)
            BY FListParts
          <5>3. QED
            BY <5>1, <5>2, FS_Subset
        <4>4. Cardinality({v \in listed : v > x}) # 0
          BY <4>1, <4>3, FS_EmptySet
        <4>5. QED
          BY <1>1, <4>2, <4>4
      <3>3. PICK z \in listed : z > x /\ F!Rank(x) = F!Rank(z) + 1 /\ \A v \in listed : v > x => z <= v
        BY <3>1, <3>2, RankNext
      <3>4. F!Rank(y) <= F!Rank(z)
        BY <1>1, <2>3, <3>1, <3>3, RankFalls
      <3>5. QED
        BY <1>1, <3>3, <3>4
    <2>4. \A x, y \in page : x # y => F!Rank(x) # F!Rank(y)
      <3>1. \A x, y \in page : x # y => x < y \/ y < x
        BY <1>1, <1>2
      <3>2. QED
        BY <2>3, <3>1
    <2>5. \A x, y \in page : x # y => f[x] # f[y]
      BY <2>4
    <2> HIDE DEF f, places
    <2>6. ~(Cardinality(places) < Cardinality(page))
      BY <1>3, <2>1, <2>2, <2>5, FS_PigeonHole
    <2>7. QED
      BY <1>1, <1>3, <2>1, <2>6, FS_CardinalityType
  <1>5. Cardinality(page) \in Nat
    BY <1>3, FS_CardinalityType
  <1>6. ASSUME NEW x \in listed \ page
        PROVE  \/ F!Rank(x) < offset /\ \A y \in page : x > y
               \/ F!Rank(x) >= offset + Cardinality(page) /\ \A y \in page : x < y
    <2>1. x \in Nat /\ F!Rank(x) \in Nat /\ \A y \in page : y \in Nat /\ F!Rank(y) \in Nat
      BY <1>1, <1>2
    <2>2. F!Rank(x) < offset \/ F!Rank(x) >= offset + GalleryPage
      BY <1>1, <1>2, <2>1
    <2>3. \A y \in page : offset <= F!Rank(y) /\ F!Rank(y) < offset + GalleryPage
      BY <1>1, <1>2
    <2>4. \A y \in page : x <= y => F!Rank(y) <= F!Rank(x)
      BY <2>1, RankFalls
    <2>5. \A y \in page : y <= x => F!Rank(x) <= F!Rank(y)
      BY <2>1, RankFalls
    <2>6. CASE F!Rank(x) < offset
      <3>1. \A y \in page : x > y
        BY <2>1, <2>3, <2>4, <2>6
      <3>2. QED
        BY <2>6, <3>1
    <2>7. CASE F!Rank(x) >= offset + GalleryPage
      <3>1. \A y \in page : x < y
        BY <1>1, <2>1, <2>3, <2>5, <2>7
      <3>2. QED
        BY <1>1, <1>4, <1>5, <2>1, <2>7, <3>1
    <2>8. QED
      BY <2>2, <2>6, <2>7
  <1>7. ASSUME page = {}, NEW z \in listed, F!Rank(z) >= offset PROVE FALSE
    <2> DEFINE Below == {x \in listed : F!Rank(x) >= offset}
    <2>1. Below \subseteq 0..published /\ z \in Below
      BY <1>7, FListParts
    <2>2. PICK m \in Below : \A x \in Below : x <= m
      <3> HIDE DEF Below
      <3>1. QED
        BY <2>1, FListParts, Greatest
    <2>3. m \in listed /\ F!Rank(m) >= offset /\ m \in Nat /\ F!Rank(m) \in Nat
      BY <1>1
    <2>4. F!Rank(m) >= offset + GalleryPage /\ F!Rank(m) > 0
      BY <1>1, <1>2, <1>7, <2>3
    <2>5. PICK y \in listed : y > m /\ F!Rank(m) = F!Rank(y) + 1
      BY <2>3, <2>4, RankNext
    <2>6. y \in Below
      BY <1>1, <2>4, <2>5
    <2>7. QED
      BY <1>1, <2>2, <2>3, <2>5, <2>6
  <1>8. QED
    BY <1>1, <1>2, <1>5, <1>6, <1>7

-----------------------------------------------------------------------------
(* What each step of a collector may count on of the others.                 *)

LEMMA SoundCollector ==
    ASSUME NEW c, NEW run, run = coll'[c], F!Sound(run)' PROVE F!Sound(coll[c])'
  BY DEF F!Sound

LEMMA SumGrows ==
    ASSUME NEW a \in Nat, NEW b \in Nat, NEW c \in Nat, NEW d \in Nat, NEW e \in Int,
           a <= c, b <= d, e <= a + b
    PROVE  e <= c + d
  OBVIOUS

\* More published, queued or taken over uncovers nothing.
LEMMA CoveredKept ==
    ASSUME FListConstants, F!TypeOK, F!TypeOK', published <= published', taken <= taken',
           \A x \in listed : files[x] = "queued" => files'[x] = "queued",
           \A x \in listed' : x \in listed \/ x > published,
           NEW id \in Int, F!Covered(id)
    PROVE  F!Covered(id)'
  <1>1. /\ published \in Nat /\ taken \in Nat /\ published' \in Nat /\ taken' \in Nat
        /\ \A x \in listed' : x \in Nat
    BY FListParts DEF F!TypeOK, FListConstants
  <1>2. id <= published + taken /\ \A x \in listed : x + taken <= id => files[x] = "queued"
    BY DEF F!Covered
  <1>3. id <= published' + taken'
    BY <1>1, <1>2, SumGrows
  <1>4. ASSUME NEW x \in listed', x + taken' <= id PROVE files'[x] = "queued"
    <2>1. x + taken <= id /\ ~(x > published)
      BY <1>1, <1>2, <1>4
    <2>2. x \in listed
      BY <2>1
    <2>3. QED
      BY <1>2, <2>1, <2>2
  <1>5. QED
    BY <1>3, <1>4 DEF F!Covered

\* A run taken over for the first time moves its id one up.
LEMMA CoveredRaised ==
    ASSUME FListConstants, F!TypeOK, UNCHANGED <<published, listed, files>>, taken' = taken + 1,
           NEW id \in Int, F!Covered(id)
    PROVE  F!Covered(id + 1)'
  <1>1. published \in Nat /\ taken \in Nat /\ \A x \in listed : x \in Nat
    BY FListParts
  <1>2. id <= published + taken /\ \A x \in listed : x + taken <= id => files[x] = "queued"
    BY DEF F!Covered
  <1>3. \A x \in listed : x + (taken + 1) <= id + 1 => x + taken <= id
    BY <1>1
  <1>4. id + 1 <= published + (taken + 1)
    BY <1>1, <1>2
  <1>5. QED
    BY <1>2, <1>3, <1>4 DEF F!Covered

LEMMA SoundKept ==
    ASSUME FListConstants, F!TypeOK, F!TypeOK', published <= published', taken <= taken',
           \A x \in listed : files[x] = "queued" => files'[x] = "queued",
           \A x \in listed' : x \in listed \/ x > published,
           NEW run \in F!Collecting, F!Sound(run),
           run.pc \in {"paging", "queueing"} => listed \subseteq listed'
    PROVE  F!Sound(run)'
  <1>1. /\ published \in Nat /\ published' \in Nat
        /\ (\A x \in listed : x \in Nat) /\ \A x \in listed' : x \in Nat
    BY FListParts DEF F!TypeOK, FListConstants
  <1>2. run.prev \in Nat /\ run.max \in Nat /\ run.offset \in Nat
    BY CollectingParts
  <1>3. F!Covered(run.prev)'
    <2>1. F!Covered(run.prev)
      BY DEF F!Sound
    <2>2. PICK id \in Int : id = run.prev
      BY <1>2
    <2>3. F!Covered(id)'
      BY <2>1, <2>2, CoveredKept
    <2>4. QED
      BY <2>2, <2>3 DEF F!Covered
  <1>4. ASSUME run.pc = "ending" PROVE F!Covered(run.max)'
    <2>1. F!Covered(run.max)
      BY <1>4 DEF F!Sound
    <2>2. PICK id \in Int : id = run.max
      BY <1>2
    <2>3. F!Covered(id)'
      BY <2>1, <2>2, CoveredKept
    <2>4. QED
      BY <2>2, <2>3 DEF F!Covered
  <1>5. ASSUME run.pc \in {"starting", "paging", "queueing"}
        PROVE  IF run.offset = 0 THEN run.max = run.prev
               ELSE run.pc # "starting" /\ run.max <= published'
    <2>1. IF run.offset = 0 THEN run.max = run.prev
          ELSE run.pc # "starting" /\ run.max <= published
      BY <1>5 DEF F!Sound
    <2>2. QED
      BY <1>1, <1>2, <2>1
  <1>6. ASSUME run.pc = "paging", NEW x \in listed', F!Rank(x)' < run.offset, x <= run.max
        PROVE  files'[x] = "queued"
    <2>1. run.offset # 0
      BY <1>2, <1>6, RankGrows
    <2>2. run.max <= published
      BY <1>6, <2>1 DEF F!Sound
    <2>3. x \in listed
      BY <1>1, <1>2, <1>6, <2>2
    <2>4. F!Rank(x) < run.offset
      <3>1. F!Rank(x)' \in Nat /\ F!Rank(x) <= F!Rank(x)' /\ F!Rank(x) \in Nat
        BY <1>6, RankGrows, RankFalls
      <3>2. QED
        BY <1>2, <1>6, <3>1
    <2>5. files[x] = "queued"
      BY <1>6, <2>3, <2>4 DEF F!Sound
    <2>6. QED
      BY <2>3, <2>5
  <1>7. ASSUME run.pc = "queueing"
        PROVE  /\ run.page # {} /\ run.page \subseteq 1..published'
               /\ \A x \in listed' \ run.page :
                   \/ /\ \A y \in run.page : x > y
                      /\ run.offset > 0 /\ x <= run.max => files'[x] = "queued"
                   \/ /\ \A y \in run.page : x < y
                      /\ F!Rank(x)' >= run.offset + F!Cardinality(run.page)
    <2>1. /\ run.page # {} /\ run.page \subseteq 1..published
          /\ \A x \in listed \ run.page :
               \/ /\ \A y \in run.page : x > y
                  /\ run.offset > 0 /\ x <= run.max => files[x] = "queued"
               \/ /\ \A y \in run.page : x < y
                  /\ F!Rank(x) >= run.offset + F!Cardinality(run.page)
      BY <1>7 DEF F!Sound
    <2>2. run.page \subseteq 1..published'
      BY <1>1, <2>1
    <2>3. F!Cardinality(run.page) \in Nat
      <3>1. IsFiniteSet(1..published)
        BY <1>1, FS_Interval
      <3>2. IsFiniteSet(run.page)
        BY <2>1, <3>1, FS_Subset
      <3>3. QED
        BY <3>2, FS_CardinalityType, FCardinality
    <2>4. ASSUME NEW x \in listed' \ run.page
          PROVE  \/ /\ \A y \in run.page : x > y
                    /\ run.offset > 0 /\ x <= run.max => files'[x] = "queued"
                 \/ /\ \A y \in run.page : x < y
                    /\ F!Rank(x)' >= run.offset + F!Cardinality(run.page)
      <3>1. CASE x \in listed /\ F!Rank(x) >= run.offset + F!Cardinality(run.page)
                 /\ \A y \in run.page : x < y
        <4>1. F!Rank(x)' \in Nat /\ F!Rank(x) <= F!Rank(x)' /\ F!Rank(x) \in Nat
          BY <1>7, RankGrows, RankFalls
        <4>2. F!Rank(x)' >= run.offset + F!Cardinality(run.page)
          BY <1>2, <2>3, <3>1, <4>1
        <4>3. QED
          BY <3>1, <4>2
      <3>2. CASE /\ x \in listed /\ \A y \in run.page : x > y
                 /\ (run.offset > 0 /\ x <= run.max => files[x] = "queued")
        BY <3>2
      <3>3. CASE x > published
        <4>1. \A y \in run.page : x > y
          BY <1>1, <2>1, <3>3
        <4>2. run.offset > 0 => run.max <= published
          BY <1>2, <1>7 DEF F!Sound
        <4>3. run.offset > 0 /\ x <= run.max => files'[x] = "queued"
          BY <1>1, <1>2, <3>3, <4>2
        <4>4. QED
          BY <4>1, <4>3
      <3>4. QED
        BY <2>1, <3>1, <3>2, <3>3
    <2>5. QED
      BY <2>1, <2>2, <2>4
  <1>8. QED
    BY <1>3, <1>4, <1>5, <1>6, <1>7 DEF F!Sound

LEMMA RowsKept ==
    ASSUME FListConstants, F!TypeOK, F!TypeOK', published <= published', taken <= taken',
           \A x \in listed : files[x] = "queued" => files'[x] = "queued",
           \A x \in listed' : x \in listed \/ x > published,
           F!RowInv, F!Covered(done)',
           \A j \in DOMAIN open' :
             \/ \E i \in DOMAIN open :
                  open'[j].start = open[i].start /\ open'[j].resumed = open[i].resumed
             \/ \E row \in F!Row, id \in Int : row = open'[j] /\ id = F!Ceiling(row) /\ F!Covered(id)'
    PROVE  F!RowInv'
  <1>1. ASSUME NEW j \in DOMAIN open' PROVE F!Covered(F!Ceiling(open[j]))'
    <2>1. ASSUME NEW i \in DOMAIN open,
                 open'[j].start = open[i].start, open'[j].resumed = open[i].resumed
          PROVE  F!Covered(F!Ceiling(open[j]))'
      <3>1. open[i] \in F!Row
        BY FListParts, LenProperties, ElementOfSeq
      <3>2. PICK id \in Int : id = F!Ceiling(open[i])
        BY <3>1, RowParts
      <3>3. F!Covered(id)
        BY <3>2 DEF F!RowInv
      <3>4. F!Covered(id)'
        BY <3>3, CoveredKept
      <3>5. id = IF open'[j].resumed THEN open'[j].start ELSE open'[j].start - 1
        BY <2>1, <3>2 DEF F!Ceiling
      <3>6. QED
        BY <3>4, <3>5 DEF F!Covered, F!Ceiling
    <2>2. ASSUME NEW row \in F!Row, NEW id \in Int, row = open'[j], id = F!Ceiling(row), F!Covered(id)'
          PROVE  F!Covered(F!Ceiling(open[j]))'
      <3>1. id = IF open'[j].resumed THEN open'[j].start ELSE open'[j].start - 1
        BY <2>2 DEF F!Ceiling
      <3>2. QED
        BY <2>2, <3>1 DEF F!Covered, F!Ceiling
    <2>3. QED
      BY <2>1, <2>2
  <1>2. QED
    BY <1>1 DEF F!RowInv

LEMMA DoneKept ==
    ASSUME FListConstants, F!TypeOK, F!TypeOK', published <= published', taken <= taken',
           \A x \in listed : files[x] = "queued" => files'[x] = "queued",
           \A x \in listed' : x \in listed \/ x > published,
           F!RowInv, done' = done
    PROVE  F!Covered(done)'
  <1>1. PICK id \in Int : id = done
    BY FListParts
  <1>2. F!Covered(id)
    BY <1>1 DEF F!RowInv
  <1>3. F!Covered(id)'
    BY <1>2, CoveredKept
  <1>4. QED
    BY <1>1, <1>3 DEF F!Covered

\* A step that moves no collector.
LEMMA GalleryStep ==
    ASSUME FListConstants, F!IInv, F!TypeOK', published <= published', taken <= taken',
           shifted => shifted', refused => refused',
           \A x \in listed : files[x] = "queued" => files'[x] = "queued",
           \A x \in listed' : x \in listed \/ x > published,
           UNCHANGED <<coll, done>>,
           \A j \in DOMAIN open' : \E i \in DOMAIN open :
                open'[j].start = open[i].start /\ open'[j].resumed = open[i].resumed,
           \A c \in Worker : F!Exact' /\ coll[c].pc \in {"paging", "queueing"} => listed \subseteq listed'
    PROVE  F!IInv'
  <1>1. F!TypeOK
    BY DEF F!IInv
  <1>2. SUFFICES ASSUME F!Exact' PROVE F!RowInv' /\ \A c \in Worker : F!Sound(coll[c])'
    BY DEF F!IInv
  <1>3. F!RowInv /\ \A c \in Worker : F!Sound(coll[c])
    <2>1. F!Exact
      BY <1>1, <1>2 DEF F!Exact, F!TypeOK
    <2>2. QED
      BY <2>1 DEF F!IInv
  <1>4. F!RowInv'
    BY <1>1, <1>3, DoneKept, RowsKept
  <1>5. ASSUME NEW c \in Worker PROVE F!Sound(coll[c])'
    <2>1. PICK run \in F!Collecting : run = coll[c]
      BY <1>1, FListParts
    <2>2. F!Sound(run) /\ (run.pc \in {"paging", "queueing"} => listed \subseteq listed')
      BY <1>2, <1>3, <2>1
    <2>3. F!Sound(run)' /\ run = coll'[c]
      BY <1>1, <2>1, <2>2, SoundKept
    <2>4. QED
      BY <2>3, SoundCollector
  <1>6. QED
    BY <1>4, <1>5

\* A step of one collector.
LEMMA CollectorStep ==
    ASSUME FListConstants, F!IInv, F!TypeOK', taken <= taken',
           UNCHANGED <<published, listed, shifted>>, refused => refused',
           \A x \in listed : files[x] = "queued" => files'[x] = "queued",
           NEW c \in Worker, NEW r \in F!Collecting, coll' = [coll EXCEPT ![c] = r],
           F!Exact' => F!RowInv' /\ F!Sound(r)'
    PROVE  F!IInv'
  <1>1. F!TypeOK
    BY DEF F!IInv
  <1>2. SUFFICES ASSUME F!Exact' PROVE F!RowInv' /\ \A d \in Worker : F!Sound(coll[d])'
    BY DEF F!IInv
  <1>3. F!RowInv /\ \A d \in Worker : F!Sound(coll[d])
    <2>1. F!Exact
      BY <1>1, <1>2 DEF F!Exact, F!TypeOK
    <2>2. QED
      BY <2>1 DEF F!IInv
  <1>4. coll'[c] = r /\ \A d \in Worker : d # c => coll'[d] = coll[d]
    BY <1>1, FListParts
  <1>5. ASSUME NEW d \in Worker PROVE F!Sound(coll[d])'
    <2>1. CASE d = c
      BY <1>2, <1>4, <2>1, SoundCollector
    <2>2. CASE d # c
      <3>1. PICK run \in F!Collecting : run = coll[d]
        BY <1>1, FListParts
      <3>2. F!Sound(run) /\ listed \subseteq listed'
        BY <1>3, <3>1
      <3>3. published <= published' /\ \A x \in listed' : x \in listed \/ x > published
        BY <1>1, FListParts
      <3>4. F!Sound(run)' /\ run = coll'[d]
        BY <1>1, <1>4, <2>2, <3>1, <3>2, <3>3, SoundKept
      <3>5. QED
        BY <3>4, SoundCollector
    <2>3. QED
      BY <2>1, <2>2
  <1>6. QED
    BY <1>2, <1>5

\* The rows, when a collector's step changes none of them nor the last id.
LEMMA RowsRest ==
    ASSUME FListConstants, F!IInv, F!TypeOK', taken <= taken',
           UNCHANGED <<published, listed, shifted, open, done>>, refused => refused',
           \A x \in listed : files[x] = "queued" => files'[x] = "queued", F!Exact'
    PROVE  F!Exact /\ F!RowInv /\ F!RowInv'
  <1>1. F!TypeOK
    BY DEF F!IInv
  <1>2. F!Exact
    BY <1>1 DEF F!Exact, F!TypeOK
  <1>3. F!RowInv
    BY <1>2 DEF F!IInv
  <1>4. published <= published' /\ \A x \in listed' : x \in listed \/ x > published
    BY <1>1, FListParts
  <1>5. F!Covered(done)'
    BY <1>1, <1>3, <1>4, DoneKept
  <1>6. F!RowInv'
    BY <1>1, <1>3, <1>4, <1>5, RowsKept
  <1>7. QED
    BY <1>2, <1>3, <1>6

LEMMA Without ==
    ASSUME NEW S, NEW s \in Seq(S), NEW i \in DOMAIN s
    PROVE  /\ F!RemoveAt(s, i) \in Seq(S)
           /\ \A j \in DOMAIN F!RemoveAt(s, i) : \E k \in DOMAIN s : F!RemoveAt(s, i)[j] = s[k]
  <1>1. Len(s) \in Nat /\ DOMAIN s = 1..Len(s) /\ \A k \in 1..Len(s) : s[k] \in S
    BY LenProperties, ElementOfSeq
  <1>2. i \in Nat /\ 1 <= i /\ i <= Len(s)
    BY <1>1
  <1> DEFINE a == SubSeq(s, 1, i - 1)
             b == SubSeq(s, i + 1, Len(s))
  <1>3. /\ a \in Seq(S) /\ Len(a) = i - 1 /\ \A j \in 1..(i - 1) : a[j] = s[j]
    <2>1. \A k \in 1..(i - 1) : s[k] \in S
      BY <1>1, <1>2
    <2>2. /\ a \in Seq(S) /\ Len(a) = IF 1 <= i - 1 THEN (i - 1) - 1 + 1 ELSE 0
          /\ \A j \in 1..((i - 1) - 1 + 1) : a[j] = s[1 + j - 1]
      BY <1>2, <2>1, SubSeqProperties
    <2>3. QED
      BY <1>2, <2>2
  <1>4. /\ b \in Seq(S) /\ Len(b) = Len(s) - i /\ \A j \in 1..(Len(s) - i) : b[j] = s[i + j]
    <2>1. \A k \in (i + 1)..Len(s) : s[k] \in S
      BY <1>1, <1>2
    <2>2. /\ b \in Seq(S) /\ Len(b) = IF i + 1 <= Len(s) THEN Len(s) - (i + 1) + 1 ELSE 0
          /\ \A j \in 1..(Len(s) - (i + 1) + 1) : b[j] = s[(i + 1) + j - 1]
      BY <1>1, <1>2, <2>1, SubSeqProperties
    <2>3. QED
      BY <1>1, <1>2, <2>2
  <1>5. F!RemoveAt(s, i) = a \o b
    BY DEF F!RemoveAt
  <1> HIDE DEF a, b
  <1>6. /\ a \o b \in Seq(S) /\ Len(a \o b) = Len(a) + Len(b)
        /\ \A j \in 1..(Len(a) + Len(b)) :
             (a \o b)[j] = IF j <= Len(a) THEN a[j] ELSE b[j - Len(a)]
    BY <1>3, <1>4, ConcatProperties
  <1>7. ASSUME NEW j \in DOMAIN (a \o b) PROVE \E k \in DOMAIN s : (a \o b)[j] = s[k]
    <2>1. j \in 1..(Len(s) - 1) /\ j \in 1..(Len(a) + Len(b))
      BY <1>1, <1>2, <1>3, <1>4, <1>6, LenProperties
    <2>2. CASE j <= i - 1
      BY <1>1, <1>2, <1>3, <1>6, <2>1, <2>2
    <2>3. CASE j > i - 1
      <3>1. j - (i - 1) \in 1..(Len(s) - i)
        BY <1>1, <1>2, <2>1, <2>3
      <3>2. (a \o b)[j] = s[j + 1] /\ j + 1 \in DOMAIN s
        <4>1. (a \o b)[j] = b[j - (i - 1)]
          BY <1>2, <1>3, <1>6, <2>1, <2>3
        <4>2. b[j - (i - 1)] = s[j + 1]
          <5>1. PICK k \in 1..(Len(s) - i) : k = j - (i - 1)
            BY <3>1
          <5>2. b[k] = s[i + k]
            BY <1>4
          <5>3. i + k = j + 1
            BY <1>2, <2>1, <5>1
          <5>4. QED
            BY <5>1, <5>2, <5>3
        <4>3. QED
          BY <1>1, <2>1, <4>1, <4>2
      <3>3. QED
        BY <3>2
    <2>4. QED
      BY <1>2, <2>1, <2>2, <2>3
  <1>8. QED
    BY <1>5, <1>6, <1>7

-----------------------------------------------------------------------------
(* The steps of the gallery and of the clock.                                *)

LEMMA FListPublish == ASSUME FListConstants, F!IInv, F!Publish PROVE F!IInv'
  <1>1. F!TypeOK
    BY DEF F!IInv
  <1>2. /\ published' = published + 1 /\ published' <= LastImage
        /\ listed' = listed \cup {published + 1}
        /\ UNCHANGED <<files, open, done, gone, coll, runFaults, shifted, refused, taken>>
    BY <1>1, FListParts DEF F!Publish, F!runs, F!history
  <1>3. published' \in 0..LastImage /\ listed' \subseteq 1..published'
    BY <1>1, <1>2, FListParts
  <1>4. F!TypeOK'
    BY <1>1, <1>2, <1>3 DEF F!TypeOK
  <1>5. /\ published <= published' /\ taken <= taken' /\ (shifted => shifted') /\ (refused => refused')
        /\ \A x \in listed' : x \in listed \/ x > published
        /\ listed \subseteq listed'
    BY <1>1, <1>2, FListParts
  <1>6. /\ \A x \in listed : files[x] = "queued" => files'[x] = "queued"
        /\ \A j \in DOMAIN open' : \E i \in DOMAIN open :
             open'[j].start = open[i].start /\ open'[j].resumed = open[i].resumed
    BY <1>2
  <1>7. QED
    BY <1>2, <1>4, <1>5, <1>6, GalleryStep

LEMMA FListWithdraw == ASSUME FListConstants, F!IInv, F!Withdraw PROVE F!IInv'
  <1>1. F!TypeOK
    BY DEF F!IInv
  <1>2. /\ listed' \subseteq listed /\ runFaults' \in 0..MaxRunFault
        /\ shifted' = (shifted \/ \E c \in Worker : coll[c].pc \in {"paging", "queueing"})
        /\ UNCHANGED <<published, files, open, done, gone, coll, taken, refused>>
    BY <1>1, FListParts DEF F!Withdraw, F!Fault, F!runs
  <1>3. shifted' \in BOOLEAN
    BY <1>2
  <1>4. F!TypeOK'
    BY <1>1, <1>2, <1>3 DEF F!TypeOK
  <1>5. /\ published <= published' /\ taken <= taken'
        /\ \A x \in listed' : x \in listed \/ x > published
    BY <1>1, <1>2, FListParts
  <1>6. /\ \A x \in listed : files[x] = "queued" => files'[x] = "queued"
        /\ \A j \in DOMAIN open' : \E i \in DOMAIN open :
             open'[j].start = open[i].start /\ open'[j].resumed = open[i].resumed
    BY <1>2
  <1>7. /\ (shifted => shifted') /\ (refused => refused')
        /\ \A c \in Worker : F!Exact' /\ coll[c].pc \in {"paging", "queueing"} => listed \subseteq listed'
    BY <1>2 DEF F!Exact
  <1>8. QED
    BY <1>2, <1>4, <1>5, <1>6, <1>7, GalleryStep

\* A step that changes only rows, and not what they are taken over from.
LEMMA RowStep ==
    ASSUME FListConstants, F!IInv, UNCHANGED <<published, listed, files, done, coll, shifted, refused, taken>>,
           open' \in Seq(F!Row), gone' \subseteq RunId, runFaults' \in 0..MaxRunFault,
           \A j \in DOMAIN open' : \E i \in DOMAIN open :
             open'[j].start = open[i].start /\ open'[j].resumed = open[i].resumed
    PROVE  F!IInv'
  <1>1. F!TypeOK
    BY DEF F!IInv
  <1>2. F!TypeOK'
    BY <1>1 DEF F!TypeOK
  <1>3. /\ published <= published' /\ taken <= taken' /\ (shifted => shifted') /\ (refused => refused')
        /\ (\A x \in listed : files[x] = "queued" => files'[x] = "queued")
        /\ \A x \in listed' : x \in listed \/ x > published
    BY <1>1, FListParts
  <1>4. \A c \in Worker : F!Exact' /\ coll[c].pc \in {"paging", "queueing"} => listed \subseteq listed'
    OBVIOUS
  <1>5. QED
    BY <1>2, <1>3, <1>4, GalleryStep

LEMMA FListAge == ASSUME FListConstants, F!IInv, F!Age PROVE F!IInv'
  <1>1. F!TypeOK
    BY DEF F!IInv
  <1>2. PICK i \in DOMAIN open :
          /\ open' = [open EXCEPT ![i].old = TRUE]
          /\ runFaults' = runFaults \/ F!Fault
    BY DEF F!Age
  <1>3. UNCHANGED <<published, listed, files, done, coll, shifted, refused, taken, gone>>
    BY DEF F!Age, F!gallery, F!history
  <1>4. runFaults' \in 0..MaxRunFault
    BY <1>1, <1>2, FListParts DEF F!Fault
  <1>5. open \in Seq(F!Row) /\ DOMAIN open = 1..Len(open) /\ i \in 1..Len(open)
    BY <1>1, FListParts, LenProperties
  <1>6. PICK row \in F!Row : row = open[i]
    BY <1>5, ElementOfSeq
  <1>7. PICK aged : aged = [row EXCEPT !.old = TRUE]
    OBVIOUS
  <1>8. aged \in F!Row /\ aged.start = row.start /\ aged.resumed = row.resumed
    BY <1>7 DEF F!Row
  <1>9. open' = [open EXCEPT ![i] = aged]
    BY <1>2, <1>6, <1>7
  <1>10. /\ open' \in Seq(F!Row) /\ Len(open') = Len(open)
         /\ \A j \in 1..Len(open) : open'[j] = IF j = i THEN aged ELSE open[j]
    BY <1>5, <1>8, <1>9, ExceptSeq
  <1>11. ASSUME NEW j \in DOMAIN open'
         PROVE  \E k \in DOMAIN open : open'[j].start = open[k].start /\ open'[j].resumed = open[k].resumed
    <2>1. j \in DOMAIN open
      BY <1>5, <1>10, LenProperties
    <2>2. open'[j].start = open[j].start /\ open'[j].resumed = open[j].resumed
      BY <1>5, <1>6, <1>8, <1>10, <2>1
    <2>3. QED
      BY <2>1, <2>2
  <1>12. gone' \subseteq RunId
    BY <1>1, <1>3, FListParts
  <1>13. QED
    BY <1>3, <1>4, <1>10, <1>11, <1>12, RowStep

LEMMA FListAbort == ASSUME FListConstants, F!IInv, F!Abort PROVE F!IInv'
  <1>1. F!TypeOK
    BY DEF F!IInv
  <1>2. PICK i \in DOMAIN open : open' = F!RemoveAt(open, i) /\ gone' = gone \cup {open[i].run}
    BY DEF F!Abort
  <1>3. UNCHANGED <<published, listed, files, done, coll, shifted, refused, taken>>
    BY DEF F!Abort, F!gallery, F!history
  <1>4. runFaults' \in 0..MaxRunFault
    BY <1>1, FListParts DEF F!Fault, F!Abort
  <1>5. /\ open' \in Seq(F!Row)
        /\ \A j \in DOMAIN open' : \E k \in DOMAIN open : open'[j] = open[k]
    BY <1>1, <1>2, FListParts, Without
  <1>6. open[i] \in F!Row
    BY <1>1, FListParts, LenProperties, ElementOfSeq
  <1>7. gone' \subseteq RunId
    BY <1>1, <1>2, <1>6, FListParts, RowParts
  <1>8. \A j \in DOMAIN open' : \E k \in DOMAIN open :
          open'[j].start = open[k].start /\ open'[j].resumed = open[k].resumed
    BY <1>5
  <1>9. QED
    BY <1>3, <1>4, <1>5, <1>7, <1>8, RowStep

LEMMA FListRests == ASSUME FListConstants, F!IInv, UNCHANGED F!vars PROVE F!IInv'
  <1>1. UNCHANGED <<published, listed, files, done, coll, shifted, refused, taken, open, gone, runFaults>>
    BY DEF F!vars, F!gallery, F!runs, F!history
  <1>2. /\ open' \in Seq(F!Row) /\ gone' \subseteq RunId /\ runFaults' \in 0..MaxRunFault
    BY <1>1, FListParts DEF F!IInv
  <1>3. \A j \in DOMAIN open' : \E k \in DOMAIN open :
          open'[j].start = open[k].start /\ open'[j].resumed = open[k].resumed
    BY <1>1
  <1>4. QED
    BY <1>1, <1>2, <1>3, RowStep

-----------------------------------------------------------------------------
(* The steps of a collector.                                                 *)

LEMMA FListResume == ASSUME FListConstants, F!IInv, NEW c \in Worker, F!Resume(c) PROVE F!IInv'
  <1>1. F!TypeOK
    BY DEF F!IInv
  <1>2. PICK n : n = Len(open)
    OBVIOUS
  <1>3. open \in Seq(F!Row) /\ DOMAIN open = 1..Len(open) /\ n \in 1..Len(open)
    <2>1. open # <<>>
      BY DEF F!Resume
    <2>2. QED
      BY <1>1, <1>2, <2>1, FListParts, LenProperties, EmptySeq
  <1>4. PICK row \in F!Row : row = open[n]
    BY <1>3, ElementOfSeq
  <1>5. F!LatestOpen = row
    BY <1>2, <1>4 DEF F!LatestOpen, F!Last
  <1>6. PICK start \in Nat : start = row.start
    BY RowParts
  <1>7. PICK r : r = [F!Idle EXCEPT !.pc = "paging", !.run = row.run, !.prev = start, !.max = start]
    OBVIOUS
  <1>8. /\ r \in F!Collecting /\ r.pc = "paging" /\ r.prev = start /\ r.max = start /\ r.offset = 0
    BY <1>7, FIdle, RowParts DEF F!Collecting
  <1>9. PICK over : over = [row EXCEPT !.resumed = TRUE]
    OBVIOUS
  <1>10. over \in F!Row /\ over.start = start /\ over.resumed = TRUE
    BY <1>6, <1>9 DEF F!Row
  <1>11. /\ coll' = [coll EXCEPT ![c] = r] /\ open' = [open EXCEPT ![n] = over]
         /\ taken' = IF row.resumed THEN taken ELSE taken + 1
         /\ UNCHANGED <<published, listed, files, done, gone, runFaults, shifted, refused>>
    BY <1>2, <1>4, <1>5, <1>6, <1>7, <1>9 DEF F!Resume, F!gallery
  <1>12. /\ open' \in Seq(F!Row) /\ Len(open') = Len(open)
         /\ \A j \in 1..Len(open) : open'[j] = IF j = n THEN over ELSE open[j]
    BY <1>3, <1>10, <1>11, ExceptSeq
  <1>13. taken' \in Nat /\ taken <= taken' /\ taken \in Nat /\ coll' \in [Worker -> F!Collecting]
    BY <1>1, <1>8, <1>11, FListParts
  <1>14. F!TypeOK'
    BY <1>1, <1>11, <1>12, <1>13 DEF F!TypeOK
  <1>15. ASSUME F!Exact' PROVE F!RowInv' /\ F!Sound(r)'
    <2>1. F!Exact /\ F!RowInv
      BY <1>1, <1>11, <1>13, <1>15 DEF F!Exact, F!TypeOK, F!IInv
    <2>2. /\ published <= published' /\ \A x \in listed : files[x] = "queued" => files'[x] = "queued"
          /\ \A x \in listed' : x \in listed \/ x > published
      BY <1>1, <1>11, FListParts
    <2>3. F!Covered(start)'
      <3>1. CASE row.resumed
        <4>1. F!Covered(F!Ceiling(open[n]))
          BY <1>3, <2>1 DEF F!RowInv
        <4>2. F!Ceiling(open[n]) = start
          BY <1>4, <1>6, <3>1 DEF F!Ceiling
        <4>3. F!Covered(start)
          BY <4>1, <4>2
        <4>4. QED
          BY <1>1, <1>13, <1>14, <2>2, <4>3, CoveredKept
      <3>2. CASE ~row.resumed
        <4>1. F!Covered(F!Ceiling(open[n]))
          BY <1>3, <2>1 DEF F!RowInv
        <4>2. PICK id \in Int : id = start - 1
          OBVIOUS
        <4>3. F!Ceiling(open[n]) = id
          BY <1>4, <1>6, <3>2, <4>2 DEF F!Ceiling
        <4>4. F!Covered(id) /\ taken' = taken + 1
          BY <1>11, <3>2, <4>1, <4>3
        <4>5. F!Covered(id + 1)'
          BY <1>1, <1>11, <4>4, CoveredRaised
        <4>6. id + 1 = start
          BY <4>2
        <4>7. QED
          BY <4>5, <4>6 DEF F!Covered
      <3>3. QED
        BY <3>1, <3>2
    <2>4. F!Covered(done)'
      BY <1>1, <1>11, <1>13, <1>14, <2>1, <2>2, DoneKept
    <2>5. ASSUME NEW j \in DOMAIN open'
          PROVE  \/ \E i \in DOMAIN open :
                      open'[j].start = open[i].start /\ open'[j].resumed = open[i].resumed
                 \/ \E w \in F!Row, id \in Int : w = open'[j] /\ id = F!Ceiling(w) /\ F!Covered(id)'
      <3>1. j \in 1..Len(open) /\ j \in DOMAIN open
        BY <1>3, <1>12, LenProperties
      <3>2. CASE j = n
        <4>1. open'[j] = over /\ F!Ceiling(over) = start
          BY <1>10, <1>12, <3>1, <3>2 DEF F!Ceiling
        <4>2. QED
          BY <1>10, <2>3, <4>1
      <3>3. CASE j # n
        BY <1>12, <3>1, <3>3
      <3>4. QED
        BY <3>2, <3>3
    <2>6. F!RowInv'
      BY <1>1, <1>13, <1>14, <2>1, <2>2, <2>4, <2>5, RowsKept
    <2>7. F!Sound(r)'
      <3>1. F!Covered(r.prev)'
        BY <1>8, <2>3 DEF F!Covered
      <3>2. \A x \in listed' : ~(F!Rank(x)' < r.offset)
        <4>1. \A x : F!Rank(x)' \in Nat
          BY <1>1, <1>11, <1>14, RankGrows
        <4>2. QED
          BY <1>8, <4>1
      <3>3. QED
        BY <1>8, <3>1, <3>2 DEF F!Sound
    <2>8. QED
      BY <2>6, <2>7
  <1>16. QED
    <2>1. \A x \in listed : files[x] = "queued" => files'[x] = "queued"
      BY <1>11
    <2>2. QED
      BY <1>8, <1>11, <1>13, <1>14, <1>15, <2>1, CollectorStep

\* A step of one collector that leaves the runs' rows alone.
LEMMA RowlessStep ==
    ASSUME FListConstants, F!IInv, UNCHANGED <<published, listed, shifted, taken, open, done, gone>>,
           refused' \in BOOLEAN, refused => refused',
           files' \in [F!Image -> {"unknown", "found", "queued"}], runFaults' \in 0..MaxRunFault,
           \A x \in listed : files[x] = "queued" => files'[x] = "queued",
           NEW c \in Worker, NEW r \in F!Collecting, coll' = [coll EXCEPT ![c] = r],
           F!TypeOK' /\ F!Exact' /\ F!Exact /\ F!RowInv => F!Sound(r)'
    PROVE  F!IInv'
  <1>1. F!TypeOK /\ taken \in Nat
    BY FListParts DEF F!IInv
  <1>2. coll' \in [Worker -> F!Collecting]
    BY <1>1, FListParts
  <1>3. F!TypeOK'
    BY <1>1, <1>2 DEF F!TypeOK
  <1>4. taken <= taken'
    BY <1>1
  <1>5. ASSUME F!Exact' PROVE F!RowInv' /\ F!Sound(r)'
    BY <1>3, <1>4, <1>5, RowsRest
  <1>6. QED
    BY <1>3, <1>4, <1>5, CollectorStep

\* The collector of a step, and what is sound about it.
LEMMA AtWork ==
    ASSUME FListConstants, F!IInv, NEW c \in Worker
    PROVE  \E run \in F!Collecting : run = coll[c] /\ (F!Exact => F!RowInv /\ F!Sound(run))
  <1>1. PICK run \in F!Collecting : run = coll[c]
    BY FListParts DEF F!IInv
  <1>2. F!Exact => F!RowInv /\ F!Sound(run)
    BY <1>1 DEF F!IInv
  <1>3. QED
    BY <1>1, <1>2

LEMMA FListContinue == ASSUME FListConstants, F!IInv, NEW c \in Worker, F!Continue(c) PROVE F!IInv'
  <1>1. F!TypeOK /\ done \in Nat
    BY FListParts DEF F!IInv
  <1>2. PICK id \in Nat : id = done
    BY <1>1
  <1>3. PICK r : r = [F!Idle EXCEPT !.pc = "starting", !.prev = id, !.max = id]
    OBVIOUS
  <1>4. /\ r \in F!Collecting /\ r.pc = "starting" /\ r.prev = id /\ r.max = id /\ r.offset = 0
    BY <1>3, FIdle DEF F!Collecting
  <1>5. /\ coll' = [coll EXCEPT ![c] = r]
        /\ UNCHANGED <<published, listed, files, open, done, gone, runFaults, shifted, refused, taken>>
    BY <1>2, <1>3 DEF F!Continue, F!gallery, F!runs, F!history
  <1>6. /\ files' \in [F!Image -> {"unknown", "found", "queued"}] /\ runFaults' \in 0..MaxRunFault
        /\ \A x \in listed : files[x] = "queued" => files'[x] = "queued"
        /\ refused' \in BOOLEAN /\ (refused => refused')
    BY <1>1, <1>5, FListParts
  <1>7. ASSUME F!RowInv PROVE F!Sound(r)'
    <2>1. F!Covered(done)
      BY <1>7 DEF F!RowInv
    <2>2. F!Covered(r.prev)'
      BY <1>2, <1>4, <1>5, <2>1 DEF F!Covered
    <2>3. QED
      BY <1>4, <2>2 DEF F!Sound
  <1>8. QED
    BY <1>4, <1>5, <1>6, <1>7, RowlessStep

LEMMA FListStart == ASSUME FListConstants, F!IInv, NEW c \in Worker, F!Start(c) PROVE F!IInv'
  <1>1. F!TypeOK
    BY DEF F!IInv
  <1>2. PICK run \in F!Collecting : run = coll[c] /\ (F!Exact => F!RowInv /\ F!Sound(run))
    BY AtWork
  <1>3. run.pc = "starting" /\ run.prev \in Nat /\ run.max \in Nat /\ run.offset \in Nat
    BY <1>2, CollectingParts DEF F!Start
  <1>4. PICK q \in RunId :
          /\ open' = Append(open, [run |-> q, start |-> run.prev + 1, old |-> FALSE, resumed |-> FALSE])
          /\ gone' = gone \ {q}
          /\ coll' = [coll EXCEPT ![c].pc = "paging", ![c].run = q]
    BY <1>2 DEF F!Start
  <1>5. UNCHANGED <<published, listed, files, done, runFaults, shifted, refused, taken>>
    BY DEF F!Start, F!gallery, F!history
  <1>6. PICK row : row = [run |-> q, start |-> run.prev + 1, old |-> FALSE, resumed |-> FALSE]
    OBVIOUS
  <1>7. row \in F!Row /\ F!Ceiling(row) = run.prev
    BY <1>3, <1>6 DEF F!Row, F!Ceiling
  <1>8. PICK r : r = [run EXCEPT !.pc = "paging", !.run = q]
    OBVIOUS
  <1>9. /\ r \in F!Collecting /\ r.pc = "paging" /\ r.prev = run.prev /\ r.max = run.max
        /\ r.offset = run.offset
    BY <1>8 DEF F!Collecting
  <1>10. coll' = [coll EXCEPT ![c] = r]
    BY <1>2, <1>4, <1>8
  <1>11. /\ open \in Seq(F!Row) /\ open' \in Seq(F!Row) /\ Len(open) \in Nat
         /\ DOMAIN open = 1..Len(open) /\ DOMAIN open' = 1..(Len(open) + 1)
         /\ open'[Len(open) + 1] = row /\ \A j \in 1..Len(open) : open'[j] = open[j]
    <2>1. open \in Seq(F!Row) /\ open' = Append(open, row)
      BY <1>1, <1>4, <1>6, FListParts
    <2>2. Len(open) \in Nat /\ DOMAIN open = 1..Len(open)
      BY <2>1, LenProperties
    <2>3. open' \in Seq(F!Row) /\ Len(open') = Len(open) + 1
      BY <1>7, <2>1, <2>2
    <2>4. DOMAIN open' = 1..(Len(open) + 1)
      BY <2>3, LenProperties
    <2>5. open'[Len(open) + 1] = row /\ \A j \in 1..Len(open) : open'[j] = open[j]
      BY <1>7, <2>1, <2>2
    <2>6. QED
      BY <2>1, <2>2, <2>3, <2>4, <2>5
  <1>12. coll' \in [Worker -> F!Collecting] /\ gone' \subseteq RunId
    BY <1>1, <1>4, <1>9, <1>10, FListParts
  <1>13. F!TypeOK'
    BY <1>1, <1>5, <1>11, <1>12 DEF F!TypeOK
  <1>14. /\ taken <= taken' /\ published <= published'
         /\ (\A x \in listed : files[x] = "queued" => files'[x] = "queued")
         /\ \A x \in listed' : x \in listed \/ x > published
    BY <1>1, <1>5, FListParts
  <1>15. ASSUME F!Exact' PROVE F!RowInv' /\ F!Sound(r)'
    <2>1. F!RowInv /\ F!Sound(run)
      BY <1>2, <1>5, <1>15 DEF F!Exact
    <2>2. F!Covered(run.prev) /\ run.offset = 0 /\ run.max = run.prev
      BY <1>3, <2>1 DEF F!Sound
    <2>3. \A x : F!Rank(x)' \in Nat
      BY <1>1, <1>5, <1>13, RankGrows
    <2>4. PICK id \in Int : id = run.prev
      BY <1>3
    <2>5. F!Covered(id)'
      BY <1>1, <1>13, <1>14, <2>2, <2>4, CoveredKept
    <2>6. F!Covered(done)'
      BY <1>1, <1>5, <1>13, <1>14, <2>1, DoneKept
    <2>7. ASSUME NEW j \in DOMAIN open'
          PROVE  \/ \E i \in DOMAIN open :
                      open'[j].start = open[i].start /\ open'[j].resumed = open[i].resumed
                 \/ \E w \in F!Row, i \in Int : w = open'[j] /\ i = F!Ceiling(w) /\ F!Covered(i)'
      <3>1. CASE j \in 1..Len(open)
        BY <1>11, <3>1
      <3>2. CASE j = Len(open) + 1
        BY <1>7, <1>11, <2>4, <2>5, <3>2
      <3>3. QED
        BY <1>11, <3>1, <3>2
    <2>8. F!RowInv'
      BY <1>1, <1>13, <1>14, <2>1, <2>6, <2>7, RowsKept
    <2>9. F!Sound(r)'
      <3>1. F!Covered(r.prev)'
        BY <1>9, <2>4, <2>5 DEF F!Covered
      <3>2. r.offset = 0 /\ r.max = r.prev /\ \A x \in listed' : ~(F!Rank(x)' < r.offset)
        BY <1>9, <2>2, <2>3
      <3>3. QED
        BY <1>9, <3>1, <3>2 DEF F!Sound
    <2>10. QED
      BY <2>8, <2>9
  <1>16. QED
    BY <1>5, <1>9, <1>10, <1>13, <1>14, <1>15, CollectorStep

LEMMA FListLoadPage == ASSUME FListConstants, F!IInv, NEW c \in Worker, F!LoadPage(c) PROVE F!IInv'
  <1>1. F!TypeOK
    BY DEF F!IInv
  <1>2. PICK run \in F!Collecting : run = coll[c] /\ (F!Exact => F!RowInv /\ F!Sound(run))
    BY AtWork
  <1>3. run.pc = "paging" /\ run.prev \in Nat /\ run.max \in Nat /\ run.offset \in Nat
    BY <1>2, CollectingParts DEF F!LoadPage
  <1>4. PICK page : page = F!Page(run.offset)
    OBVIOUS
  <1>5. PICK pc : pc = IF page = {} THEN "ending" ELSE "queueing"
    OBVIOUS
  <1>6. PICK r : r = [run EXCEPT !.pc = pc, !.page = page]
    OBVIOUS
  <1>7. /\ page \subseteq listed /\ Cardinality(page) \in Nat
        /\ \A x \in listed \ page :
             \/ F!Rank(x) < run.offset /\ \A y \in page : x > y
             \/ F!Rank(x) >= run.offset + Cardinality(page) /\ \A y \in page : x < y
        /\ page = {} => \A x \in listed : F!Rank(x) < run.offset
    BY <1>1, <1>3, <1>4, PageSpan
  <1>8. page \subseteq F!Image
    BY <1>1, <1>7, FListParts
  <1>9. /\ r \in F!Collecting /\ r.pc = pc /\ r.prev = run.prev /\ r.max = run.max
        /\ r.offset = run.offset /\ r.page = page
    BY <1>5, <1>6, <1>8 DEF F!Collecting
  <1>10. /\ coll' = [coll EXCEPT ![c] = r]
         /\ files' = [x \in F!Image |-> IF x \in page /\ files[x] = "unknown" THEN "found" ELSE files[x]]
         /\ UNCHANGED <<published, listed, open, done, gone, runFaults, shifted, refused, taken>>
    <2>1. coll' = [coll EXCEPT ![c].pc = IF page = {} THEN "ending" ELSE "queueing", ![c].page = page]
      BY <1>2, <1>4 DEF F!LoadPage
    <2>2. coll' = [coll EXCEPT ![c] = r]
      BY <1>2, <1>5, <1>6, <2>1
    <2>3. QED
      BY <1>2, <1>4, <2>2 DEF F!LoadPage, F!gallery, F!runs, F!history
  <1>11. /\ files' \in [F!Image -> {"unknown", "found", "queued"}] /\ runFaults' \in 0..MaxRunFault
         /\ \A x \in listed : files[x] = "queued" => files'[x] = "queued"
         /\ refused' \in BOOLEAN /\ (refused => refused')
    BY <1>1, <1>10, FListParts
  <1>12. ASSUME F!TypeOK', F!Exact PROVE F!Sound(r)'
    <2>1. F!Sound(run)
      BY <1>2, <1>12
    <2>2. /\ F!Covered(run.prev)
          /\ IF run.offset = 0 THEN run.max = run.prev ELSE run.max <= published
          /\ \A x \in listed : F!Rank(x) < run.offset /\ x <= run.max => files[x] = "queued"
      BY <1>3, <2>1 DEF F!Sound
    <2>3. /\ published \in Nat /\ taken \in Nat /\ \A x \in listed : x \in Nat /\ x <= published
      BY <1>1, FListParts
    <2>4. published <= published' /\ taken <= taken' /\ \A x \in listed' : x \in listed \/ x > published
      BY <1>10, <2>3
    <2>5. \A x : F!Rank(x)' = F!Rank(x)
      BY <1>10 DEF F!Rank
    <2>6. F!Covered(r.prev)'
      <3>1. PICK id \in Int : id = run.prev
        BY <1>3
      <3>2. F!Covered(id)'
        BY <1>1, <1>11, <1>12, <2>2, <2>4, <3>1, CoveredKept
      <3>3. QED
        BY <1>9, <3>1, <3>2 DEF F!Covered
    <2>7. CASE page = {}
      <3>1. F!Covered(run.max)
        <4>1. CASE run.offset = 0
          <5>1. run.max = run.prev
            BY <2>2, <4>1
          <5>2. QED
            BY <2>2, <5>1
        <4>2. CASE run.offset # 0
          <5>1. run.max <= published + taken
            BY <1>3, <2>2, <2>3, <4>2
          <5>2. ASSUME NEW x \in listed, x + taken <= run.max PROVE files[x] = "queued"
            <6>1. x <= run.max
              BY <1>3, <2>3, <5>2
            <6>2. QED
              BY <1>7, <2>2, <2>7, <6>1
          <5>3. QED
            BY <5>1, <5>2 DEF F!Covered
        <4>3. QED
          BY <4>1, <4>2
      <3>2. PICK id \in Int : id = run.max
        BY <1>3
      <3>3. F!Covered(id)'
        BY <1>1, <1>11, <1>12, <2>4, <3>1, <3>2, CoveredKept
      <3>4. F!Covered(r.max)'
        BY <1>9, <3>2, <3>3 DEF F!Covered
      <3>5. r.pc = "ending"
        BY <1>5, <1>9, <2>7
      <3>6. QED
        BY <2>6, <3>4, <3>5 DEF F!Sound
    <2>8. CASE page # {}
      <3>1. r.pc = "queueing"
        BY <1>5, <1>9, <2>8
      <3>2. IF r.offset = 0 THEN r.max = r.prev ELSE r.pc # "starting" /\ r.max <= published'
        BY <1>9, <1>10, <2>2, <3>1
      <3>3. r.page # {} /\ r.page \subseteq 1..published'
        BY <1>7, <1>9, <1>10, <2>8, FListParts, <1>1
      <3>4. ASSUME NEW x \in listed' \ r.page
            PROVE  \/ /\ \A y \in r.page : x > y
                      /\ r.offset > 0 /\ x <= r.max => files'[x] = "queued"
                   \/ /\ \A y \in r.page : x < y
                      /\ F!Rank(x)' >= r.offset + F!Cardinality(r.page)
        <4>1. x \in listed \ page
          BY <1>9, <1>10
        <4>2. CASE F!Rank(x) < run.offset /\ \A y \in page : x > y
          <5>1. x <= r.max => files'[x] = "queued"
            BY <1>9, <1>11, <2>2, <4>1, <4>2
          <5>2. QED
            BY <1>9, <4>2, <5>1
        <4>3. CASE F!Rank(x) >= run.offset + Cardinality(page) /\ \A y \in page : x < y
          <5>1. F!Cardinality(r.page) = Cardinality(page)
            BY <1>9, FCardinality
          <5>2. QED
            BY <1>9, <2>5, <4>3, <5>1
        <4>4. QED
          BY <1>7, <4>1, <4>2, <4>3
      <3>5. QED
        BY <2>6, <3>1, <3>2, <3>3, <3>4 DEF F!Sound
    <2>9. QED
      BY <2>7, <2>8
  <1>13. QED
    BY <1>9, <1>10, <1>11, <1>12, RowlessStep

\* A refused page ends a run that got no further than its first, or is recorded.
LEMMA FListRefusedPage == ASSUME FListConstants, F!IInv, NEW c \in Worker, F!RefusedPage(c) PROVE F!IInv'
  <1>1. F!TypeOK
    BY DEF F!IInv
  <1>2. PICK run \in F!Collecting : run = coll[c] /\ (F!Exact => F!RowInv /\ F!Sound(run))
    BY AtWork
  <1>3. run.pc = "paging" /\ run.prev \in Nat /\ run.max \in Nat /\ run.offset \in Nat
    BY <1>2, CollectingParts DEF F!RefusedPage
  <1>4. PICK r : r = [run EXCEPT !.pc = "ending"]
    OBVIOUS
  <1>5. r \in F!Collecting /\ r.pc = "ending" /\ r.prev = run.prev /\ r.max = run.max
    BY <1>4 DEF F!Collecting
  <1>6. /\ coll' = [coll EXCEPT ![c] = r] /\ refused' = (refused \/ run.offset > 0)
        /\ UNCHANGED <<published, listed, files, open, done, gone, shifted, taken>>
    BY <1>2, <1>4 DEF F!RefusedPage, F!gallery, F!runs
  <1>7. /\ files' \in [F!Image -> {"unknown", "found", "queued"}] /\ runFaults' \in 0..MaxRunFault
        /\ \A x \in listed : files[x] = "queued" => files'[x] = "queued"
        /\ refused' \in BOOLEAN /\ (refused => refused')
    BY <1>1, <1>6, FListParts DEF F!RefusedPage, F!Fault
  <1>8. ASSUME F!Exact', F!Exact PROVE F!Sound(r)'
    <2>1. run.offset = 0
      <3>1. ~refused'
        BY <1>8 DEF F!Exact
      <3>2. ~(run.offset > 0)
        BY <1>6, <3>1
      <3>3. QED
        BY <1>3, <3>2
    <2>2. F!Covered(run.prev) /\ run.max = run.prev
      BY <1>2, <1>3, <1>8, <2>1 DEF F!Sound
    <2>3. F!Covered(r.prev)' /\ F!Covered(r.max)'
      BY <1>5, <1>6, <2>2 DEF F!Covered
    <2>4. QED
      BY <1>5, <2>3 DEF F!Sound
  <1>9. QED
    BY <1>5, <1>6, <1>7, <1>8, RowlessStep

LEMMA FListQueueHashes == ASSUME FListConstants, F!IInv, NEW c \in Worker, F!QueueHashes(c) PROVE F!IInv'
  <1>1. F!TypeOK
    BY DEF F!IInv
  <1>2. PICK run \in F!Collecting : run = coll[c] /\ (F!Exact => F!RowInv /\ F!Sound(run))
    BY AtWork
  <1>3. /\ run.pc = "queueing" /\ run.prev \in Nat /\ run.max \in Nat /\ run.offset \in Nat
        /\ run.page \subseteq 1..LastImage /\ LastImage \in Nat
    BY <1>2, CollectingParts DEF F!QueueHashes, F!Image, FListConstants
  <1>4. PICK S : S = run.page \cup {run.max}
    OBVIOUS
  <1>5. PICK max : max = F!Max(S)
    OBVIOUS
  <1>6. max \in S /\ max \in Nat /\ \A x \in S : x <= max
    <2>1. S # {} /\ S \subseteq Nat /\ S \subseteq 0..(LastImage + run.max) /\ LastImage + run.max \in Nat
      BY <1>3, <1>4
    <2>2. PICK m \in S : \A x \in S : x <= m
      BY <2>1, Greatest
    <2>3. m \in S /\ \A x \in S : m >= x
      BY <2>1, <2>2
    <2>4. max = CHOOSE m1 \in S : \A x \in S : m1 >= x
      BY <1>5 DEF F!Max
    <2>5. max \in S /\ \A x \in S : max >= x
      BY <2>3, <2>4, Zenon
    <2>6. QED
      BY <2>1, <2>5
  <1>7. PICK size : size = Cardinality(run.page)
    OBVIOUS
  <1>8. size \in Nat /\ (run.page # {} => size > 0) /\ F!Cardinality(run.page) = size
    <2>1. IsFiniteSet(1..LastImage)
      BY <1>3, FS_Interval
    <2>2. IsFiniteSet(run.page)
      BY <1>3, <2>1, FS_Subset
    <2>3. size \in Nat /\ (size = 0 <=> run.page = {})
      BY <1>7, <2>2, FS_CardinalityType, FS_EmptySet
    <2>4. QED
      BY <1>7, <2>3, FCardinality
  <1>9. PICK pc : pc = IF \E x \in run.page : x < run.prev THEN "ending" ELSE "paging"
    OBVIOUS
  <1>10. PICK r : r = [run EXCEPT !.pc = pc, !.max = max, !.offset = run.offset + size, !.page = {}]
    OBVIOUS
  <1>11. /\ r \in F!Collecting /\ r.pc = pc /\ r.prev = run.prev /\ r.max = max
         /\ r.offset = run.offset + size /\ r.page = {}
    <2>1. /\ pc \in {"idle", "starting", "paging", "queueing", "ending"}
          /\ run.offset + size \in Nat /\ {} \in SUBSET F!Image
      BY <1>3, <1>8, <1>9
    <2>2. QED
      BY <1>6, <1>10, <2>1 DEF F!Collecting
  <1>12. /\ coll' = [coll EXCEPT ![c] = r]
         /\ files' = [x \in F!Image |-> IF x \in run.page THEN "queued" ELSE files[x]]
         /\ UNCHANGED <<published, listed, open, done, gone, runFaults, shifted, refused, taken>>
    <2>1. coll' = [coll EXCEPT ![c].pc = pc, ![c].max = max, ![c].offset = run.offset + size, ![c].page = {}]
      BY <1>2, <1>4, <1>5, <1>8, <1>9 DEF F!QueueHashes
    <2>2. coll' = [coll EXCEPT ![c] = r]
      BY <1>2, <1>10, <2>1
    <2>3. QED
      BY <1>2, <2>2 DEF F!QueueHashes, F!Queue, F!gallery, F!runs, F!history
  <1>13. /\ files' \in [F!Image -> {"unknown", "found", "queued"}] /\ runFaults' \in 0..MaxRunFault
         /\ (\A x \in listed : files[x] = "queued" => files'[x] = "queued")
         /\ \A x \in run.page : files'[x] = "queued"
         /\ refused' \in BOOLEAN /\ (refused => refused')
    BY <1>1, <1>3, <1>12, FListParts DEF F!Image
  <1>14. ASSUME F!TypeOK', F!Exact PROVE F!Sound(r)'
    <2>1. F!Sound(run)
      BY <1>2, <1>14
    <2>2. /\ F!Covered(run.prev)
          /\ IF run.offset = 0 THEN run.max = run.prev ELSE run.max <= published
          /\ run.page # {} /\ run.page \subseteq 1..published
          /\ \A x \in listed \ run.page :
               \/ /\ \A y \in run.page : x > y
                  /\ run.offset > 0 /\ x <= run.max => files[x] = "queued"
               \/ /\ \A y \in run.page : x < y
                  /\ F!Rank(x) >= run.offset + size
      BY <1>3, <1>8, <2>1 DEF F!Sound
    <2>3. /\ published \in Nat /\ taken \in Nat /\ taken <= 2
          /\ \A x \in listed : x \in Nat /\ x <= published
      BY <1>1, <1>14, FListParts DEF F!Exact
    <2>4. published <= published' /\ taken <= taken' /\ \A x \in listed' : x \in listed \/ x > published
      BY <1>12, <2>3
    <2>5. /\ \A x : F!Rank(x)' = F!Rank(x)
          /\ \A x : F!Rank(x) \in Nat
      BY <1>1, <1>12, RankFalls DEF F!Rank
    <2>6. F!Covered(r.prev)'
      <3>1. PICK id \in Int : id = run.prev
        BY <1>3
      <3>2. F!Covered(id)'
        BY <1>1, <1>13, <1>14, <2>2, <2>4, <3>1, CoveredKept
      <3>3. QED
        BY <1>11, <3>1, <3>2 DEF F!Covered
    <2>7. run.prev <= published + taken /\ \A x \in listed : x + taken <= run.prev => files[x] = "queued"
      BY <2>2 DEF F!Covered
    \* What is newer than the page was passed before, or is newer than the run.
    <2>8. ASSUME NEW x \in listed \ run.page, \A y \in run.page : x > y, x <= max
          PROVE  max = run.max /\ x <= run.max /\ (run.offset > 0 => files[x] = "queued")
      <3>1. max \notin run.page
        BY <1>3, <1>6, <2>3, <2>8
      <3>2. max = run.max
        BY <1>4, <1>6, <3>1
      <3>3. ~(\A y \in run.page : x < y)
        <4>1. PICK y \in run.page : TRUE
          BY <2>2
        <4>2. x > y /\ y \in Nat /\ x \in Nat
          BY <1>3, <2>3, <2>8
        <4>3. QED
          BY <4>2
      <3>4. QED
        BY <2>2, <2>8, <3>2, <3>3
    <2>9. CASE \E x \in run.page : x < run.prev
      <3>1. PICK z \in run.page : z < run.prev
        BY <2>9
      <3>2. max <= published + taken
        <4>1. CASE max \in run.page
          BY <1>6, <2>2, <2>3, <4>1
        <4>2. CASE max = run.max
          BY <1>3, <2>2, <2>3, <2>7, <4>2
        <4>3. QED
          BY <1>4, <1>6, <4>1, <4>2
      <3>3. ASSUME NEW x \in listed, x + taken <= max PROVE files'[x] = "queued"
        <4>1. x \in Nat /\ x <= max
          BY <1>6, <2>3, <3>3
        <4>2. CASE x \in run.page
          BY <1>13, <4>2
        <4>3. CASE x \notin run.page /\ \A y \in run.page : x > y
          <5>1. max = run.max /\ (run.offset > 0 => files[x] = "queued")
            BY <2>8, <4>1, <4>3
          <5>2. CASE run.offset > 0
            BY <1>13, <5>1, <5>2
          <5>3. CASE run.offset = 0
            <6>1. x + taken <= run.prev
              BY <2>2, <3>3, <5>1, <5>3
            <6>2. QED
              BY <1>13, <2>7, <6>1
          <5>4. QED
            BY <1>3, <5>2, <5>3
        <4>4. CASE x \notin run.page /\ \A y \in run.page : x < y
          <5>1. x < z /\ z \in Nat
            BY <1>3, <3>1, <4>4
          <5>2. x + taken <= run.prev
            BY <1>3, <2>3, <3>1, <4>1, <5>1
          <5>3. QED
            BY <1>13, <2>7, <5>2
        <4>5. QED
          BY <2>2, <4>2, <4>3, <4>4
      <3>4. F!Covered(max)'
        BY <1>12, <3>2, <3>3 DEF F!Covered
      <3>5. F!Covered(r.max)'
        BY <1>11, <3>4 DEF F!Covered
      <3>6. r.pc = "ending"
        BY <1>9, <1>11, <2>9
      <3>7. QED
        BY <2>6, <3>5, <3>6 DEF F!Sound
    <2>10. CASE ~\E x \in run.page : x < run.prev
      <3>1. r.pc = "paging" /\ r.offset # 0 /\ r.offset \in Nat
        BY <1>3, <1>8, <1>9, <1>11, <2>2, <2>10
      <3>2. PICK y \in run.page : y \in Nat /\ y >= run.prev /\ y <= published
        BY <1>3, <2>2, <2>10
      <3>3. r.max <= published'
        <4>1. run.max <= published
          BY <1>3, <2>2, <2>3, <3>2
        <4>2. max <= published
          BY <1>4, <1>6, <2>2, <4>1
        <4>3. QED
          BY <1>11, <1>12, <4>2
      <3>4. ASSUME NEW x \in listed', F!Rank(x)' < r.offset, x <= r.max
            PROVE  files'[x] = "queued"
        <4>1. x \in listed /\ x \in Nat /\ x <= max /\ F!Rank(x) < run.offset + size
          BY <1>11, <1>12, <2>3, <2>5, <3>4
        <4>2. CASE x \in run.page
          BY <1>13, <4>2
        <4>3. CASE x \notin run.page /\ \A v \in run.page : x > v
          <5>1. x <= run.max /\ (run.offset > 0 => files[x] = "queued")
            BY <2>8, <4>1, <4>3
          <5>2. run.offset # 0
            <6>1. x > y
              BY <4>3
            <6>2. QED
              BY <1>3, <2>2, <3>2, <4>1, <5>1, <6>1
          <5>3. QED
            BY <1>3, <1>13, <4>1, <5>1, <5>2
        <4>4. CASE x \notin run.page /\ F!Rank(x) >= run.offset + size
          BY <1>3, <1>8, <2>5, <4>1, <4>4
        <4>5. QED
          BY <2>2, <4>1, <4>2, <4>3, <4>4
      <3>5. QED
        BY <2>6, <3>1, <3>3, <3>4 DEF F!Sound
    <2>11. QED
      BY <2>9, <2>10
  <1>15. QED
    BY <1>11, <1>12, <1>13, <1>14, RowlessStep

LEMMA IdleSound ==
    ASSUME FListConstants, F!TypeOK, NEW r, r = F!Idle PROVE F!Sound(r)
  <1>1. /\ published \in Nat /\ taken \in Nat /\ \A x \in listed : x \in Nat /\ 1 <= x
    BY FListParts
  <1>2. r.pc = "idle" /\ r.prev = 0
    BY FIdle
  <1>3. F!Covered(0)
    <2>1. 0 <= published + taken /\ \A x \in listed : ~(x + taken <= 0)
      BY <1>1
    <2>2. QED
      BY <2>1 DEF F!Covered
  <1>4. QED
    BY <1>2, <1>3 DEF F!Sound

LEMMA IdleSoundThen ==
    ASSUME FListConstants, F!TypeOK', NEW r, r = F!Idle PROVE F!Sound(r)'
  <1>1. /\ published' \in Nat /\ taken' \in Nat /\ \A x \in listed' : x \in Nat /\ 1 <= x
    BY DEF F!TypeOK, FListConstants
  <1>2. r.pc = "idle" /\ r.prev = 0
    BY FIdle
  <1>3. 0 <= published' + taken' /\ \A x \in listed' : ~(x + taken' <= 0)
    <2>1. \A a, b \in Nat : 0 <= a + b /\ \A x \in Nat : 1 <= x => ~(x + b <= 0)
      OBVIOUS
    <2>2. QED
      BY <1>1, <2>1
  <1>4. F!Covered(r.prev)'
    BY <1>2, <1>3 DEF F!Covered
  <1>5. QED
    BY <1>2, <1>4 DEF F!Sound

LEMMA FListDie == ASSUME FListConstants, F!IInv, NEW c \in Worker, F!Die(c) PROVE F!IInv'
  <1>1. F!TypeOK
    BY DEF F!IInv
  <1>2. PICK run \in F!Collecting : run = coll[c]
    BY AtWork
  <1>3. PICK some \in SUBSET run.page : files' = [x \in F!Image |-> IF x \in some THEN "queued" ELSE files[x]]
    BY <1>2 DEF F!Die, F!Queue
  <1>4. PICK r : r = F!Idle
    OBVIOUS
  <1>5. /\ coll' = [coll EXCEPT ![c] = r]
        /\ UNCHANGED <<published, listed, open, done, gone, shifted, refused, taken>>
    BY <1>4 DEF F!Die, F!gallery, F!runs, F!history
  <1>6. runFaults' \in 0..MaxRunFault
    BY <1>1, FListParts DEF F!Die, F!Fault
  <1>7. /\ files' \in [F!Image -> {"unknown", "found", "queued"}]
        /\ \A x \in listed : files[x] = "queued" => files'[x] = "queued"
        /\ refused' \in BOOLEAN /\ (refused => refused')
    BY <1>1, <1>3, <1>5, FListParts
  <1>8. r \in F!Collecting
    BY <1>4, FIdle
  <1>9. F!TypeOK' => F!Sound(r)'
    BY <1>4, IdleSoundThen
  <1>10. QED
    BY <1>5, <1>6, <1>7, <1>8, <1>9, RowlessStep

LEMMA FListComplete == ASSUME FListConstants, F!IInv, NEW c \in Worker, F!Complete(c) PROVE F!IInv'
  <1>1. F!TypeOK
    BY DEF F!IInv
  <1>2. PICK run \in F!Collecting : run = coll[c] /\ (F!Exact => F!RowInv /\ F!Sound(run))
    BY AtWork
  <1>3. run.pc = "ending" /\ run.max \in Nat
    BY <1>2, CollectingParts DEF F!Complete
  <1>4. PICK r : r = F!Idle
    OBVIOUS
  <1>5. /\ coll' = [coll EXCEPT ![c] = r]
        /\ UNCHANGED <<published, listed, files, gone, runFaults, shifted, refused, taken>>
    BY <1>4 DEF F!Complete, F!gallery, F!history
  <1>6. \/ UNCHANGED <<open, done>>
        \/ /\ done' = run.max
           /\ open' = open \/ \E i \in DOMAIN open : open' = F!RemoveAt(open, i)
    BY <1>2 DEF F!Complete
  <1>7. /\ open' \in Seq(F!Row)
        /\ \A j \in DOMAIN open' : \E k \in DOMAIN open : open'[j] = open[k]
    <2>1. open \in Seq(F!Row)
      BY <1>1, FListParts
    <2>2. CASE open' = open
      BY <2>1, <2>2
    <2>3. ASSUME NEW i \in DOMAIN open, open' = F!RemoveAt(open, i)
          PROVE  /\ open' \in Seq(F!Row)
                 /\ \A j \in DOMAIN open' : \E k \in DOMAIN open : open'[j] = open[k]
      BY <2>1, <2>3, Without
    <2>4. QED
      BY <1>6, <2>2, <2>3
  <1>8. coll' \in [Worker -> F!Collecting] /\ done' \in Nat /\ r \in F!Collecting
    BY <1>1, <1>3, <1>4, <1>5, <1>6, FListParts, FIdle
  <1>9. F!TypeOK'
    BY <1>1, <1>5, <1>7, <1>8 DEF F!TypeOK
  <1>10. /\ taken <= taken' /\ published <= published'
         /\ (\A x \in listed : files[x] = "queued" => files'[x] = "queued")
         /\ \A x \in listed' : x \in listed \/ x > published
    BY <1>1, <1>5, FListParts
  <1>11. ASSUME F!Exact' PROVE F!RowInv' /\ F!Sound(r)'
    <2>1. F!RowInv /\ F!Sound(run)
      BY <1>2, <1>5, <1>11 DEF F!Exact
    <2>2. F!Covered(done)'
      <3>1. CASE done' = done
        BY <1>1, <1>9, <1>10, <2>1, <3>1, DoneKept
      <3>2. CASE done' = run.max
        <4>1. PICK id \in Int : id = run.max
          BY <1>3
        <4>2. F!Covered(id)
          BY <1>3, <2>1, <4>1 DEF F!Sound
        <4>3. F!Covered(id)'
          BY <1>1, <1>9, <1>10, <4>2, CoveredKept
        <4>4. QED
          BY <3>2, <4>1, <4>3 DEF F!Covered
      <3>3. QED
        BY <1>6, <3>1, <3>2
    <2>3. \A j \in DOMAIN open' : \E i \in DOMAIN open :
            open'[j].start = open[i].start /\ open'[j].resumed = open[i].resumed
      BY <1>7
    <2>4. F!RowInv'
      BY <1>1, <1>9, <1>10, <2>1, <2>2, <2>3, RowsKept
    <2>5. QED
      BY <1>4, <1>9, <2>4, IdleSoundThen
  <1>12. QED
    BY <1>5, <1>8, <1>9, <1>10, <1>11, CollectorStep

LEMMA FListInit == ASSUME FListConstants, F!Init PROVE F!IInv
  <1>1. /\ published = 0 /\ listed = {} /\ open = <<>> /\ done = 0 /\ gone = {}
        /\ files = [x \in F!Image |-> "unknown"] /\ coll = [c \in Worker |-> F!Idle]
        /\ runFaults = 0 /\ shifted = FALSE /\ refused = FALSE /\ taken = 0
    BY DEF F!Init
  <1>2. coll \in [Worker -> F!Collecting]
    BY <1>1, FIdle
  <1>3. /\ published \in 0..LastImage /\ runFaults \in 0..MaxRunFault /\ open \in Seq(F!Row)
    BY <1>1, EmptySeq DEF FListConstants
  <1>4. F!TypeOK
    BY <1>1, <1>2, <1>3 DEF F!TypeOK
  <1>5. F!RowInv
    BY <1>1 DEF F!RowInv, F!Covered
  <1>6. ASSUME NEW c \in Worker PROVE F!Sound(coll[c])
    BY <1>1, <1>4, IdleSound
  <1>7. QED
    BY <1>4, <1>5, <1>6 DEF F!IInv

LEMMA FListReached == ASSUME FListConstants, F!IInv PROVE F!NothingOutOfReach
  <1>1. SUFFICES ASSUME F!Exact, NEW x \in listed, files[x] # "queued", NEW y \in listed,
                        F!Rank(y) < GalleryPage * (F!Rank(x) \div GalleryPage)
                 PROVE  y >= done
    BY DEF F!NothingOutOfReach, F!Reaches
  <1>2. /\ F!TypeOK /\ F!Covered(done) /\ done \in Nat /\ taken \in Nat /\ taken <= 2
        /\ x \in Nat /\ y \in Nat /\ GalleryPage \in Nat \ {0}
    BY <1>1, FListParts DEF F!IInv, F!RowInv, F!Exact, FListConstants
  <1>3. ~(x + taken <= done)
    BY <1>1, <1>2 DEF F!Covered
  <1>4. F!Rank(x) \in Nat /\ F!Rank(y) \in Nat
    BY <1>2, RankFalls
  <1>5. F!Rank(y) < F!Rank(x)
    <2>1. /\ GalleryPage * (F!Rank(x) \div GalleryPage) \in Int
          /\ GalleryPage * (F!Rank(x) \div GalleryPage) <= F!Rank(x)
      BY <1>2, <1>4, WholePages
    <2>2. QED
      BY <1>1, <1>4, <2>1
  <1>6. y > x
    <2>1. y <= x => F!Rank(x) <= F!Rank(y)
      BY <1>2, RankFalls
    <2>2. QED
      BY <1>2, <1>4, <1>5, <2>1
  <1>7. QED
    BY <1>2, <1>3, <1>6

LEMMA FListStep == ASSUME FListConstants, F!IInv, [F!Next]_(F!vars) PROVE F!IInv'
  <1>1. CASE \E c \in Worker : F!Collect(c) \/ F!RefusedPage(c) \/ F!Die(c)
    <2>1. PICK c \in Worker : F!Collect(c) \/ F!RefusedPage(c) \/ F!Die(c)
      BY <1>1
    <2>2. QED
      BY <2>1, FListResume, FListContinue, FListStart, FListLoadPage, FListRefusedPage,
         FListQueueHashes, FListComplete, FListDie DEF F!Collect
  <1>2. CASE F!Publish \/ F!Withdraw \/ F!Age \/ F!Abort
    BY <1>2, FListPublish, FListWithdraw, FListAge, FListAbort
  <1>3. CASE UNCHANGED F!vars
    BY <1>3, FListRests
  <1>4. QED
    BY <1>1, <1>2, <1>3 DEF F!Next

\* Whatever collectors die half way, are taken over while still at work, finish
\* twice or are aborted, each image of a gallery that did not shift, and was not
\* refused beyond a run's first page, was queued to be hashed, or the next run comes
\* to it, after up to two takeovers.
THEOREM ImagesNotOutOfReach ==
    ASSUME FListConstants PROVE F!Spec => []NothingOutOfReach
  <1>1. F!Init => F!IInv
    BY FListInit
  <1>2. F!IInv /\ [F!Next]_(F!vars) => F!IInv'
    BY FListStep
  <1>3. F!IInv => NothingOutOfReach
    BY FListReached DEF NothingOutOfReach
  <1>4. QED
    BY <1>1, <1>2, <1>3, PTL DEF F!Spec
=============================================================================
