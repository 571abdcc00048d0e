----------------------------- MODULE LinksProofs -----------------------------
(* Proofs about the accounts a user links: BlueskyLink, which Links extends,   *)
(* and its instances, TwitterArchive, TwitterAccount and PatreonCampaign, each *)
(* for every value of its constants.                                           *)
EXTENDS Links, Integers, FiniteSetTheorems, TLAPS

-----------------------------------------------------------------------------
(* BlueskyLink: sign-ins and the import they queue.                          *)

LEMMA InitInv == Init => IInv
  <1> SUFFICES ASSUME Init PROVE IInv
    OBVIOUS
  <1>1. /\ \A w \in Worker : work[w].pc = "idle"
        /\ \A v \in Visit : visit[v] = "idle"
        /\ ~exists /\ ~session /\ adds = 0 /\ ~failed
    BY DEF Init, Idle
  <1>2. TypeOK
    BY DEF Init, TypeOK, Idle
  <1>3. JobInv /\ SessionInv
    BY <1>1 DEF JobInv, SessionInv
  <1>4. SessionIsDropped /\ ImportStillComes
    BY <1>1 DEF SessionIsDropped, ImportStillComes
  <1>5. QED
    BY <1>2, <1>3, <1>4 DEF IInv

-----------------------------------------------------------------------------
\* One lemma an action, or a group of actions that write the same variables.

LEMMA SignInInv ==
    ASSUME IInv, NEW v \in Visit, SignIn(v) \/ LookupAccount(v)
    PROVE  IInv'
  <1>1. TypeOK'
    BY DEF IInv, TypeOK, SignIn, LookupAccount, Go
  <1>2. /\ UNCHANGED <<exists, session, adds, work, imported, undone, failed, dead>>
        /\ \A u \in Visit : visit'[u] = "enqueue" <=> visit[u] = "enqueue"
    BY DEF IInv, TypeOK, SignIn, LookupAccount, Go
  <1>3. QED
    BY <1>1, <1>2 DEF IInv, JobInv, SessionInv, SessionIsDropped, ImportStillComes, Importing

LEMMA UpdateInv ==
    ASSUME IInv, NEW v \in Visit, UpdateData(v)
    PROVE  IInv'
  <1>1. TypeOK'
    BY DEF IInv, TypeOK, UpdateData, Go
  <1>2. /\ UNCHANGED <<exists, adds, work, imported, failed, dead>>
        /\ ~session' /\ (imported \/ undone') /\ (undone => undone')
        /\ \A u \in Visit : visit'[u] = "enqueue" <=> visit[u] = "enqueue"
    BY DEF IInv, TypeOK, UpdateData, Go
  <1>3. QED
    BY <1>1, <1>2 DEF IInv, JobInv, SessionInv, SessionIsDropped, ImportStillComes, Importing

LEMMA CreateInv ==
    ASSUME IInv, NEW v \in Visit, CreateAccount(v)
    PROVE  IInv'
  <1>1. TypeOK'
    BY DEF IInv, TypeOK, CreateAccount, Go
  <1>2. CASE exists
    <2>1. /\ UNCHANGED <<exists, session, adds, work, imported, undone, failed, dead>>
          /\ \A u \in Visit : visit'[u] = "enqueue" <=> visit[u] = "enqueue"
      BY <1>2 DEF IInv, TypeOK, CreateAccount, Go
    <2>2. QED
      BY <1>1, <2>1 DEF IInv, JobInv, SessionInv, SessionIsDropped, ImportStillComes, Importing
  <1>3. CASE ~exists
    <2>1. /\ UNCHANGED <<adds, work, imported, undone, failed, dead>>
          /\ exists' /\ session' /\ visit'[v] = "enqueue"
      BY <1>3 DEF IInv, TypeOK, CreateAccount, Go
    <2>2. \A w \in Worker : work[w].pc = "idle"
      BY <1>3 DEF IInv, JobInv
    <2>3. QED
      BY <1>1, <2>1, <2>2 DEF IInv, JobInv, SessionInv, SessionIsDropped, ImportStillComes, Importing
  <1>4. QED
    BY <1>2, <1>3

LEMMA EnqueueInv ==
    ASSUME IInv, NEW v \in Visit, EnqueueAddAccount(v)
    PROVE  IInv'
  <1>1. TypeOK'
    BY DEF IInv, TypeOK, EnqueueAddAccount, Go
  <1>2. /\ UNCHANGED <<exists, session, work, imported, undone, failed, dead>>
        /\ adds' > 0 /\ exists
        /\ \A u \in Visit : visit'[u] = "enqueue" => visit[u] = "enqueue"
    BY DEF IInv, TypeOK, EnqueueAddAccount, Go, JobInv
  <1>3. QED
    BY <1>1, <1>2 DEF IInv, JobInv, SessionInv, SessionIsDropped, ImportStillComes, Importing

LEMMA VisitFailsInv ==
    ASSUME IInv, NEW v \in Visit, VisitFails(v)
    PROVE  IInv'
  <1>1. TypeOK'
    BY DEF IInv, TypeOK, VisitFails, Fault, Go
  <1>2. /\ UNCHANGED <<exists, session, adds, work, imported, failed, dead>>
        /\ (undone => undone')
        /\ \A u \in Visit : visit'[u] = "enqueue" => visit[u] = "enqueue"
        /\ \A u \in Visit : visit[u] = "enqueue" => visit'[u] = "enqueue" \/ undone'
    BY DEF IInv, TypeOK, VisitFails, Fault, Go
  <1>3. QED
    BY <1>1, <1>2 DEF IInv, JobInv, SessionInv, SessionIsDropped, ImportStillComes, Importing

-----------------------------------------------------------------------------
\* The runs of add_account.
Run == [pc : {"idle", "read", "listed", "queueing", "queued", "ack"},
        session : BOOLEAN, left : SUBSET Post]

LEMMA BeginInv ==
    ASSUME IInv, NEW w \in Worker, Begin(w)
    PROVE  IInv'
  <1>0. PICK r : r = [Idle EXCEPT !.pc = "read", !.session = session]
    OBVIOUS
  <1>1. TypeOK'
    <2>1. session \in BOOLEAN
      BY DEF IInv, TypeOK
    <2>2. r = [pc |-> "read", session |-> session, left |-> {}]
      BY <1>0 DEF Idle
    <2>3. r \in Run
      BY <2>1, <2>2 DEF Run
    <2>4. work' = [work EXCEPT ![w] = r] /\ work \in [Worker -> Run]
      BY <1>0 DEF Begin, IInv, TypeOK, Run
    <2>5. work' \in [Worker -> Run]
      BY <2>3, <2>4
    <2>6. QED
      BY <2>5 DEF IInv, TypeOK, Begin, Run
  <1>2. /\ UNCHANGED <<exists, session, visit, imported, undone, failed, dead>>
        /\ exists /\ (adds' > 0 => adds > 0)
        /\ work'[w].pc = "read" /\ work'[w].session = session
        /\ \A x \in Worker : x # w => work'[x] = work[x]
    BY DEF IInv, TypeOK, Begin, JobInv
  <1>3. QED
    BY <1>1, <1>2 DEF IInv, JobInv, SessionInv, SessionIsDropped, ImportStillComes, Importing

\* A run without a session ends: its import is done, or was undone.
LEMMA MissingInv ==
    ASSUME IInv, NEW w \in Worker, MissingSession(w)
    PROVE  IInv'
  <1>1. TypeOK'
    BY DEF IInv, TypeOK, MissingSession, Idle
  <1>2. /\ UNCHANGED <<exists, session, visit, adds, imported, undone, dead>>
        /\ ~session /\ (imported \/ undone) /\ (failed' => failed \/ ~imported)
        /\ \A x \in Worker : work'[x].pc # "idle" => work'[x] = work[x]
    BY DEF IInv, TypeOK, MissingSession, Idle, SessionInv
  <1>3. QED
    BY <1>1, <1>2 DEF IInv, JobInv, SessionInv, SessionIsDropped, ImportStillComes, Importing

LEMMA ListInv ==
    ASSUME IInv, NEW w \in Worker, ListPosts(w)
    PROVE  IInv'
  <1>0. PICK some \in SUBSET Post : work' = [work EXCEPT ![w].pc = "listed", ![w].left = some]
    BY DEF ListPosts
  <1>1. TypeOK'
    <2>1. work \in [Worker -> Run] /\ "listed" \in {"idle", "read", "listed", "queueing", "queued", "ack"}
      BY DEF IInv, TypeOK, Run
    <2>2. work' \in [Worker -> Run]
      BY <1>0, <2>1 DEF Run
    <2>3. QED
      BY <2>2 DEF IInv, TypeOK, ListPosts, Run
  <1>2. /\ UNCHANGED <<exists, session, visit, adds, imported, undone, failed, dead>>
        /\ work[w].pc = "read" /\ work'[w].pc = "listed" /\ work'[w].session = work[w].session
        /\ \A x \in Worker : x # w => work'[x] = work[x]
    BY <1>0 DEF IInv, TypeOK, ListPosts
  <1>3. QED
    BY <1>1, <1>2 DEF IInv, JobInv, SessionInv, SessionIsDropped, ImportStillComes, Importing

LEMMA StartInv ==
    ASSUME IInv, NEW w \in Worker, StartImport(w)
    PROVE  IInv'
  <1>1. TypeOK'
    BY DEF IInv, TypeOK, StartImport
  <1>2. /\ UNCHANGED <<exists, session, visit, adds, undone, failed, dead>>
        /\ (imported => imported') /\ work[w].pc = "listed"
        /\ work'[w].pc = "queueing" \/ (work'[w].pc = "queued" /\ imported')
        /\ work'[w].session = work[w].session
        /\ \A x \in Worker : x # w => work'[x] = work[x]
    BY DEF IInv, TypeOK, StartImport
  <1>3. QED
    BY <1>1, <1>2 DEF IInv, JobInv, SessionInv, SessionIsDropped, ImportStillComes, Importing

LEMMA QueueInv ==
    ASSUME IInv, NEW w \in Worker, QueueSubmission(w)
    PROVE  IInv'
  <1>1. PICK post \in work[w].left :
          /\ work' = [work EXCEPT ![w].pc = IF work[w].left \ {post} # {} THEN "queueing" ELSE "queued",
                                  ![w].left = work[w].left \ {post}]
          /\ imported' = (imported \/ work[w].left \ {post} = {})
    BY DEF QueueSubmission
  <1>2. PICK left \in SUBSET Post : left = work[w].left \ {post}
    BY DEF IInv, TypeOK
  <1>3. PICK pc : pc = IF left # {} THEN "queueing" ELSE "queued"
    OBVIOUS
  <1>4. /\ work' = [work EXCEPT ![w].pc = pc, ![w].left = left]
        /\ imported' = (imported \/ left = {})
        /\ UNCHANGED <<exists, session, visit, adds, started, undone, failed, dead, faults>>
    BY <1>1, <1>2, <1>3 DEF QueueSubmission
  <1>5. imported' \in BOOLEAN /\ (imported => imported') /\ (pc = "queued" => imported')
    BY <1>3, <1>4
  <1>6. TypeOK'
    <2>1. work \in [Worker -> Run] /\ pc \in {"idle", "read", "listed", "queueing", "queued", "ack"}
      BY <1>3 DEF IInv, TypeOK, Run
    <2>2. work' \in [Worker -> Run]
      BY <1>4, <2>1 DEF Run
    <2>3. QED
      BY <1>4, <1>5, <2>2 DEF IInv, TypeOK, Run
  <1>7. /\ work[w].pc = "queueing" /\ work'[w].pc = pc /\ pc \in {"queueing", "queued"}
        /\ work'[w].session = work[w].session
        /\ \A x \in Worker : x # w => work'[x] = work[x]
    BY <1>3, <1>4 DEF IInv, TypeOK, QueueSubmission
  <1>8. QED
    BY <1>4, <1>5, <1>6, <1>7
    DEF IInv, JobInv, SessionInv, SessionIsDropped, ImportStillComes, Importing

LEMMA DropInv ==
    ASSUME IInv, NEW w \in Worker, DropSession(w)
    PROVE  IInv'
  <1>1. TypeOK'
    BY DEF IInv, TypeOK, DropSession
  <1>2. /\ UNCHANGED <<exists, visit, adds, imported, undone, failed, dead>>
        /\ imported /\ ~session' /\ exists
        /\ work'[w].pc = "ack" /\ work'[w].session = work[w].session
        /\ \A x \in Worker : x # w => work'[x] = work[x]
    BY DEF IInv, TypeOK, DropSession, JobInv
  <1>3. QED
    BY <1>1, <1>2 DEF IInv, JobInv, SessionInv, SessionIsDropped, ImportStillComes, Importing

LEMMA AckInv ==
    ASSUME IInv, NEW w \in Worker, Ack(w)
    PROVE  IInv'
  <1>1. TypeOK'
    BY DEF IInv, TypeOK, Ack, Idle
  <1>2. /\ UNCHANGED <<exists, session, visit, adds, imported, undone, failed, dead>>
        /\ imported /\ ~session
        /\ \A x \in Worker : work'[x].pc # "idle" => work'[x] = work[x]
    BY DEF IInv, TypeOK, Ack, Idle, JobInv
  <1>3. QED
    BY <1>1, <1>2 DEF IInv, JobInv, SessionInv, SessionIsDropped, ImportStillComes, Importing

\* A job that comes again is still to come; one that does not is dead.
LEMMA AddFailsInv ==
    ASSUME IInv, NEW w \in Worker, AddFails(w) \/ ImportRefused(w)
    PROVE  IInv'
  <1>1. /\ (adds' = adds + 1 /\ dead' = dead) \/ (adds' = adds /\ dead' = TRUE)
        /\ UNCHANGED <<exists, session, visit, started, imported, undone, failed>>
        /\ work' = [work EXCEPT ![w] = Idle] /\ work[w].pc # "idle"
        /\ faults' \in Nat
    BY DEF IInv, TypeOK, AddFails, ImportRefused, Redeliver, Fault
  <1>2. adds' \in Nat /\ dead' \in BOOLEAN /\ (adds > 0 => adds' > 0) /\ (adds' > 0 \/ dead')
        /\ (dead => dead')
    <2>0. adds \in Nat /\ dead \in BOOLEAN
      BY DEF IInv, TypeOK
    <2>1. CASE adds' = adds + 1 /\ dead' = dead
      BY <2>0, <2>1
    <2>2. CASE adds' = adds /\ dead' = TRUE
      BY <2>0, <2>2
    <2>3. QED
      BY <1>1, <2>1, <2>2
  <1>3. TypeOK'
    BY <1>1, <1>2 DEF IInv, TypeOK, Idle
  <1>4. exists /\ \A x \in Worker : work'[x].pc # "idle" => work'[x] = work[x]
    BY <1>1 DEF IInv, TypeOK, Idle, JobInv
  <1>5. QED
    BY <1>1, <1>2, <1>3, <1>4
    DEF IInv, JobInv, SessionInv, SessionIsDropped, ImportStillComes, Importing

-----------------------------------------------------------------------------
LEMMA InvStep == IInv /\ [Next]_vars => IInv'
  <1> SUFFICES ASSUME IInv, [Next]_vars PROVE IInv'
    OBVIOUS
  <1>1. ASSUME NEW v \in Visit,
               \/ SignIn(v) \/ LookupAccount(v) \/ UpdateData(v) \/ CreateAccount(v)
               \/ EnqueueAddAccount(v) \/ VisitFails(v)
        PROVE  IInv'
    BY <1>1, SignInInv, UpdateInv, CreateInv, EnqueueInv, VisitFailsInv
  <1>2. ASSUME NEW w \in Worker,
               \/ Begin(w) \/ MissingSession(w) \/ ListPosts(w) \/ StartImport(w)
               \/ ImportRefused(w) \/ QueueSubmission(w) \/ DropSession(w) \/ Ack(w) \/ AddFails(w)
        PROVE  IInv'
    BY <1>2, BeginInv, MissingInv, ListInv, StartInv, QueueInv, DropInv, AckInv, AddFailsInv
  <1>3. CASE UNCHANGED vars
    BY <1>3 DEF vars, IInv, TypeOK, JobInv, SessionInv, SessionIsDropped, ImportStillComes, Importing
  <1>4. QED
    BY <1>1, <1>2, <1>3 DEF Next

\* A linked Bluesky account is imported, is being imported, was linked again before
\* its import, or the import was given up; one that finds no session is always one
\* that was linked again.
THEOREM ImportComes == Spec => []ImportStillComes
  <1>1. IInv => ImportStillComes
    BY DEF IInv
  <1>2. QED
    BY <1>1, InitInv, InvStep, PTL DEF Spec

\* The session that stands for the password is not kept longer than the import,
\* unless that was given up or undone.
THEOREM SessionGoes == Spec => []SessionIsDropped
  <1>1. IInv => SessionIsDropped
    BY DEF IInv
  <1>2. QED
    BY <1>1, InitInv, InvStep, PTL DEF Spec

-----------------------------------------------------------------------------
(* TwitterArchive: uploads, the import of an archive, and its end.           *)

ArchiveConstants ==
    /\ IsFiniteSet(Chunk) /\ IsFiniteSet(Tweet) /\ None \notin Archive
    /\ Parallel \in Nat /\ Limit \in Nat \ {0} /\ Buffer \in Nat
    /\ MaxPost \in Nat /\ MaxArchiveFault \in Nat

\* Cardinality, as the instance has it.
LEMMA ZCardinality == \A S : Z!Cardinality(S) = Cardinality(S)
  BY DEF Z!Cardinality, Cardinality

LEMMA ArchiveInit == ASSUME ArchiveConstants, Z!Init PROVE Z!IInv
  <1>1. Cardinality({}) = 0 /\ IsFiniteSet({})
    BY FS_EmptySet
  <1>2. Z!TypeOK
    <2>1. upload \in [Chunk -> [pc : {"idle", "sized", "added", "over"}, archive : Archive \cup {None}]]
      BY DEF Z!Init, Z!Free
    <2>2. request \in [Request -> [pc : {"idle", "read", "queued", "marked"}, archive : Archive \cup {None}]]
      BY DEF Z!Init, Z!Free
    <2>3. load \in [pc : {"idle", "reading", "parsing", "removing", "completing", "ack"},
                    archive : Archive \cup {None}, left : SUBSET Tweet, deaf : BOOLEAN]
      BY DEF Z!Init, Z!Resting
    <2>4. given \in BOOLEAN /\ late \in BOOLEAN
      BY DEF Z!Init
    <2>5. Z!Cardinality(sink) <= Buffer + 1
      <3>1. sink = {}
        BY DEF Z!Init
      <3>2. Z!Cardinality(sink) = 0
        BY <1>1, <3>1, ZCardinality
      <3>3. QED
        BY <3>2 DEF ArchiveConstants
    <2>6. QED
      BY <2>1, <2>2, <2>3, <2>4, <2>5 DEF Z!Init, Z!TypeOK, ArchiveConstants
  <1>3. Z!ChunksBounded
    <2>1. rows \cup Z!Sized = {}
      BY DEF Z!Init, Z!Sized, Z!Free
    <2>2. Z!Cardinality(rows \cup Z!Sized) = 0
      BY <1>1, <2>1, ZCardinality
    <2>3. QED
      BY <2>2 DEF Z!ChunksBounded, ArchiveConstants
  <1>4. Z!RowFirst /\ Z!HaveArchive /\ Z!HandedOver /\ Z!CompleteIsSaved /\ Z!ImportingEnds
    BY DEF Z!Init, Z!RowFirst, Z!HaveArchive, Z!HandedOver, Z!CompleteIsSaved, Z!ImportingEnds, Z!Resting, Z!Free
  <1>5. QED
    BY <1>2, <1>3, <1>4 DEF Z!IInv

\* What HandedOver says of a complete account is all that CompleteIsSaved needs.
LEMMA HandedOverSaves == Z!HandedOver' => Z!CompleteIsSaved'
  BY DEF Z!HandedOver, Z!CompleteIsSaved, Z!Handled

-----------------------------------------------------------------------------
\* A step of the uploads.
LEMMA UploadStep ==
    ASSUME Z!IInv, UNCHANGED <<request, jobs, load, sink, saved, loading, dropped, given, late>>
    PROVE  Z!HaveArchive' /\ Z!HandedOver' /\ Z!CompleteIsSaved' /\ Z!ImportingEnds'
  <1>1. Z!HaveArchive' /\ Z!HandedOver'
    BY DEF Z!IInv, Z!HaveArchive, Z!HandedOver, Z!Handled
  <1>2. Z!ImportingEnds'
    BY DEF Z!IInv, Z!ImportingEnds, Z!Pending
  <1>3. Z!CompleteIsSaved'
    BY DEF Z!IInv, Z!CompleteIsSaved, Z!Pending
  <1>4. QED
    BY <1>1, <1>2, <1>3

\* Fewer rows and requests are still within the limit.
LEMMA FewerChunks ==
    ASSUME ArchiveConstants, Z!TypeOK, Z!ChunksBounded, rows' \cup Z!Sized' \subseteq rows \cup Z!Sized
    PROVE  Z!ChunksBounded'
  <1>1. IsFiniteSet(rows \cup Z!Sized)
    BY FS_Subset DEF Z!TypeOK, Z!Sized, ArchiveConstants
  <1>2. /\ Cardinality(rows' \cup Z!Sized') <= Cardinality(rows \cup Z!Sized)
        /\ Cardinality(rows \cup Z!Sized) \in Nat /\ Cardinality(rows' \cup Z!Sized') \in Nat
    BY <1>1, FS_Subset, FS_CardinalityType
  <1>3. Cardinality(rows \cup Z!Sized) <= Limit + Parallel - 1
    BY ZCardinality DEF Z!ChunksBounded
  <1>4. Cardinality(rows' \cup Z!Sized') <= Limit + Parallel - 1
    BY <1>2, <1>3 DEF ArchiveConstants
  <1>5. QED
    BY <1>4, ZCardinality DEF Z!ChunksBounded

LEMMA CheckSizeInv ==
    ASSUME ArchiveConstants, Z!IInv, NEW u \in Chunk, Z!CheckSize(u)
    PROVE  Z!IInv'
  <1>0. Z!TypeOK /\ Z!ChunksBounded
    BY DEF Z!IInv
  <1>1. UNCHANGED <<rows, objects, request, posts, jobs, load, sink, saved, loading, dropped, given, late, cFaults>>
    BY DEF Z!CheckSize, Z!history
  <1>2. PICK a \in Archive :
            upload' = [upload EXCEPT ![u] =
                [pc |-> IF Cardinality(rows) < Limit THEN "sized" ELSE "over", archive |-> a]]
    BY ZCardinality DEF Z!CheckSize
  <1> DEFINE w == [pc |-> IF Cardinality(rows) < Limit THEN "sized" ELSE "over", archive |-> a]
             U == [pc : {"idle", "sized", "added", "over"}, archive : Archive \cup {None}]
  <1>3. w \in U /\ (w.pc = "sized" => Cardinality(rows) < Limit)
    OBVIOUS
  <1> HIDE DEF w
  <1>4. upload' \in [Chunk -> U] /\ upload'[u] = w /\ \A v \in Chunk : v # u => upload'[v] = upload[v]
    BY <1>0, <1>2, <1>3 DEF Z!TypeOK, w
  <1>5. Z!TypeOK'
    BY <1>0, <1>1, <1>4 DEF Z!TypeOK
  <1>6. Z!ChunksBounded'
    <2>1. CASE w.pc = "sized"
      <3>1. rows \subseteq Chunk /\ Z!Sized \subseteq Chunk /\ IsFiniteSet(Chunk)
        BY <1>0 DEF Z!TypeOK, Z!Sized, ArchiveConstants
      <3>2. /\ IsFiniteSet(rows) /\ IsFiniteSet(Z!Sized) /\ Cardinality(rows) \in Nat
            /\ Cardinality(Z!Sized) \in Nat
        BY <3>1, FS_Subset, FS_CardinalityType
      <3>3. Cardinality(rows) < Limit /\ Cardinality(Z!Sized) < Parallel
        BY <1>3, <2>1, ZCardinality DEF Z!CheckSize
      <3>4. rows' \cup Z!Sized' \subseteq (rows \cup Z!Sized) \cup {u}
        BY <1>1, <1>4 DEF Z!Sized
      <3>5. /\ IsFiniteSet(rows \cup Z!Sized) /\ Cardinality(rows \cup Z!Sized) \in Nat
            /\ Cardinality(rows \cup Z!Sized) <= Cardinality(rows) + Cardinality(Z!Sized)
        <4>1. /\ IsFiniteSet(rows \cup Z!Sized)
              /\ Cardinality(rows \cup Z!Sized) =
                   Cardinality(rows) + Cardinality(Z!Sized) - Cardinality(rows \cap Z!Sized)
          BY <3>2, FS_Union
        <4>2. Cardinality(rows \cup Z!Sized) \in Nat /\ Cardinality(rows \cap Z!Sized) \in Nat
          BY <3>2, <4>1, FS_CardinalityType, FS_Subset
        <4>3. QED
          BY <3>2, <4>1, <4>2
      <3>6. /\ IsFiniteSet((rows \cup Z!Sized) \cup {u})
            /\ Cardinality((rows \cup Z!Sized) \cup {u}) \in Nat
            /\ Cardinality((rows \cup Z!Sized) \cup {u}) <= Cardinality(rows \cup Z!Sized) + 1
        <4>1. /\ IsFiniteSet((rows \cup Z!Sized) \cup {u})
              /\ Cardinality((rows \cup Z!Sized) \cup {u}) =
                   IF u \in rows \cup Z!Sized THEN Cardinality(rows \cup Z!Sized)
                   ELSE Cardinality(rows \cup Z!Sized) + 1
          BY <3>5, FS_AddElement
        <4>2. QED
          BY <3>5, <4>1
      <3>7. /\ Cardinality(rows' \cup Z!Sized') <= Cardinality((rows \cup Z!Sized) \cup {u})
            /\ Cardinality(rows' \cup Z!Sized') \in Nat
        BY <3>4, <3>6, FS_Subset, FS_CardinalityType
      <3>8. Cardinality(rows' \cup Z!Sized') <= Limit + Parallel - 1
        BY <3>2, <3>3, <3>5, <3>6, <3>7 DEF ArchiveConstants
      <3>9. QED
        BY <3>8, ZCardinality DEF Z!ChunksBounded
    <2>2. CASE w.pc # "sized"
      <3>1. rows' \cup Z!Sized' \subseteq rows \cup Z!Sized
        BY <1>1, <1>4, <2>2 DEF Z!Sized
      <3>2. QED
        BY <1>0, <3>1, FewerChunks
    <2>3. QED
      BY <2>1, <2>2
  <1>7. Z!RowFirst'
    BY <1>1, <1>3, <1>4 DEF Z!IInv, Z!RowFirst, w
  <1>8. QED
    BY <1>1, <1>5, <1>6, <1>7, UploadStep DEF Z!IInv

LEMMA ArchiveUploadInv ==
    ASSUME ArchiveConstants, Z!IInv, NEW u \in Chunk, Z!AddRow(u) \/ Z!PutObject(u) \/ Z!UploadFails(u)
    PROVE  Z!IInv'
  <1>0. Z!TypeOK /\ Z!ChunksBounded
    BY DEF Z!IInv
  <1>1. UNCHANGED <<request, posts, jobs, load, sink, saved, loading, dropped, given, late>>
    BY DEF Z!AddRow, Z!PutObject, Z!UploadFails, Z!history
  <1>2. PICK pc \in {"added", "over"} : upload' = [upload EXCEPT ![u].pc = pc]
    BY DEF Z!AddRow, Z!PutObject, Z!UploadFails
  <1>3. /\ upload' \in [Chunk -> [pc : {"idle", "sized", "added", "over"}, archive : Archive \cup {None}]]
        /\ upload'[u].pc = pc /\ \A v \in Chunk : v # u => upload'[v] = upload[v]
    BY <1>0, <1>2 DEF Z!TypeOK
  <1>4. /\ rows' = rows \/ (rows' = rows \cup {u} /\ u \in Z!Sized)
        /\ rows' \subseteq Chunk /\ cFaults' \in 0..MaxArchiveFault
    BY <1>0 DEF Z!AddRow, Z!PutObject, Z!UploadFails, Z!Sized, Z!TypeOK, Z!Fault, ArchiveConstants
  <1>5. objects' \subseteq rows'
    <2>1. objects \subseteq rows
      BY <1>0 DEF Z!TypeOK
    <2>2. CASE Z!AddRow(u) \/ Z!UploadFails(u)
      BY <1>4, <2>1, <2>2 DEF Z!AddRow, Z!UploadFails
    <2>3. CASE Z!PutObject(u)
      BY <2>1, <2>3 DEF Z!PutObject, Z!IInv, Z!RowFirst
    <2>4. QED
      BY <2>2, <2>3
  <1>6. Z!TypeOK'
    BY <1>0, <1>1, <1>3, <1>4, <1>5 DEF Z!TypeOK
  <1>7. rows' \cup Z!Sized' \subseteq rows \cup Z!Sized
    BY <1>3, <1>4 DEF Z!Sized
  <1>8. Z!RowFirst'
    <2>1. upload'[u].pc = "added" => u \in rows'
      BY <1>2, <1>3 DEF Z!AddRow, Z!PutObject, Z!UploadFails
    <2>2. QED
      BY <1>3, <1>4, <2>1 DEF Z!IInv, Z!RowFirst
  <1>9. QED
    BY <1>0, <1>1, <1>6, <1>7, <1>8, FewerChunks, UploadStep DEF Z!IInv

-----------------------------------------------------------------------------
\* The other steps leave the uploads and their rows alone.
LEMMA SameChunks ==
    ASSUME Z!IInv, UNCHANGED <<upload, rows>>
    PROVE  Z!RowFirst' /\ Z!ChunksBounded'
  BY DEF Z!IInv, Z!RowFirst, Z!ChunksBounded, Z!Sized

LEMMA ArchiveRequestInv ==
    ASSUME ArchiveConstants, Z!IInv, NEW q \in Request, Z!ReadAccount(q) \/ Z!EnqueueLoad(q) \/ Z!MarkImporting(q)
    PROVE  Z!IInv'
  <1>0. Z!TypeOK /\ Z!HaveArchive
    BY DEF Z!IInv
  <1>1. UNCHANGED <<upload, rows, objects, load, sink, saved, dropped, given, cFaults>>
    BY DEF Z!ReadAccount, Z!EnqueueLoad, Z!MarkImporting, Z!chunks, Z!history
  <1>2. /\ request' \in [Request -> [pc : {"idle", "read", "queued", "marked"}, archive : Archive \cup {None}]]
        /\ \A p \in Request : request'[p].pc # "idle" => request'[p].archive \in Archive
    <2>1. CASE Z!ReadAccount(q)
      <3>1. PICK a \in Archive : request' = [request EXCEPT ![q] = [pc |-> "read", archive |-> a]]
        BY <2>1 DEF Z!ReadAccount
      <3>2. QED
        BY <1>0, <3>1 DEF Z!TypeOK, Z!HaveArchive
    <2>2. CASE Z!EnqueueLoad(q)
      BY <1>0, <2>2 DEF Z!EnqueueLoad, Z!TypeOK, Z!HaveArchive
    <2>3. CASE Z!MarkImporting(q)
      <3>1. request' = [request EXCEPT ![q] = [pc |-> "idle", archive |-> None]]
        BY <2>3 DEF Z!MarkImporting, Z!Free
      <3>2. QED
        BY <1>0, <3>1 DEF Z!TypeOK, Z!HaveArchive
    <2>4. QED
      BY <2>1, <2>2, <2>3
  <1>3. /\ jobs' \in [Archive -> Nat] /\ \A a \in Archive : jobs'[a] >= jobs[a]
    <2>1. CASE Z!EnqueueLoad(q)
      <3>1. /\ jobs' = [jobs EXCEPT ![request[q].archive] = jobs[request[q].archive] + 1]
            /\ request[q].archive \in Archive
        BY <1>0, <2>1 DEF Z!EnqueueLoad, Z!HaveArchive
      <3>2. QED
        BY <1>0, <3>1 DEF Z!TypeOK
    <2>2. CASE Z!ReadAccount(q) \/ Z!MarkImporting(q)
      BY <1>0, <2>2 DEF Z!ReadAccount, Z!MarkImporting, Z!TypeOK
    <2>3. QED
      BY <2>1, <2>2
  <1>4. /\ posts' \in 0..MaxPost /\ loading' \in {"none", "importing", "complete"}
        /\ loading' \in {loading, "importing"}
    BY <1>0 DEF Z!ReadAccount, Z!EnqueueLoad, Z!MarkImporting, Z!TypeOK, ArchiveConstants
  <1>5. late' \in BOOLEAN /\ (late => late')
    BY <1>0 DEF Z!ReadAccount, Z!EnqueueLoad, Z!MarkImporting, Z!TypeOK, Z!history
  <1>6. Z!TypeOK'
    BY <1>0, <1>1, <1>2, <1>3, <1>4, <1>5 DEF Z!TypeOK
  <1>7. Z!HaveArchive' /\ Z!HandedOver'
    BY <1>1, <1>2, <1>4 DEF Z!IInv, Z!HaveArchive, Z!HandedOver, Z!Handled
  <1>8. \A a \in Archive : Z!Pending(a) => Z!Pending(a)'
    BY <1>0, <1>1, <1>3 DEF Z!Pending, Z!TypeOK
  <1>9. Z!ImportingEnds'
    <2>1. CASE loading' = loading
      BY <1>1, <1>5, <1>8, <2>1 DEF Z!IInv, Z!ImportingEnds
    <2>2. CASE Z!MarkImporting(q)
      <3>1. late' \/ Z!Pending(request[q].archive)
        BY <2>2 DEF Z!MarkImporting
      <3>2. request[q].archive \in Archive
        BY <1>0, <2>2 DEF Z!MarkImporting, Z!HaveArchive
      <3>3. QED
        BY <1>8, <3>1, <3>2 DEF Z!ImportingEnds
    <2>3. QED
      BY <2>1, <2>2 DEF Z!ReadAccount, Z!EnqueueLoad
  <1>10. QED
    BY <1>1, <1>6, <1>7, <1>9, SameChunks, HandedOverSaves DEF Z!IInv

\* A step of the job: what it leaves of HandedOver and of the jobs pending.
LEMMA ArchiveLoadType ==
    ASSUME NEW pc \in {"idle", "reading", "parsing", "removing", "completing", "ack"},
           NEW a \in Archive \cup {None}, NEW T \in SUBSET Tweet, NEW d \in BOOLEAN
    PROVE  [pc |-> pc, archive |-> a, left |-> T, deaf |-> d] \in
               [pc : {"idle", "reading", "parsing", "removing", "completing", "ack"},
                archive : Archive \cup {None}, left : SUBSET Tweet, deaf : BOOLEAN]
  OBVIOUS

LEMMA ArchiveTakeInv ==
    ASSUME ArchiveConstants, Z!IInv, NEW a \in Archive, Z!Take(a)
    PROVE  Z!IInv'
  <1>0. Z!TypeOK
    BY DEF Z!IInv
  <1>1. /\ load' = [pc |-> "reading", archive |-> a, left |-> {}, deaf |-> FALSE] /\ jobs[a] > 0
        /\ jobs' = [jobs EXCEPT ![a] = jobs[a] - 1]
        /\ UNCHANGED <<upload, rows, objects, request, posts, sink, saved, loading, dropped, given, late, cFaults>>
    BY DEF Z!Take, Z!Resting, Z!chunks, Z!history
  <1>2. load.pc = "idle"
    BY DEF Z!Take
  <1>3. jobs' \in [Archive -> Nat] /\ \A b \in Archive : b # a => jobs'[b] = jobs[b]
    BY <1>0, <1>1 DEF Z!TypeOK
  <1>4. Z!TypeOK'
    BY <1>0, <1>1, <1>3, ArchiveLoadType DEF Z!TypeOK
  <1>5. Z!HaveArchive' /\ Z!HandedOver'
    BY <1>1 DEF Z!IInv, Z!HaveArchive, Z!HandedOver, Z!Handled
  <1>6. Z!ImportingEnds'
    BY <1>1 DEF Z!ImportingEnds, Z!Pending
  <1>7. QED
    BY <1>1, <1>4, <1>5, <1>6, SameChunks, HandedOverSaves DEF Z!IInv

\* The job goes on without ending: pending it stays.
LEMMA ArchiveGoesOn ==
    ASSUME Z!IInv, load.pc # "idle", load'.archive = load.archive, load'.pc # "ack",
           UNCHANGED <<jobs, given, late>>, loading' = loading
    PROVE  Z!ImportingEnds'
  <1>1. load.archive \in Archive
    BY DEF Z!IInv, Z!HaveArchive
  <1>2. Z!Pending(load.archive)'
    BY DEF Z!Pending
  <1>3. QED
    BY <1>1, <1>2 DEF Z!ImportingEnds, Z!Pending

LEMMA ReadChunksInv == ASSUME ArchiveConstants, Z!IInv, Z!ReadChunks PROVE Z!IInv'
  <1>0. Z!TypeOK
    BY DEF Z!IInv
  <1>1. /\ load' = [load EXCEPT !.pc = "parsing", !.left = Tweet] /\ load.pc = "reading"
        /\ UNCHANGED <<upload, rows, objects, request, posts, jobs, sink, saved, loading,
                       dropped, given, late, cFaults>>
    BY DEF Z!ReadChunks, Z!chunks, Z!history
  <1>2. load' = [pc |-> "parsing", archive |-> load.archive, left |-> Tweet, deaf |-> load.deaf]
        /\ load.deaf \in BOOLEAN /\ load.archive \in Archive \cup {None}
    BY <1>0, <1>1 DEF Z!TypeOK
  <1>3. Z!TypeOK'
    BY <1>0, <1>1, <1>2, ArchiveLoadType DEF Z!TypeOK
  <1>4. Z!HaveArchive' /\ Z!HandedOver'
    BY <1>1, <1>2 DEF Z!IInv, Z!HaveArchive, Z!HandedOver, Z!Handled
  <1>5. Z!ImportingEnds'
    BY <1>1, <1>2, ArchiveGoesOn
  <1>6. QED
    BY <1>1, <1>3, <1>4, <1>5, SameChunks, HandedOverSaves DEF Z!IInv

\* Fewer tweets with the task are still within the buffer.
LEMMA FewerTweets ==
    ASSUME ArchiveConstants, Z!TypeOK, sink' \subseteq sink
    PROVE  sink' \subseteq Tweet /\ Z!Cardinality(sink') <= Buffer + 1
  <1>1. IsFiniteSet(sink) /\ Cardinality(sink) \in Nat
    BY FS_Subset, FS_CardinalityType DEF Z!TypeOK, ArchiveConstants
  <1>2. Cardinality(sink') <= Cardinality(sink) /\ Cardinality(sink') \in Nat
    BY <1>1, FS_Subset, FS_CardinalityType
  <1>3. Cardinality(sink) <= Buffer + 1
    BY ZCardinality DEF Z!TypeOK
  <1>4. Cardinality(sink') <= Buffer + 1
    BY <1>1, <1>2, <1>3 DEF ArchiveConstants
  <1>5. QED
    BY <1>4, ZCardinality DEF Z!TypeOK

\* A job that is delivered again is pending; one that is not has failed.
LEMMA ArchiveRedelivered ==
    ASSUME ArchiveConstants, Z!IInv, Z!Redeliver, load.pc # "idle",
           UNCHANGED <<upload, rows, objects, request, posts, saved, loading, late>>,
           sink' \subseteq sink, dropped' \subseteq Tweet, cFaults' \in 0..MaxArchiveFault,
           \A t \in Tweet : Z!Handled(t) => Z!Handled(t)'
    PROVE  Z!IInv'
  <1>0. Z!TypeOK /\ Z!HaveArchive
    BY DEF Z!IInv
  <1>1. load' = [pc |-> "idle", archive |-> None, left |-> {}, deaf |-> FALSE] /\ load.archive \in Archive
    BY <1>0 DEF Z!Redeliver, Z!Resting, Z!HaveArchive
  <1>2. /\ jobs' \in [Archive -> Nat] /\ given' \in BOOLEAN
        /\ jobs'[load.archive] > 0 \/ given'
    <2>1. CASE jobs' = [jobs EXCEPT ![load.archive] = jobs[load.archive] + 1] /\ given' = given
      BY <1>0, <1>1, <2>1 DEF Z!TypeOK
    <2>2. CASE given' = TRUE /\ jobs' = jobs
      BY <1>0, <2>2 DEF Z!TypeOK
    <2>3. QED
      BY <2>1, <2>2 DEF Z!Redeliver
  <1>3. Z!TypeOK'
    <2>1. sink' \subseteq Tweet /\ Z!Cardinality(sink') <= Buffer + 1
      BY <1>0, FewerTweets
    <2>2. QED
      BY <1>0, <1>1, <1>2, <2>1, ArchiveLoadType DEF Z!TypeOK
  <1>4. Z!HaveArchive' /\ Z!HandedOver'
    BY <1>1 DEF Z!IInv, Z!HaveArchive, Z!HandedOver
  <1>5. Z!ImportingEnds'
    BY <1>1, <1>2 DEF Z!ImportingEnds, Z!Pending
  <1>6. QED
    BY <1>3, <1>4, <1>5, SameChunks, HandedOverSaves DEF Z!IInv

LEMMA ArchiveFailsInv ==
    ASSUME ArchiveConstants, Z!IInv, Z!ReadFails \/ Z!ParseFails
    PROVE  Z!IInv'
  <1>0. Z!TypeOK
    BY DEF Z!IInv
  <1>1. /\ Z!Redeliver /\ load.pc # "idle"
        /\ UNCHANGED <<upload, rows, objects, request, posts, sink, saved, loading, dropped, late, cFaults>>
    BY DEF Z!ReadFails, Z!ParseFails, Z!chunks
  <1>2. /\ dropped' \subseteq Tweet /\ cFaults' \in 0..MaxArchiveFault
        /\ \A t \in Tweet : Z!Handled(t) => Z!Handled(t)'
    BY <1>0, <1>1 DEF Z!TypeOK, Z!Handled
  <1>3. QED
    BY <1>1, <1>2, ArchiveRedelivered

LEMMA SkipTweetInv == ASSUME ArchiveConstants, Z!IInv, Z!SkipTweet PROVE Z!IInv'
  <1>0. Z!TypeOK
    BY DEF Z!IInv
  <1>1. PICK t \in load.left :
            /\ load' = [load EXCEPT !.left = load.left \ {t}]
            /\ dropped' = dropped \cup ({t} \ saved)
    BY DEF Z!SkipTweet
  <1>2. /\ load.pc = "parsing"
        /\ UNCHANGED <<upload, rows, objects, request, posts, jobs, sink, saved, loading, given, late>>
    BY DEF Z!SkipTweet, Z!chunks
  <1>3. /\ load' = [pc |-> "parsing", archive |-> load.archive, left |-> load.left \ {t},
                    deaf |-> load.deaf]
        /\ load.deaf \in BOOLEAN /\ load.archive \in Archive \cup {None} /\ load.left \subseteq Tweet
    BY <1>0, <1>1, <1>2 DEF Z!TypeOK
  <1>4. dropped' \subseteq Tweet /\ cFaults' \in 0..MaxArchiveFault
    BY <1>0, <1>1, <1>3 DEF Z!SkipTweet, Z!Fault, Z!TypeOK, ArchiveConstants
  <1>5. Z!TypeOK'
    BY <1>0, <1>2, <1>3, <1>4, ArchiveLoadType DEF Z!TypeOK
  <1>6. Z!HaveArchive' /\ Z!HandedOver'
    BY <1>1, <1>2, <1>3 DEF Z!IInv, Z!HaveArchive, Z!HandedOver, Z!Handled
  <1>7. Z!ImportingEnds'
    BY <1>2, <1>3, ArchiveGoesOn
  <1>8. QED
    BY <1>2, <1>5, <1>6, <1>7, SameChunks, HandedOverSaves DEF Z!IInv

LEMMA SendTweetInv == ASSUME ArchiveConstants, Z!IInv, Z!SendTweet PROVE Z!IInv'
  <1>0. Z!TypeOK
    BY DEF Z!IInv
  <1>1. PICK t \in load.left \ sink :
            sink' = sink \cup {t} /\ load' = [load EXCEPT !.left = load.left \ {t}]
            /\ Cardinality(sink) <= Buffer
    BY ZCardinality DEF Z!SendTweet
  <1>2. /\ load.pc = "parsing"
        /\ UNCHANGED <<upload, rows, objects, request, posts, jobs, saved, loading,
                       dropped, given, late, cFaults>>
    BY DEF Z!SendTweet, Z!chunks, Z!history
  <1>3. /\ load' = [pc |-> "parsing", archive |-> load.archive, left |-> load.left \ {t},
                    deaf |-> load.deaf] /\ load.deaf \in BOOLEAN
        /\ load.archive \in Archive \cup {None} /\ load.left \subseteq Tweet
    BY <1>0, <1>1, <1>2 DEF Z!TypeOK
  <1>4. sink' \subseteq Tweet /\ Z!Cardinality(sink') <= Buffer + 1
    <2>1. sink \subseteq Tweet /\ IsFiniteSet(sink) /\ Cardinality(sink) \in Nat
      BY <1>0, FS_Subset, FS_CardinalityType DEF Z!TypeOK, ArchiveConstants
    <2>2. Cardinality(sink') = Cardinality(sink) + 1
      BY <1>1, <2>1, FS_AddElement
    <2>3. Cardinality(sink') <= Buffer + 1
      BY <1>1, <2>1, <2>2 DEF ArchiveConstants
    <2>4. QED
      BY <1>1, <1>3, <2>1, <2>3, ZCardinality
  <1>5. Z!TypeOK'
    BY <1>0, <1>2, <1>3, <1>4, ArchiveLoadType DEF Z!TypeOK
  <1>6. Z!HaveArchive' /\ Z!HandedOver'
    BY <1>1, <1>2, <1>3 DEF Z!IInv, Z!HaveArchive, Z!HandedOver, Z!Handled
  <1>7. Z!ImportingEnds'
    BY <1>2, <1>3, ArchiveGoesOn
  <1>8. QED
    BY <1>2, <1>5, <1>6, <1>7, SameChunks, HandedOverSaves DEF Z!IInv

LEMMA EndParsingInv == ASSUME ArchiveConstants, Z!IInv, Z!EndParsing PROVE Z!IInv'
  <1>0. Z!TypeOK
    BY DEF Z!IInv
  <1>1. /\ load' = [load EXCEPT !.pc = "removing"] /\ load.pc = "parsing" /\ load.left = {}
        /\ UNCHANGED <<upload, rows, objects, request, posts, jobs, sink, saved, loading,
                       dropped, given, late, cFaults>>
    BY DEF Z!EndParsing, Z!chunks, Z!history
  <1>2. load' = [pc |-> "removing", archive |-> load.archive, left |-> {}, deaf |-> load.deaf]
        /\ load.deaf \in BOOLEAN /\ load.archive \in Archive \cup {None}
    BY <1>0, <1>1 DEF Z!TypeOK
  <1>3. Z!TypeOK'
    BY <1>0, <1>1, <1>2, ArchiveLoadType DEF Z!TypeOK
  <1>4. Z!HaveArchive' /\ Z!HandedOver'
    BY <1>1, <1>2 DEF Z!IInv, Z!HaveArchive, Z!HandedOver, Z!Handled
  <1>5. Z!ImportingEnds'
    BY <1>1, <1>2, ArchiveGoesOn
  <1>6. QED
    BY <1>1, <1>3, <1>4, <1>5, SameChunks, HandedOverSaves DEF Z!IInv

LEMMA RemoveObjectsInv == ASSUME ArchiveConstants, Z!IInv, Z!RemoveObjects PROVE Z!IInv'
  <1>0. Z!TypeOK
    BY DEF Z!IInv
  <1>1. /\ load' = [load EXCEPT !.pc = "completing"] /\ load.pc = "removing"
        /\ objects' \subseteq objects /\ cFaults' \in 0..MaxArchiveFault
        /\ UNCHANGED <<upload, rows, request, posts, jobs, sink, saved, loading, dropped, given, late>>
    BY <1>0 DEF Z!RemoveObjects, Z!history, Z!Fault, Z!TypeOK, ArchiveConstants
  <1>2. load' = [pc |-> "completing", archive |-> load.archive, left |-> load.left,
                    deaf |-> load.deaf]
        /\ load.deaf \in BOOLEAN /\ load.archive \in Archive \cup {None} /\ load.left \subseteq Tweet
    BY <1>0, <1>1 DEF Z!TypeOK
  <1>3. Z!TypeOK'
    BY <1>0, <1>1, <1>2, ArchiveLoadType DEF Z!TypeOK
  <1>4. Z!HaveArchive' /\ Z!HandedOver'
    BY <1>1, <1>2 DEF Z!IInv, Z!HaveArchive, Z!HandedOver, Z!Handled
  <1>5. Z!ImportingEnds'
    BY <1>1, <1>2, ArchiveGoesOn
  <1>6. QED
    BY <1>1, <1>3, <1>4, <1>5, SameChunks, HandedOverSaves DEF Z!IInv

LEMMA ArchiveCompleteInv == ASSUME ArchiveConstants, Z!IInv, Z!Complete \/ Z!Ack PROVE Z!IInv'
  <1>0. Z!TypeOK
    BY DEF Z!IInv
  <1>1. UNCHANGED <<upload, rows, objects, request, posts, jobs, sink, saved, dropped, given, late, cFaults>>
    BY DEF Z!Complete, Z!Ack, Z!chunks, Z!history
  <1>2. CASE Z!Complete
    <2>1. load' = [load EXCEPT !.pc = "ack"] /\ load.pc = "completing" /\ loading' = "complete"
      BY <1>2 DEF Z!Complete
    <2>2. load' = [pc |-> "ack", archive |-> load.archive, left |-> load.left, deaf |-> load.deaf]
          /\ load.deaf \in BOOLEAN /\ load.archive \in Archive \cup {None} /\ load.left \subseteq Tweet
      BY <1>0, <2>1 DEF Z!TypeOK
    <2>3. Z!TypeOK'
      BY <1>0, <1>1, <2>1, <2>2, ArchiveLoadType DEF Z!TypeOK
    <2>4. Z!HaveArchive' /\ Z!HandedOver'
      BY <1>1, <2>1, <2>2 DEF Z!IInv, Z!HaveArchive, Z!HandedOver, Z!Handled
    <2>5. Z!ImportingEnds'
      BY <2>1 DEF Z!ImportingEnds
    <2>6. QED
      BY <1>1, <2>3, <2>4, <2>5, SameChunks, HandedOverSaves DEF Z!IInv
  <1>3. CASE Z!Ack
    <2>1. load' = [pc |-> "idle", archive |-> None, left |-> {}, deaf |-> FALSE] /\ load.pc = "ack" /\ loading' = loading
      BY <1>3 DEF Z!Ack, Z!Resting
    <2>2. Z!TypeOK'
      BY <1>0, <1>1, <2>1, ArchiveLoadType DEF Z!TypeOK
    <2>3. Z!HaveArchive' /\ Z!HandedOver'
      BY <1>1, <2>1 DEF Z!IInv, Z!HaveArchive, Z!HandedOver, Z!Handled
    <2>4. Z!ImportingEnds'
      BY <1>1, <2>1 DEF Z!IInv, Z!ImportingEnds, Z!Pending
    <2>5. QED
      BY <1>1, <2>2, <2>3, <2>4, SameChunks, HandedOverSaves DEF Z!IInv
  <1>4. QED
    BY <1>2, <1>3

LEMMA ArchiveTaskInv ==
    ASSUME ArchiveConstants, Z!IInv, NEW t \in Tweet, Z!SaveTweet(t) \/ Z!SaveFails(t)
    PROVE  Z!IInv'
  <1>0. Z!TypeOK
    BY DEF Z!IInv
  <1>1. /\ sink' = sink \ {t} /\ UNCHANGED <<upload, rows, objects, request, posts, jobs, load, loading, given, late>>
        /\ saved' \subseteq Tweet /\ dropped' \subseteq Tweet /\ cFaults' \in 0..MaxArchiveFault
        /\ \A s \in Tweet : Z!Handled(s) => Z!Handled(s)'
    <2>1. CASE Z!SaveTweet(t)
      BY <1>0, <2>1 DEF Z!SaveTweet, Z!chunks, Z!history, Z!TypeOK, Z!Handled
    <2>2. CASE Z!SaveFails(t)
      BY <1>0, <2>2 DEF Z!SaveFails, Z!chunks, Z!Fault, Z!TypeOK, Z!Handled, ArchiveConstants
    <2>3. QED
      BY <2>1, <2>2
  <1>2. Z!TypeOK'
    BY <1>0, <1>1, FewerTweets DEF Z!TypeOK
  <1>3. Z!HaveArchive' /\ Z!HandedOver' /\ Z!ImportingEnds'
    BY <1>0, <1>1 DEF Z!IInv, Z!HaveArchive, Z!HandedOver, Z!ImportingEnds, Z!Pending, Z!TypeOK
  <1>4. QED
    BY <1>1, <1>2, <1>3, SameChunks, HandedOverSaves DEF Z!IInv

\* A task that panics loses what it had yet to save, and with it the parser its reader.
LEMMA TaskPanicsInv ==
    ASSUME ArchiveConstants, Z!IInv, NEW t \in Tweet, Z!TaskPanics(t)
    PROVE  Z!IInv'
  <1>0. Z!TypeOK
    BY DEF Z!IInv
  <1>1. PICK lost \in SUBSET (sink \ {t}) :
            sink' = (sink \ {t}) \ lost /\ dropped' = dropped \cup (lost \ saved)
    BY DEF Z!TaskPanics
  <1>2. /\ saved' = saved \cup {t}
        /\ UNCHANGED <<upload, rows, objects, request, posts, jobs, loading, given, late>>
        /\ cFaults' \in 0..MaxArchiveFault
    BY <1>0 DEF Z!TaskPanics, Z!chunks, Z!Fault, Z!TypeOK, ArchiveConstants
  <1>3. /\ load'.pc = load.pc /\ load'.archive = load.archive /\ load'.left = load.left
        /\ load' \in [pc : {"idle", "reading", "parsing", "removing", "completing", "ack"},
                      archive : Archive \cup {None}, left : SUBSET Tweet, deaf : BOOLEAN]
    <2>1. CASE load' = load
      BY <1>0, <2>1 DEF Z!TypeOK
    <2>2. CASE load' = [load EXCEPT !.deaf = TRUE]
      BY <1>0, <2>2 DEF Z!TypeOK
    <2>3. QED
      BY <2>1, <2>2 DEF Z!TaskPanics
  <1>4. /\ sink' \subseteq Tweet /\ Z!Cardinality(sink') <= Buffer + 1
        /\ saved' \subseteq Tweet /\ dropped' \subseteq Tweet
        /\ \A s \in Tweet : Z!Handled(s) => Z!Handled(s)'
    <2>1. sink' \subseteq sink
      BY <1>1
    <2>2. sink' \subseteq Tweet /\ Z!Cardinality(sink') <= Buffer + 1
      BY <1>0, <2>1, FewerTweets
    <2>3. QED
      BY <1>0, <1>1, <1>2, <2>2 DEF Z!TypeOK, Z!Handled
  <1>5. Z!TypeOK'
    BY <1>0, <1>2, <1>3, <1>4 DEF Z!TypeOK
  <1>6. Z!HaveArchive' /\ Z!HandedOver' /\ Z!ImportingEnds'
    BY <1>2, <1>3, <1>4 DEF Z!IInv, Z!HaveArchive, Z!HandedOver, Z!ImportingEnds, Z!Pending
  <1>7. QED
    BY <1>2, <1>5, <1>6, SameChunks, HandedOverSaves DEF Z!IInv

LEMMA ArchiveDieInv == ASSUME ArchiveConstants, Z!IInv, Z!Die \/ Z!DieSaving PROVE Z!IInv'
  <1>0. Z!TypeOK
    BY DEF Z!IInv
  <1>1. /\ sink' = {} /\ dropped' = dropped \cup (sink \ saved) /\ cFaults' \in 0..MaxArchiveFault
        /\ UNCHANGED <<upload, rows, objects, request, posts, saved, loading, late>>
    BY <1>0 DEF Z!Die, Z!DieSaving, Z!chunks, Z!Fault, Z!TypeOK, ArchiveConstants
  <1>2. \A s \in Tweet : Z!Handled(s) => Z!Handled(s)'
    BY <1>1 DEF Z!Handled
  <1>3. sink' \subseteq sink /\ dropped' \subseteq Tweet
    BY <1>0, <1>1 DEF Z!TypeOK
  <1>4. CASE Z!Die
    BY <1>1, <1>2, <1>3, <1>4, ArchiveRedelivered DEF Z!Die
  <1>5. CASE Z!DieSaving
    <2>1. UNCHANGED <<jobs, load, given>>
      BY <1>5 DEF Z!DieSaving
    <2>2. sink' \subseteq Tweet /\ Z!Cardinality(sink') <= Buffer + 1
      BY <1>0, <1>3, FewerTweets
    <2>3. Z!TypeOK'
      BY <1>0, <1>1, <1>3, <2>1, <2>2 DEF Z!TypeOK
    <2>4. Z!HaveArchive' /\ Z!HandedOver'
      BY <1>0, <1>1, <1>2, <2>1 DEF Z!IInv, Z!HaveArchive, Z!HandedOver, Z!TypeOK
    <2>5. Z!ImportingEnds'
      BY <1>1, <2>1 DEF Z!IInv, Z!ImportingEnds, Z!Pending
    <2>6. QED
      BY <1>1, <2>1, <2>3, <2>4, <2>5, SameChunks, HandedOverSaves DEF Z!IInv
  <1>6. QED
    BY <1>4, <1>5

-----------------------------------------------------------------------------
LEMMA ArchiveStep == ASSUME ArchiveConstants, Z!IInv, [Z!Next]_(Z!vars) PROVE Z!IInv'
  <1>1. ASSUME NEW u \in Chunk, Z!CheckSize(u) \/ Z!AddRow(u) \/ Z!PutObject(u) \/ Z!UploadFails(u)
        PROVE  Z!IInv'
    BY <1>1, CheckSizeInv, ArchiveUploadInv
  <1>2. ASSUME NEW q \in Request, Z!ReadAccount(q) \/ Z!EnqueueLoad(q) \/ Z!MarkImporting(q)
        PROVE  Z!IInv'
    BY <1>2, ArchiveRequestInv
  <1>3. CASE Z!Loading
    BY <1>3, ArchiveTakeInv, ReadChunksInv, ArchiveFailsInv, SendTweetInv, SkipTweetInv, EndParsingInv,
       RemoveObjectsInv, ArchiveCompleteInv DEF Z!Loading
  <1>4. CASE Z!Die \/ Z!DieSaving
    BY <1>4, ArchiveDieInv
  <1>5. ASSUME NEW t \in Tweet, Z!SaveTweet(t) \/ Z!SaveFails(t) \/ Z!TaskPanics(t)
        PROVE  Z!IInv'
    BY <1>5, ArchiveTaskInv, TaskPanicsInv
  <1>6. CASE UNCHANGED Z!vars
    <2>1. UNCHANGED <<upload, rows, objects, request, posts, jobs, load, sink, saved, loading,
                      dropped, given, late, cFaults>>
      BY <1>6 DEF Z!vars, Z!chunks, Z!history
    <2>2. Z!TypeOK'
      BY <2>1 DEF Z!IInv, Z!TypeOK
    <2>3. QED
      BY <2>1, <2>2, UploadStep, SameChunks DEF Z!IInv
  <1>7. QED
    BY <1>1, <1>2, <1>3, <1>4, <1>5, <1>6 DEF Z!Next

LEMMA ArchiveInvariant == ASSUME ArchiveConstants PROVE Z!Spec => []Z!IInv
  <1>1. Z!Init => Z!IInv
    BY ArchiveInit
  <1>2. Z!IInv /\ [Z!Next]_(Z!vars) => Z!IInv'
    BY ArchiveStep
  <1>3. QED
    BY <1>1, <1>2, PTL DEF Z!Spec

\* A user's chunks exceed the limit only by the requests that asked for their
\* size at the same time.
THEOREM ArchiveChunksBounded ==
    ASSUME ArchiveConstants PROVE Z!Spec => []ChunksBounded
  <1>1. Z!IInv => ChunksBounded
    BY DEF Z!IInv, ChunksBounded
  <1>2. QED
    BY <1>1, ArchiveInvariant, PTL

\* An account marked complete has its tweets, or lost them in one of the ways
\* named, and one that is importing has a job that will end it, but for a job
\* given up or a request that marked it too late.
THEOREM ArchiveImportEnds ==
    ASSUME ArchiveConstants PROVE Z!Spec => []ImportingEnds
  <1>1. Z!IInv => ImportingEnds
    BY DEF Z!IInv, ImportingEnds
  <1>2. QED
    BY <1>1, ArchiveInvariant, PTL

-----------------------------------------------------------------------------
(* TwitterAccount: the document its handlers share.                          *)

AccountConstants ==
    MaxTweet \in Nat /\ MaxToken \in Nat /\ MaxRow \in Nat /\ MaxAccountFault \in Nat

LEMMA AccountWork ==
    ASSUME NEW kind \in {"idle", "callback", "add", "update", "archive"},
           NEW pc \in {"idle", "granted", "read", "loaded", "saved", "queueing", "queued"},
           NEW r \in 0..MaxRow, NEW seen \in A!Data, NEW new \in 0..(MaxTweet + MaxToken)
    PROVE  [kind |-> kind, pc |-> pc, row |-> r, seen |-> seen, new |-> new] \in A!Work
  BY DEF A!Work

LEMMA AccountIdle ==
    ASSUME AccountConstants
    PROVE  /\ A!Idle \in A!Work /\ A!Idle.kind = "idle" /\ A!Idle.pc = "idle" /\ A!Idle.row = 0
           /\ A!Idle.seen.newest = 0 /\ A!Idle.new = 0 /\ A!Fresh(0) \in A!Data
           /\ A!Fresh(0).newest = 0
  BY DEF A!Idle, A!Work, A!Fresh, A!Data, AccountConstants

LEMMA WorkFields ==
    ASSUME NEW w \in A!Work
    PROVE  /\ w.kind \in {"idle", "callback", "add", "update", "archive"}
           /\ w.pc \in {"idle", "granted", "read", "loaded", "saved", "queueing", "queued"}
           /\ w.row \in 0..MaxRow /\ w.seen \in A!Data /\ w.new \in 0..(MaxTweet + MaxToken)
  BY DEF A!Work

LEMMA DataFields ==
    ASSUME NEW d \in A!Data
    PROVE  /\ d.token \in 0..MaxToken /\ d.newest \in 0..MaxTweet /\ d.imported \in BOOLEAN
           /\ \A n \in 0..MaxTweet : /\ [d EXCEPT !.newest = n] \in A!Data
                 /\ [d EXCEPT !.newest = n].newest = n /\ [d EXCEPT !.newest = n].token = d.token
                 /\ [d EXCEPT !.newest = n].imported = d.imported
           /\ \A k \in 0..MaxToken : /\ [d EXCEPT !.token = k] \in A!Data
                 /\ [d EXCEPT !.token = k].newest = d.newest /\ [d EXCEPT !.token = k].token = k
                 /\ [d EXCEPT !.token = k].imported = d.imported
           /\ /\ [d EXCEPT !.imported = TRUE] \in A!Data
              /\ [d EXCEPT !.imported = TRUE].newest = d.newest /\ [d EXCEPT !.imported = TRUE].token = d.token
              /\ [d EXCEPT !.imported = TRUE].imported = TRUE
  BY DEF A!Data

LEMMA AccountInit == ASSUME AccountConstants, A!Init PROVE A!IInv
  <1>1. /\ tweets = 0 /\ row = 0 /\ bRows = 0 /\ data = A!Fresh(0) /\ tokens = 0 /\ queued = {}
        /\ bFaults = 0 /\ bWork = [h \in Handler |-> A!Idle]
    BY DEF A!Init
  <1>2. A!TypeOK
    <2>1. /\ overlapped \in BOOLEAN /\ bStarted \in BOOLEAN /\ stuck \in BOOLEAN
          /\ want \in [token : 0..MaxToken, imported : BOOLEAN]
      <3>1. /\ overlapped = FALSE /\ bStarted = FALSE /\ stuck = FALSE
            /\ want = [token |-> 0, imported |-> FALSE] /\ 0 \in 0..MaxToken
        BY DEF A!Init, AccountConstants
      <3>2. QED
        BY <3>1
    <2>2. bAdds \in [A!Row -> 0..1] /\ bWork \in [Handler -> A!Work]
      BY AccountIdle DEF A!Init
    <2>3. QED
      BY <1>1, <2>1, <2>2, AccountIdle DEF A!TypeOK, AccountConstants
  <1>3. A!Numbered
    BY <1>1, AccountIdle DEF A!Numbered, A!Fits
  <1>4. A!WritesCovered /\ A!WritesAlone /\ A!NothingSkipped /\ A!LostOnlyByOverlap
    BY <1>1 DEF A!WritesCovered, A!WritesAlone, A!NothingSkipped, A!LostOnlyByOverlap
  <1>5. QED
    BY <1>2, <1>3, <1>4 DEF A!IInv

-----------------------------------------------------------------------------
\* What a handler's step does to bWork.
LEMMA OneHandler ==
    ASSUME bWork \in [Handler -> A!Work], NEW h \in Handler, NEW w \in A!Work,
           bWork' = [bWork EXCEPT ![h] = w]
    PROVE  /\ bWork' \in [Handler -> A!Work] /\ bWork'[h] = w
           /\ \A g \in Handler : g # h => bWork'[g] = bWork[g]
  OBVIOUS

\* A handler's step that leaves the rows and the tweets as they are.
LEMMA StaysNumbered ==
    ASSUME AccountConstants, A!TypeOK, A!Numbered, NEW h \in Handler, NEW w \in A!Work, bWork' = [bWork EXCEPT ![h] = w],
           UNCHANGED <<tweets, bRows, tokens>>, A!Fits(w), data'.newest <= tweets
    PROVE  A!Numbered'
  <1>1. /\ bWork'[h] = w /\ \A g \in Handler : g # h => bWork'[g] = bWork[g]
    BY OneHandler DEF A!TypeOK
  <1>2. \A g \in Handler : A!Fits(bWork[g])
    BY DEF A!Numbered
  <1>3. ASSUME NEW g \in Handler PROVE A!Fits(bWork[g])'
    <2>1. CASE g = h
      <3>1. bWork[g]' = w
        BY <1>1, <2>1
      <3>2. QED
        BY <3>1 DEF A!Fits
    <2>2. CASE g # h
      <3>1. bWork[g]' = bWork[g]
        BY <1>1, <2>2
      <3>2. A!Fits(bWork[g])
        BY <1>2
      <3>3. QED
        BY <3>1, <3>2 DEF A!Fits
    <2>3. QED
      BY <2>1, <2>2
  <1>4. QED
    BY <1>3 DEF A!Numbered

\* What a handler may write stays covered.
LEMMA StaysCovered ==
    ASSUME AccountConstants, A!TypeOK, A!Numbered, A!WritesCovered, A!NothingSkipped,
           NEW h \in Handler, NEW w \in A!Work, bWork' = [bWork EXCEPT ![h] = w],
           UNCHANGED <<row, tweets>>, ~stuck' => ~stuck,
           data'.newest \in 0..tweets,
           row # 0 /\ ~stuck' => \A t \in 1..tweets : A!Covered(t) => A!Covered(t)',
           row # 0 /\ ~stuck' => data' = data \/ \A t \in 1..data'.newest : A!Covered(t)',
           row # 0 /\ ~stuck' /\ w.row = row /\ w.pc \in {"read", "loaded"} =>
               /\ \A t \in 1..w.seen.newest : A!Covered(t)'
               /\ w.kind = "update" /\ w.pc = "loaded" => \A t \in 1..w.new : A!Covered(t)'
    PROVE  A!WritesCovered' /\ A!NothingSkipped'
  <1>1. /\ bWork'[h] = w /\ \A g \in Handler : g # h => bWork'[g] = bWork[g]
    BY OneHandler DEF A!TypeOK, AccountConstants
  <1>2. tweets \in Nat /\ data.newest \in Nat
    <2>1. tweets \in 0..MaxTweet /\ data \in A!Data /\ MaxTweet \in Nat
      BY DEF A!TypeOK, AccountConstants
    <2>2. data.newest \in 0..MaxTweet
      BY <2>1, DataFields
    <2>3. QED
      BY <2>1, <2>2
  <1>3. \A g \in Handler : bWork[g].seen.newest \in Nat /\ bWork[g].new \in Nat
    <2>1. MaxTweet \in Nat /\ MaxToken \in Nat /\ \A g \in Handler : bWork[g] \in A!Work
      BY DEF A!TypeOK, AccountConstants
    <2>2. ASSUME NEW g \in Handler
          PROVE  bWork[g].seen.newest \in 0..MaxTweet /\ bWork[g].new \in 0..(MaxTweet + MaxToken)
      BY <2>1, <2>2, WorkFields, DataFields
    <2>3. QED
      BY <2>1, <2>2
  <1>4. A!NothingSkipped'
    BY <1>2 DEF A!NothingSkipped, A!Numbered
  <1>5. ASSUME row # 0, ~stuck', NEW g \in Handler, bWork'[g].row = row, bWork'[g].pc \in {"read", "loaded"}
        PROVE  /\ \A t \in 1..bWork'[g].seen.newest : A!Covered(t)'
               /\ bWork'[g].kind = "update" /\ bWork'[g].pc = "loaded" =>
                    \A t \in 1..bWork'[g].new : A!Covered(t)'
    <2>1. CASE g = h
      BY <1>1, <1>5, <2>1
    <2>2. CASE g # h
      <3>1. bWork'[g] = bWork[g] /\ g \in A!Writers(row)
        BY <1>1, <1>5, <2>2 DEF A!Writers
      <3>2. \A t \in 1..bWork[g].seen.newest : t \in 1..tweets /\ A!Covered(t)
        BY <1>2, <1>3, <1>5, <3>1 DEF A!WritesCovered, A!Numbered, A!Fits
      <3>3. bWork[g].kind = "update" /\ bWork[g].pc = "loaded" =>
              \A t \in 1..bWork[g].new : t \in 1..tweets /\ A!Covered(t)
        BY <1>2, <1>3, <1>5, <3>1 DEF A!WritesCovered, A!Numbered, A!Fits
      <3>4. QED
        BY <1>5, <3>1, <3>2, <3>3
    <2>3. QED
      BY <2>1, <2>2
  <1>6. A!WritesCovered'
    BY <1>5 DEF A!WritesCovered, A!Writers
  <1>7. QED
    BY <1>4, <1>6

\* What was covered stays so when the imports that wait and the handler's are seen to.
LEMMA KeepsCovered ==
    ASSUME AccountConstants, A!TypeOK,
           NEW h \in Handler, NEW w \in A!Work, bWork' = [bWork EXCEPT ![h] = w],
           row' = row, queued \subseteq queued',
           bAdds[row] = 1 => bAdds'[row] = 1 \/ \A t \in 1..tweets : A!Covered(t)',
           bWork[h].kind = "add" /\ bWork[h].row = row =>
               \A t \in 1..tweets :
                   bWork[h].pc = "read" \/ t <= bWork[h].new => A!Covered(t)'
    PROVE  \A t \in 1..tweets : A!Covered(t) => A!Covered(t)'
  <1>1. /\ bWork'[h] = w /\ \A g \in Handler : g # h => bWork'[g] = bWork[g]
    BY OneHandler DEF A!TypeOK
  <1> SUFFICES ASSUME NEW t \in 1..tweets, A!Covered(t) PROVE A!Covered(t)'
    OBVIOUS
  <1>2. CASE t \in queued
    BY <1>2 DEF A!Covered
  <1>3. CASE bAdds[row] = 1
    BY <1>3 DEF A!Covered
  <1>4. ASSUME NEW g \in Handler, bWork[g].kind = "add", bWork[g].row = row,
               bWork[g].pc = "read" \/ t <= bWork[g].new
        PROVE  A!Covered(t)'
    <2>1. CASE g = h
      BY <1>4, <2>1
    <2>2. CASE g # h
      <3>1. bWork[g]' = bWork[g]
        BY <1>1, <2>2
      <3>2. QED
        BY <1>4, <3>1 DEF A!Covered
    <2>3. QED
      BY <2>1, <2>2
  <1>5. QED
    BY <1>2, <1>3, <1>4 DEF A!Covered

\* A step that neither reads nor writes the document.
LEMMA StaysAlone ==
    ASSUME AccountConstants, A!TypeOK, A!WritesAlone, A!LostOnlyByOverlap,
           NEW h \in Handler, NEW w \in A!Work, bWork' = [bWork EXCEPT ![h] = w],
           UNCHANGED <<row, data, want, overlapped>>,
           w.row = row /\ w.pc \in {"read", "loaded"} =>
               h \in A!Writers(row) /\ w.seen = bWork[h].seen
    PROVE  A!WritesAlone' /\ A!LostOnlyByOverlap'
  <1>1. /\ bWork'[h] = w /\ \A g \in Handler : g # h => bWork'[g] = bWork[g]
    BY OneHandler DEF A!TypeOK
  <1>2. A!Writers(row)' \subseteq A!Writers(row)
    BY <1>1 DEF A!Writers
  <1>3. \A g \in A!Writers(row)' : bWork'[g].seen = bWork[g].seen
    BY <1>1 DEF A!Writers
  <1>4. A!WritesAlone'
    BY <1>2, <1>3 DEF A!WritesAlone
  <1>5. QED
    BY <1>4 DEF A!LostOnlyByOverlap

\* A handler reads the row.
LEMMA ReadsAlone ==
    ASSUME AccountConstants, A!TypeOK, A!WritesAlone, A!LostOnlyByOverlap,
           NEW h \in Handler, NEW w \in A!Work, bWork' = [bWork EXCEPT ![h] = w],
           UNCHANGED <<row, data, want>>, bWork[h].pc \notin {"read", "loaded"},
           w.row = row, w.seen = data, overlapped => overlapped',
           A!Writers(row) # {} => overlapped'
    PROVE  A!WritesAlone' /\ A!LostOnlyByOverlap'
  <1>1. /\ bWork'[h] = w /\ \A g \in Handler : g # h => bWork'[g] = bWork[g]
    BY OneHandler DEF A!TypeOK
  <1>2. A!Writers(row)' \subseteq A!Writers(row) \cup {h}
    BY <1>1 DEF A!Writers
  <1>3. ASSUME ~overlapped', NEW g \in A!Writers(row)'
        PROVE  bWork'[g].seen = data' /\ A!Writers(row)' = {g}
    BY <1>1, <1>2, <1>3
  <1>4. A!WritesAlone'
    BY <1>3 DEF A!WritesAlone
  <1>5. QED
    BY <1>4 DEF A!LostOnlyByOverlap

\* A handler writes what it read.
LEMMA WritesAloneStep ==
    ASSUME AccountConstants, A!TypeOK, A!WritesAlone, A!LostOnlyByOverlap,
           NEW h \in Handler, NEW w \in A!Work, bWork' = [bWork EXCEPT ![h] = w],
           UNCHANGED <<row, overlapped>>, bWork[h].pc \in {"read", "loaded"},
           w.pc \notin {"read", "loaded"},
           bWork[h].row # row => UNCHANGED <<data, want>>,
           bWork[h].row = row /\ bWork[h].seen.token = want.token /\ bWork[h].seen.imported = want.imported =>
               data'.token = want'.token /\ data'.imported = want'.imported
    PROVE  A!WritesAlone' /\ A!LostOnlyByOverlap'
  <1>1. /\ bWork'[h] = w /\ \A g \in Handler : g # h => bWork'[g] = bWork[g]
    BY OneHandler DEF A!TypeOK
  <1>2. A!Writers(row)' = A!Writers(row) \ {h}
    BY <1>1 DEF A!Writers
  <1>3. CASE bWork[h].row # row
    <2>1. \A g \in A!Writers(row)' : g # h /\ g \in A!Writers(row) /\ bWork'[g] = bWork[g]
      BY <1>1, <1>2 DEF A!Writers
    <2>2. A!Writers(row)' = A!Writers(row)
      BY <1>2, <1>3 DEF A!Writers
    <2>3. A!WritesAlone'
      BY <1>3, <2>1, <2>2 DEF A!WritesAlone
    <2>4. QED
      BY <1>3, <2>3 DEF A!LostOnlyByOverlap
  <1>4. CASE bWork[h].row = row
    <2> SUFFICES ASSUME row # 0, ~overlapped
                 PROVE  A!Writers(row)' = {} /\ data'.token = want'.token /\ data'.imported = want'.imported
      BY DEF A!WritesAlone, A!LostOnlyByOverlap
    <2>1. h \in A!Writers(row)
      BY <1>4 DEF A!Writers
    <2>2. bWork[h].seen = data /\ A!Writers(row) = {h}
      BY <2>1 DEF A!WritesAlone
    <2>3. data.token = want.token /\ data.imported = want.imported
      BY DEF A!LostOnlyByOverlap
    <2>4. QED
      BY <1>2, <1>4, <2>2, <2>3
  <1>5. QED
    BY <1>3, <1>4

-----------------------------------------------------------------------------
LEMMA AccountParts ==
    ASSUME AccountConstants, A!IInv
    PROVE  /\ MaxTweet \in Nat /\ MaxToken \in Nat /\ MaxRow \in Nat /\ MaxAccountFault \in Nat
           /\ A!TypeOK /\ A!Numbered /\ A!WritesCovered /\ A!WritesAlone
           /\ A!NothingSkipped /\ A!LostOnlyByOverlap
           /\ tweets \in 0..MaxTweet /\ tokens \in 0..MaxToken /\ bRows \in 0..MaxRow
           /\ row \in 0..bRows /\ data \in A!Data /\ data.newest \in 0..tweets
           /\ \A h \in Handler : /\ bWork[h] \in A!Work /\ A!Fits(bWork[h])
                                 /\ bWork[h].seen \in A!Data
                                 /\ bWork[h].seen.newest \in 0..tweets
  <1>1. A!TypeOK /\ A!Numbered /\ MaxTweet \in Nat
    BY DEF A!IInv, AccountConstants
  <1>2. tweets \in 0..MaxTweet /\ data \in A!Data /\ data.newest \in 0..MaxTweet
    <2>1. tweets \in 0..MaxTweet /\ data \in A!Data
      BY <1>1 DEF A!TypeOK
    <2>2. QED
      BY <2>1, DataFields
  <1>3. data.newest \in 0..tweets
    BY <1>1, <1>2 DEF A!Numbered
  <1>4. ASSUME NEW h \in Handler
        PROVE  /\ bWork[h] \in A!Work /\ A!Fits(bWork[h]) /\ bWork[h].seen \in A!Data
               /\ bWork[h].seen.newest \in 0..tweets
    <2>1. bWork[h] \in A!Work /\ A!Fits(bWork[h])
      BY <1>1, <1>4 DEF A!TypeOK, A!Numbered
    <2>2. bWork[h].seen \in A!Data /\ bWork[h].seen.newest \in 0..MaxTweet
      BY <2>1, WorkFields, DataFields
    <2>3. QED
      BY <1>1, <1>2, <2>1, <2>2 DEF A!Fits
  <1>5. QED
    BY <1>1, <1>2, <1>3, <1>4 DEF A!IInv, A!TypeOK, AccountConstants

LEMMA AccountTweets == ASSUME AccountConstants, A!IInv, A!PostTweet PROVE A!IInv'
  <1> USE AccountParts
  <1>1. /\ tweets' = tweets + 1 /\ tweets' \in 0..MaxTweet
        /\ UNCHANGED <<row, bRows, data, want, bAdds, bWork, tokens, queued, bStarted, stuck,
                       overlapped, bFaults>>
    BY DEF A!PostTweet
  <1>2. A!TypeOK'
    BY <1>1 DEF A!TypeOK, A!Row
  <1>3. A!Numbered'
    <2>1. ASSUME NEW h \in Handler PROVE A!Fits(bWork[h])'
      <3>1. bWork[h]' = bWork[h] /\ A!Fits(bWork[h]) /\ bWork[h].new \in Nat
        BY <1>1, WorkFields
      <3>2. QED
        BY <1>1, <3>1 DEF A!Fits
    <2>2. QED
      BY <1>1, <2>1 DEF A!Numbered
  <1>4. A!WritesCovered' /\ A!WritesAlone' /\ A!NothingSkipped' /\ A!LostOnlyByOverlap'
    BY <1>1 DEF A!WritesCovered, A!WritesAlone, A!NothingSkipped, A!LostOnlyByOverlap,
                A!Writers, A!Covered
  <1>5. QED
    BY <1>2, <1>3, <1>4 DEF A!IInv

LEMMA AccountRemoved == ASSUME AccountConstants, A!IInv, A!RemoveAccount PROVE A!IInv'
  <1> USE AccountParts
  <1>1. /\ row' = 0 /\ data' = A!Fresh(0) /\ want' = [token |-> 0, imported |-> FALSE]
        /\ queued' = {} /\ overlapped' = FALSE /\ bStarted' = FALSE /\ stuck' = FALSE
        /\ UNCHANGED <<tweets, bRows, bAdds, bWork, tokens, bFaults>>
    BY DEF A!RemoveAccount
  <1>2. A!TypeOK'
    <2>1. /\ want' \in [token : 0..MaxToken, imported : BOOLEAN] /\ overlapped' \in BOOLEAN
          /\ bStarted' \in BOOLEAN /\ stuck' \in BOOLEAN
      <3>1. 0 \in 0..MaxToken
        OBVIOUS
      <3>2. QED
        BY <1>1, <3>1
    <2>2. QED
      BY <1>1, <2>1, AccountIdle DEF A!TypeOK, A!Row
  <1>3. A!Numbered'
    <2>1. ASSUME NEW h \in Handler PROVE A!Fits(bWork[h])'
      BY <1>1 DEF A!Fits
    <2>2. QED
      BY <1>1, <2>1, AccountIdle DEF A!Numbered
  <1>4. A!WritesCovered' /\ A!WritesAlone' /\ A!NothingSkipped' /\ A!LostOnlyByOverlap'
    BY <1>1 DEF A!WritesCovered, A!WritesAlone, A!NothingSkipped, A!LostOnlyByOverlap
  <1>5. QED
    BY <1>2, <1>3, <1>4 DEF A!IInv

\* A handler that does not write the document: what is left to show of its step.
LEMMA AccountMoves ==
    ASSUME AccountConstants, A!IInv, NEW h \in Handler, NEW w \in A!Work,
           bWork' = [bWork EXCEPT ![h] = w], UNCHANGED <<tweets, row, bRows, data, want>>,
           A!Fits(w)', bAdds' \in [A!Row -> 0..1], tokens' \in 0..MaxToken, tokens <= tokens',
           queued \subseteq queued', queued' \subseteq 1..MaxTweet, bFaults' \in 0..MaxAccountFault,
           bStarted' \in BOOLEAN, stuck' \in BOOLEAN, ~stuck' => ~stuck,
           \/ UNCHANGED overlapped /\ (w.row = row /\ w.pc \in {"read", "loaded"} =>
                                          h \in A!Writers(row) /\ w.seen = bWork[h].seen)
           \/ /\ overlapped' \in BOOLEAN /\ (overlapped => overlapped')
              /\ A!Writers(row) # {} => overlapped'
              /\ bWork[h].pc \notin {"read", "loaded"} /\ w.row = row /\ w.seen = data,
           row # 0 /\ ~stuck' =>
               /\ bAdds[row] = 1 => bAdds'[row] = 1 \/ \A t \in 1..tweets : A!Covered(t)'
               /\ bWork[h].kind = "add" /\ bWork[h].row = row =>
                     \A t \in 1..tweets :
                         bWork[h].pc = "read" \/ t <= bWork[h].new => A!Covered(t)',
           row # 0 /\ ~stuck' /\ w.row = row /\ w.pc \in {"read", "loaded"} =>
               /\ \A t \in 1..w.seen.newest : A!Covered(t)'
               /\ w.kind = "update" /\ w.pc = "loaded" => \A t \in 1..w.new : A!Covered(t)'
    PROVE  A!IInv'
  <1> USE AccountParts
  <1>1. bWork' \in [Handler -> A!Work] /\ \A g \in Handler : g # h => bWork'[g] = bWork[g]
    BY OneHandler DEF A!TypeOK
  <1>0. bWork'[h] = w
    BY OneHandler DEF A!TypeOK
  <1>2. A!TypeOK'
    <2>1. overlapped' \in BOOLEAN
      BY DEF A!TypeOK
    <2>2. QED
      BY <1>1, <2>1 DEF A!TypeOK, A!Row
  <1>3. A!Numbered'
    <2>1. ASSUME NEW g \in Handler PROVE A!Fits(bWork[g])'
      <3>1. CASE g = h
        <4>1. bWork[g]' = w
          BY <1>0, <3>1
        <4>2. QED
          BY <4>1 DEF A!Fits
      <3>2. CASE g # h
        <4>1. bWork[g]' = bWork[g] /\ A!Fits(bWork[g]) /\ bWork[g].new \in Int
          BY <1>1, <3>2, WorkFields
        <4>2. QED
          BY <4>1 DEF A!Fits
      <3>3. QED
        BY <3>1, <3>2
    <2>2. QED
      BY <2>1 DEF A!Numbered
  <1>4. A!WritesAlone' /\ A!LostOnlyByOverlap'
    BY StaysAlone, ReadsAlone
  <1>5. A!WritesCovered' /\ A!NothingSkipped'
    <2>1. CASE row = 0 \/ stuck'
      BY <2>1 DEF A!WritesCovered, A!NothingSkipped
    <2>2. CASE row # 0 /\ ~stuck'
      <3>1. \A t \in 1..tweets : A!Covered(t) => A!Covered(t)'
        BY <2>2, KeepsCovered
      <3>2. QED
        BY <2>2, <3>1, StaysCovered
    <2>3. QED
      BY <2>1, <2>2
  <1>6. QED
    BY <1>2, <1>3, <1>4, <1>5 DEF A!IInv

\* A handler that reads the row for something to do.
LEMMA AccountReads ==
    ASSUME AccountConstants, A!IInv, NEW h \in Handler, NEW kind \in {"callback", "add", "update", "archive"},
           A!Read(h, kind), row # 0, bWork[h].kind # "add", bWork[h].pc \notin {"read", "loaded"},
           kind # "add" => bAdds' = bAdds, kind = "callback" => bWork[h].new \in 1..tokens, bAdds' \in [A!Row -> 0..1],
           UNCHANGED <<tweets, row, bRows, data, want, tokens, queued, bStarted, stuck, bFaults>>
    PROVE  A!IInv'
  <1> USE AccountParts
  <1>0. PICK w : w = [kind |-> kind, pc |-> "read", row |-> row, seen |-> data, new |-> bWork[h].new]
    OBVIOUS
  <1>1. w \in A!Work
    BY <1>0, WorkFields, AccountWork
  <1>2. bWork' = [bWork EXCEPT ![h] = w] /\ overlapped' = (overlapped \/ A!Writers(row) # {})
    BY <1>0 DEF A!Read
  <1>3. w.kind = kind /\ w.pc = "read" /\ w.row = row /\ w.seen = data /\ w.new = bWork[h].new
    BY <1>0
  <1>4. A!Fits(w)'
    BY <1>3 DEF A!Fits
  <1>5. bWork'[h] = w /\ \A g \in Handler : g # h => bWork'[g] = bWork[g]
    BY <1>1, <1>2, OneHandler DEF A!TypeOK
  <1>6. kind = "add" => \A t \in 1..tweets : A!Covered(t)'
    BY <1>3, <1>5 DEF A!Covered
  <1>7. \A t \in 1..tweets : A!Covered(t) => A!Covered(t)'
    BY <1>1, <1>2, <1>6, KeepsCovered
  <1>8. row # 0 /\ ~stuck => \A t \in 1..w.seen.newest : A!Covered(t)'
    BY <1>3, <1>7 DEF A!NothingSkipped
  <1>9. /\ tokens' \in 0..MaxToken /\ tokens <= tokens' /\ queued' \subseteq 1..MaxTweet
        /\ bFaults' \in 0..MaxAccountFault /\ queued \subseteq queued'
        /\ bStarted' \in BOOLEAN /\ stuck' \in BOOLEAN /\ (~stuck' => ~stuck)
        /\ UNCHANGED <<tweets, row, bRows, data, want>>
    BY DEF A!TypeOK
  <1>10. row # 0 /\ ~stuck' =>
            /\ bAdds[row] = 1 => bAdds'[row] = 1 \/ \A t \in 1..tweets : A!Covered(t)'
            /\ bWork[h].kind = "add" /\ bWork[h].row = row =>
                  \A t \in 1..tweets :
                      bWork[h].pc = "read" \/ t <= bWork[h].new => A!Covered(t)'
    BY <1>6
  <1>11. row # 0 /\ ~stuck' /\ w.row = row /\ w.pc \in {"read", "loaded"} =>
            /\ \A t \in 1..w.seen.newest : A!Covered(t)'
            /\ w.kind = "update" /\ w.pc = "loaded" => \A t \in 1..w.new : A!Covered(t)'
    BY <1>3, <1>8, <1>9
  <1>12. /\ overlapped' \in BOOLEAN /\ (overlapped => overlapped')
         /\ A!Writers(row) # {} => overlapped'
         /\ bWork[h].pc \notin {"read", "loaded"} /\ w.row = row /\ w.seen = data
    BY <1>2, <1>3 DEF A!TypeOK
  <1>13. \/ UNCHANGED overlapped /\ (w.row = row /\ w.pc \in {"read", "loaded"} =>
                                         h \in A!Writers(row) /\ w.seen = bWork[h].seen)
         \/ /\ overlapped' \in BOOLEAN /\ (overlapped => overlapped')
            /\ A!Writers(row) # {} => overlapped'
            /\ bWork[h].pc \notin {"read", "loaded"} /\ w.row = row /\ w.seen = data
    BY <1>12
  <1>14. bWork' = [bWork EXCEPT ![h] = w] /\ bAdds' \in [A!Row -> 0..1]
    BY <1>2
  <1>15. QED
    BY <1>1, <1>4, <1>9, <1>10, <1>11, <1>13, <1>14, AccountMoves

LEMMA AccountGrants == ASSUME AccountConstants, A!IInv, NEW h \in Handler, A!Grant(h) PROVE A!IInv'
  <1> USE AccountParts
  <1>0. PICK w : w = [A!Idle EXCEPT !.kind = "callback", !.pc = "granted", !.new = tokens + 1]
    OBVIOUS
  <1>1. /\ bWork[h].kind = "idle" /\ tokens + 1 \in 0..MaxToken /\ tokens' = tokens + 1
        /\ UNCHANGED <<tweets, row, bRows, data, want, bAdds, queued, bStarted, stuck, overlapped, bFaults>>
    BY DEF A!Grant, A!At
  <1>2. bWork' = [bWork EXCEPT ![h] = w]
    BY <1>0 DEF A!Grant
  <1>3. w \in A!Work /\ w.kind = "callback" /\ w.pc = "granted" /\ w.row = 0 /\ w.new = tokens + 1
        /\ w.seen.newest = 0
    <2>1. /\ A!Idle \in A!Work /\ "callback" \in {"idle", "callback", "add", "update", "archive"}
          /\ tokens + 1 \in 0..(MaxTweet + MaxToken)
      BY <1>1, AccountIdle
    <2>2. w \in A!Work
      BY <1>0, <2>1 DEF A!Work
    <2>3. QED
      BY <1>0, <2>1, <2>2, AccountIdle DEF A!Work
  <1>4. A!Fits(w)'
    BY <1>1, <1>3 DEF A!Fits
  <1>5. /\ bAdds' \in [A!Row -> 0..1] /\ tokens <= tokens' /\ queued' \subseteq 1..MaxTweet
        /\ bFaults' \in 0..MaxAccountFault
        /\ bStarted' \in BOOLEAN /\ stuck' \in BOOLEAN /\ (~stuck' => ~stuck)
    BY <1>1 DEF A!TypeOK, A!Row
  <1>6. QED
    BY <1>1, <1>2, <1>3, <1>4, <1>5, AccountMoves

LEMMA AccountFound ==
    ASSUME AccountConstants, A!IInv, NEW h \in Handler,
           A!FindAccount(h) \/ A!BeginUpdate(h) \/ A!BeginArchive(h) \/ A!BeginAdd(h)
    PROVE  A!IInv'
  <1> USE AccountParts
  <1>0. bAdds \in [A!Row -> 0..1]
    BY DEF A!TypeOK
  <1>1. CASE A!FindAccount(h)
    <2>1. /\ A!Read(h, "callback") /\ row # 0 /\ bWork[h].kind # "add"
          /\ bWork[h].pc \notin {"read", "loaded"} /\ bAdds' = bAdds
          /\ bWork[h].new \in 1..tokens
          /\ UNCHANGED <<tweets, row, bRows, data, want, tokens, queued, bStarted, stuck, bFaults>>
      BY <1>1 DEF A!FindAccount, A!At, A!Fits
    <2>2. QED
      BY <1>0, <2>1, AccountReads
  <1>2. CASE A!BeginUpdate(h)
    <2>1. /\ A!Read(h, "update") /\ row # 0 /\ bWork[h].kind # "add"
          /\ bWork[h].pc \notin {"read", "loaded"} /\ bAdds' = bAdds
          /\ UNCHANGED <<tweets, row, bRows, data, want, tokens, queued, bStarted, stuck, bFaults>>
      BY <1>2 DEF A!BeginUpdate, A!At
    <2>2. QED
      BY <1>0, <2>1, AccountReads
  <1>3. CASE A!BeginArchive(h)
    <2>1. /\ A!Read(h, "archive") /\ row # 0 /\ bWork[h].kind # "add"
          /\ bWork[h].pc \notin {"read", "loaded"} /\ bAdds' = bAdds
          /\ UNCHANGED <<tweets, row, bRows, data, want, tokens, queued, bStarted, stuck, bFaults>>
      BY <1>3 DEF A!BeginArchive, A!At
    <2>2. QED
      BY <1>0, <2>1, AccountReads
  <1>4. CASE A!BeginAdd(h)
    <2>1. PICK r \in A!Row : /\ bAdds[r] = 1 /\ bAdds' = [bAdds EXCEPT ![r] = 0]
                             /\ IF r = row THEN A!Read(h, "add") ELSE UNCHANGED <<bWork, overlapped>>
      BY <1>4 DEF A!BeginAdd
    <2>2. /\ bWork[h].kind = "idle" /\ bWork[h].pc = "idle" /\ r # 0 /\ bAdds' \in [A!Row -> 0..1]
          /\ UNCHANGED <<tweets, row, bRows, data, want, tokens, queued, bStarted, stuck, bFaults>>
      BY <1>0, <1>4, <2>1 DEF A!BeginAdd, A!At, A!Row
    <2>3. CASE r = row
      BY <2>1, <2>2, <2>3, AccountReads
    <2>4. CASE r # row
      <3>1. bWork' = [bWork EXCEPT ![h] = bWork[h]] /\ bAdds'[row] = bAdds[row] /\ UNCHANGED overlapped
        <4>1. UNCHANGED <<bWork, overlapped>>
          BY <2>1, <2>4
        <4>2. bWork' = [bWork EXCEPT ![h] = bWork[h]]
          BY <4>1 DEF A!TypeOK
        <4>3. bAdds'[row] = bAdds[row]
          BY <1>0, <2>1, <2>4
        <4>4. QED
          BY <4>1, <4>2, <4>3
      <3>2. A!Fits(bWork[h])
        OBVIOUS
      <3>3. tokens \in Nat /\ tokens' \in 0..MaxToken /\ queued' \subseteq 1..MaxTweet
            /\ bFaults' \in 0..MaxAccountFault /\ tokens <= tokens' /\ queued \subseteq queued'
            /\ bStarted' \in BOOLEAN /\ stuck' \in BOOLEAN /\ (~stuck' => ~stuck)
        BY <2>2 DEF A!TypeOK
      <3>4. \E w \in A!Work : w = bWork[h] /\ A!Fits(w)'
        BY <2>2, <3>2 DEF A!Fits
      <3>5. QED
        BY <2>2, <3>1, <3>3, <3>4, AccountMoves
    <2>5. QED
      BY <2>3, <2>4
  <1>5. QED
    BY <1>1, <1>2, <1>3, <1>4

LEMMA AccountLoads == ASSUME AccountConstants, A!IInv, NEW h \in Handler, A!LoadAll(h) PROVE A!IInv'
  <1> USE AccountParts
  <1>0. PICK w : w = [bWork[h] EXCEPT !.pc = "loaded", !.new = tweets]
    OBVIOUS
  <1>1. /\ bWork[h].kind = "add" /\ bWork[h].pc = "read" /\ bWork' = [bWork EXCEPT ![h] = w]
        /\ UNCHANGED <<tweets, row, bRows, data, want, bAdds, tokens, queued, bStarted, stuck, overlapped, bFaults>>
    BY <1>0 DEF A!LoadAll, A!At, A!TypeOK
  <1>2. /\ w \in A!Work /\ w.kind = "add" /\ w.pc = "loaded" /\ w.row = bWork[h].row
        /\ w.new = tweets /\ w.seen = bWork[h].seen
    <2>1. tweets \in 0..(MaxTweet + MaxToken) /\ bWork[h] \in A!Work
      OBVIOUS
    <2>2. w = [bWork[h] EXCEPT !.pc = "loaded", !.new = tweets]
      BY <1>0, <2>1
    <2>3. "loaded" \in {"idle", "granted", "read", "loaded", "saved", "queueing", "queued"}
      OBVIOUS
    <2>4. QED
      BY <1>1, <2>1, <2>2 DEF A!Work
  <1>3. A!Fits(w)'
    BY <1>1, <1>2 DEF A!Fits
  <1>4. bWork'[h] = w
    BY <1>1, <1>2, OneHandler DEF A!TypeOK
  <1>5. bWork[h].row = row => \A t \in 1..tweets : A!Covered(t)'
    BY <1>1, <1>2, <1>4 DEF A!Covered
  <1>6. /\ bAdds' \in [A!Row -> 0..1] /\ tokens' \in 0..MaxToken /\ tokens <= tokens'
        /\ queued \subseteq queued' /\ queued' \subseteq 1..MaxTweet
        /\ bFaults' \in 0..MaxAccountFault
        /\ bStarted' \in BOOLEAN /\ stuck' \in BOOLEAN /\ (~stuck' => ~stuck)
    BY <1>1 DEF A!TypeOK, A!Row
  <1>7. w.row = row /\ w.pc \in {"read", "loaded"} => h \in A!Writers(row) /\ w.seen = bWork[h].seen
    BY <1>1, <1>2 DEF A!Writers
  <1>8. row # 0 /\ ~stuck' =>
           /\ bAdds[row] = 1 => bAdds'[row] = 1 \/ \A t \in 1..tweets : A!Covered(t)'
           /\ bWork[h].kind = "add" /\ bWork[h].row = row =>
                 \A t \in 1..tweets :
                     bWork[h].pc = "read" \/ t <= bWork[h].new => A!Covered(t)'
    BY <1>1, <1>5
  <1>9. row # 0 /\ ~stuck' /\ w.row = row /\ w.pc \in {"read", "loaded"} =>
            /\ \A t \in 1..w.seen.newest : A!Covered(t)'
            /\ w.kind = "update" /\ w.pc = "loaded" => \A t \in 1..w.new : A!Covered(t)'
    BY <1>2, <1>5
  <1>10. QED
    BY <1>1, <1>2, <1>3, <1>6, <1>7, <1>8, <1>9, AccountMoves

LEMMA AccountQueues ==
    ASSUME AccountConstants, A!IInv, NEW h \in Handler, A!QueueNew(h) PROVE A!IInv'
  <1> USE AccountParts
  <1>0. PICK w : w = [bWork[h] EXCEPT !.pc = "loaded",
                         !.new = IF tweets > bWork[h].seen.newest THEN tweets
                                 ELSE bWork[h].seen.newest]
    OBVIOUS
  <1>1. /\ bWork[h].kind = "update" /\ bWork[h].pc = "read" /\ bWork' = [bWork EXCEPT ![h] = w]
        /\ UNCHANGED <<tweets, row, bRows, data, want, bAdds, tokens, bStarted, stuck, overlapped, bFaults>>
        /\ queued' = IF bWork[h].row = row
                     THEN queued \cup {t \in 1..tweets : t > bWork[h].seen.newest} ELSE queued
    BY <1>0 DEF A!QueueNew, A!New, A!At, A!TypeOK
  <1>2. /\ w \in A!Work /\ w.kind = "update" /\ w.pc = "loaded" /\ w.row = bWork[h].row
        /\ w.new = tweets /\ w.seen = bWork[h].seen
    <2>1. /\ tweets \in 0..(MaxTweet + MaxToken) /\ bWork[h] \in A!Work
          /\ (IF tweets > bWork[h].seen.newest THEN tweets ELSE bWork[h].seen.newest) = tweets
      OBVIOUS
    <2>2. w = [bWork[h] EXCEPT !.pc = "loaded", !.new = tweets]
      BY <1>0, <2>1
    <2>3. "loaded" \in {"idle", "granted", "read", "loaded", "saved", "queueing", "queued"}
      OBVIOUS
    <2>4. QED
      BY <1>1, <2>1, <2>2 DEF A!Work
  <1>3. A!Fits(w)'
    BY <1>1, <1>2 DEF A!Fits
  <1>4. /\ bAdds' \in [A!Row -> 0..1] /\ tokens' \in 0..MaxToken /\ tokens <= tokens'
        /\ queued \subseteq queued' /\ queued' \subseteq 1..MaxTweet
        /\ bFaults' \in 0..MaxAccountFault
        /\ bStarted' \in BOOLEAN /\ stuck' \in BOOLEAN /\ (~stuck' => ~stuck)
    BY <1>1 DEF A!TypeOK, A!Row
  <1>5. w.row = row /\ w.pc \in {"read", "loaded"} => h \in A!Writers(row) /\ w.seen = bWork[h].seen
    BY <1>1, <1>2 DEF A!Writers
  <1>6. row # 0 /\ ~stuck' =>
           /\ bAdds[row] = 1 => bAdds'[row] = 1 \/ \A t \in 1..tweets : A!Covered(t)'
           /\ bWork[h].kind = "add" /\ bWork[h].row = row =>
                 \A t \in 1..tweets :
                     bWork[h].pc = "read" \/ t <= bWork[h].new => A!Covered(t)'
    BY <1>1
  <1>7. row # 0 /\ ~stuck' /\ w.row = row => \A t \in 1..tweets : A!Covered(t)'
    <2> SUFFICES ASSUME row # 0, ~stuck', w.row = row, NEW t \in 1..tweets PROVE A!Covered(t)'
      OBVIOUS
    <2>1. CASE t > bWork[h].seen.newest
      BY <1>1, <1>2, <2>1 DEF A!Covered
    <2>2. CASE t <= bWork[h].seen.newest
      <3>1. h \in A!Writers(row)
        BY <1>1, <1>2 DEF A!Writers
      <3>2. A!Covered(t)
        BY <1>1, <2>2, <3>1 DEF A!WritesCovered
      <3>3. \A u \in 1..tweets : A!Covered(u) => A!Covered(u)'
        BY <1>1, <1>2, <1>4, <1>6, KeepsCovered
      <3>4. QED
        BY <3>2, <3>3
    <2>3. QED
      BY <2>1, <2>2
  <1>8. row # 0 /\ ~stuck' /\ w.row = row /\ w.pc \in {"read", "loaded"} =>
            /\ \A t \in 1..w.seen.newest : A!Covered(t)'
            /\ w.kind = "update" /\ w.pc = "loaded" => \A t \in 1..w.new : A!Covered(t)'
    BY <1>2, <1>7
  <1>9. QED
    BY <1>1, <1>2, <1>3, <1>4, <1>5, <1>6, <1>8, AccountMoves

\* Steps after which the handler is done, with nothing left to queue.
LEMMA AccountDone ==
    ASSUME AccountConstants, A!IInv, NEW h \in Handler,
           A!EnqueueAddAccount(h) \/ A!AckAdd(h) \/ A!Fail(h)
    PROVE  A!IInv'
  <1> USE AccountParts
  <1>1. /\ UNCHANGED <<tweets, row, bRows, data, want, tokens, bStarted, stuck, overlapped>>
        /\ bWork' = [bWork EXCEPT ![h] = A!Idle]
    BY DEF A!EnqueueAddAccount, A!AckAdd, A!Fail
  <1>2. PICK w : w = A!Idle
    OBVIOUS
  <1>3. A!Idle \in A!Work /\ A!Idle.pc = "idle" /\ A!Idle.kind = "idle" /\ A!Idle.row = 0
        /\ A!Idle.seen.newest = 0
    BY AccountIdle
  <1>4. w \in A!Work /\ w.pc \notin {"read", "loaded"} /\ A!Fits(w)'
    BY <1>1, <1>2, <1>3 DEF A!Fits
  <1>5. bAdds' \in [A!Row -> 0..1] /\ (row # 0 => (bAdds[row] = 1 => bAdds'[row] = 1))
    BY DEF A!EnqueueAddAccount, A!AckAdd, A!Fail, A!TypeOK, A!Row
  <1>6. queued \subseteq queued' /\ queued' \subseteq 1..MaxTweet /\ bFaults' \in 0..MaxAccountFault
    <2>1. queued \subseteq 1..MaxTweet /\ bFaults \in 0..MaxAccountFault
      BY DEF A!TypeOK
    <2>2. CASE A!EnqueueAddAccount(h)
      BY <2>1, <2>2 DEF A!EnqueueAddAccount
    <2>3. CASE A!Fail(h)
      <3>1. bFaults' \in 0..MaxAccountFault
        BY <2>1, <2>3 DEF A!Fail
      <3>2. A!New(h) \subseteq 1..MaxTweet
        <4>1. \A u \in 1..tweets : u \in 1..MaxTweet
          OBVIOUS
        <4>2. QED
          BY <4>1 DEF A!New
      <3>3. PICK some \in SUBSET A!New(h) :
                queued' = IF A!At(h, "update", "read") /\ bWork[h].row = row
                          THEN queued \cup some ELSE queued
        BY <2>3 DEF A!Fail
      <3>4. QED
        BY <2>1, <3>1, <3>2, <3>3
    <2>4. CASE A!AckAdd(h)
      BY <2>1, <2>4 DEF A!AckAdd
    <2>5. QED
      BY <2>2, <2>3, <2>4
  <1>7. row # 0 /\ bWork[h].kind = "add" /\ bWork[h].row = row =>
            \A t \in 1..tweets : bWork[h].pc = "read" \/ t <= bWork[h].new => A!Covered(t)'
    <2>1. CASE A!EnqueueAddAccount(h)
      BY <2>1 DEF A!EnqueueAddAccount, A!At
    <2>2. CASE A!AckAdd(h)
      <3>1. bWork[h].pc = "queued" /\ bWork[h].new = 0
        BY <2>2 DEF A!AckAdd, A!At, A!Fits
      <3>2. QED
        BY <3>1
    <2>3. CASE A!Fail(h)
      BY <2>3 DEF A!Fail
    <2>4. QED
      BY <2>1, <2>2, <2>3
  <1>8. tokens' \in 0..MaxToken /\ tokens <= tokens' /\ bStarted' \in BOOLEAN /\ stuck' \in BOOLEAN
        /\ (~stuck' => ~stuck)
    BY <1>1 DEF A!TypeOK
  <1>9. bWork' = [bWork EXCEPT ![h] = w]
    BY <1>1, <1>2
  <1>10. QED
    BY <1>1, <1>4, <1>5, <1>6, <1>7, <1>8, <1>9, AccountMoves

\* An import fails or is refused its row: it waits again, or the row's imports are stuck.
LEMMA AccountGivesUp ==
    ASSUME AccountConstants, A!IInv, NEW h \in Handler, A!ImportRefused(h) \/ A!FailAdd(h)
    PROVE  A!IInv'
  <1> USE AccountParts
  <1>1. /\ UNCHANGED <<tweets, row, bRows, data, want, tokens, queued, bStarted, overlapped>>
        /\ bWork' = [bWork EXCEPT ![h] = A!Idle]
    BY DEF A!ImportRefused, A!FailAdd
  <1>2. PICK w : w = A!Idle
    OBVIOUS
  <1>3. A!Idle \in A!Work /\ A!Idle.pc = "idle" /\ A!Idle.kind = "idle" /\ A!Idle.row = 0
        /\ A!Idle.seen.newest = 0
    BY AccountIdle
  <1>4. w \in A!Work /\ w.pc \notin {"read", "loaded"} /\ A!Fits(w)'
    BY <1>1, <1>2, <1>3 DEF A!Fits
  <1>5. /\ bAdds \in [A!Row -> 0..1] /\ bFaults \in 0..MaxAccountFault /\ stuck \in BOOLEAN
        /\ queued \subseteq 1..MaxTweet /\ bStarted \in BOOLEAN
    BY DEF A!TypeOK
  <1>6. /\ bAdds' = bAdds \/ bAdds' = [bAdds EXCEPT ![bWork[h].row] = 1]
        /\ stuck' = stuck \/ stuck' = (stuck \/ bWork[h].row = row)
    BY DEF A!ImportRefused, A!FailAdd
  <1>7. bAdds' \in [A!Row -> 0..1] /\ (row # 0 => (bAdds[row] = 1 => bAdds'[row] = 1))
    BY <1>5, <1>6 DEF A!Row
  <1>8. stuck' \in BOOLEAN /\ (~stuck' => ~stuck)
    <2>1. CASE stuck' = stuck
      BY <1>5, <2>1
    <2>2. CASE stuck' = (stuck \/ bWork[h].row = row)
      BY <2>2
    <2>3. QED
      BY <1>6, <2>1, <2>2
  <1>9. bFaults' \in 0..MaxAccountFault /\ tokens' \in 0..MaxToken /\ tokens <= tokens'
        /\ queued \subseteq queued' /\ queued' \subseteq 1..MaxTweet /\ bStarted' \in BOOLEAN
    BY <1>1, <1>5 DEF A!ImportRefused, A!FailAdd
  <1>10. row # 0 /\ ~stuck' /\ bWork[h].row = row => bAdds'[row] = 1
    <2> SUFFICES ASSUME row # 0, ~stuck', bWork[h].row = row PROVE bAdds'[row] = 1
      OBVIOUS
    <2>1. ~A!ImportRefused(h)
      BY DEF A!ImportRefused
    <2>2. A!FailAdd(h)
      BY <2>1
    <2>3. bAdds' = [bAdds EXCEPT ![bWork[h].row] = 1]
      BY <2>2 DEF A!FailAdd
    <2>4. row \in A!Row
      BY DEF A!Row
    <2>5. QED
      BY <1>5, <2>3, <2>4
  <1>11. row # 0 /\ ~stuck' =>
             /\ bAdds[row] = 1 => bAdds'[row] = 1 \/ \A t \in 1..tweets : A!Covered(t)'
             /\ bWork[h].kind = "add" /\ bWork[h].row = row =>
                   \A t \in 1..tweets :
                       bWork[h].pc = "read" \/ t <= bWork[h].new => A!Covered(t)'
    BY <1>1, <1>7, <1>10 DEF A!Covered
  <1>12. bWork' = [bWork EXCEPT ![h] = w]
    BY <1>1, <1>2
  <1>13. QED
    BY <1>1, <1>4, <1>7, <1>8, <1>9, <1>11, <1>12, AccountMoves

\* The import starts and queues its tweets: what it no longer holds is in the queue.
LEMMA AccountImports ==
    ASSUME AccountConstants, A!IInv, NEW h \in Handler, A!StartImport(h) \/ A!QueueOne(h)
    PROVE  A!IInv'
  <1> USE AccountParts
  <1>1. /\ UNCHANGED <<tweets, row, bRows, data, want, bAdds, tokens, stuck, overlapped, bFaults>>
        /\ bWork[h].kind = "add" /\ bWork[h].pc \in {"saved", "queueing"}
        /\ bWork[h].new \in 0..tweets /\ bWork[h].row # 0 /\ bWork[h].seen.newest <= tweets
    BY WorkFields DEF A!StartImport, A!QueueOne, A!At, A!Fits
  <1>2. \E w \in A!Work :
            /\ bWork' = [bWork EXCEPT ![h] = w]
            /\ w.kind = "add" /\ w.row = bWork[h].row /\ w.seen = bWork[h].seen
            /\ \/ w.pc = "queueing" /\ w.new \in 1..tweets
               \/ w.pc = "queued" /\ w.new = 0
            /\ \A t \in 1..tweets :
                 t <= bWork[h].new =>
                    t <= w.new \/ (bWork[h].row = row => t \in queued')
    <2>1. CASE A!StartImport(h)
      <3>1. PICK p : p = IF bWork[h].new > 0 THEN "queueing" ELSE "queued"
        OBVIOUS
      <3>2. PICK w : w = [bWork[h] EXCEPT !.pc = p]
        OBVIOUS
      <3>3. bWork' = [bWork EXCEPT ![h] = w]
        BY <2>1, <3>1, <3>2 DEF A!StartImport, A!Go, A!TypeOK
      <3>4. /\ w \in A!Work /\ w.kind = "add" /\ w.row = bWork[h].row /\ w.seen = bWork[h].seen
            /\ w.pc = p /\ w.new = bWork[h].new
        <4>1. p \in {"idle", "granted", "read", "loaded", "saved", "queueing", "queued"}
          BY <3>1
        <4>2. QED
          BY <1>1, <3>2, <4>1 DEF A!Work
      <3>5. \/ w.pc = "queueing" /\ w.new \in 1..tweets
            \/ w.pc = "queued" /\ w.new = 0
        BY <1>1, <3>1, <3>4
      <3>6. QED
        BY <3>3, <3>4, <3>5
    <2>2. CASE A!QueueOne(h)
      <3>1. PICK p : p = IF bWork[h].new = 1 THEN "queued" ELSE "queueing"
        OBVIOUS
      <3>2. bWork[h].new \in 1..tweets
        BY <1>1, <2>2 DEF A!QueueOne, A!At, A!Fits
      <3>3. PICK n : n = bWork[h].new - 1
        OBVIOUS
      <3>4. PICK w : w = [bWork[h] EXCEPT !.pc = p, !.new = n]
        OBVIOUS
      <3>5. bWork' = [bWork EXCEPT ![h] = w]
        BY <2>2, <3>1, <3>3, <3>4 DEF A!QueueOne, A!TypeOK
      <3>6. n \in 0..(MaxTweet + MaxToken) /\ n \in 0..tweets /\ bWork[h].new = n + 1
        BY <3>2, <3>3
      <3>7. /\ w \in A!Work /\ w.kind = "add" /\ w.row = bWork[h].row /\ w.seen = bWork[h].seen
            /\ w.pc = p /\ w.new = n
        <4>1. p \in {"idle", "granted", "read", "loaded", "saved", "queueing", "queued"}
          BY <3>1
        <4>2. QED
          BY <1>1, <3>4, <3>6, <4>1 DEF A!Work
      <3>8. bWork[h].row = row => bWork[h].new \in queued'
        BY <2>2 DEF A!QueueOne
      <3>9. \/ w.pc = "queueing" /\ w.new \in 1..tweets
            \/ w.pc = "queued" /\ w.new = 0
        BY <3>1, <3>6, <3>7
      <3>10. \A t \in 1..tweets :
               t <= bWork[h].new => t <= w.new \/ (bWork[h].row = row => t \in queued')
        BY <3>6, <3>7, <3>8
      <3>11. QED
        BY <3>5, <3>7, <3>9, <3>10
    <2>3. QED
      BY <2>1, <2>2
  <1>3. PICK w \in A!Work :
            /\ bWork' = [bWork EXCEPT ![h] = w]
            /\ w.kind = "add" /\ w.row = bWork[h].row /\ w.seen = bWork[h].seen
            /\ \/ w.pc = "queueing" /\ w.new \in 1..tweets
               \/ w.pc = "queued" /\ w.new = 0
            /\ \A t \in 1..tweets :
                 t <= bWork[h].new =>
                    t <= w.new \/ (bWork[h].row = row => t \in queued')
    BY <1>2
  <1>4. A!Fits(w)'
    BY <1>1, <1>3 DEF A!Fits
  <1>5. bWork'[h] = w
    BY <1>3, OneHandler DEF A!TypeOK
  <1>6. bWork[h].row = row =>
            \A t \in 1..tweets : bWork[h].pc = "read" \/ t <= bWork[h].new => A!Covered(t)'
    BY <1>1, <1>3, <1>5 DEF A!Covered
  <1>7. /\ queued \subseteq queued' /\ queued' \subseteq 1..MaxTweet
        /\ bStarted' \in BOOLEAN /\ stuck' \in BOOLEAN /\ (~stuck' => ~stuck)
    <2>1. queued \subseteq 1..MaxTweet /\ bStarted \in BOOLEAN /\ stuck \in BOOLEAN
      BY DEF A!TypeOK
    <2>2. CASE A!StartImport(h)
      BY <1>1, <2>1, <2>2 DEF A!StartImport
    <2>3. CASE A!QueueOne(h)
      <3>1. bWork[h].new \in 1..MaxTweet
        BY <1>1, <2>3 DEF A!QueueOne, A!At, A!Fits
      <3>2. QED
        BY <1>1, <2>1, <2>3, <3>1 DEF A!QueueOne
    <2>4. QED
      BY <2>2, <2>3
  <1>8. bAdds' \in [A!Row -> 0..1] /\ tokens' \in 0..MaxToken /\ tokens <= tokens'
        /\ bFaults' \in 0..MaxAccountFault
    BY <1>1 DEF A!TypeOK, A!Row
  <1>9. row # 0 /\ ~stuck' =>
            /\ bAdds[row] = 1 => bAdds'[row] = 1 \/ \A t \in 1..tweets : A!Covered(t)'
            /\ bWork[h].kind = "add" /\ bWork[h].row = row =>
                  \A t \in 1..tweets :
                      bWork[h].pc = "read" \/ t <= bWork[h].new => A!Covered(t)'
    BY <1>1, <1>6
  <1>10. QED
    BY <1>1, <1>3, <1>4, <1>7, <1>8, <1>9, AccountMoves

\* A handler writes the document it read with a field changed.
LEMMA AccountWrites ==
    ASSUME AccountConstants, A!IInv, NEW h \in Handler, NEW w \in A!Work,
           bWork' = [bWork EXCEPT ![h] = w], NEW d \in A!Data,
           UNCHANGED <<tweets, row, bRows, bAdds, tokens, queued, bStarted, stuck, overlapped, bFaults>>,
           bWork[h].pc \in {"read", "loaded"}, w.pc \notin {"read", "loaded"}, A!Fits(w),
           data' = IF bWork[h].row = row THEN d ELSE data, d.newest <= tweets,
           want' \in [token : 0..MaxToken, imported : BOOLEAN],
           bWork[h].row # row => want' = want,
           bWork[h].row = row /\ bWork[h].seen.token = want.token
                  /\ bWork[h].seen.imported = want.imported =>
                  d.token = want'.token /\ d.imported = want'.imported,
           row # 0 /\ ~stuck /\ bWork[h].kind = "add" /\ bWork[h].row = row =>
               \A t \in 1..tweets :
                   bWork[h].pc = "read" \/ t <= bWork[h].new => A!Covered(t)',
           row # 0 /\ ~stuck /\ bWork[h].row = row /\ d.newest # bWork[h].seen.newest =>
               \A t \in 1..d.newest : A!Covered(t)'
    PROVE  A!IInv'
  <1> USE AccountParts
  <1>0. d.newest \in 0..tweets
    BY DEF A!Data
  <1>1. data' \in A!Data /\ data'.newest \in 0..tweets
    BY <1>0
  <1>2. A!TypeOK'
    <2>1. bWork' \in [Handler -> A!Work]
      BY OneHandler DEF A!TypeOK
    <2>2. QED
      BY <1>1, <2>1 DEF A!TypeOK, A!Row
  <1>3. A!Numbered'
    <2>1. data'.newest <= tweets /\ UNCHANGED <<tweets, bRows, tokens>>
      BY <1>1
    <2>2. QED
      BY <2>1, StaysNumbered
  <1>4. A!WritesAlone' /\ A!LostOnlyByOverlap'
    BY WritesAloneStep
  <1>5. A!WritesCovered' /\ A!NothingSkipped'
    <2>1. CASE row = 0 \/ stuck
      BY <2>1 DEF A!WritesCovered, A!NothingSkipped
    <2>2. CASE row # 0 /\ ~stuck
      <3>1. \A t \in 1..tweets : A!Covered(t) => A!Covered(t)'
        BY <2>2, KeepsCovered
      <3>2. bWork[h].row = row => \A t \in 1..d.newest : A!Covered(t)'
        <4>1. CASE d.newest # bWork[h].seen.newest
          BY <2>2, <4>1
        <4>2. CASE d.newest = bWork[h].seen.newest
          <5>1. bWork[h].row = row => h \in A!Writers(row)
            BY DEF A!Writers
          <5>2. bWork[h].row = row => \A t \in 1..bWork[h].seen.newest : A!Covered(t)
            BY <2>2, <5>1 DEF A!WritesCovered
          <5>3. \A t \in 1..bWork[h].seen.newest : t \in 1..tweets
            OBVIOUS
          <5>4. QED
            BY <3>1, <4>2, <5>2, <5>3
        <4>3. QED
          BY <4>1, <4>2
      <3>3. data' = data \/ \A t \in 1..data'.newest : A!Covered(t)'
        BY <3>2
      <3>4. QED
        BY <1>1, <2>2, <3>1, <3>3, StaysCovered
    <2>3. QED
      BY <2>1, <2>2
  <1>6. QED
    BY <1>2, <1>3, <1>4, <1>5 DEF A!IInv

LEMMA AccountSaves ==
    ASSUME AccountConstants, A!IInv, NEW h \in Handler,
           A!SaveToken(h) \/ A!SaveNewest(h) \/ A!SaveImported(h)
    PROVE  A!IInv'
  <1> USE AccountParts
  <1>1. /\ UNCHANGED <<tweets, row, bRows, bAdds, tokens, queued, bStarted, stuck, overlapped, bFaults>>
        /\ bWork' = [bWork EXCEPT ![h] = A!Idle]
        /\ bWork[h].kind # "add" /\ bWork[h].pc \in {"read", "loaded"}
    BY DEF A!SaveToken, A!SaveNewest, A!SaveImported, A!At
  <1>2. PICK w : w = A!Idle
    OBVIOUS
  <1>3. w \in A!Work /\ w.pc \notin {"read", "loaded"} /\ A!Fits(w) /\ bWork' = [bWork EXCEPT ![h] = w]
    BY <1>1, <1>2, AccountIdle DEF A!Fits
  <1>4. want \in [token : 0..MaxToken, imported : BOOLEAN]
    BY DEF A!TypeOK
  <1>5. CASE A!SaveImported(h)
    <2>1. PICK d : d = [bWork[h].seen EXCEPT !.imported = TRUE]
      OBVIOUS
    <2>2. /\ d \in A!Data /\ d.newest = bWork[h].seen.newest /\ d.token = bWork[h].seen.token
          /\ d.imported = TRUE
      BY <2>1 DEF A!Data
    <2>3. /\ data' = IF bWork[h].row = row THEN d ELSE data
          /\ want' = IF bWork[h].row = row THEN [want EXCEPT !.imported = TRUE] ELSE want
      BY <1>5, <2>1 DEF A!SaveImported, A!Write
    <2>4. /\ [want EXCEPT !.imported = TRUE] \in [token : 0..MaxToken, imported : BOOLEAN]
          /\ [want EXCEPT !.imported = TRUE].token = want.token
          /\ [want EXCEPT !.imported = TRUE].imported = TRUE
      BY <1>4
    <2>5. /\ want' \in [token : 0..MaxToken, imported : BOOLEAN]
          /\ bWork[h].row # row => want' = want
          /\ bWork[h].row = row => want'.token = want.token /\ want'.imported = TRUE
      BY <1>4, <2>3, <2>4
    <2>6. bWork[h].row = row /\ bWork[h].seen.token = want.token
                  /\ bWork[h].seen.imported = want.imported =>
                  d.token = want'.token /\ d.imported = want'.imported
      BY <2>2, <2>5
    <2>7. row # 0 /\ ~stuck /\ bWork[h].row = row /\ d.newest # bWork[h].seen.newest =>
              \A t \in 1..d.newest : A!Covered(t)'
      BY <2>2, <2>5
    <2>8. row # 0 /\ ~stuck /\ bWork[h].kind = "add" /\ bWork[h].row = row =>
              \A t \in 1..tweets : bWork[h].pc = "read" \/ t <= bWork[h].new => A!Covered(t)'
      BY <1>1
    <2>9. d.newest <= tweets
      BY <2>2
    <2>10. QED
      BY <1>1, <1>3, <2>2, <2>3, <2>5, <2>6, <2>7, <2>8, <2>9, AccountWrites
  <1>6. CASE A!SaveToken(h)
    <2>1. bWork[h].new \in 0..MaxToken
      <3>1. bWork[h].new \in 1..tokens
        BY <1>6 DEF A!SaveToken, A!At, A!Fits
      <3>2. QED
        BY <3>1
    <2>2. PICK d : d = [bWork[h].seen EXCEPT !.token = bWork[h].new]
      OBVIOUS
    <2>3. /\ d \in A!Data /\ d.newest = bWork[h].seen.newest /\ d.token = bWork[h].new
          /\ d.imported = bWork[h].seen.imported
      BY <2>1, <2>2 DEF A!Data
    <2>4. /\ data' = IF bWork[h].row = row THEN d ELSE data
          /\ want' = IF bWork[h].row = row THEN [want EXCEPT !.token = bWork[h].new] ELSE want
      BY <1>6, <2>2 DEF A!SaveToken, A!Write
    <2>5. /\ [want EXCEPT !.token = bWork[h].new] \in [token : 0..MaxToken, imported : BOOLEAN]
          /\ [want EXCEPT !.token = bWork[h].new].token = bWork[h].new
          /\ [want EXCEPT !.token = bWork[h].new].imported = want.imported
      BY <1>4, <2>1
    <2>6. /\ want' \in [token : 0..MaxToken, imported : BOOLEAN]
          /\ bWork[h].row # row => want' = want
          /\ bWork[h].row = row => want'.token = bWork[h].new /\ want'.imported = want.imported
      BY <1>4, <2>4, <2>5
    <2>7. bWork[h].row = row /\ bWork[h].seen.token = want.token
                  /\ bWork[h].seen.imported = want.imported =>
                  d.token = want'.token /\ d.imported = want'.imported
      BY <2>3, <2>6
    <2>8. row # 0 /\ ~stuck /\ bWork[h].row = row /\ d.newest # bWork[h].seen.newest =>
              \A t \in 1..d.newest : A!Covered(t)'
      BY <2>3, <2>6
    <2>9. row # 0 /\ ~stuck /\ bWork[h].kind = "add" /\ bWork[h].row = row =>
              \A t \in 1..tweets : bWork[h].pc = "read" \/ t <= bWork[h].new => A!Covered(t)'
      BY <1>1
    <2>10. d.newest <= tweets
      BY <2>3
    <2>11. QED
      BY <1>1, <1>3, <2>3, <2>4, <2>6, <2>7, <2>8, <2>9, <2>10, AccountWrites
  <1>7. CASE A!SaveNewest(h)
    <2>1. bWork[h].new \in 0..tweets /\ bWork[h].kind = "update" /\ bWork[h].pc = "loaded"
      BY <1>7, WorkFields DEF A!SaveNewest, A!At, A!Fits
    <2>2. PICK d : d = [bWork[h].seen EXCEPT !.newest = bWork[h].new]
      OBVIOUS
    <2>3. /\ d \in A!Data /\ d.newest = bWork[h].new /\ d.token = bWork[h].seen.token
          /\ d.imported = bWork[h].seen.imported
      BY <2>1, <2>2 DEF A!Data
    <2>4. data' = (IF bWork[h].row = row THEN d ELSE data) /\ want' = want
      BY <1>7, <2>2 DEF A!SaveNewest, A!Write
    <2>5. row # 0 /\ ~stuck /\ bWork[h].row = row => \A t \in 1..d.newest : A!Covered(t)'
      <3> SUFFICES ASSUME row # 0, ~stuck, bWork[h].row = row, NEW t \in 1..d.newest PROVE A!Covered(t)'
        OBVIOUS
      <3>1. h \in A!Writers(row)
        BY <2>1 DEF A!Writers
      <3>2. A!Covered(t) /\ t \in 1..tweets
        BY <2>1, <2>3, <3>1 DEF A!WritesCovered
      <3>3. QED
        BY <1>1, <1>3, <3>2, KeepsCovered
    <2>6. bWork[h].row = row /\ bWork[h].seen.token = want.token
                  /\ bWork[h].seen.imported = want.imported =>
                  d.token = want'.token /\ d.imported = want'.imported
      BY <2>3, <2>4, <2>5
    <2>7. row # 0 /\ ~stuck /\ bWork[h].row = row /\ d.newest # bWork[h].seen.newest =>
              \A t \in 1..d.newest : A!Covered(t)'
      BY <2>3, <2>4, <2>5
    <2>8. row # 0 /\ ~stuck /\ bWork[h].kind = "add" /\ bWork[h].row = row =>
              \A t \in 1..tweets : bWork[h].pc = "read" \/ t <= bWork[h].new => A!Covered(t)'
      BY <1>1
    <2>9. d.newest <= tweets /\ want' \in [token : 0..MaxToken, imported : BOOLEAN]
      BY <1>4, <2>1, <2>3, <2>4
    <2>10. QED
      BY <1>1, <1>3, <2>3, <2>4, <2>6, <2>7, <2>8, <2>9, AccountWrites
  <1>8. QED
    BY <1>5, <1>6, <1>7

LEMMA AccountSavesFirst ==
    ASSUME AccountConstants, A!IInv, NEW h \in Handler, A!SaveFirst(h) PROVE A!IInv'
  <1> USE AccountParts
  <1>0. PICK w : w = [bWork[h] EXCEPT !.pc = "saved", !.seen = A!Fresh(0)]
    OBVIOUS
  <1>1. /\ bWork[h].kind = "add" /\ bWork[h].pc = "loaded" /\ bWork' = [bWork EXCEPT ![h] = w]
        /\ UNCHANGED <<tweets, row, bRows, want, bAdds, tokens, queued, bStarted, stuck, overlapped, bFaults>>
    BY <1>0 DEF A!SaveFirst, A!At, A!Go
  <1>2. /\ w \in A!Work /\ w.kind = "add" /\ w.pc = "saved" /\ w.row = bWork[h].row
        /\ w.new = bWork[h].new /\ w.seen = A!Fresh(0)
    BY <1>0, <1>1, AccountIdle DEF A!Work
  <1>3. bWork[h].new \in 0..tweets /\ A!Fits(w)
    BY <1>1, <1>2, WorkFields, AccountIdle DEF A!Fits
  <1>4. PICK d : d = [bWork[h].seen EXCEPT !.newest = bWork[h].new]
    OBVIOUS
  <1>5. /\ d \in A!Data /\ d.newest = bWork[h].new /\ d.token = bWork[h].seen.token
        /\ d.imported = bWork[h].seen.imported
    BY <1>3, <1>4 DEF A!Data
  <1>6. data' = (IF bWork[h].row = row THEN d ELSE data)
    BY <1>4 DEF A!SaveFirst, A!Write
  <1>7. bWork'[h] = w
    BY <1>1, <1>2, OneHandler DEF A!TypeOK
  <1>8. bWork[h].row = row => \A t \in 1..d.newest : A!Covered(t)'
    BY <1>1, <1>2, <1>5, <1>7 DEF A!Covered
  <1>9. want \in [token : 0..MaxToken, imported : BOOLEAN]
    BY DEF A!TypeOK
  <1>10. row # 0 /\ ~stuck /\ bWork[h].kind = "add" /\ bWork[h].row = row =>
             \A t \in 1..tweets : bWork[h].pc = "read" \/ t <= bWork[h].new => A!Covered(t)'
    BY <1>1, <1>3, <1>5, <1>8
  <1>11. bWork[h].row = row /\ bWork[h].seen.token = want.token
                /\ bWork[h].seen.imported = want.imported =>
                d.token = want'.token /\ d.imported = want'.imported
    BY <1>1, <1>5
  <1>12. d.newest <= tweets /\ want' \in [token : 0..MaxToken, imported : BOOLEAN]
    BY <1>1, <1>3, <1>5, <1>9
  <1>13. QED
    BY <1>1, <1>2, <1>3, <1>5, <1>6, <1>8, <1>10, <1>11, <1>12, AccountWrites

LEMMA AccountCreates ==
    ASSUME AccountConstants, A!IInv, NEW h \in Handler, A!CreateAccount(h) PROVE A!IInv'
  <1> USE AccountParts
  <1>0. PICK n : n = bRows + 1
    OBVIOUS
  <1>1. /\ bWork[h].kind = "callback" /\ bWork[h].pc = "granted" /\ row = 0
        /\ n \in 1..MaxRow /\ bRows' = n /\ row' = n /\ data' = A!Fresh(bWork[h].new)
        /\ want' = [token |-> bWork[h].new, imported |-> FALSE]
        /\ UNCHANGED <<tweets, bAdds, tokens, queued, bStarted, stuck, overlapped, bFaults>>
    BY <1>0 DEF A!CreateAccount, A!At
  <1>2. PICK w : w = [bWork[h] EXCEPT !.pc = "saved", !.row = n]
    OBVIOUS
  <1>3. bWork' = [bWork EXCEPT ![h] = w]
    BY <1>0, <1>1, <1>2 DEF A!CreateAccount, A!TypeOK
  <1>4. /\ w \in A!Work /\ w.kind = "callback" /\ w.pc = "saved" /\ w.row = n
        /\ w.seen = bWork[h].seen
    <2>1. n \in 0..MaxRow /\ bWork[h] \in A!Work
      BY <1>1
    <2>2. QED
      BY <1>1, <1>2, <2>1 DEF A!Work
  <1>5. bWork' \in [Handler -> A!Work] /\ bWork'[h] = w /\ \A g \in Handler : g # h => bWork'[g] = bWork[g]
    BY <1>3, <1>4, OneHandler DEF A!TypeOK
  <1>6. bWork[h].new \in 0..MaxToken
    BY <1>1 DEF A!Fits
  <1>7. data' \in A!Data /\ data'.newest = 0 /\ data'.token = bWork[h].new /\ data'.imported = FALSE
    BY <1>1, <1>6 DEF A!Data, A!Fresh
  <1>8. want' \in [token : 0..MaxToken, imported : BOOLEAN] /\ want'.token = bWork[h].new
        /\ want'.imported = FALSE
    BY <1>1, <1>6
  <1>9. A!TypeOK'
    BY <1>1, <1>5, <1>7, <1>8 DEF A!TypeOK, A!Row
  <1>10. A!Numbered'
    <2>1. ASSUME NEW g \in Handler PROVE A!Fits(bWork[g])'
      <3>1. CASE g = h
        <4>1. bWork[g]' = w
          BY <1>5, <3>1
        <4>2. QED
          BY <1>1, <1>4, <4>1 DEF A!Fits
      <3>2. CASE g # h
        <4>1. bWork[g]' = bWork[g] /\ bWork[g].row \in Int
          BY <1>5, <3>2, WorkFields
        <4>2. QED
          BY <1>0, <1>1, <4>1 DEF A!Fits
      <3>3. QED
        BY <3>1, <3>2
    <2>2. QED
      BY <1>1, <1>7, <2>1 DEF A!Numbered
  <1>11. ASSUME NEW g \in Handler PROVE ~(bWork'[g].row = n /\ bWork'[g].pc \in {"read", "loaded"})
    <2>1. CASE g = h
      BY <1>4, <1>5, <2>1
    <2>2. CASE g # h
      <3>1. bWork'[g] = bWork[g] /\ bWork[g].row <= bRows /\ bWork[g].row \in Int
        BY <1>5, <2>2, WorkFields DEF A!Fits
      <3>2. QED
        BY <1>0, <3>1
    <2>3. QED
      BY <2>1, <2>2
  <1>12. A!Writers(row)' = {}
    BY <1>1, <1>11 DEF A!Writers
  <1>13. A!WritesCovered' /\ A!WritesAlone'
    BY <1>12 DEF A!WritesCovered, A!WritesAlone
  <1>14. A!NothingSkipped' /\ A!LostOnlyByOverlap'
    <2>1. data'.newest = 0 /\ data'.token = want'.token /\ data'.imported = want'.imported
      BY <1>7, <1>8
    <2>2. 1..0 = {}
      OBVIOUS
    <2>3. QED
      BY <2>1, <2>2 DEF A!NothingSkipped, A!LostOnlyByOverlap
  <1>15. QED
    BY <1>9, <1>10, <1>13, <1>14 DEF A!IInv

LEMMA AccountStutters == ASSUME A!IInv, UNCHANGED A!vars PROVE A!IInv'
  BY DEF A!IInv, A!vars, A!TypeOK, A!Numbered, A!Fits, A!WritesCovered, A!WritesAlone,
         A!NothingSkipped, A!LostOnlyByOverlap, A!Writers, A!Covered, A!Row, A!Data, A!Work

LEMMA AccountStep == ASSUME AccountConstants, A!IInv, [A!Next]_(A!vars) PROVE A!IInv'
  <1>1. CASE A!PostTweet
    BY <1>1, AccountTweets
  <1>2. CASE A!RemoveAccount
    BY <1>2, AccountRemoved
  <1>3. ASSUME NEW h \in Handler, A!Step(h) PROVE A!IInv'
    BY <1>3, AccountGrants, AccountFound, AccountLoads, AccountQueues, AccountDone, AccountGivesUp,
       AccountImports, AccountSaves, AccountSavesFirst, AccountCreates DEF A!Step
  <1>4. ASSUME NEW h \in Handler, A!Fail(h) PROVE A!IInv'
    BY <1>4, AccountDone
  <1>5. ASSUME NEW h \in Handler, A!FailAdd(h) PROVE A!IInv'
    BY <1>5, AccountGivesUp
  <1>6. CASE UNCHANGED A!vars
    BY <1>6, AccountStutters
  <1>7. QED
    BY <1>1, <1>2, <1>3, <1>4, <1>5, <1>6 DEF A!Next

LEMMA AccountSafe == ASSUME AccountConstants PROVE A!Spec => []A!IInv
  <1>1. A!Init => A!IInv
    BY AccountInit
  <1>2. A!IInv /\ [A!Next]_(A!vars) => A!IInv'
    BY AccountStep
  <1>3. QED
    BY <1>1, <1>2, PTL DEF A!Spec

\* No tweet of a linked account is passed over.
THEOREM AccountNothingSkipped == ASSUME AccountConstants PROVE A!Spec => []NothingSkipped
  <1>1. A!IInv => NothingSkipped
    BY DEF A!IInv, NothingSkipped
  <1>2. QED
    BY <1>1, AccountSafe, PTL

\* A token or the mark of an archive is lost only to handlers that overlapped.
THEOREM AccountLostOnlyByOverlap == ASSUME AccountConstants PROVE A!Spec => []LostOnlyByOverlap
  <1>1. A!IInv => LostOnlyByOverlap
    BY DEF A!IInv, LostOnlyByOverlap
  <1>2. QED
    BY <1>1, AccountSafe, PTL

-----------------------------------------------------------------------------
(* PatreonCampaign: the webhooks of a campaign.                              *)

CampaignConstants ==
    None \notin Account /\ None \notin User /\ Deleted \notin Account /\ MaxHook \in Nat

\* The steps of a callback between its read of the row and its end.
Relies == {"created", "linked", "listed", "hooked"}

LEMMA CampaignParts ==
    ASSUME P!IInv
    PROVE  /\ P!TypeOK /\ P!HaveAccount /\ P!AloneKnows /\ P!CleanAlone /\ P!LastLinkReceives
           /\ P!OneWebhookAlone /\ dirty \in BOOLEAN
           /\ \A v \in Visitor : visits[v] \in P!Callback
           /\ P!Relying \subseteq Visitor
           /\ \A v \in Visitor : v \in P!Relying <=> visits[v].pc \in Relies
           /\ ~dirty => P!OneWebhook
  <1>1. /\ P!TypeOK /\ P!HaveAccount /\ P!AloneKnows /\ P!CleanAlone /\ P!LastLinkReceives
        /\ P!OneWebhookAlone
    BY DEF P!IInv
  <1>2. ~dirty => P!OneWebhook
    BY <1>1 DEF P!OneWebhookAlone, P!CleanAlone
  <1>3. QED
    BY <1>1, <1>2 DEF P!TypeOK, P!Relying, Relies

\* The sets that have at most one element.
LEMMA CampaignAtMostOne ==
    ASSUME CampaignConstants, NEW W \in SUBSET P!Hook
    PROVE  /\ P!Cardinality(W) <= 1 => \A h \in W : W = {h}
           /\ W = {} => P!Cardinality(W) <= 1
           /\ \A h : W = {h} => P!Cardinality(W) <= 1
  <1>1. \A S : P!Cardinality(S) = Cardinality(S)
    BY DEF P!Cardinality, Cardinality
  <1>2. IsFiniteSet(W)
    <2>1. IsFiniteSet(1..MaxHook)
      BY FS_Interval DEF CampaignConstants
    <2>2. QED
      BY <2>1, FS_Subset DEF P!Hook
  <1>3. ASSUME Cardinality(W) <= 1, NEW h \in W PROVE W = {h}
    <2>1. Cardinality(W) \in Nat /\ Cardinality(W) # 0
      BY <1>2, <1>3, FS_CardinalityType, FS_EmptySet
    <2>2. Cardinality(W) = 1
      BY <1>3, <2>1
    <2>3. \E x : W = {x}
      BY <1>2, <2>2, FS_Singleton
    <2>4. QED
      BY <1>3, <2>3
  <1>4. W = {} => Cardinality(W) <= 1
    BY FS_EmptySet
  <1>5. ASSUME NEW h, W = {h} PROVE Cardinality(W) <= 1
    <2>1. Cardinality(W) = 1
      BY <1>2, <1>5, FS_Singleton
    <2>2. QED
      BY <2>1
  <1>6. QED
    BY <1>1, <1>3, <1>4, <1>5

\* A number of webhooks that is not above one is at most one.
LEMMA CampaignCount ==
    ASSUME CampaignConstants PROVE ~(P!Cardinality(P!Webhooks) > 1) <=> P!Cardinality(P!Webhooks) <= 1
  <1>1. \A S : P!Cardinality(S) = Cardinality(S)
    BY DEF P!Cardinality, Cardinality
  <1>2. IsFiniteSet(P!Webhooks)
    <2>1. IsFiniteSet(1..MaxHook)
      BY FS_Interval DEF CampaignConstants
    <2>2. P!Webhooks \subseteq 1..MaxHook
      BY DEF P!Webhooks, P!Hook
    <2>3. QED
      BY <2>1, <2>2, FS_Subset
  <1>3. Cardinality(P!Webhooks) \in Nat
    BY <1>2, FS_CardinalityType
  <1>4. QED
    BY <1>1, <1>3

LEMMA CampaignOver ==
    ASSUME CampaignConstants PROVE P!Over \in P!Callback /\ P!Over.pc = "over"
  <1>1. P!Waiting \in P!Callback
    BY DEF P!Waiting, P!Callback, CampaignConstants
  <1>2. QED
    BY <1>1 DEF P!Over, P!Callback

\* A visit's step.
LEMMA CampaignVisit ==
    ASSUME P!IInv, NEW v \in Visitor, NEW c \in P!Callback, visits' = [visits EXCEPT ![v] = c]
    PROVE  /\ visits' \in [Visitor -> P!Callback] /\ visits'[v] = c
           /\ \A w \in Visitor : w # v => visits'[w] = visits[w]
           /\ c.pc \in Relies => P!Relying' = P!Relying \cup {v}
           /\ c.pc \notin Relies => P!Relying' = P!Relying \ {v}
  <1>1. /\ visits' \in [Visitor -> P!Callback] /\ visits'[v] = c
        /\ \A w \in Visitor : w # v => visits'[w] = visits[w]
    BY DEF P!IInv, P!TypeOK
  <1>2. QED
    BY <1>1 DEF P!Relying, Relies

-----------------------------------------------------------------------------
\* Steps of the rows: a row that is left keeps its webhook.
LEMMA CampaignRows ==
    ASSUME P!IInv, account' \in [Account -> P!Row \cup {P!NoRow}], logged' \subseteq Account,
           \A a \in Account : account'[a].owner # None =>
               account[a].owner # None /\ account'[a].hook = account[a].hook,
           UNCHANGED <<hooks, visits, last, dirty>>
    PROVE  P!IInv'
  <1> USE CampaignParts
  <1>1. P!TypeOK'
    BY DEF P!TypeOK, P!Hook
  <1>2. /\ P!Relying' = P!Relying /\ P!Webhooks' = P!Webhooks
        /\ \A h : hooks'[h] = hooks[h]
    BY DEF P!Relying, P!Webhooks, P!Hook
  <1>3. P!HaveAccount'
    BY <1>2 DEF P!HaveAccount
  <1>4. \A v \in P!Relying : visits[v].id \in Account
    BY DEF P!HaveAccount
  <1>5. P!AloneKnows'
    BY <1>2, <1>4 DEF P!AloneKnows, P!Exists
  <1>6. last \in Account \cup {None}
    BY DEF P!TypeOK
  <1>7. P!CleanAlone' /\ P!LastLinkReceives'
    BY <1>2, <1>6 DEF P!CleanAlone, P!LastLinkReceives, P!Exists, P!Accepts
  <1>8. P!OneWebhookAlone'
    BY <1>2 DEF P!OneWebhookAlone, P!OneWebhook
  <1>9. QED
    BY <1>1, <1>3, <1>5, <1>7, <1>8 DEF P!IInv

\* A visit that reads no row yet, or that ends without having read one.
LEMMA CampaignOutside ==
    ASSUME P!IInv, NEW v \in Visitor, NEW c \in P!Callback, visits' = [visits EXCEPT ![v] = c],
           v \notin P!Relying, c.pc \notin Relies,
           c.pc \in {"authorized", "granted"} => c.user # None,
           c.pc \in {"idle", "authorized", "granted"} => c.seen = 0,
           UNCHANGED <<account, hooks, logged, last, dirty>>
    PROVE  P!IInv'
  <1> USE CampaignParts
  <1>1. /\ visits' \in [Visitor -> P!Callback] /\ visits'[v] = c /\ P!Relying' = P!Relying
        /\ \A w \in Visitor : w # v => visits'[w] = visits[w]
    <2>1. P!Relying' = P!Relying \ {v}
      BY CampaignVisit
    <2>2. QED
      BY <2>1, CampaignVisit
  <1>2. P!Webhooks' = P!Webhooks /\ \A w \in P!Relying : visits'[w] = visits[w]
    BY <1>1 DEF P!Webhooks, P!Hook
  <1>3. P!TypeOK'
    BY <1>1 DEF P!TypeOK, P!Hook
  <1>4. P!HaveAccount'
    BY <1>1, <1>2 DEF P!HaveAccount, Relies
  <1>5. P!AloneKnows'
    BY <1>1, <1>2 DEF P!AloneKnows, P!Exists
  <1>6. P!CleanAlone' /\ P!LastLinkReceives'
    BY <1>1, <1>2 DEF P!CleanAlone, P!LastLinkReceives, P!Exists, P!Accepts
  <1>7. P!OneWebhookAlone'
    BY <1>2 DEF P!OneWebhookAlone, P!OneWebhook
  <1>8. QED
    BY <1>3, <1>4, <1>5, <1>6, <1>7 DEF P!IInv

\* A callback begins to rely on the row it read, or made.
LEMMA CampaignEnters ==
    ASSUME CampaignConstants, P!IInv, NEW v \in Visitor, visits[v].pc = "granted",
           NEW c \in P!Callback, P!Enter(v, c), c.pc \in {"created", "linked"},
           c.id \in Account, account'[c.id].hook = c.seen,
           account' \in [Account -> P!Row \cup {P!NoRow}],
           \A a \in Account : a # c.id => account'[a] = account[a],
           account'[c.id] = account[c.id] \/ c.id # last,
           UNCHANGED <<hooks, logged, last>>
    PROVE  P!IInv'
  <1> USE CampaignParts
  <1>1. PICK d : d = [c EXCEPT !.alone = (P!Relying = {})]
    OBVIOUS
  <1>2. /\ d \in P!Callback /\ d.pc = c.pc /\ d.id = c.id /\ d.seen = c.seen /\ d.user = c.user
        /\ d.alone = (P!Relying = {})
    <2>1. (P!Relying = {}) \in BOOLEAN
      OBVIOUS
    <2>2. QED
      BY <1>1, <2>1 DEF P!Callback
  <1>3. v \notin P!Relying /\ dirty' = (dirty \/ P!Relying # {})
    BY DEF P!Enter, Relies
  <1>4. ASSUME NEW w \in Visitor
        PROVE  /\ visits'[w] \in P!Callback /\ (w = v => visits'[w] = d)
               /\ w # v /\ w \notin P!Relying => visits'[w] = visits[w]
               /\ w \in P!Relying => /\ visits'[w].pc = visits[w].pc /\ visits'[w].id = visits[w].id
                                     /\ visits'[w].seen = visits[w].seen
                                     /\ visits'[w].hook = visits[w].hook
                                     /\ visits'[w].alone = FALSE
    <2>1. visits'[w] = CASE w = v -> d
                         [] w \in P!Relying -> [visits[w] EXCEPT !.alone = FALSE]
                         [] OTHER -> visits[w]
      BY <1>1 DEF P!Enter
    <2>2. CASE w = v
      BY <1>2, <1>3, <2>1, <2>2
    <2>3. CASE w # v /\ w \notin P!Relying
      BY <2>1, <2>3
    <2>4. CASE w # v /\ w \in P!Relying
      <3>1. visits'[w] = [visits[w] EXCEPT !.alone = FALSE] /\ visits[w] \in P!Callback
        BY <2>1, <2>4
      <3>2. QED
        BY <2>4, <3>1 DEF P!Callback
    <2>5. QED
      BY <2>2, <2>3, <2>4
  <1>5. visits' \in [Visitor -> P!Callback] /\ visits'[v] = d
    <2>1. DOMAIN visits' = Visitor /\ visits' = [w \in Visitor |-> visits'[w]]
      BY DEF P!Enter
    <2>2. QED
      BY <1>4, <2>1
  <1>6. P!Relying' = P!Relying \cup {v}
    <2>1. \A w \in Visitor : w \in P!Relying' <=> visits'[w].pc \in Relies
      BY DEF P!Relying, Relies
    <2>2. P!Relying' \subseteq Visitor
      BY DEF P!Relying
    <2>3. \A w \in Visitor : w \in P!Relying' <=> w \in P!Relying \/ w = v
      BY <1>2, <1>4, <2>1 DEF Relies
    <2>4. QED
      BY <2>2, <2>3
  <1>7. P!Webhooks' = P!Webhooks
    BY DEF P!Webhooks, P!Hook
  <1>8. P!TypeOK'
    BY <1>3, <1>5 DEF P!TypeOK, P!Hook
  <1>9. P!HaveAccount'
    <2>1. ASSUME NEW w \in Visitor
          PROVE  /\ visits'[w].pc \in {"authorized", "granted"} => visits'[w].user # None
                 /\ w \in P!Relying' => visits'[w].id \in Account
                 /\ visits'[w].pc \in {"idle", "authorized", "granted"} => visits'[w].seen = 0
                 /\ visits'[w].pc = "hooked" => visits'[w].hook # 0
      <3>1. CASE w = v
        BY <1>2, <1>4, <3>1
      <3>2. CASE w # v /\ w \in P!Relying
        <4>1. visits'[w].pc = visits[w].pc /\ visits'[w].id = visits[w].id /\ visits'[w].hook = visits[w].hook
          BY <1>4, <3>2
        <4>2. visits[w].pc \in Relies
          BY <3>2
        <4>3. QED
          BY <3>2, <4>1, <4>2 DEF P!HaveAccount, Relies
      <3>3. CASE w # v /\ w \notin P!Relying
        <4>1. visits'[w] = visits[w] /\ w \notin P!Relying'
          BY <1>4, <1>6, <3>3
        <4>2. QED
          BY <4>1 DEF P!HaveAccount
      <3>4. QED
        BY <3>1, <3>2, <3>3
    <2>2. QED
      BY <2>1 DEF P!HaveAccount
  <1>10. P!AloneKnows'
    <2> SUFFICES ASSUME NEW w \in P!Relying', visits'[w].alone
                 PROVE  /\ P!Relying' = {w}
                        /\ P!Exists(visits[w].id)' => account'[visits'[w].id].hook = visits'[w].seen
                        /\ visits'[w].pc \in {"created", "linked"}
      BY DEF P!AloneKnows
    <2>1. w = v /\ P!Relying = {}
      BY <1>2, <1>4, <1>6
    <2>2. QED
      BY <1>2, <1>5, <1>6, <2>1
  <1>11. ~dirty' => ~dirty /\ P!Relying = {} /\ d.alone
    BY <1>2, <1>3
  <1>12. \A h : hooks'[h] = hooks[h]
    OBVIOUS
  <1>13. ~dirty' /\ last # None /\ P!Exists(last)' => \E h \in P!Webhooks' : hooks'[h] = last' /\ P!Accepts(last, h)'
    <2> SUFFICES ASSUME ~dirty', last # None, P!Exists(last)'
                 PROVE  \E h \in P!Webhooks : hooks[h] = last /\ P!Accepts(last, h)'
      BY <1>7, <1>12
    <2>1. last \in Account /\ account'[last] = account[last]
      BY DEF P!TypeOK
    <2>2. \E h \in P!Webhooks : hooks[h] = last /\ P!Accepts(last, h)
      BY <1>11, <2>1 DEF P!LastLinkReceives, P!Exists
    <2>3. QED
      BY <2>1, <2>2 DEF P!Accepts, P!Exists
  <1>14. P!CleanAlone'
    <2>1. ~dirty' => \A w \in P!Relying' : visits'[w].alone
      BY <1>5, <1>6, <1>11
    <2>2. QED
      BY <1>13, <2>1 DEF P!CleanAlone
  <1>15. P!LastLinkReceives'
    BY <1>6 DEF P!LastLinkReceives
  <1>16. P!OneWebhookAlone'
    BY <1>7, <1>11 DEF P!OneWebhookAlone, P!OneWebhook
  <1>17. QED
    BY <1>8, <1>9, <1>10, <1>14, <1>15, <1>16 DEF P!IInv

\* A callback that relies on what it read goes a step further.
LEMMA CampaignGoes ==
    ASSUME CampaignConstants, P!IInv, NEW v \in P!Relying, NEW c \in P!Callback,
           visits' = [visits EXCEPT ![v] = c], c.pc \in {"linked", "listed", "hooked"},
           c.id = visits[v].id, c.seen = visits[v].seen, c.alone = visits[v].alone,
           c.pc = "hooked" => c.hook # 0,
           hooks' \in [P!Hook -> Account \cup {None, Deleted}],
           c.pc = "linked" => visits[v].pc = "created" /\ hooks' = hooks,
           c.alone =>
               /\ c.pc \in {"listed", "hooked"} => P!Webhooks' = {c.hook} \ {0}
               /\ c.pc = "hooked" => hooks'[c.hook] = c.id,
           UNCHANGED <<account, logged, last, dirty>>
    PROVE  P!IInv'
  <1> USE CampaignParts
  <1>1. v \in Visitor /\ c.pc \in Relies
    BY DEF Relies
  <1>2. /\ visits' \in [Visitor -> P!Callback] /\ visits'[v] = c /\ P!Relying' = P!Relying
        /\ \A w \in Visitor : w # v => visits'[w] = visits[w]
    <2>1. P!Relying' = P!Relying \cup {v}
      BY <1>1, CampaignVisit
    <2>2. P!Relying \cup {v} = P!Relying
      OBVIOUS
    <2>3. QED
      BY <1>1, <2>1, <2>2, CampaignVisit
  <1>3. P!TypeOK'
    BY <1>2 DEF P!TypeOK, P!Hook
  <1>4. P!HaveAccount'
    <2>1. ASSUME NEW w \in Visitor
          PROVE  /\ visits'[w].pc \in {"authorized", "granted"} => visits'[w].user # None
                 /\ w \in P!Relying' => visits'[w].id \in Account
                 /\ visits'[w].pc \in {"idle", "authorized", "granted"} => visits'[w].seen = 0
                 /\ visits'[w].pc = "hooked" => visits'[w].hook # 0
      BY <1>1, <1>2 DEF P!HaveAccount
    <2>2. QED
      BY <2>1 DEF P!HaveAccount
  <1>5. \A w \in P!Relying : visits'[w].alone => w = v /\ P!Relying = {v} /\ visits[v].alone
    BY <1>1, <1>2 DEF P!AloneKnows
  <1>6. P!AloneKnows'
    <2> SUFFICES ASSUME NEW w \in P!Relying, visits'[w].alone
                 PROVE  /\ P!Relying = {w}
                        /\ P!Exists(visits[w].id)' => account'[visits'[w].id].hook = visits'[w].seen
                        /\ visits'[w].pc \in {"listed", "hooked"} => P!Webhooks' = {visits'[w].hook} \ {0}
                        /\ visits'[w].pc = "hooked" => hooks'[visits'[w].hook] = visits'[w].id
      BY <1>2 DEF P!AloneKnows
    <2>1. w = v /\ P!Relying = {v} /\ visits[v].alone /\ visits'[w] = c
      BY <1>2, <1>5
    <2>2. P!Exists(visits[v].id) => account[visits[v].id].hook = visits[v].seen
      BY <2>1 DEF P!AloneKnows
    <2>3. P!Exists(visits[w].id)' => P!Exists(visits[v].id)
      BY <2>1 DEF P!Exists
    <2>4. QED
      BY <2>1, <2>2, <2>3
  <1>7. ~dirty => P!Relying = {v} /\ visits[v].alone
    BY <1>1 DEF P!CleanAlone, P!AloneKnows
  <1>8. P!CleanAlone'
    <2>1. ~dirty => \A w \in P!Relying : visits'[w].alone
      BY <1>2, <1>7
    <2>2. CASE c.pc = "linked"
      <3>1. P!Webhooks' = P!Webhooks /\ \A h : hooks'[h] = hooks[h]
        BY <2>2 DEF P!Webhooks
      <3>2. ~dirty /\ last # None /\ P!Exists(last) => \E h \in P!Webhooks : hooks[h] = last /\ P!Accepts(last, h)
        BY <1>7, <2>2 DEF P!CleanAlone
      <3>3. QED
        BY <1>2, <2>1, <3>1, <3>2 DEF P!CleanAlone, P!Exists, P!Accepts
    <2>3. CASE c.pc # "linked"
      <3>1. visits'[v].pc \notin {"created", "linked"}
        BY <1>2, <2>3
      <3>2. QED
        BY <1>1, <1>2, <2>1, <3>1 DEF P!CleanAlone
    <2>4. QED
      BY <2>2, <2>3
  <1>9. P!LastLinkReceives'
    BY <1>1, <1>2 DEF P!LastLinkReceives
  <1>10. ~dirty => P!Cardinality(P!Webhooks') <= 1
    <2>1. CASE c.pc = "linked"
      <3>1. P!Webhooks' = P!Webhooks
        BY <2>1 DEF P!Webhooks
      <3>2. QED
        BY <3>1 DEF P!OneWebhook
    <2>2. CASE c.pc # "linked" /\ ~dirty
      <3>1. P!Webhooks' = {c.hook} \ {0}
        BY <1>7, <2>2
      <3>2. P!Webhooks' = {} \/ P!Webhooks' = {c.hook}
        BY <3>1
      <3>3. P!Webhooks' \in SUBSET P!Hook
        BY DEF P!Webhooks, P!Hook
      <3>4. QED
        BY <3>2, <3>3, CampaignAtMostOne
    <2>3. QED
      BY <2>1, <2>2
  <1>11. P!OneWebhookAlone'
    BY <1>10 DEF P!OneWebhookAlone, P!OneWebhook
  <1>12. QED
    BY <1>3, <1>4, <1>6, <1>8, <1>9, <1>11 DEF P!IInv

\* A callback that read no row ends, or one that did and found the webhooks as they are.
LEMMA CampaignLeaves ==
    ASSUME CampaignConstants, P!IInv, NEW v \in P!Relying,
           visits' = [visits EXCEPT ![v] = P!Over],
           account' \in [Account -> P!Row \cup {P!NoRow}], last' \in Account \cup {None},
           dirty' \in BOOLEAN, UNCHANGED <<hooks, logged>>,
           ~dirty' =>
               /\ visits[v].alone /\ P!Cardinality(P!Webhooks) <= 1
               /\ last' # None /\ account'[last'].owner # None =>
                      \E h \in P!Webhooks : hooks[h] = last' /\ account'[last'].hook = h
    PROVE  P!IInv'
  <1> USE CampaignParts
  <1>1. PICK c : c = P!Over
    OBVIOUS
  <1>2. c \in P!Callback /\ c.pc = "over" /\ v \in Visitor
    BY <1>1, CampaignOver
  <1>3. /\ visits' \in [Visitor -> P!Callback] /\ visits'[v] = c /\ P!Relying' = P!Relying \ {v}
        /\ \A w \in Visitor : w # v => visits'[w] = visits[w]
    <2>1. c.pc \notin Relies /\ visits' = [visits EXCEPT ![v] = c]
      BY <1>1, <1>2 DEF Relies
    <2>2. QED
      BY <1>2, <2>1, CampaignVisit
  <1>4. P!Webhooks' = P!Webhooks
    BY DEF P!Webhooks, P!Hook
  <1>5. P!TypeOK'
    BY <1>3 DEF P!TypeOK, P!Hook
  <1>6. P!HaveAccount'
    <2>1. ASSUME NEW w \in Visitor
          PROVE  /\ visits'[w].pc \in {"authorized", "granted"} => visits'[w].user # None
                 /\ w \in P!Relying' => visits'[w].id \in Account
                 /\ visits'[w].pc \in {"idle", "authorized", "granted"} => visits'[w].seen = 0
                 /\ visits'[w].pc = "hooked" => visits'[w].hook # 0
      BY <1>2, <1>3 DEF P!HaveAccount
    <2>2. QED
      BY <2>1 DEF P!HaveAccount
  <1>7. P!AloneKnows'
    <2> SUFFICES ASSUME NEW w \in P!Relying', visits'[w].alone PROVE FALSE
      BY DEF P!AloneKnows
    <2>1. w \in P!Relying /\ w # v /\ visits[w].alone
      BY <1>3
    <2>2. P!Relying = {w}
      BY <2>1 DEF P!AloneKnows
    <2>3. QED
      BY <2>1, <2>2
  <1>8. ~dirty' => P!Relying' = {}
    BY <1>3 DEF P!AloneKnows
  <1>9. P!CleanAlone' /\ P!LastLinkReceives'
    BY <1>4, <1>8 DEF P!CleanAlone, P!LastLinkReceives, P!Exists, P!Accepts
  <1>10. P!OneWebhookAlone'
    BY <1>4 DEF P!OneWebhookAlone, P!OneWebhook
  <1>11. QED
    BY <1>5, <1>6, <1>7, <1>9, <1>10 DEF P!IInv

-----------------------------------------------------------------------------
LEMMA CampaignInit == ASSUME CampaignConstants, P!Init PROVE P!IInv
  <1>1. /\ account = [a \in Account |-> P!NoRow] /\ hooks = [h \in P!Hook |-> None]
        /\ visits = [v \in Visitor |-> P!Waiting] /\ logged = {} /\ last = None /\ dirty = FALSE
    BY DEF P!Init
  <1>2. /\ P!Waiting \in P!Callback /\ P!Waiting.pc = "idle" /\ P!Waiting.seen = 0
    BY DEF P!Waiting, P!Callback, CampaignConstants
  <1>3. P!TypeOK
    BY <1>1, <1>2 DEF P!TypeOK
  <1>4. P!Relying = {}
    BY <1>1, <1>2 DEF P!Relying
  <1>5. P!HaveAccount
    BY <1>1, <1>2, <1>4 DEF P!HaveAccount
  <1>6. P!AloneKnows /\ P!CleanAlone /\ P!LastLinkReceives
    BY <1>1, <1>4 DEF P!AloneKnows, P!CleanAlone, P!LastLinkReceives
  <1>7. P!OneWebhookAlone
    <2>1. P!Webhooks = {} /\ P!Webhooks \in SUBSET P!Hook
      BY <1>1 DEF P!Webhooks, CampaignConstants
    <2>2. QED
      BY <2>1, CampaignAtMostOne DEF P!OneWebhookAlone, P!OneWebhook
  <1>8. QED
    BY <1>3, <1>5, <1>6, <1>7 DEF P!IInv

LEMMA CampaignRowSteps ==
    ASSUME CampaignConstants, P!IInv,
           \/ \E a \in Account : P!Refresh(a) \/ P!Expire(a) \/ P!RemoveAccount(a)
           \/ \E h \in P!Hook : P!WebhookPost(h)
           \/ UNCHANGED P!vars
    PROVE  P!IInv'
  <1> USE CampaignParts
  <1>0. account \in [Account -> P!Row \cup {P!NoRow}] /\ logged \subseteq Account
    BY DEF P!TypeOK
  <1>1. ASSUME NEW a \in Account, P!Exists(a)
        PROVE  account[a] \in P!Row
    BY <1>0, <1>1 DEF P!Exists, P!NoRow
  <1>2. ASSUME NEW a \in Account, P!Refresh(a) \/ P!Expire(a) PROVE P!IInv'
    <2>1. PICK cred \in {"fresh", "expired"} : account' = [account EXCEPT ![a].cred = cred]
      BY <1>2 DEF P!Refresh, P!Expire
    <2>2. account[a] \in P!Row /\ UNCHANGED <<hooks, visits, logged, last, dirty>>
      BY <1>1, <1>2 DEF P!Refresh, P!Expire
    <2>3. PICK r : r = [account[a] EXCEPT !.cred = cred]
      OBVIOUS
    <2>4. r \in P!Row /\ r.hook = account[a].hook /\ account[a].owner # None
      <3>1. account[a].owner # None
        BY <1>2 DEF P!Refresh, P!Expire, P!Exists
      <3>2. QED
        BY <2>2, <2>3, <3>1 DEF P!Row
    <2>5. account' = [account EXCEPT ![a] = r]
      BY <1>0, <2>1, <2>3
    <2>6. QED
      BY <1>0, <2>2, <2>4, <2>5, CampaignRows
  <1>3. ASSUME NEW a \in Account, P!RemoveAccount(a) PROVE P!IInv'
    <2>1. /\ account' = [account EXCEPT ![a] = P!NoRow] /\ logged' \subseteq Account
          /\ UNCHANGED <<hooks, visits, last, dirty>>
      BY <1>0, <1>3 DEF P!RemoveAccount
    <2>2. P!NoRow.owner = None
      BY DEF P!NoRow
    <2>3. QED
      BY <1>0, <2>1, <2>2, CampaignRows
  <1>4. ASSUME NEW h \in P!Hook, P!WebhookPost(h) PROVE P!IInv'
    <2>1. logged' \subseteq Account /\ UNCHANGED <<account, hooks, visits, last, dirty>>
      BY <1>0, <1>4 DEF P!WebhookPost, P!Webhooks
    <2>2. QED
      BY <1>0, <2>1, CampaignRows
  <1>5. CASE UNCHANGED P!vars
    BY <1>0, <1>5, CampaignRows DEF P!vars
  <1>6. QED
    BY <1>2, <1>3, <1>4, <1>5

\* A webhook is deleted at Patreon: no callback is alone any more.
LEMMA CampaignDeletes ==
    ASSUME CampaignConstants, P!IInv, NEW g \in P!Hook, P!DeleteWebhook(g) PROVE P!IInv'
  <1> USE CampaignParts
  <1>1. /\ hooks' = [hooks EXCEPT ![g] = Deleted] /\ dirty' = TRUE
        /\ UNCHANGED <<account, logged, last>>
    BY DEF P!DeleteWebhook
  <1>2. ASSUME NEW w \in Visitor
        PROVE  /\ visits'[w] \in P!Callback /\ visits'[w].pc = visits[w].pc
               /\ visits'[w].id = visits[w].id /\ visits'[w].user = visits[w].user
               /\ visits'[w].seen = visits[w].seen /\ visits'[w].hook = visits[w].hook
               /\ w \in P!Relying => visits'[w].alone = FALSE
    <2>1. visits'[w] = IF w \in P!Relying THEN [visits[w] EXCEPT !.alone = FALSE] ELSE visits[w]
      BY DEF P!DeleteWebhook
    <2>2. QED
      BY <2>1 DEF P!Callback
  <1>3. P!Relying' = P!Relying
    BY <1>2 DEF P!Relying
  <1>4. P!TypeOK'
    <2>1. visits' = [w \in Visitor |-> visits'[w]]
      BY DEF P!DeleteWebhook
    <2>2. visits' \in [Visitor -> P!Callback]
      BY <1>2, <2>1
    <2>3. QED
      BY <1>1, <2>2 DEF P!TypeOK, P!Hook
  <1>5. P!HaveAccount'
    BY <1>2, <1>3 DEF P!HaveAccount
  <1>6. P!AloneKnows'
    BY <1>2, <1>3 DEF P!AloneKnows
  <1>7. P!CleanAlone' /\ P!LastLinkReceives' /\ P!OneWebhookAlone'
    BY <1>1 DEF P!CleanAlone, P!LastLinkReceives, P!OneWebhookAlone
  <1>8. QED
    BY <1>4, <1>5, <1>6, <1>7 DEF P!IInv

LEMMA CampaignStarts ==
    ASSUME CampaignConstants, P!IInv, NEW v \in Visitor,
           (\E u \in User : P!Auth(v, u)) \/ P!Grant(v)
    PROVE  P!IInv'
  <1> USE CampaignParts
  <1>0. visits[v].seen = 0 /\ visits[v].pc \notin Relies /\ v \notin P!Relying
    BY DEF P!Auth, P!Grant, P!HaveAccount, Relies
  <1>1. ASSUME NEW u \in User, P!Auth(v, u) PROVE P!IInv'
    <2>1. PICK c : c = [visits[v] EXCEPT !.pc = "authorized", !.user = u]
      OBVIOUS
    <2>2. c \in P!Callback /\ c.pc = "authorized" /\ c.user = u /\ c.seen = 0
      BY <1>0, <2>1 DEF P!Callback
    <2>3. visits' = [visits EXCEPT ![v] = c] /\ UNCHANGED <<account, hooks, logged, last, dirty>>
      BY <1>1, <2>1 DEF P!Auth, P!TypeOK
    <2>4. u # None
      BY DEF CampaignConstants
    <2>5. QED
      BY <1>0, <2>2, <2>3, <2>4, CampaignOutside DEF Relies
  <1>2. CASE P!Grant(v)
    <2>1. PICK c : c = [visits[v] EXCEPT !.pc = "granted"]
      OBVIOUS
    <2>2. c \in P!Callback /\ c.pc = "granted" /\ c.user = visits[v].user /\ c.seen = 0
      BY <1>0, <2>1 DEF P!Callback
    <2>3. visits' = [visits EXCEPT ![v] = c] /\ UNCHANGED <<account, hooks, logged, last, dirty>>
      BY <1>2, <2>1 DEF P!Grant, P!TypeOK
    <2>4. visits[v].user # None
      BY <1>2 DEF P!Grant, P!HaveAccount
    <2>5. QED
      BY <1>0, <2>2, <2>3, <2>4, CampaignOutside DEF Relies
  <1>3. QED
    BY <1>1, <1>2

LEMMA CampaignFinds ==
    ASSUME CampaignConstants, P!IInv, NEW v \in Visitor, P!FindAccount(v) PROVE P!IInv'
  <1> USE CampaignParts
  <1>1. PICK a \in Account :
            /\ account[a].owner = visits[v].user
            /\ P!Enter(v, [visits[v] EXCEPT !.pc = "linked", !.id = a, !.seen = account[a].hook])
    BY DEF P!FindAccount
  <1>2. visits[v].pc = "granted" /\ UNCHANGED <<account, hooks, logged, last>>
    BY DEF P!FindAccount
  <1>3. account[a] \in P!Row \cup {P!NoRow} /\ account \in [Account -> P!Row \cup {P!NoRow}]
    BY DEF P!TypeOK
  <1>4. account[a].hook \in 0..MaxHook
    BY <1>3 DEF P!Row, P!NoRow, CampaignConstants
  <1>5. PICK c : c = [visits[v] EXCEPT !.pc = "linked", !.id = a, !.seen = account[a].hook]
    OBVIOUS
  <1>6. c \in P!Callback /\ c.pc = "linked" /\ c.id = a /\ c.seen = account[a].hook
    BY <1>4, <1>5 DEF P!Callback
  <1>7. P!Enter(v, c)
    BY <1>1, <1>5
  <1>8. QED
    BY <1>2, <1>3, <1>6, <1>7, CampaignEnters

LEMMA CampaignCreates ==
    ASSUME CampaignConstants, P!IInv, NEW v \in Visitor, P!CreateAccount(v) PROVE P!IInv'
  <1> USE CampaignParts
  <1>1. PICK a \in Account :
            /\ a # last
            /\ account' = [account EXCEPT ![a] =
                             [owner |-> visits[v].user, hook |-> 0, cred |-> "fresh"]]
            /\ P!Enter(v, [visits[v] EXCEPT !.pc = "created", !.id = a])
    BY DEF P!CreateAccount
  <1>2. visits[v].pc = "granted" /\ UNCHANGED <<hooks, logged, last>>
    BY DEF P!CreateAccount
  <1>3. visits[v].user \in User /\ visits[v].seen = 0
    BY <1>2 DEF P!HaveAccount, P!Callback
  <1>4. PICK r : r = [owner |-> visits[v].user, hook |-> 0, cred |-> "fresh"]
    OBVIOUS
  <1>5. r \in P!Row /\ r.hook = 0
    BY <1>3, <1>4 DEF P!Row, CampaignConstants
  <1>6. /\ account' \in [Account -> P!Row \cup {P!NoRow}] /\ account'[a].hook = 0
        /\ \A b \in Account : b # a => account'[b] = account[b]
    BY <1>1, <1>4, <1>5 DEF P!TypeOK
  <1>7. PICK c : c = [visits[v] EXCEPT !.pc = "created", !.id = a]
    OBVIOUS
  <1>8. c \in P!Callback /\ c.pc = "created" /\ c.id = a /\ c.seen = 0
    BY <1>3, <1>7 DEF P!Callback
  <1>9. P!Enter(v, c)
    BY <1>1, <1>7
  <1>10. QED
    BY <1>1, <1>2, <1>6, <1>8, <1>9, CampaignEnters

\* One webhook, or none, that the list showed.
LEMMA CampaignListed ==
    ASSUME CampaignConstants, P!IInv, P!Cardinality(P!Webhooks) <= 1,
           NEW h \in IF P!Webhooks = {} THEN {0} ELSE P!Webhooks
    PROVE  h \in 0..MaxHook /\ P!Webhooks = {h} \ {0}
  <1>1. P!Webhooks \in SUBSET P!Hook /\ 0 \notin P!Hook /\ MaxHook \in Nat
    BY DEF P!Webhooks, P!Hook, CampaignConstants
  <1>2. CASE P!Webhooks = {}
    BY <1>1, <1>2
  <1>3. CASE P!Webhooks # {}
    <2>1. h \in P!Webhooks
      BY <1>3
    <2>2. P!Webhooks = {h}
      BY <1>1, <2>1, CampaignAtMostOne
    <2>3. QED
      BY <1>1, <2>1, <2>2 DEF P!Hook
  <1>4. QED
    BY <1>2, <1>3

LEMMA CampaignProceeds ==
    ASSUME CampaignConstants, P!IInv, NEW v \in Visitor,
           \/ P!EnqueueAddAccount(v) \/ P!PatchWebhook(v) \/ P!CreateWebhook(v)
           \/ (P!ListWebhooks(v) /\ P!Cardinality(P!Webhooks) <= 1)
    PROVE  P!IInv'
  <1> USE CampaignParts
  <1>0. v \in P!Relying
    BY DEF P!EnqueueAddAccount, P!PatchWebhook, P!CreateWebhook, P!ListWebhooks, P!Relying
  <1>1. hooks \in [P!Hook -> Account \cup {None, Deleted}] /\ P!Webhooks \subseteq P!Hook
    BY DEF P!TypeOK, P!Webhooks
  <1>2. visits[v].id \in Account
    BY <1>0 DEF P!HaveAccount
  <1>3. CASE P!EnqueueAddAccount(v)
    <2>1. PICK c : c = [visits[v] EXCEPT !.pc = "linked"]
      OBVIOUS
    <2>2. /\ c \in P!Callback /\ c.pc = "linked" /\ c.id = visits[v].id /\ c.seen = visits[v].seen
          /\ c.alone = visits[v].alone
      BY <2>1 DEF P!Callback
    <2>3. /\ visits' = [visits EXCEPT ![v] = c] /\ visits[v].pc = "created"
          /\ UNCHANGED <<account, hooks, logged, last, dirty>>
      BY <1>3, <2>1 DEF P!EnqueueAddAccount, P!TypeOK
    <2>4. QED
      BY <1>0, <1>1, <2>2, <2>3, CampaignGoes
  <1>4. CASE P!ListWebhooks(v) /\ P!Cardinality(P!Webhooks) <= 1
    <2>1. PICK h \in IF P!Webhooks = {} THEN {0} ELSE P!Webhooks :
                visits' = [visits EXCEPT ![v].pc = "listed", ![v].hook = h]
      <3>1. ~(P!Cardinality(P!Webhooks) > 1)
        BY <1>4, CampaignCount
      <3>2. QED
        BY <1>4, <3>1 DEF P!ListWebhooks
    <2>2. h \in 0..MaxHook /\ P!Webhooks = {h} \ {0}
      BY <1>4, <2>1, CampaignListed
    <2>3. PICK c : c = [visits[v] EXCEPT !.pc = "listed", !.hook = h]
      OBVIOUS
    <2>4. /\ c \in P!Callback /\ c.pc = "listed" /\ c.id = visits[v].id /\ c.seen = visits[v].seen
          /\ c.alone = visits[v].alone /\ c.hook = h
      BY <2>2, <2>3 DEF P!Callback
    <2>5. /\ visits' = [visits EXCEPT ![v] = c]
          /\ UNCHANGED <<account, hooks, logged, last, dirty>>
      BY <1>4, <2>1, <2>3 DEF P!ListWebhooks, P!TypeOK
    <2>6. P!Webhooks' = {c.hook} \ {0}
      BY <2>2, <2>4, <2>5 DEF P!Webhooks
    <2>7. QED
      BY <1>0, <1>1, <2>4, <2>5, <2>6, CampaignGoes
  <1>5. CASE P!PatchWebhook(v)
    <2>1. PICK c : c = [visits[v] EXCEPT !.pc = "hooked"]
      OBVIOUS
    <2>2. /\ c \in P!Callback /\ c.pc = "hooked" /\ c.id = visits[v].id /\ c.seen = visits[v].seen
          /\ c.alone = visits[v].alone /\ c.hook = visits[v].hook
      BY <2>1 DEF P!Callback
    <2>3. /\ visits' = [visits EXCEPT ![v] = c] /\ visits[v].pc = "listed" /\ visits[v].hook # 0
          /\ UNCHANGED <<account, logged, last, dirty>>
          /\ hooks' = [h \in P!Hook |-> IF h = visits[v].hook /\ h \in P!Webhooks
                                        THEN visits[v].id ELSE hooks[h]]
      BY <1>5, <2>1 DEF P!PatchWebhook, P!TypeOK
    <2>4. hooks' \in [P!Hook -> Account \cup {None, Deleted}]
      BY <1>1, <1>2, <2>3
    <2>5. P!Webhooks' = P!Webhooks
      BY <1>2, <2>3 DEF P!Webhooks
    <2>6. c.alone => P!Webhooks' = {c.hook} \ {0} /\ hooks'[c.hook] = c.id
      <3>1. c.alone => P!Webhooks = {c.hook} \ {0}
        BY <1>0, <2>2, <2>3 DEF P!AloneKnows
      <3>2. c.alone => c.hook \in P!Webhooks
        BY <2>2, <2>3, <3>1
      <3>3. QED
        BY <1>1, <2>2, <2>3, <2>5, <3>1, <3>2
    <2>7. QED
      BY <1>0, <2>2, <2>3, <2>4, <2>6, CampaignGoes
  <1>6. CASE P!CreateWebhook(v)
    <2>1. PICK h \in P!Hook : /\ hooks' = [hooks EXCEPT ![h] = visits[v].id] /\ hooks[h] = None
                              /\ visits' = [visits EXCEPT ![v].pc = "hooked", ![v].hook = h]
      BY <1>6 DEF P!CreateWebhook
    <2>2. h \in 0..MaxHook /\ h # 0
      BY DEF P!Hook, CampaignConstants
    <2>3. PICK c : c = [visits[v] EXCEPT !.pc = "hooked", !.hook = h]
      OBVIOUS
    <2>4. /\ c \in P!Callback /\ c.pc = "hooked" /\ c.id = visits[v].id /\ c.seen = visits[v].seen
          /\ c.alone = visits[v].alone /\ c.hook = h
      BY <2>2, <2>3 DEF P!Callback
    <2>5. /\ visits' = [visits EXCEPT ![v] = c] /\ visits[v].pc = "listed" /\ visits[v].hook = 0
          /\ UNCHANGED <<account, logged, last, dirty>>
      BY <1>6, <2>1, <2>3 DEF P!CreateWebhook, P!TypeOK
    <2>6. hooks' \in [P!Hook -> Account \cup {None, Deleted}] /\ hooks'[h] = visits[v].id
      BY <1>1, <1>2, <2>1
    <2>7. c.alone => P!Webhooks' = {c.hook} \ {0}
      <3>1. c.alone => P!Webhooks = {}
        BY <1>0, <2>4, <2>5 DEF P!AloneKnows
      <3>2. P!Webhooks' = P!Webhooks \cup {h}
        BY <1>1, <1>2, <2>1 DEF P!Webhooks
      <3>3. QED
        BY <2>2, <2>4, <3>1, <3>2
    <2>8. QED
      BY <1>0, <2>2, <2>4, <2>5, <2>6, <2>7, CampaignGoes
  <1>7. QED
    BY <1>3, <1>4, <1>5, <1>6

LEMMA CampaignEnds ==
    ASSUME CampaignConstants, P!IInv, NEW v \in Visitor,
           P!Die(v) \/ (P!ListWebhooks(v) /\ P!Cardinality(P!Webhooks) > 1)
    PROVE  P!IInv'
  <1> USE CampaignParts
  <1>1. visits' = [visits EXCEPT ![v] = P!Over] /\ UNCHANGED <<account, hooks, logged, last>>
    BY DEF P!Die, P!ListWebhooks
  <1>2. P!Over \in P!Callback /\ P!Over.pc = "over"
    BY CampaignOver
  <1>3. CASE v \notin P!Relying
    <2>1. dirty' = dirty
      BY <1>3 DEF P!Die, P!ListWebhooks, Relies
    <2>2. P!Over.pc \notin Relies /\ P!Over.pc \notin {"idle", "authorized", "granted"}
      BY <1>2 DEF Relies
    <2>3. \E c \in P!Callback : c = P!Over
      BY <1>2
    <2>4. QED
      BY <1>1, <1>3, <2>1, <2>2, <2>3, CampaignOutside
  <1>4. CASE v \in P!Relying
    <2>1. /\ account' \in [Account -> P!Row \cup {P!NoRow}] /\ last' \in Account \cup {None}
          /\ dirty' \in BOOLEAN
      <3>1. dirty \in BOOLEAN
        OBVIOUS
      <3>2. dirty' \in BOOLEAN
        BY <3>1 DEF P!Die, P!ListWebhooks
      <3>3. QED
        BY <1>1, <3>2 DEF P!TypeOK
    <2>2. ASSUME ~dirty'
          PROVE  /\ visits[v].alone /\ P!Cardinality(P!Webhooks) <= 1
                 /\ last' # None /\ account'[last'].owner # None =>
                        \E h \in P!Webhooks : hooks[h] = last' /\ account'[last'].hook = h
      <3>1. ~dirty /\ visits[v].pc \in {"created", "linked"}
        <4>1. CASE P!Die(v)
          <5>1. dirty' = (dirty \/ visits[v].pc \in {"listed", "hooked"}) /\ visits[v].pc \in Relies
            BY <1>4, <4>1 DEF P!Die
          <5>2. QED
            BY <2>2, <5>1 DEF Relies
        <4>2. CASE P!ListWebhooks(v)
          BY <2>2, <4>2 DEF P!ListWebhooks
        <4>3. QED
          BY <4>1, <4>2
      <3>2. visits[v].alone /\ P!Relying = {v}
        BY <1>4, <3>1 DEF P!CleanAlone, P!AloneKnows
      <3>3. last # None /\ P!Exists(last) => \E h \in P!Webhooks : hooks[h] = last /\ P!Accepts(last, h)
        BY <3>1, <3>2 DEF P!CleanAlone
      <3>4. P!Cardinality(P!Webhooks) <= 1
        BY <3>1 DEF P!OneWebhook
      <3>5. QED
        BY <1>1, <3>2, <3>3, <3>4 DEF P!Exists, P!Accepts
    <2>3. QED
      BY <1>1, <1>4, <2>1, <2>2, CampaignLeaves
  <1>5. QED
    BY <1>3, <1>4

LEMMA CampaignSaves ==
    ASSUME CampaignConstants, P!IInv, NEW v \in Visitor, P!SaveCampaign(v) PROVE P!IInv'
  <1> USE CampaignParts
  <1>1. PICK a : a = visits[v].id
    OBVIOUS
  <1>2. /\ visits[v].pc = "hooked" /\ last' = a /\ visits' = [visits EXCEPT ![v] = P!Over]
        /\ dirty' = (dirty /\ ~visits[v].alone) /\ UNCHANGED <<hooks, logged>>
    BY <1>1 DEF P!SaveCampaign
  <1>3. v \in P!Relying /\ a \in Account /\ visits[v].hook # 0 /\ visits[v].hook \in 0..MaxHook
    BY <1>1, <1>2 DEF P!HaveAccount, P!Relying, P!Callback
  <1>4. account' = IF visits[v].seen # visits[v].hook /\ P!Exists(a)
                   THEN [account EXCEPT ![a].hook = visits[v].hook, ![a].cred = "fresh"]
                   ELSE account
    BY <1>1 DEF P!SaveCampaign
  <1>5. account \in [Account -> P!Row \cup {P!NoRow}]
    BY DEF P!TypeOK
  <1>6. /\ account' \in [Account -> P!Row \cup {P!NoRow}]
        /\ account'[a].owner # None => P!Exists(a)
        /\ visits[v].seen # visits[v].hook /\ P!Exists(a) => account'[a].hook = visits[v].hook
    <2>1. CASE visits[v].seen # visits[v].hook /\ P!Exists(a)
      <3>1. account[a] \in P!Row
        BY <1>3, <1>5, <2>1 DEF P!Exists, P!NoRow
      <3>2. PICK r : r = [account[a] EXCEPT !.hook = visits[v].hook, !.cred = "fresh"]
        OBVIOUS
      <3>3. r \in P!Row /\ r.hook = visits[v].hook
        BY <1>3, <3>1, <3>2 DEF P!Row
      <3>4. account' = [account EXCEPT ![a] = r]
        BY <1>4, <1>5, <2>1, <3>2
      <3>5. QED
        BY <1>3, <1>5, <2>1, <3>3, <3>4
    <2>2. CASE ~(visits[v].seen # visits[v].hook /\ P!Exists(a))
      BY <1>4, <1>5, <2>2 DEF P!Exists
    <2>3. QED
      BY <2>1, <2>2
  <1>7. dirty' \in BOOLEAN
    <2>1. dirty \in BOOLEAN /\ visits[v].alone \in BOOLEAN
      BY DEF P!Callback
    <2>2. QED
      BY <1>2, <2>1
  <1>8. ASSUME ~dirty'
        PROVE  /\ visits[v].alone /\ P!Cardinality(P!Webhooks) <= 1
               /\ last' # None /\ account'[last'].owner # None =>
                      \E h \in P!Webhooks : hooks[h] = last' /\ account'[last'].hook = h
    <2>1. visits[v].alone
      BY <1>2, <1>3, <1>8 DEF P!CleanAlone
    <2>2. /\ P!Webhooks = {visits[v].hook} \ {0} /\ hooks[visits[v].hook] = a
          /\ P!Exists(a) => account[a].hook = visits[v].seen
      BY <1>1, <1>2, <1>3, <2>1 DEF P!AloneKnows
    <2>3. P!Webhooks = {visits[v].hook}
      BY <1>3, <2>2
    <2>4. P!Cardinality(P!Webhooks) <= 1
      <3>1. P!Webhooks \in SUBSET P!Hook
        BY DEF P!Webhooks
      <3>2. QED
        BY <2>3, <3>1, CampaignAtMostOne
    <2>5. P!Exists(a) => account'[a].hook = visits[v].hook
      BY <1>4, <1>6, <2>2
    <2>6. QED
      BY <1>2, <1>6, <2>1, <2>2, <2>3, <2>4, <2>5
  <1>9. last' \in Account \cup {None}
    BY <1>2, <1>3
  <1>10. QED
    BY <1>2, <1>3, <1>6, <1>7, <1>8, <1>9, CampaignLeaves

LEMMA CampaignStep == ASSUME CampaignConstants, P!IInv, [P!Next]_(P!vars) PROVE P!IInv'
  <1>1. ASSUME NEW v \in Visitor, P!ListWebhooks(v) PROVE P!IInv'
    <2>1. CASE P!Cardinality(P!Webhooks) > 1
      BY <1>1, <2>1, CampaignEnds
    <2>2. CASE ~(P!Cardinality(P!Webhooks) > 1)
      BY <1>1, <2>2, CampaignCount, CampaignProceeds
    <2>3. QED
      BY <2>1, <2>2
  <1>2. ASSUME NEW v \in Visitor, P!Visiting(v) PROVE P!IInv'
    <2>1. CASE (\E u \in User : P!Auth(v, u)) \/ P!Grant(v)
      BY <2>1, CampaignStarts
    <2>2. CASE P!FindAccount(v)
      BY <2>2, CampaignFinds
    <2>3. CASE P!CreateAccount(v)
      BY <2>3, CampaignCreates
    <2>4. CASE P!EnqueueAddAccount(v) \/ P!PatchWebhook(v) \/ P!CreateWebhook(v)
      BY <2>4, CampaignProceeds
    <2>5. CASE P!SaveCampaign(v)
      BY <2>5, CampaignSaves
    <2>6. CASE P!Die(v)
      BY <2>6, CampaignEnds
    <2>7. QED
      BY <1>1, <1>2, <2>1, <2>2, <2>3, <2>4, <2>5, <2>6 DEF P!Visiting
  <1>3. QED
    BY <1>2, CampaignRowSteps, CampaignDeletes DEF P!Next

LEMMA CampaignSafe == ASSUME CampaignConstants PROVE P!Spec => []P!IInv
  <1>1. P!Init => P!IInv
    BY CampaignInit
  <1>2. P!IInv /\ [P!Next]_(P!vars) => P!IInv'
    BY CampaignStep
  <1>3. QED
    BY <1>1, <1>2, PTL DEF P!Spec

\* The account linked last receives the campaign's events, of which one alone
\* leaves one webhook.
THEOREM CampaignLastLinkReceives == ASSUME CampaignConstants PROVE P!Spec => []LastLinkReceives
  <1>1. P!IInv => LastLinkReceives
    BY DEF P!IInv, LastLinkReceives
  <1>2. QED
    BY <1>1, CampaignSafe, PTL
=============================================================================
