------------------------- MODULE MediaLibraryProofs -------------------------
(* Proofs about MediaLibrary, for every value of its constants. *)
EXTENDS MediaLibrary, FiniteSetTheorems, WellFoundedInduction, TLAPS

\* A request is at one of the items it has to do, the oldest.
LEMMA CurrentInTodo ==
    ASSUME TypeOK, NEW r \in Request, req[r].todo # {}
    PROVE  Current(r) \in req[r].todo /\ \A j \in req[r].todo : Current(r) <= j
  <1> DEFINE T == req[r].todo
  <1>1. T \subseteq Nat
    <2>1. req[r] \in Asking
      BY DEF TypeOK
    <2>2. T \subseteq 1 .. used /\ used \in Nat
      BY <2>1, ConstantsAssumption DEF TypeOK, Asking
    <2>3. QED
      BY <2>2
  <1>2. PICK i \in T : \A j \in T : <<j, i>> \notin OpToRel(<, Nat)
    <2> HIDE DEF T
    <2>1. T # {}
      BY DEF T
    <2>2. QED
      BY <1>1, <2>1, NatLessThanWellFounded, WFMin, Zenon
  <1>3. \A j \in T : ~(j < i)
    BY <1>1, <1>2, Zenon DEF OpToRel
  <1>4. \A j \in T : i <= j
    BY <1>1, <1>3
  <1>5. QED
    BY <1>4 DEF Current

LEMMA CountType ==
    ASSUME TypeOK, NEW what \in {"ingests", "requests", "faults"}, NEW bound,
           Counted(what, bound)
    PROVE  count' \in [{"ingests", "requests", "faults"} -> Nat]
  BY DEF TypeOK, Counted

LEMMA FaultType ==
    ASSUME TypeOK, Fault PROVE count' \in [{"ingests", "requests", "faults"} -> Nat]
  BY CountType DEF Fault

\* The numbers and ranges the types speak of.
LEMMA Bounds ==
    ASSUME TypeOK
    PROVE  /\ used \in Nat /\ MaxItems \in Nat /\ used <= MaxItems
           /\ 1 .. used \subseteq Item /\ 0 .. used \subseteq Nat
           /\ 1 .. used \subseteq 0 .. used /\ 0 \in 0 .. used
           /\ 0 .. used \subseteq 1 .. used \cup {0}
  BY ConstantsAssumption DEF TypeOK, Item

\* Steps that leave the ids alone keep the types of workers and requests.
LEMMA SameTypes ==
    ASSUME used' = used PROVE Ingesting' = Ingesting /\ Asking' = Asking
  BY DEF Ingesting, Asking

LEMMA Resting ==
    ASSUME TypeOK PROVE Idle \in Ingesting /\ Free \in Asking
  BY Bounds DEF Idle, Free, NoItem, Ingesting, Asking

LEMMA WorkerType ==
    ASSUME TypeOK, NEW w \in Worker
    PROVE  /\ work[w] \in Ingesting
           /\ work[w].at \in {"idle", "insert", "link", "upload", "attach", "search"}
           /\ work[w].source \in Source \cup {NoSource}
           /\ work[w].at = "idle" => work[w] = Idle
           /\ work[w].at # "idle" => work[w].sha \in Sha /\ work[w].item \in 1 .. used
           /\ work[w].at = "link" => work[w].source \in Source
           /\ work[w].at \in {"insert", "upload", "attach", "search"} =>
                 work[w] \in [at: {"insert", "upload", "attach", "search"}, sha: Sha,
                              source: Source \cup {NoSource}, item: 1 .. used]
  <1>1. work[w] \in Ingesting
    BY DEF TypeOK
  <1>2. QED
    BY <1>1 DEF Ingesting, Idle

LEMMA RequestType ==
    ASSUME TypeOK, NEW r \in Request
    PROVE  /\ req[r] \in Asking
           /\ req[r].at \in {"idle", "objects", "links", "row", "commit"}
           /\ req[r].into \in 0 .. used
           /\ req[r].todo \subseteq 1 .. used /\ req[r].had \subseteq 1 .. used
           /\ req[r].erased \subseteq 1 .. used /\ req[r].dead \subseteq 1 .. used
           /\ req[r].moved \subseteq [item: 1 .. used, source: Source]
  <1>1. req[r] \in Asking
    BY DEF TypeOK
  <1>2. QED
    BY <1>1 DEF Asking

\* A worker that goes on, and one that is done.
LEMMA WorkerMoves ==
    ASSUME TypeOK, used' = used, NEW w \in Worker,
           work[w].at \in {"insert", "upload", "attach", "search"},
           NEW a \in {"upload", "attach", "search"},
           work' = [work EXCEPT ![w].at = a]
    PROVE  work' \in [Worker -> Ingesting']
  <1>1. [work[w] EXCEPT !.at = a] \in Ingesting
    BY WorkerType DEF Ingesting
  <1>2. QED
    BY <1>1, SameTypes DEF TypeOK

LEMMA WorkerRests ==
    ASSUME TypeOK, used' = used, NEW w \in Worker, work' = [work EXCEPT ![w] = Idle]
    PROVE  work' \in [Worker -> Ingesting']
  BY Resting, SameTypes DEF TypeOK

LEMMA RequestRests ==
    ASSUME TypeOK, used' = used, NEW r \in Request, req' = [req EXCEPT ![r] = Free]
    PROVE  req' \in [Request -> Asking']
  BY Resting, SameTypes DEF TypeOK

-----------------------------------------------------------------------------
\* No step leaves the types.
LEMMA TypeStep ==
    ASSUME TypeOK, StepInv, MoveInv, [Next]_vars PROVE TypeOK'
  <1> USE DEF library, pictures, fate
  <1>1. CASE UNCHANGED vars
    BY <1>1, SameTypes DEF vars, TypeOK
  <1>2. ASSUME NEW w \in Worker, Lookup(w) PROVE TypeOK'
    <2>1. count' \in [{"ingests", "requests", "faults"} -> Nat]
      BY <1>2, CountType DEF Lookup
    <2>2. used' \in 0 .. MaxItems /\ used <= used' /\ used \in Nat
      BY <1>2, Bounds DEF Lookup, TypeOK
    <2>3. Ingesting \subseteq Ingesting' /\ Asking \subseteq Asking'
      BY <2>2 DEF Ingesting, Asking
    <2>4. work' \in [Worker -> Ingesting']
      <3>1. PICK a \in {"link", "insert"}, h \in Sha, s \in Source \cup {NoSource}, i \in 1 .. used' :
              /\ a = "link" => s \in Source
              /\ work' = [work EXCEPT ![w] = [at |-> a, sha |-> h, source |-> s, item |-> i]]
        BY <1>2, <2>2 DEF Lookup, TypeOK
      <3>2. [at |-> a, sha |-> h, source |-> s, item |-> i] \in Ingesting'
        BY <3>1 DEF Ingesting
      <3>3. QED
        BY <3>1, <3>2, <2>3 DEF TypeOK
    <2>5. req' \in [Request -> Asking']
      BY <1>2, <2>3 DEF Lookup, TypeOK
    <2>6. 1 .. used \subseteq 1 .. used' /\ 0 .. used \subseteq 0 .. used'
      BY <2>2
    <2>7. QED
      BY <1>2, <2>1, <2>2, <2>4, <2>5, <2>6 DEF Lookup, TypeOK
  <1>3. ASSUME NEW w \in Worker, Insert(w) PROVE TypeOK'
    <2>1. work' \in [Worker -> Ingesting'] /\ req' \in [Request -> Asking']
      BY <1>3, WorkerMoves, SameTypes DEF Insert, TypeOK
    <2>2. Posted(work[w].source) \subseteq Source /\ work[w].item \in 1 .. used
          /\ work[w].sha \in Sha
      BY <1>3, WorkerType DEF Insert, Posted
    <2>3. links' \subseteq [item: rows', source: Source]
      BY <1>3, <2>2 DEF Insert, TypeOK
    <2>4. sha' \in [Item -> Sha \cup {NoSource}]
      BY <1>3, <2>2, Bounds DEF Insert, TypeOK
    <2>5. QED
      BY <1>3, <2>1, <2>2, <2>3, <2>4 DEF Insert, TypeOK
  <1>4. ASSUME NEW w \in Worker, InsertLink(w) PROVE TypeOK'
    <2>1. work' \in [Worker -> Ingesting'] /\ req' \in [Request -> Asking']
      BY <1>4, WorkerRests, SameTypes DEF InsertLink, TypeOK
    <2>2. work[w].source \in Source
      BY <1>4, WorkerType DEF InsertLink
    <2>3. links' \subseteq [item: rows, source: Source] /\ known' \subseteq Source
          /\ late' \subseteq Source
      BY <1>4, <2>2 DEF InsertLink, TypeOK
    <2>4. QED
      BY <1>4, <2>1, <2>3 DEF InsertLink, TypeOK
  <1>5. ASSUME NEW w \in Worker, InsertFails(w) PROVE TypeOK'
    BY <1>5, WorkerRests, SameTypes DEF InsertFails, TypeOK
  <1>6. ASSUME NEW w \in Worker, Upload(w) PROVE TypeOK'
    <2>1. work' \in [Worker -> Ingesting'] /\ req' \in [Request -> Asking']
      BY <1>6, WorkerMoves, SameTypes DEF Upload, TypeOK
    <2>2. QED
      BY <1>6, <2>1, WorkerType DEF Upload, TypeOK
  <1>7. ASSUME NEW w \in Worker, NoPicture(w) PROVE TypeOK'
    <2>1. work' \in [Worker -> Ingesting'] /\ req' \in [Request -> Asking']
      BY <1>7, WorkerMoves, WorkerRests, SameTypes DEF NoPicture, TypeOK
    <2>2. QED
      BY <1>7, <2>1, Bounds, WorkerType DEF NoPicture, TypeOK
  <1>8. ASSUME NEW w \in Worker, Attach(w) PROVE TypeOK'
    <2>1. work' \in [Worker -> Ingesting'] /\ req' \in [Request -> Asking']
      BY <1>8, WorkerMoves, SameTypes DEF Attach, TypeOK
    <2>2. QED
      BY <1>8, <2>1, Bounds, WorkerType DEF Attach, TypeOK
  <1>9. ASSUME NEW w \in Worker, QueueSearch(w) PROVE TypeOK'
    <2>1. work' \in [Worker -> Ingesting'] /\ req' \in [Request -> Asking']
      BY <1>9, WorkerRests, SameTypes DEF QueueSearch, TypeOK
    <2>2. QED
      BY <1>9, <2>1, Bounds, WorkerType DEF QueueSearch, TypeOK
  <1>10. ASSUME NEW w \in Worker, InterruptIngest(w) PROVE TypeOK'
    <2>1. work' \in [Worker -> Ingesting'] /\ req' \in [Request -> Asking']
      BY <1>10, WorkerRests, SameTypes DEF InterruptIngest, TypeOK
    <2>2. QED
      BY <1>10, <2>1, Bounds, WorkerType, FaultType DEF InterruptIngest, TypeOK
  <1>11. ASSUME NEW r \in Request, NEW into \in rows \cup {NoItem}, NEW todo \in SUBSET rows,
                Begin(r, into, todo)
         PROVE  TypeOK'
    <2>1. work' \in [Worker -> Ingesting']
      BY <1>11, SameTypes DEF Begin, TypeOK
    <2>2. [Free EXCEPT !.at = "objects", !.into = into, !.todo = todo, !.had = todo \cap attached]
             \in Asking
      BY Bounds DEF Free, Asking, TypeOK, NoItem
    <2>3. req' \in [Request -> Asking']
      BY <1>11, <2>2, SameTypes DEF Begin, TypeOK
    <2>4. count' \in [{"ingests", "requests", "faults"} -> Nat]
      BY <1>11, CountType DEF Begin
    <2>5. QED
      BY <1>11, <2>1, <2>3, <2>4 DEF Begin, TypeOK
  <1>12. ASSUME NEW r \in Request, StartRemove(r) PROVE TypeOK'
    BY <1>11, <1>12 DEF StartRemove
  <1>13. ASSUME NEW r \in Request, StartMerge(r) PROVE TypeOK'
    <2>1. PICK ids \in SUBSET rows, into \in rows, again \in BOOLEAN :
            Begin(r, into, IF again THEN ids ELSE ids \ {into})
      BY <1>13 DEF StartMerge
    <2>2. QED
      BY <1>11, <2>1
  <1>14. ASSUME NEW r \in Request, DeleteObjects(r) PROVE TypeOK'
    <2>1. work' \in [Worker -> Ingesting'] /\ stored' \subseteq 1 .. used
      BY <1>14, SameTypes DEF DeleteObjects, TypeOK, Erase
    <2>2. [req[r] EXCEPT !.erased = @ \cup ({Current(r)} \cap req[r].had),
                         !.at = IF req[r].into = NoItem THEN "row" ELSE "links"] \in Asking
      BY RequestType DEF Asking
    <2>3. req' \in [Request -> Asking']
      BY <1>14, <2>2, SameTypes DEF DeleteObjects, TypeOK
    <2>4. QED
      BY <1>14, <2>1, <2>3 DEF DeleteObjects, TypeOK
  <1>15. ASSUME NEW r \in Request, MoveLinks(r) PROVE TypeOK'
    <2>1. work' \in [Worker -> Ingesting']
      BY <1>15, SameTypes DEF MoveLinks, TypeOK
    <2>2. Of(Current(r)) \subseteq [item: 1 .. used, source: Source]
      BY DEF TypeOK, Of
    <2>3. [req[r] EXCEPT !.moved = @ \cup Of(Current(r)), !.at = "row"] \in Asking
      BY <2>2, RequestType DEF Asking
    <2>4. req' \in [Request -> Asking']
      BY <1>15, <2>3, SameTypes DEF MoveLinks, TypeOK
    <2>5. QED
      BY <1>15, <2>1, <2>4 DEF MoveLinks, TypeOK
  <1>16. ASSUME NEW r \in Request, RemoveRow(r) PROVE TypeOK'
    <2>1. work' \in [Worker -> Ingesting']
      BY <1>16, SameTypes DEF RemoveRow, TypeOK
    <2> DEFINE d == req[r].dead \cup ({Current(r)} \cap rows)
               t == req[r].todo \ {Current(r)}
               a == IF req[r].todo = {Current(r)} THEN "commit" ELSE "objects"
    <2>2. /\ req' = [req EXCEPT ![r] = [req[r] EXCEPT !.dead = d, !.todo = t, !.at = a]]
          /\ d \in SUBSET (1 .. used) /\ t \in SUBSET (1 .. used) /\ a \in {"commit", "objects"}
      BY <1>16, RequestType DEF RemoveRow, TypeOK
    <2> HIDE DEF d, t, a
    <2>5. [req[r] EXCEPT !.dead = d, !.todo = t, !.at = a] \in Asking
      BY <2>2, RequestType DEF Asking
    <2>3. req' \in [Request -> Asking']
      BY <1>16, <2>2, <2>5, SameTypes DEF RemoveRow, TypeOK
    <2>4. QED
      BY <1>16, <2>1, <2>3 DEF RemoveRow, TypeOK
  <1>17. ASSUME NEW r \in Request, CommitMerge(r) PROVE TypeOK'
    <2>1. work' \in [Worker -> Ingesting'] /\ req' \in [Request -> Asking']
      BY <1>17, RequestRests, SameTypes DEF CommitMerge, TypeOK
    <2> DEFINE sources == IF req[r].into \in req[r].dead THEN {} ELSE Sources(req[r].moved)
    <2>2. sources \subseteq Source /\ Sources(Of(req[r].into)) \subseteq Source
      BY RequestType DEF Sources, Of, TypeOK
    <2>3. sources # {} => req[r].into \in rows /\ req[r].into \notin req[r].dead
      BY DEF MoveInv, LinksKept, Sources
    <2>4. {l \in links : l.item \notin req[r].dead} \subseteq [item: rows', source: Source]
      BY <1>17 DEF CommitMerge, TypeOK
    <2>5. [item: {req[r].into}, source: sources] \subseteq [item: rows', source: Source]
      BY <1>17, <2>2, <2>3 DEF CommitMerge
    <2>6. links' \subseteq [item: rows', source: Source] /\ late' \subseteq Source
          /\ twice' \subseteq Source
      BY <1>17, <2>2, <2>4, <2>5 DEF CommitMerge, TypeOK
    <2>7. rows' \subseteq 1 .. used /\ attached' \subseteq rows' /\ leaked' \subseteq Item
      BY <1>17, Bounds DEF CommitMerge, TypeOK
    <2>8. QED
      BY <1>17, <2>1, <2>6, <2>7 DEF CommitMerge, TypeOK
  <1>18. ASSUME NEW r \in Request, RemoveItem(r) PROVE TypeOK'
    <2>1. work' \in [Worker -> Ingesting'] /\ req' \in [Request -> Asking']
      BY <1>18, RequestRests, SameTypes DEF RemoveItem, TypeOK
    <2>2. links' \subseteq [item: rows', source: Source]
      BY <1>18 DEF RemoveItem, TypeOK, Of
    <2>3. Sources(Of(Current(r))) \subseteq Source
      BY DEF TypeOK, Sources, Of
    <2>4. rows' \subseteq 1 .. used /\ attached' \subseteq rows' /\ leaked' \subseteq Item
      BY <1>18, Bounds DEF RemoveItem, TypeOK
    <2>5. Current(r) \in Item
      BY <1>18, CurrentInTodo, RequestType, Bounds DEF RemoveItem, StepInv, InStep
    <2>6. QED
      BY <1>18, <2>1, <2>2, <2>3, <2>4, <2>5 DEF RemoveItem, TypeOK
  <1>19. ASSUME NEW r \in Request, Abort(r), count' \in [{"ingests", "requests", "faults"} -> Nat]
         PROVE  TypeOK'
    <2>1. work' \in [Worker -> Ingesting'] /\ req' \in [Request -> Asking']
      BY <1>19, RequestRests, SameTypes DEF Abort, TypeOK
    <2>2. QED
      BY <1>19, <2>1, Bounds, RequestType DEF Abort, TypeOK
  <1>20. ASSUME NEW r \in Request, MergeFails(r) PROVE TypeOK'
    BY <1>19, <1>20 DEF MergeFails, TypeOK
  <1>21. ASSUME NEW r \in Request, InterruptRequest(r) PROVE TypeOK'
    BY <1>19, <1>21, FaultType DEF InterruptRequest
  <1>22. CASE MarkPictures
    BY <1>22, SameTypes, Bounds DEF MarkPictures, TypeOK
  <1>23. CASE DeleteUser
    <2>1. Sources(links) \subseteq Source
      BY DEF TypeOK, Sources
    <2>2. QED
      BY <1>23, <2>1, SameTypes, Bounds DEF DeleteUser, TypeOK
  <1>24. CASE DeleteUserFails
    BY <1>24, SameTypes, FaultType DEF DeleteUserFails, TypeOK
  <1>25. CASE PurgeObject
    BY <1>25, SameTypes, Bounds DEF PurgeObject, TypeOK, Erase
  <1>26. CASE ForgetObject
    BY <1>26, SameTypes, Bounds DEF ForgetObject, TypeOK, NoItem
  <1>27. CASE InterruptPurge
    BY <1>27, SameTypes, Bounds, FaultType DEF InterruptPurge, TypeOK, NoItem
  <1>28. QED
    BY <1>1, <1>2, <1>3, <1>4, <1>5, <1>6, <1>7, <1>8, <1>9, <1>10, <1>12, <1>13, <1>14, <1>15,
       <1>16, <1>17, <1>18, <1>20, <1>21, <1>22, <1>23, <1>24, <1>25, <1>26, <1>27
       DEF Next, Ingest, Handle

-----------------------------------------------------------------------------
\* What each step does to the worker or the request that takes it.

LEMMA WorkerMoved ==
    ASSUME TypeOK, NEW w \in Worker, work[w].at \in {"insert", "upload", "attach", "search"},
           NEW a \in {"upload", "attach", "search"}, work' = [work EXCEPT ![w].at = a]
    PROVE  /\ \A v \in Worker \ {w} : work'[v] = work[v]
           /\ work'[w].at = a /\ work'[w].item = work[w].item
  <1>1. work[w] \in [at: {"insert", "upload", "attach", "search"}, sha: Sha,
                     source: Source \cup {NoSource}, item: 1 .. used]
    BY WorkerType
  <1>2. QED
    BY <1>1 DEF TypeOK

LEMMA WorkerRested ==
    ASSUME TypeOK, NEW w \in Worker, work' = [work EXCEPT ![w] = Idle]
    PROVE  /\ \A v \in Worker \ {w} : work'[v] = work[v]
           /\ work'[w].at = "idle"
  BY DEF TypeOK, Idle

LEMMA RequestRested ==
    ASSUME TypeOK, NEW r \in Request, req' = [req EXCEPT ![r] = Free]
    PROVE  /\ \A q \in Request \ {r} : req'[q] = req[q]
           /\ req'[r] = Free
           /\ req'[r].at = "idle" /\ req'[r].into = NoItem /\ req'[r].todo = {}
           /\ req'[r].had = {} /\ req'[r].erased = {} /\ req'[r].moved = {} /\ req'[r].dead = {}
  BY DEF TypeOK, Free

LEMMA LookedUp ==
    ASSUME TypeOK, NEW w \in Worker, Lookup(w)
    PROVE  /\ \A v \in Worker \ {w} : work'[v] = work[v]
           /\ \/ work'[w].at = "link" /\ used' = used
              \/ work'[w].at = "insert" /\ work'[w].item = used + 1 /\ used' = used + 1
  BY DEF Lookup, TypeOK

LEMMA Begun ==
    ASSUME TypeOK, NEW r \in Request, NEW into, NEW todo, Begin(r, into, todo)
    PROVE  /\ \A q \in Request \ {r} : req'[q] = req[q]
           /\ req'[r].at = "objects" /\ req'[r].into = into /\ req'[r].todo = todo
           /\ req'[r].had = todo \cap attached
           /\ req'[r].erased = {} /\ req'[r].moved = {} /\ req'[r].dead = {}
  BY DEF Begin, TypeOK, Free

\* What a request begins with: some item, and the one it merges into only
\* when that was given twice, and then it comes first.
LEMMA Started ==
    ASSUME TypeOK, NEW r \in Request, StartRemove(r) \/ StartMerge(r)
    PROVE  /\ \E into \in rows \cup {NoItem}, todo \in SUBSET rows :
                 /\ Begin(r, into, todo)
                 /\ todo # {} /\ (into \in todo => \A i \in todo : into <= i)
                 /\ into = NoItem => \A i, j \in todo : i = j
           /\ UNCHANGED <<user, library, pictures, work, fate>>
  <1>1. \A i \in rows : i # NoItem
    BY Bounds DEF TypeOK, NoItem
  <1>2. CASE StartRemove(r)
    <2>1. PICK i \in rows : Begin(r, NoItem, {i})
      BY <1>2 DEF StartRemove
    <2>2. UNCHANGED <<user, library, pictures, work, fate>>
      BY <2>1 DEF Begin
    <2>3. QED
      BY <1>1, <2>1, <2>2
  <1>3. CASE StartMerge(r)
    <2>1. PICK ids \in SUBSET rows, into \in rows, again \in BOOLEAN :
            /\ into \in ids
            /\ Cardinality(ids) > 1 \/ again
            /\ \A i \in ids : into <= i
            /\ Begin(r, into, IF again THEN ids ELSE ids \ {into})
      BY <1>3 DEF StartMerge
    <2>2. ~again => ids \ {into} # {}
      <3>1. SUFFICES ASSUME ~again, ids \subseteq {into} PROVE FALSE
        OBVIOUS
      <3>2. ids = {} \/ ids = {into}
        BY <3>1
      <3>3. Cardinality(ids) \in {0, 1}
        BY <3>2, FS_EmptySet, FS_Singleton
      <3>4. QED
        BY <2>1, <3>1, <3>3
    <2>5. PICK todo \in SUBSET rows : Begin(r, into, todo)
            /\ todo # {} /\ (into \in todo => \A i \in todo : into <= i)
      BY <2>1, <2>2
    <2>3. UNCHANGED <<user, library, pictures, work, fate>>
      BY <2>1 DEF Begin
    <2>4. QED
      BY <1>1, <2>1, <2>3, <2>5
  <1>4. QED
    BY <1>2, <1>3

LEMMA ObjectsDeleted ==
    ASSUME TypeOK, NEW r \in Request, DeleteObjects(r)
    PROVE  /\ \A q \in Request \ {r} : req'[q] = req[q]
           /\ req'[r].at = IF req[r].into = NoItem THEN "row" ELSE "links"
           /\ req'[r].into = req[r].into /\ req'[r].todo = req[r].todo
           /\ req'[r].had = req[r].had
           /\ req'[r].erased = req[r].erased \cup ({Current(r)} \cap req[r].had)
           /\ req'[r].moved = req[r].moved /\ req'[r].dead = req[r].dead
           /\ UNCHANGED <<user, used, rows, sha, links, attached, marked, doomed, purging, work, fate>>
  BY RequestType DEF library, DeleteObjects, TypeOK, Asking

LEMMA LinksMoved ==
    ASSUME TypeOK, NEW r \in Request, MoveLinks(r)
    PROVE  /\ \A q \in Request \ {r} : req'[q] = req[q]
           /\ req'[r].at = "row"
           /\ req'[r].into = req[r].into /\ req'[r].todo = req[r].todo
           /\ req'[r].had = req[r].had /\ req'[r].erased = req[r].erased
           /\ req'[r].moved = req[r].moved \cup Of(Current(r)) /\ req'[r].dead = req[r].dead
           /\ UNCHANGED <<user, used, rows, sha, links, attached, stored, marked, doomed, purging, work, fate>>
  BY RequestType DEF library, pictures, MoveLinks, TypeOK, Asking

LEMMA RowRemoved ==
    ASSUME TypeOK, NEW r \in Request, RemoveRow(r)
    PROVE  /\ \A q \in Request \ {r} : req'[q] = req[q]
           /\ req'[r].at = IF req[r].todo = {Current(r)} THEN "commit" ELSE "objects"
           /\ req'[r].into = req[r].into /\ req'[r].todo = req[r].todo \ {Current(r)}
           /\ req'[r].had = req[r].had /\ req'[r].erased = req[r].erased
           /\ req'[r].moved = req[r].moved
           /\ req'[r].dead = req[r].dead \cup ({Current(r)} \cap rows)
           /\ UNCHANGED <<user, used, rows, sha, links, attached, stored, marked, doomed, purging, work, fate>>
  <1> DEFINE d == req[r].dead \cup ({Current(r)} \cap rows)
             t == req[r].todo \ {Current(r)}
             a == IF req[r].todo = {Current(r)} THEN "commit" ELSE "objects"
  <1>1. req' = [req EXCEPT ![r] = [req[r] EXCEPT !.dead = d, !.todo = t, !.at = a]]
    BY DEF RemoveRow, TypeOK
  <1>4. UNCHANGED <<user, used, rows, sha, links, attached, stored, marked, doomed, purging, work,
                     fate>>
    BY DEF RemoveRow, library, pictures
  <1> HIDE DEF d, t, a
  <1>2. /\ \A q \in Request \ {r} : req'[q] = req[q]
        /\ req'[r].at = a /\ req'[r].todo = t /\ req'[r].dead = d
        /\ req'[r].into = req[r].into /\ req'[r].had = req[r].had
        /\ req'[r].erased = req[r].erased /\ req'[r].moved = req[r].moved
    BY <1>1, RequestType DEF TypeOK, Asking
  <1>3. QED
    BY <1>2, <1>4 DEF a, t, d

\* Whoever is merged away is the same after a step that leaves the request.
LEMMA SameCurrent ==
    ASSUME NEW r \in Request, req'[r].todo = req[r].todo PROVE Current(r)' = Current(r)
  BY DEF Current

\* An item that is merged into itself comes before all others.
LEMMA ItselfFirst ==
    ASSUME TypeOK, StepInv, NEW r \in Request, req[r].into \in req[r].todo
    PROVE  Current(r) = req[r].into /\ req[r].dead = {}
  <1>1. /\ Current(r) \in req[r].todo /\ \A j \in req[r].todo : Current(r) <= j
        /\ req[r].dead = {} /\ \A j \in req[r].todo : req[r].into <= j
    BY CurrentInTodo DEF StepInv, InStep
  <1>2. req[r].todo \subseteq Nat
    BY Bounds, RequestType
  <1>3. QED
    BY <1>1, <1>2

-----------------------------------------------------------------------------
\* Whoever makes a new item stays alone with it.
LEMMA FreshLookup ==
    ASSUME TypeOK, FreshInv, NEW w \in Worker, Lookup(w) PROVE FreshInv'
  <1>1. /\ \A v \in Worker : Making(v) => work[v].item # used + 1
        /\ used + 1 \notin rows \cup attached \cup marked \cup doomed
        /\ \A r \in Request : /\ req[r].into # used + 1
                              /\ used + 1 \notin req[r].todo \cup req[r].had \cup req[r].dead
    BY Bounds, WorkerType, RequestType DEF TypeOK, Making
  <1>2. UNCHANGED <<rows, attached, marked, doomed, req>>
    BY DEF Lookup, pictures
  <1>3. CASE work'[w].at = "link"
    BY <1>2, <1>3, LookedUp DEF FreshInv, Alone, Making
  <1>4. CASE work'[w].at = "insert" /\ work'[w].item = used + 1
    BY <1>1, <1>2, <1>4, LookedUp DEF FreshInv, Alone, Making
  <1>5. QED
    BY <1>3, <1>4, LookedUp

LEMMA FreshMoves ==
    ASSUME FreshInv, NEW w \in Worker, work[w].at \in {"insert", "upload", "attach"},
           \A v \in Worker \ {w} : work'[v] = work[v],
           work'[w].item = work[w].item, work'[w].at \in {"upload", "attach", "search"},
           rows' \subseteq rows \cup {work[w].item}, UNCHANGED <<marked, doomed, req>>,
           attached' = attached \/ (work'[w].at = "search" /\ attached' = attached \cup {work[w].item})
    PROVE  FreshInv'
  <1> SUFFICES ASSUME NEW v \in Worker, Making(v)' PROVE Alone(v)'
    BY DEF FreshInv
  <1>1. Making(w) /\ Making(v) /\ work'[v].item = work[v].item
    BY DEF Making
  <1>2. \A u \in Worker \ {v} : Making(u)' => Making(u) /\ work'[u].item = work[u].item
    BY <1>1 DEF Making
  <1>3. CASE v = w
    BY <1>1, <1>2, <1>3 DEF FreshInv, Alone
  <1>4. CASE v # w
    BY <1>1, <1>2, <1>4 DEF FreshInv, Alone
  <1>5. QED
    BY <1>3, <1>4

LEMMA FreshRests ==
    ASSUME FreshInv, NEW w \in Worker, \A v \in Worker \ {w} : work'[v] = work[v],
           work'[w].at = "idle", UNCHANGED <<rows, attached, marked, doomed, req>>
    PROVE  FreshInv'
  BY DEF FreshInv, Alone, Making

\* Nobody else's step makes a picture or an item known that is being made.
LEMMA FreshFrame ==
    ASSUME TypeOK, FreshInv, UNCHANGED work,
           rows' \subseteq rows, attached' \subseteq attached,
           marked' \subseteq marked \cup attached, doomed' \subseteq doomed \cup marked,
           \A r \in Request : /\ req'[r].had \subseteq req[r].had \cup attached
                              /\ req'[r].into \in rows \cup {req[r].into, NoItem}
                              /\ req'[r].todo \subseteq req[r].todo \cup rows
                              /\ req'[r].dead \subseteq req[r].dead \cup rows
    PROVE  FreshInv'
  <1>1. \A w \in Worker : Making(w)' = Making(w) /\ (Making(w) => work[w].item # NoItem)
    BY WorkerType DEF Making, NoItem
  <1>2. QED
    BY <1>1 DEF FreshInv, Alone

LEMMA FreshStep ==
    ASSUME TypeOK, FreshInv, [Next]_vars PROVE FreshInv'
  <1> USE DEF library, pictures, fate
  <1>1. CASE UNCHANGED vars
    BY <1>1 DEF vars, FreshInv, Alone, Making
  <1>2. ASSUME NEW w \in Worker, Ingest(w) \/ InterruptIngest(w) PROVE FreshInv'
    <2>1. CASE Lookup(w)
      BY <2>1, FreshLookup
    <2>2. CASE Insert(w)
      BY <2>2, FreshMoves, WorkerMoved DEF Insert
    <2>3. CASE InsertLink(w) \/ InsertFails(w) \/ QueueSearch(w) \/ InterruptIngest(w)
      BY <2>3, FreshRests, WorkerRested DEF InsertLink, InsertFails, QueueSearch, InterruptIngest
    <2>4. CASE Upload(w)
      BY <2>4, FreshMoves, WorkerMoved DEF Upload
    <2>5. CASE NoPicture(w)
      BY <2>5, FreshMoves, WorkerMoved, FreshRests, WorkerRested DEF NoPicture
    <2>6. CASE Attach(w)
      BY <2>6, FreshMoves, WorkerMoved DEF Attach
    <2>7. QED
      BY <1>2, <2>1, <2>2, <2>3, <2>4, <2>5, <2>6 DEF Ingest
  <1>3. ASSUME NEW r \in Request, StartRemove(r) \/ StartMerge(r) PROVE FreshInv'
    <2>1. PICK into \in rows \cup {NoItem}, todo \in SUBSET rows : Begin(r, into, todo)
      BY <1>3, Started
    <2>2. UNCHANGED <<work, rows, attached, marked, doomed>>
      BY <1>3, Started
    <2>3. QED
      BY <2>1, <2>2, Begun, FreshFrame
  <1>4. ASSUME NEW r \in Request, Handle(r) \/ InterruptRequest(r) PROVE FreshInv'
    <2>1. CASE DeleteObjects(r)
      BY <2>1, ObjectsDeleted, FreshFrame
    <2>2. CASE MoveLinks(r)
      BY <2>2, LinksMoved, FreshFrame
    <2>3. CASE RemoveRow(r)
      BY <2>3, RowRemoved, FreshFrame
    <2>4. CASE CommitMerge(r)
      BY <2>4, RequestRested, FreshFrame DEF CommitMerge
    <2>5. CASE RemoveItem(r)
      <3>1. UNCHANGED <<work, marked, doomed>> /\ rows' \subseteq rows /\ attached' \subseteq attached
        BY <2>5 DEF RemoveItem
      <3>2. QED
        BY <2>5, <3>1, RequestRested, FreshFrame DEF RemoveItem
    <2>6. CASE MergeFails(r) \/ InterruptRequest(r)
      BY <2>6, RequestRested, FreshFrame DEF MergeFails, InterruptRequest, Abort
    <2>7. QED
      BY <1>4, <2>1, <2>2, <2>3, <2>4, <2>5, <2>6 DEF Handle
  <1>5. CASE MarkPictures \/ DeleteUser \/ DeleteUserFails
    BY <1>5, FreshFrame DEF MarkPictures, DeleteUser, DeleteUserFails
  <1>6. CASE PurgeObject \/ ForgetObject \/ InterruptPurge
    BY <1>6, FreshFrame DEF PurgeObject, ForgetObject, InterruptPurge
  <1>7. QED
    BY <1>1, <1>2, <1>3, <1>4, <1>5, <1>6 DEF Next

-----------------------------------------------------------------------------
\* A picture stays until it is attached: nobody can have it on a list.
LEMMA UploadFrame ==
    ASSUME FreshInv, UploadInv, UNCHANGED work, NEW gone, stored \ gone \subseteq stored',
           \A i \in gone : i \in doomed \/ \E r \in Request : i \in req[r].had
    PROVE  UploadInv'
  BY DEF UploadInv, FreshInv, Alone, Making

LEMMA UploadStep ==
    ASSUME TypeOK, FreshInv, UploadInv, [Next]_vars PROVE UploadInv'
  <1> USE DEF library, pictures, fate
  <1>1. CASE UNCHANGED vars
    BY <1>1 DEF vars, UploadInv
  <1>2. ASSUME NEW w \in Worker, Ingest(w) \/ InterruptIngest(w) PROVE UploadInv'
    <2>1. CASE Lookup(w)
      BY <2>1, LookedUp DEF Lookup, UploadInv
    <2>2. CASE Insert(w)
      BY <2>2, WorkerMoved DEF Insert, UploadInv
    <2>3. CASE InsertLink(w) \/ InsertFails(w) \/ QueueSearch(w) \/ InterruptIngest(w)
      BY <2>3, WorkerRested DEF InsertLink, InsertFails, QueueSearch, InterruptIngest, UploadInv
    <2>4. CASE Upload(w)
      BY <2>4, WorkerMoved DEF Upload, UploadInv
    <2>5. CASE NoPicture(w)
      BY <2>5, WorkerMoved, WorkerRested DEF NoPicture, UploadInv
    <2>6. CASE Attach(w)
      BY <2>6, WorkerMoved DEF Attach, UploadInv
    <2>7. QED
      BY <1>2, <2>1, <2>2, <2>3, <2>4, <2>5, <2>6 DEF Ingest
  <1>3. ASSUME NEW r \in Request, Handle(r) PROVE UploadInv'
    <2>1. CASE DeleteObjects(r)
      <3>1. UNCHANGED work /\ stored \ ({Current(r)} \cap req[r].had) \subseteq stored'
        BY <2>1 DEF DeleteObjects, Erase
      <3>2. QED
        BY <3>1, UploadFrame
    <2>2. CASE ~DeleteObjects(r)
      BY <1>3, <2>2, UploadFrame
         DEF Handle, MoveLinks, RemoveRow, CommitMerge, RemoveItem, MergeFails, Abort, UploadInv
    <2>3. QED
      BY <2>1, <2>2
  <1>4. ASSUME NEW r \in Request, StartRemove(r) \/ StartMerge(r) \/ InterruptRequest(r)
        PROVE  UploadInv'
    BY <1>4, Started DEF InterruptRequest, Abort, UploadInv
  <1>5. CASE MarkPictures \/ DeleteUser \/ DeleteUserFails \/ ForgetObject \/ InterruptPurge
    BY <1>5 DEF MarkPictures, DeleteUser, DeleteUserFails, ForgetObject, InterruptPurge, UploadInv
  <1>6. CASE PurgeObject
    <2>1. PICK i \in doomed : Erase({i})
      BY <1>6 DEF PurgeObject
    <2>2. QED
      BY <1>6, <2>1, UploadFrame DEF PurgeObject, Erase
  <1>7. QED
    BY <1>1, <1>2, <1>3, <1>4, <1>5, <1>6 DEF Next

-----------------------------------------------------------------------------
\* A deleted user has no items, and only then is anything listed or purged.
LEMMA UserFrame ==
    ASSUME UserInv, UNCHANGED <<user, doomed, purging>>, rows' \subseteq rows \/ user # "gone",
           \A i \in stored' : i \in stored \/ i \notin doomed
    PROVE  UserInv'
  BY DEF UserInv

LEMMA UserStep ==
    ASSUME TypeOK, FreshInv, UserInv, [Next]_vars PROVE UserInv'
  <1> USE DEF library, pictures, fate
  <1>1. CASE UNCHANGED vars
    BY <1>1 DEF vars, UserInv
  <1>2. ASSUME NEW w \in Worker, Ingest(w) \/ InterruptIngest(w) PROVE UserInv'
    <2>1. CASE Upload(w)
      <3>1. work[w].item \notin doomed
        BY <2>1 DEF Upload, FreshInv, Alone, Making
      <3>2. QED
        BY <2>1, <3>1, UserFrame DEF Upload
    <2>2. CASE ~Upload(w)
      BY <1>2, <2>2, UserFrame DEF Ingest, Lookup, Insert, InsertLink, InsertFails, NoPicture,
         Attach, QueueSearch, InterruptIngest
    <2>3. QED
      BY <2>1, <2>2
  <1>3. ASSUME NEW r \in Request, StartRemove(r) \/ StartMerge(r) \/ InterruptRequest(r)
        PROVE  UserInv'
    BY <1>3, Started, UserFrame DEF InterruptRequest, Abort
  <1>4. ASSUME NEW r \in Request, Handle(r) PROVE UserInv'
    <2>1. CASE DeleteObjects(r)
      <3>1. UNCHANGED <<user, doomed, purging, rows>> /\ stored' \subseteq stored
        BY <2>1 DEF DeleteObjects, Erase
      <3>2. QED
        BY <3>1, UserFrame
    <2>2. CASE MoveLinks(r) \/ RemoveRow(r)
      BY <2>2, LinksMoved, RowRemoved, UserFrame
    <2>3. CASE CommitMerge(r)
      BY <2>3, UserFrame DEF CommitMerge
    <2>4. CASE RemoveItem(r)
      <3>1. UNCHANGED <<user, doomed, purging, stored>> /\ rows' \subseteq rows
        BY <2>4 DEF RemoveItem
      <3>2. QED
        BY <3>1, UserFrame
    <2>5. CASE MergeFails(r)
      BY <2>5, UserFrame DEF MergeFails, Abort
    <2>6. QED
      BY <1>4, <2>1, <2>2, <2>3, <2>4, <2>5 DEF Handle
  <1>5. CASE MarkPictures
    BY <1>5 DEF MarkPictures, UserInv
  <1>6. CASE DeleteUser
    BY <1>6 DEF DeleteUser, UserInv, NoItem
  <1>7. CASE DeleteUserFails
    BY <1>7 DEF DeleteUserFails, UserInv
  <1>8. CASE PurgeObject
    BY <1>8 DEF PurgeObject, Erase, UserInv
  <1>9. CASE ForgetObject \/ InterruptPurge
    BY <1>9 DEF ForgetObject, InterruptPurge, UserInv
  <1>10. QED
    BY <1>1, <1>2, <1>3, <1>4, <1>5, <1>6, <1>7, <1>8, <1>9 DEF Next

-----------------------------------------------------------------------------
\* How far a request is, and that what it erased goes with the row.
LEMMA StepFrame ==
    ASSUME StepInv, NEW q \in Request, req'[q] = req[q],
           \A i \in req[q].erased : (i \in rows' => i \in rows) /\ (i \in stored' => i \in stored)
    PROVE  InStep(q)'
  <1>1. Current(q)' = Current(q)
    BY SameCurrent
  <1>2. InStep(q)
    BY DEF StepInv
  <1>3. QED
    BY <1>1, <1>2 DEF InStep

LEMMA StepStep ==
    ASSUME TypeOK, FreshInv, StepInv, [Next]_vars PROVE StepInv'
  <1> USE DEF library, pictures, fate
  <1>1. CASE UNCHANGED vars
    <2>1. UNCHANGED <<req, rows, stored>>
      BY <1>1 DEF vars
    <2>2. QED
      BY <2>1, StepFrame DEF StepInv
  <1>2. ASSUME NEW w \in Worker, Ingest(w) \/ InterruptIngest(w) PROVE StepInv'
    <2>1. UNCHANGED req
      BY <1>2 DEF Ingest, Lookup, Insert, InsertLink, InsertFails, Upload, NoPicture, Attach,
         QueueSearch, InterruptIngest
    <2>2. \A q \in Request : Making(w) /\ work[w].at # "search" => work[w].item \notin req[q].erased
      BY DEF FreshInv, Alone, Making, StepInv, InStep
    <2>3. \A q \in Request : \A i \in req[q].erased :
             (i \in rows' => i \in rows) /\ (i \in stored' => i \in stored)
      BY <1>2, <2>2 DEF Making, Ingest, Lookup, Insert, InsertLink, InsertFails, Upload, NoPicture,
         Attach, QueueSearch, InterruptIngest
    <2>4. QED
      BY <2>1, <2>3, StepFrame DEF StepInv
  <1>3. ASSUME NEW r \in Request, StartRemove(r) \/ StartMerge(r) PROVE StepInv'
    <2>1. PICK into \in rows \cup {NoItem}, todo \in SUBSET rows :
             /\ Begin(r, into, todo)
             /\ todo # {} /\ (into \in todo => \A i \in todo : into <= i)
             /\ into = NoItem => \A i, j \in todo : i = j
      BY <1>3, Started
    <2>2. UNCHANGED <<rows, stored>>
      BY <1>3, Started
    <2>3. ASSUME NEW q \in Request \ {r} PROVE InStep(q)'
      BY <2>1, <2>2, Begun, StepFrame
    <2>4. InStep(r)'
      BY <2>1, Begun DEF InStep
    <2>5. QED
      BY <2>3, <2>4 DEF StepInv
  <1>4. ASSUME NEW r \in Request, DeleteObjects(r) PROVE StepInv'
    <2>1. UNCHANGED rows /\ stored' \subseteq stored
          /\ (SlashMatters \/ stored' = stored \ ({Current(r)} \cap req[r].had))
      BY <1>4 DEF DeleteObjects, Erase
    <2>2. ASSUME NEW q \in Request \ {r} PROVE InStep(q)'
      BY <1>4, <2>1, ObjectsDeleted, StepFrame
    <2>3. req[r].at = "objects" /\ Current(r)' = Current(r)
      BY <1>4, ObjectsDeleted, SameCurrent DEF DeleteObjects
    <2>4. InStep(r)'
      <3>1. InStep(r)
        BY DEF StepInv
      <3>2. QED
        BY <1>4, <2>1, <2>3, <3>1, ObjectsDeleted DEF InStep
    <2>5. QED
      BY <2>2, <2>4 DEF StepInv
  <1>5. ASSUME NEW r \in Request, MoveLinks(r) PROVE StepInv'
    <2>1. ASSUME NEW q \in Request \ {r} PROVE InStep(q)'
      BY <1>5, <2>1, LinksMoved, StepFrame
    <2>2. req[r].at = "links" /\ Current(r)' = Current(r)
      BY <1>5, LinksMoved, SameCurrent DEF MoveLinks
    <2>3. InStep(r)'
      <3>1. InStep(r)
        BY DEF StepInv
      <3>2. QED
        BY <1>5, <2>2, <3>1, LinksMoved DEF InStep
    <2>4. QED
      BY <2>1, <2>3 DEF StepInv
  <1>6. ASSUME NEW r \in Request, RemoveRow(r) PROVE StepInv'
    <2>1. ASSUME NEW q \in Request \ {r} PROVE InStep(q)'
      BY <1>6, <2>1, RowRemoved, StepFrame
    <2>2. req[r].at = "row" /\ req[r].into # NoItem
      BY <1>6 DEF RemoveRow
    <2>3. InStep(r)'
      <3>1. InStep(r)
        BY DEF StepInv
      <3>2. Current(r) \in req[r].todo
        BY <2>2, <3>1, CurrentInTodo DEF InStep
      <3>4. req[r].into \notin req'[r].todo
        BY <1>6, ItselfFirst, RowRemoved
      <3>3. QED
        BY <1>6, <2>2, <3>1, <3>2, <3>4, RowRemoved DEF InStep
    <2>4. QED
      BY <2>1, <2>3 DEF StepInv
  <1>7. ASSUME NEW r \in Request,
               CommitMerge(r) \/ RemoveItem(r) \/ MergeFails(r) \/ InterruptRequest(r)
        PROVE  StepInv'
    <2>1. req' = [req EXCEPT ![r] = Free] /\ UNCHANGED stored /\ rows' \subseteq rows
      BY <1>7 DEF CommitMerge, RemoveItem, MergeFails, InterruptRequest, Abort
    <2>2. ASSUME NEW q \in Request \ {r} PROVE InStep(q)'
      BY <2>1, <2>2, RequestRested, StepFrame
    <2>3. InStep(r)'
      BY <2>1, RequestRested DEF InStep
    <2>4. QED
      BY <2>2, <2>3 DEF StepInv
  <1>8. CASE MarkPictures \/ DeleteUser \/ DeleteUserFails \/ PurgeObject \/ ForgetObject
             \/ InterruptPurge
    <2>1. UNCHANGED req /\ stored' \subseteq stored /\ rows' \subseteq rows
      BY <1>8 DEF MarkPictures, DeleteUser, DeleteUserFails, PurgeObject, Erase, ForgetObject,
         InterruptPurge
    <2>2. QED
      BY <2>1, StepFrame DEF StepInv
  <1>9. QED
    BY <1>1, <1>2, <1>3, <1>4, <1>5, <1>6, <1>7, <1>8 DEF Next, Handle

-----------------------------------------------------------------------------
\* The links a merge has moved, and the item it moves them to.
LEMMA LinksFrame ==
    ASSUME MoveInv, NEW q \in Request, UNCHANGED <<rows, late>>, req'[q] = req[q],
           \A l \in links' : l \in links \/ l.item \notin Emptied(q) \/ l.source \in late,
           \A r \in Request : req[q].into \in req'[r].dead => req[q].into \in req[r].dead
    PROVE  LinksKept(q)'
  <1>1. Emptied(q)' = Emptied(q)
    BY SameCurrent DEF Emptied
  <1>2. QED
    BY <1>1 DEF MoveInv, LinksKept

LEMMA MoveStep ==
    ASSUME TypeOK, FreshInv, StepInv, MoveInv, [Next]_vars PROVE MoveInv'
  <1> USE DEF library, pictures, fate
  <1>1. CASE UNCHANGED vars
    <2>1. UNCHANGED <<req, rows, links, late>>
      BY <1>1 DEF vars
    <2>2. QED
      BY <2>1, LinksFrame DEF MoveInv
  <1>2. ASSUME NEW w \in Worker, Ingest(w) \/ InterruptIngest(w) PROVE MoveInv'
    <2>1. UNCHANGED req
      BY <1>2 DEF Ingest, Lookup, Insert, InsertLink, InsertFails, Upload, NoPicture, Attach,
         QueueSearch, InterruptIngest
    <2>2. CASE Insert(w)
      <3>1. \A q \in Request : work[w].item \notin Emptied(q)
        <4> SUFFICES ASSUME NEW q \in Request PROVE work[w].item \notin Emptied(q)
          OBVIOUS
        <4>1. work[w].item \notin req[q].todo \cup req[q].dead
          BY <2>2 DEF Insert, FreshInv, Alone, Making
        <4>2. req[q].at = "row" => Current(q) \in req[q].todo
          BY CurrentInTodo DEF StepInv, InStep
        <4>3. QED
          BY <4>1, <4>2 DEF Emptied
      <3>2. ASSUME NEW q \in Request PROVE LinksKept(q)'
        <4>1. Emptied(q)' = Emptied(q) /\ LinksKept(q)
          BY <2>1, SameCurrent DEF Emptied, MoveInv
        <4>2. rows \subseteq rows' /\ late' = late
              /\ \A l \in links' : l \in links \/ l.item = work[w].item
          BY <2>2 DEF Insert
        <4>3. QED
          BY <2>1, <3>1, <4>1, <4>2 DEF LinksKept
      <3>3. QED
        BY <3>2 DEF MoveInv
    <2>3. CASE InsertLink(w)
      <3>1. ASSUME NEW q \in Request PROVE LinksKept(q)'
        <4>1. Emptied(q)' = Emptied(q) /\ LinksKept(q)
          BY <2>1, SameCurrent DEF Emptied, MoveInv
        <4>2. /\ rows' = rows /\ late \subseteq late'
              /\ \A l \in links' : l \in links \/
                    (l.item = work[w].item /\ l.source = work[w].source)
              /\ ~Deleting(work[w].item)
              /\ MergedAway(work[w].item) => work[w].source \in late'
          BY <2>3 DEF InsertLink
        <4>3. work[w].item \in Emptied(q) => work[w].source \in late'
          BY <4>2 DEF Emptied, Deleting, MergedAway
        <4>4. QED
          BY <2>1, <4>1, <4>2, <4>3 DEF LinksKept
      <3>2. QED
        BY <3>1 DEF MoveInv
    <2>4. CASE ~Insert(w) /\ ~InsertLink(w)
      <3>1. UNCHANGED <<req, rows, links, late>>
        BY <1>2, <2>4 DEF Ingest, Lookup, InsertFails, Upload, NoPicture, Attach, QueueSearch,
           InterruptIngest
      <3>2. QED
        BY <3>1, LinksFrame DEF MoveInv
    <2>5. QED
      BY <2>2, <2>3, <2>4
  <1>3. ASSUME NEW r \in Request, StartRemove(r) \/ StartMerge(r) PROVE MoveInv'
    <2>1. PICK into \in rows \cup {NoItem}, todo \in SUBSET rows : Begin(r, into, todo)
      BY <1>3, Started
    <2>2. UNCHANGED <<rows, links, late>>
      BY <1>3, Started
    <2>3. ASSUME NEW q \in Request \ {r} PROVE LinksKept(q)'
      BY <2>1, <2>2, Begun, LinksFrame
    <2>4. LinksKept(r)'
      BY <2>1, <2>2, Begun DEF LinksKept, Emptied
    <2>5. QED
      BY <2>3, <2>4 DEF MoveInv
  <1>4. ASSUME NEW r \in Request, DeleteObjects(r) PROVE MoveInv'
    <2>1. ASSUME NEW q \in Request \ {r} PROVE LinksKept(q)'
      BY <1>4, ObjectsDeleted, LinksFrame
    <2>2. Emptied(r)' = Emptied(r)
      <3>1. req[r].at = "objects"
        BY <1>4 DEF DeleteObjects
      <3>2. QED
        BY <1>4, <3>1, ObjectsDeleted DEF Emptied
    <2>3. LinksKept(r)'
      BY <1>4, <2>2, ObjectsDeleted DEF LinksKept, MoveInv
    <2>4. QED
      BY <2>1, <2>3 DEF MoveInv
  <1>5. ASSUME NEW r \in Request, MoveLinks(r) PROVE MoveInv'
    <2>1. ASSUME NEW q \in Request \ {r} PROVE LinksKept(q)'
      BY <1>5, LinksMoved, LinksFrame
    <2>2. Emptied(r)' \subseteq Emptied(r) \cup {Current(r)}
      BY <1>5, LinksMoved, SameCurrent DEF Emptied
    <2>3. Of(Current(r)) # {} =>
             /\ req[r].into \in rows
             /\ \A q \in Request \ {r} : req[r].into \notin req[q].dead
             /\ Current(r) = req[r].into \/ req[r].into \notin req[r].dead
      BY <1>5 DEF MoveLinks, Collides, Of, TypeOK
    <2>6. Of(Current(r)) # {} /\ req[r].into \in req[r].todo \cup req[r].dead =>
             Current(r) = req[r].into
      BY <2>3, ItselfFirst
    <2>4. LinksKept(r)'
      <3>1. /\ req'[r].into = req[r].into /\ req'[r].todo = req[r].todo
            /\ req'[r].dead = req[r].dead
            /\ req'[r].moved = req[r].moved \cup Of(Current(r))
            /\ UNCHANGED <<rows, links, late>> /\ \A q \in Request \ {r} : req'[q] = req[q]
        BY <1>5, LinksMoved
      <3>2. LinksKept(r)
        BY DEF MoveInv
      <3>3. \A l \in links' : l.item \in Emptied(r)' => l \in req'[r].moved \/ l.source \in late'
        BY <2>2, <3>1, <3>2 DEF LinksKept, Of
      <3>4. req'[r].moved # {} =>
               req'[r].into \in rows' /\ \A q \in Request \ {r} : req'[r].into \notin req'[q].dead
        BY <2>3, <3>1, <3>2 DEF LinksKept
      <3>5. req'[r].into \in req'[r].todo \cup req'[r].dead =>
               \A l \in req'[r].moved : l.item = req'[r].into
        BY <2>6, <3>1, <3>2 DEF LinksKept, Of
      <3>6. QED
        BY <3>3, <3>4, <3>5 DEF LinksKept
    <2>5. QED
      BY <2>1, <2>4 DEF MoveInv
  <1>6. ASSUME NEW r \in Request, RemoveRow(r) PROVE MoveInv'
    <2>1. Current(r) \in req[r].todo /\ RowIsFree(r, Current(r))
      BY <1>6, CurrentInTodo DEF RemoveRow, StepInv, InStep
    <2>2. ASSUME NEW q \in Request \ {r} PROVE LinksKept(q)'
      <3>1. CASE req[q].moved = {}
        <4>1. Emptied(q)' = Emptied(q)
          BY <1>6, RowRemoved, SameCurrent DEF Emptied
        <4>2. QED
          BY <1>6, <3>1, <4>1, RowRemoved DEF LinksKept, MoveInv
      <3>2. CASE req[q].moved # {}
        BY <1>6, <2>1, <3>2, RowRemoved, LinksFrame DEF RowIsFree
      <3>3. QED
        BY <3>1, <3>2
    <2>3. Emptied(r)' \subseteq Emptied(r)
      <3>1. req[r].at = "row" /\ req[r].into # NoItem
        BY <1>6 DEF RemoveRow
      <3>2. QED
        BY <1>6, <3>1, RowRemoved DEF Emptied
    <2>4. LinksKept(r)'
      BY <1>6, <2>1, <2>3, RowRemoved DEF LinksKept, MoveInv, StepInv, InStep
    <2>5. QED
      BY <2>2, <2>4 DEF MoveInv
  <1>7. ASSUME NEW r \in Request, CommitMerge(r) PROVE MoveInv'
    <2>1. /\ \A q \in Request \ {r} : req'[q] = req[q]
          /\ req'[r] = Free /\ req'[r].at = "idle" /\ req'[r].moved = {} /\ req'[r].dead = {}
      BY <1>7, RequestRested DEF CommitMerge
    <2>2. ASSUME NEW q \in Request \ {r} PROVE LinksKept(q)'
      <3>1. Emptied(q)' = Emptied(q) /\ LinksKept(q)
        BY <2>1, SameCurrent DEF Emptied, MoveInv
      <3> DEFINE sources == IF req[r].into \in req[r].dead THEN {} ELSE Sources(req[r].moved)
      <3>2. \A l \in links' : l \in links \/ (l.item = req[r].into /\ l.source \in sources)
        BY <1>7 DEF CommitMerge
      <3>3. sources # {} /\ req[r].into \in Emptied(q) => MergedAway(req[r].into)
        <4>1. sources # {} => req[r].moved # {}
          BY DEF Sources
        <4>2. req[r].moved # {} => req[r].into \notin req[q].dead
          BY DEF MoveInv, LinksKept
        <4>3. QED
          BY <4>1, <4>2 DEF Emptied, MergedAway
      <3>4. late \subseteq late' /\ (MergedAway(req[r].into) => sources \subseteq late')
        BY <1>7 DEF CommitMerge
      <3> HIDE DEF sources
      <3>5. \A l \in links' : l.item \in Emptied(q)' => l \in req'[q].moved \/ l.source \in late'
        BY <2>1, <3>1, <3>2, <3>3, <3>4 DEF LinksKept
      <3>6. req'[q].moved # {} => req'[q].into \in rows'
        BY <1>7, <2>1, <3>1 DEF LinksKept, CommitMerge
      <3>7. req'[q].moved # {} => \A p \in Request \ {q} : req'[q].into \notin req'[p].dead
        BY <2>1, <3>1 DEF LinksKept
      <3>9. req'[q].into \in req'[q].todo \cup req'[q].dead =>
               \A l \in req'[q].moved : l.item = req'[q].into
        BY <2>1, <3>1 DEF LinksKept
      <3>8. QED
        BY <3>5, <3>6, <3>7, <3>9 DEF LinksKept
    <2>3. LinksKept(r)'
      BY <2>1 DEF LinksKept, Emptied
    <2>4. QED
      BY <2>2, <2>3 DEF MoveInv
  <1>8. ASSUME NEW r \in Request, RemoveItem(r) PROVE MoveInv'
    <2>1. /\ \A q \in Request \ {r} : req'[q] = req[q]
          /\ req'[r] = Free /\ req'[r].at = "idle" /\ req'[r].moved = {} /\ req'[r].dead = {}
      BY <1>8, RequestRested DEF RemoveItem
    <2>2. /\ links' \subseteq links /\ late' = late /\ rows' = rows \ {Current(r)}
          /\ RowIsFree(r, Current(r))
      BY <1>8 DEF RemoveItem
    <2>3. ASSUME NEW q \in Request \ {r} PROVE LinksKept(q)'
      <3>1. Emptied(q)' = Emptied(q) /\ LinksKept(q)
        BY <2>1, SameCurrent DEF Emptied, MoveInv
      <3>2. QED
        BY <2>1, <2>2, <3>1 DEF LinksKept, RowIsFree
    <2>4. LinksKept(r)'
      BY <2>1 DEF LinksKept, Emptied
    <2>5. QED
      BY <2>3, <2>4 DEF MoveInv
  <1>9. ASSUME NEW r \in Request, MergeFails(r) \/ InterruptRequest(r) PROVE MoveInv'
    <2>1. /\ \A q \in Request \ {r} : req'[q] = req[q]
          /\ req'[r].at = "idle" /\ req'[r].moved = {} /\ req'[r].dead = {}
          /\ UNCHANGED <<rows, links, late>>
      BY <1>9, RequestRested DEF MergeFails, InterruptRequest, Abort
    <2>2. ASSUME NEW q \in Request \ {r} PROVE LinksKept(q)'
      BY <2>1, LinksFrame
    <2>3. LinksKept(r)'
      BY <2>1 DEF LinksKept, Emptied
    <2>4. QED
      BY <2>2, <2>3 DEF MoveInv
  <1>10. CASE DeleteUser
    <2>1. UNCHANGED req /\ links' = {} /\ \A r \in Request : req[r].moved = {}
      BY <1>10 DEF DeleteUser
    <2>2. QED
      BY <2>1 DEF MoveInv, LinksKept
  <1>11. CASE MarkPictures \/ DeleteUserFails \/ PurgeObject \/ ForgetObject \/ InterruptPurge
    <2>1. UNCHANGED <<req, rows, links, late>>
      BY <1>11 DEF MarkPictures, DeleteUserFails, PurgeObject, ForgetObject, InterruptPurge
    <2>2. QED
      BY <2>1, LinksFrame DEF MoveInv
  <1>12. QED
    BY <1>1, <1>2, <1>3, <1>4, <1>5, <1>6, <1>7, <1>8, <1>9, <1>10, <1>11 DEF Next, Handle

-----------------------------------------------------------------------------
\* The picture an item shows.
LEMMA ShownStep ==
    ASSUME TypeOK, FreshInv, UploadInv, UserInv, StepInv, PictureShown, [Next]_vars
    PROVE  PictureShown'
  <1> USE DEF library, pictures, fate
  <1>1. CASE UNCHANGED vars
    BY <1>1 DEF vars, PictureShown
  <1>2. ASSUME NEW w \in Worker, Ingest(w) \/ InterruptIngest(w) PROVE PictureShown'
    <2>1. UNCHANGED <<req, spoiled>> /\ stored \subseteq stored'
      BY <1>2 DEF Ingest, Lookup, Insert, InsertLink, InsertFails, Upload, NoPicture, Attach,
         QueueSearch, InterruptIngest
    <2>2. \A i \in attached' : i \in attached \/ i \in stored
      BY <1>2 DEF UploadInv, Ingest, Lookup, Insert, InsertLink, InsertFails, Upload, NoPicture,
         Attach, QueueSearch, InterruptIngest
    <2>3. QED
      BY <2>1, <2>2 DEF PictureShown
  <1>3. ASSUME NEW r \in Request, StartRemove(r) \/ StartMerge(r) PROVE PictureShown'
    <2>1. PICK into \in rows \cup {NoItem}, todo \in SUBSET rows : Begin(r, into, todo)
      BY <1>3, Started
    <2>2. UNCHANGED <<attached, stored, spoiled>>
      BY <1>3, Started
    <2>3. req[r].at = "idle"
      BY <2>1 DEF Begin
    <2>4. req[r].erased = {}
      BY <2>3 DEF StepInv, InStep, Free
    <2>5. QED
      BY <2>1, <2>2, <2>4, Begun DEF PictureShown
  <1>4. ASSUME NEW r \in Request, DeleteObjects(r) PROVE PictureShown'
    <2>1. stored \ ({Current(r)} \cap req[r].had) \subseteq stored'
          /\ UNCHANGED <<attached, spoiled>>
      BY <1>4 DEF DeleteObjects, Erase
    <2>2. QED
      BY <1>4, <2>1, ObjectsDeleted DEF PictureShown
  <1>5. ASSUME NEW r \in Request, MoveLinks(r) \/ RemoveRow(r) PROVE PictureShown'
    <2>1. UNCHANGED <<attached, stored, spoiled>> /\ \A q \in Request : req'[q].erased = req[q].erased
      BY <1>5, LinksMoved, RowRemoved
    <2>2. QED
      BY <2>1 DEF PictureShown
  <1>6. ASSUME NEW r \in Request, CommitMerge(r) \/ RemoveItem(r) PROVE PictureShown'
    <2>1. \A q \in Request \ {r} : req'[q] = req[q]
      BY <1>6, RequestRested DEF CommitMerge, RemoveItem
    <2>2. UNCHANGED <<stored, spoiled>>
      BY <1>6 DEF CommitMerge, RemoveItem
    <2>3. attached' \subseteq attached /\ attached' \cap req[r].erased = {}
      <3>1. InStep(r) /\ attached \subseteq rows
        BY DEF StepInv, TypeOK
      <3>2. CASE CommitMerge(r)
        BY <3>1, <3>2 DEF CommitMerge, InStep
      <3>3. CASE RemoveItem(r)
        BY <3>1, <3>3 DEF RemoveItem, InStep
      <3>4. QED
        BY <1>6, <3>2, <3>3
    <2>4. QED
      BY <2>1, <2>2, <2>3 DEF PictureShown
  <1>7. ASSUME NEW r \in Request, MergeFails(r) \/ InterruptRequest(r) PROVE PictureShown'
    <2>1. /\ \A q \in Request \ {r} : req'[q] = req[q]
          /\ UNCHANGED <<attached, stored>> /\ spoiled' = spoiled \cup req[r].erased
      BY <1>7, RequestRested DEF MergeFails, InterruptRequest, Abort
    <2>2. QED
      BY <2>1 DEF PictureShown
  <1>8. CASE PurgeObject
    <2>1. attached = {} /\ UNCHANGED attached
      BY <1>8 DEF PurgeObject, UserInv, TypeOK
    <2>2. QED
      BY <2>1 DEF PictureShown
  <1>9. CASE MarkPictures \/ DeleteUser \/ DeleteUserFails \/ ForgetObject \/ InterruptPurge
    BY <1>9 DEF MarkPictures, DeleteUser, DeleteUserFails, ForgetObject, InterruptPurge, PictureShown
  <1>10. QED
    BY <1>1, <1>2, <1>3, <1>4, <1>5, <1>6, <1>7, <1>8, <1>9 DEF Next, Handle

-----------------------------------------------------------------------------
\* The item a picture belongs to, or what becomes of it.
LEMMA AccountedFrame ==
    ASSUME PictureAccounted, UNCHANGED work, stored' \subseteq stored,
           \A i \in stored : i \in attached \cup doomed \cup leaked =>
               SlashMatters' \/ i \notin stored' \/ i \in attached' \cup doomed' \cup leaked'
    PROVE  PictureAccounted'
  BY DEF PictureAccounted

LEMMA AccountedStep ==
    ASSUME TypeOK, UserInv, StepInv, PictureAccounted, [Next]_vars
    PROVE  PictureAccounted'
  <1> USE DEF library, pictures, fate
  <1>1. CASE UNCHANGED vars
    BY <1>1 DEF vars, PictureAccounted
  <1>2. ASSUME NEW w \in Worker, Ingest(w) \/ InterruptIngest(w) PROVE PictureAccounted'
    <2>1. CASE Upload(w)
      <3>1. /\ work[w].at = "upload" /\ UNCHANGED <<attached, doomed, leaked>>
            /\ stored' = stored \cup {work[w].item} /\ work' = [work EXCEPT ![w].at = "attach"]
        BY <2>1 DEF Upload
      <3>2. /\ \A v \in Worker \ {w} : work'[v] = work[v]
            /\ work'[w].at = "attach" /\ work'[w].item = work[w].item
        BY <3>1, WorkerMoved
      <3>3. QED
        BY <3>1, <3>2 DEF PictureAccounted
    <2>2. CASE Attach(w)
      BY <2>2, WorkerMoved DEF Attach, PictureAccounted
    <2>3. CASE InterruptIngest(w)
      BY <2>3, WorkerRested DEF InterruptIngest, PictureAccounted
    <2>4. CASE Ingest(w) /\ ~Upload(w) /\ ~Attach(w)
      <3>1. UNCHANGED <<attached, stored, doomed, leaked>> /\ work[w].at # "attach"
        BY <2>4 DEF Ingest, Lookup, Insert, InsertLink, InsertFails, NoPicture, QueueSearch
      <3>2. \A v \in Worker \ {w} : work'[v] = work[v]
        BY <2>4, LookedUp, WorkerMoved, WorkerRested
           DEF Ingest, Insert, InsertLink, InsertFails, NoPicture, QueueSearch
      <3>3. QED
        BY <3>1, <3>2 DEF PictureAccounted
    <2>5. QED
      BY <1>2, <2>1, <2>2, <2>3, <2>4
  <1>3. ASSUME NEW r \in Request, StartRemove(r) \/ StartMerge(r) PROVE PictureAccounted'
    BY <1>3, Started DEF PictureAccounted
  <1>4. ASSUME NEW r \in Request, DeleteObjects(r) PROVE PictureAccounted'
    <2>1. stored' \subseteq stored /\ UNCHANGED leaked
      BY <1>4 DEF DeleteObjects, Erase
    <2>2. UNCHANGED <<work, attached, doomed>>
      BY <1>4, ObjectsDeleted DEF DeleteObjects
    <2>3. QED
      BY <2>1, <2>2, AccountedFrame
  <1>5. ASSUME NEW r \in Request, MoveLinks(r) \/ RemoveRow(r) PROVE PictureAccounted'
    BY <1>5, LinksMoved, RowRemoved, AccountedFrame
  <1>6. ASSUME NEW r \in Request, CommitMerge(r) PROVE PictureAccounted'
    <2>1. SlashMatters \/ req[r].erased \cap stored = {}
      BY DEF StepInv, InStep
    <2>2. QED
      BY <1>6, <2>1, AccountedFrame DEF CommitMerge
  <1>7. ASSUME NEW r \in Request, RemoveItem(r) PROVE PictureAccounted'
    <2>1. SlashMatters \/ req[r].erased \cap stored = {}
      BY DEF StepInv, InStep
    <2>2. QED
      BY <1>7, <2>1, AccountedFrame DEF RemoveItem
  <1>8. ASSUME NEW r \in Request, MergeFails(r) \/ InterruptRequest(r) PROVE PictureAccounted'
    BY <1>8, AccountedFrame DEF MergeFails, InterruptRequest, Abort
  <1>9. CASE DeleteUser
    BY <1>9, AccountedFrame DEF DeleteUser
  <1>10. CASE ForgetObject
    BY <1>10, AccountedFrame DEF ForgetObject, UserInv
  <1>11. CASE MarkPictures \/ DeleteUserFails \/ PurgeObject \/ InterruptPurge
    BY <1>11, AccountedFrame DEF MarkPictures, DeleteUserFails, PurgeObject, Erase, InterruptPurge
  <1>12. QED
    BY <1>1, <1>2, <1>3, <1>4, <1>5, <1>6, <1>7, <1>8, <1>9, <1>10, <1>11 DEF Next, Handle

-----------------------------------------------------------------------------
\* Where a submission that was linked went.
LEMMA SourceFrame ==
    ASSUME SourceKept, UNCHANGED known, discarded \subseteq discarded', late \subseteq late',
           twice \subseteq twice',
           \A l \in links : l \in links' \/ l.source \in discarded' \cup late' \cup twice'
                            \/ \E k \in links' : k.source = l.source
    PROVE  SourceKept'
  BY DEF SourceKept, Sources

LEMMA SourceStep ==
    ASSUME TypeOK, MoveInv, SourceKept, [Next]_vars PROVE SourceKept'
  <1> USE DEF library, pictures, fate
  <1>1. CASE UNCHANGED vars
    BY <1>1 DEF vars, SourceKept, Sources
  <1>2. ASSUME NEW w \in Worker, Ingest(w) \/ InterruptIngest(w) PROVE SourceKept'
    <2>1. CASE Insert(w)
      <3>1. /\ links' = links \cup [item: {work[w].item}, source: Posted(work[w].source)]
            /\ known' = known \cup Posted(work[w].source) /\ UNCHANGED <<discarded, late, twice>>
        BY <2>1 DEF Insert
      <3>2. \A s \in Posted(work[w].source) : \E l \in links' : l.source = s
        <4> SUFFICES ASSUME NEW s \in Posted(work[w].source) PROVE \E l \in links' : l.source = s
          OBVIOUS
        <4>1. [item |-> work[w].item, source |-> s] \in links'
          BY <3>1
        <4>2. QED
          BY <4>1
      <3>3. QED
        BY <3>1, <3>2 DEF SourceKept, Sources
    <2>2. CASE InsertLink(w)
      <3>1. /\ links' = links \cup {[item |-> work[w].item, source |-> work[w].source]}
            /\ known' = known \cup {work[w].source} /\ late \subseteq late' /\ UNCHANGED <<discarded, twice>>
        BY <2>2 DEF InsertLink
      <3>2. [item |-> work[w].item, source |-> work[w].source].source = work[w].source
        OBVIOUS
      <3>3. \E l \in links' : l.source = work[w].source
        BY <3>1, <3>2
      <3>4. QED
        BY <3>1, <3>3 DEF SourceKept, Sources
    <2>3. CASE ~Insert(w) /\ ~InsertLink(w)
      BY <1>2, <2>3, SourceFrame DEF Ingest, Lookup, InsertFails, Upload, NoPicture, Attach,
         QueueSearch, InterruptIngest
    <2>4. QED
      BY <2>1, <2>2, <2>3
  <1>3. ASSUME NEW r \in Request, StartRemove(r) \/ StartMerge(r) PROVE SourceKept'
    BY <1>3, Started, SourceFrame
  <1>4. ASSUME NEW r \in Request, DeleteObjects(r) \/ MoveLinks(r) \/ RemoveRow(r)
        PROVE  SourceKept'
    BY <1>4, ObjectsDeleted, LinksMoved, RowRemoved, SourceFrame
  <1>5. ASSUME NEW r \in Request, CommitMerge(r) PROVE SourceKept'
    <2> DEFINE to == req[r].into
               sources == IF to \in req[r].dead THEN {} ELSE Sources(req[r].moved)
    <2>1. /\ links' = {l \in links : l.item \notin req[r].dead} \cup [item: {to}, source: sources]
          /\ UNCHANGED <<known, discarded>> /\ late \subseteq late' /\ twice \subseteq twice'
          /\ to \in req[r].dead => Sources(Of(to)) \subseteq twice'
      BY <1>5 DEF CommitMerge
    <2>2. ASSUME NEW l \in links, l.item \in req[r].dead, l.source \notin late \cup twice'
          PROVE  \E k \in links' : k.source = l.source
      <3>1. l \in req[r].moved
        BY <2>2 DEF MoveInv, LinksKept, Emptied
      <3>2. to \notin req[r].dead
        BY <2>1, <2>2, <3>1 DEF MoveInv, LinksKept, Sources, Of
      <3>3. [item |-> to, source |-> l.source] \in links'
        BY <2>1, <3>1, <3>2 DEF Sources
      <3>4. QED
        BY <3>3
    <2>3. QED
      BY <2>1, <2>2, SourceFrame
  <1>6. ASSUME NEW r \in Request, RemoveItem(r) PROVE SourceKept'
    <2>1. /\ links' = links \ Of(Current(r)) /\ UNCHANGED <<known, late, twice>>
          /\ discarded' = discarded \cup Sources(Of(Current(r)))
      BY <1>6 DEF RemoveItem
    <2>2. QED
      BY <2>1, SourceFrame DEF Sources
  <1>7. ASSUME NEW r \in Request, MergeFails(r) \/ InterruptRequest(r) PROVE SourceKept'
    BY <1>7, SourceFrame DEF MergeFails, InterruptRequest, Abort
  <1>8. CASE DeleteUser
    BY <1>8, SourceFrame DEF DeleteUser, Sources
  <1>9. CASE MarkPictures \/ DeleteUserFails \/ PurgeObject \/ ForgetObject \/ InterruptPurge
    BY <1>9, SourceFrame DEF MarkPictures, DeleteUserFails, PurgeObject, ForgetObject, InterruptPurge
  <1>10. QED
    BY <1>1, <1>2, <1>3, <1>4, <1>5, <1>6, <1>7, <1>8, <1>9 DEF Next, Handle

-----------------------------------------------------------------------------
\* The search a new item is owed.
LEMMA SearchedFrame ==
    ASSUME NewItemSearched, UNCHANGED <<work, searched, unread, abandoned>>, rows' \subseteq rows
    PROVE  NewItemSearched'
  BY DEF NewItemSearched

LEMMA SearchedStep ==
    ASSUME TypeOK, NewItemSearched, [Next]_vars PROVE NewItemSearched'
  <1> USE DEF library, pictures, fate
  <1>1. CASE UNCHANGED vars
    BY <1>1 DEF vars, NewItemSearched
  <1>2. ASSUME NEW w \in Worker, Ingest(w) \/ InterruptIngest(w) PROVE NewItemSearched'
    <2>1. CASE Lookup(w)
      BY <2>1, LookedUp DEF Lookup, NewItemSearched
    <2>2. CASE Insert(w)
      <3>1. /\ work[w].at = "insert" /\ work' = [work EXCEPT ![w].at = "upload"]
            /\ rows' = rows \cup {work[w].item} /\ UNCHANGED <<searched, unread, abandoned>>
        BY <2>2 DEF Insert
      <3>2. /\ \A v \in Worker \ {w} : work'[v] = work[v]
            /\ work'[w].at = "upload" /\ work'[w].item = work[w].item
        BY <3>1, WorkerMoved
      <3>3. QED
        BY <3>1, <3>2 DEF NewItemSearched
    <2>3. CASE InsertLink(w) \/ InsertFails(w)
      BY <2>3, WorkerRested DEF InsertLink, InsertFails, NewItemSearched
    <2>4. CASE Upload(w)
      BY <2>4, WorkerMoved DEF Upload, NewItemSearched
    <2>5. CASE NoPicture(w)
      BY <2>5, WorkerMoved, WorkerRested DEF NoPicture, NewItemSearched
    <2>6. CASE Attach(w)
      BY <2>6, WorkerMoved DEF Attach, NewItemSearched
    <2>7. CASE QueueSearch(w) \/ InterruptIngest(w)
      BY <2>7, WorkerRested DEF QueueSearch, InterruptIngest, NewItemSearched
    <2>8. QED
      BY <1>2, <2>1, <2>2, <2>3, <2>4, <2>5, <2>6, <2>7 DEF Ingest
  <1>3. ASSUME NEW r \in Request, StartRemove(r) \/ StartMerge(r) PROVE NewItemSearched'
    BY <1>3, Started, SearchedFrame
  <1>4. ASSUME NEW r \in Request, DeleteObjects(r) \/ MoveLinks(r) \/ RemoveRow(r)
        PROVE  NewItemSearched'
    BY <1>4, ObjectsDeleted, LinksMoved, RowRemoved, SearchedFrame
  <1>5. ASSUME NEW r \in Request, CommitMerge(r) PROVE NewItemSearched'
    BY <1>5, SearchedFrame DEF CommitMerge
  <1>6. ASSUME NEW r \in Request, RemoveItem(r) PROVE NewItemSearched'
    BY <1>6, SearchedFrame DEF RemoveItem
  <1>7. ASSUME NEW r \in Request, MergeFails(r) \/ InterruptRequest(r) PROVE NewItemSearched'
    BY <1>7, SearchedFrame DEF MergeFails, InterruptRequest, Abort
  <1>8. CASE MarkPictures \/ DeleteUser \/ DeleteUserFails \/ PurgeObject \/ ForgetObject
             \/ InterruptPurge
    BY <1>8, SearchedFrame
       DEF MarkPictures, DeleteUser, DeleteUserFails, PurgeObject, ForgetObject, InterruptPurge
  <1>9. QED
    BY <1>1, <1>2, <1>3, <1>4, <1>5, <1>6, <1>7, <1>8 DEF Next, Handle

-----------------------------------------------------------------------------
LEMMA Start == Init => TypeOK /\ IInv
  <1> SUFFICES ASSUME Init PROVE TypeOK /\ IInv
    OBVIOUS
  <1>1. TypeOK
    <2>1. Idle \in Ingesting
      BY DEF Ingesting
    <2>2. Free \in Asking
      BY DEF Init, Free, NoItem, Asking
    <2>3. MaxItems \in Nat
      BY ConstantsAssumption
    <2>4. QED
      BY <2>1, <2>2, <2>3 DEF Init, TypeOK, NoItem
  <1>2. \A w \in Worker : work[w].at = "idle"
    BY DEF Init, Idle
  <1>3. \A r \in Request : req[r] = Free
    BY DEF Init
  <1>4. FreshInv /\ UploadInv /\ UserInv
    BY <1>2 DEF Init, FreshInv, Making, UploadInv, UserInv, NoItem
  <1>5. StepInv /\ MoveInv
    BY <1>3 DEF Init, Free, StepInv, InStep, MoveInv, LinksKept, NoItem
  <1>6. PictureShown /\ PictureAccounted /\ SourceKept /\ NewItemSearched
    BY DEF Init, PictureShown, PictureAccounted, SourceKept, NewItemSearched
  <1>7. QED
    BY <1>1, <1>4, <1>5, <1>6 DEF IInv

\* The items, links and pictures of one owner, and whoever works on them,
\* satisfy the inductive invariant, for any numbers of workers, requests,
\* contents, submissions and faults, and for a store of either kind.
THEOREM InductiveInvariant == Spec => [](TypeOK /\ IInv)
  <1>1. TypeOK /\ IInv /\ [Next]_vars => TypeOK' /\ IInv'
    BY TypeStep, FreshStep, UploadStep, UserStep, StepStep, MoveStep, ShownStep, AccountedStep,
       SourceStep, SearchedStep DEF IInv
  <1>2. QED
    BY <1>1, Start, PTL DEF Spec

\* Every variable of the library stays in its type: an item's links and its
\* picture's URL live no longer than its row.
THEOREM TypeCorrect == Spec => []TypeOK
  BY InductiveInvariant, PTL

\* An item whose picture is gone from S3 is one a request deleted it for.
THEOREM PicturesAreShown == Spec => []PictureShown
  <1>1. IInv => PictureShown
    BY DEF IInv
  <1>2. QED
    BY <1>1, InductiveInvariant, PTL

\* A picture S3 keeps belongs to an item, is on the list or on its way, or its
\* item went without having known it.
THEOREM PicturesAreAccounted == Spec => []PictureAccounted
  <1>1. IInv => PictureAccounted
    BY DEF IInv
  <1>2. QED
    BY <1>1, InductiveInvariant, PTL

\* Merges forget no place an item was posted, but for links that came late and
\* for those of an item a merge was given twice and kept.
THEOREM SourcesAreKept == Spec => []SourceKept
  <1>1. IInv => SourceKept
    BY DEF IInv
  <1>2. QED
    BY <1>1, InductiveInvariant, PTL

\* A new item is searched for unless its ingest was interrupted or had no picture.
THEOREM NewItemsAreSearched == Spec => []NewItemSearched
  <1>1. IInv => NewItemSearched
    BY DEF IInv
  <1>2. QED
    BY <1>1, InductiveInvariant, PTL
=============================================================================
