--------------------------- MODULE TwitterAccount ---------------------------
(* The data of a linked Twitter account: one JSON document that the OAuth    *)
(* callback, the first import, the updates and archive_post each read,       *)
(* change in one field and write back whole.                                 *)
(*                                                                           *)
(* A tweet is its id, which grows; tokens are numbered as they are granted.  *)
EXTENDS Naturals, FiniteSets

CONSTANTS Handler,    \* requests and jobs at work at once
          MaxTweet, MaxToken, MaxRow,
          MaxFault    \* bound on handlers that fail

VARIABLES tweets,     \* tweets of the account
          row,        \* the id of the linked_account row, 0 when there is none
          rows,       \* rows there have been
          data,       \* its data: token, newest_id, has_imported_archive
          want,       \* what the data should hold: the last token and flag saved for the row
          adds,       \* AddAccountJobs in the queue, by row
          work,       \* what a handler does and the data it read
          tokens,     \* tokens granted
          queued,     \* tweets with an AddSubmissionTwitterJob for the row
          started,    \* the row has its linked_account_import row
          stuck,      \* an import of the row was refused that row, or given up
          overlapped, \* two handlers of the row were between their read and their write
          faults

vars == <<tweets, row, rows, data, want, adds, work, tokens, queued, started, stuck, overlapped, faults>>

Row == 1..MaxRow
Data == [token : 0..MaxToken, newest : 0..MaxTweet, imported : BOOLEAN]
Fresh(token) == [token |-> token, newest |-> 0, imported |-> FALSE]
Work == [kind : {"idle", "callback", "add", "update", "archive"},
         pc : {"idle", "granted", "read", "loaded", "saved", "queueing", "queued"},
         row : 0..MaxRow, seen : Data, new : 0..(MaxTweet + MaxToken)]
Idle == [kind |-> "idle", pc |-> "idle", row |-> 0, seen |-> Fresh(0), new |-> 0]

TypeOK ==
    /\ tweets \in 0..MaxTweet /\ rows \in 0..MaxRow /\ row \in 0..rows
    /\ data \in Data /\ want \in [token : 0..MaxToken, imported : BOOLEAN]
    /\ adds \in [Row -> 0..1]
    /\ work \in [Handler -> Work]
    /\ tokens \in 0..MaxToken /\ queued \subseteq 1..MaxTweet
    /\ started \in BOOLEAN /\ stuck \in BOOLEAN /\ overlapped \in BOOLEAN
    /\ faults \in 0..MaxFault

Init ==
    /\ tweets = 0 /\ row = 0 /\ rows = 0 /\ data = Fresh(0)
    /\ want = [token |-> 0, imported |-> FALSE]
    /\ adds = [r \in Row |-> 0] /\ work = [h \in Handler |-> Idle]
    /\ tokens = 0 /\ queued = {} /\ started = FALSE /\ stuck = FALSE
    /\ overlapped = FALSE /\ faults = 0

At(h, kind, pc) == work[h].kind = kind /\ work[h].pc = pc
Go(h, pc) == work' = [work EXCEPT ![h].pc = pc]
\* The handlers that read the row and have yet to write it.
Writers(r) == {h \in Handler : work[h].row = r /\ work[h].pc \in {"read", "loaded"}}
Read(h, kind) ==
    /\ work' = [work EXCEPT ![h] = [kind |-> kind, pc |-> "read", row |-> row, seen |-> data,
                                    new |-> work[h].new]]
    /\ overlapped' = (overlapped \/ Writers(row) # {})
\* update_data writes what was read with a field changed; a removed row is not there.
Write(h, new) == data' = IF work[h].row = row THEN new ELSE data

PostTweet ==
    /\ tweets < MaxTweet /\ tweets' = tweets + 1
    /\ UNCHANGED <<row, rows, data, want, adds, work, tokens, queued, started, stuck, overlapped, faults>>

RemoveAccount ==
    /\ row # 0
    /\ row' = 0 /\ data' = Fresh(0) /\ want' = [token |-> 0, imported |-> FALSE]
    /\ queued' = {} /\ started' = FALSE /\ stuck' = FALSE /\ overlapped' = FALSE
    /\ UNCHANGED <<tweets, rows, adds, work, tokens, faults>>

-----------------------------------------------------------------------------
(* GET /twitter/callback.                                                    *)

\* The request token is known and exchanged for an access token.
Grant(h) ==
    /\ At(h, "idle", "idle") /\ tokens < MaxToken
    /\ tokens' = tokens + 1
    /\ work' = [work EXCEPT ![h] = [Idle EXCEPT !.kind = "callback", !.pc = "granted",
                                                !.new = tokens + 1]]
    /\ UNCHANGED <<tweets, row, rows, data, want, adds, queued, started, stuck, overlapped, faults>>

FindAccount(h) ==
    /\ At(h, "callback", "granted") /\ row # 0
    /\ Read(h, "callback")
    /\ UNCHANGED <<tweets, row, rows, data, want, adds, tokens, queued, started, stuck, faults>>

SaveToken(h) ==
    /\ At(h, "callback", "read")
    /\ Write(h, [work[h].seen EXCEPT !.token = work[h].new])
    /\ want' = IF work[h].row = row THEN [want EXCEPT !.token = work[h].new] ELSE want
    /\ work' = [work EXCEPT ![h] = Idle]
    /\ UNCHANGED <<tweets, row, rows, adds, tokens, queued, started, stuck, overlapped, faults>>

CreateAccount(h) ==
    /\ At(h, "callback", "granted") /\ row = 0 /\ rows < MaxRow
    /\ rows' = rows + 1 /\ row' = rows'
    /\ data' = Fresh(work[h].new)
    /\ want' = [token |-> work[h].new, imported |-> FALSE]
    /\ work' = [work EXCEPT ![h].pc = "saved", ![h].row = row']
    /\ UNCHANGED <<tweets, adds, tokens, queued, started, stuck, overlapped, faults>>

EnqueueAddAccount(h) ==
    /\ At(h, "callback", "saved")
    /\ adds' = [adds EXCEPT ![work[h].row] = 1]
    /\ work' = [work EXCEPT ![h] = Idle]
    /\ UNCHANGED <<tweets, row, rows, data, want, tokens, queued, started, stuck, overlapped, faults>>

-----------------------------------------------------------------------------
(* add_account.                                                              *)

BeginAdd(h) ==
    /\ At(h, "idle", "idle")
    /\ \E r \in Row :
        /\ adds[r] = 1 /\ adds' = [adds EXCEPT ![r] = 0]
        /\ IF r = row THEN Read(h, "add") ELSE UNCHANGED <<work, overlapped>>
    /\ UNCHANGED <<tweets, row, rows, data, want, tokens, queued, started, stuck, faults>>

\* All of the timeline is read.
LoadAll(h) ==
    /\ At(h, "add", "read")
    /\ work' = [work EXCEPT ![h].pc = "loaded", ![h].new = tweets]
    /\ UNCHANGED <<tweets, row, rows, data, want, adds, tokens, queued, started, stuck, overlapped, faults>>

\* newest_id is saved before the tweets are queued.
SaveFirst(h) ==
    /\ At(h, "add", "loaded")
    /\ Write(h, [work[h].seen EXCEPT !.newest = work[h].new])
    /\ work' = [work EXCEPT ![h].pc = "saved", ![h].seen = Fresh(0)]
    /\ UNCHANGED <<tweets, row, rows, want, adds, tokens, queued, started, stuck, overlapped, faults>>

\* set_loading_submissions: the import row is inserted once in the life of the
\* account; a timeline without photos needs none.
StartImport(h) ==
    /\ At(h, "add", "saved") /\ (work[h].new > 0 => work[h].row = row /\ ~started)
    /\ started' = (started \/ work[h].new > 0)
    /\ Go(h, IF work[h].new > 0 THEN "queueing" ELSE "queued")
    /\ UNCHANGED <<tweets, row, rows, data, want, adds, tokens, queued, stuck, overlapped, faults>>

\* The row is there, from a delivery that got this far, or the account is not:
\* so it will be at every further delivery, each with a newest_id saved before.
ImportRefused(h) ==
    /\ At(h, "add", "saved") /\ work[h].new > 0 /\ (work[h].row # row \/ started)
    /\ work' = [work EXCEPT ![h] = Idle]
    /\ adds' = [adds EXCEPT ![work[h].row] = 1] \/ UNCHANGED adds
    /\ stuck' = (stuck \/ work[h].row = row)
    /\ UNCHANGED <<tweets, row, rows, data, want, tokens, queued, started, overlapped, faults>>

\* queue_new_submissions, the newest tweet first.
QueueOne(h) ==
    /\ At(h, "add", "queueing")
    /\ queued' = IF work[h].row = row THEN queued \cup {work[h].new} ELSE queued
    /\ work' = [work EXCEPT ![h].pc = IF work[h].new = 1 THEN "queued" ELSE "queueing",
                            ![h].new = work[h].new - 1]
    /\ UNCHANGED <<tweets, row, rows, data, want, adds, tokens, started, stuck, overlapped, faults>>

AckAdd(h) ==
    /\ At(h, "add", "queued")
    /\ work' = [work EXCEPT ![h] = Idle]
    /\ UNCHANGED <<tweets, row, rows, data, want, adds, tokens, queued, started, stuck,
                   overlapped, faults>>

-----------------------------------------------------------------------------
(* update_account.                                                           *)

BeginUpdate(h) ==
    /\ At(h, "idle", "idle") /\ row # 0
    /\ Read(h, "update")
    /\ UNCHANGED <<tweets, row, rows, data, want, adds, tokens, queued, started, stuck, faults>>

\* The tweets after newest_id are queued as they are read.
New(h) == {t \in 1..tweets : t > work[h].seen.newest}
QueueNew(h) ==
    /\ At(h, "update", "read")
    /\ queued' = IF work[h].row = row THEN queued \cup New(h) ELSE queued
    /\ work' = [work EXCEPT ![h].pc = "loaded",
                    ![h].new = IF tweets > work[h].seen.newest THEN tweets
                               ELSE work[h].seen.newest]
    /\ UNCHANGED <<tweets, row, rows, data, want, adds, tokens, started, stuck, overlapped, faults>>

\* Variant for mutation: the document is written anew.
SaveOnlyNewest(h) ==
    /\ At(h, "update", "loaded")
    /\ Write(h, [Fresh(work[h].seen.token) EXCEPT !.newest = work[h].new])
    /\ work' = [work EXCEPT ![h] = Idle]
    /\ UNCHANGED <<tweets, row, rows, want, adds, tokens, queued, started, stuck, overlapped, faults>>

\* Variant for mutation: newest_id is what the timeline shows by now.
SaveLatest(h) ==
    /\ At(h, "update", "loaded")
    /\ Write(h, [work[h].seen EXCEPT !.newest = tweets])
    /\ work' = [work EXCEPT ![h] = Idle]
    /\ UNCHANGED <<tweets, row, rows, want, adds, tokens, queued, started, stuck, overlapped, faults>>

SaveNewest(h) ==
    /\ At(h, "update", "loaded")
    /\ Write(h, [work[h].seen EXCEPT !.newest = work[h].new])
    /\ work' = [work EXCEPT ![h] = Idle]
    /\ UNCHANGED <<tweets, row, rows, want, adds, tokens, queued, started, stuck, overlapped, faults>>

-----------------------------------------------------------------------------
(* POST /twitter/archive: the job it queues is in TwitterArchive.            *)

BeginArchive(h) ==
    /\ At(h, "idle", "idle") /\ row # 0
    /\ Read(h, "archive")
    /\ UNCHANGED <<tweets, row, rows, data, want, adds, tokens, queued, started, stuck, faults>>

SaveImported(h) ==
    /\ At(h, "archive", "read")
    /\ Write(h, [work[h].seen EXCEPT !.imported = TRUE])
    /\ want' = IF work[h].row = row THEN [want EXCEPT !.imported = TRUE] ELSE want
    /\ work' = [work EXCEPT ![h] = Idle]
    /\ UNCHANGED <<tweets, row, rows, adds, tokens, queued, started, stuck, overlapped, faults>>

\* A request or an update fails, the update with some of its tweets queued.
Fail(h) ==
    /\ work[h].kind \notin {"idle", "add"} /\ faults < MaxFault
    /\ faults' = faults + 1
    /\ \E some \in SUBSET New(h) :
        queued' = IF At(h, "update", "read") /\ work[h].row = row THEN queued \cup some ELSE queued
    /\ work' = [work EXCEPT ![h] = Idle]
    /\ UNCHANGED <<tweets, row, rows, data, want, adds, tokens, started, stuck, overlapped>>

\* An import fails, or its acknowledgement: it is delivered again, or given up.
FailAdd(h) ==
    /\ work[h].kind = "add" /\ faults < MaxFault
    /\ faults' = faults + 1
    /\ work' = [work EXCEPT ![h] = Idle]
    /\ \/ adds' = [adds EXCEPT ![work[h].row] = 1] /\ UNCHANGED stuck
       \/ stuck' = (stuck \/ work[h].row = row) /\ UNCHANGED adds
    /\ UNCHANGED <<tweets, row, rows, data, want, tokens, queued, started, overlapped>>

Step(h) ==
    \/ Grant(h) \/ FindAccount(h) \/ SaveToken(h) \/ CreateAccount(h) \/ EnqueueAddAccount(h)
    \/ BeginAdd(h) \/ LoadAll(h) \/ SaveFirst(h) \/ StartImport(h) \/ ImportRefused(h)
    \/ QueueOne(h) \/ AckAdd(h)
    \/ BeginUpdate(h) \/ QueueNew(h) \/ SaveNewest(h)
    \/ BeginArchive(h) \/ SaveImported(h)

Next == PostTweet \/ RemoveAccount \/ \E h \in Handler : Step(h) \/ Fail(h) \/ FailAdd(h)

Spec == Init /\ [][Next]_vars

-----------------------------------------------------------------------------
\* The tweet was queued, or an import that waits or is at work will queue it.
Covered(t) ==
    \/ t \in queued
    \/ adds[row] = 1
    \/ \E h \in Handler : /\ work[h].kind = "add" /\ work[h].row = row
                          /\ work[h].pc = "read" \/ t <= work[h].new

\* No tweet is passed over: what newest_id covers was queued, or the import that
\* saved newest_id is still to queue it, however imports, updates and writes of
\* older documents mix; unless an import was given up, or came again after it had
\* inserted the account's one import row: it then saves newest_id and goes no further.
NothingSkipped == row # 0 /\ ~stuck => \A t \in 1..data.newest : Covered(t)

\* The token of the last link and the mark of an archive are lost only when two
\* handlers of the row overlapped, the later one writing what it read before.
LostOnlyByOverlap ==
    row # 0 /\ ~overlapped => data.token = want.token /\ data.imported = want.imported

-----------------------------------------------------------------------------
(* What makes them inductive.                                                *)

\* What a handler holds: rows are numbered upwards, and only tweets there are are
\* newest, or read.
Fits(w) ==
    /\ w.row <= rows /\ w.seen.newest <= tweets
    /\ w.kind \in {"add", "update"} /\ w.pc \in {"loaded", "saved", "queueing"} => w.new <= tweets
    /\ w.kind = "add" => w.row # 0 /\ w.pc \in {"read", "loaded", "saved", "queueing", "queued"}
    /\ w.pc = "queueing" => w.new > 0
    /\ w.pc = "queued" => w.new = 0
    /\ w.kind = "callback" /\ w.pc = "saved" => w.row # 0
    /\ w.kind = "callback" /\ w.pc \in {"granted", "read"} => w.new \in 1..tokens

Numbered == data.newest <= tweets /\ \A h \in Handler : Fits(work[h])

\* What a handler may write as newest_id is covered already, or by itself.
WritesCovered ==
    row # 0 /\ ~stuck => \A h \in Writers(row) :
        /\ \A t \in 1..work[h].seen.newest : Covered(t)
        /\ work[h].kind = "update" /\ work[h].pc = "loaded" =>
               \A t \in 1..work[h].new : Covered(t)

\* Without an overlap one handler at most is between its read and its write, and
\* what it read is what the row holds.
WritesAlone ==
    row # 0 /\ ~overlapped =>
        \A h \in Writers(row) : work[h].seen = data /\ Writers(row) = {h}

IInv == TypeOK /\ Numbered /\ WritesCovered /\ WritesAlone /\ NothingSkipped /\ LostOnlyByOverlap
=============================================================================
