--------------------------- MODULE SiteFeedsProofs ---------------------------
(* Proofs about CredentialRefresh, which SiteFeeds extends, and its instance   *)
(* of BlueskyIngest, each for every value of its constants.                    *)
EXTENDS SiteFeeds, TLAPS

-----------------------------------------------------------------------------
(* CredentialRefresh.                                                        *)

USE CallerAssumption, MaxTokenAssumption

LEMMA RowType == ASSUME TypeOK PROVE row \in 0..MaxToken /\ issued <= MaxToken
  BY DEF TypeOK

\* A caller that returns to idle, or moves on, keeps the other callers as they are.
LEMMA OneCall ==
    ASSUME call \in [Caller -> Call], NEW c \in Caller, NEW r \in Call,
           call' = [call EXCEPT ![c] = r]
    PROVE  /\ call' \in [Caller -> Call]
           /\ call'[c] = r
           /\ \A d \in Caller : d # c => call'[d] = call[d]
  OBVIOUS

LEMMA IdleCall == Idle \in Call /\ Idle.pc = "idle" /\ Idle.data = 0 /\ Idle.new = 0
  BY DEF Idle, Call

LEMMA ExtractType ==
    ASSUME NEW t \in Token
    PROVE  Extract(t) \in Bearer /\ ExtractDeviantArt(t) \in Bearer
  BY DEF Extract, ExtractDeviantArt, ExtractPatreon, Bearer

LEMMA GotCall ==
    ASSUME NEW g \in {NoToken} \cup Bearer
    PROVE  LET r == [Idle EXCEPT !.got = g]
           IN  r \in Call /\ r.pc = "idle" /\ r.data = 0 /\ r.new = 0 /\ r.got = g
  BY DEF Idle, Call

LEMMA InitInv == Init => IInv
  <1> SUFFICES ASSUME Init PROVE IInv
    OBVIOUS
  <1>1. /\ \A c \in Caller : call[c] = Idle
        /\ call = [c \in Caller |-> Idle] /\ lock = NoCaller /\ row = 0
    BY DEF Init
  <1>2. TypeOK
    <2>1. call \in [Caller -> Call]
      BY <1>1, IdleCall
    <2>2. \A c \in Caller : call[c].data <= issued /\ call[c].new <= issued
      <3>1. issued = 0
        BY DEF Init
      <3>2. TAKE c \in Caller
      <3>3. call[c].data = 0 /\ call[c].new = 0
        BY <1>1, IdleCall
      <3>4. QED
        BY <3>1, <3>3
    <2>3. /\ site \in Sites /\ removed \in BOOLEAN /\ lock \in Caller \cup {NoCaller}
          /\ visit = [v \in Visit |-> 0] /\ issued = 0 /\ expired = 0
          /\ live = {} /\ lost = {} /\ created = {} /\ stale = {}
      BY DEF Init
    <2>4. issued \in 0..MaxToken /\ row \in 0..issued /\ expired \in 0..issued
      BY <1>1, <2>3
    <2>5. visit \in [Visit -> 0..issued]
      BY <2>3, <2>4
    <2>6. QED
      BY <2>1, <2>2, <2>3, <2>4, <2>5 DEF TypeOK
  <1>3. LockHeld /\ Exchanging = {}
    BY <1>1, IdleCall DEF LockHeld, Exchanging
  <1>4. NewIsLive /\ VisitsApart /\ StoredTokenLive /\ LostIsSpent
    BY <1>3 DEF Init, NewIsLive, VisitsApart, StoredTokenLive, LostIsSpent, Stored
  <1>5. QED
    BY <1>2, <1>3, <1>4 DEF IInv

-----------------------------------------------------------------------------
\* A step that lets one caller outside the transaction go on, or back to idle,
\* and changes nothing else, keeps the invariant.
LEMMA OutsideStep ==
    ASSUME IInv, NEW c \in Caller, lock # c,
           NEW r \in Call, r.pc \notin {"locked", "exchanged"},
           r.data <= issued, r.new <= issued,
           call' = [call EXCEPT ![c] = r],
           UNCHANGED <<site, removed, row, lock, expired, live, issued, visit, created, lost, stale>>
    PROVE  IInv'
  <1>1. /\ call' \in [Caller -> Call] /\ call'[c] = r
        /\ \A d \in Caller : d # c => call'[d] = call[d]
    BY OneCall DEF IInv, TypeOK
  <1>2. TypeOK'
    BY <1>1 DEF IInv, TypeOK
  <1>3. LockHeld'
    BY <1>1 DEF IInv, LockHeld, Stored
  <1>4. Exchanging' = Exchanging
    BY <1>1 DEF IInv, LockHeld, Exchanging
  <1>5. c \notin Exchanging
    BY DEF IInv, LockHeld, Exchanging
  <1>6. NewIsLive' /\ VisitsApart' /\ StoredTokenLive' /\ LostIsSpent'
    BY <1>1, <1>4, <1>5
    DEF IInv, NewIsLive, VisitsApart, StoredTokenLive, LostIsSpent, Stored, Exchanging
  <1>7. QED
    BY <1>2, <1>3, <1>6 DEF IInv

\* A step that ends the transaction of the lock's holder before it exchanged
\* anything keeps the invariant.
LEMMA ReleaseStep ==
    ASSUME IInv, NEW c \in Caller, call[c].pc = "locked",
           NEW r \in Call, r.pc = "idle", r.data <= issued, r.new <= issued,
           call' = [call EXCEPT ![c] = r], lock' = NoCaller,
           UNCHANGED <<site, removed, row, expired, live, issued, visit, created, lost, stale>>
    PROVE  IInv'
  <1>1. /\ call' \in [Caller -> Call] /\ call'[c] = r
        /\ \A d \in Caller : d # c => call'[d] = call[d]
    BY OneCall DEF IInv, TypeOK
  <1>2. lock = c /\ Exchanging = {}
    BY DEF IInv, LockHeld, Exchanging
  <1>3. TypeOK'
    BY <1>1 DEF IInv, TypeOK
  <1>4. LockHeld' /\ Exchanging' = {}
    BY <1>1, <1>2 DEF IInv, LockHeld, Stored, Exchanging
  <1>5. NewIsLive' /\ VisitsApart' /\ StoredTokenLive' /\ LostIsSpent'
    BY <1>2, <1>4
    DEF IInv, NewIsLive, VisitsApart, StoredTokenLive, LostIsSpent, Stored
  <1>6. QED
    BY <1>3, <1>4, <1>5 DEF IInv

LEMMA LoadStep == ASSUME IInv, NEW c \in Caller, Load(c) PROVE IInv'
  <1> DEFINE r == [Idle EXCEPT !.pc = "loaded", !.data = row]
  <1>1. r \in Call /\ r.pc = "loaded" /\ r.data = row /\ r.new = 0
    <2>1. row \in 0..MaxToken
      BY RowType DEF IInv
    <2>2. Idle \in Call /\ Idle.new = 0
      BY IdleCall
    <2>3. QED
      BY <2>1, <2>2 DEF Call
  <1>2. lock # c
    BY DEF IInv, LockHeld, Load
  <1>3. r.data <= issued /\ r.new <= issued
    BY <1>1 DEF IInv, TypeOK
  <1>4. QED
    <2>1. call' = [call EXCEPT ![c] = r]
      BY DEF Load
    <2>2. UNCHANGED <<site, removed, row, lock, expired, live, issued, visit, created, lost, stale>>
      BY DEF Load
    <2> HIDE DEF r
    <2>3. QED
      BY <1>1, <1>2, <1>3, <2>1, <2>2, OutsideStep

LEMMA UseLoadedStep == ASSUME IInv, NEW c \in Caller, UseLoaded(c) PROVE IInv'
  <1> DEFINE r == [Idle EXCEPT !.got = Extract(call[c].data)]
  <1>1. call[c].data \in Token
    BY DEF IInv, TypeOK, UseLoaded, NotExpired, Token, Call
  <1>2. r \in Call /\ r.pc = "idle" /\ r.data = 0 /\ r.new = 0
    BY <1>1, ExtractType, GotCall
  <1>3. lock # c /\ 0 <= issued
    BY DEF IInv, LockHeld, UseLoaded, TypeOK
  <1>4. /\ call' = [call EXCEPT ![c] = r]
        /\ UNCHANGED <<site, removed, row, lock, expired, live, issued, visit, created, lost, stale>>
    BY DEF UseLoaded
  <1> HIDE DEF r
  <1>5. QED
    BY <1>2, <1>3, <1>4, OutsideStep

LEMMA BeginStep == ASSUME IInv, NEW c \in Caller, Begin(c) PROVE IInv'
  <1> DEFINE r == [call[c] EXCEPT !.pc = "waiting"]
  <1>1. /\ r \in Call /\ r.pc = "waiting"
        /\ r.data = call[c].data /\ r.new = call[c].new
    BY DEF Call, IInv, TypeOK
  <1>2. r.data <= issued /\ r.new <= issued
    BY <1>1 DEF IInv, TypeOK
  <1>3. lock # c
    BY DEF IInv, LockHeld, Begin
  <1>4. /\ call' = [call EXCEPT ![c] = r]
        /\ UNCHANGED <<site, removed, row, lock, expired, live, issued, visit, created, lost, stale>>
    BY DEF Begin
  <1> HIDE DEF r
  <1>5. QED
    BY <1>1, <1>2, <1>3, <1>4, OutsideStep

LEMMA LookupStep == ASSUME IInv, NEW c \in Caller, LookupForUpdate(c) PROVE IInv'
  <1>1. CASE row = 0
    <2>1. lock # c /\ 0 <= issued
      BY DEF IInv, LockHeld, LookupForUpdate, TypeOK
    <2>2. /\ call' = [call EXCEPT ![c] = Idle]
          /\ UNCHANGED <<site, removed, row, lock, expired, live, issued, visit, created, lost, stale>>
      BY <1>1 DEF LookupForUpdate
    <2>3. QED
      BY <2>1, <2>2, IdleCall, OutsideStep
  <1>2. CASE row # 0
    <2> DEFINE r == [call[c] EXCEPT !.pc = "locked", !.data = row]
    <2>1. r \in Call /\ r.pc = "locked" /\ r.data = row /\ r.new = call[c].new
      <3>1. row \in 0..MaxToken /\ call[c] \in Call
        BY RowType DEF IInv, TypeOK
      <3>2. QED
        BY <3>1 DEF Call
    <2>2. call' = [call EXCEPT ![c] = r] /\ lock' = c /\ lock = NoCaller
      BY <1>2 DEF LookupForUpdate
    <2>3. UNCHANGED <<site, removed, row, expired, live, issued, visit, created, lost, stale>>
      BY <1>2 DEF LookupForUpdate
    <2> HIDE DEF r
    <2>4. /\ call' \in [Caller -> Call] /\ call'[c] = r
          /\ \A d \in Caller : d # c => call'[d] = call[d]
      BY <2>1, <2>2, OneCall DEF IInv, TypeOK
    <2>5. TypeOK'
      BY <2>1, <2>2, <2>3, <2>4 DEF IInv, TypeOK
    <2>6. LockHeld'
      BY <1>2, <2>1, <2>2, <2>3, <2>4 DEF IInv, LockHeld, Stored
    <2>7. Exchanging = {} /\ Exchanging' = {}
      BY <2>1, <2>2, <2>4 DEF IInv, LockHeld, Exchanging
    <2>8. NewIsLive' /\ VisitsApart' /\ StoredTokenLive' /\ LostIsSpent'
      BY <2>3, <2>7
      DEF IInv, NewIsLive, VisitsApart, StoredTokenLive, LostIsSpent, Stored
    <2>9. QED
      BY <2>5, <2>6, <2>8 DEF IInv
  <1>3. QED
    BY <1>1, <1>2

LEMMA UseCurrentStep == ASSUME IInv, NEW c \in Caller, UseCurrent(c) PROVE IInv'
  <1> DEFINE r == [Idle EXCEPT !.got = Extract(call[c].data)]
  <1>1. call[c].data \in Token
    BY DEF IInv, TypeOK, UseCurrent, NotExpired, Token, Call
  <1>2. r \in Call /\ r.pc = "idle" /\ r.data = 0 /\ r.new = 0
    BY <1>1, ExtractType, GotCall
  <1>3. call[c].pc = "locked" /\ 0 <= issued
    BY DEF IInv, UseCurrent, TypeOK
  <1>4. /\ call' = [call EXCEPT ![c] = r] /\ lock' = NoCaller
        /\ UNCHANGED <<site, removed, row, expired, live, issued, visit, created, lost, stale>>
    BY DEF UseCurrent
  <1> HIDE DEF r
  <1>5. QED
    BY <1>2, <1>3, <1>4, ReleaseStep

LEMMA ExchangeFailsStep == ASSUME IInv, NEW c \in Caller, ExchangeFails(c) PROVE IInv'
  <1>1. call[c].pc = "locked" /\ 0 <= issued
    BY DEF IInv, ExchangeFails, TypeOK
  <1>2. /\ call' = [call EXCEPT ![c] = Idle] /\ lock' = NoCaller
        /\ UNCHANGED <<site, removed, row, expired, live, issued, visit, created, lost, stale>>
    BY DEF ExchangeFails
  <1>3. QED
    BY <1>1, <1>2, IdleCall, ReleaseStep

-----------------------------------------------------------------------------
LEMMA ExchangeStep == ASSUME IInv, NEW c \in Caller, Exchange(c) PROVE IInv'
  <1> DEFINE n == issued + 1
             r == [call[c] EXCEPT !.pc = "exchanged", !.new = n]
  <1>1. n \in 1..MaxToken /\ n > issued /\ issued' = n
    BY DEF Exchange, IInv, TypeOK
  <1>2. lock = c /\ call[c].data = row /\ row # 0 /\ row \in live
    BY DEF Exchange, IInv, LockHeld, Stored
  <1>3. r \in Call /\ r.pc = "exchanged" /\ r.new = n /\ r.data = row
    <2>1. call[c] \in Call
      BY DEF IInv, TypeOK
    <2>2. n \in 0..MaxToken
      BY <1>1
    <2> HIDE DEF n
    <2>3. QED
      BY <1>2, <2>1, <2>2 DEF Call
  <1>4. call' = [call EXCEPT ![c] = r] /\ live' = (live \ {row}) \cup {n}
    BY <1>1, <1>2 DEF Exchange
  <1>5. UNCHANGED <<site, removed, row, lock, expired, visit, created, lost, stale>>
    BY DEF Exchange
  <1> HIDE DEF n, r
  <1>6. /\ call' \in [Caller -> Call] /\ call'[c] = r
        /\ \A d \in Caller : d # c => call'[d] = call[d]
    BY <1>3, <1>4, OneCall DEF IInv, TypeOK
  <1>7. n \notin live /\ n # row /\ \A v \in Visit : visit[v] # n
    BY <1>1 DEF IInv, TypeOK
  <1>8. TypeOK'
    <2>1. /\ live' \subseteq 1..issued' /\ lost' \subseteq 1..issued'
          /\ stale' \subseteq 1..issued' /\ created' \subseteq Visit
      BY <1>1, <1>4, <1>5 DEF IInv, TypeOK
    <2>2. issued' \in 0..MaxToken /\ row' \in 0..issued' /\ expired' \in 0..issued'
      BY <1>1, <1>5 DEF IInv, TypeOK
    <2>3. visit' \in [Visit -> 0..issued']
      BY <1>1, <1>5 DEF IInv, TypeOK
    <2>4. \A d \in Caller : call'[d].data <= issued' /\ call'[d].new <= issued'
      <3>1. TAKE d \in Caller
      <3>2. CASE d = c
        BY <1>1, <1>3, <1>6, <3>2 DEF IInv, TypeOK
      <3>3. CASE d # c
        <4>1. call'[d] = call[d] /\ call[d].data <= issued /\ call[d].new <= issued
          BY <1>6, <3>3 DEF IInv, TypeOK
        <4>2. call[d].data \in Nat /\ call[d].new \in Nat /\ issued \in Nat
          BY DEF IInv, TypeOK, Call
        <4>3. QED
          BY <1>1, <4>1, <4>2
      <3>4. QED
        BY <3>2, <3>3
    <2>5. QED
      BY <1>5, <1>6, <2>1, <2>2, <2>3, <2>4 DEF IInv, TypeOK
  <1>9. LockHeld'
    BY <1>2, <1>3, <1>5, <1>6 DEF IInv, LockHeld, Stored
  <1>10. Exchanging' = {c}
    BY <1>2, <1>3, <1>6 DEF IInv, LockHeld, Exchanging
  <1>11. LostIsSpent' /\ row \notin lost
    <2>1. n \notin lost
      BY <1>1 DEF IInv, TypeOK
    <2>2. QED
      BY <1>2, <1>4, <1>5, <2>1 DEF IInv, LostIsSpent
  <1>12. NewIsLive'
    BY <1>3, <1>4, <1>5, <1>6, <1>7, <1>10, <1>11 DEF NewIsLive
  <1>13. VisitsApart'
    BY <1>2, <1>3, <1>4, <1>5, <1>6, <1>7, <1>10 DEF IInv, VisitsApart
  <1>14. StoredTokenLive'
    BY <1>2, <1>5, <1>10 DEF StoredTokenLive
  <1>15. QED
    BY <1>8, <1>9, <1>11, <1>12, <1>13, <1>14 DEF IInv

LEMMA SaveStep == ASSUME IInv, NEW c \in Caller, Save(c) PROVE IInv'
  <1> DEFINE n == call[c].new
             r == [Idle EXCEPT !.got = ExtractDeviantArt(n)]
  <1>1. lock = c /\ Exchanging = {c} /\ n \in live
    BY DEF IInv, Save, LockHeld, NewIsLive, Exchanging
  <1>2. n \in Token /\ n \in 1..issued
    <2>1. live \subseteq 1..issued /\ issued \in 0..MaxToken
      BY DEF IInv, TypeOK
    <2> HIDE DEF n
    <2>2. QED
      BY <1>1, <2>1 DEF Token
  <1>3. r \in Call /\ r.pc = "idle" /\ r.data = 0 /\ r.new = 0
    BY <1>2, ExtractType, GotCall
  <1>4. call' = [call EXCEPT ![c] = r] /\ lock' = NoCaller /\ row' = n
    BY DEF Save
  <1>5. UNCHANGED <<site, removed, expired, live, issued, visit, created, lost, stale>>
    BY DEF Save
  <1>6. \A v \in Visit : visit[v] # 0 => visit[v] # n
    BY <1>1 DEF IInv, VisitsApart
  <1> HIDE DEF n, r
  <1>7. /\ call' \in [Caller -> Call] /\ call'[c] = r
        /\ \A d \in Caller : d # c => call'[d] = call[d]
    BY <1>3, <1>4, OneCall DEF IInv, TypeOK
  <1>8. TypeOK'
    BY <1>2, <1>3, <1>4, <1>5, <1>7 DEF IInv, TypeOK
  <1>9. LockHeld' /\ Exchanging' = {}
    BY <1>1, <1>3, <1>4, <1>7 DEF IInv, LockHeld, Exchanging
  <1>10. NewIsLive' /\ LostIsSpent' /\ StoredTokenLive'
    BY <1>1, <1>4, <1>5, <1>9 DEF IInv, NewIsLive, LostIsSpent, StoredTokenLive
  <1>11. VisitsApart'
    BY <1>4, <1>5, <1>6, <1>9 DEF IInv, VisitsApart
  <1>12. QED
    BY <1>8, <1>9, <1>10, <1>11 DEF IInv

LEMMA FailStep == ASSUME IInv, NEW c \in Caller, Fail(c) PROVE IInv'
  <1>0. 0 <= issued
    BY DEF IInv, TypeOK
  <1>1. CASE call[c].pc = "locked"
    <2>1. /\ call' = [call EXCEPT ![c] = Idle] /\ lock' = NoCaller
          /\ UNCHANGED <<site, removed, row, expired, live, issued, visit, created, lost, stale>>
      BY <1>1 DEF Fail, IInv, LockHeld
    <2>2. QED
      BY <1>0, <1>1, <2>1, IdleCall, ReleaseStep
  <1>2. CASE call[c].pc = "exchanged"
    <2>1. lock = c /\ Exchanging = {c} /\ call[c].data = row /\ row \notin live
      BY <1>2 DEF IInv, LockHeld, NewIsLive, Exchanging
    <2>2. /\ call' = [call EXCEPT ![c] = Idle] /\ lock' = NoCaller
          /\ lost' = lost \cup {row}
          /\ UNCHANGED <<site, removed, row, expired, live, issued, visit, created, stale>>
      BY <1>2, <2>1 DEF Fail
    <2>3. /\ call' \in [Caller -> Call] /\ call'[c] = Idle
          /\ \A d \in Caller : d # c => call'[d] = call[d]
      BY <2>2, IdleCall, OneCall DEF IInv, TypeOK
    <2>4. row \in 1..issued
      BY <2>1 DEF IInv, TypeOK, LockHeld, Stored
    <2>5. TypeOK'
      BY <1>0, <2>2, <2>3, <2>4, IdleCall DEF IInv, TypeOK
    <2>6. LockHeld' /\ Exchanging' = {}
      BY <2>1, <2>2, <2>3, IdleCall DEF IInv, LockHeld, Exchanging
    <2>7. NewIsLive' /\ LostIsSpent' /\ StoredTokenLive' /\ VisitsApart'
      BY <2>1, <2>2, <2>6
      DEF IInv, NewIsLive, LostIsSpent, StoredTokenLive, VisitsApart
    <2>8. QED
      BY <2>5, <2>6, <2>7 DEF IInv
  <1>3. CASE call[c].pc \notin {"locked", "exchanged"}
    <2>1. /\ lock # c
          /\ call' = [call EXCEPT ![c] = Idle]
          /\ UNCHANGED <<site, removed, row, lock, expired, live, issued, visit, created, lost, stale>>
      BY <1>3 DEF Fail, IInv, LockHeld
    <2>2. QED
      BY <1>0, <2>1, IdleCall, OutsideStep
  <1>4. QED
    BY <1>1, <1>2, <1>3

-----------------------------------------------------------------------------
LEMMA AuthorizeStep == ASSUME IInv, NEW v \in Visit, Authorize(v) PROVE IInv'
  <1> DEFINE n == issued + 1
  <1>1. n \in 1..MaxToken /\ n > issued /\ issued' = n
    BY DEF Authorize, IInv, TypeOK
  <1>2. live' = live \cup {n} /\ visit' = [visit EXCEPT ![v] = n]
    BY DEF Authorize
  <1>3. UNCHANGED <<site, removed, row, lock, expired, call, created, lost, stale>>
    BY DEF Authorize
  <1> HIDE DEF n
  <1>4. n \notin live /\ n \notin lost /\ n # row /\ \A w \in Visit : visit[w] # n
    BY <1>1 DEF IInv, TypeOK
  <1>5. /\ visit'[v] = n
        /\ \A w \in Visit : w # v => visit'[w] = visit[w]
    BY <1>2 DEF IInv, TypeOK
  <1>6. TypeOK'
    <2>1. /\ live' \subseteq 1..issued' /\ lost' \subseteq 1..issued'
          /\ stale' \subseteq 1..issued' /\ created' \subseteq Visit
      BY <1>1, <1>2, <1>3 DEF IInv, TypeOK
    <2>2. issued' \in 0..MaxToken /\ row' \in 0..issued' /\ expired' \in 0..issued'
      BY <1>1, <1>3 DEF IInv, TypeOK
    <2>3. visit' \in [Visit -> 0..issued']
      BY <1>1, <1>2 DEF IInv, TypeOK
    <2>4. \A d \in Caller : call'[d].data <= issued' /\ call'[d].new <= issued'
      <3>1. TAKE d \in Caller
      <3>2. /\ call'[d] = call[d] /\ call[d].data <= issued /\ call[d].new <= issued
            /\ call[d].data \in Nat /\ call[d].new \in Nat /\ issued \in Nat
        BY <1>3 DEF IInv, TypeOK, Call
      <3>3. QED
        BY <1>1, <3>2
    <2>5. QED
      BY <1>3, <2>1, <2>2, <2>3, <2>4 DEF IInv, TypeOK
  <1>7. LockHeld' /\ Exchanging' = Exchanging
    BY <1>3 DEF IInv, LockHeld, Exchanging, Stored
  <1>8. NewIsLive' /\ LostIsSpent' /\ StoredTokenLive'
    BY <1>2, <1>3, <1>4, <1>7
    DEF IInv, NewIsLive, LostIsSpent, StoredTokenLive, Stored
  <1>9. \A d \in Exchanging : call[d].new # n
    BY <1>4 DEF IInv, NewIsLive
  <1>10. VisitsApart'
    <2>1. n # 0
      BY <1>1
    <2>2. QED
      BY <1>2, <1>3, <1>4, <1>5, <1>7, <1>9, <2>1 DEF IInv, VisitsApart
  <1>11. QED
    BY <1>6, <1>7, <1>8, <1>10 DEF IInv

\* A callback that is done with its pair: the others keep theirs.
LEMMA AnswerKeeps ==
    ASSUME IInv, NEW v \in Visit, Answer(v), issued' = issued
    PROVE  /\ visit'[v] = 0 /\ visit' \in [Visit -> 0..issued']
           /\ v \notin created' /\ created' \subseteq created
           /\ \A w \in Visit : w # v => visit'[w] = visit[w] /\ (w \in created' <=> w \in created)
  BY DEF IInv, TypeOK, Answer

\* A callback that stores the pair it holds, while nobody holds the row lock.
LEMMA StoreStep ==
    ASSUME IInv, NEW v \in Visit, visit[v] # 0, v \notin created, lock = NoCaller,
           row' = visit[v], Answer(v),
           UNCHANGED <<site, removed, lock, expired, live, issued, call, lost, stale>>
    PROVE  IInv'
  <1>1. /\ visit'[v] = 0 /\ visit' \in [Visit -> 0..issued']
        /\ v \notin created' /\ created' \subseteq created
        /\ \A w \in Visit : w # v => visit'[w] = visit[w] /\ (w \in created' <=> w \in created)
    BY AnswerKeeps
  <1>2. Exchanging = {} /\ Exchanging' = {}
    BY DEF IInv, LockHeld, Exchanging
  <1>3. TypeOK'
    BY <1>1 DEF IInv, TypeOK
  <1>4. LockHeld' /\ NewIsLive' /\ LostIsSpent'
    BY <1>2 DEF IInv, LockHeld, NewIsLive, LostIsSpent
  <1>5. VisitsApart' /\ StoredTokenLive'
    BY <1>1, <1>2 DEF IInv, VisitsApart, StoredTokenLive
  <1>6. QED
    BY <1>3, <1>4, <1>5 DEF IInv

\* Patreon's callback creates the account and keeps the pair.
LEMMA CreateStep ==
    ASSUME IInv, NEW v \in Visit, CreateAccount(v), site = "Patreon"
    PROVE  IInv'
  <1>1. /\ visit[v] # 0 /\ v \notin created /\ row = 0 /\ row' = visit[v]
        /\ created' = created \cup {v}
        /\ UNCHANGED <<site, removed, lock, expired, live, issued, call, visit, lost, stale>>
    BY DEF CreateAccount
  <1>2. lock = NoCaller
    BY <1>1 DEF IInv, LockHeld, Stored, TypeOK
  <1>3. Exchanging = {} /\ Exchanging' = {}
    BY <1>1, <1>2 DEF IInv, LockHeld, Exchanging
  <1>4. TypeOK'
    BY <1>1 DEF IInv, TypeOK
  <1>5. LockHeld' /\ NewIsLive' /\ LostIsSpent'
    BY <1>1, <1>2, <1>3 DEF IInv, LockHeld, NewIsLive, LostIsSpent
  <1>6. VisitsApart' /\ StoredTokenLive'
    BY <1>1, <1>3 DEF IInv, VisitsApart, StoredTokenLive
  <1>7. QED
    BY <1>4, <1>5, <1>6 DEF IInv

\* It stores the pair once more: the refresh token is live, or it is stale.
LEMMA StoreAgainStep == ASSUME IInv, NEW v \in Visit, StoreAgain(v) PROVE IInv'
  <1>1. /\ v \in created /\ lock = NoCaller /\ Answer(v)
        /\ row' = (IF row = 0 THEN 0 ELSE visit[v])
        /\ stale' = (IF row = 0 \/ visit[v] \in live THEN stale ELSE stale \cup {visit[v]})
        /\ UNCHANGED <<site, removed, lock, expired, live, issued, call, lost>>
    BY DEF StoreAgain
  <1>2. /\ visit'[v] = 0 /\ visit' \in [Visit -> 0..issued']
        /\ v \notin created' /\ created' \subseteq created
        /\ \A w \in Visit : w # v => visit'[w] = visit[w] /\ (w \in created' <=> w \in created)
    BY <1>1, AnswerKeeps
  <1>3. visit[v] \in 1..issued
    BY <1>1 DEF IInv, TypeOK, VisitsApart
  <1>4. Exchanging = {} /\ Exchanging' = {}
    BY <1>1 DEF IInv, LockHeld, Exchanging
  <1>5. TypeOK'
    <2>1. row' \in 0..issued' /\ stale' \subseteq 1..issued'
      BY <1>1, <1>3 DEF IInv, TypeOK
    <2>2. QED
      BY <1>1, <1>2, <2>1 DEF IInv, TypeOK
  <1>6. LockHeld' /\ NewIsLive' /\ LostIsSpent'
    BY <1>1, <1>4 DEF IInv, LockHeld, NewIsLive, LostIsSpent
  <1>7. VisitsApart'
    BY <1>1, <1>2, <1>4 DEF IInv, VisitsApart
  <1>8. StoredTokenLive'
    BY <1>1 DEF StoredTokenLive, Stored
  <1>9. QED
    BY <1>5, <1>6, <1>7, <1>8 DEF IInv

LEMMA CallbackStep == ASSUME IInv, NEW v \in Visit, Callback(v) PROVE IInv'
  <1>1. CASE Authorize(v)
    BY <1>1, AuthorizeStep
  <1>2. CASE CreateAccount(v)
    <2>1. CASE site = "Patreon"
      BY <1>2, <2>1, CreateStep
    <2>2. CASE site # "Patreon"
      <3>1. lock = NoCaller
        BY <1>2 DEF CreateAccount, IInv, LockHeld, Stored, TypeOK
      <3>2. QED
        BY <1>2, <2>2, <3>1, StoreStep DEF CreateAccount
    <2>3. QED
      BY <2>1, <2>2
  <1>3. CASE StoreAgain(v)
    BY <1>3, StoreAgainStep
  <1>4. CASE UpdateAccount(v)
    BY <1>4, StoreStep DEF UpdateAccount
  <1>5. CASE Discard(v)
    <2>1. /\ Answer(v)
          /\ UNCHANGED <<site, removed, row, lock, expired, live, issued, call, lost, stale>>
      BY <1>5 DEF Discard
    <2>2. /\ visit'[v] = 0 /\ visit' \in [Visit -> 0..issued']
          /\ v \notin created' /\ created' \subseteq created
          /\ \A w \in Visit : w # v => visit'[w] = visit[w] /\ (w \in created' <=> w \in created)
      BY <2>1, AnswerKeeps
    <2>3. TypeOK'
      BY <2>1, <2>2 DEF IInv, TypeOK
    <2>4. Exchanging' = Exchanging
      BY <2>1 DEF Exchanging
    <2>5. LockHeld' /\ NewIsLive' /\ LostIsSpent' /\ StoredTokenLive'
      BY <2>1, <2>4 DEF IInv, LockHeld, NewIsLive, LostIsSpent, StoredTokenLive, Stored
    <2>6. VisitsApart'
      BY <2>1, <2>2, <2>4 DEF IInv, VisitsApart
    <2>7. QED
      BY <2>3, <2>5, <2>6 DEF IInv
  <1>6. QED
    BY <1>1, <1>2, <1>3, <1>4, <1>5 DEF Callback

LEMMA RemoveStep == ASSUME IInv, RemoveAccount PROVE IInv'
  <1>1. Exchanging = {} /\ Exchanging' = {} /\ row' = 0 /\ removed' = TRUE
    BY DEF RemoveAccount, IInv, LockHeld, Exchanging
  <1>2. UNCHANGED <<site, lock, expired, live, issued, call, visit, created, lost, stale>>
    BY DEF RemoveAccount
  <1>3. TypeOK'
    BY <1>1, <1>2 DEF IInv, TypeOK
  <1>4. LockHeld' /\ NewIsLive' /\ LostIsSpent' /\ StoredTokenLive'
    BY <1>1, <1>2
    DEF RemoveAccount, IInv, LockHeld, NewIsLive, LostIsSpent, StoredTokenLive, Stored
  <1>5. VisitsApart'
    BY <1>1, <1>2 DEF IInv, VisitsApart
  <1>6. QED
    BY <1>3, <1>4, <1>5 DEF IInv

LEMMA ExpireStep == ASSUME IInv, Expire PROVE IInv'
  <1>1. expired' \in 0..issued
    BY DEF Expire, IInv, TypeOK
  <1>2. UNCHANGED <<site, removed, row, lock, live, issued, call, visit, created, lost, stale>>
    BY DEF Expire
  <1>3. QED
    BY <1>1, <1>2
    DEF IInv, TypeOK, LockHeld, NewIsLive, VisitsApart, StoredTokenLive, LostIsSpent,
        Exchanging, Stored

LEMMA StutterStep == ASSUME IInv, UNCHANGED vars PROVE IInv'
  BY DEF vars, IInv, TypeOK, LockHeld, NewIsLive, VisitsApart, StoredTokenLive,
         LostIsSpent, Exchanging, Stored

LEMMA InvStep == IInv /\ [Next]_vars => IInv'
  <1> SUFFICES ASSUME IInv, [Next]_vars PROVE IInv'
    OBVIOUS
  <1>1. ASSUME NEW c \in Caller, Load(c) \/ Refreshing(c) \/ Fail(c) PROVE IInv'
    BY <1>1, LoadStep, UseLoadedStep, BeginStep, LookupStep, UseCurrentStep, ExchangeStep,
       ExchangeFailsStep, SaveStep, FailStep DEF Refreshing
  <1>2. QED
    BY <1>1, CallbackStep, RemoveStep, ExpireStep, StutterStep DEF Next

\* The row lock, the recheck under it and the exchange never lose a credential
\* to two callers: every state of the specification satisfies the invariant.
THEOREM Invariant == Spec => []IInv
  BY InitInv, InvStep, PTL DEF Spec

\* Every variable keeps its type.
THEOREM TypeCorrect == Spec => []TypeOK
  <1>1. IInv => TypeOK
    BY DEF IInv
  <1>2. QED
    BY <1>1, Invariant, PTL

\* The stored refresh token is live unless a refresh died after its exchange or
\* Patreon's callback stored its pair once more, after a refresh had spent it.
THEOREM StoredLive == Spec => []StoredTokenLive
  <1>1. IInv => StoredTokenLive
    BY DEF IInv
  <1>2. QED
    BY <1>1, Invariant, PTL

-----------------------------------------------------------------------------
LEMMA SiteFixed == [Next]_vars => site' = site
  <1>1. ASSUME NEW c \in Caller, Load(c) \/ Refreshing(c) \/ Fail(c) PROVE site' = site
    BY <1>1 DEF Load, Refreshing, UseLoaded, Begin, LookupForUpdate, UseCurrent, Exchange,
                ExchangeFails, Save, Fail
  <1>2. ASSUME NEW v \in Visit, Callback(v) PROVE site' = site
    BY <1>2 DEF Callback, Authorize, CreateAccount, StoreAgain, UpdateAccount, Discard
  <1>3. RemoveAccount \/ Expire \/ UNCHANGED vars => site' = site
    BY DEF RemoveAccount, Expire, vars
  <1>4. QED
    BY <1>1, <1>2, <1>3 DEF Next

LEMMA BearerStep == TypeOK /\ BearerIsAccess /\ [Next]_vars => BearerIsAccess'
  <1> SUFFICES ASSUME TypeOK, BearerIsAccess, [Next]_vars, site = "DeviantArt",
                      NEW c \in Caller
               PROVE  call'[c].got.kind # "refresh" /\ site' = site
    BY SiteFixed DEF BearerIsAccess
  <1>1. call \in [Caller -> Call] /\ call[c].got.kind # "refresh" /\ call[c] \in Call
    BY DEF TypeOK, BearerIsAccess
  <1>2. Idle.got.kind = "none"
    BY DEF Idle, NoToken
  <1>3. \A t : Extract(t).kind = "access" /\ ExtractDeviantArt(t).kind = "access"
    BY DEF Extract, ExtractDeviantArt
  <1>8. site' = site
    BY SiteFixed
  <1>4. \A g : [Idle EXCEPT !.got = g].got = g
    BY DEF Idle
  <1>5. ASSUME NEW d \in Caller, Load(d) \/ Refreshing(d) \/ Fail(d)
        PROVE  call'[c].got.kind # "refresh" /\ site' = site
    <2>1. CASE Load(d)
      BY <1>1, <1>2, <2>1 DEF Load, Idle
    <2>2. CASE UseLoaded(d) \/ UseCurrent(d) \/ Save(d)
      <3>1. ASSUME NEW g, g.kind = "access", call' = [call EXCEPT ![d] = [Idle EXCEPT !.got = g]]
            PROVE  call'[c].got.kind # "refresh"
        BY <1>1, <1>4, <3>1
      <3>2. CASE UseLoaded(d) \/ UseCurrent(d)
        BY <1>3, <3>1, <3>2 DEF UseLoaded, UseCurrent
      <3>3. CASE Save(d)
        BY <1>3, <3>1, <3>3 DEF Save
      <3>4. QED
        BY <1>8, <2>2, <3>2, <3>3
    <2>3. CASE Begin(d) \/ LookupForUpdate(d) \/ Exchange(d)
      BY <1>1, <1>2, <2>3 DEF Begin, LookupForUpdate, Exchange, Call
    <2>4. CASE ExchangeFails(d) \/ Fail(d)
      BY <1>1, <1>2, <2>4 DEF ExchangeFails, Fail
    <2>5. QED
      BY <1>5, <2>1, <2>2, <2>3, <2>4 DEF Refreshing
  <1>6. CASE UNCHANGED vars \/ Expire \/ RemoveAccount \/ \E v \in Visit : Callback(v)
    BY <1>1, <1>6 DEF vars, Expire, RemoveAccount, Callback, Authorize, CreateAccount,
                      StoreAgain, UpdateAccount, Discard
  <1>7. QED
    BY <1>5, <1>6 DEF Next

\* On DeviantArt a caller is never given the refresh token for an access token.
THEOREM DeviantArtBearer == Spec => []BearerIsAccess
  <1>1. Init => BearerIsAccess
    BY DEF Init, BearerIsAccess, Idle, NoToken
  <1>2. QED
    BY <1>1, BearerStep, TypeCorrect, PTL DEF Spec

-----------------------------------------------------------------------------
(* The refinement: live and used as GrantStore sees them.                    *)

MappedLive == IF InFlight THEN (live \ {call[lock].new}) \cup {row} ELSE live
MappedUsed == IF InFlight THEN (1..issued) \ {call[lock].new} ELSE 1..issued
MappedAgain == {visit[v] : v \in created}

\* Only the callbacks change what is to be stored again.
LEMMA AgainKept == UNCHANGED <<visit, created>> => MappedAgain' = MappedAgain
  BY DEF MappedAgain

\* A callback that keeps out of created leaves it alone as well.
LEMMA AgainOthers ==
    ASSUME IInv, NEW v \in Visit, v \notin created, created' = created,
           \A w \in Visit : w # v => visit'[w] = visit[w]
    PROVE  MappedAgain' = MappedAgain
  <1>1. \A w \in created : w # v /\ w \in Visit /\ visit'[w] = visit[w]
    BY DEF IInv, TypeOK
  <1>2. QED
    BY <1>1 DEF MappedAgain

\* One that was in it takes its pair, and no other, out.
LEMMA AgainTaken ==
    ASSUME IInv, NEW v \in Visit, v \in created, Answer(v), issued' = issued
    PROVE  visit[v] \in MappedAgain /\ MappedAgain' = MappedAgain \ {visit[v]}
  <1>1. created' = created \ {v} /\ \A w \in created' : visit'[w] = visit[w]
    BY AnswerKeeps DEF Answer, IInv, TypeOK
  <1>2. \A w \in created' : visit[w] # visit[v]
    BY <1>1 DEF IInv, TypeOK, VisitsApart
  <1>3. QED
    BY <1>1, <1>2 DEF MappedAgain

\* While no exchange is in flight before or after, the mapping is the identity.
LEMMA Mapping ==
    /\ IInv => (Exchanging = {} <=> ~InFlight)
    /\ IInv' => (Exchanging' = {} <=> ~InFlight')
    /\ ~InFlight => MappedLive = live /\ MappedUsed = 1..issued
    /\ ~InFlight' => MappedLive' = live' /\ MappedUsed' = 1..issued'
  BY DEF IInv, LockHeld, Exchanging, InFlight, MappedLive, MappedUsed, TypeOK

LEMMA OneMoreToken == TypeOK => issued + 1 \notin 1..issued /\ 1..(issued + 1) = (1..issued) \cup {issued + 1}
  BY DEF TypeOK

LEMMA AuthorizeMaps ==
    ASSUME IInv, NEW v \in Visit, Authorize(v)
    PROVE  MappedLive' = MappedLive \cup {issued + 1} /\ issued + 1 \notin MappedUsed
           /\ MappedUsed' = MappedUsed \cup {issued + 1} /\ row' = row
  <1>1. /\ live' = live \cup {issued + 1} /\ issued' = issued + 1
        /\ UNCHANGED <<row, lock, call>>
    BY DEF Authorize
  <1>2. InFlight' = InFlight /\ (InFlight => call'[lock'] = call[lock])
    BY <1>1 DEF InFlight
  <1>3. ASSUME InFlight PROVE call[lock].new # issued + 1
    <2>1. call[lock].new \in live /\ live \subseteq 1..issued /\ issued \in Nat
      BY <1>3 DEF IInv, TypeOK, NewIsLive, Exchanging, InFlight
    <2>2. QED
      BY <2>1
  <1>4. 1..issued' = (1..issued) \cup {issued + 1} /\ issued + 1 \notin 1..issued
    BY <1>1, OneMoreToken DEF IInv
  <1>5. QED
    BY <1>1, <1>2, <1>3, <1>4 DEF MappedLive, MappedUsed

LEMMA ExchangeMaps ==
    ASSUME IInv, NEW c \in Caller, Exchange(c)
    PROVE  MappedLive' = MappedLive /\ MappedUsed' = MappedUsed /\ row' = row
  <1>1. lock = c /\ call[c].data = row /\ row \in live /\ ~InFlight
    BY DEF Exchange, IInv, LockHeld, InFlight
  <1>2. /\ issued' = issued + 1 /\ live' = (live \ {row}) \cup {issued + 1}
        /\ lock' = c /\ row' = row
        /\ call' = [call EXCEPT ![c].pc = "exchanged", ![c].new = issued']
    BY <1>1 DEF Exchange
  <1>3. call'[c].pc = "exchanged" /\ call'[c].new = issued + 1
    <2>1. call \in [Caller -> Call] /\ call[c] \in Call
      BY DEF IInv, TypeOK
    <2>2. QED
      BY <1>2, <2>1 DEF Call
  <1>4. InFlight' /\ call'[lock'].new = issued + 1
    BY <1>1, <1>2, <1>3, CallerAssumption DEF InFlight
  <1>5. issued + 1 \notin live /\ issued + 1 \notin 1..issued
        /\ 1..(issued + 1) = (1..issued) \cup {issued + 1}
    BY OneMoreToken DEF IInv, TypeOK
  <1>6. MappedLive = live /\ MappedUsed = 1..issued
    BY <1>1 DEF MappedLive, MappedUsed
  <1>7. MappedLive' = (live' \ {issued + 1}) \cup {row}
    BY <1>2, <1>4 DEF MappedLive
  <1>8. MappedUsed' = (1..(issued + 1)) \ {issued + 1}
    BY <1>2, <1>4 DEF MappedUsed
  <1>9. QED
    BY <1>1, <1>2, <1>5, <1>6, <1>7, <1>8

\* What ends an exchange in flight: the successor of the stored token is issued
\* and the stored one spent, as GrantStore sees it.
LEMMA LandingMaps ==
    ASSUME IInv, IInv', NEW c \in Caller, call[c].pc = "exchanged", Save(c) \/ Fail(c)
    PROVE  /\ call[c].new \notin MappedUsed /\ MappedUsed' = MappedUsed \cup {call[c].new}
           /\ row \in MappedLive /\ MappedLive' = (MappedLive \ {row}) \cup {call[c].new}
           /\ Save(c) => row' = call[c].new
           /\ Fail(c) => row' = row
  <1>1. lock = c /\ InFlight /\ call[c].new \in live /\ call[c].new # row /\ row \notin live
    BY CallerAssumption DEF IInv, LockHeld, NewIsLive, Exchanging, InFlight
  <1>2. call[c].new \in 1..issued
    BY <1>1 DEF IInv, TypeOK
  <1>3. lock' = NoCaller /\ live' = live /\ issued' = issued
    BY <1>1 DEF Save, Fail
  <1>4. MappedLive' = live /\ MappedUsed' = 1..issued
    BY <1>3 DEF InFlight, MappedLive, MappedUsed
  <1>5. /\ MappedLive = (live \ {call[c].new}) \cup {row}
        /\ MappedUsed = (1..issued) \ {call[c].new}
    BY <1>1 DEF MappedLive, MappedUsed
  <1>6. (Save(c) => row' = call[c].new) /\ (Fail(c) => row' = row)
    BY DEF Save, Fail
  <1>7. QED
    BY <1>1, <1>2, <1>4, <1>5, <1>6

LEMMA MapStep ==
    ASSUME IInv, IInv', [Next]_vars
    PROVE  [Grants!Next]_(Grants!vars)
  <1> USE DEF Grants!Next, Grants!vars
  <1>0. ASSUME UNCHANGED <<row, MappedLive, MappedUsed, MappedAgain>> PROVE UNCHANGED Grants!vars
    BY <1>0 DEF MappedLive, MappedUsed, MappedAgain
  <1>1. ASSUME NEW c \in Caller, Exchange(c) PROVE UNCHANGED Grants!vars
    BY <1>0, <1>1, ExchangeMaps, AgainKept DEF Exchange
  <1>2. ASSUME NEW c \in Caller, call[c].pc = "exchanged", Save(c) \/ Fail(c)
        PROVE  Grants!Refresh \/ Grants!Lose
    <2> DEFINE t == call[c].new
    <2>1. /\ t \notin MappedUsed /\ MappedUsed' = MappedUsed \cup {t}
          /\ row \in MappedLive /\ MappedLive' = (MappedLive \ {row}) \cup {t}
          /\ (row' = t \/ row' = row) /\ MappedAgain' = MappedAgain
      BY <1>2, LandingMaps, AgainKept DEF Save, Fail
    <2> HIDE DEF t
    <2>2. t \in MappedUsed'
      BY <2>1
    <2>3. QED
      BY <2>1, <2>2 DEF Grants!Refresh, Grants!Lose, Grants!Exchanged, Grants!Issue,
                        MappedLive, MappedUsed, MappedAgain
  <1>3. ASSUME NEW v \in Visit, Authorize(v) PROVE Grants!Authorize
    <2> DEFINE t == issued + 1
    <2>1. /\ MappedLive' = MappedLive \cup {t} /\ t \notin MappedUsed
          /\ MappedUsed' = MappedUsed \cup {t} /\ row' = row
      BY <1>3, AuthorizeMaps
    <2>4. MappedAgain' = MappedAgain
      <3>1. v \notin created /\ created' = created /\ \A w \in Visit : w # v => visit'[w] = visit[w]
        BY <1>3 DEF Authorize, IInv, TypeOK, VisitsApart
      <3>2. QED
        BY <3>1, AgainOthers
    <2> HIDE DEF t
    <2>2. t \in MappedUsed'
      BY <2>1
    <2>3. QED
      BY <2>1, <2>2, <2>4 DEF Grants!Authorize, Grants!Issue, MappedLive, MappedUsed, MappedAgain
  <1>4. ASSUME NEW v \in Visit, CreateAccount(v) \/ UpdateAccount(v)
        PROVE  Grants!Create \/ Grants!Store
    <2>1. lock = NoCaller
      BY <1>4 DEF CreateAccount, UpdateAccount, IInv, TypeOK, LockHeld, Stored
    <2>2. /\ row' = visit[v] /\ visit[v] \in live /\ v \notin created
          /\ UNCHANGED <<lock, live, issued>>
      BY <1>4 DEF CreateAccount, UpdateAccount, IInv, VisitsApart
    <2>3. ~InFlight /\ ~InFlight'
      BY <2>1, <2>2 DEF InFlight
    <2>4. CASE Answer(v)
      <3>1. created' = created /\ \A w \in Visit : w # v => visit'[w] = visit[w]
        BY <2>2, <2>4 DEF Answer, IInv, TypeOK
      <3>2. MappedAgain' = MappedAgain
        BY <2>2, <3>1, AgainOthers
      <3>3. QED
        BY <2>2, <2>3, <3>2 DEF Grants!Store, MappedAgain
    <2>5. CASE created' = created \cup {v} /\ visit' = visit /\ row = 0
      <3>1. MappedAgain' = MappedAgain \cup {row'}
        BY <2>2, <2>5 DEF MappedAgain
      <3>2. QED
        BY <2>2, <2>3, <2>5, <3>1 DEF Grants!Create, MappedAgain
    <2>6. QED
      BY <1>4, <2>4, <2>5 DEF CreateAccount, UpdateAccount
  <1>10. ASSUME NEW v \in Visit, StoreAgain(v) PROVE Grants!StoreAgain
    <2> DEFINE t == visit[v]
    <2>1. /\ v \in created /\ Answer(v) /\ lock = NoCaller
          /\ row' = (IF row = 0 THEN 0 ELSE t) /\ UNCHANGED <<lock, live, issued>>
      BY <1>10 DEF StoreAgain
    <2>2. t \in MappedAgain /\ MappedAgain' = MappedAgain \ {t}
      BY <2>1, AgainTaken
    <2>3. ~InFlight /\ ~InFlight'
      BY <2>1 DEF InFlight
    <2> HIDE DEF t
    <2>4. QED
      BY <2>1, <2>2, <2>3 DEF Grants!StoreAgain, MappedAgain
  <1>11. ASSUME NEW v \in Visit, Discard(v) PROVE Grants!StoreAgain \/ UNCHANGED Grants!vars
    <2> DEFINE t == visit[v]
    <2>1. Answer(v) /\ UNCHANGED <<row, lock, live, issued, call>>
      BY <1>11 DEF Discard
    <2>2. MappedLive' = MappedLive /\ MappedUsed' = MappedUsed
      BY <2>1 DEF MappedLive, MappedUsed, InFlight
    <2>3. CASE v \in created
      <3>1. t \in MappedAgain /\ MappedAgain' = MappedAgain \ {t}
        BY <2>1, <2>3, AgainTaken
      <3> HIDE DEF t
      <3>2. QED
        BY <2>1, <2>2, <3>1 DEF Grants!StoreAgain, MappedAgain, MappedLive, MappedUsed
    <2>4. CASE v \notin created
      <3>1. created' = created /\ \A w \in Visit : w # v => visit'[w] = visit[w]
        BY <2>1, <2>4 DEF Answer, IInv, TypeOK
      <3>2. QED
        BY <1>0, <2>1, <2>2, <2>4, <3>1, AgainOthers
    <2>5. QED
      BY <2>3, <2>4
  <1>5. ASSUME RemoveAccount PROVE Grants!Remove
    <2>1. row' = 0 /\ lock = NoCaller /\ UNCHANGED <<lock, live, issued, visit, created>>
      BY <1>5 DEF RemoveAccount
    <2>2. ~InFlight /\ ~InFlight'
      BY <2>1 DEF InFlight
    <2>3. QED
      BY <2>1, <2>2 DEF Grants!Remove
  <1>6. ASSUME UNCHANGED vars \/ Expire PROVE UNCHANGED Grants!vars
    BY <1>6 DEF vars, Expire, InFlight
  <1>7. ASSUME NEW c \in Caller,
               \/ Load(c) \/ UseLoaded(c) \/ Begin(c) \/ LookupForUpdate(c)
               \/ UseCurrent(c) \/ ExchangeFails(c)
               \/ Fail(c) /\ call[c].pc # "exchanged"
        PROVE  UNCHANGED Grants!vars
    <2>1. UNCHANGED <<row, live, issued, visit, created>>
      BY <1>7 DEF Load, UseLoaded, Begin, LookupForUpdate, UseCurrent, ExchangeFails, Fail
    <2>2. \E r : call' = [call EXCEPT ![c] = r] /\ r.pc # "exchanged"
      <3>1. CASE Load(c)
        <4>1. call' = [call EXCEPT ![c] = [Idle EXCEPT !.pc = "loaded", !.data = row]]
          BY <3>1 DEF Load
        <4>2. [Idle EXCEPT !.pc = "loaded", !.data = row].pc # "exchanged"
          BY DEF Idle
        <4>3. QED
          BY <4>1, <4>2
      <3>2. CASE UseLoaded(c) \/ UseCurrent(c)
        <4>1. call' = [call EXCEPT ![c] = [Idle EXCEPT !.got = Extract(call[c].data)]]
          BY <3>2 DEF UseLoaded, UseCurrent
        <4>2. [Idle EXCEPT !.got = Extract(call[c].data)].pc # "exchanged"
          BY DEF Idle
        <4>3. QED
          BY <4>1, <4>2
      <3>3. CASE Begin(c)
        <4>1. call' = [call EXCEPT ![c] = [call[c] EXCEPT !.pc = "waiting"]]
          BY <3>3 DEF Begin
        <4>2. [call[c] EXCEPT !.pc = "waiting"].pc # "exchanged"
          BY DEF IInv, TypeOK, Call
        <4>3. QED
          BY <4>1, <4>2
      <3>4. CASE LookupForUpdate(c)
        <4>1. \/ call' = [call EXCEPT ![c] = Idle]
              \/ call' = [call EXCEPT ![c] = [call[c] EXCEPT !.pc = "locked", !.data = row]]
          BY <3>4 DEF LookupForUpdate
        <4>2. [call[c] EXCEPT !.pc = "locked", !.data = row].pc # "exchanged"
          BY DEF IInv, TypeOK, Call
        <4>3. QED
          BY <4>1, <4>2, IdleCall
      <3>5. CASE ExchangeFails(c) \/ Fail(c)
        BY <3>5, IdleCall DEF ExchangeFails, Fail
      <3>6. QED
        BY <1>7, <3>1, <3>2, <3>3, <3>4, <3>5
    <2>3. \A d \in Caller : d # c => call'[d] = call[d]
      BY <2>2 DEF IInv, TypeOK
    <2>4. call'[c].pc # "exchanged" /\ call[c].pc # "exchanged"
      <3>1. call[c].pc # "exchanged"
        BY <1>7 DEF Load, UseLoaded, Begin, LookupForUpdate, UseCurrent, ExchangeFails
      <3>2. QED
        BY <2>2, <3>1 DEF IInv, TypeOK
    <2>5. lock' = lock \/ (lock = NoCaller /\ lock' = c) \/ (lock = c /\ lock' = NoCaller)
      BY <1>7 DEF Load, UseLoaded, Begin, LookupForUpdate, UseCurrent, ExchangeFails, Fail,
                  IInv, LockHeld
    <2>6. /\ InFlight' = InFlight
          /\ InFlight => lock # c /\ call'[lock'] = call[lock]
      BY <2>3, <2>4, <2>5, CallerAssumption DEF InFlight, IInv, TypeOK
    <2>7. QED
      BY <2>1, <2>6
  <1>8. ASSUME NEW c \in Caller, Save(c) PROVE call[c].pc = "exchanged"
    BY <1>8 DEF Save
  <1>9. QED
    BY <1>1, <1>2, <1>3, <1>4, <1>5, <1>6, <1>7, <1>8, <1>10, <1>11
    DEF Next, Refreshing, Callback

LEMMA MapInit == Init => Grants!Init
  BY CallerAssumption DEF Init, Grants!Init, InFlight

\* Whatever the interleaving, the stored credential moves only as GrantStore
\* lets it: a refresh shows as one step, whole or lost.
THEOREM Refinement == Spec => ImplementsGrantStore
  <1>1. IInv /\ IInv' /\ [Next]_vars => [Grants!Next]_(Grants!vars)
    BY MapStep
  <1>2. QED
    BY <1>1, MapInit, Invariant, PTL DEF Spec, ImplementsGrantStore, Grants!Spec

-----------------------------------------------------------------------------
(* BlueskyIngest.                                                            *)

LEMMA PostsInitInv == ASSUME Images \in Nat, B!Init PROVE B!IInv
  <1>1. B!TypeOK
    <2>1. /\ ingest \in [pc : {"idle", "handle", "ack", "stopped"}, message : B!Message \cup {None}]
          /\ ingest.pc = "idle" /\ messages = {}
      BY DEF B!Init, B!Resting
    <2>2. work \in [Worker -> B!Run] /\ \A w \in Worker : work[w].pc = "idle"
      BY DEF B!Init, B!Idle, B!Run
    <2>3. submitted \in [B!Image -> 0..2] /\ images \subseteq B!Image /\ skipped \subseteq B!Image
      BY DEF B!Init
    <2>4. /\ bsky \in [Post -> {"none", "created", "deleted"}] /\ jobs \in [Post -> Nat]
          /\ posts \in [Post -> {"none", "live", "deleted"}]
          /\ forgotten \subseteq Post /\ again \subseteq Post /\ dead \subseteq Post /\ faults \in Nat
      BY DEF B!Init
    <2>5. QED
      BY <2>1, <2>2, <2>3, <2>4 DEF B!TypeOK
  <1>2. B!LockInv /\ B!BatchInv /\ B!SubmittedInv
    <2>1. \A w \in Worker : work[w].pc = "idle"
      BY DEF B!Init, B!Idle
    <2>2. \A q \in Post, k \in 1..Images : submitted[<<q, k>>] = 0
      BY DEF B!Init, B!Image
    <2>3. QED
      BY <2>1, <2>2 DEF B!LockInv, B!BatchInv, B!SubmittedInv
  <1>3. B!DeleteInv /\ B!StoredIsSubmitted /\ B!SubmittedOnce
    BY DEF B!Init, B!DeleteInv, B!StoredIsSubmitted, B!SubmittedOnce, B!Resting, B!Image
  <1>4. QED
    BY <1>1, <1>2, <1>3 DEF B!IInv

-----------------------------------------------------------------------------
(* Bluesky and ingest_bsky: they leave the transactions and images alone.    *)

\* The parts about the load depend on no other variable than these.
LoadVars == <<work, images, submitted, skipped, again>>
LoadInv == B!LockInv /\ B!BatchInv /\ B!SubmittedInv /\ B!StoredIsSubmitted /\ B!SubmittedOnce

\* A step that writes no row, or marks one whose key is free, keeps those parts.
LEMMA LoadKept ==
    ASSUME B!TypeOK, LoadInv, UNCHANGED LoadVars,
           UNCHANGED posts \/ \E p \in Post : ~B!Locked(p) /\ posts' = [posts EXCEPT ![p] = "deleted"]
    PROVE  LoadInv'
  <1>1. CASE UNCHANGED posts
    BY <1>1 DEF LoadInv, LoadVars, B!LockInv, B!BatchInv, B!SubmittedInv, B!StoredIsSubmitted, B!SubmittedOnce
  <1>2. ASSUME NEW p \in Post, ~B!Locked(p), posts' = [posts EXCEPT ![p] = "deleted"]
        PROVE  LoadInv'
    <2>1. \A q \in Post : posts'[q] = IF q = p THEN "deleted" ELSE posts[q]
      BY <1>2 DEF B!TypeOK
    <2>2. B!LockInv'
      <3> SUFFICES ASSUME NEW w \in Worker, work[w].pc = "images"
                   PROVE  /\ posts'[work[w].post] = "none"
                          /\ \A x \in Worker : work[x].pc = "images" /\ work[x].post = work[w].post => x = w
        BY DEF B!LockInv, LoadVars
      <3>1. work[w].post # p
        BY <1>2 DEF B!Locked
      <3>2. posts[work[w].post] = "none"
        BY DEF LoadInv, B!LockInv
      <3>3. posts'[work[w].post] = "none"
        BY <1>2, <3>1, <3>2 DEF B!TypeOK
      <3>4. QED
        BY <3>3 DEF LoadInv, B!LockInv
    <2>3. B!BatchInv'
      BY DEF LoadInv, LoadVars, B!BatchInv
    <2>4. B!SubmittedInv'
      <3> SUFFICES ASSUME NEW q \in Post, NEW k \in 1..Images, submitted[<<q, k>>] > 0
                   PROVE  \/ q \in again \/ posts'[q] # "none"
                          \/ \E w \in Worker :
                                work[w].pc = "images" /\ work[w].post = q /\ k < work[w].next
        BY DEF B!SubmittedInv, LoadVars
      <3>1. posts[q] # "none" => posts'[q] # "none"
        BY <2>1
      <3>2. QED
        BY <3>1 DEF LoadInv, B!SubmittedInv
    <2>5. B!StoredIsSubmitted'
      BY <2>1 DEF LoadInv, LoadVars, B!StoredIsSubmitted
    <2>6. B!SubmittedOnce'
      BY DEF LoadInv, LoadVars, B!SubmittedOnce
    <2>7. QED
      BY <2>2, <2>3, <2>4, <2>5, <2>6 DEF LoadInv
  <1>3. QED
    BY <1>1, <1>2

LEMMA PostsSiteInv ==
    ASSUME B!IInv, NEW p \in Post, B!CreateAtSite(p) \/ B!DeleteAtSite(p)
    PROVE  B!IInv'
  <1>1. B!TypeOK'
    BY DEF B!IInv, B!TypeOK, B!CreateAtSite, B!DeleteAtSite, B!history, B!Message
  <1>2. B!DeleteInv'
    BY DEF B!IInv, B!TypeOK, B!DeleteInv, B!CreateAtSite, B!DeleteAtSite, B!history
  <1>3. LoadInv'
    BY LoadKept DEF B!IInv, LoadInv, LoadVars, B!CreateAtSite, B!DeleteAtSite, B!history
  <1>4. QED
    BY <1>1, <1>2, <1>3 DEF B!IInv, LoadInv

LEMMA PostsMessageInv ==
    ASSUME B!IInv, B!Receive \/ B!EnqueueLoad
    PROVE  B!IInv'
  <1>1. B!TypeOK'
    <2>1. CASE B!Receive
      BY <2>1 DEF B!IInv, B!TypeOK, B!Receive, B!history, B!Fault
    <2>2. CASE B!EnqueueLoad
      <3>1. jobs' \in [Post -> Nat]
        BY <2>2 DEF B!IInv, B!TypeOK, B!EnqueueLoad, B!Message
      <3>2. /\ ingest' \in [pc : {"idle", "handle", "ack", "stopped"}, message : B!Message \cup {None}]
            /\ ingest'.message = ingest.message /\ ingest.pc = "handle"
        BY <2>2 DEF B!IInv, B!TypeOK, B!EnqueueLoad
      <3>3. QED
        BY <2>2, <3>1, <3>2 DEF B!IInv, B!TypeOK, B!EnqueueLoad, B!history
    <2>3. QED
      BY <2>1, <2>2
  <1>2. B!DeleteInv'
    <2>1. ingest'.pc # "ack" \/ ingest'.message[2] # "delete"
      <3>1. CASE B!Receive
        BY <3>1 DEF B!Receive
      <3>2. CASE B!EnqueueLoad
        <4>1. ingest'.message = ingest.message
          BY <3>2 DEF B!EnqueueLoad, B!IInv, B!TypeOK
        <4>2. QED
          BY <3>2, <4>1 DEF B!EnqueueLoad
      <3>3. QED
        BY <3>1, <3>2
    <2>2. UNCHANGED <<bsky, messages, posts, forgotten>>
      BY DEF B!Receive, B!EnqueueLoad, B!history
    <2>3. QED
      BY <2>1, <2>2 DEF B!IInv, B!DeleteInv
  <1>3. LoadInv'
    BY LoadKept DEF B!IInv, LoadInv, LoadVars, B!Receive, B!EnqueueLoad, B!history
  <1>4. QED
    BY <1>1, <1>2, <1>3 DEF B!IInv, LoadInv

\* The ingester drops what it handles, stops or is started: the messages stay.
LEMMA IngestStops ==
    ASSUME B!IInv, B!RefuseMessage \/ B!LoseAck \/ B!StopIngest \/ B!StartIngest
    PROVE  B!IInv'
  <1> USE DEF B!RefuseMessage, B!LoseAck, B!StopIngest, B!StartIngest
  <1>1. ingest' = [pc |-> "idle", message |-> None] \/ ingest' = [pc |-> "stopped", message |-> None]
    BY DEF B!Resting
  <1>2. ingest'.pc \notin {"handle", "ack"}
    BY <1>1
  <1>3. /\ UNCHANGED <<bsky, messages, jobs, work, posts, images, submitted>>
        /\ UNCHANGED <<skipped, forgotten, again, dead>>
        /\ faults' \in Nat
    BY DEF B!history, B!Fault, B!IInv, B!TypeOK
  <1>4. B!TypeOK'
    BY <1>1, <1>2, <1>3 DEF B!IInv, B!TypeOK
  <1>5. B!DeleteInv'
    BY <1>2, <1>3 DEF B!IInv, B!DeleteInv
  <1>6. LoadInv'
    BY <1>3, LoadKept DEF B!IInv, LoadInv, LoadVars
  <1>7. QED
    BY <1>4, <1>5, <1>6 DEF B!IInv, LoadInv

LEMMA DeleteStep ==
    ASSUME B!IInv, B!DeletePost \/ B!DeleteFails
    PROVE  B!IInv'
  <1> DEFINE p == ingest.message[1]
  <1>1. p \in Post
    BY DEF B!IInv, B!TypeOK, B!DeletePost, B!DeleteFails, B!Message
  <1>2. B!TypeOK'
    BY <1>1 DEF B!IInv, B!TypeOK, B!DeletePost, B!DeleteFails, B!history, B!Fault
  <1>3. B!DeleteInv'
    BY <1>1 DEF B!IInv, B!TypeOK, B!DeleteInv, B!DeletePost, B!DeleteFails, B!history
  <1>4. LoadInv'
    BY <1>1, LoadKept DEF B!IInv, LoadInv, LoadVars, B!DeletePost, B!DeleteFails, B!history
  <1>5. QED
    BY <1>2, <1>3, <1>4 DEF B!IInv, LoadInv

\* The delete that leaves the messages has been done, or is lost.
LEMMA PostsAckInv ==
    ASSUME B!IInv, B!AckMessage
    PROVE  B!IInv'
  <1>1. B!TypeOK'
    BY DEF B!IInv, B!TypeOK, B!AckMessage, B!history, B!Resting
  <1>2. B!DeleteInv'
    <2>1. ASSUME NEW q \in Post, bsky[q] = "deleted"
          PROVE  <<q, "delete">> \in messages' \/ posts[q] = "deleted" \/ q \in forgotten
      <3>1. CASE ingest.message = <<q, "delete">>
        BY <3>1 DEF B!IInv, B!DeleteInv, B!AckMessage
      <3>2. CASE ingest.message # <<q, "delete">>
        BY <2>1, <3>2 DEF B!IInv, B!DeleteInv, B!AckMessage
      <3>3. QED
        BY <3>1, <3>2
    <2>2. QED
      BY <2>1 DEF B!DeleteInv, B!AckMessage, B!history, B!Resting
  <1>3. LoadInv'
    BY LoadKept DEF B!IInv, LoadInv, LoadVars, B!AckMessage, B!history
  <1>4. QED
    BY <1>1, <1>2, <1>3 DEF B!IInv, LoadInv

-----------------------------------------------------------------------------
(* load_bluesky_post.                                                        *)

\* The parts about deletions depend on no other variable than these.
LEMMA DeleteKept ==
    ASSUME B!TypeOK, B!DeleteInv, UNCHANGED <<bsky, messages, ingest, forgotten>>,
           \A p \in Post : posts[p] = "deleted" => posts'[p] = "deleted"
    PROVE  B!DeleteInv'
  <1>1. ingest.pc = "ack" => ingest.message[1] \in Post
    BY DEF B!TypeOK, B!Message
  <1>2. QED
    BY <1>1 DEF B!DeleteInv

LEMMA PostsOneRun ==
    ASSUME work \in [Worker -> B!Run], NEW w \in Worker, NEW r \in B!Run,
           work' = [work EXCEPT ![w] = r]
    PROVE  /\ work' \in [Worker -> B!Run] /\ work'[w] = r
           /\ \A x \in Worker : x # w => work'[x] = work[x]
  OBVIOUS

LEMMA RunType ==
    ASSUME NEW pc \in {"idle", "insert", "images", "ack"}, NEW post \in Post \cup {None},
           NEW next \in 0..(Images + 1), NEW saved \in SUBSET (1..Images)
    PROVE  [pc |-> pc, post |-> post, next |-> next, saved |-> saved] \in B!Run
  BY DEF B!Run

LEMMA IdleRun == ASSUME Images \in Nat PROVE B!Idle \in B!Run /\ B!Idle.pc = "idle"
  BY DEF B!Idle, B!Run

\* The types of a step that a run of w makes: what it does to work is one run.
LEMMA RunTypes ==
    ASSUME B!TypeOK, UNCHANGED <<bsky, messages, ingest, forgotten>>, NEW w \in Worker, NEW r \in B!Run,
           work' = [work EXCEPT ![w] = r], r.pc # "idle" => r.post \in Post,
           jobs' \in [Post -> Nat], faults' \in Nat,
           posts' \in [Post -> {"none", "live", "deleted"}],
           images' \subseteq B!Image, submitted' \in [B!Image -> 0..2], skipped' \subseteq B!Image,
           again' \subseteq Post, dead' \subseteq Post
    PROVE  B!TypeOK'
  BY PostsOneRun DEF B!TypeOK

\* A step outside a transaction, before and after it.
LEMMA PostsOutsideInv ==
    ASSUME B!IInv, NEW w \in Worker, NEW r \in B!Run, work' = [work EXCEPT ![w] = r],
           UNCHANGED <<bsky, messages, ingest, posts, images, submitted, skipped, forgotten, again>>,
           work[w].pc # "images", r.pc # "images",
           r.pc # "idle" => r.post \in Post, r.pc = "insert" => r.saved = {},
           jobs' \in [Post -> Nat], dead' \subseteq Post, faults' \in Nat
    PROVE  B!IInv'
  <1>1. /\ work'[w] = r
        /\ \A x \in Worker : x # w => work'[x] = work[x]
    BY PostsOneRun DEF B!IInv, B!TypeOK
  <1>2. B!TypeOK'
    BY RunTypes DEF B!IInv, B!TypeOK
  <1>3. B!LockInv' /\ B!BatchInv'
    BY <1>1 DEF B!IInv, B!LockInv, B!BatchInv
  <1>4. B!SubmittedInv'
    <2>1. \A x \in Worker : work[x].pc = "images" => work'[x] = work[x]
      BY <1>1
    <2>2. QED
      BY <1>1, <2>1 DEF B!IInv, B!SubmittedInv
  <1>5. B!DeleteInv'
    BY <1>1, DeleteKept DEF B!IInv
  <1>6. B!StoredIsSubmitted' /\ B!SubmittedOnce'
    BY <1>1 DEF B!IInv, B!StoredIsSubmitted, B!SubmittedOnce
  <1>7. QED
    BY <1>2, <1>3, <1>4, <1>5, <1>6 DEF B!IInv

LEMMA PostsTakeInv ==
    ASSUME Images \in Nat, B!IInv, NEW w \in Worker, NEW p \in Post, B!Take(w, p)
    PROVE  B!IInv'
  <1> DEFINE r == [pc |-> "insert", post |-> p, next |-> 0, saved |-> {}]
  <1>1. r \in B!Run /\ r.pc = "insert" /\ r.post = p /\ r.saved = {}
    <2>1. 0 \in 0..(Images + 1) /\ {} \in SUBSET (1..Images) /\ p \in Post \cup {None}
      OBVIOUS
    <2>2. r \in B!Run
      BY <2>1, RunType
    <2>3. QED
      BY <2>2
  <1>2. work' = [work EXCEPT ![w] = r] /\ work[w].pc = "idle"
    BY DEF B!Take, B!Go
  <1>3. jobs' \in [Post -> Nat]
    BY DEF B!Take, B!IInv, B!TypeOK
  <1>4. UNCHANGED <<bsky, messages, ingest, posts, images, submitted, skipped, forgotten, again, dead, faults>>
    BY DEF B!Take, B!history
  <1> HIDE DEF r
  <1>5. QED
    BY <1>1, <1>2, <1>3, <1>4, PostsOutsideInv DEF B!IInv, B!TypeOK

LEMMA PostsAckJobInv ==
    ASSUME Images \in Nat, B!IInv, NEW w \in Worker, B!AckJob(w)
    PROVE  B!IInv'
  <1>1. UNCHANGED <<bsky, messages, ingest, jobs, posts, images, submitted, skipped, forgotten, again, dead, faults>>
    BY DEF B!AckJob, B!history
  <1>2. work' = [work EXCEPT ![w] = B!Idle] /\ work[w].pc = "ack"
    BY DEF B!AckJob
  <1>3. QED
    BY <1>1, <1>2, IdleRun, PostsOutsideInv DEF B!IInv, B!TypeOK

\* create_post finds the post, or inserts it and opens the transaction.
LEMMA InsertInv ==
    ASSUME Images \in Nat, B!IInv, NEW w \in Worker, B!InsertPost(w)
    PROVE  B!IInv'
  <1>1. /\ UNCHANGED <<bsky, messages, ingest, jobs, posts, images, submitted, skipped, forgotten, again, dead, faults>>
        /\ work[w].pc = "insert" /\ ~B!Locked(work[w].post)
    BY DEF B!InsertPost, B!history
  <1>2. work[w] \in B!Run /\ work[w].post \in Post /\ work[w].saved = {}
    BY <1>1 DEF B!IInv, B!TypeOK, B!BatchInv
  <1>3. CASE posts[work[w].post] # "none"
    <2> DEFINE r == [pc |-> "ack", post |-> work[w].post, next |-> 0, saved |-> {}]
    <2>1. r \in B!Run /\ r.pc = "ack" /\ r.post = work[w].post
      <3>1. 0 \in 0..(Images + 1) /\ {} \in SUBSET (1..Images)
        OBVIOUS
      <3>2. r \in B!Run
        BY <1>2, <3>1, RunType
      <3>3. QED
        BY <3>2
    <2>2. work' = [work EXCEPT ![w] = r]
      BY <1>3 DEF B!InsertPost, B!Go
    <2> HIDE DEF r
    <2>3. QED
      BY <1>1, <1>2, <2>1, <2>2, PostsOutsideInv DEF B!IInv, B!TypeOK
  <1>4. CASE posts[work[w].post] = "none"
    <2> DEFINE r == [pc |-> "images", post |-> work[w].post, next |-> 1, saved |-> {}]
    <2>1. r \in B!Run /\ r.pc = "images" /\ r.post = work[w].post /\ r.next = 1 /\ r.saved = {}
      <3>1. 1 \in 0..(Images + 1) /\ {} \in SUBSET (1..Images)
        OBVIOUS
      <3>2. r \in B!Run
        BY <1>2, <3>1, RunType
      <3>3. QED
        BY <3>2
    <2>2. work' = [work EXCEPT ![w] = r]
      BY <1>4 DEF B!InsertPost, B!Go
    <2> HIDE DEF r
    <2>3. work'[w] = r /\ \A x \in Worker : x # w => work'[x] = work[x]
      BY <2>1, <2>2, PostsOneRun DEF B!IInv, B!TypeOK
    <2>4. B!TypeOK'
      BY <1>1, <1>2, <2>1, <2>2, RunTypes DEF B!IInv, B!TypeOK
    <2>5. B!LockInv'
      BY <1>1, <1>4, <2>1, <2>3 DEF B!IInv, B!LockInv, B!Locked
    <2>6. B!BatchInv'
      BY <1>1, <2>1, <2>3 DEF B!IInv, B!BatchInv
    <2>7. B!SubmittedInv'
      <3>1. \A x \in Worker : work[x].pc = "images" => work'[x] = work[x]
        BY <1>1, <2>3
      <3>2. QED
        BY <1>1, <3>1 DEF B!IInv, B!SubmittedInv
    <2>8. B!DeleteInv'
      BY <1>1, DeleteKept DEF B!IInv
    <2>9. B!StoredIsSubmitted' /\ B!SubmittedOnce'
      BY <1>1 DEF B!IInv, B!StoredIsSubmitted, B!SubmittedOnce
    <2>10. QED
      BY <2>4, <2>5, <2>6, <2>7, <2>8, <2>9 DEF B!IInv
  <1>5. QED
    BY <1>3, <1>4

\* A step within the transaction of w: its next image is saved and submitted, or
\* passed over.
LEMMA PostsImageInv ==
    ASSUME Images \in Nat, B!IInv, NEW w \in Worker, NEW p, p = work[w].post,
           NEW n, n = work[w].next, work[w].pc = "images", n \in 1..Images,
           NEW kept, B!Go(w, "images", p, n + 1, kept),
           UNCHANGED <<bsky, messages, ingest, jobs, posts, images, forgotten, again, dead>>, faults' \in Nat,
           \/ /\ kept = work[w].saved \cup {n} /\ skipped' = skipped
              /\ submitted' = [submitted EXCEPT ![<<p, n>>] = IF @ = 2 THEN 2 ELSE @ + 1]
           \/ /\ kept = work[w].saved /\ skipped' = skipped \cup {<<p, n>>}
              /\ submitted' = submitted
    PROVE  B!IInv'
  <1> DEFINE r == [pc |-> "images", post |-> p, next |-> n + 1, saved |-> kept]
             i == <<p, n>>
  <1>1. work[w] \in B!Run /\ p \in Post /\ i \in B!Image
    BY DEF B!IInv, B!TypeOK, B!Image
  <1>2. r \in B!Run /\ r.pc = "images" /\ r.post = p /\ r.next = n + 1 /\ r.saved = kept
    <2>1. n + 1 \in 0..(Images + 1) /\ kept \in SUBSET (1..Images)
      BY <1>1 DEF B!Run
    <2>2. r \in B!Run
      BY <1>1, <2>1, RunType
    <2>3. QED
      BY <2>2
  <1>3. work' = [work EXCEPT ![w] = r]
    BY DEF B!Go
  <1> HIDE DEF r
  <1>4. work'[w] = r /\ \A x \in Worker : x # w => work'[x] = work[x]
    BY <1>2, <1>3, PostsOneRun DEF B!IInv, B!TypeOK
  <1>5. /\ submitted \in [B!Image -> 0..2] /\ submitted' \in [B!Image -> 0..2]
        /\ \A j \in B!Image : submitted[j] > 0 => submitted'[j] > 0
        /\ \A j \in B!Image : j # i => submitted'[j] = submitted[j]
    BY <1>1 DEF B!IInv, B!TypeOK
  <1>6. skipped \subseteq skipped' /\ (n \in kept \/ i \in skipped')
    OBVIOUS
  <1>7. \A k \in kept : submitted'[<<p, k>>] > 0
    <2>1. TAKE k \in kept
    <2>2. CASE k \in work[w].saved
      <3>1. submitted[<<p, k>>] > 0 /\ <<p, k>> \in B!Image
        BY <1>1, <2>2 DEF B!IInv, B!BatchInv, B!Run, B!Image
      <3>2. QED
        BY <1>5, <3>1
    <2>3. CASE k \notin work[w].saved
      <3>1. k = n /\ submitted' = [submitted EXCEPT ![i] = IF @ = 2 THEN 2 ELSE @ + 1]
        BY <2>3
      <3>2. submitted[i] \in 0..2
        BY <1>1, <1>5
      <3>3. QED
        BY <1>1, <1>5, <3>1, <3>2
    <2>4. QED
      BY <2>2, <2>3
  <1>8. B!TypeOK'
    <2>1. skipped' \subseteq B!Image
      BY <1>1 DEF B!IInv, B!TypeOK
    <2>2. QED
      BY <1>1, <1>2, <1>3, <1>5, <2>1, RunTypes DEF B!IInv, B!TypeOK
  <1>9. B!LockInv'
    BY <1>2, <1>4 DEF B!IInv, B!LockInv
  <1>10. B!BatchInv'
    <2>1. ASSUME NEW x \in Worker, work'[x].pc = "images"
          PROVE  /\ work'[x].next \in 1..(Images + 1)
                 /\ \A k \in 1..(work'[x].next - 1) :
                        k \in work'[x].saved \/ <<work'[x].post, k>> \in skipped'
                 /\ \A k \in work'[x].saved : submitted'[<<work'[x].post, k>>] > 0
      <3>1. CASE x = w
        <4>1. \A k \in 1..(n - 1) : k \in kept \/ <<p, k>> \in skipped'
          BY <1>6 DEF B!IInv, B!BatchInv
        <4>2. QED
          BY <1>2, <1>4, <1>6, <1>7, <3>1, <4>1
      <3>2. CASE x # w
        <4>1. work'[x] = work[x] /\ work[x] \in B!Run /\ work[x].post \in Post
          BY <1>4, <2>1, <3>2 DEF B!IInv, B!TypeOK
        <4>2. \A k \in work[x].saved : submitted[<<work[x].post, k>>] > 0 /\ <<work[x].post, k>> \in B!Image
          BY <2>1, <4>1 DEF B!IInv, B!BatchInv, B!Run, B!Image
        <4>3. QED
          BY <1>5, <1>6, <2>1, <4>1, <4>2 DEF B!IInv, B!BatchInv
      <3>3. QED
        BY <3>1, <3>2
    <2>2. \A x \in Worker : work'[x].pc = "insert" => work'[x].saved = {}
      BY <1>2, <1>4 DEF B!IInv, B!BatchInv
    <2>3. QED
      BY <2>1, <2>2 DEF B!BatchInv
  <1>11. B!SubmittedInv'
    <2> SUFFICES ASSUME NEW q \in Post, NEW k \in 1..Images, submitted'[<<q, k>>] > 0
                 PROVE  \/ q \in again \/ posts[q] # "none"
                        \/ \E x \in Worker :
                              work'[x].pc = "images" /\ work'[x].post = q /\ k < work'[x].next
      BY DEF B!SubmittedInv
    <2>1. CASE <<q, k>> = i
      BY <1>2, <1>4, <2>1
    <2>2. CASE <<q, k>> # i
      <3>1. submitted[<<q, k>>] > 0
        BY <1>5, <2>2 DEF B!Image
      <3>2. ASSUME NEW x \in Worker, work[x].pc = "images", work[x].post = q, k < work[x].next
            PROVE  work'[x].pc = "images" /\ work'[x].post = q /\ k < work'[x].next
        BY <1>2, <1>4, <3>2
      <3>3. QED
        BY <3>1, <3>2 DEF B!IInv, B!SubmittedInv
    <2>3. QED
      BY <2>1, <2>2
  <1>12. B!DeleteInv'
    BY DeleteKept DEF B!IInv
  <1>13. B!StoredIsSubmitted'
    BY <1>5, <1>6 DEF B!IInv, B!TypeOK, B!StoredIsSubmitted
  <1>14. B!SubmittedOnce'
    <2> SUFFICES ASSUME NEW j \in B!Image, submitted'[j] > 1 PROVE j[1] \in again
      BY DEF B!SubmittedOnce
    <2>1. CASE submitted[j] > 1
      BY <2>1 DEF B!IInv, B!SubmittedOnce
    <2>2. CASE ~(submitted[j] > 1)
      <3>1. j = i /\ submitted[i] > 0
        BY <1>5, <2>2
      <3>2. posts[p] = "none"
        BY DEF B!IInv, B!LockInv
      <3>3. ~\E x \in Worker : work[x].pc = "images" /\ work[x].post = p /\ n < work[x].next
        BY DEF B!IInv, B!LockInv
      <3>4. QED
        BY <1>1, <3>1, <3>2, <3>3 DEF B!IInv, B!SubmittedInv
    <2>3. QED
      BY <2>1, <2>2
  <1>15. QED
    BY <1>8, <1>9, <1>10, <1>11, <1>12, <1>13, <1>14 DEF B!IInv

LEMMA LoadImageInv ==
    ASSUME Images \in Nat, B!IInv, NEW w \in Worker, B!LoadImage(w) \/ B!SkipImage(w)
    PROVE  B!IInv'
  <1> DEFINE p == work[w].post
             n == work[w].next
  <1>1. CASE B!LoadImage(w)
    <2>1. /\ work[w].pc = "images" /\ n \in 1..Images
          /\ submitted' = [submitted EXCEPT ![<<p, n>>] = IF @ = 2 THEN 2 ELSE @ + 1]
          /\ B!Go(w, "images", p, n + 1, work[w].saved \cup {n})
      BY <1>1 DEF B!LoadImage
    <2>2. /\ UNCHANGED <<bsky, messages, ingest, jobs, posts, images, forgotten, again, dead, skipped>>
          /\ faults' \in Nat
      BY <1>1 DEF B!LoadImage, B!history, B!IInv, B!TypeOK
    <2>3. QED
      BY <2>1, <2>2, PostsImageInv
  <1>2. CASE B!SkipImage(w)
    <2>1. /\ work[w].pc = "images" /\ n \in 1..Images
          /\ skipped' = skipped \cup {<<p, n>>}
          /\ B!Go(w, "images", p, n + 1, work[w].saved)
      BY <1>2 DEF B!SkipImage
    <2>2. /\ UNCHANGED <<bsky, messages, ingest, jobs, posts, images, forgotten, again, dead, submitted>>
          /\ faults' \in Nat
      BY <1>2 DEF B!SkipImage, B!Fault, B!IInv, B!TypeOK
    <2>3. QED
      BY <2>1, <2>2, PostsImageInv
  <1>3. QED
    BY <1>1, <1>2

\* A transaction ends: w leaves it, and its post is stored or failed.
LEMMA PostsLeaveInv ==
    ASSUME B!IInv, NEW w \in Worker, work[w].pc = "images", NEW r \in B!Run,
           work' = [work EXCEPT ![w] = r], r.pc \in {"idle", "ack"},
           NEW p, p = work[w].post, posts'[p] # "none" \/ p \in again',
           again \subseteq again', \A q \in Post : q # p => posts'[q] = posts[q],
           posts[p] # "none" => posts'[p] # "none", submitted' = submitted, skipped' = skipped
    PROVE  B!LockInv' /\ B!BatchInv' /\ B!SubmittedInv' /\ B!SubmittedOnce'
  <1>1. work'[w] = r /\ \A x \in Worker : x # w => work'[x] = work[x]
    BY PostsOneRun DEF B!IInv, B!TypeOK
  <1>2. \A x \in Worker : work'[x].pc = "images" => x # w /\ work'[x] = work[x] /\ work[x].post # p
    BY <1>1 DEF B!IInv, B!LockInv
  <1>3. B!LockInv'
    <2> SUFFICES ASSUME NEW x \in Worker, work'[x].pc = "images"
                 PROVE  /\ posts'[work'[x].post] = "none"
                        /\ \A y \in Worker :
                              work'[y].pc = "images" /\ work'[y].post = work'[x].post => y = x
      BY DEF B!LockInv
    <2>1. work[x].post \in Post /\ work[x].post # p /\ work'[x] = work[x]
      BY <1>2 DEF B!IInv, B!TypeOK
    <2>2. posts'[work[x].post] = posts[work[x].post]
      BY <2>1
    <2>3. QED
      BY <1>2, <2>1, <2>2 DEF B!IInv, B!LockInv
  <1>4. B!BatchInv'
    BY <1>1, <1>2 DEF B!IInv, B!BatchInv
  <1>5. B!SubmittedInv'
    <2> SUFFICES ASSUME NEW q \in Post, NEW k \in 1..Images, submitted[<<q, k>>] > 0
                 PROVE  \/ q \in again' \/ posts'[q] # "none"
                        \/ \E x \in Worker :
                              work'[x].pc = "images" /\ work'[x].post = q /\ k < work'[x].next
      BY DEF B!SubmittedInv
    <2>1. CASE q = p
      BY <2>1
    <2>2. CASE q # p
      <3>1. \A x \in Worker : work[x].post = q => work'[x] = work[x]
        BY <1>1, <2>2
      <3>2. QED
        BY <2>2, <3>1 DEF B!IInv, B!SubmittedInv
    <2>3. QED
      BY <2>1, <2>2
  <1>6. B!SubmittedOnce'
    BY DEF B!IInv, B!SubmittedOnce
  <1>7. QED
    BY <1>3, <1>4, <1>5, <1>6

LEMMA CommitInv ==
    ASSUME Images \in Nat, B!IInv, NEW w \in Worker, B!Commit(w)
    PROVE  B!IInv'
  <1> DEFINE p == work[w].post
             r == [pc |-> "ack", post |-> p, next |-> 0, saved |-> {}]
  <1>1. /\ work[w].pc = "images" /\ work[w].next = Images + 1
        /\ posts' = [posts EXCEPT ![p] = "live"]
        /\ images' = images \cup ({p} \X work[w].saved)
        /\ work' = [work EXCEPT ![w] = r]
        /\ UNCHANGED <<bsky, messages, ingest, jobs, submitted, skipped, forgotten, again, dead, faults>>
    BY DEF B!Commit, B!Go, B!history
  <1>2. work[w] \in B!Run /\ p \in Post /\ posts[p] = "none"
    BY <1>1 DEF B!IInv, B!TypeOK, B!LockInv
  <1>3. r \in B!Run /\ r.pc = "ack" /\ r.post = p
    <2>1. 0 \in 0..(Images + 1) /\ {} \in SUBSET (1..Images)
      OBVIOUS
    <2>2. r \in B!Run
      BY <1>2, <2>1, RunType
    <2>3. QED
      BY <2>2
  <1>4. \A q \in Post : posts'[q] = IF q = p THEN "live" ELSE posts[q]
    BY <1>1 DEF B!IInv, B!TypeOK
  <1>5. images' \subseteq B!Image
    BY <1>1, <1>2 DEF B!IInv, B!TypeOK, B!Run, B!Image
  <1> HIDE DEF r
  <1>6. B!TypeOK'
    BY <1>1, <1>2, <1>3, <1>5, RunTypes DEF B!IInv, B!TypeOK
  <1>7. B!LockInv' /\ B!BatchInv' /\ B!SubmittedInv' /\ B!SubmittedOnce'
    <2>1. posts'[p] # "none" /\ \A q \in Post : q # p => posts'[q] = posts[q]
      BY <1>2, <1>4
    <2>2. r.pc \in {"idle", "ack"} /\ again \subseteq again'
      BY <1>1, <1>3
    <2>3. QED
      BY <1>1, <1>3, <2>1, <2>2, PostsLeaveInv
  <1>8. B!DeleteInv'
    BY <1>1, <1>2, <1>4, DeleteKept DEF B!IInv
  <1>9. B!StoredIsSubmitted'
    <2> SUFFICES ASSUME NEW q \in Post, NEW k \in 1..Images
                 PROVE  /\ <<q, k>> \in images' => submitted[<<q, k>>] > 0
                        /\ posts'[q] = "live" => <<q, k>> \in images' \/ <<q, k>> \in skipped
      BY <1>1 DEF B!StoredIsSubmitted
    <2>1. CASE q = p
      <3>1. k \in work[w].saved \/ <<p, k>> \in skipped
        BY <1>1 DEF B!IInv, B!BatchInv
      <3>2. k \in work[w].saved => submitted[<<p, k>>] > 0
        BY <1>1 DEF B!IInv, B!BatchInv
      <3>3. QED
        BY <1>1, <2>1, <3>1, <3>2 DEF B!IInv, B!StoredIsSubmitted
    <2>2. CASE q # p
      BY <1>1, <1>4, <2>2 DEF B!IInv, B!StoredIsSubmitted
    <2>3. QED
      BY <2>1, <2>2
  <1>10. QED
    BY <1>6, <1>7, <1>8, <1>9 DEF B!IInv

LEMMA InterruptInv ==
    ASSUME Images \in Nat, B!IInv, NEW w \in Worker, B!InterruptLoad(w)
    PROVE  B!IInv'
  <1> DEFINE p == work[w].post
  <1>1. /\ work[w].pc # "idle"
        /\ again' = IF work[w].pc = "images" THEN again \cup {p} ELSE again
        /\ work' = [work EXCEPT ![w] = B!Idle]
        /\ UNCHANGED <<bsky, messages, ingest, posts, images, submitted, skipped, forgotten>>
    BY DEF B!InterruptLoad
  <1>2. p \in Post
    BY <1>1 DEF B!IInv, B!TypeOK
  <1>3. jobs' \in [Post -> Nat] /\ faults' \in Nat /\ again' \subseteq Post /\ dead' \subseteq Post
    BY <1>1, <1>2 DEF B!InterruptLoad, B!Fault, B!IInv, B!TypeOK
  <1>4. CASE work[w].pc = "images"
    <2>1. B!TypeOK'
      BY <1>1, <1>3, IdleRun, RunTypes DEF B!IInv, B!TypeOK
    <2>2. B!LockInv' /\ B!BatchInv' /\ B!SubmittedInv' /\ B!SubmittedOnce'
      BY <1>1, <1>2, <1>4, IdleRun, PostsLeaveInv
    <2>3. B!DeleteInv'
      BY <1>1, DeleteKept DEF B!IInv
    <2>4. B!StoredIsSubmitted'
      BY <1>1 DEF B!IInv, B!StoredIsSubmitted
    <2>5. QED
      BY <2>1, <2>2, <2>3, <2>4 DEF B!IInv
  <1>5. CASE work[w].pc # "images"
    BY <1>1, <1>3, <1>5, IdleRun, PostsOutsideInv
  <1>6. QED
    BY <1>4, <1>5

-----------------------------------------------------------------------------
LEMMA PostsInvStep == ASSUME Images \in Nat, B!IInv, [B!Next]_(B!vars) PROVE B!IInv'
  <1>1. ASSUME NEW p \in Post, B!CreateAtSite(p) \/ B!DeleteAtSite(p)
        PROVE  B!IInv'
    BY <1>1, PostsSiteInv
  <1>2. CASE \/ B!Ingesting \/ B!DeleteFails \/ B!RefuseMessage \/ B!LoseAck
             \/ B!StopIngest \/ B!StartIngest
    BY <1>2, PostsMessageInv, IngestStops, DeleteStep, PostsAckInv DEF B!Ingesting
  <1>3. ASSUME NEW w \in Worker, B!Loading(w) \/ B!SkipImage(w) \/ B!InterruptLoad(w)
        PROVE  B!IInv'
    BY <1>3, PostsTakeInv, PostsAckJobInv, InsertInv, LoadImageInv, CommitInv, InterruptInv DEF B!Loading
  <1>4. CASE UNCHANGED B!vars
    <2>1. B!TypeOK'
      BY <1>4 DEF B!vars, B!history, B!IInv, B!TypeOK
    <2>2. B!DeleteInv'
      BY <1>4 DEF B!vars, B!history, B!IInv, B!DeleteInv
    <2>3. LoadInv'
      BY <1>4, LoadKept DEF B!vars, B!history, B!IInv, LoadInv, LoadVars
    <2>4. QED
      BY <2>1, <2>2, <2>3 DEF B!IInv, LoadInv
  <1>5. QED
    BY <1>1, <1>2, <1>3, <1>4 DEF B!Next

LEMMA PostsInvariant == ASSUME Images \in Nat PROVE B!Spec => []B!IInv
  <1>1. B!Init => B!IInv
    BY PostsInitInv
  <1>2. B!IInv /\ [B!Next]_(B!vars) => B!IInv'
    BY PostsInvStep
  <1>3. QED
    BY <1>1, <1>2, PTL DEF B!Spec

\* A deleted post is hidden once its messages are acknowledged, whatever jobs
\* load it before or after: no load that waits, runs or is run again shows it.
THEOREM DeletedHidden == ASSUME Images \in Nat PROVE B!Spec => []DeletedIsHidden
  <1>1. B!IInv => DeletedIsHidden
    BY DEF DeletedIsHidden, B!IInv, B!DeleteInv, B!DeletedIsHidden, B!Settled
  <1>2. QED
    BY <1>1, PostsInvariant, PTL

\* A post that is stored is whole, and its images were submitted; only a load
\* that failed half way makes an image be submitted twice.
THEOREM StoredSubmitted == ASSUME Images \in Nat PROVE B!Spec => []StoredIsSubmitted
  <1>1. B!IInv => StoredIsSubmitted
    BY DEF B!IInv, StoredIsSubmitted
  <1>2. QED
    BY <1>1, PostsInvariant, PTL
=============================================================================
