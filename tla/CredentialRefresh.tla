-------------------------- MODULE CredentialRefresh --------------------------
(* The OAuth credential of one linked account: site::refresh_credentials,    *)
(* called by the jobs that add or update the account, beside the callbacks   *)
(* that link the account, its removal and the death of a worker.             *)
(*                                                                           *)
(* A credential is the number of the token pair the site issued: pair t has  *)
(* an access token, expired once t <= expired, and a refresh token, which    *)
(* the site accepts once (t \in live).                                       *)
EXTENDS Naturals, FiniteSets

CONSTANTS Caller,     \* jobs in need of the credential
          Visit,      \* OAuth callbacks
          NoCaller,
          Sites,      \* the sites to check: "DeviantArt", "Patreon"
          MaxToken    \* bound on the pairs the site issues

ASSUME CallerAssumption == NoCaller \notin Caller
ASSUME SitesAssumption == Sites \subseteq {"DeviantArt", "Patreon"}
ASSUME MaxTokenAssumption == MaxToken \in Nat

VARIABLES site,       \* the site of the account
          removed,    \* the account was unlinked; linking again makes another one
          row,        \* credential in linked_account.data, 0 when there is no row
          lock,       \* who holds the row lock of SELECT ... FOR UPDATE
          expired,    \* the pairs issued up to this one are past expires_after
          live,       \* refresh tokens the site still accepts
          issued,     \* pairs the site has issued
          call,       \* a run of refresh_credentials per caller
          visit,      \* the pair a callback holds and will store, 0 for none
          created,    \* callbacks that stored it in a new row and will store it again
          lost,       \* pairs whose refresh token was spent and whose successor was lost
          stale       \* history: spent pairs a callback stored again

vars == <<site, removed, row, lock, expired, live, issued, call, visit, created, lost, stale>>

Token == 1..MaxToken
NoToken == [kind |-> "none", of |-> 0]
Bearer == [kind : {"access", "refresh"}, of : Token]

Idle == [pc |-> "idle", data |-> 0, new |-> 0, got |-> NoToken]
Call == [pc : {"idle", "loaded", "waiting", "locked", "exchanged"},
         data : 0..MaxToken, new : 0..MaxToken, got : {NoToken} \cup Bearer]

TypeOK ==
    /\ site \in Sites
    /\ removed \in BOOLEAN
    /\ issued \in 0..MaxToken
    /\ row \in 0..issued
    /\ expired \in 0..issued
    /\ lock \in Caller \cup {NoCaller}
    /\ live \subseteq 1..issued
    /\ lost \subseteq 1..issued
    /\ call \in [Caller -> Call]
    /\ \A c \in Caller : call[c].data <= issued /\ call[c].new <= issued
    /\ visit \in [Visit -> 0..issued]
    /\ created \subseteq Visit
    /\ stale \subseteq 1..issued

Init ==
    /\ site \in Sites /\ removed = FALSE
    /\ row = 0 /\ lock = NoCaller /\ expired = 0
    /\ live = {} /\ issued = 0 /\ lost = {}
    /\ call = [c \in Caller |-> Idle]
    /\ visit = [v \in Visit |-> 0] /\ created = {} /\ stale = {}

-----------------------------------------------------------------------------
(* What extract_fn returns in the access token's place.                      *)

\* Variant for mutation: the refresh token in both places, as on Patreon.
ExtractTwice(t) == [kind |-> "refresh", of |-> t]

ExtractDeviantArt(t) == [kind |-> "access", of |-> t]
\* Both closures' positions are the refresh token.
ExtractPatreon(t) == [kind |-> "refresh", of |-> t]
Extract(t) == IF site = "Patreon" THEN ExtractPatreon(t) ELSE ExtractDeviantArt(t)

NotExpired(t) == t > expired

-----------------------------------------------------------------------------
(* refresh_credentials, one action per round trip.                           *)

\* lookup_by_id in the job: the row is read without a lock.
Load(c) ==
    /\ call[c].pc = "idle" /\ row # 0
    /\ call' = [call EXCEPT ![c] = [Idle EXCEPT !.pc = "loaded", !.data = row]]
    /\ UNCHANGED <<site, removed, row, lock, expired, live, issued, visit, created, lost, stale>>

\* The credential that was read has not expired: use it.
UseLoaded(c) ==
    /\ call[c].pc = "loaded" /\ NotExpired(call[c].data)
    /\ call' = [call EXCEPT ![c] = [Idle EXCEPT !.got = Extract(call[c].data)]]
    /\ UNCHANGED <<site, removed, row, lock, expired, live, issued, visit, created, lost, stale>>

\* It has: begin a transaction and ask for the row lock.
Begin(c) ==
    /\ call[c].pc = "loaded" /\ ~NotExpired(call[c].data)
    /\ call' = [call EXCEPT ![c].pc = "waiting"]
    /\ UNCHANGED <<site, removed, row, lock, expired, live, issued, visit, created, lost, stale>>

\* Variant for mutation: lookup_by_id instead of lookup_by_id_for_update.
LookupUnlocked(c) ==
    /\ call[c].pc = "waiting" /\ row # 0
    /\ call' = [call EXCEPT ![c].pc = "locked", ![c].data = row]
    /\ UNCHANGED <<site, removed, row, lock, expired, live, issued, visit, created, lost, stale>>

\* lookup_by_id_for_update: wait for the row lock and read the row again; an
\* account that is gone ends the call with Error::Missing.
LookupForUpdate(c) ==
    /\ call[c].pc = "waiting" /\ lock = NoCaller
    /\ IF row = 0
       THEN call' = [call EXCEPT ![c] = Idle] /\ UNCHANGED lock
       ELSE call' = [call EXCEPT ![c].pc = "locked", ![c].data = row] /\ lock' = c
    /\ UNCHANGED <<site, removed, row, expired, live, issued, visit, created, lost, stale>>

\* Another caller refreshed it meanwhile; the transaction is dropped.
UseCurrent(c) ==
    /\ call[c].pc = "locked" /\ NotExpired(call[c].data)
    /\ call' = [call EXCEPT ![c] = [Idle EXCEPT !.got = Extract(call[c].data)]]
    /\ lock' = NoCaller
    /\ UNCHANGED <<site, removed, row, expired, live, issued, visit, created, lost, stale>>

\* exchange_refresh_token: the site accepts the token and answers with the next.
Exchange(c) ==
    /\ call[c].pc = "locked" /\ ~NotExpired(call[c].data)
    /\ call[c].data \in live /\ issued < MaxToken
    /\ issued' = issued + 1
    /\ live' = (live \ {call[c].data}) \cup {issued'}
    /\ call' = [call EXCEPT ![c].pc = "exchanged", ![c].new = issued']
    /\ UNCHANGED <<site, removed, row, lock, expired, visit, created, lost, stale>>

\* Variant for mutation: the error path leaves the transaction open.
ExchangeFailsOpen(c) ==
    /\ call[c].pc = "locked" /\ ~NotExpired(call[c].data)
    /\ call' = [call EXCEPT ![c] = Idle]
    /\ UNCHANGED <<site, removed, row, lock, expired, live, issued, visit, created, lost, stale>>

\* The request does not reach the site, or the site refuses the token.
ExchangeFails(c) ==
    /\ call[c].pc = "locked" /\ ~NotExpired(call[c].data)
    /\ call' = [call EXCEPT ![c] = Idle]
    /\ lock' = NoCaller
    /\ UNCHANGED <<site, removed, row, expired, live, issued, visit, created, lost, stale>>

\* Variant for mutation: the new access token is stored with the old refresh token.
SaveAccessOnly(c) ==
    /\ call[c].pc = "exchanged"
    /\ call' = [call EXCEPT ![c] = [Idle EXCEPT !.got = ExtractDeviantArt(call[c].new)]]
    /\ lock' = NoCaller
    /\ UNCHANGED <<site, removed, row, expired, live, issued, visit, created, lost, stale>>

\* update_fn and commit: the new pair is stored and the lock released.
Save(c) ==
    /\ call[c].pc = "exchanged"
    /\ row' = call[c].new
    /\ call' = [call EXCEPT ![c] = [Idle EXCEPT !.got = ExtractDeviantArt(call[c].new)]]
    /\ lock' = NoCaller
    /\ UNCHANGED <<site, removed, expired, live, issued, visit, created, lost, stale>>

\* The answer is lost or has no refresh token, the update or the commit fails,
\* or the worker dies: PostgreSQL rolls the transaction back.
Fail(c) ==
    /\ call[c].pc # "idle"
    /\ call' = [call EXCEPT ![c] = Idle]
    /\ lock' = IF lock = c THEN NoCaller ELSE lock
    /\ lost' = IF call[c].pc = "exchanged" THEN lost \cup {call[c].data} ELSE lost
    /\ UNCHANGED <<site, removed, row, expired, live, issued, visit, created, stale>>

-----------------------------------------------------------------------------
(* The OAuth callback, the removal of the account, and time.                 *)

\* exchange_code: the site issues a first pair for this authorization.
Authorize(v) ==
    /\ visit[v] = 0 /\ issued < MaxToken
    /\ issued' = issued + 1
    /\ live' = live \cup {issued'}
    /\ visit' = [visit EXCEPT ![v] = issued']
    /\ UNCHANGED <<site, removed, row, lock, expired, call, created, lost, stale>>

\* Done with the pair: the callback answers.
Answer(v) == visit' = [visit EXCEPT ![v] = 0] /\ created' = created \ {v}

\* No account of the user has this site_id: LinkedAccount::create.  Patreon's
\* callback goes on to ask for the webhooks, with the pair still in its hands.
CreateAccount(v) ==
    /\ visit[v] # 0 /\ v \notin created /\ row = 0 /\ ~removed
    /\ row' = visit[v]
    /\ IF site = "Patreon" THEN created' = created \cup {v} /\ UNCHANGED visit ELSE Answer(v)
    /\ UNCHANGED <<site, removed, lock, expired, live, issued, call, lost, stale>>

\* It has them, and saves them together with the pair it came with, whatever the
\* row has now; the row may be gone.
StoreAgain(v) ==
    /\ v \in created /\ lock = NoCaller
    /\ row' = IF row = 0 THEN 0 ELSE visit[v]
    /\ stale' = IF row = 0 \/ visit[v] \in live THEN stale ELSE stale \cup {visit[v]}
    /\ Answer(v)
    /\ UNCHANGED <<site, removed, lock, expired, live, issued, call, lost>>

\* Variant for mutation: the update does not wait for the row lock.
UpdateAccountUnlocked(v) ==
    /\ visit[v] # 0 /\ v \notin created /\ row # 0
    /\ site = "Patreon"
    /\ row' = visit[v]
    /\ Answer(v)
    /\ UNCHANGED <<site, removed, lock, expired, live, issued, call, lost, stale>>

\* The account is found: update_data waits for the row lock and overwrites.
\* DeviantArt saves no site_id, so its lookup never finds the account.
UpdateAccount(v) ==
    /\ visit[v] # 0 /\ v \notin created /\ row # 0 /\ lock = NoCaller
    /\ site = "Patreon"
    /\ row' = visit[v]
    /\ Answer(v)
    /\ UNCHANGED <<site, removed, lock, expired, live, issued, call, lost, stale>>

\* DeviantArt: create violates the unique index on the user, site and name.
\* Patreon: the stored webhook is current, so the new credential is not saved.
\* Either: the request dies.
Discard(v) ==
    /\ visit[v] # 0
    /\ Answer(v)
    /\ UNCHANGED <<site, removed, row, lock, expired, live, issued, call, lost, stale>>

\* LinkedAccount::remove: the DELETE waits for the row lock as well.
RemoveAccount ==
    /\ row # 0 /\ lock = NoCaller
    /\ row' = 0 /\ removed' = TRUE
    /\ UNCHANGED <<site, lock, expired, live, issued, call, visit, created, lost, stale>>

\* The clock passes expires_after of the pairs issued longest ago.
Expire ==
    /\ expired < issued
    /\ expired' \in (expired + 1)..issued
    /\ UNCHANGED <<site, removed, row, lock, live, issued, call, visit, created, lost, stale>>

Refreshing(c) ==
    \/ UseLoaded(c) \/ Begin(c) \/ LookupForUpdate(c) \/ UseCurrent(c)
    \/ Exchange(c) \/ ExchangeFails(c) \/ Save(c)

Callback(v) ==
    Authorize(v) \/ CreateAccount(v) \/ StoreAgain(v) \/ UpdateAccount(v) \/ Discard(v)

Next ==
    \/ \E c \in Caller : Load(c) \/ Refreshing(c) \/ Fail(c)
    \/ \E v \in Visit : Callback(v)
    \/ RemoveAccount
    \/ Expire

Spec == Init /\ [][Next]_vars

\* A running call keeps running, and PostgreSQL hands a row lock to its waiters
\* in order: a caller that waits again and again while others lock gets it.
Fairness == \A c \in Caller : WF_vars(Refreshing(c)) /\ SF_vars(LookupForUpdate(c))

FairSpec == Spec /\ Fairness

-----------------------------------------------------------------------------
Exchanging == {c \in Caller : call[c].pc = "exchanged"}
Stored == row # 0

\* The lock is held by the one caller inside the transaction, which sees the row
\* as it is: only then is the recheck before the exchange worth anything.
LockHeld ==
    \A c \in Caller :
        /\ call[c].pc \in {"locked", "exchanged"} <=> lock = c
        /\ lock = c => call[c].data = row /\ Stored

\* The pair a caller waits to save is one the site accepts, and it is the
\* successor of the stored one.
NewIsLive ==
    \A c \in Exchanging :
        /\ call[c].new \in live /\ call[c].new # row
        /\ row \notin live /\ row \notin lost

\* A pair a callback holds is no other's, and unless it is the one a new account
\* was created with it has been stored nowhere, so nobody spends it.
VisitsApart ==
    \A v \in Visit :
        /\ v \in created => visit[v] # 0
        /\ visit[v] # 0 =>
            /\ v \in created \/ (visit[v] \in live /\ visit[v] # row)
            /\ \A c \in Exchanging : call[c].new # visit[v]
            /\ \A w \in Visit : visit[w] = visit[v] => w = v

\* The refresh token of a linked account is one the site accepts, unless it is
\* being exchanged right now, a refresh failed after the exchange, or the callback
\* that created the account stored its pair again after that was spent: two jobs
\* that found the same expired credential never spend it twice.
StoredTokenLive ==
    Stored => row \in live \cup lost \cup stale \/ \E c \in Exchanging : lock = c

LostIsSpent == lost \cap live = {}

IInv ==
    TypeOK /\ LockHeld /\ NewIsLive /\ VisitsApart /\ StoredTokenLive /\ LostIsSpent

\* A DeviantArt job is given the access token, never the refresh token.
BearerIsAccess ==
    site = "DeviantArt" => \A c \in Caller : call[c].got.kind # "refresh"

\* A job that asks for the credential gets an answer: no caller waits for the
\* row lock for ever, whoever fails or dies while it holds it.
CallsEnd == \A c \in Caller : (call[c].pc = "waiting") ~> (call[c].pc # "waiting")

\* The stored credential behaves as GrantStore: what a refresh in flight has
\* done to the site shows once it is saved or lost.
InFlight == lock # NoCaller /\ call[lock].pc = "exchanged"
Grants ==
    INSTANCE GrantStore WITH
        stored <- row,
        live <- IF InFlight THEN (live \ {call[lock].new}) \cup {row} ELSE live,
        used <- IF InFlight THEN (1..issued) \ {call[lock].new} ELSE 1..issued,
        again <- {visit[v] : v \in created}
ImplementsGrantStore == Grants!Spec
=============================================================================
