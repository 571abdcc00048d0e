--------------------------- MODULE PatreonCampaign ---------------------------
(* One Patreon campaign, the accounts its creator linked and the webhooks    *)
(* Patreon keeps for it: the OAuth callback, webhook_post, the refresh of    *)
(* the credential (one step here: CredentialRefresh shows it behaves as one) *)
(* and the removal of an account.                                            *)
(*                                                                           *)
(* A webhook is the number Patreon gave it; its secret goes with the number. *)
EXTENDS Naturals, FiniteSets

CONSTANTS User,       \* users who may link the campaign
          Account,    \* ids of linked_account rows
          Visit,      \* OAuth callbacks, each with its own state and code
          None, Deleted,
          MaxHook     \* bound on the webhooks created

VARIABLES account,    \* the rows: owner, the campaign's webhook in data, credential
          hooks,      \* the account in the uri of each webhook Patreon has numbered
          visit,      \* a run of the callback per visit
          logged,     \* accounts with a recorded webhook event
          last,       \* the account of the last callback that finished
          dirty       \* a callback died half way, or overlapped another, since

vars == <<account, hooks, visit, logged, last, dirty>>

Hook == 1..MaxHook
NoRow == [owner |-> None, hook |-> 0, cred |-> "none"]
Row == [owner : User, hook : 0..MaxHook, cred : {"fresh", "expired"}]

Waiting == [pc |-> "idle", user |-> None, id |-> None, seen |-> 0, hook |-> 0, alone |-> FALSE]
Callback == [pc : {"idle", "authorized", "granted", "created", "linked", "listed", "hooked", "over"},
             user : User \cup {None}, id : Account \cup {None},
             seen : 0..MaxHook, hook : 0..MaxHook, alone : BOOLEAN]

TypeOK ==
    /\ account \in [Account -> Row \cup {NoRow}]
    /\ hooks \in [Hook -> Account \cup {None, Deleted}]
    /\ visit \in [Visit -> Callback]
    /\ logged \subseteq Account
    /\ last \in Account \cup {None}
    /\ dirty \in BOOLEAN

Init ==
    /\ account = [a \in Account |-> NoRow]
    /\ hooks = [h \in Hook |-> None]
    /\ visit = [v \in Visit |-> Waiting]
    /\ logged = {} /\ last = None /\ dirty = FALSE

Exists(a) == account[a].owner # None
Webhooks == {h \in Hook : hooks[h] \in Account}
Over == [Waiting EXCEPT !.pc = "over"]

\* From its read of the row to its end, a callback relies on what it read.
Relying == {v \in Visit : visit[v].pc \in {"created", "linked", "listed", "hooked"}}
\* A callback begins to: those that already do are no longer alone.
Enter(v, c) ==
    /\ visit' = [w \in Visit |->
                    CASE w = v -> [c EXCEPT !.alone = (Relying = {})]
                      [] w \in Relying -> [visit[w] EXCEPT !.alone = FALSE]
                      [] OTHER -> visit[w]]
    /\ dirty' = (dirty \/ Relying # {})

\* GET /patreon/auth: a state is stored, the user is sent to Patreon.
Auth(v, u) ==
    /\ visit[v].pc = "idle"
    /\ visit' = [visit EXCEPT ![v].pc = "authorized", ![v].user = u]
    /\ UNCHANGED <<account, hooks, logged, last, dirty>>

\* GET /patreon/callback: the state is known, the code is exchanged, the state
\* removed, and the identity names the campaign.
Grant(v) ==
    /\ visit[v].pc = "authorized"
    /\ visit' = [visit EXCEPT ![v].pc = "granted"]
    /\ UNCHANGED <<account, hooks, logged, last, dirty>>

\* lookup_by_site_id finds the user's account: its data is read here, once.
FindAccount(v) ==
    /\ visit[v].pc = "granted"
    /\ \E a \in Account :
        /\ account[a].owner = visit[v].user
        /\ Enter(v, [visit[v] EXCEPT !.pc = "linked", !.id = a, !.seen = account[a].hook])
    /\ UNCHANGED <<account, hooks, logged, last>>

\* It finds none: LinkedAccount::create, with no campaign in the data.
CreateAccount(v) ==
    /\ visit[v].pc = "granted"
    /\ \A a \in Account : account[a].owner # visit[v].user
    /\ \E a \in Account :
        /\ ~Exists(a) /\ a # last
        /\ (\A h \in Hook : hooks[h] # a) /\ (\A w \in Visit : visit[w].id # a)
        /\ account' = [account EXCEPT ![a] =
                        [owner |-> visit[v].user, hook |-> 0, cred |-> "fresh"]]
        /\ Enter(v, [visit[v] EXCEPT !.pc = "created", !.id = a])
    /\ UNCHANGED <<hooks, logged, last>>

\* AddAccountJob is queued for the account that was created.
EnqueueAddAccount(v) ==
    /\ visit[v].pc = "created"
    /\ visit' = [visit EXCEPT ![v].pc = "linked"]
    /\ UNCHANGED <<account, hooks, logged, last, dirty>>

\* GET /webhooks: more than one is an error, one is taken, none is noted.
ListWebhooks(v) ==
    /\ visit[v].pc = "linked"
    /\ IF Cardinality(Webhooks) > 1
       THEN visit' = [visit EXCEPT ![v] = Over]
       ELSE \E h \in IF Webhooks = {} THEN {0} ELSE Webhooks :
                visit' = [visit EXCEPT ![v].pc = "listed", ![v].hook = h]
    /\ UNCHANGED <<account, hooks, logged, last, dirty>>

\* Variant for mutation: the uri of the webhook that was found is not checked.
KeepWebhook(v) ==
    /\ visit[v].pc = "listed" /\ visit[v].hook # 0
    /\ visit' = [visit EXCEPT ![v].pc = "hooked"]
    /\ UNCHANGED <<account, hooks, logged, last, dirty>>

\* PATCH the one webhook when its uri names another account; the answer is
\* parsed and not looked at, so that a webhook deleted meanwhile goes unnoticed.
PatchWebhook(v) ==
    /\ visit[v].pc = "listed" /\ visit[v].hook # 0
    /\ hooks' = [h \in Hook |-> IF h = visit[v].hook /\ h \in Webhooks
                                THEN visit[v].id ELSE hooks[h]]
    /\ visit' = [visit EXCEPT ![v].pc = "hooked"]
    /\ UNCHANGED <<account, logged, last, dirty>>

\* create_webhook, when the list was empty.
CreateWebhook(v) ==
    /\ visit[v].pc = "listed" /\ visit[v].hook = 0
    /\ \E h \in Hook :
        /\ hooks[h] = None /\ \A i \in Hook : i < h => hooks[i] # None
        /\ hooks' = [hooks EXCEPT ![h] = visit[v].id]
        /\ visit' = [visit EXCEPT ![v].pc = "hooked", ![v].hook = h]
    /\ UNCHANGED <<account, logged, last, dirty>>

\* The row is written only when the campaign read from it differs; the new
\* credential goes with it.  The row may be gone: the UPDATE finds nothing.
SaveCampaign(v) ==
    /\ visit[v].pc = "hooked"
    /\ LET a == visit[v].id
       IN  /\ account' =
                IF visit[v].seen # visit[v].hook /\ Exists(a)
                THEN [account EXCEPT ![a].hook = visit[v].hook, ![a].cred = "fresh"]
                ELSE account
           /\ last' = a
    /\ visit' = [visit EXCEPT ![v] = Over]
    /\ dirty' = (dirty /\ ~visit[v].alone)
    /\ UNCHANGED <<hooks, logged>>

\* Patreon answers with an error or nothing, or the server stops.
Die(v) ==
    /\ visit[v].pc \notin {"idle", "over"}
    /\ visit' = [visit EXCEPT ![v] = Over]
    /\ dirty' = (dirty \/ visit[v].pc \in {"listed", "hooked"})
    /\ UNCHANGED <<account, hooks, logged, last>>

-----------------------------------------------------------------------------
\* refresh_credentials of the row's credential: the rest of the data is kept.
Refresh(a) ==
    /\ Exists(a) /\ account[a].cred = "expired"
    /\ account' = [account EXCEPT ![a].cred = "fresh"]
    /\ UNCHANGED <<hooks, visit, logged, last, dirty>>

\* The clock passes expires_after.
Expire(a) ==
    /\ Exists(a) /\ account[a].cred = "fresh"
    /\ account' = [account EXCEPT ![a].cred = "expired"]
    /\ UNCHANGED <<hooks, visit, logged, last, dirty>>

\* LinkedAccount::remove: nothing tells Patreon.
RemoveAccount(a) ==
    /\ Exists(a)
    /\ account' = [account EXCEPT ![a] = NoRow]
    /\ logged' = logged \ {a}
    /\ UNCHANGED <<hooks, visit, last, dirty>>

\* The creator deletes a webhook at Patreon.
DeleteWebhook(h) ==
    /\ h \in Webhooks
    /\ hooks' = [hooks EXCEPT ![h] = Deleted]
    /\ visit' = [v \in Visit |-> IF v \in Relying THEN [visit[v] EXCEPT !.alone = FALSE]
                                                 ELSE visit[v]]
    /\ dirty' = TRUE
    /\ UNCHANGED <<account, logged, last>>

\* POST /patreon/webhook?id=: the account exists, its data has a campaign, and
\* the signature was made with that campaign's secret.
Accepts(a, h) == Exists(a) /\ account[a].hook = h
WebhookPost(h) ==
    /\ h \in Webhooks /\ Accepts(hooks[h], h)
    /\ logged' = logged \cup {hooks[h]}
    /\ UNCHANGED <<account, hooks, visit, last, dirty>>

Visiting(v) ==
    \/ \E u \in User : Auth(v, u)
    \/ Grant(v) \/ FindAccount(v) \/ CreateAccount(v) \/ EnqueueAddAccount(v)
    \/ ListWebhooks(v) \/ PatchWebhook(v) \/ CreateWebhook(v) \/ SaveCampaign(v) \/ Die(v)

Next ==
    \/ \E v \in Visit : Visiting(v)
    \/ \E a \in Account : Refresh(a) \/ Expire(a) \/ RemoveAccount(a)
    \/ \E h \in Hook : DeleteWebhook(h) \/ WebhookPost(h)

Spec == Init /\ [][Next]_vars

-----------------------------------------------------------------------------
\* The events of the campaign reach the account linked last and are accepted
\* there: there is one webhook, its uri names that account, and the row holds
\* its secret.  Unless, since that link, a callback died between reading the
\* webhooks and saving, two relied on what they read at once, or a webhook was
\* deleted.
LastLinkReceives ==
    Relying = {} /\ ~dirty /\ last # None /\ Exists(last)
        => \E h \in Webhooks : hooks[h] = last /\ Accepts(last, h)

\* The campaign never has two webhooks.
OneWebhook == Cardinality(Webhooks) <= 1

\* Two webhooks come only from callbacks that overlapped.
OneWebhookAlone == ~dirty /\ (\A v \in Relying : visit[v].alone) => OneWebhook

-----------------------------------------------------------------------------
(* What makes them inductive.                                                *)

\* A callback at work has an account, and has read nothing before it looks it up.
HaveAccount ==
    \A v \in Visit :
        /\ visit[v].pc \in {"authorized", "granted"} => visit[v].user # None
        /\ v \in Relying => visit[v].id \in Account
        /\ visit[v].pc \in {"idle", "authorized", "granted"} => visit[v].seen = 0
        /\ visit[v].pc = "hooked" => visit[v].hook # 0

\* One that is alone is the only one, what it read is what the row holds, and
\* the webhook it found or made is the only one.
AloneKnows ==
    \A v \in Relying : visit[v].alone =>
        /\ Relying = {v}
        /\ Exists(visit[v].id) => account[visit[v].id].hook = visit[v].seen
        /\ visit[v].pc \in {"listed", "hooked"} => Webhooks = {visit[v].hook} \ {0}
        /\ visit[v].pc = "hooked" => hooks[visit[v].hook] = visit[v].id

\* While nothing happened to the webhooks every callback is alone, and until one
\* lists them the account linked last still receives the events.
CleanAlone ==
    ~dirty =>
        /\ \A v \in Relying : visit[v].alone
        /\ (\A v \in Relying : visit[v].pc \in {"created", "linked"}) /\ last # None /\ Exists(last)
               => \E h \in Webhooks : hooks[h] = last /\ Accepts(last, h)

IInv == TypeOK /\ HaveAccount /\ AloneKnows /\ CleanAlone /\ LastLinkReceives /\ OneWebhookAlone
=============================================================================
