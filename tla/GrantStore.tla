----------------------------- MODULE GrantStore -----------------------------
(* What the stored OAuth credential of one account promises, whatever the    *)
(* interleaving of the jobs that refresh it and the visits that link the     *)
(* account again.  A refresh token works once: the site answers it with the  *)
(* next one.  The stored token and the site move together in one step.  Only *)
(* a refresh that dies half way (Lose), and the visit that created the       *)
(* account, which may store its token a second time (StoreAgain), can leave  *)
(* a dead token behind.                                                      *)
EXTENDS Naturals

VARIABLES stored,    \* the refresh token in the account's row, 0 for no row
          live,      \* the refresh tokens the site would still accept
          used,      \* the refresh tokens the site has handed out
          again      \* tokens an account was created with, to be stored once more

vars == <<stored, live, used, again>>

Init == stored = 0 /\ live = {} /\ used = {} /\ again = {}

\* The site hands out a token it never handed out before.
Issue(t) == t \notin used /\ used' = used \cup {t}

\* The owner allows access: the token is live, and stored nowhere yet.
Authorize == \E t \in used' : Issue(t) /\ live' = live \cup {t} /\ UNCHANGED <<stored, again>>

\* A token the site accepts becomes the stored one.
Store == stored' \in live /\ UNCHANGED <<live, used, again>>

\* The first token of a new account is one the site accepts.
Create ==
    /\ stored = 0
    /\ stored' \in live
    /\ again' = again \cup {stored'}
    /\ UNCHANGED <<live, used>>

\* It is stored once more, if the account is there, whatever became of it.
StoreAgain ==
    \E t \in again :
        /\ again' = again \ {t}
        /\ stored' \in {stored, IF stored = 0 THEN 0 ELSE t}
        /\ UNCHANGED <<live, used>>

Exchanged(t) == Issue(t) /\ stored \in live /\ live' = (live \ {stored}) \cup {t}

\* The stored token is exchanged and its successor stored.
Refresh == \E t \in used' : Exchanged(t) /\ stored' = t /\ UNCHANGED again

\* The stored token is exchanged and its successor lost.
Lose == \E t \in used' : Exchanged(t) /\ UNCHANGED <<stored, again>>

Remove == stored' = 0 /\ UNCHANGED <<live, used, again>>

Next == Authorize \/ Store \/ Create \/ StoreAgain \/ Refresh \/ Lose \/ Remove

Spec == Init /\ [][Next]_vars
=============================================================================
