------------------------------ MODULE UsersProofs ------------------------------
(* Proofs about the address and the sessions of a user, for any addresses,      *)
(* handlers, tokens and faults, and any browsers, sessions and events.          *)
EXTENDS Users, TLAPS

(******************************************************************************)
(* UserEmail.                                                                 *)
(******************************************************************************)

LEMMA WorkType ==
    ASSUME NEW pc \in {"idle", "free", "set", "known", "tokened", "verify", "reset", "setting"},
           NEW to \in Address \cup {None}, NEW token \in 0..(MaxToken + 1)
    PROVE  [pc |-> pc, to |-> to, token |-> token] \in Work
  BY DEF Work

LEMMA IdleWork == ASSUME MaxToken \in Nat PROVE Idle \in Work /\ Idle.pc = "idle"
  BY WorkType DEF Idle

\* What a handler's step does to work.
LEMMA OneWork ==
    ASSUME work \in [Handler -> Work], NEW h \in Handler, NEW r \in Work,
           work' = [work EXCEPT ![h] = r]
    PROVE  /\ work' \in [Handler -> Work] /\ work'[h] = r
           /\ \A g \in Handler : g # h => work'[g] = work[g]
  OBVIOUS

LEMMA InitInv == ASSUME MaxToken \in Nat, Init PROVE IInv
  <1>1. /\ work \in [Handler -> Work] /\ \A h \in Handler : work[h].pc = "idle"
    BY IdleWork DEF Init
  <1>2. TypeOK
    <2>1. /\ email = None /\ verifier = 1 /\ reset = 0 /\ taken = {} /\ verifiers = 1
          /\ resets = 0 /\ inbox = {} /\ spent = 0 /\ lost = {} /\ crossed = FALSE /\ faults = 0
      BY DEF Init
    <2>2. jobs \in [Kind -> Nat] /\ used \in [Token -> 0..2]
      BY DEF Init
    <2>3. /\ email \in Address \cup {None} /\ email \notin taken
          /\ verifier \in 0..verifiers /\ reset \in 0..resets /\ spent \in 0..verifiers
          /\ verifiers \in 1..(MaxToken + 1) /\ resets \in 0..MaxToken
      BY <2>1
    <2>4. inbox \subseteq Mail /\ taken \subseteq Address
          /\ lost \subseteq Kind \X (0..(MaxToken + 1))
      BY <2>1
    <2>5. QED
      BY <1>1, <2>1, <2>2, <2>3, <2>4 DEF TypeOK
  <1>3. MailInv
    BY <1>1 DEF Init, MailInv, Kind
  <1>4. VerifierInv /\ AddressIsProven /\ TokenIsMailed
    BY <1>1 DEF Init, VerifierInv, AddressIsProven, TokenIsMailed
  <1>5. ResetInv /\ ResetWorksOnce
    BY DEF Init, ResetInv, ResetWorksOnce
  <1>6. QED
    BY <1>2, <1>3, <1>4, <1>5 DEF IInv

-----------------------------------------------------------------------------
\* A handler other than the ones a mail or a token waits for.
Quiet == {"idle", "free", "known", "setting"}

\* A step of h from one such place to another that changes nothing else.
LEMMA QuietInv ==
    ASSUME IInv, NEW h \in Handler, NEW r \in Work, work' = [work EXCEPT ![h] = r],
           work[h].pc \in Quiet, r.pc \in Quiet,
           r.pc = "free" => r.to \in Address, r.pc = "known" => email # None,
           r.pc = "setting" => r.token \in 1..resets,
           UNCHANGED <<row, taken, made, jobs, inbox, history, faults>>
    PROVE  IInv'
  <1>1. work' \in [Handler -> Work] /\ work'[h] = r /\ \A g \in Handler : g # h => work'[g] = work[g]
    BY OneWork DEF IInv, TypeOK
  <1>2. TypeOK'
    BY <1>1 DEF IInv, TypeOK, row, made, history
  <1>3. MailInv'
    BY <1>1 DEF IInv, MailInv, row, made, history, Quiet, Kind
  <1>4. VerifierInv'
    BY <1>1 DEF IInv, VerifierInv, row, made, history, Quiet
  <1>5. AddressIsProven' /\ ResetInv' /\ ResetWorksOnce'
    BY DEF IInv, AddressIsProven, ResetInv, ResetWorksOnce, row, made, history
  <1>6. TokenIsMailed'
    <2>1. \A k \in Kind, t \in Nat : Comes(k, t) => Comes(k, t)'
      BY <1>1 DEF Comes, Kind, Quiet, row, made, history
    <2>2. QED
      BY <2>1 DEF IInv, TypeOK, TokenIsMailed, row, made, history, Kind
  <1>7. QED
    BY <1>2, <1>3, <1>4, <1>5, <1>6 DEF IInv

LEMMA AskInv ==
    ASSUME MaxToken \in Nat, IInv, NEW h \in Handler, NEW a \in Address, AskEmail(h, a)
    PROVE  IInv'
  <1> DEFINE r == [pc |-> "free", to |-> a, token |-> 0]
  <1>1. r \in Work /\ r.pc = "free" /\ r.to = a
    BY WorkType
  <1>2. /\ work' = [work EXCEPT ![h] = r] /\ work[h].pc = "idle"
        /\ UNCHANGED <<row, taken, made, jobs, inbox, history, faults>>
    BY DEF AskEmail, Go
  <1> HIDE DEF r
  <1>3. QED
    BY <1>1, <1>2, QuietInv DEF Quiet

LEMMA ForgotInv ==
    ASSUME MaxToken \in Nat, IInv, NEW h \in Handler, Forgot(h)
    PROVE  IInv'
  <1> DEFINE r == [pc |-> "known", to |-> None, token |-> 0]
  <1>1. r \in Work /\ r.pc = "known"
    BY WorkType
  <1>2. /\ work' = [work EXCEPT ![h] = r] /\ work[h].pc = "idle" /\ email # None
        /\ UNCHANGED <<row, taken, made, jobs, inbox, history, faults>>
    BY DEF Forgot, Go
  <1> HIDE DEF r
  <1>3. QED
    BY <1>1, <1>2, QuietInv DEF Quiet

LEMMA OpenInv ==
    ASSUME MaxToken \in Nat, IInv, NEW h \in Handler, NEW m \in inbox, OpenReset(h, m)
    PROVE  IInv'
  <1> DEFINE r == [pc |-> "setting", to |-> None, token |-> m.token]
  <1>1. m.token \in 1..(MaxToken + 1) /\ m.token \in 1..resets
    BY DEF OpenReset, IInv, TypeOK, MailInv, Mail, Kind
  <1>2. r \in Work /\ r.pc = "setting" /\ r.token = m.token
    BY <1>1, WorkType
  <1>3. /\ work' = [work EXCEPT ![h] = r] /\ work[h].pc = "idle"
        /\ UNCHANGED <<row, taken, made, jobs, inbox, history, faults>>
    BY DEF OpenReset, Go
  <1> HIDE DEF r
  <1>4. QED
    BY <1>1, <1>2, <1>3, QuietInv DEF Quiet

-----------------------------------------------------------------------------
(* The address.                                                              *)

\* A handler that leaves its place for idle, writing no row: only what the mail
\* of a token is behind needs a look.
LEMMA RestInv ==
    ASSUME MaxToken \in Nat, IInv, NEW h \in Handler, Rest(h), TypeOK',
           UNCHANGED <<row, taken, made>>,
           \A k \in Kind : jobs'[k] > 0 => email # None,
           \A m \in inbox' : /\ m.token <= IF m.kind = "verify" THEN verifiers ELSE resets
                             /\ m.kind = "verify" /\ m.token = verifier => m.to = email,
           inbox \subseteq inbox', spent' = spent
    PROVE  MailInv' /\ VerifierInv' /\ AddressIsProven'
  <1>1. /\ work' = [work EXCEPT ![h] = Idle] /\ work \in [Handler -> Work]
        /\ Idle \in Work /\ Idle.pc = "idle"
    BY IdleWork DEF Rest, IInv, TypeOK
  <1>2. work'[h].pc = "idle" /\ \A g \in Handler : g # h => work'[g] = work[g]
    BY <1>1, OneWork
  <1>3. MailInv'
    BY <1>2 DEF IInv, MailInv, row, made, Kind
  <1>4. VerifierInv' /\ AddressIsProven'
    BY <1>2 DEF IInv, VerifierInv, AddressIsProven, row, made
  <1>5. QED
    BY <1>3, <1>4

LEMMA SetEmailInv ==
    ASSUME MaxToken \in Nat, None \notin Address, IInv, NEW h \in Handler, SetEmail(h)
    PROVE  IInv'
  <1>0. work[h] \in Work /\ work[h].pc = "free" /\ verifiers <= MaxToken
    BY DEF SetEmail, IInv, TypeOK
  <1>1. CASE work[h].to \in taken
    <2>1. /\ work' = [work EXCEPT ![h] = Idle]
          /\ UNCHANGED <<row, taken, made, jobs, inbox, history, faults>>
      BY <1>1 DEF SetEmail, Rest, row, made, history
    <2>2. QED
      BY <1>0, <2>1, IdleWork, QuietInv DEF Quiet
  <1>2. CASE work[h].to \notin taken
    <2> DEFINE r == [pc |-> "set", to |-> None, token |-> verifiers + 1]
    <2>1. /\ email' = work[h].to /\ verifiers' = verifiers + 1 /\ verifier' = verifiers'
          /\ work' = [work EXCEPT ![h] = r]
          /\ UNCHANGED <<reset, taken, resets, jobs, inbox, spent, used, crossed, lost, faults>>
      BY <1>2 DEF SetEmail, Go
    <2>2. r \in Work /\ r.pc = "set" /\ r.token = verifiers + 1
      <3>1. verifiers + 1 \in 0..(MaxToken + 1)
        BY <1>0 DEF IInv, TypeOK
      <3>2. QED
        BY <3>1, WorkType
    <2> HIDE DEF r
    <2>3. work' \in [Handler -> Work] /\ work'[h] = r /\ \A g \in Handler : g # h => work'[g] = work[g]
      BY <2>1, <2>2, OneWork DEF IInv, TypeOK
    <2>4. email' \in Address /\ email' # None
      BY <1>0, <2>1 DEF IInv, MailInv
    <2>5. TypeOK'
      BY <1>0, <1>2, <2>1, <2>3, <2>4 DEF IInv, TypeOK
    <2>6. MailInv'
      BY <1>0, <2>1, <2>2, <2>3, <2>4 DEF IInv, TypeOK, MailInv, Kind, Mail
    <2>7. VerifierInv'
      BY <1>0, <2>1, <2>2, <2>3 DEF IInv, TypeOK, MailInv, VerifierInv, Mail
    <2>8. AddressIsProven'
      BY <2>1 DEF AddressIsProven, IInv, TypeOK
    <2>9. ResetInv' /\ ResetWorksOnce'
      BY <2>1 DEF IInv, ResetInv, ResetWorksOnce
    <2>10. TokenIsMailed'
      <3>1. Comes("verify", verifier)'
        BY <2>1, <2>2, <2>3 DEF Comes
      <3>2. Comes("reset", reset) => Comes("reset", reset)'
        BY <1>0, <2>1, <2>3 DEF Comes
      <3>3. QED
        BY <2>1, <3>1, <3>2 DEF IInv, TokenIsMailed
    <2>11. QED
      BY <2>5, <2>6, <2>7, <2>8, <2>9, <2>10 DEF IInv
  <1>3. QED
    BY <1>1, <1>2

LEMMA EnqueueInv ==
    ASSUME MaxToken \in Nat, IInv, NEW h \in Handler, NEW k \in Kind,
           work[h].pc = (IF k = "verify" THEN "set" ELSE "tokened"),
           Enqueue(k), Rest(h), UNCHANGED <<row, taken, made, inbox, history, faults>>
    PROVE  IInv'
  <1>1. /\ work' = [work EXCEPT ![h] = Idle] /\ work \in [Handler -> Work]
        /\ Idle \in Work /\ Idle.pc = "idle"
    BY IdleWork DEF Rest, IInv, TypeOK
  <1>2. work' \in [Handler -> Work] /\ work'[h].pc = "idle" /\ \A g \in Handler : g # h => work'[g] = work[g]
    BY <1>1, OneWork
  <1>3. jobs' \in [Kind -> Nat] /\ jobs'[k] > 0 /\ \A l \in Kind : l # k => jobs'[l] = jobs[l]
    BY DEF Enqueue, IInv, TypeOK
  <1>4. TypeOK'
    BY <1>2, <1>3 DEF IInv, TypeOK, row, made, history
  <1>5. email # None
    BY DEF IInv, MailInv, Kind
  <1>6. MailInv' /\ VerifierInv' /\ AddressIsProven'
    BY <1>4, <1>5, RestInv DEF IInv, MailInv, VerifierInv, history
  <1>7. ResetInv' /\ ResetWorksOnce'
    BY DEF IInv, ResetInv, ResetWorksOnce, row, made, history
  <1>8. TokenIsMailed'
    <2>1. \A t \in Nat : Comes(k, t)'
      BY <1>3 DEF Comes
    <2>2. \A l \in Kind, t \in Nat : l # k /\ Comes(l, t) => Comes(l, t)'
      BY <1>2, <1>3 DEF Comes, Kind, history
    <2>3. QED
      BY <2>1, <2>2 DEF IInv, TypeOK, TokenIsMailed, row, made, history, Kind
  <1>9. QED
    BY <1>4, <1>6, <1>7, <1>8 DEF IInv

LEMMA TakeInv ==
    ASSUME IInv, NEW a \in Address, TakeElsewhere(a)
    PROVE  IInv'
  <1>1. UNCHANGED <<email, verifier, reset, verifiers, resets, jobs, work, inbox, spent, used,
                    crossed, lost, faults>>
    BY DEF TakeElsewhere, row, made, history
  <1>2. TypeOK'
    BY <1>1 DEF IInv, TypeOK, TakeElsewhere
  <1>3. MailInv' /\ VerifierInv' /\ ResetInv'
    BY <1>1 DEF IInv, MailInv, VerifierInv, ResetInv
  <1>4. AddressIsProven' /\ TokenIsMailed' /\ ResetWorksOnce'
    BY <1>1 DEF IInv, AddressIsProven, TokenIsMailed, ResetWorksOnce, Comes
  <1>5. QED
    BY <1>2, <1>3, <1>4 DEF IInv

\* A click on a mail that has the verifier of the row: the mail went to its address.
LEMMA VerifyInv ==
    ASSUME MaxToken \in Nat, IInv, NEW m \in inbox, Verify(m)
    PROVE  IInv'
  <1>1. /\ m.kind = "verify" /\ m.token = verifier /\ verifier' = 0 /\ spent' = verifier
        /\ UNCHANGED <<email, reset, taken, verifiers, resets, jobs, work, inbox, used,
                       crossed, lost, faults>>
    BY DEF Verify, made
  <1>2. m \in Mail /\ m.to = email
    BY <1>1 DEF IInv, TypeOK, VerifierInv
  <1>3. TypeOK'
    BY <1>1 DEF IInv, TypeOK
  <1>4. MailInv'
    BY <1>1 DEF IInv, MailInv
  <1>5. VerifierInv'
    <2>1. \A n \in inbox : n.token # 0
      BY DEF IInv, TypeOK, Mail
    <2>2. \A h \in Handler : work[h].pc = "verify" => work[h].token # 0
      BY DEF IInv, MailInv
    <2>3. QED
      BY <1>1, <2>1, <2>2 DEF VerifierInv
  <1>6. AddressIsProven'
    <2>1. m = [kind |-> "verify", to |-> email, token |-> verifier]
      BY <1>1, <1>2 DEF Mail
    <2>2. QED
      BY <1>1, <2>1 DEF AddressIsProven
  <1>7. ResetInv' /\ ResetWorksOnce'
    BY <1>1 DEF IInv, ResetInv, ResetWorksOnce
  <1>8. TokenIsMailed'
    BY <1>1 DEF IInv, TokenIsMailed, Comes
  <1>9. QED
    BY <1>3, <1>4, <1>5, <1>6, <1>7, <1>8 DEF IInv

-----------------------------------------------------------------------------
(* The password.                                                             *)

LEMMA SetResetInv ==
    ASSUME MaxToken \in Nat, IInv, NEW h \in Handler, SetResetToken(h)
    PROVE  IInv'
  <1> DEFINE r == [pc |-> "tokened", to |-> None, token |-> resets + 1]
  <1>1. /\ work[h].pc = "known" /\ resets < MaxToken /\ resets' = resets + 1 /\ reset' = resets'
        /\ work' = [work EXCEPT ![h] = r]
        /\ UNCHANGED <<email, verifier, taken, verifiers, jobs, inbox, spent, used, crossed, lost, faults>>
    BY DEF SetResetToken, Go, history
  <1>2. r \in Work /\ r.pc = "tokened" /\ r.token = resets + 1
    <2>1. resets + 1 \in 0..(MaxToken + 1)
      BY <1>1 DEF IInv, TypeOK
    <2>2. QED
      BY <2>1, WorkType
  <1> HIDE DEF r
  <1>3. work' \in [Handler -> Work] /\ work'[h] = r /\ \A g \in Handler : g # h => work'[g] = work[g]
    BY <1>1, <1>2, OneWork DEF IInv, TypeOK
  <1>4. TypeOK'
    BY <1>1, <1>3 DEF IInv, TypeOK
  <1>5. MailInv'
    BY <1>1, <1>2, <1>3 DEF IInv, TypeOK, MailInv, Kind, Mail
  <1>6. VerifierInv' /\ AddressIsProven'
    BY <1>1, <1>2, <1>3 DEF IInv, VerifierInv, AddressIsProven
  <1>7. ResetInv' /\ ResetWorksOnce'
    BY <1>1 DEF IInv, TypeOK, ResetInv, ResetWorksOnce, Token
  <1>8. TokenIsMailed'
    <2>1. Comes("reset", reset)'
      BY <1>1, <1>2, <1>3 DEF Comes
    <2>2. Comes("verify", verifier) => Comes("verify", verifier)'
      BY <1>1, <1>3 DEF Comes
    <2>3. QED
      BY <1>1, <2>1, <2>2 DEF IInv, TokenIsMailed
  <1>9. QED
    BY <1>4, <1>5, <1>6, <1>7, <1>8 DEF IInv

\* A token is used a second time only by a request that crossed another.
LEMMA UpdateInv ==
    ASSUME MaxToken \in Nat, IInv, NEW h \in Handler, UpdatePassword(h)
    PROVE  IInv'
  <1> DEFINE t == work[h].token
  <1>1. /\ work[h].pc = "setting" /\ used[t] < 2 /\ reset' = 0
        /\ crossed' = (crossed \/ reset # t) /\ used' = [used EXCEPT ![t] = @ + 1]
        /\ Rest(h)
        /\ UNCHANGED <<email, verifier, taken, verifiers, resets, jobs, inbox, spent, lost, faults>>
    BY DEF UpdatePassword, made
  <1>2. t \in 1..resets /\ t \in Token /\ resets \in Nat
    BY <1>1 DEF IInv, TypeOK, MailInv, Token
  <1>3. /\ used' \in [Token -> 0..2] /\ used'[t] = used[t] + 1
        /\ \A u \in Token : u # t => used'[u] = used[u]
    BY <1>1, <1>2 DEF IInv, TypeOK
  <1>4. /\ work' = [work EXCEPT ![h] = Idle] /\ work \in [Handler -> Work]
        /\ Idle \in Work /\ Idle.pc = "idle"
    BY <1>1, IdleWork DEF Rest, IInv, TypeOK
  <1>5. work' \in [Handler -> Work] /\ work'[h].pc = "idle" /\ \A g \in Handler : g # h => work'[g] = work[g]
    BY <1>4, OneWork
  <1>6. TypeOK'
    BY <1>1, <1>3, <1>5 DEF IInv, TypeOK
  <1>7. MailInv' /\ VerifierInv' /\ AddressIsProven'
    <2>1. MailInv'
      BY <1>1, <1>5 DEF IInv, MailInv, Kind
    <2>2. VerifierInv'
      BY <1>1, <1>5 DEF IInv, VerifierInv
    <2>3. AddressIsProven'
      BY <1>1 DEF IInv, AddressIsProven
    <2>4. QED
      BY <2>1, <2>2, <2>3
  <1>8. ResetInv'
    <2>1. \A u \in Token : u > resets => used'[u] = 0
      <3> TAKE u \in Token
      <3>1. u > resets => u # t
        BY <1>2 DEF Token
      <3>2. QED
        BY <1>3, <3>1 DEF IInv, ResetInv
    <2>2. QED
      BY <1>1, <2>1 DEF ResetInv
  <1>9. ResetWorksOnce'
    <2> SUFFICES ASSUME ~crossed'
                 PROVE  (\A u \in Token : used'[u] <= 1) /\ (resets > 0 => used'[resets] = 1)
      BY <1>1 DEF ResetWorksOnce
    <2>1. reset = t /\ ~crossed /\ t = resets /\ used[t] = 0
      <3>1. crossed \in BOOLEAN /\ reset \in {0, resets} /\ (~crossed /\ reset # 0 => used[reset] = 0)
        BY DEF IInv, TypeOK, ResetInv
      <3>2. ~crossed
        BY <1>1, <3>1
      <3>3. reset = t
        BY <1>1, <3>1
      <3>4. QED
        BY <1>2, <3>1, <3>2, <3>3
    <2>2. used'[t] = 1
      BY <1>3, <2>1
    <2>3. \A u \in Token : used[u] <= 1
      BY <2>1 DEF IInv, ResetWorksOnce
    <2>4. \A u \in Token : used'[u] <= 1
      BY <1>3, <2>2, <2>3
    <2>5. QED
      BY <2>1, <2>2, <2>4
  <1>10. TokenIsMailed'
    <2>1. Comes("verify", verifier) => Comes("verify", verifier)'
      BY <1>1, <1>5 DEF Comes
    <2>2. QED
      BY <1>1, <2>1 DEF IInv, TokenIsMailed
  <1>11. QED
    BY <1>6, <1>7, <1>8, <1>9, <1>10 DEF IInv

-----------------------------------------------------------------------------
(* The mails.                                                                *)

LEMMA ReadInv ==
    ASSUME MaxToken \in Nat, IInv, NEW h \in Handler, NEW k \in Kind, ReadUser(h, k)
    PROVE  IInv'
  <1>1. /\ work[h].pc = "idle" /\ jobs[k] > 0 /\ jobs' = [jobs EXCEPT ![k] = @ - 1]
        /\ UNCHANGED <<email, verifier, reset, taken, verifiers, resets, inbox, spent, used,
                       crossed, lost, faults>>
    BY DEF ReadUser, row, made, history
  <1>2. /\ jobs' \in [Kind -> Nat]
        /\ \A l \in Kind : (jobs'[l] > 0 => jobs[l] > 0) /\ (l # k => jobs'[l] = jobs[l])
    BY <1>1 DEF IInv, TypeOK
  <1>3. email \in Address /\ email # None
    BY <1>1 DEF IInv, TypeOK, MailInv
  <1>4. TokenFor(k) \in 0..(MaxToken + 1)
    BY DEF TokenFor, IInv, TypeOK
  <1>5. AddressIsProven' /\ ResetInv' /\ ResetWorksOnce'
    BY <1>1 DEF IInv, AddressIsProven, ResetInv, ResetWorksOnce
  <1>6. CASE TokenFor(k) = 0
    <2>1. work' = work
      BY <1>6 DEF ReadUser
    <2>2. TypeOK' /\ MailInv' /\ VerifierInv'
      BY <1>1, <1>2, <2>1 DEF IInv, TypeOK, MailInv, VerifierInv
    <2>3. TokenIsMailed'
      <3>1. \A l \in Kind, t \in Nat : l # k /\ Comes(l, t) => Comes(l, t)'
        BY <1>1, <1>2, <2>1 DEF Comes
      <3>2. QED
        BY <1>1, <1>6, <3>1 DEF IInv, TypeOK, TokenIsMailed, TokenFor, Kind
    <2>4. QED
      BY <1>5, <2>2, <2>3 DEF IInv
  <1>7. CASE TokenFor(k) # 0
    <2> DEFINE r == [pc |-> k, to |-> email, token |-> TokenFor(k)]
    <2>1. r \in Work /\ r.pc = k /\ r.to = email /\ r.token = TokenFor(k)
      BY <1>3, <1>4, WorkType DEF Kind
    <2>2. work' = [work EXCEPT ![h] = r]
      BY <1>7 DEF ReadUser, Go
    <2> HIDE DEF r
    <2>3. work' \in [Handler -> Work] /\ work'[h] = r /\ \A g \in Handler : g # h => work'[g] = work[g]
      BY <2>1, <2>2, OneWork DEF IInv, TypeOK
    <2>4. TypeOK'
      BY <1>1, <1>2, <2>3 DEF IInv, TypeOK
    <2>5. MailInv'
      <3>1. k = "verify" => r.token \in 1..verifiers
        BY <1>7, <2>1 DEF TokenFor, IInv, TypeOK
      <3>2. k = "reset" => r.token \in 1..resets
        BY <1>7, <2>1 DEF TokenFor, IInv, TypeOK
      <3>3. QED
        BY <1>1, <1>2, <1>3, <2>1, <2>3, <3>1, <3>2 DEF IInv, MailInv, Kind
    <2>6. VerifierInv'
      BY <1>1, <2>1, <2>3 DEF IInv, VerifierInv
    <2>7. TokenIsMailed'
      <3>1. \A l \in Kind, t \in Nat : l # k /\ Comes(l, t) => Comes(l, t)'
        BY <1>1, <1>2, <2>3 DEF Comes, Kind
      <3>2. Comes(k, TokenFor(k))'
        BY <1>1, <2>1, <2>3 DEF Comes, TokenFor
      <3>3. QED
        BY <1>1, <3>1, <3>2 DEF IInv, TypeOK, TokenIsMailed, TokenFor, Kind
    <2>8. QED
      BY <1>5, <2>4, <2>5, <2>6, <2>7 DEF IInv
  <1>8. QED
    BY <1>6, <1>7

LEMMA SendInv ==
    ASSUME MaxToken \in Nat, IInv, NEW h \in Handler, SendMail(h)
    PROVE  IInv'
  <1> DEFINE m == [kind |-> work[h].pc, to |-> work[h].to, token |-> work[h].token]
  <1>1. /\ work[h].pc \in Kind /\ inbox' = inbox \cup {m} /\ Rest(h) /\ faults' \in Nat
        /\ UNCHANGED <<row, taken, made, spent, used, crossed, lost>>
    BY DEF SendMail, history, IInv, TypeOK
  <1>0. jobs' \in [Kind -> Nat] /\ \A k \in Kind : jobs[k] > 0 => jobs'[k] > 0
    <2>1. CASE jobs' = jobs
      BY <2>1 DEF IInv, TypeOK
    <2>2. CASE Enqueue(work[h].pc)
      BY <1>1, <2>2 DEF Enqueue, IInv, TypeOK
    <2>3. QED
      BY <2>1, <2>2 DEF SendMail
  <1>2. /\ m \in Mail /\ m.kind = work[h].pc /\ m.to = work[h].to /\ m.token = work[h].token
        /\ m.token <= IF m.kind = "verify" THEN verifiers ELSE resets
    BY <1>1 DEF IInv, TypeOK, MailInv, Mail, Kind
  <1> HIDE DEF m
  <1>3. /\ work' = [work EXCEPT ![h] = Idle] /\ work \in [Handler -> Work]
        /\ Idle \in Work /\ Idle.pc = "idle"
    BY <1>1, IdleWork DEF Rest, IInv, TypeOK
  <1>4. work' \in [Handler -> Work] /\ work'[h].pc = "idle" /\ \A g \in Handler : g # h => work'[g] = work[g]
    BY <1>3, OneWork
  <1>5. TypeOK'
    BY <1>0, <1>1, <1>2, <1>4 DEF IInv, TypeOK, row, made
  <1>6. MailInv' /\ VerifierInv' /\ AddressIsProven'
    <2>1. \A n \in inbox' : /\ n.token <= IF n.kind = "verify" THEN verifiers ELSE resets
                            /\ n.kind = "verify" /\ n.token = verifier => n.to = email
      BY <1>1, <1>2 DEF IInv, MailInv, VerifierInv
    <2>2. email # None
      BY <1>1 DEF IInv, MailInv
    <2>3. QED
      BY <1>1, <1>5, <2>1, <2>2, RestInv
  <1>7. ResetInv' /\ ResetWorksOnce'
    BY <1>1 DEF IInv, ResetInv, ResetWorksOnce, row, made
  <1>8. TokenIsMailed'
    <2>1. \A k \in Kind, t \in Nat : Comes(k, t) => Comes(k, t)'
      BY <1>0, <1>1, <1>2, <1>4 DEF Comes, Kind
    <2>2. QED
      BY <1>1, <2>1 DEF IInv, TypeOK, TokenIsMailed, row, made, Kind
  <1>9. QED
    BY <1>5, <1>6, <1>7, <1>8 DEF IInv

\* A job or a request that fails leaves its mail to a delivery to come, or gives
\* it up.
LEMMA FailsInv ==
    ASSUME MaxToken \in Nat, IInv, NEW h \in Handler,
           work[h].pc \in Kind \cup {"set", "tokened"},
           GiveUp(h) \/ (work[h].pc \in Kind /\ Redelivered(h)), Rest(h), faults' \in Nat,
           UNCHANGED <<row, taken, made, inbox, spent, used, crossed>>
    PROVE  IInv'
  <1>1. UNCHANGED <<email, verifier, reset, taken, verifiers, resets, inbox, spent, used, crossed>>
    BY DEF row, made
  <1>2. /\ work' = [work EXCEPT ![h] = Idle] /\ work \in [Handler -> Work]
        /\ Idle \in Work /\ Idle.pc = "idle"
    BY IdleWork DEF Rest, IInv, TypeOK
  <1>3. work' \in [Handler -> Work] /\ work'[h].pc = "idle" /\ \A g \in Handler : g # h => work'[g] = work[g]
    BY <1>2, OneWork
  <1>4. email # None
    BY DEF IInv, MailInv
  <1> DEFINE k == KindOf(h)  token == work[h].token
  <1>5. k \in Kind /\ token \in 0..(MaxToken + 1)
    BY <1>2 DEF KindOf, Kind, Work
  <1>6. /\ jobs' \in [Kind -> Nat] /\ lost' \subseteq Kind \X (0..(MaxToken + 1))
        /\ lost \subseteq lost'
        /\ \A l \in Kind : jobs[l] > 0 => jobs'[l] > 0
        /\ jobs'[k] > 0 \/ <<k, token>> \in lost'
    <2>1. CASE GiveUp(h)
      BY <1>5, <2>1 DEF GiveUp, IInv, TypeOK
    <2>2. CASE work[h].pc \in Kind /\ Redelivered(h)
      <3>1. k = work[h].pc
        BY <2>2 DEF KindOf, Kind
      <3>2. jobs' = [jobs EXCEPT ![k] = @ + 1] /\ lost' = lost
        BY <2>2, <3>1 DEF Redelivered, Enqueue
      <3> HIDE DEF k
      <3>3. QED
        BY <1>5, <3>2 DEF IInv, TypeOK
    <2>3. QED
      BY <2>1, <2>2
  <1>7. TypeOK'
    BY <1>1, <1>3, <1>6 DEF IInv, TypeOK
  <1>8. MailInv' /\ VerifierInv' /\ AddressIsProven'
    <2>1. MailInv'
      BY <1>1, <1>3, <1>4 DEF IInv, MailInv, Kind
    <2>2. VerifierInv'
      BY <1>1, <1>3 DEF IInv, VerifierInv
    <2>3. AddressIsProven'
      BY <1>1 DEF IInv, AddressIsProven
    <2>4. QED
      BY <2>1, <2>2, <2>3
  <1>9. ResetInv' /\ ResetWorksOnce'
    BY <1>1 DEF IInv, ResetInv, ResetWorksOnce
  <1>10. TokenIsMailed'
    <2>1. ASSUME NEW l \in Kind, NEW t \in Nat, Comes(l, t), <<l, t>> \notin lost'
          PROVE  Comes(l, t)'
      <3>1. CASE \E m \in inbox : m.kind = l /\ m.token = t
        BY <1>1, <3>1 DEF Comes
      <3>2. CASE jobs[l] > 0
        BY <1>6, <3>2 DEF Comes
      <3>3. CASE \E g \in Handler : /\ work[g].pc \in {l, IF l = "verify" THEN "set" ELSE "tokened"}
                                   /\ work[g].token = t
        <4>1. PICK g \in Handler : /\ work[g].pc \in {l, IF l = "verify" THEN "set" ELSE "tokened"}
                                   /\ work[g].token = t
          BY <3>3
        <4>2. CASE g # h
          BY <1>3, <4>1, <4>2 DEF Comes
        <4>3. CASE g = h
          <5>1. l = k /\ t = token
            BY <4>1, <4>3 DEF KindOf, Kind
          <5>2. jobs'[l] > 0
            BY <1>6, <2>1, <5>1
          <5>3. QED
            BY <5>2 DEF Comes
        <4>4. QED
          BY <4>2, <4>3
      <3>4. QED
        BY <2>1, <3>1, <3>2, <3>3 DEF Comes
    <2>2. /\ "verify" \in Kind /\ "reset" \in Kind /\ verifier \in Nat /\ reset \in Nat
      BY DEF Kind, IInv, TypeOK
    <2>3. QED
      BY <1>1, <1>6, <2>1, <2>2 DEF IInv, TokenIsMailed
  <1>11. QED
    BY <1>7, <1>8, <1>9, <1>10 DEF IInv

LEMMA FailInv ==
    ASSUME MaxToken \in Nat, IInv, NEW h \in Handler, Fail(h) \/ ParseFails(h)
    PROVE  IInv'
  <1>1. /\ work[h].pc \in Kind \cup {"set", "tokened"}
        /\ GiveUp(h) \/ (work[h].pc \in Kind /\ Redelivered(h))
        /\ Rest(h) /\ faults' \in Nat
        /\ UNCHANGED <<row, taken, made, inbox, spent, used, crossed>>
    BY DEF Fail, ParseFails, JobFails, IInv, TypeOK
  <1>2. QED
    BY <1>1, FailsInv

-----------------------------------------------------------------------------
LEMMA InvStep == ASSUME MaxToken \in Nat, None \notin Address, IInv, [Next]_vars PROVE IInv'
  <1>1. ASSUME NEW h \in Handler,
               \/ \E a \in Address : AskEmail(h, a)
               \/ SetEmail(h) \/ Forgot(h) \/ SetResetToken(h)
               \/ \E m \in inbox : OpenReset(h, m)
               \/ UpdatePassword(h)
        PROVE  IInv'
    BY <1>1, AskInv, SetEmailInv, ForgotInv, SetResetInv, OpenInv, UpdateInv
  <1>2. ASSUME NEW h \in Handler, EnqueueVerification(h) \/ EnqueueReset(h)
        PROVE  IInv'
    <2>1. CASE EnqueueVerification(h)
      BY <2>1, EnqueueInv DEF EnqueueVerification, Kind
    <2>2. CASE EnqueueReset(h)
      BY <2>2, EnqueueInv DEF EnqueueReset, Kind
    <2>3. QED
      BY <1>2, <2>1, <2>2
  <1>3. ASSUME NEW h \in Handler, (\E k \in Kind : ReadUser(h, k)) \/ SendMail(h)
                                    \/ ParseFails(h) \/ Fail(h)
        PROVE  IInv'
    BY <1>3, ReadInv, SendInv, FailInv
  <1>4. ASSUME (\E m \in inbox : Verify(m)) \/ \E a \in Address : TakeElsewhere(a)
        PROVE  IInv'
    BY <1>4, VerifyInv, TakeInv
  <1>5. CASE UNCHANGED vars
    <2>1. UNCHANGED <<email, verifier, reset, taken, verifiers, resets, jobs, work, inbox, spent,
                      used, crossed, lost, faults>>
      BY <1>5 DEF vars, row, made, history
    <2>2. TypeOK' /\ MailInv' /\ VerifierInv' /\ ResetInv'
      BY <2>1 DEF IInv, TypeOK, MailInv, VerifierInv, ResetInv
    <2>3. AddressIsProven' /\ TokenIsMailed' /\ ResetWorksOnce'
      BY <2>1 DEF IInv, AddressIsProven, TokenIsMailed, ResetWorksOnce, Comes
    <2>4. QED
      BY <2>2, <2>3 DEF IInv
  <1>6. QED
    BY <1>1, <1>2, <1>3, <1>4, <1>5 DEF Next

LEMMA Invariant == ASSUME MaxToken \in Nat, None \notin Address PROVE Spec => []IInv
  BY InitInv, InvStep, PTL DEF Spec

\* An address that counts as verified was itself mailed the verifier.
THEOREM AddressProven ==
    ASSUME MaxToken \in Nat, None \notin Address PROVE Spec => []AddressIsProven
  <1>1. IInv => AddressIsProven
    BY DEF IInv
  <1>2. QED
    BY <1>1, Invariant, PTL

\* The tokens of the row are mailed, but for one whose own request stopped half way
\* or whose job was given up.
THEOREM TokenMailed ==
    ASSUME MaxToken \in Nat, None \notin Address PROVE Spec => []TokenIsMailed
  <1>1. IInv => TokenIsMailed
    BY DEF IInv
  <1>2. QED
    BY <1>1, Invariant, PTL

\* A reset token sets one password, but for requests that crossed.
THEOREM ResetOnce ==
    ASSUME MaxToken \in Nat, None \notin Address PROVE Spec => []ResetWorksOnce
  <1>1. IInv => ResetWorksOnce
    BY DEF IInv
  <1>2. QED
    BY <1>1, Invariant, PTL

(******************************************************************************)
(* UserSessions.                                                              *)
(******************************************************************************)

\* The bounds of the sessions' model are numbers.
SessionBounds == MaxSession \in Nat /\ Buffer \in Nat /\ MaxEvent \in Nat /\ MaxFailure \in Nat

LEMMA SessionsInit == ASSUME SessionBounds, S!Init PROVE S!IInv
  <1>1. S!TypeOK
    <2>1. /\ sessions = 0 /\ events = 0 /\ failures = 0
          /\ live = {} /\ silent = {} /\ late = {}
          /\ left \in BOOLEAN /\ deleted \in BOOLEAN
      BY DEF S!Init
    <2>2. cookie \in [Browser -> 0..sessions] /\ fed \in [Browser -> BOOLEAN]
      BY DEF S!Init
    <2>3. request \in [Browser -> [pc : {"idle", "created", "checked", "ended", "logout"},
                                   own : 0..sessions, target : 0..sessions]]
      BY DEF S!Init, S!Idle
    <2>4. socket \in [Browser -> [pc : {"none", "connecting", "open", "closing"}, session : 0..sessions]]
      BY DEF S!Init, S!NoSocket
    <2>5. <<>> \in Seq(S!Event) /\ Len(<<>>) = 0
      OBVIOUS
    <2>6. stream \in [Browser -> Seq(S!Event)] /\ channel \in [Browser -> Seq(S!Event)]
      BY <2>5 DEF S!Init
    <2>7. \A b \in Browser : Len(channel[b]) = 0 /\ ~fed[b]
      BY <2>5 DEF S!Init
    <2>8. QED
      BY <2>1, <2>2, <2>3, <2>4, <2>6, <2>7 DEF S!TypeOK, SessionBounds
  <1>2. S!Named /\ S!ConnectingInTime /\ S!SocketHasSession /\ S!OneSessionStays
    BY DEF S!Init, S!Named, S!ConnectingInTime, S!SocketHasSession, S!OneSessionStays, S!Idle, S!NoSocket
  <1>3. QED
    BY <1>1, <1>2 DEF S!IInv

-----------------------------------------------------------------------------
\* What a step does to a browser's request.
LEMMA OneRequest ==
    ASSUME SessionBounds, S!TypeOK, NEW b \in Browser,
           sessions' \in Nat, sessions <= sessions',
           NEW pc \in {"idle", "created", "checked", "ended", "logout"},
           NEW own \in 0..sessions', NEW target \in 0..sessions', S!Does(b, pc, own, target)
    PROVE  /\ request' \in [Browser -> [pc : {"idle", "created", "checked", "ended", "logout"},
                                       own : 0..sessions', target : 0..sessions']]
           /\ request'[b] = [pc |-> pc, own |-> own, target |-> target]
           /\ \A c \in Browser : c # b => request'[c] = request[c]
  <1> DEFINE r == [pc |-> pc, own |-> own, target |-> target]
             R == [pc : {"idle", "created", "checked", "ended", "logout"},
                   own : 0..sessions', target : 0..sessions']
  <1>1. r \in R
    OBVIOUS
  <1>2. [pc : {"idle", "created", "checked", "ended", "logout"}, own : 0..sessions, target : 0..sessions] \subseteq R
    BY DEF S!TypeOK, SessionBounds
  <1>3. request \in [Browser -> R]
    BY <1>2 DEF S!TypeOK
  <1>4. request' = [request EXCEPT ![b] = r]
    BY DEF S!Does
  <1> HIDE DEF r, R
  <1>5. request' \in [Browser -> R] /\ request'[b] = r /\ \A c \in Browser : c # b => request'[c] = request[c]
    BY <1>1, <1>3, <1>4
  <1>6. QED
    BY <1>5 DEF r, R


\* A step that leaves the sockets alone keeps what is said of them when what
\* accounted for a session still does.
LEMMA SocketsStay ==
    ASSUME S!IInv, UNCHANGED <<socket, stream, channel, fed>>,
           \A b \in Browser : \A s : s # 0 /\ S!Accounted(b, s) => S!Accounted(b, s)'
    PROVE  (S!ConnectingInTime /\ S!SocketHasSession)'
  <1>1. ASSUME NEW b \in Browser, socket[b].pc = "connecting"
        PROVE  S!Accounted(b, socket[b].session)'
    <2>1. S!Accounted(b, socket[b].session) /\ socket[b].session # 0
      BY <1>1 DEF S!IInv, S!Named, S!ConnectingInTime
    <2>2. PICK s : s = socket[b].session
      OBVIOUS
    <2>3. S!Accounted(b, s)'
      BY <2>1, <2>2
    <2>4. QED
      BY <2>2, <2>3 DEF S!Accounted, S!Pending
  <1>2. ASSUME NEW b \in Browser, socket[b].pc = "open", fed[b], ~S!OnItsWay(b, socket[b].session)
        PROVE  S!Accounted(b, socket[b].session)'
    <2>1. S!Accounted(b, socket[b].session) /\ socket[b].session # 0
      BY <1>2 DEF S!IInv, S!Named, S!SocketHasSession
    <2>2. PICK s : s = socket[b].session
      OBVIOUS
    <2>3. S!Accounted(b, s)'
      BY <2>1, <2>2
    <2>4. QED
      BY <2>2, <2>3 DEF S!Accounted, S!Pending
  <1>3. S!ConnectingInTime'
    BY <1>1 DEF S!ConnectingInTime
  <1>4. S!SocketHasSession'
    BY <1>2 DEF S!SocketHasSession, S!OnItsWay
  <1>5. QED
    BY <1>3, <1>4

LEMMA SignInInv ==
    ASSUME SessionBounds, S!IInv, NEW b \in Browser, S!SignIn(b)
    PROVE  S!IInv'
  <1>0. S!TypeOK
    BY DEF S!IInv
  <1>1. /\ sessions' = sessions + 1 /\ sessions' \in 0..MaxSession /\ S!Does(b, "created", sessions', 0)
        /\ live' = live \cup {sessions'} /\ request[b].pc = "idle" /\ ~deleted
        /\ UNCHANGED <<deleted, cookie, socket, stream, channel, fed, events, silent, late, left, failures>>
    BY <1>0 DEF S!TypeOK, S!SignIn, S!feed, S!history, SessionBounds
  <1>2. /\ request' \in [Browser -> [pc : {"idle", "created", "checked", "ended", "logout"},
                                    own : 0..sessions', target : 0..sessions']]
        /\ request'[b] = [pc |-> "created", own |-> sessions', target |-> 0]
        /\ \A c \in Browser : c # b => request'[c] = request[c]
    <2>1. sessions' \in Nat /\ sessions <= sessions' /\ 0 \in 0..sessions' /\ sessions' \in 0..sessions'
      BY <1>0, <1>1 DEF S!TypeOK
    <2>2. QED
      BY <1>0, <1>1, <2>1, OneRequest
  <1>3. S!TypeOK'
    <2>1. 0..sessions \subseteq 0..sessions' /\ 1..sessions \subseteq 1..sessions'
          /\ sessions' \in 1..sessions'
      BY <1>0, <1>1 DEF S!TypeOK
    <2>2. cookie' \in [Browser -> 0..sessions']
      BY <1>0, <1>1, <2>1 DEF S!TypeOK
    <2>3. socket' \in [Browser -> [pc : {"none", "connecting", "open", "closing"}, session : 0..sessions']]
      <3>1. [pc : {"none", "connecting", "open", "closing"}, session : 0..sessions] \subseteq
              [pc : {"none", "connecting", "open", "closing"}, session : 0..sessions']
        BY <2>1
      <3>2. QED
        BY <1>0, <1>1, <3>1 DEF S!TypeOK
    <2>4. live' \subseteq 1..sessions' /\ silent' \subseteq 1..sessions'
      BY <1>0, <1>1, <2>1 DEF S!TypeOK
    <2>5. QED
      BY <1>0, <1>1, <1>2, <2>2, <2>3, <2>4 DEF S!TypeOK, S!Event
  <1>4. S!Named' /\ S!OneSessionStays'
    <2>1. S!Named'
      BY <1>1, <1>2 DEF S!IInv, S!Named
    <2>2. QED
      BY <1>1, <2>1 DEF S!OneSessionStays
  <1>5. ASSUME NEW c \in Browser, NEW s, S!Accounted(c, s)
        PROVE  S!Accounted(c, s)'
    BY <1>1, <1>2, <1>5 DEF S!Accounted, S!Pending
  <1>6. (S!ConnectingInTime /\ S!SocketHasSession)'
    BY <1>1, <1>5, SocketsStay
  <1>7. QED
    BY <1>3, <1>4, <1>6 DEF S!IInv

\* The other steps make no session.
LEMMA SameRequest ==
    ASSUME SessionBounds, S!TypeOK, NEW b \in Browser, sessions' = sessions,
           NEW pc \in {"idle", "created", "checked", "ended", "logout"},
           NEW own \in 0..sessions, NEW target \in 0..sessions, S!Does(b, pc, own, target)
    PROVE  /\ request' \in [Browser -> [pc : {"idle", "created", "checked", "ended", "logout"},
                                       own : 0..sessions, target : 0..sessions]]
           /\ request'[b] = [pc |-> pc, own |-> own, target |-> target]
           /\ \A c \in Browser : c # b => request'[c] = request[c]
  <1>1. sessions' \in Nat /\ sessions <= sessions' /\ 0..sessions' = 0..sessions
    BY DEF S!TypeOK
  <1>2. own \in 0..sessions' /\ target \in 0..sessions'
    BY <1>1
  <1>3. QED
    BY <1>1, <1>2, OneRequest

\* The session a request is made with, or is about.
LEMMA RequestNames ==
    ASSUME S!TypeOK, NEW b \in Browser
    PROVE  /\ request[b].own \in 0..sessions /\ request[b].target \in 0..sessions
           /\ cookie[b] \in 0..sessions /\ 0 \in 0..sessions
  BY DEF S!TypeOK

LEMMA AnswerStep ==
    ASSUME SessionBounds, S!TypeOK, NEW b \in Browser, sessions' = sessions, S!Answer(b)
    PROVE  /\ request' \in [Browser -> [pc : {"idle", "created", "checked", "ended", "logout"},
                                       own : 0..sessions, target : 0..sessions]]
           /\ request'[b] = [pc |-> "idle", own |-> 0, target |-> 0]
           /\ \A c \in Browser : c # b => request'[c] = request[c]
  <1>1. S!Does(b, "idle", 0, 0)
    BY DEF S!Answer
  <1>2. QED
    BY <1>1, RequestNames, SameRequest

\* A request answered, with the cookie set or kept.
LEMMA AnsweredInv ==
    ASSUME SessionBounds, S!IInv, NEW b \in Browser, S!SignedIn(b) \/ S!Page(b)
    PROVE  S!IInv'
  <1>0. S!TypeOK
    BY DEF S!IInv
  <1>1. /\ S!Answer(b) /\ request[b].pc \in {"created", "checked"}
        /\ cookie' = cookie \/ cookie' = [cookie EXCEPT ![b] = request[b].own]
        /\ UNCHANGED <<live, sessions, deleted, socket, stream, channel, fed, events, silent, late, left, failures>>
    BY DEF S!SignedIn, S!Page, S!rows, S!feed, S!history, S!SetCookie
  <1>2. /\ request' \in [Browser -> [pc : {"idle", "created", "checked", "ended", "logout"},
                                    own : 0..sessions, target : 0..sessions]]
        /\ request'[b] = [pc |-> "idle", own |-> 0, target |-> 0]
        /\ \A c \in Browser : c # b => request'[c] = request[c]
    BY <1>0, <1>1, AnswerStep
  <1>3. S!TypeOK'
    <2>1. cookie' \in [Browser -> 0..sessions]
      BY <1>0, <1>1, RequestNames DEF S!TypeOK
    <2>2. QED
      BY <1>0, <1>1, <1>2, <2>1 DEF S!TypeOK, S!Event
  <1>4. S!Named'
    BY <1>1, <1>2 DEF S!IInv, S!Named
  <1>5. S!OneSessionStays'
    BY <1>1 DEF S!IInv, S!OneSessionStays
  <1>6. ASSUME NEW c \in Browser, NEW s, S!Accounted(c, s)
        PROVE  S!Accounted(c, s)'
    BY <1>1, <1>2, <1>6 DEF S!Accounted, S!Pending
  <1>7. (S!ConnectingInTime /\ S!SocketHasSession)'
    BY <1>1, <1>6, SocketsStay
  <1>8. QED
    BY <1>3, <1>4, <1>5, <1>7 DEF S!IInv

LEMMA CheckInv ==
    ASSUME SessionBounds, S!IInv, NEW b \in Browser, S!Check(b)
    PROVE  S!IInv'
  <1>0. S!TypeOK
    BY DEF S!IInv
  <1>1. /\ request[b].pc = "idle" /\ cookie[b] # 0
        /\ UNCHANGED <<live, sessions, deleted, socket, stream, channel, fed, events, silent, late, left, failures>>
    BY DEF S!Check, S!rows, S!feed, S!history
  <1>2. /\ request' \in [Browser -> [pc : {"idle", "created", "checked", "ended", "logout"},
                                    own : 0..sessions, target : 0..sessions]]
        /\ request'[b].pc \in {"idle", "checked"} /\ (request'[b].pc = "checked" => request'[b].own # 0)
        /\ \A c \in Browser : c # b => request'[c] = request[c]
    <2>1. CASE cookie[b] \in live
      <3>1. S!Does(b, "checked", cookie[b], 0)
        BY <2>1 DEF S!Check
      <3>2. cookie[b] \in 0..sessions /\ 0 \in 0..sessions
        BY <1>0, RequestNames
      <3>3. request'[b] = [pc |-> "checked", own |-> cookie[b], target |-> 0]
        BY <1>0, <1>1, <3>1, <3>2, SameRequest
      <3>4. QED
        BY <1>0, <1>1, <3>1, <3>2, <3>3, SameRequest
    <2>2. CASE cookie[b] \notin live
      <3>1. request' = request
        BY <2>2 DEF S!Check
      <3>2. QED
        BY <1>0, <1>1, <3>1 DEF S!TypeOK
    <2>3. QED
      BY <2>1, <2>2
  <1>3. S!TypeOK'
    <2>1. cookie' \in [Browser -> 0..sessions]
      BY <1>0, RequestNames DEF S!TypeOK, S!Check, S!SetCookie
    <2>2. QED
      BY <1>0, <1>1, <1>2, <2>1 DEF S!TypeOK, S!Event
  <1>4. S!Named'
    BY <1>1, <1>2 DEF S!IInv, S!Named
  <1>5. S!OneSessionStays'
    BY <1>1 DEF S!IInv, S!OneSessionStays
  <1>6. ASSUME NEW c \in Browser, NEW s, S!Accounted(c, s)
        PROVE  S!Accounted(c, s)'
    BY <1>1, <1>2, <1>6 DEF S!Accounted, S!Pending
  <1>7. (S!ConnectingInTime /\ S!SocketHasSession)'
    BY <1>1, <1>6, SocketsStay
  <1>8. QED
    BY <1>3, <1>4, <1>5, <1>7 DEF S!IInv

\* The DELETE of one session, the end of which the request is to publish.
LEMMA RemovedInv ==
    ASSUME SessionBounds, S!IInv, NEW b \in Browser, NEW s,
           (S!RemoveSession(b, s) /\ s \in 1..sessions) \/ (S!Logout(b) /\ s = cookie[b])
    PROVE  S!IInv'
  <1>0. S!TypeOK
    BY DEF S!IInv
  <1>1. /\ request[b].pc \in {"idle", "checked"} /\ live' = live \ {s} /\ s \in 0..sessions
        /\ events' \in 0..MaxEvent /\ left' \in BOOLEAN /\ (live' = {} => left')
        /\ UNCHANGED <<sessions, deleted, cookie, socket, stream, channel, fed, silent, late, failures>>
    <2>1. CASE S!RemoveSession(b, s) /\ s \in 1..sessions
      <3>1. events' \in 0..MaxEvent
        BY <1>0, <2>1 DEF S!RemoveSession, S!Count, S!TypeOK, SessionBounds
      <3>2. left' = (left \/ request[b].own \notin live) /\ live' = live \ {s} /\ s # request[b].own
        BY <2>1 DEF S!RemoveSession
      <3>3. live' = {} => left'
        BY <3>2
      <3>4. left' \in BOOLEAN
        BY <3>2
      <3>5. /\ request[b].pc = "checked" /\ s \in 0..sessions
            /\ UNCHANGED <<sessions, deleted, cookie, socket, stream, channel, fed, silent, late, failures>>
        BY <1>0, <2>1 DEF S!RemoveSession, S!feed, S!TypeOK
      <3>6. QED
        BY <3>1, <3>2, <3>3, <3>4, <3>5
    <2>2. CASE S!Logout(b) /\ s = cookie[b]
      BY <1>0, <2>2, RequestNames DEF S!Logout, S!feed, S!TypeOK
    <2>3. QED
      BY <2>1, <2>2
  <1>2. /\ request' \in [Browser -> [pc : {"idle", "created", "checked", "ended", "logout"},
                                    own : 0..sessions, target : 0..sessions]]
        /\ request'[b].pc \in {"ended", "logout"} /\ request'[b].target = s
        /\ \A c \in Browser : c # b => request'[c] = request[c]
    <2>1. S!Does(b, "ended", request[b].own, s) \/ S!Does(b, "logout", 0, s)
      BY DEF S!RemoveSession, S!Logout
    <2>2. request[b].own \in 0..sessions /\ s \in 0..sessions /\ 0 \in 0..sessions
      BY <1>0, <1>1, RequestNames
    <2>3. CASE S!Does(b, "ended", request[b].own, s)
      <3>1. request'[b] = [pc |-> "ended", own |-> request[b].own, target |-> s]
        BY <1>0, <1>1, <2>2, <2>3, SameRequest
      <3>2. QED
        BY <1>0, <1>1, <2>2, <2>3, <3>1, SameRequest
    <2>4. CASE S!Does(b, "logout", 0, s)
      <3>1. request'[b] = [pc |-> "logout", own |-> 0, target |-> s]
        BY <1>0, <1>1, <2>2, <2>4, SameRequest
      <3>2. QED
        BY <1>0, <1>1, <2>2, <2>4, <3>1, SameRequest
    <2>5. QED
      BY <2>1, <2>3, <2>4
  <1>3. S!TypeOK'
    BY <1>0, <1>1, <1>2 DEF S!TypeOK, S!Event
  <1>4. S!Named'
    BY <1>1, <1>2 DEF S!IInv, S!Named
  <1>5. S!OneSessionStays'
    BY <1>1 DEF S!OneSessionStays
  <1>6. ASSUME NEW c \in Browser, NEW t, S!Accounted(c, t)
        PROVE  S!Accounted(c, t)'
    BY <1>1, <1>2, <1>6 DEF S!Accounted, S!Pending
  <1>7. (S!ConnectingInTime /\ S!SocketHasSession)'
    BY <1>1, <1>6, SocketsStay
  <1>8. QED
    BY <1>3, <1>4, <1>5, <1>7 DEF S!IInv

LEMMA RequestFailsInv ==
    ASSUME SessionBounds, S!IInv, NEW b \in Browser, S!RequestFails(b)
    PROVE  S!IInv'
  <1>0. S!TypeOK
    BY DEF S!IInv
  <1>1. /\ S!Answer(b) /\ request[b].pc \in {"created", "ended", "logout"}
        /\ failures' \in 0..MaxFailure /\ silent' = silent \cup ({request[b].target} \ {0})
        /\ UNCHANGED <<live, sessions, deleted, cookie, socket, stream, channel, fed, events, late, left>>
    BY <1>0 DEF S!TypeOK, S!RequestFails, S!Fault, S!rows, S!feed, SessionBounds
  <1>2. /\ request' \in [Browser -> [pc : {"idle", "created", "checked", "ended", "logout"},
                                    own : 0..sessions, target : 0..sessions]]
        /\ request'[b] = [pc |-> "idle", own |-> 0, target |-> 0]
        /\ \A c \in Browser : c # b => request'[c] = request[c]
    BY <1>0, <1>1, AnswerStep
  <1>3. S!TypeOK'
    <2>1. silent' \subseteq 1..sessions
      <3>1. \A t \in 0..sessions : t # 0 => t \in 1..sessions
        BY <1>0 DEF S!TypeOK
      <3>2. QED
        BY <1>0, <1>1, <3>1, RequestNames DEF S!TypeOK
    <2>2. QED
      BY <1>0, <1>1, <1>2, <2>1 DEF S!TypeOK, S!Event
  <1>4. S!Named'
    BY <1>1, <1>2 DEF S!IInv, S!Named
  <1>5. S!OneSessionStays'
    BY <1>1 DEF S!IInv, S!OneSessionStays
  <1>6. ASSUME NEW c \in Browser, NEW t, t # 0, S!Accounted(c, t)
        PROVE  S!Accounted(c, t)'
    BY <1>1, <1>2, <1>6 DEF S!Accounted, S!Pending
  <1>7. (S!ConnectingInTime /\ S!SocketHasSession)'
    BY <1>1, <1>6, SocketsStay
  <1>8. QED
    BY <1>3, <1>4, <1>5, <1>7 DEF S!IInv

LEMMA DeleteUserInv ==
    ASSUME SessionBounds, S!IInv, NEW b \in Browser, S!DeleteUser(b)
    PROVE  S!IInv'
  <1>0. S!TypeOK
    BY DEF S!IInv
  <1>1. /\ S!Answer(b) /\ request[b].pc = "checked" /\ cookie' = [cookie EXCEPT ![b] = 0]
        /\ deleted' = TRUE /\ live' = {} /\ silent' = silent \cup live /\ left' = TRUE
        /\ UNCHANGED <<sessions, socket, stream, channel, fed, events, late, failures>>
    BY DEF S!DeleteUser, S!SetCookie, S!feed
  <1>2. /\ request' \in [Browser -> [pc : {"idle", "created", "checked", "ended", "logout"},
                                    own : 0..sessions, target : 0..sessions]]
        /\ request'[b] = [pc |-> "idle", own |-> 0, target |-> 0]
        /\ \A c \in Browser : c # b => request'[c] = request[c]
    BY <1>0, <1>1, AnswerStep
  <1>3. S!TypeOK'
    <2>1. cookie' \in [Browser -> 0..sessions]
      BY <1>0, <1>1, RequestNames DEF S!TypeOK
    <2>2. QED
      BY <1>0, <1>1, <1>2, <2>1 DEF S!TypeOK, S!Event
  <1>4. S!Named'
    BY <1>1, <1>2 DEF S!IInv, S!Named
  <1>5. S!OneSessionStays'
    BY <1>1 DEF S!OneSessionStays
  <1>6. ASSUME NEW c \in Browser, NEW t, S!Accounted(c, t)
        PROVE  S!Accounted(c, t)'
    BY <1>1, <1>2, <1>6 DEF S!Accounted, S!Pending
  <1>7. (S!ConnectingInTime /\ S!SocketHasSession)'
    BY <1>1, <1>6, SocketsStay
  <1>8. QED
    BY <1>3, <1>4, <1>5, <1>7 DEF S!IInv

LEMMA ExpireInv ==
    ASSUME SessionBounds, S!IInv, NEW s, S!Expire(s)
    PROVE  S!IInv'
  <1>0. S!TypeOK
    BY DEF S!IInv
  <1>1. /\ live' = live \ {s} /\ silent' = silent \cup {s} /\ s \in live /\ left' = TRUE
        /\ UNCHANGED <<sessions, deleted, cookie, request, socket, stream, channel, fed, events, late, failures>>
    BY DEF S!Expire, S!feed
  <1>2. S!TypeOK'
    BY <1>0, <1>1 DEF S!TypeOK, S!Event
  <1>3. S!Named' /\ S!OneSessionStays'
    BY <1>1 DEF S!IInv, S!Named, S!OneSessionStays
  <1>4. ASSUME NEW c \in Browser, NEW t, S!Accounted(c, t)
        PROVE  S!Accounted(c, t)'
    BY <1>1, <1>4 DEF S!Accounted, S!Pending
  <1>5. (S!ConnectingInTime /\ S!SocketHasSession)'
    BY <1>1, <1>4, SocketsStay
  <1>6. QED
    BY <1>2, <1>3, <1>5 DEF S!IInv

-----------------------------------------------------------------------------
\* What a subscribed socket is sent; a socket that still connects and whose
\* session's end it was is late.
LEMMA PublishStep ==
    ASSUME S!TypeOK, NEW e \in S!Event, S!Publish(e)
    PROVE  /\ stream' \in [Browser -> Seq(S!Event)]
           /\ \A b \in Browser : fed[b] => stream'[b] = Append(stream[b], e)
           /\ \A b \in Browser : ~fed[b] => stream'[b] = stream[b]
           /\ late' \subseteq Browser /\ late \subseteq late'
           /\ \A b \in Browser :
                socket[b].pc = "connecting" /\ socket[b].session = e => b \in late'
  <1>1. stream' = [b \in Browser |-> IF fed[b] THEN Append(stream[b], e) ELSE stream[b]]
    BY DEF S!Publish
  <1>2. \A b \in Browser : stream[b] \in Seq(S!Event) /\ Append(stream[b], e) \in Seq(S!Event)
    BY DEF S!TypeOK
  <1>3. /\ stream' \in [Browser -> Seq(S!Event)]
        /\ \A b \in Browser : fed[b] => stream'[b] = Append(stream[b], e)
        /\ \A b \in Browser : ~fed[b] => stream'[b] = stream[b]
    BY <1>1, <1>2
  <1>4. \A b \in Browser :
            socket[b].pc = "connecting" /\ socket[b].session = e
              => socket[b] = [pc |-> "connecting", session |-> e]
    BY DEF S!TypeOK
  <1>5. late' = late \cup {b \in Browser : socket[b] = [pc |-> "connecting", session |-> e]}
    BY DEF S!Publish
  <1>6. QED
    BY <1>3, <1>4, <1>5 DEF S!TypeOK

\* An event published stays on its way, and so does every earlier one.
LEMMA OnItsWayGrows ==
    ASSUME S!TypeOK, NEW e \in S!Event, S!Publish(e), channel' = channel,
           NEW b \in Browser, NEW s, fed[b], S!OnItsWay(b, s) \/ s = e
    PROVE  S!OnItsWay(b, s)'
  <1>1. stream'[b] = Append(stream[b], e) /\ stream[b] \in Seq(S!Event)
    BY PublishStep DEF S!TypeOK
  <1>2. CASE s = e
    <2>1. Len(stream[b]) + 1 \in 1..Len(stream'[b]) /\ stream'[b][Len(stream[b]) + 1] = s
      BY <1>1, <1>2
    <2>2. QED
      BY <2>1 DEF S!OnItsWay
  <1>3. CASE \E i \in 1..Len(stream[b]) : stream[b][i] = s
    <2>1. PICK i \in 1..Len(stream[b]) : stream[b][i] = s
      BY <1>3
    <2>2. i \in 1..Len(stream'[b]) /\ stream'[b][i] = s
      BY <1>1, <2>1
    <2>3. QED
      BY <2>2 DEF S!OnItsWay
  <1>4. CASE \E i \in 1..Len(channel[b]) : channel[b][i] = s
    BY <1>4 DEF S!OnItsWay
  <1>5. QED
    BY <1>2, <1>3, <1>4 DEF S!OnItsWay

\* A step that publishes e.
LEMMA PublishedInv ==
    ASSUME SessionBounds, S!IInv, NEW e \in S!Event, S!Publish(e), S!TypeOK',
           UNCHANGED <<live, sessions, socket, channel, fed, silent, left>>,
           \A b \in Browser : request'[b] = request[b] \/ request'[b].pc = "idle",
           \A b \in Browser :
               request'[b] = request[b] \/ request[b].target = e
    PROVE  S!IInv'
  <1>0. S!TypeOK
    BY DEF S!IInv
  <1>1. ASSUME NEW b \in Browser, NEW s, S!Accounted(b, s), s # e
        PROVE  S!Accounted(b, s)'
    BY <1>0, <1>1, PublishStep DEF S!Accounted, S!Pending
  <1>2. S!Named'
    BY DEF S!IInv, S!Named
  <1>3. S!ConnectingInTime'
    <2> SUFFICES ASSUME NEW b \in Browser, socket[b].pc = "connecting"
                 PROVE  S!Accounted(b, socket[b].session)'
      BY DEF S!ConnectingInTime
    <2>1. PICK s : s = socket[b].session
      OBVIOUS
    <2>2. S!Accounted(b, s)
      BY <2>1 DEF S!IInv, S!ConnectingInTime
    <2>3. S!Accounted(b, s)'
      BY <1>0, <1>1, <2>1, <2>2, PublishStep DEF S!Accounted
    <2>4. QED
      BY <2>1, <2>3 DEF S!Accounted, S!Pending
  <1>4. S!SocketHasSession'
    <2> SUFFICES ASSUME NEW b \in Browser, socket[b].pc = "open", fed[b],
                        ~S!OnItsWay(b, socket[b].session)'
                 PROVE  S!Accounted(b, socket[b].session)'
      BY DEF S!SocketHasSession
    <2>1. PICK s : s = socket[b].session
      OBVIOUS
    <2>2. ~S!OnItsWay(b, s)'
      BY <2>1 DEF S!OnItsWay
    <2>3. ~S!OnItsWay(b, s) /\ s # e
      BY <1>0, <2>2, OnItsWayGrows
    <2>4. S!Accounted(b, s)
      BY <2>1, <2>3 DEF S!IInv, S!SocketHasSession
    <2>5. S!Accounted(b, s)'
      BY <1>1, <2>3, <2>4
    <2>6. QED
      BY <2>1, <2>5 DEF S!Accounted, S!Pending
  <1>5. S!OneSessionStays'
    BY DEF S!IInv, S!OneSessionStays
  <1>6. QED
    BY <1>2, <1>3, <1>4, <1>5 DEF S!IInv

LEMMA PublishEndInv ==
    ASSUME SessionBounds, S!IInv, NEW b \in Browser, S!PublishEnd(b)
    PROVE  S!IInv'
  <1>0. S!TypeOK
    BY DEF S!IInv
  <1>1. /\ S!Answer(b) /\ S!Publish(request[b].target) /\ request[b].pc \in {"ended", "logout"}
        /\ cookie' = cookie \/ cookie' = [cookie EXCEPT ![b] = 0]
        /\ UNCHANGED <<live, sessions, deleted, socket, channel, fed, events, silent, left, failures>>
    BY DEF S!PublishEnd, S!SetCookie, S!rows
  <1>2. /\ request' \in [Browser -> [pc : {"idle", "created", "checked", "ended", "logout"},
                                    own : 0..sessions, target : 0..sessions]]
        /\ request'[b] = [pc |-> "idle", own |-> 0, target |-> 0]
        /\ \A c \in Browser : c # b => request'[c] = request[c]
    BY <1>0, <1>1, AnswerStep
  <1>3. request[b].target \in S!Event
    BY <1>0, RequestNames DEF S!TypeOK, S!Event, SessionBounds
  <1>4. S!TypeOK'
    <2>1. cookie' \in [Browser -> 0..sessions]
      BY <1>0, <1>1, RequestNames DEF S!TypeOK
    <2>2. stream' \in [Browser -> Seq(S!Event)] /\ late' \subseteq Browser
      BY <1>0, <1>1, <1>3, PublishStep
    <2>3. QED
      BY <1>0, <1>1, <1>2, <2>1, <2>2 DEF S!TypeOK, S!Event
  <1>5. \A c \in Browser : request'[c] = request[c] \/ (request'[c].pc = "idle" /\ c = b)
    BY <1>2
  <1>6. QED
    BY <1>1, <1>3, <1>4, <1>5, PublishedInv

LEMMA SendOtherInv == ASSUME SessionBounds, S!IInv, S!SendOther PROVE S!IInv'
  <1>0. S!TypeOK
    BY DEF S!IInv
  <1>1. /\ S!Publish(0) /\ events' \in 0..MaxEvent
        /\ UNCHANGED <<live, sessions, deleted, cookie, request, socket, channel, fed, silent, left, failures>>
    BY <1>0 DEF S!SendOther, S!rows, S!TypeOK, SessionBounds
  <1>2. 0 \in S!Event
    BY DEF S!Event, SessionBounds
  <1>3. stream' \in [Browser -> Seq(S!Event)] /\ late' \subseteq Browser
    BY <1>0, <1>1, <1>2, PublishStep
  <1>4. S!TypeOK'
    BY <1>0, <1>1, <1>3 DEF S!TypeOK, S!Event
  <1>5. QED
    BY <1>1, <1>2, <1>4, PublishedInv

-----------------------------------------------------------------------------
\* A step of the socket of b, for which rows and requests stay as they were,
\* but for a checked request that is answered.
LEMMA OneSocketInv ==
    ASSUME SessionBounds, S!IInv, NEW b \in Browser, NEW s, S!TypeOK',
           UNCHANGED <<live, sessions, silent, left>>,
           \A c \in Browser :
               request'[c] = request[c] \/ (request[c].pc = "checked" /\ request'[c].pc = "idle"),
           \A c \in Browser : c # b =>
               /\ socket'[c] = socket[c] /\ stream'[c] = stream[c] /\ channel'[c] = channel[c]
               /\ fed'[c] = fed[c] /\ (c \in late => c \in late'),
           socket'[b].session = s,
           socket'[b].pc # "none" => s # 0,
           socket'[b].pc = "connecting" => S!Accounted(b, s)',
           socket'[b].pc = "open" => S!Accounted(b, s)' \/ S!OnItsWay(b, s)' \/ ~fed'[b]
    PROVE  S!IInv'
  <1>1. S!Named'
    BY DEF S!IInv, S!Named
  <1>2. ASSUME NEW c \in Browser, c # b, NEW t, S!Accounted(c, t)
        PROVE  S!Accounted(c, t)'
    BY <1>2 DEF S!Accounted, S!Pending
  <1>3. S!ConnectingInTime'
    <2> SUFFICES ASSUME NEW c \in Browser, socket'[c].pc = "connecting"
                 PROVE  S!Accounted(c, socket[c].session)'
      BY DEF S!ConnectingInTime
    <2>1. PICK t : t = socket'[c].session
      OBVIOUS
    <2>2. CASE c = b
      BY <2>2 DEF S!Accounted, S!Pending
    <2>3. CASE c # b
      <3>1. S!Accounted(c, t)
        BY <2>1, <2>3 DEF S!IInv, S!ConnectingInTime
      <3>2. S!Accounted(c, t)'
        BY <1>2, <2>3, <3>1
      <3>3. QED
        BY <2>1, <3>2 DEF S!Accounted, S!Pending
    <2>4. QED
      BY <2>2, <2>3
  <1>4. S!SocketHasSession'
    <2> SUFFICES ASSUME NEW c \in Browser, socket'[c].pc = "open"
                 PROVE  \/ S!Accounted(c, socket[c].session)' \/ S!OnItsWay(c, socket[c].session)'
                        \/ ~fed'[c]
      BY DEF S!SocketHasSession
    <2>1. PICK t : t = socket'[c].session
      OBVIOUS
    <2>2. CASE c = b
      BY <2>2 DEF S!Accounted, S!Pending, S!OnItsWay
    <2>3. CASE c # b
      <3>1. S!Accounted(c, t) \/ S!OnItsWay(c, t) \/ ~fed[c]
        BY <2>1, <2>3 DEF S!IInv, S!SocketHasSession
      <3>2. S!OnItsWay(c, t) => S!OnItsWay(c, t)'
        BY <2>3 DEF S!OnItsWay
      <3>3. S!Accounted(c, t)' \/ S!OnItsWay(c, t)' \/ ~fed'[c]
        BY <1>2, <2>3, <3>1, <3>2
      <3>4. QED
        BY <2>1, <3>3 DEF S!Accounted, S!Pending, S!OnItsWay
    <2>4. QED
      BY <2>2, <2>3
  <1>5. S!OneSessionStays'
    BY DEF S!IInv, S!OneSessionStays
  <1>6. QED
    BY <1>1, <1>3, <1>4, <1>5 DEF S!IInv

LEMMA OpenSocketInv ==
    ASSUME SessionBounds, S!IInv, NEW b \in Browser, S!OpenSocket(b)
    PROVE  S!IInv'
  <1>0. S!TypeOK
    BY DEF S!IInv
  <1>1. /\ S!Answer(b) /\ request[b].pc = "checked" /\ socket[b].pc = "none"
        /\ socket' = [socket EXCEPT ![b] = [pc |-> "connecting", session |-> request[b].own]]
        /\ UNCHANGED <<live, sessions, deleted, cookie, stream, channel, fed, events, silent, left, failures>>
        /\ late' = IF request[b].own \in live \/ S!Pending(request[b].own) THEN late ELSE late \cup {b}
    BY DEF S!OpenSocket, S!rows, S!feed
  <1>2. /\ request' \in [Browser -> [pc : {"idle", "created", "checked", "ended", "logout"},
                                    own : 0..sessions, target : 0..sessions]]
        /\ request'[b] = [pc |-> "idle", own |-> 0, target |-> 0]
        /\ \A c \in Browser : c # b => request'[c] = request[c]
    BY <1>0, <1>1, AnswerStep
  <1>3. /\ socket' \in [Browser -> [pc : {"none", "connecting", "open", "closing"}, session : 0..sessions]]
        /\ socket'[b].pc = "connecting" /\ socket'[b].session = request[b].own
        /\ \A c \in Browser : c # b => socket'[c] = socket[c]
    BY <1>0, <1>1, RequestNames DEF S!TypeOK
  <1>4. ~fed[b] /\ late \subseteq late' /\ late' \subseteq Browser
    BY <1>0, <1>1 DEF S!TypeOK
  <1>5. S!TypeOK'
    BY <1>0, <1>1, <1>2, <1>3, <1>4 DEF S!TypeOK, S!Event
  <1>6. PICK s : s = request[b].own
    OBVIOUS
  <1>7. S!Accounted(b, s)'
    <2>1. S!Pending(s) => S!Pending(s)'
      BY <1>1, <1>2 DEF S!Pending
    <2>2. s \in live' \/ S!Pending(s)' \/ b \in late'
      BY <1>1, <1>6, <2>1
    <2>3. QED
      BY <2>2 DEF S!Accounted
  <1>8. s # 0
    BY <1>1, <1>6 DEF S!IInv, S!Named
  <1>9. \A c \in Browser : request'[c] = request[c] \/ (request[c].pc = "checked" /\ request'[c].pc = "idle")
    BY <1>1, <1>2
  <1>10. QED
    BY <1>1, <1>3, <1>4, <1>5, <1>6, <1>7, <1>8, <1>9, OneSocketInv

LEMMA SubscribeInv ==
    ASSUME SessionBounds, S!IInv, NEW b \in Browser, S!Subscribe(b)
    PROVE  S!IInv'
  <1>0. S!TypeOK
    BY DEF S!IInv
  <1>1. /\ socket[b].pc = "connecting" /\ socket' = [socket EXCEPT ![b].pc = "open"]
        /\ fed' = [fed EXCEPT ![b] = TRUE]
        /\ UNCHANGED <<live, sessions, deleted, cookie, request, stream, channel, events, silent, late, left, failures>>
    BY DEF S!Subscribe, S!rows, S!history
  <1>2. /\ socket' \in [Browser -> [pc : {"none", "connecting", "open", "closing"}, session : 0..sessions]]
        /\ socket'[b].pc = "open" /\ socket'[b].session = socket[b].session
        /\ \A c \in Browser : c # b => socket'[c] = socket[c]
    BY <1>0, <1>1 DEF S!TypeOK
  <1>3. fed' \in [Browser -> BOOLEAN] /\ \A c \in Browser : c # b => fed'[c] = fed[c]
    BY <1>0, <1>1 DEF S!TypeOK
  <1>4. S!TypeOK'
    BY <1>0, <1>1, <1>2, <1>3 DEF S!TypeOK, S!Event
  <1>5. PICK s : s = socket[b].session
    OBVIOUS
  <1>6. s # 0 /\ S!Accounted(b, s)
    BY <1>1, <1>5 DEF S!IInv, S!Named, S!ConnectingInTime
  <1>7. S!Accounted(b, s)'
    BY <1>1, <1>6 DEF S!Accounted, S!Pending
  <1>8. QED
    BY <1>1, <1>2, <1>3, <1>4, <1>5, <1>6, <1>7, OneSocketInv

LEMMA ForwardInv ==
    ASSUME SessionBounds, S!IInv, NEW b \in Browser, S!Forward(b)
    PROVE  S!IInv'
  <1>0. S!TypeOK
    BY DEF S!IInv
  <1>1. /\ fed[b] /\ stream[b] # <<>> /\ stream[b] \in Seq(S!Event) /\ channel[b] \in Seq(S!Event)
        /\ UNCHANGED <<live, sessions, deleted, cookie, request, socket, events, silent, late, left, failures>>
    BY <1>0 DEF S!Forward, S!rows, S!history, S!TypeOK
  <1>2. PICK s : s = socket[b].session
    OBVIOUS
  <1>3. S!Accounted(b, s) => S!Accounted(b, s)'
    BY <1>1 DEF S!Accounted, S!Pending
  <1>4. socket[b].pc \in {"open", "closing"} /\ s # 0
    BY <1>0, <1>1, <1>2 DEF S!TypeOK, S!IInv, S!Named
  <1>5. socket[b].pc = "open" => S!Accounted(b, s) \/ S!OnItsWay(b, s)
    BY <1>1, <1>2 DEF S!IInv, S!SocketHasSession
  <1>6. CASE Len(channel[b]) <= Buffer
    <2>1. /\ channel' = [channel EXCEPT ![b] = Append(channel[b], Head(stream[b]))]
          /\ stream' = [stream EXCEPT ![b] = Tail(stream[b])] /\ fed' = fed
      BY <1>6 DEF S!Forward
    <2>2. /\ Head(stream[b]) \in S!Event /\ Tail(stream[b]) \in Seq(S!Event)
          /\ Append(channel[b], Head(stream[b])) \in Seq(S!Event)
          /\ Len(Append(channel[b], Head(stream[b]))) = Len(channel[b]) + 1
      BY <1>1
    <2>3. /\ channel' \in [Browser -> Seq(S!Event)] /\ channel'[b] = Append(channel[b], Head(stream[b]))
          /\ stream' \in [Browser -> Seq(S!Event)] /\ stream'[b] = Tail(stream[b])
          /\ \A c \in Browser : c # b => channel'[c] = channel[c] /\ stream'[c] = stream[c]
      BY <1>0, <2>1, <2>2 DEF S!TypeOK
    <2>4. \A c \in Browser : Len(channel'[c]) <= Buffer + 1
      <3>1. Len(channel'[b]) <= Buffer + 1
        BY <1>1, <1>6, <2>2, <2>3 DEF SessionBounds
      <3>2. QED
        BY <1>0, <2>3, <3>1 DEF S!TypeOK
    <2>5. S!TypeOK'
      BY <1>0, <1>1, <2>1, <2>3, <2>4 DEF S!TypeOK, S!Event
    <2>6. ASSUME S!OnItsWay(b, s)
          PROVE  S!OnItsWay(b, s)'
      <3>1. CASE \E i \in 1..Len(stream[b]) : stream[b][i] = s
        <4>1. PICK i \in 1..Len(stream[b]) : stream[b][i] = s
          BY <3>1
        <4>2. CASE i = 1
          <5>1. /\ Len(channel[b]) + 1 \in 1..Len(channel'[b])
                /\ channel'[b][Len(channel[b]) + 1] = s
            BY <1>1, <2>2, <2>3, <4>1, <4>2
          <5>2. QED
            BY <5>1 DEF S!OnItsWay
        <4>3. CASE i # 1
          <5>1. i - 1 \in 1..Len(stream'[b]) /\ stream'[b][i - 1] = s
            BY <1>1, <2>3, <4>1, <4>3
          <5>2. QED
            BY <5>1 DEF S!OnItsWay
        <4>4. QED
          BY <4>2, <4>3
      <3>2. CASE \E i \in 1..Len(channel[b]) : channel[b][i] = s
        <4>1. PICK i \in 1..Len(channel[b]) : channel[b][i] = s
          BY <3>2
        <4>2. i \in 1..Len(channel'[b]) /\ channel'[b][i] = s
          BY <1>1, <2>2, <2>3, <4>1
        <4>3. QED
          BY <4>2 DEF S!OnItsWay
      <3>3. QED
        BY <2>6, <3>1, <3>2 DEF S!OnItsWay
    <2>7. QED
      BY <1>1, <1>2, <1>3, <1>4, <1>5, <2>1, <2>3, <2>5, <2>6, OneSocketInv
  <1>7. CASE ~(Len(channel[b]) <= Buffer)
    <2>1. /\ fed' = [fed EXCEPT ![b] = FALSE] /\ stream' = [stream EXCEPT ![b] = <<>>]
          /\ channel' = channel
      BY <1>7 DEF S!Forward
    <2>2. /\ fed' \in [Browser -> BOOLEAN] /\ ~fed'[b] /\ stream' \in [Browser -> Seq(S!Event)]
          /\ \A c \in Browser : c # b => fed'[c] = fed[c] /\ stream'[c] = stream[c]
      BY <1>0, <2>1 DEF S!TypeOK
    <2>3. S!TypeOK'
      BY <1>0, <1>1, <2>1, <2>2 DEF S!TypeOK, S!Event
    <2>4. QED
      BY <1>1, <1>2, <1>4, <2>1, <2>2, <2>3, OneSocketInv
  <1>8. QED
    BY <1>6, <1>7

LEMMA HandleInv ==
    ASSUME SessionBounds, S!IInv, NEW b \in Browser, S!Handle(b)
    PROVE  S!IInv'
  <1>0. S!TypeOK
    BY DEF S!IInv
  <1>1. /\ channel[b] # <<>> /\ channel[b] \in Seq(S!Event)
        /\ channel' = [channel EXCEPT ![b] = Tail(channel[b])]
        /\ UNCHANGED <<live, sessions, deleted, cookie, request, stream, fed, events, silent, late, left, failures>>
    BY <1>0 DEF S!Handle, S!rows, S!history, S!TypeOK
  <1>2. Tail(channel[b]) \in Seq(S!Event) /\ Len(Tail(channel[b])) = Len(channel[b]) - 1
    BY <1>1
  <1>3. /\ channel' \in [Browser -> Seq(S!Event)] /\ channel'[b] = Tail(channel[b])
        /\ \A c \in Browser : c # b => channel'[c] = channel[c]
    BY <1>0, <1>1, <1>2 DEF S!TypeOK
  <1>4. \A c \in Browser : Len(channel'[c]) <= Buffer + 1
    <2>1. Len(channel'[b]) <= Buffer + 1
      BY <1>0, <1>1, <1>2, <1>3 DEF S!TypeOK, SessionBounds
    <2>2. QED
      BY <1>0, <1>3, <2>1 DEF S!TypeOK
  <1>5. /\ socket' \in [Browser -> [pc : {"none", "connecting", "open", "closing"}, session : 0..sessions]]
        /\ socket'[b].session = socket[b].session
        /\ \A c \in Browser : c # b => socket'[c] = socket[c]
        /\ socket'[b].pc = "closing" \/ (Head(channel[b]) # socket[b].session /\ socket' = socket)
    <2>1. CASE Head(channel[b]) = socket[b].session
      <3>1. socket' = [socket EXCEPT ![b].pc = "closing"]
        BY <2>1 DEF S!Handle
      <3>2. QED
        BY <1>0, <3>1 DEF S!TypeOK
    <2>2. CASE Head(channel[b]) # socket[b].session
      BY <1>0, <2>2 DEF S!Handle, S!TypeOK
    <2>3. QED
      BY <2>1, <2>2
  <1>6. S!TypeOK'
    <2>1. \A c \in Browser : fed'[c] => socket'[c].pc \in {"open", "closing"}
      BY <1>0, <1>1, <1>5 DEF S!TypeOK
    <2>2. QED
      BY <1>0, <1>1, <1>3, <1>4, <1>5, <2>1 DEF S!TypeOK, S!Event
  <1>7. PICK s : s = socket[b].session
    OBVIOUS
  <1>8. socket[b].pc \in {"open", "closing"} /\ s # 0 /\ socket'[b].pc # "connecting"
    BY <1>0, <1>1, <1>5, <1>7 DEF S!TypeOK, S!IInv, S!Named
  <1>9. S!Accounted(b, s) => S!Accounted(b, s)'
    BY <1>1 DEF S!Accounted, S!Pending
  <1>10. ASSUME socket'[b].pc = "open", S!OnItsWay(b, s)
         PROVE  S!OnItsWay(b, s)'
    <2>1. Head(channel[b]) # s
      BY <1>5, <1>7, <1>10
    <2>2. CASE \E i \in 1..Len(stream[b]) : stream[b][i] = s
      BY <1>1, <2>2 DEF S!OnItsWay
    <2>3. CASE \E i \in 1..Len(channel[b]) : channel[b][i] = s
      <3>1. PICK i \in 1..Len(channel[b]) : channel[b][i] = s
        BY <2>3
      <3>2. i - 1 \in 1..Len(channel'[b]) /\ channel'[b][i - 1] = s
        BY <1>1, <1>3, <2>1, <3>1
      <3>3. QED
        BY <3>2 DEF S!OnItsWay
    <2>4. QED
      BY <1>10, <2>2, <2>3 DEF S!OnItsWay
  <1>11. socket'[b].pc = "open" => S!Accounted(b, s)' \/ S!OnItsWay(b, s)' \/ ~fed'[b]
    <2> SUFFICES ASSUME socket'[b].pc = "open", fed[b]
                 PROVE  S!Accounted(b, s)' \/ S!OnItsWay(b, s)'
      BY <1>1
    <2>1. socket[b].pc = "open"
      BY <1>5
    <2>2. S!Accounted(b, s) \/ S!OnItsWay(b, s)
      BY <1>7, <2>1 DEF S!IInv, S!SocketHasSession
    <2>3. QED
      BY <1>9, <1>10, <2>2
  <1>12. QED
    BY <1>1, <1>3, <1>5, <1>6, <1>7, <1>8, <1>11, OneSocketInv

LEMMA StopInv ==
    ASSUME SessionBounds, S!IInv, NEW b \in Browser, S!Stop(b)
    PROVE  S!IInv'
  <1>0. S!TypeOK
    BY DEF S!IInv
  <1>1. /\ socket' = [socket EXCEPT ![b] = [pc |-> "none", session |-> 0]]
        /\ stream' = [stream EXCEPT ![b] = <<>>] /\ channel' = [channel EXCEPT ![b] = <<>>]
        /\ fed' = [fed EXCEPT ![b] = FALSE] /\ late' = late \ {b}
        /\ UNCHANGED <<live, sessions, deleted, cookie, request, events, silent, left, failures>>
    BY DEF S!Stop, S!NoSocket, S!rows
  <1>2. [pc |-> "none", session |-> 0] \in
            [pc : {"none", "connecting", "open", "closing"}, session : 0..sessions]
    BY <1>0 DEF S!TypeOK
  <1>3. /\ socket' \in [Browser -> [pc : {"none", "connecting", "open", "closing"}, session : 0..sessions]]
        /\ socket'[b] = [pc |-> "none", session |-> 0]
        /\ \A c \in Browser : c # b => socket'[c] = socket[c]
    BY <1>0, <1>1, <1>2 DEF S!TypeOK
  <1>4. /\ stream' \in [Browser -> Seq(S!Event)] /\ channel' \in [Browser -> Seq(S!Event)]
        /\ fed' \in [Browser -> BOOLEAN] /\ channel'[b] = <<>> /\ ~fed'[b]
        /\ \A c \in Browser :
             c # b => stream'[c] = stream[c] /\ channel'[c] = channel[c] /\ fed'[c] = fed[c]
    BY <1>0, <1>1 DEF S!TypeOK
  <1>5. S!TypeOK'
    <2>1. Len(channel'[b]) <= Buffer + 1
      BY <1>4 DEF SessionBounds
    <2>2. \A c \in Browser :
            /\ Len(channel'[c]) <= Buffer + 1
            /\ fed'[c] \/ channel'[c] # <<>> => socket'[c].pc \in {"open", "closing"}
      BY <1>0, <1>3, <1>4, <2>1 DEF S!TypeOK
    <2>3. QED
      BY <1>0, <1>1, <1>3, <1>4, <2>2 DEF S!TypeOK, S!Event
  <1>6. PICK s : s = 0
    OBVIOUS
  <1>7. socket'[b].session = s /\ socket'[b].pc = "none"
    BY <1>3, <1>6
  <1>8. QED
    BY <1>1, <1>3, <1>4, <1>5, <1>7, OneSocketInv

-----------------------------------------------------------------------------
LEMMA SessionsStep == ASSUME SessionBounds, S!IInv, [S!Next]_(S!vars) PROVE S!IInv'
  <1>1. ASSUME NEW b \in Browser,
               \/ S!SignIn(b) \/ S!Check(b) \/ S!Page(b) \/ S!Logout(b) \/ S!DeleteUser(b)
               \/ S!OpenSocket(b) \/ S!RequestFails(b)
        PROVE  S!IInv'
    BY <1>1, SignInInv, CheckInv, AnsweredInv, RemovedInv, DeleteUserInv, OpenSocketInv, RequestFailsInv
  <1>2. ASSUME NEW b \in Browser, NEW s \in 1..sessions, S!RemoveSession(b, s)
        PROVE  S!IInv'
    BY <1>2, RemovedInv
  <1>3. ASSUME NEW b \in Browser, S!Serve(b)
        PROVE  S!IInv'
    BY <1>3, PublishEndInv, AnsweredInv DEF S!Serve
  <1>4. ASSUME NEW b \in Browser, S!Socket(b) \/ S!Disconnect(b)
        PROVE  S!IInv'
    BY <1>4, SubscribeInv, ForwardInv, HandleInv, StopInv
       DEF S!Socket, S!Drained, S!Closed, S!Disconnect
  <1>5. CASE S!SendOther
    BY <1>5, SendOtherInv
  <1>6. ASSUME NEW s \in S!Session, S!Expire(s)
        PROVE  S!IInv'
    BY <1>6, ExpireInv
  <1>7. CASE UNCHANGED S!vars
    <2>1. UNCHANGED <<live, sessions, deleted, cookie, request, socket, stream, channel, fed, events,
                      silent, late, left, failures>>
      BY <1>7 DEF S!vars, S!rows, S!feed, S!history
    <2>2. S!TypeOK'
      BY <2>1 DEF S!IInv, S!TypeOK, S!Event
    <2>3. S!Named' /\ S!OneSessionStays'
      BY <2>1 DEF S!IInv, S!Named, S!OneSessionStays
    <2>4. ASSUME NEW c \in Browser, NEW t, S!Accounted(c, t)
          PROVE  S!Accounted(c, t)'
      BY <2>1, <2>4 DEF S!Accounted, S!Pending
    <2>5. (S!ConnectingInTime /\ S!SocketHasSession)'
      BY <2>1, <2>4, SocketsStay
    <2>6. QED
      BY <2>2, <2>3, <2>5 DEF S!IInv
  <1>8. QED
    BY <1>1, <1>2, <1>3, <1>4, <1>5, <1>6, <1>7 DEF S!Next

\* An open socket belongs to a session that is live or whose end will reach it,
\* unless nobody was told of the end or the socket subscribed too late; and the
\* session page alone leaves a user a session.
THEOREM SessionsAreKept ==
    ASSUME SessionBounds PROVE S!Spec => []SessionsKept
  <1>1. S!Init => S!IInv
    BY SessionsInit
  <1>2. S!IInv /\ [S!Next]_(S!vars) => S!IInv'
    BY SessionsStep
  <1>3. S!IInv => SessionsKept
    BY DEF S!IInv, SessionsKept
  <1>4. QED
    BY <1>1, <1>2, <1>3, PTL DEF S!Spec
=============================================================================
