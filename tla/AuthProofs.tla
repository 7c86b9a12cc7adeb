----------------------------- MODULE AuthProofs ------------------------------
(***************************************************************************)
(* Theorems about Auth, for any sets of requests, clients and passwords,   *)
(* any durations and any limit of attempts.                                *)
(***************************************************************************)
EXTENDS Auth, FiniteSetTheorems, TLAPS

Pc == {"new", "boot", "save", "secure", "limit", "verify", "insert",
       "reset", "use", "refused", "done"}
Handler == [pc : Pc, ip : IP \cup {None}, password : Password \cup {None},
            token : Request \cup {None}, now : Time]

\* What a handler has read when it gets somewhere, and who holds the mutex.
HandlerInv ==
  \A r \in Request :
     /\ req[r].pc \in {"boot", "save", "secure", "limit", "verify", "insert", "reset"} =>
           req[r].ip \in IP /\ req[r].password \in Password
     /\ req[r].pc = "use" => req[r].token \in issued
     /\ req[r].pc \in {"save", "secure"} => mu = r
     /\ req[r].now <= now
     /\ r \in issued => req[r].pc \in {"reset", "done"}

\* While a bootstrap holds the mutex there is no password in memory, and the
\* one that it has saved is on disk.
PasswordInv ==
  /\ mu # None => users = None
  /\ \A r \in Request : req[r].pc = "secure" => store = req[r].password
  /\ ConfirmedPasswordStays

\* A session was issued, and ends within TTL of its last use.
SessionInv ==
  \A t \in Request : sessions[t] # 0 =>
     t \in issued /\ sessions[t] <= lastUse[t] + TTL

Counted(i) == {x \in passes[i] : attempts[i].WindowStart <= x[2]}

\* The attempts of a bucket were let through since its window began, each for
\* a request of its own.
LimiterInv ==
  \A i \in IP :
     /\ IsFiniteSet(passes[i])
     /\ \A x \in passes[i] : req[x[1]].pc \notin {"new", "limit"}
     /\ attempts[i].WindowStart <= now
     /\ attempts[i].Count <= Cardinality(Counted(i))

\* The attempts that a client made since it was last given a session: the
\* request of each has failed, or is under way for this client.
AttemptInv ==
  \A i \in IP : \A x \in passes[i] :
     /\ req[x[1]].pc \in {"verify", "insert", "reset", "done"}
     /\ req[x[1]].pc # "done" => req[x[1]].ip = i
     /\ x[1] \in issued => req[x[1]].pc = "reset"

IInv == TypeOK /\ HandlerInv /\ PasswordInv /\ SessionInv /\ LimiterInv /\ AttemptInv

-----------------------------------------------------------------------------
LEMMA Constants ==
  /\ TTL \in Nat /\ Window \in Nat /\ MaxAttempts \in Nat
  /\ TTL > 0 /\ Window > 0 /\ MaxAttempts > 0
  /\ MaxTime \in Nat /\ MaxCrashes \in Nat
BY PositiveAssumption, BoundsAssumption

LEMMA InitIInv == Init => IInv
<1> SUFFICES ASSUME Init PROVE IInv
  OBVIOUS
<1>1. TypeOK
  BY Constants, NoneAssumption DEF Init, TypeOK, Fresh, NoBucket, Time
<1>2. HandlerInv
  BY DEF Init, HandlerInv, Fresh
<1>3. PasswordInv
  BY DEF Init, PasswordInv, ConfirmedPasswordStays, Fresh
<1>4. SessionInv
  BY DEF Init, SessionInv
<1>5. LimiterInv
  <2>1. ASSUME NEW i \in IP
        PROVE  /\ passes[i] = {} /\ Counted(i) = {} /\ now = 0
               /\ attempts[i].WindowStart = 0 /\ attempts[i].Count = 0
    BY DEF Init, NoBucket, Counted
  <2>2. IsFiniteSet({}) /\ Cardinality({}) = 0
    BY FS_EmptySet
  <2> QED
    BY <2>1, <2>2 DEF LimiterInv
<1>6. AttemptInv
  BY DEF Init, AttemptInv
<1> QED
  BY <1>1, <1>2, <1>3, <1>4, <1>5, <1>6 DEF IInv

\* The mutex is held by the request that saves the store, and by nobody else.
MutexOK ==
  /\ mu \in {None} \cup Request
  /\ \A q \in Request : req[q].pc \in {"save", "secure"} <=> mu = q

\* The limiter is as it was, and no request gets in front of it again.
LEMMA LimiterStep ==
  ASSUME TypeOK, LimiterInv, UNCHANGED limiter, now' \in Time, now <= now',
         \A q \in Request : req'[q].pc \in {"new", "limit"} =>
                              req[q].pc \in {"new", "limit"}
  PROVE  LimiterInv'
<1> SUFFICES ASSUME NEW i \in IP
             PROVE  /\ IsFiniteSet(passes[i])'
                    /\ \A x \in passes'[i] : req'[x[1]].pc \notin {"new", "limit"}
                    /\ attempts'[i].WindowStart <= now'
                    /\ attempts'[i].Count <= Cardinality(Counted(i)')
  BY DEF LimiterInv
<1>1. /\ passes'[i] = passes[i] /\ passes[i] \subseteq Request \X Time
      /\ attempts'[i] = attempts[i] /\ attempts[i].WindowStart \in Time
      /\ Counted(i)' = Counted(i)
  BY DEF limiter, TypeOK, Counted
<1>2. ASSUME NEW x \in passes[i]
      PROVE  req'[x[1]].pc \notin {"new", "limit"}
  BY <1>1, <1>2 DEF LimiterInv
<1>3. attempts[i].WindowStart <= now'
  BY <1>1, Constants DEF LimiterInv, TypeOK, Time
<1>4. IsFiniteSet(passes[i]) /\ attempts[i].Count <= Cardinality(Counted(i))
  BY DEF LimiterInv
<1> QED
  BY <1>1, <1>2, <1>3, <1>4

\* Nobody's attempt is counted or forgotten, and if the request that moves made
\* one it fails or gets on.
LEMMA AttemptStep ==
  ASSUME TypeOK, HandlerInv, AttemptInv, NEW r \in Request, NEW h,
         \A q \in Request : req'[q] = IF q = r THEN h ELSE req[q],
         passes' = passes, issued' \subseteq issued \cup {r},
         req[r].pc \notin {"reset", "done"},
         req[r].pc \in {"verify", "insert"} =>
            /\ h.pc \in {"insert", "reset", "done"}
            /\ h.pc # "done" => h.ip = req[r].ip
            /\ r \in issued' => h.pc = "reset"
  PROVE  AttemptInv'
<1> SUFFICES ASSUME NEW i \in IP, NEW x \in passes[i]
             PROVE  /\ req'[x[1]].pc \in {"verify", "insert", "reset", "done"}
                    /\ req'[x[1]].pc # "done" => req'[x[1]].ip = i
                    /\ x[1] \in issued' => req'[x[1]].pc = "reset"
  BY DEF AttemptInv
<1>1. /\ req[x[1]].pc \in {"verify", "insert", "reset", "done"}
      /\ req[x[1]].pc # "done" => req[x[1]].ip = i
      /\ x[1] \in issued => req[x[1]].pc = "reset"
      /\ x[1] \in Request
  BY DEF AttemptInv, TypeOK
<1>2. CASE x[1] # r
  BY <1>1, <1>2
<1>3. CASE x[1] = r
  BY <1>1, <1>3
<1> QED
  BY <1>2, <1>3

\* What handler r may become without breaking what is known of handlers.
Sound(r, h) ==
  /\ h \in Handler
  /\ h.pc \in {"boot", "save", "secure", "limit", "verify", "insert", "reset"} =>
        h.ip \in IP /\ h.password \in Password
  /\ h.pc = "use" => h.token \in issued
  /\ h.now <= now
  /\ r \in issued => h.pc \in {"reset", "done"}

LEMMA HandlerStep ==
  ASSUME TypeOK, HandlerInv, NEW r \in Request, NEW h,
         req' = [req EXCEPT ![r] = h], now' = now,
         issued \subseteq issued', issued' \subseteq issued \cup {r},
         Sound(r, h), r \in issued' => h.pc \in {"reset", "done"},
         h.pc \in {"save", "secure"} => mu' = r,
         mu' # mu => mu \in {None, r}
  PROVE  /\ HandlerInv' /\ req' \in [Request -> Handler]
         /\ \A q \in Request : req'[q] = IF q = r THEN h ELSE req[q]
<1>1. req \in [Request -> Handler]
  BY DEF TypeOK, Handler, Pc
<1>2. \A q \in Request : req'[q] = IF q = r THEN h ELSE req[q]
  BY <1>1
<1>3. req' \in [Request -> Handler]
  BY <1>1 DEF Sound
<1>4. ASSUME NEW q \in Request, q # r, req[q].pc \in {"save", "secure"}
      PROVE  mu' = q
  BY <1>4, NoneAssumption DEF HandlerInv
<1>5. HandlerInv'
  <2> SUFFICES ASSUME NEW q \in Request
               PROVE  /\ req'[q].pc \in {"boot", "save", "secure", "limit",
                                          "verify", "insert", "reset"} =>
                            req'[q].ip \in IP /\ req'[q].password \in Password
                      /\ req'[q].pc = "use" => req'[q].token \in issued'
                      /\ req'[q].pc \in {"save", "secure"} => mu' = q
                      /\ req'[q].now <= now'
                      /\ q \in issued' => req'[q].pc \in {"reset", "done"}
    BY DEF HandlerInv
  <2>1. CASE q = r
    BY <1>2, <2>1 DEF Sound
  <2>2. CASE q # r
    BY <1>2, <1>4, <2>2 DEF HandlerInv
  <2> QED
    BY <2>1, <2>2
<1> QED
  BY <1>2, <1>3, <1>5

\* Steps that move one handler and touch no account, session or bucket.
LEMMA QuietStep ==
  ASSUME IInv, NEW r \in Request, NEW h,
         req' = [req EXCEPT ![r] = h], Sound(r, h),
         h.pc \notin {"save", "secure"}, req[r].pc \notin {"save", "secure"},
         h.pc \in {"new", "limit"} => req[r].pc = "new",
         req[r].pc \in {"new", "boot", "verify"},
         req[r].pc = "verify" => h.pc = "done" \/ (h.pc = "insert" /\ h.ip = req[r].ip),
         UNCHANGED <<clock, accounts, tokens, limiter>>
  PROVE  IInv'
<1> USE DEF IInv
<1>1. UNCHANGED <<crashes, now, mu, users, store, confirmed, sessions, cookie,
                  issued, lastUse, attempts, passes>>
  BY DEF clock, accounts, tokens, limiter
<1>2. /\ HandlerInv' /\ req' \in [Request -> Handler]
      /\ \A q \in Request : req'[q] = IF q = r THEN h ELSE req[q]
  BY <1>1, HandlerStep DEF Sound
<1>3. MutexOK'
  BY <1>1, <1>2 DEF TypeOK, MutexOK
<1>4. TypeOK'
  BY <1>1, <1>2, <1>3 DEF TypeOK, MutexOK, Handler, Pc
<1>5. PasswordInv'
  BY <1>1, <1>2 DEF PasswordInv, ConfirmedPasswordStays
<1>6. SessionInv'
  BY <1>1 DEF SessionInv
<1>7. LimiterInv'
  <2>1. now' \in Time /\ now <= now'
    BY <1>1, Constants DEF TypeOK, Time
  <2>2. \A q \in Request : req'[q].pc \in {"new", "limit"} =>
                             req[q].pc \in {"new", "limit"}
    BY <1>2
  <2> QED
    BY <2>1, <2>2, LimiterStep
<1>8. AttemptInv'
  <2>1. r \in issued' => req[r].pc \in {"reset", "done"}
    BY <1>1 DEF HandlerInv
  <2> QED
    BY <1>1, <1>2, <2>1, AttemptStep
<1> QED
  BY <1>2, <1>4, <1>5, <1>6, <1>7, <1>8

\* A handler that ends.
Ended(pc) == [Fresh EXCEPT !.pc = pc]

LEMMA EndedSound ==
  ASSUME IInv, NEW r \in Request, NEW pc \in {"refused", "done"},
         r \in issued => pc = "done"
  PROVE  Sound(r, Ended(pc)) /\ Ended(pc).pc = pc
<1>1. Ended(pc) \in Handler /\ Ended(pc).pc = pc /\ Ended(pc).now = 0
  BY Constants DEF Ended, Fresh, Handler, Pc, Time
<1>2. 0 <= now
  BY Constants DEF IInv, TypeOK, Time
<1> QED
  BY <1>1, <1>2 DEF Sound

\* Handlers that read their request and wait, or that compare a password.
LEMMA QuietSteps ==
  ASSUME IInv, NEW r \in Request,
         \/ \E p \in Password, i \in IP :
               handleAuthBootstrap(r, p, i) \/ handleAuthLogin(r, p, i)
         \/ \E t \in Request : withRole(r, t) \/ handleAuthMe(r, t)
         \/ verifyUserSecret(r)
  PROVE  IInv'
<1> USE DEF IInv
<1>1. req[r] \in Handler /\ now \in Nat /\ now \in Time
  BY Constants DEF TypeOK, Handler, Pc, Time
<1>2. r \in issued => req[r].pc \in {"reset", "done"}
  BY DEF HandlerInv
<1>3. ASSUME NEW p \in Password, NEW i \in IP, handleAuthBootstrap(r, p, i)
      PROVE  IInv'
  <2> DEFINE h == [req[r] EXCEPT !.pc = "boot", !.password = p, !.ip = i]
  <2>1. h \in Handler /\ h.pc = "boot" /\ h.password = p /\ h.ip = i /\ h.now = req[r].now
    BY <1>1 DEF Handler, Pc
  <2>2. Sound(r, h)
    BY <1>2, <1>3, <2>1 DEF Sound, HandlerInv, handleAuthBootstrap, At
  <2> QED
    BY <1>3, <2>1, <2>2, QuietStep DEF handleAuthBootstrap, At
<1>4. ASSUME NEW p \in Password, NEW i \in IP, handleAuthLogin(r, p, i)
      PROVE  IInv'
  <2> DEFINE h == [req[r] EXCEPT !.pc = "limit", !.password = p, !.ip = i, !.now = now]
  <2>1. h \in Handler /\ h.pc = "limit" /\ h.password = p /\ h.ip = i /\ h.now = now
    BY <1>1 DEF Handler, Pc
  <2>2. req[r].pc = "new"
    BY <1>4 DEF handleAuthLogin, At
  <2>3. Sound(r, h)
    BY <1>1, <1>2, <1>4, <2>1, <2>2 DEF Sound
  <2> QED
    BY <1>4, <2>1, <2>2, <2>3, QuietStep DEF handleAuthLogin
<1>5. ASSUME NEW t \in Request, withRole(r, t) \/ handleAuthMe(r, t)
      PROVE  IInv'
  <2> DEFINE h == [req[r] EXCEPT !.pc = "use", !.token = t, !.now = now]
  <2>1. h \in Handler /\ h.pc = "use" /\ h.token = t /\ h.now = now
    BY <1>1 DEF Handler, Pc
  <2>2. withRole(r, t)
    BY <1>5 DEF handleAuthMe
  <2>3. req[r].pc = "new" /\ t \in issued
    BY <2>2 DEF withRole, At, TokenFromRequest
  <2>4. Sound(r, h)
    BY <1>1, <1>2, <2>1, <2>3 DEF Sound
  <2> QED
    BY <2>1, <2>2, <2>3, <2>4, QuietStep DEF withRole
<1>6. CASE verifyUserSecret(r)
  <2> DEFINE h == [req[r] EXCEPT !.pc = "insert", !.now = now]
  <2>1. req[r].pc = "verify"
    BY <1>6 DEF verifyUserSecret, At
  <2>2. CASE req[r].password = users
    <3>1. /\ h \in Handler /\ h.pc = "insert" /\ h.now = now
          /\ h.ip = req[r].ip /\ h.password = req[r].password
      BY <1>1 DEF Handler, Pc
    <3>2. Sound(r, h)
      BY <1>1, <1>2, <2>1, <3>1 DEF Sound, HandlerInv
    <3> QED
      <4>1. req' = [req EXCEPT ![r] = h] /\ UNCHANGED <<clock, accounts, tokens, limiter>>
        BY <1>6, <2>2 DEF verifyUserSecret, GoNow
      <4> HIDE DEF h
      <4> QED
        BY <2>1, <3>1, <3>2, <4>1, QuietStep
  <2>3. CASE req[r].password # users
    <3>1. Sound(r, Ended("done")) /\ Ended("done").pc = "done"
      BY <1>2, EndedSound
    <3> QED
      BY <1>6, <2>1, <2>3, <3>1, QuietStep DEF verifyUserSecret, End, Ended
  <2> QED
    BY <2>2, <2>3
<1> QED
  BY <1>3, <1>4, <1>5, <1>6

-----------------------------------------------------------------------------
(* First-time bootstrap.                                                   *)

\* A step of the handler that takes, holds or releases the mutex.
LEMMA MutexStep ==
  ASSUME IInv, NEW r \in Request, NEW h,
         req' = [req EXCEPT ![r] = h], Sound(r, h),
         mu \in {None, r}, mu' \in {None, r},
         h.pc \in {"save", "secure"} <=> mu' = r, h.pc \notin {"new", "limit"},
         req[r].pc \in {"boot", "save", "secure"},
         {users', store', confirmed'} \subseteq Password \cup {None},
         UNCHANGED <<clock, tokens, limiter>>, PasswordInv'
  PROVE  IInv'
<1> USE DEF IInv
<1>1. UNCHANGED <<crashes, now, sessions, cookie, issued, lastUse, attempts, passes>>
  BY DEF clock, tokens, limiter
<1>2. /\ HandlerInv' /\ req' \in [Request -> Handler]
      /\ \A q \in Request : req'[q] = IF q = r THEN h ELSE req[q]
  BY <1>1, HandlerStep DEF Sound
<1>3. MutexOK'
  <2>1. mu' \in {None} \cup Request
    OBVIOUS
  <2>2. \A q \in Request : q # r => (req'[q].pc \in {"save", "secure"} <=> mu = q)
    BY <1>2 DEF TypeOK
  <2>3. \A q \in Request : q # r => mu # q /\ mu' # q
    BY NoneAssumption
  <2>4. req'[r].pc \in {"save", "secure"} <=> mu' = r
    BY <1>2
  <2> QED
    BY <2>1, <2>2, <2>3, <2>4 DEF MutexOK
<1>4. TypeOK'
  BY <1>1, <1>2, <1>3 DEF TypeOK, MutexOK, Handler, Pc
<1>5. SessionInv'
  BY <1>1 DEF SessionInv
<1>6. LimiterInv'
  <2>1. now' \in Time /\ now <= now'
    BY <1>1, Constants DEF TypeOK, Time
  <2>2. \A q \in Request : req'[q].pc \in {"new", "limit"} =>
                             req[q].pc \in {"new", "limit"}
    BY <1>2
  <2> QED
    BY <2>1, <2>2, LimiterStep
<1>7. AttemptInv'
  BY <1>1, <1>2, AttemptStep
<1> QED
  BY <1>2, <1>4, <1>5, <1>6, <1>7

LEMMA BootstrapAdminStep ==
  ASSUME IInv, NEW r \in Request, BootstrapAdmin(r)
  PROVE  IInv'
<1> USE DEF IInv
<1>1. /\ req[r].pc = "boot" /\ mu = None /\ r # None
      /\ req[r] \in Handler /\ r \notin issued
  BY NoneAssumption DEF BootstrapAdmin, At, TypeOK, Handler, Pc, HandlerInv
<1>2. CASE BootstrapRequired
  <2> DEFINE h == [req[r] EXCEPT !.pc = "save"]
  <2>1. /\ h \in Handler /\ h.pc = "save" /\ h.now = req[r].now
        /\ h.ip = req[r].ip /\ h.password = req[r].password
    BY <1>1 DEF Handler, Pc
  <2>2. Sound(r, h)
    BY <1>1, <2>1 DEF Sound, HandlerInv
  <2>3. /\ req' = [req EXCEPT ![r] = h] /\ mu' = r
        /\ UNCHANGED <<users, store, confirmed, clock, tokens, limiter>>
    BY <1>2 DEF BootstrapAdmin, Go, clock, tokens, limiter
  <2>4. \A q \in Request : req'[q] = IF q = r THEN h ELSE req[q]
    BY <2>3 DEF TypeOK
  <2>5. PasswordInv'
    BY <1>2, <2>1, <2>3, <2>4
       DEF PasswordInv, ConfirmedPasswordStays, BootstrapRequired
  <2>6. {users', store', confirmed'} \subseteq Password \cup {None}
    BY <2>3 DEF TypeOK
  <2>7. /\ mu \in {None, r} /\ mu' \in {None, r}
        /\ h.pc \in {"save", "secure"} <=> mu' = r
        /\ h.pc \notin {"new", "limit"}
        /\ req[r].pc \in {"boot", "save", "secure"}
    BY <1>1, <2>1, <2>3
  <2>8. req' = [req EXCEPT ![r] = h] /\ UNCHANGED <<clock, tokens, limiter>>
    BY <2>3
  <2> HIDE DEF h, IInv
  <2> QED
    BY <2>2, <2>5, <2>6, <2>7, <2>8, MutexStep
<1>3. CASE ~BootstrapRequired
  <2>1. Sound(r, Ended("done")) /\ Ended("done").pc = "done"
    BY EndedSound
  <2>2. req' = [req EXCEPT ![r] = Ended("done")]
        /\ UNCHANGED <<clock, accounts, tokens, limiter>>
    BY <1>3 DEF BootstrapAdmin, End, Ended, clock, accounts, tokens, limiter
  <2> QED
    BY <1>1, <2>1, <2>2, QuietStep
<1> QED
  BY <1>2, <1>3

\* Nobody but the holder of the mutex saves a password, and no password is
\* confirmed yet.
LEMMA HolderIsAlone ==
  ASSUME IInv, NEW r \in Request, req[r].pc \in {"save", "secure"}
  PROVE  /\ mu = r /\ r # None /\ users = None /\ confirmed = None
         /\ r \notin issued /\ req[r] \in Handler /\ req[r].password \in Password
         /\ \A q \in Request : q # r => req[q].pc \notin {"save", "secure"}
<1>1. mu = r /\ r # None /\ r \notin issued /\ req[r].password \in Password
  BY NoneAssumption DEF IInv, HandlerInv
<1>2. users = None /\ confirmed = None
  BY <1>1 DEF IInv, PasswordInv, ConfirmedPasswordStays
<1>3. req[r] \in Handler
  BY DEF IInv, TypeOK, Handler, Pc
<1>4. ASSUME NEW q \in Request, q # r PROVE req[q].pc \notin {"save", "secure"}
  BY <1>1, <1>4 DEF IInv, HandlerInv
<1> QED
  BY <1>1, <1>2, <1>3, <1>4

LEMMA saveAuthUsersToStoreStep ==
  ASSUME IInv, NEW r \in Request, saveAuthUsersToStore(r)
  PROVE  IInv'
<1> USE DEF IInv
<1>1. /\ req[r].pc = "save" /\ req \in [Request -> Handler]
      /\ UNCHANGED <<clock, users, confirmed, tokens, limiter>>
  BY DEF saveAuthUsersToStore, At, TypeOK, Handler, Pc
<1>2. /\ mu = r /\ r # None /\ users = None /\ confirmed = None
      /\ r \notin issued /\ req[r] \in Handler /\ req[r].password \in Password
      /\ \A q \in Request : q # r => req[q].pc \notin {"save", "secure"}
  BY <1>1, HolderIsAlone
<1>3. CASE store' = req[r].password /\ Go(r, "secure") /\ UNCHANGED mu
  <2> DEFINE h == [req[r] EXCEPT !.pc = "secure"]
  <2>1. /\ h \in Handler /\ h.pc = "secure" /\ h.now = req[r].now
        /\ h.ip = req[r].ip /\ h.password = req[r].password
    BY <1>2 DEF Handler, Pc
  <2>2. Sound(r, h)
    BY <1>1, <1>2, <2>1 DEF Sound, HandlerInv
  <2>3. req' = [req EXCEPT ![r] = h]
    BY <1>3 DEF Go
  <2>4. \A q \in Request : req'[q] = IF q = r THEN h ELSE req[q]
    BY <1>1, <2>3
  <2>5. PasswordInv'
    BY <1>1, <1>2, <1>3, <2>1, <2>4 DEF PasswordInv, ConfirmedPasswordStays
  <2> QED
    BY <1>1, <1>2, <1>3, <2>1, <2>2, <2>3, <2>5, MutexStep
<1>4. CASE End(r, "done") /\ mu' = None /\ UNCHANGED store
  <2>1. Sound(r, Ended("done")) /\ Ended("done").pc = "done"
    BY EndedSound
  <2>2. req' = [req EXCEPT ![r] = Ended("done")]
    BY <1>4 DEF End, Ended
  <2>3. \A q \in Request : req'[q] = IF q = r THEN Ended("done") ELSE req[q]
    BY <1>1, <2>2
  <2>4. PasswordInv'
    BY <1>1, <1>2, <1>4, <2>1, <2>3 DEF PasswordInv, ConfirmedPasswordStays
  <2> QED
    BY <1>1, <1>2, <1>4, <2>1, <2>2, <2>4, MutexStep DEF TypeOK
<1> QED
  BY <1>3, <1>4 DEF saveAuthUsersToStore

LEMMA secureStorePathPermissionsStep ==
  ASSUME IInv, NEW r \in Request, secureStorePathPermissions(r)
  PROVE  IInv'
<1> USE DEF IInv
<1>1. /\ req[r].pc = "secure" /\ req \in [Request -> Handler] /\ mu' = None
      /\ UNCHANGED <<clock, store, tokens, limiter>>
  BY DEF secureStorePathPermissions, At, TypeOK, Handler, Pc
<1>2. /\ mu = r /\ r # None /\ users = None /\ confirmed = None
      /\ r \notin issued /\ req[r] \in Handler /\ req[r].password \in Password
      /\ \A q \in Request : q # r => req[q].pc \notin {"save", "secure"}
  BY <1>1, HolderIsAlone
<1>3. CASE users' = req[r].password /\ confirmed' = req[r].password /\ Go(r, "verify")
  <2> DEFINE h == [req[r] EXCEPT !.pc = "verify"]
  <2>1. /\ h \in Handler /\ h.pc = "verify" /\ h.now = req[r].now
        /\ h.ip = req[r].ip /\ h.password = req[r].password
    BY <1>2 DEF Handler, Pc
  <2>2. Sound(r, h)
    BY <1>1, <1>2, <2>1 DEF Sound, HandlerInv
  <2>3. req' = [req EXCEPT ![r] = h]
    BY <1>3 DEF Go
  <2>4. \A q \in Request : req'[q] = IF q = r THEN h ELSE req[q]
    BY <1>1, <2>3
  <2>5. store = req[r].password
    BY <1>1 DEF PasswordInv
  <2>6. PasswordInv'
    BY <1>1, <1>2, <1>3, <2>1, <2>4, <2>5 DEF PasswordInv, ConfirmedPasswordStays
  <2> QED
    BY <1>1, <1>2, <1>3, <2>1, <2>2, <2>3, <2>5, <2>6, MutexStep
<1>4. CASE End(r, "done") /\ UNCHANGED <<users, confirmed>>
  <2>1. Sound(r, Ended("done")) /\ Ended("done").pc = "done"
    BY EndedSound
  <2>2. req' = [req EXCEPT ![r] = Ended("done")]
    BY <1>4 DEF End, Ended
  <2>3. \A q \in Request : req'[q] = IF q = r THEN Ended("done") ELSE req[q]
    BY <1>1, <2>2
  <2>4. PasswordInv'
    BY <1>1, <1>2, <1>4, <2>1, <2>3 DEF PasswordInv, ConfirmedPasswordStays
  <2> QED
    BY <1>1, <1>2, <1>4, <2>1, <2>2, <2>4, MutexStep DEF TypeOK
<1> QED
  BY <1>3, <1>4 DEF secureStorePathPermissions

-----------------------------------------------------------------------------
(* The limiter of logins.                                                  *)

\* A bucket that is kept is as it was; one that is deleted counts nothing.
LEMMA CurrentBuckets ==
  ASSUME TypeOK, NEW t \in Time
  PROVE  /\ Current(t) \in [IP -> [Count : 0 .. MaxAttempts, WindowStart : Time]]
         /\ \A i \in IP :
               \/ Current(t)[i] = NoBucket
               \/ Current(t)[i] = attempts[i] /\ t < attempts[i].WindowStart + Window
<1>1. NoBucket \in [Count : 0 .. MaxAttempts, WindowStart : Time]
  BY Constants DEF NoBucket, Time
<1>2. ASSUME NEW i \in IP
      PROVE  /\ Current(t)[i] \in [Count : 0 .. MaxAttempts, WindowStart : Time]
             /\ \/ Current(t)[i] = NoBucket
                \/ Current(t)[i] = attempts[i] /\ t < attempts[i].WindowStart + Window
  BY <1>1, Constants DEF Current, TypeOK, Time
<1> QED
  BY <1>2 DEF Current

\* The bucket of a client's next attempt.
Bucket(r) ==
  IF Current(req[r].now)[req[r].ip] = NoBucket
  THEN [NoBucket EXCEPT !.WindowStart = req[r].now]
  ELSE Current(req[r].now)[req[r].ip]

LEMMA BucketBegan ==
  ASSUME IInv, NEW r \in Request, req[r].pc = "limit"
  PROVE  /\ Bucket(r) \in [Count : 0 .. MaxAttempts, WindowStart : Time]
         /\ Bucket(r).WindowStart <= now
         /\ Bucket(r).Count = 0 \/ Bucket(r) = attempts[req[r].ip]
<1> DEFINE i == req[r].ip
<1>1. /\ i \in IP /\ req[r].now \in Time /\ req[r].now <= now
      /\ attempts[i].WindowStart <= now
  BY DEF IInv, HandlerInv, TypeOK, LimiterInv
<1>2. /\ Current(req[r].now)[i] \in [Count : 0 .. MaxAttempts, WindowStart : Time]
      /\ Current(req[r].now)[i] = NoBucket \/ Current(req[r].now)[i] = attempts[i]
  BY <1>1, CurrentBuckets DEF IInv
<1>3. CASE Current(req[r].now)[i] = NoBucket
  <2>1. Bucket(r) = [Count |-> 0, WindowStart |-> req[r].now]
    BY <1>3 DEF Bucket, NoBucket
  <2> QED
    BY <1>1, <2>1, Constants
<1>4. CASE Current(req[r].now)[i] # NoBucket
  BY <1>1, <1>2, <1>4 DEF Bucket
<1> QED
  BY <1>3, <1>4

\* The sessions and the limiter, as far as their types go.
StoresOK ==
  /\ {sessions, cookie} \subseteq [Request -> 0 .. MaxTime + TTL]
  /\ lastUse \in [Request -> Time]
  /\ attempts \in [IP -> [Count : 0 .. MaxAttempts, WindowStart : Time]]
  /\ passes \in [IP -> SUBSET (Request \X Time)]

\* Steps of a handler that have nothing to do with passwords.
LEMMA AccountsKept ==
  ASSUME IInv, NEW r \in Request, NEW h,
         req' = [req EXCEPT ![r] = h], Sound(r, h),
         req[r].pc \notin {"save", "secure"},
         h.pc \in {"verify", "reset", "refused", "done"},
         UNCHANGED <<crashes, now, mu, users, store, confirmed>>,
         issued' = issued \/ (issued' = issued \cup {r} /\ h.pc = "reset"),
         StoresOK', SessionInv', LimiterInv', AttemptInv'
  PROVE  IInv'
<1> USE DEF IInv
<1>1. UNCHANGED <<crashes, now, mu, users, store, confirmed>>
  OBVIOUS
<1>2. /\ HandlerInv' /\ req' \in [Request -> Handler]
      /\ \A q \in Request : req'[q] = IF q = r THEN h ELSE req[q]
  <2>1. issued \subseteq issued' /\ issued' \subseteq issued \cup {r}
    OBVIOUS
  <2>2. r \in issued' => h.pc \in {"reset", "done"}
    BY DEF Sound
  <2>3. h.pc \notin {"save", "secure"}
    OBVIOUS
  <2> QED
    BY <1>1, <2>1, <2>2, <2>3, HandlerStep
<1>3. MutexOK'
  BY <1>1, <1>2 DEF TypeOK, MutexOK
<1>4. issued' \subseteq Request
  BY DEF TypeOK
<1>5. TypeOK'
  BY <1>1, <1>2, <1>3, <1>4 DEF TypeOK, StoresOK, MutexOK, Handler, Pc
<1>6. PasswordInv'
  BY <1>1, <1>2 DEF PasswordInv, ConfirmedPasswordStays
<1> QED
  BY <1>2, <1>5, <1>6

LEMMA allowStep ==
  ASSUME IInv, NEW r \in Request, allow(r)
  PROVE  IInv'
<1> USE DEF IInv
<1> DEFINE i == req[r].ip
           buckets == Current(req[r].now)
<1>1. /\ req[r].pc = "limit" /\ i \in IP /\ req[r].now \in Time
      /\ req[r] \in Handler /\ req \in [Request -> Handler]
      /\ UNCHANGED <<clock, accounts, tokens>> /\ now' = now /\ now \in Time
      /\ r \notin issued
  BY DEF allow, At, HandlerInv, TypeOK, Handler, Pc, clock
<1>2. /\ buckets \in [IP -> [Count : 0 .. MaxAttempts, WindowStart : Time]]
      /\ \A j \in IP : buckets[j] = NoBucket \/ buckets[j] = attempts[j]
  BY <1>1, CurrentBuckets
<1>3. CASE Bucket(r).Count >= MaxAttempts
  <2>1. /\ attempts' = buckets /\ passes' = passes
        /\ req' = [req EXCEPT ![r] = Ended("refused")]
    BY <1>3 DEF allow, Bucket, End, Ended
  <2>2. Sound(r, Ended("refused")) /\ Ended("refused").pc = "refused"
    BY <1>1, EndedSound
  <2>3. \A q \in Request : req'[q] = IF q = r THEN Ended("refused") ELSE req[q]
    BY <1>1, <2>1
  <2>4. LimiterInv'
    <3> SUFFICES ASSUME NEW j \in IP
                 PROVE  /\ IsFiniteSet(passes[j])'
                        /\ \A x \in passes'[j] : req'[x[1]].pc \notin {"new", "limit"}
                        /\ attempts'[j].WindowStart <= now'
                        /\ attempts'[j].Count <= Cardinality(Counted(j)')
      BY DEF LimiterInv
    <3>1. IsFiniteSet(passes[j]) /\ passes'[j] = passes[j]
          /\ passes[j] \subseteq Request \X Time
      BY <2>1 DEF LimiterInv, TypeOK
    <3>2. \A x \in passes'[j] : req'[x[1]].pc \notin {"new", "limit"}
      BY <2>2, <2>3, <3>1 DEF LimiterInv
    <3>3. CASE buckets[j] = attempts[j]
      BY <1>1, <2>1, <3>1, <3>2, <3>3 DEF LimiterInv, Counted
    <3>4. CASE buckets[j] = NoBucket
      <4>1. attempts'[j].Count = 0 /\ attempts'[j].WindowStart = 0 /\ 0 <= now
        BY <1>1, <2>1, <3>4, Constants DEF NoBucket, Time
      <4>2. Cardinality(Counted(j)') \in Nat
        <5>1. Counted(j)' \subseteq passes[j]
          BY <3>1 DEF Counted
        <5> QED
          BY <3>1, <5>1, FS_Subset, FS_CardinalityType
      <4> QED
        BY <1>1, <3>1, <3>2, <4>1, <4>2
    <3> QED
      BY <1>2, <3>3, <3>4
  <2> QED
    <3>1. UNCHANGED <<crashes, now, mu, users, store, confirmed,
                      sessions, cookie, issued, lastUse>>
      BY <1>1 DEF clock, accounts, tokens
    <3>2. SessionInv'
      BY <3>1 DEF SessionInv
    <3>3. StoresOK'
      BY <1>2, <2>1, <3>1 DEF TypeOK, StoresOK
    <3>4. AttemptInv'
      BY <1>1, <2>1, <2>3, <3>1, AttemptStep
    <3> HIDE DEF IInv
    <3> QED
      BY <1>1, <2>1, <2>2, <2>4, <3>1, <3>2, <3>3, <3>4, AccountsKept
<1>4. CASE ~(Bucket(r).Count >= MaxAttempts)
  <2> DEFINE h == [req[r] EXCEPT !.pc = "verify"]
             b == [Bucket(r) EXCEPT !.Count = @ + 1]
  <2>1. /\ attempts' = [buckets EXCEPT ![i] = b]
        /\ passes' = [passes EXCEPT ![i] = @ \cup {<<r, now>>}]
        /\ req' = [req EXCEPT ![r] = h]
    BY <1>4 DEF allow, Bucket, Go
  <2>2. /\ h \in Handler /\ h.pc = "verify" /\ h.now = req[r].now
        /\ h.ip = req[r].ip /\ h.password = req[r].password
    BY <1>1 DEF Handler, Pc
  <2>3. Sound(r, h)
    BY <1>1, <2>2 DEF Sound, HandlerInv
  <2>4. \A q \in Request : req'[q] = IF q = r THEN h ELSE req[q]
    BY <1>1, <2>1
  <2>5. /\ Bucket(r) \in [Count : 0 .. MaxAttempts, WindowStart : Time]
        /\ Bucket(r).WindowStart <= now
        /\ Bucket(r).Count = 0 \/ Bucket(r) = attempts[i]
    BY <1>1, BucketBegan
  <2>6. /\ b \in [Count : 0 .. MaxAttempts, WindowStart : Time]
        /\ b.Count = Bucket(r).Count + 1 /\ b.WindowStart = Bucket(r).WindowStart
    BY <1>4, <2>5, Constants
  <2>7. /\ attempts' \in [IP -> [Count : 0 .. MaxAttempts, WindowStart : Time]]
        /\ passes' \in [IP -> SUBSET (Request \X Time)]
    BY <1>1, <1>2, <2>1, <2>6 DEF TypeOK
  <2>8. LimiterInv'
    <3> SUFFICES ASSUME NEW j \in IP
                 PROVE  /\ IsFiniteSet(passes[j])'
                        /\ \A x \in passes'[j] : req'[x[1]].pc \notin {"new", "limit"}
                        /\ attempts'[j].WindowStart <= now'
                        /\ attempts'[j].Count <= Cardinality(Counted(j)')
      BY DEF LimiterInv
    <3>1. /\ IsFiniteSet(passes[j]) /\ passes[j] \subseteq Request \X Time
          /\ \A x \in passes[j] : req[x[1]].pc \notin {"new", "limit"}
          /\ attempts[j].Count <= Cardinality(Counted(j))
          /\ attempts[j].WindowStart <= now
      BY DEF LimiterInv, TypeOK
    <3>2. \A x \in passes[j] : req'[x[1]].pc \notin {"new", "limit"}
      BY <2>2, <2>4, <3>1
    <3>3. CASE j # i
      <4>1. passes'[j] = passes[j] /\ attempts'[j] = buckets[j]
        BY <1>2, <2>1, <3>3 DEF TypeOK
      <4>2. CASE buckets[j] = attempts[j]
        <5>1. Counted(j)' = Counted(j)
          BY <4>1, <4>2 DEF Counted
        <5>2. attempts'[j] = attempts[j]
          BY <4>1, <4>2
        <5>3. attempts'[j].Count <= Cardinality(Counted(j)')
          BY <3>1, <5>1, <5>2
        <5>4. attempts'[j].WindowStart <= now'
          BY <1>1, <3>1, <5>2
        <5> QED
          BY <3>1, <3>2, <4>1, <5>3, <5>4
      <4>3. CASE buckets[j] = NoBucket
        <5>1. attempts'[j].Count = 0 /\ attempts'[j].WindowStart = 0 /\ 0 <= now
          BY <1>1, <4>1, <4>3, Constants DEF NoBucket, Time
        <5>2. Cardinality(Counted(j)') \in Nat
          <6>1. Counted(j)' \subseteq passes[j]
            BY <4>1 DEF Counted
          <6> QED
            BY <3>1, <6>1, FS_Subset, FS_CardinalityType
        <5> QED
          BY <1>1, <3>1, <3>2, <4>1, <5>1, <5>2
      <4> QED
        BY <1>2, <4>2, <4>3
    <3>4. CASE j = i
      <4>1. passes'[j] = passes[j] \cup {<<r, now>>} /\ attempts'[j] = b
        BY <1>2, <2>1, <3>4 DEF TypeOK
      <4>2. IsFiniteSet(passes'[j])
        <5>1. IsFiniteSet(passes[j])
          BY <3>1
        <5> HIDE DEF IInv
        <5>2. IsFiniteSet(passes[j] \cup {<<r, now>>})
          BY <5>1, FS_AddElement
        <5> QED
          BY <4>1, <5>2
      <4>3. ASSUME NEW x \in passes'[j] PROVE req'[x[1]].pc \notin {"new", "limit"}
        <5>1. CASE x \in passes[j]
          BY <3>2, <5>1
        <5>2. CASE x = <<r, now>>
          <6>1. x[1] = r
            BY <5>2
          <6> QED
            BY <2>2, <2>4, <6>1
        <5> QED
          BY <4>1, <5>1, <5>2
      <4>4. attempts'[j].WindowStart <= now' /\ b.WindowStart <= now
        BY <1>1, <2>5, <2>6, <4>1
      <4>5. attempts'[j].Count <= Cardinality(Counted(j)')
        <5> DEFINE kept == {x \in passes[j] : b.WindowStart <= x[2]}
        <5>1. IsFiniteSet(kept) /\ Cardinality(kept) \in Nat
          <6>1. kept \subseteq passes[j]
            OBVIOUS
          <6> QED
            BY <3>1, <6>1, FS_Subset, FS_CardinalityType
        <5>2. Counted(j)' = kept \cup {<<r, now>>}
          BY <4>1, <4>4 DEF Counted
        <5>3. <<r, now>> \notin kept
          BY <1>1, <3>1
        <5>4. Cardinality(Counted(j)') = Cardinality(kept) + 1
          BY <5>1, <5>2, <5>3, FS_AddElement
        <5>5. Bucket(r).Count <= Cardinality(kept)
          <6>1. CASE Bucket(r).Count = 0
            BY <5>1, <6>1
          <6>2. CASE Bucket(r) = attempts[i]
            <7>1. b.WindowStart = attempts[j].WindowStart
              BY <2>6, <3>4, <6>2
            <7>2. Counted(j) = kept
              BY <7>1 DEF Counted
            <7>3. Bucket(r) = attempts[j]
              BY <3>4, <6>2
            <7>4. attempts[j].Count <= Cardinality(Counted(j))
              BY <3>1
            <7> HIDE DEF kept
            <7> QED
              BY <7>2, <7>3, <7>4
          <6> QED
            BY <2>5, <6>1, <6>2
        <5>6. attempts'[j].Count = Bucket(r).Count + 1
          BY <2>6, <4>1
        <5>7. Bucket(r).Count \in Nat
          BY <2>5, Constants
        <5> QED
          BY <5>1, <5>4, <5>5, <5>6, <5>7
      <4> QED
        BY <4>2, <4>3, <4>4, <4>5
    <3> QED
      BY <3>3, <3>4
  <2> QED
    <3>1. UNCHANGED <<crashes, now, mu, users, store, confirmed,
                      sessions, cookie, issued, lastUse>>
      BY <1>1 DEF clock, accounts, tokens
    <3>2. SessionInv'
      BY <3>1 DEF SessionInv
    <3>3. StoresOK'
      BY <2>7, <3>1 DEF TypeOK, StoresOK
    <3>4. AttemptInv'
      <4> SUFFICES ASSUME NEW j \in IP, NEW x \in passes'[j]
                   PROVE  /\ req'[x[1]].pc \in {"verify", "insert", "reset", "done"}
                          /\ req'[x[1]].pc # "done" => req'[x[1]].ip = j
                          /\ x[1] \in issued' => req'[x[1]].pc = "reset"
        BY DEF AttemptInv
      <4>1. CASE x \in passes[j]
        <5>1. /\ req[x[1]].pc \in {"verify", "insert", "reset", "done"}
              /\ req[x[1]].pc # "done" => req[x[1]].ip = j
              /\ x[1] \in issued => req[x[1]].pc = "reset"
              /\ x[1] \in Request
          BY <4>1 DEF AttemptInv, TypeOK
        <5>2. x[1] # r
          BY <1>1, <5>1
        <5> QED
          BY <2>4, <3>1, <5>1, <5>2
      <4>2. CASE x \notin passes[j]
        <5>1. j = i /\ x = <<r, now>>
          BY <2>1, <4>2 DEF TypeOK
        <5>2. x[1] = r
          BY <5>1
        <5> QED
          BY <1>1, <2>2, <2>4, <3>1, <5>1, <5>2
      <4> QED
        BY <4>1, <4>2
    <3> HIDE DEF IInv, h
    <3> QED
      BY <1>1, <2>1, <2>2, <2>3, <2>8, <3>1, <3>2, <3>3, <3>4, AccountsKept
<1> QED
  BY <1>3, <1>4
-----------------------------------------------------------------------------
(* Sessions.                                                               *)

\* Cleanup keeps a session or ends it.
LEMMA UnexpiredSessions ==
  ASSUME TypeOK, NEW t \in Time
  PROVE  /\ Unexpired(t) \in [Request -> 0 .. MaxTime + TTL]
         /\ \A s \in Request :
               Unexpired(t)[s] = IF t >= sessions[s] THEN 0 ELSE sessions[s]
<1>1. \A s \in Request :
         Unexpired(t)[s] = IF t >= sessions[s] THEN 0 ELSE sessions[s]
  BY DEF Unexpired
<1>2. sessions \in [Request -> 0 .. MaxTime + TTL]
  BY DEF TypeOK
<1>3. Unexpired(t) \in [Request -> 0 .. MaxTime + TTL]
  BY <1>2, Constants DEF Unexpired
<1> QED
  BY <1>1, <1>3

LEMMA LoginStep ==
  ASSUME IInv, NEW r \in Request, Login(r)
  PROVE  IInv'
<1> USE DEF IInv
<1> DEFINE h == [req[r] EXCEPT !.pc = "reset"]
<1>1. /\ req[r].pc = "insert" /\ req[r] \in Handler /\ req \in [Request -> Handler]
      /\ req[r].now \in Time /\ r \notin issued
  BY DEF Login, At, TypeOK, Handler, Pc, HandlerInv
<1>2. /\ h \in Handler /\ h.pc = "reset" /\ h.now = req[r].now
      /\ h.ip = req[r].ip /\ h.password = req[r].password
  BY <1>1 DEF Handler, Pc
<1>3. Sound(r, h)
  BY <1>1, <1>2 DEF Sound, HandlerInv
<1>4. /\ req' = [req EXCEPT ![r] = h]
      /\ sessions' = [Unexpired(req[r].now) EXCEPT ![r] = req[r].now + TTL]
      /\ lastUse' = [lastUse EXCEPT ![r] = req[r].now]
      /\ issued' = issued \cup {r} /\ cookie' = cookie
      /\ UNCHANGED <<clock, accounts, limiter>>
  BY DEF Login, Go
<1>5. /\ Unexpired(req[r].now) \in [Request -> 0 .. MaxTime + TTL]
      /\ \A s \in Request : Unexpired(req[r].now)[s] # 0 =>
                           Unexpired(req[r].now)[s] = sessions[s]
  BY <1>1, UnexpiredSessions
<1>6. req[r].now + TTL \in 0 .. MaxTime + TTL
  BY <1>1, Constants DEF Time
<1>7. /\ sessions' \in [Request -> 0 .. MaxTime + TTL]
      /\ lastUse' \in [Request -> Time] /\ cookie' \in [Request -> 0 .. MaxTime + TTL]
  BY <1>1, <1>4, <1>5, <1>6 DEF TypeOK
<1>8. SessionInv'
  <2> SUFFICES ASSUME NEW t \in Request, sessions'[t] # 0
               PROVE  t \in issued' /\ sessions'[t] <= lastUse'[t] + TTL
    BY DEF SessionInv
  <2>1. CASE t = r
    <3>1. sessions'[t] = req[r].now + TTL /\ lastUse'[t] = req[r].now
      BY <1>4, <1>5, <2>1 DEF TypeOK
    <3> QED
      BY <1>1, <1>4, <2>1, <3>1, Constants DEF Time
  <2>2. CASE t # r
    <3>1. sessions'[t] = sessions[t] /\ lastUse'[t] = lastUse[t]
      BY <1>4, <1>5, <2>2 DEF TypeOK
    <3> QED
      BY <1>4, <3>1 DEF SessionInv
  <2> QED
    BY <2>1, <2>2
<1>9. LimiterInv'
  <2>1. now' \in Time /\ now <= now'
    BY <1>4, Constants DEF TypeOK, Time, clock
  <2>2. \A q \in Request : req'[q] = IF q = r THEN h ELSE req[q]
    BY <1>1, <1>4
  <2>3. \A q \in Request : req'[q].pc \in {"new", "limit"} =>
                             req[q].pc \in {"new", "limit"}
    BY <1>2, <2>2
  <2> QED
    BY <1>4, <2>1, <2>3, LimiterStep
<1>10. StoresOK' /\ UNCHANGED <<crashes, now, mu, users, store, confirmed>>
  BY <1>4, <1>7 DEF TypeOK, StoresOK, limiter, clock, accounts
<1>11. AttemptInv'
  <2>1. \A q \in Request : req'[q] = IF q = r THEN h ELSE req[q]
    BY <1>1, <1>4
  <2> QED
    BY <1>1, <1>2, <1>4, <2>1, AttemptStep DEF limiter
<1> HIDE DEF IInv, h
<1> QED
  BY <1>1, <1>2, <1>3, <1>4, <1>8, <1>9, <1>10, <1>11, AccountsKept

LEMMA resetStep ==
  ASSUME IInv, NEW r \in Request, reset(r)
  PROVE  IInv'
<1> USE DEF IInv
<1> DEFINE i == req[r].ip
<1>1. /\ req[r].pc = "reset" /\ req \in [Request -> Handler]
      /\ i \in IP /\ now \in Time /\ now \in Nat
  BY Constants DEF reset, At, TypeOK, Handler, Pc, HandlerInv, Time
<1>2. /\ req' = [req EXCEPT ![r] = Ended("done")]
      /\ attempts' = [attempts EXCEPT ![i] = NoBucket]
      /\ passes' = [passes EXCEPT ![i] = {}]
      /\ cookie' = [cookie EXCEPT ![r] = now + TTL]
      /\ UNCHANGED <<clock, accounts, sessions, issued, lastUse>>
  BY DEF reset, End, Ended, SetSessionCookie
<1>3. Sound(r, Ended("done")) /\ Ended("done").pc = "done"
  BY EndedSound
<1>4. NoBucket \in [Count : 0 .. MaxAttempts, WindowStart : Time]
      /\ now + TTL \in 0 .. MaxTime + TTL
  BY <1>1, Constants DEF NoBucket, Time
<1>5. /\ attempts' \in [IP -> [Count : 0 .. MaxAttempts, WindowStart : Time]]
      /\ passes' \in [IP -> SUBSET (Request \X Time)]
      /\ cookie' \in [Request -> 0 .. MaxTime + TTL]
  BY <1>1, <1>2, <1>4 DEF TypeOK
<1>6. SessionInv' /\ StoresOK' /\ UNCHANGED <<crashes, now, mu, users, store, confirmed>>
  BY <1>2, <1>5 DEF SessionInv, StoresOK, TypeOK, clock, accounts
<1>7. \A q \in Request : req'[q] = IF q = r THEN Ended("done") ELSE req[q]
  BY <1>1, <1>2
<1>8. LimiterInv'
  <2> SUFFICES ASSUME NEW j \in IP
               PROVE  /\ IsFiniteSet(passes[j])'
                      /\ \A x \in passes'[j] : req'[x[1]].pc \notin {"new", "limit"}
                      /\ attempts'[j].WindowStart <= now'
                      /\ attempts'[j].Count <= Cardinality(Counted(j)')
    BY DEF LimiterInv
  <2>1. CASE j = i
    <3>1. passes'[j] = {} /\ attempts'[j].Count = 0 /\ attempts'[j].WindowStart = 0
      BY <1>1, <1>2, <2>1 DEF TypeOK, NoBucket
    <3>2. Counted(j)' = {}
      BY <3>1 DEF Counted
    <3>3. now' = now /\ 0 <= now
      BY <1>1, <1>2 DEF clock
    <3> QED
      BY <3>1, <3>2, <3>3, FS_EmptySet
  <2>2. CASE j # i
    <3>1. /\ passes'[j] = passes[j] /\ passes[j] \subseteq Request \X Time
          /\ attempts'[j] = attempts[j] /\ now' = now
      BY <1>1, <1>2, <2>2 DEF TypeOK, clock
    <3>2. Counted(j)' = Counted(j)
      BY <3>1 DEF Counted
    <3>3. \A x \in passes[j] : req'[x[1]].pc \notin {"new", "limit"}
      BY <1>3, <1>7, <3>1 DEF LimiterInv
    <3> QED
      BY <3>1, <3>2, <3>3 DEF LimiterInv
  <2> QED
    BY <2>1, <2>2
<1>9. AttemptInv'
  <2> SUFFICES ASSUME NEW j \in IP, NEW x \in passes'[j]
               PROVE  /\ req'[x[1]].pc \in {"verify", "insert", "reset", "done"}
                      /\ req'[x[1]].pc # "done" => req'[x[1]].ip = j
                      /\ x[1] \in issued' => req'[x[1]].pc = "reset"
    BY DEF AttemptInv
  <2>1. j # i /\ x \in passes[j]
    BY <1>1, <1>2 DEF TypeOK
  <2>2. /\ req[x[1]].pc \in {"verify", "insert", "reset", "done"}
        /\ req[x[1]].pc # "done" => req[x[1]].ip = j
        /\ x[1] \in issued => req[x[1]].pc = "reset"
        /\ x[1] \in Request
    BY <2>1 DEF AttemptInv, TypeOK
  <2>3. x[1] # r
    BY <1>1, <2>1, <2>2
  <2> QED
    BY <1>2, <1>7, <2>2, <2>3
<1> HIDE DEF IInv
<1> QED
  BY <1>1, <1>2, <1>3, <1>6, <1>8, <1>9, AccountsKept

\* Requests about sessions, which leave passwords and the limiter alone.
LEMMA SessionStep ==
  ASSUME IInv, NEW r \in Request, req' = [req EXCEPT ![r] = Ended("done")],
         req[r].pc \in {"new", "use"},
         sessions' \in [Request -> 0 .. MaxTime + TTL],
         cookie' \in [Request -> 0 .. MaxTime + TTL], lastUse' \in [Request -> Time],
         SessionInv', UNCHANGED <<clock, accounts, issued, limiter>>
  PROVE  IInv'
<1>1. Sound(r, Ended("done")) /\ Ended("done").pc = "done"
  BY EndedSound
<1>2. UNCHANGED <<crashes, now, mu, users, store, confirmed, issued>>
      /\ StoresOK' /\ UNCHANGED limiter
  BY DEF IInv, TypeOK, StoresOK, clock, accounts, limiter
<1>3. \A q \in Request : req'[q] = IF q = r THEN Ended("done") ELSE req[q]
  BY DEF IInv, TypeOK
<1>4. LimiterInv'
  <2>1. now' \in Time /\ now <= now'
    BY <1>2, Constants DEF IInv, TypeOK, Time
  <2>2. \A q \in Request : req'[q].pc \in {"new", "limit"} =>
                             req[q].pc \in {"new", "limit"}
    BY <1>1, <1>3
  <2> QED
    BY <1>2, <2>1, <2>2, LimiterStep DEF IInv
<1>5. issued' = issued \/ (issued' = issued \cup {r} /\ Ended("done").pc = "reset")
  BY <1>2
<1>6. req[r].pc \notin {"save", "secure"}
      /\ Ended("done").pc \in {"verify", "reset", "refused", "done"}
  BY <1>1
<1>7. AttemptInv'
  BY <1>2, <1>3, AttemptStep DEF IInv, limiter
<1> QED
  BY <1>1, <1>2, <1>4, <1>5, <1>6, <1>7, AccountsKept

\* The session of an accepted request was still going on at the time that the
\* request had read.
LEMMA Accepted ==
  ASSUME IInv, NEW r \in Request, req[r].pc = "use",
         Unexpired(req[r].now)[req[r].token] # 0
  PROVE  /\ req[r].token \in issued /\ req[r].now \in Time /\ req[r].now <= now
         /\ req[r].now < sessions[req[r].token]
         /\ req[r].now < lastUse[req[r].token] + TTL
<1> DEFINE t == req[r].token
<1>1. t \in issued /\ t \in Request /\ req[r].now \in Time /\ req[r].now <= now
  BY DEF IInv, HandlerInv, TypeOK
<1>2. /\ sessions[t] \in 0 .. MaxTime + TTL /\ lastUse[t] \in Time
      /\ Unexpired(req[r].now)[t] =
            IF req[r].now >= sessions[t] THEN 0 ELSE sessions[t]
  BY <1>1, UnexpiredSessions DEF IInv, TypeOK
<1>3. sessions[t] # 0 /\ ~(req[r].now >= sessions[t])
  BY <1>2
<1>4. sessions[t] <= lastUse[t] + TTL
  BY <1>1, <1>3 DEF IInv, SessionInv
<1> QED
  BY <1>1, <1>2, <1>3, <1>4, Constants DEF Time

LEMMA IdentityFromRequestStep ==
  ASSUME IInv, NEW r \in Request, IdentityFromRequest(r)
  PROVE  IInv'
<1> DEFINE t == req[r].token
           kept == Unexpired(req[r].now)
<1>1. /\ req[r].pc = "use" /\ t \in issued /\ t \in Request /\ req[r].now \in Time
      /\ UNCHANGED <<clock, accounts, cookie, issued, limiter>>
      /\ req' = [req EXCEPT ![r] = Ended("done")]
  BY DEF IInv, HandlerInv, TypeOK, IdentityFromRequest, At, End, Ended
<1>2. /\ kept \in [Request -> 0 .. MaxTime + TTL]
      /\ \A s \in Request : kept[s] # 0 => kept[s] = sessions[s]
  BY <1>1, UnexpiredSessions DEF IInv
<1>3. sessions \in [Request -> 0 .. MaxTime + TTL] /\ lastUse \in [Request -> Time]
      /\ cookie \in [Request -> 0 .. MaxTime + TTL]
  BY DEF IInv, TypeOK
<1>4. CASE kept[t] # 0
  <2>1. /\ sessions' = [kept EXCEPT ![t] = req[r].now + TTL]
        /\ lastUse' = [lastUse EXCEPT ![t] =
                          IF @ < req[r].now THEN req[r].now ELSE @]
    BY <1>4 DEF IdentityFromRequest, Accept
  <2>2. req[r].now + TTL \in 0 .. MaxTime + TTL
    BY <1>1, Constants DEF Time
  <2>3. sessions' \in [Request -> 0 .. MaxTime + TTL] /\ lastUse' \in [Request -> Time]
    BY <1>1, <1>2, <1>3, <2>1, <2>2
  <2>4. SessionInv'
    <3> SUFFICES ASSUME NEW s \in Request, sessions'[s] # 0
                 PROVE  s \in issued' /\ sessions'[s] <= lastUse'[s] + TTL
      BY DEF SessionInv
    <3>1. CASE s = t
      <4>1. /\ sessions'[s] = req[r].now + TTL /\ s \in issued'
            /\ lastUse'[s] = IF lastUse[s] < req[r].now THEN req[r].now ELSE lastUse[s]
        BY <1>1, <1>2, <1>3, <2>1, <3>1
      <4>2. lastUse[s] \in Nat /\ req[r].now \in Nat
        BY <1>1, <1>3, Constants DEF Time
      <4> QED
        BY <4>1, <4>2, Constants
    <3>2. CASE s # t
      <4>1. sessions'[s] = sessions[s] /\ lastUse'[s] = lastUse[s] /\ issued' = issued
        BY <1>1, <1>2, <1>3, <2>1, <3>2
      <4> QED
        BY <4>1 DEF IInv, SessionInv
    <3> QED
      BY <3>1, <3>2
  <2> QED
    BY <1>1, <1>3, <2>3, <2>4, SessionStep
<1>5. CASE kept[t] = 0
  <2>1. sessions' = kept /\ lastUse' = lastUse
    BY <1>5 DEF IdentityFromRequest
  <2>2. SessionInv'
    BY <1>1, <1>2, <2>1 DEF IInv, SessionInv
  <2> QED
    BY <1>1, <1>2, <1>3, <2>1, <2>2, SessionStep
<1> QED
  BY <1>4, <1>5

LEMMA handleAuthLogoutStep ==
  ASSUME IInv, NEW r \in Request, NEW t \in Request, handleAuthLogout(r, t)
  PROVE  IInv'
<1>1. /\ req[r].pc = "new" /\ req' = [req EXCEPT ![r] = Ended("done")]
      /\ sessions' = [sessions EXCEPT ![t] = 0] /\ cookie' = [cookie EXCEPT ![t] = 0]
      /\ UNCHANGED <<clock, accounts, issued, lastUse, limiter>>
  BY DEF handleAuthLogout, At, End, Ended, LogoutToken, ClearSessionCookie
<1>2. /\ sessions \in [Request -> 0 .. MaxTime + TTL] /\ lastUse \in [Request -> Time]
      /\ cookie \in [Request -> 0 .. MaxTime + TTL] /\ 0 \in 0 .. MaxTime + TTL
  BY Constants DEF IInv, TypeOK
<1>3. /\ sessions' \in [Request -> 0 .. MaxTime + TTL]
      /\ cookie' \in [Request -> 0 .. MaxTime + TTL]
  BY <1>1, <1>2
<1>4. SessionInv'
  BY <1>1, <1>2 DEF IInv, SessionInv
<1> QED
  BY <1>1, <1>2, <1>3, <1>4, SessionStep

-----------------------------------------------------------------------------
(* The clock, and crashes.                                                 *)

LEMMA TickStep ==
  ASSUME IInv, Tick
  PROVE  IInv'
<1> USE DEF IInv
<1>1. /\ UNCHANGED <<crashes, req, mu, users, store, confirmed, sessions, cookie,
                     issued, lastUse, attempts, passes>>
      /\ now' = now + 1 /\ now < MaxTime /\ now \in Nat /\ UNCHANGED limiter
  BY Constants DEF Tick, TypeOK, Time, accounts, tokens, limiter
<1>2. now' \in Time /\ now <= now'
  BY <1>1, Constants DEF Time
<1>3. TypeOK'
  BY <1>1, <1>2 DEF TypeOK
<1>4. ASSUME NEW r \in Request PROVE req[r].now <= now'
  <2>1. req[r].now \in Nat /\ req[r].now <= now
    BY Constants DEF TypeOK, HandlerInv, Time
  <2> QED
    BY <1>1, <2>1
<1>5. HandlerInv'
  BY <1>1, <1>4 DEF HandlerInv
<1>6. PasswordInv' /\ SessionInv'
  BY <1>1 DEF PasswordInv, SessionInv, ConfirmedPasswordStays
<1>7. LimiterInv'
  BY <1>1, <1>2, LimiterStep
<1>8. AttemptInv'
  BY <1>1 DEF AttemptInv
<1> QED
  BY <1>3, <1>5, <1>6, <1>7, <1>8

LEMMA RestartStep ==
  ASSUME IInv, Restart
  PROVE  IInv'
<1> USE DEF IInv
<1>1. /\ crashes < MaxCrashes /\ crashes' = crashes + 1
      /\ req' = [r \in Request |->
                   IF req[r].pc = "new" THEN Fresh ELSE [Fresh EXCEPT !.pc = "done"]]
      /\ mu' = None /\ users' = store
      /\ sessions' = [r \in Request |-> 0]
      /\ attempts' = [i \in IP |-> NoBucket] /\ passes' = [i \in IP |-> {}]
      /\ UNCHANGED <<now, cookie, store, confirmed, issued, lastUse>>
  BY DEF Restart, At
<1>2. \A r \in Request : /\ req'[r].pc \in {"new", "done"} /\ req'[r].now = 0
                         /\ req'[r].pc = "new" => req[r].pc = "new"
  BY <1>1 DEF Fresh
<1>3. req' \in [Request -> Handler]
  <2>1. Fresh \in Handler /\ [Fresh EXCEPT !.pc = "done"] \in Handler
    BY Constants DEF Fresh, Handler, Pc, Time
  <2> QED
    BY <1>1, <2>1
<1>4. crashes' \in 0 .. MaxCrashes /\ NoBucket \in [Count : 0 .. MaxAttempts, WindowStart : Time]
      /\ 0 <= now /\ 0 \in 0 .. MaxTime + TTL
  BY <1>1, Constants DEF TypeOK, NoBucket, Time
<1>5. TypeOK'
  <2>1. /\ attempts' \in [IP -> [Count : 0 .. MaxAttempts, WindowStart : Time]]
        /\ passes' \in [IP -> SUBSET (Request \X Time)]
        /\ sessions' \in [Request -> 0 .. MaxTime + TTL]
    BY <1>1, <1>4
  <2> QED
    BY <1>1, <1>2, <1>3, <1>4, <2>1, NoneAssumption DEF TypeOK, Handler, Pc
<1>6. HandlerInv'
  BY <1>1, <1>2, <1>4 DEF HandlerInv
<1>7. PasswordInv' /\ SessionInv'
  BY <1>1, <1>2 DEF PasswordInv, SessionInv, ConfirmedPasswordStays
<1>8. LimiterInv'
  <2>1. ASSUME NEW i \in IP
        PROVE  /\ passes'[i] = {} /\ Counted(i)' = {} /\ attempts'[i].Count = 0
               /\ attempts'[i].WindowStart <= now'
    BY <1>1, <1>4 DEF NoBucket, Counted
  <2>2. IsFiniteSet({}) /\ Cardinality({}) = 0
    BY FS_EmptySet
  <2>3. ASSUME NEW i \in IP
        PROVE  /\ IsFiniteSet(passes[i])' /\ attempts'[i].WindowStart <= now'
               /\ \A x \in passes'[i] : req'[x[1]].pc \notin {"new", "limit"}
               /\ attempts'[i].Count <= Cardinality(Counted(i)')
    <3>1. IsFiniteSet(passes'[i]) /\ Cardinality(Counted(i)') = 0
      BY <2>1, <2>2
    <3> QED
      BY <2>1, <3>1
  <2> QED
    BY <2>3 DEF LimiterInv
<1>9. AttemptInv'
  BY <1>1 DEF AttemptInv
<1> QED
  BY <1>5, <1>6, <1>7, <1>8, <1>9

LEMMA NextIInv ==
  ASSUME IInv, [Next]_vars
  PROVE  IInv'
<1>1. CASE \E r \in Request :
              \/ \E p \in Password, i \in IP :
                    handleAuthBootstrap(r, p, i) \/ handleAuthLogin(r, p, i)
              \/ \E t \in Request : withRole(r, t) \/ handleAuthMe(r, t)
              \/ verifyUserSecret(r)
  BY <1>1, QuietSteps
<1>2. ASSUME NEW r \in Request,
             \/ BootstrapAdmin(r) \/ saveAuthUsersToStore(r)
             \/ secureStorePathPermissions(r)
      PROVE  IInv'
  BY <1>2, BootstrapAdminStep, saveAuthUsersToStoreStep, secureStorePathPermissionsStep
<1>3. ASSUME NEW r \in Request, allow(r) \/ Login(r) \/ reset(r)
      PROVE  IInv'
  BY <1>3, allowStep, LoginStep, resetStep
<1>4. ASSUME NEW r \in Request, NEW t \in Request, handleAuthLogout(r, t)
      PROVE  IInv'
  BY <1>4, handleAuthLogoutStep
<1>5. ASSUME NEW r \in Request, IdentityFromRequest(r)
      PROVE  IInv'
  BY <1>5, IdentityFromRequestStep
<1>6. CASE Tick \/ Restart
  BY <1>6, TickStep, RestartStep
<1>7. CASE UNCHANGED vars
  <2>1. \A i : Counted(i)' = Counted(i)
    BY <1>7 DEF vars, Counted
  <2> QED
    BY <1>7, <2>1 DEF vars, IInv, TypeOK, HandlerInv, PasswordInv, SessionInv,
                      LimiterInv, AttemptInv, ConfirmedPasswordStays
<1> QED
  BY <1>1, <1>2, <1>3, <1>4, <1>5, <1>6, <1>7 DEF Next

-----------------------------------------------------------------------------
\* The invariant that the other theorems rest on.
THEOREM Invariance == Spec => []IInv
<1>1. Init => IInv
  BY InitIInv
<1>2. IInv /\ [Next]_vars => IInv'
  BY NextIInv
<1> QED
  BY <1>1, <1>2, PTL DEF Spec

\* The variables keep their types; and mu is held while a request saves the
\* store, by that request, so that no two requests save it at the same time.
THEOREM TypeCorrect == Spec => []TypeOK
BY Invariance, PTL DEF IInv

\* The password that a bootstrap confirmed is the one in memory and on disk,
\* whatever other bootstraps were under way, failed or were cut off by a crash.
THEOREM ConfirmedPassword == Spec => []ConfirmedPasswordStays
<1>1. IInv => ConfirmedPasswordStays
  BY DEF IInv, PasswordInv
<1> QED
  BY <1>1, Invariance, PTL
\* README.md:145, "sliding expiration": a request is accepted only within TTL
\* of an earlier use of its session, although it reads the clock before it
\* waits for the lock and later requests may get the lock first.
THEOREM SlidingExpiration == Spec => IdleSessionsEnd
<1>1. ASSUME IInv, [Next]_vars, NEW t \in issued
      PROVE  lastUse'[t] < lastUse[t] + TTL
  <2>1. /\ t \in Request /\ lastUse[t] \in Nat /\ TTL \in Nat /\ TTL > 0
        /\ lastUse \in [Request -> Time]
    BY <1>1, Constants DEF IInv, TypeOK, Time
  <2>2. CASE lastUse' = lastUse
    BY <2>1, <2>2
  <2>3. ASSUME NEW r \in Request, Login(r)
        PROVE  lastUse'[t] < lastUse[t] + TTL
    <3>1. r \notin issued
      BY <1>1, <2>3 DEF Login, At, IInv, HandlerInv
    <3>2. lastUse'[t] = lastUse[t]
      BY <1>1, <2>1, <2>3, <3>1 DEF Login
    <3> QED
      BY <2>1, <3>2
  <2>4. ASSUME NEW r \in Request, IdentityFromRequest(r), lastUse' # lastUse
        PROVE  lastUse'[t] < lastUse[t] + TTL
    <3>1. /\ req[r].pc = "use" /\ Unexpired(req[r].now)[req[r].token] # 0
          /\ lastUse' = [lastUse EXCEPT ![req[r].token] =
                            IF @ < req[r].now THEN req[r].now ELSE @]
      BY <2>4 DEF IdentityFromRequest, At, Accept
    <3>2. req[r].now < lastUse[req[r].token] + TTL
      BY <1>1, <3>1, Accepted
    <3> QED
      BY <2>1, <3>1, <3>2
  <2>5. \/ lastUse' = lastUse
        \/ \E r \in Request : Login(r) \/ IdentityFromRequest(r)
    BY <1>1 DEF Next, vars, tokens, handleAuthBootstrap, handleAuthLogin, withRole,
                handleAuthMe, handleAuthLogout, BootstrapAdmin, saveAuthUsersToStore,
                secureStorePathPermissions, allow, verifyUserSecret, reset, Tick, Restart
  <2> QED
    BY <2>2, <2>3, <2>4, <2>5
<1>2. IInv /\ [Next]_vars => [\A t \in issued : lastUse'[t] < lastUse[t] + TTL]_vars
  BY <1>1
<1> QED
  BY <1>2, Invariance, PTL DEF Spec, IdleSessionsEnd

\* Nobody but the limiter refuses.
LEMMA OnlyAllowRefuses ==
  ASSUME IInv, [Next]_vars, NEW r \in Request, At(r, "limit"), At(r, "refused")'
  PROVE  allow(r)
<1>1. /\ req \in [Request -> Handler]
      /\ req[r].pc = "limit" /\ req'[r].pc = "refused"
  BY DEF At, IInv, TypeOK, Handler, Pc
<1>2. ASSUME NEW q \in Request, NEW pc \in Pc, req[q].pc # "limit", pc # "refused",
             Go(q, pc) \/ GoNow(q, pc) \/ End(q, pc)
      PROVE  FALSE
  <2>1. q # r
    BY <1>1, <1>2
  <2>2. req'[r] = req[r]
    BY <1>1, <1>2, <2>1 DEF Go, GoNow, End
  <2> QED
    BY <1>1, <2>2
<1>3. ASSUME NEW q \in Request, NEW p \in Password, NEW i \in IP,
             handleAuthBootstrap(q, p, i) \/ handleAuthLogin(q, p, i)
      PROVE  FALSE
  BY <1>1, <1>3 DEF handleAuthBootstrap, handleAuthLogin, At
<1>4. ASSUME NEW q \in Request, NEW t \in Request,
             withRole(q, t) \/ handleAuthMe(q, t) \/ handleAuthLogout(q, t)
      PROVE  FALSE
  <2>1. CASE withRole(q, t)
    BY <1>1, <2>1 DEF withRole, At
  <2>2. CASE handleAuthLogout(q, t)
    BY <1>2, <2>2 DEF handleAuthLogout, At, Pc
  <2> QED
    BY <1>4, <2>1, <2>2 DEF handleAuthMe
<1>5. ASSUME NEW q \in Request,
             \/ BootstrapAdmin(q) \/ saveAuthUsersToStore(q)
             \/ secureStorePathPermissions(q) \/ verifyUserSecret(q)
             \/ Login(q) \/ reset(q) \/ IdentityFromRequest(q)
      PROVE  FALSE
  <2>1. CASE BootstrapAdmin(q) \/ saveAuthUsersToStore(q)
             \/ secureStorePathPermissions(q)
    BY <1>2, <2>1 DEF BootstrapAdmin, saveAuthUsersToStore,
                      secureStorePathPermissions, At, Pc
  <2>2. CASE verifyUserSecret(q) \/ Login(q) \/ reset(q) \/ IdentityFromRequest(q)
    BY <1>2, <2>2 DEF verifyUserSecret, Login, reset, IdentityFromRequest, At, Pc
  <2> QED
    BY <1>5, <2>1, <2>2
<1>6. CASE Tick \/ UNCHANGED vars
  BY <1>1, <1>6 DEF Tick, vars
<1>7. CASE Restart
  BY <1>1, <1>7 DEF Restart, Fresh, At
<1>8. ASSUME NEW q \in Request, allow(q) PROVE allow(r)
  <2>1. CASE q = r
    BY <1>8, <2>1
  <2>2. CASE q # r
    BY <1>1, <1>8, <2>2 DEF allow, Go, End
  <2> QED
    BY <2>1, <2>2
<1> QED
  BY <1>3, <1>4, <1>5, <1>6, <1>7, <1>8 DEF Next

\* Whoever is refused made MaxAttempts attempts within the window, none of which
\* was answered with a session, and was given no session after them: the
\* limiter's bucket counts no attempt twice, none that is too old, and none of
\* another client.
THEOREM JustRefusals == Spec => RefusalIsJust
<1>1. ASSUME IInv, [Next]_vars, NEW r \in Request, At(r, "limit"), At(r, "refused")'
      PROVE  Cardinality({x \in passes[req[r].ip] :
                             req[r].now < x[2] + Window /\ Unsuccessful(x[1])})
                >= MaxAttempts
  <2> DEFINE i == req[r].ip
             recent == {x \in passes[i] :
                           req[r].now < x[2] + Window /\ Unsuccessful(x[1])}
  <2>1. /\ allow(r) /\ req[r].pc = "limit" /\ i \in IP /\ req[r].now \in Time
        /\ req[r] \in Handler /\ req \in [Request -> Handler]
    BY <1>1, OnlyAllowRefuses DEF At, IInv, HandlerInv, TypeOK, Handler, Pc
  <2>2. Bucket(r).Count >= MaxAttempts
    <3> SUFFICES ASSUME ~(Bucket(r).Count >= MaxAttempts) PROVE FALSE
      OBVIOUS
    <3>1. req' = [req EXCEPT ![r].pc = "verify"]
      BY <2>1 DEF allow, Bucket, Go
    <3>2. req'[r].pc = "verify"
      BY <2>1, <3>1 DEF Handler
    <3> QED
      BY <1>1, <3>2 DEF At
  <2>3. /\ Current(req[r].now)[i] = attempts[i]
        /\ req[r].now < attempts[i].WindowStart + Window
        /\ attempts[i].Count >= MaxAttempts
    <3>1. Current(req[r].now)[i] # NoBucket
      BY <2>1, <2>2, Constants DEF Bucket, NoBucket
    <3>2. /\ Current(req[r].now)[i] = attempts[i]
          /\ req[r].now < attempts[i].WindowStart + Window
      BY <1>1, <2>1, <3>1, CurrentBuckets DEF IInv
    <3> QED
      BY <2>2, <3>1, <3>2 DEF Bucket
  <2>4. /\ IsFiniteSet(passes[i]) /\ passes[i] \subseteq Request \X Time
        /\ attempts[i].WindowStart \in Time /\ attempts[i].Count \in Nat
        /\ attempts[i].Count <= Cardinality(Counted(i))
    BY <1>1, <2>1, Constants DEF IInv, TypeOK, LimiterInv
  <2>5. Counted(i) \subseteq recent
    <3>1. ASSUME NEW x \in passes[i], attempts[i].WindowStart <= x[2]
          PROVE  req[r].now < x[2] + Window /\ Unsuccessful(x[1])
      <4>1. /\ x[2] \in Nat /\ attempts[i].WindowStart \in Nat /\ req[r].now \in Nat
            /\ Window \in Nat
        BY <2>1, <2>4, Constants DEF Time
      <4>2. Unsuccessful(x[1])
        BY <1>1, <2>1 DEF IInv, AttemptInv, Unsuccessful, At
      <4> QED
        BY <2>3, <3>1, <4>1, <4>2
    <3> QED
      BY <3>1 DEF Counted
  <2>6. /\ IsFiniteSet(recent) /\ Cardinality(recent) \in Nat
        /\ IsFiniteSet(Counted(i)) /\ Cardinality(Counted(i)) \in Nat
        /\ Cardinality(Counted(i)) <= Cardinality(recent)
    <3>1. recent \subseteq passes[i]
      OBVIOUS
    <3> HIDE DEF recent
    <3> QED
      BY <2>4, <2>5, <3>1, FS_Subset, FS_CardinalityType
  <2> HIDE DEF recent
  <2>7. Cardinality(recent) >= MaxAttempts
    BY <2>3, <2>4, <2>6, Constants
  <2> QED
    BY <2>7 DEF recent
<1>2. IInv /\ [Next]_vars =>
        [\A r \in Request :
            At(r, "limit") /\ At(r, "refused")' =>
               Cardinality({x \in passes[req[r].ip] :
                               req[r].now < x[2] + Window /\ Unsuccessful(x[1])})
                  >= MaxAttempts]_vars
  BY <1>1
<1> QED
  BY <1>2, Invariance, PTL DEF Spec, RefusalIsJust
-----------------------------------------------------------------------------
(* The session store implements the abstract one.                          *)

LEMMA SessionsInit == Init => SessionStore!Init
BY DEF Init, SessionStore!Init

\* Cleanup with an old time removes sessions that have expired, no others.
LEMMA CleanupIsSound ==
  ASSUME IInv, NEW r \in Request
  PROVE  \E gone \in SUBSET SessionStore!Expired :
            /\ gone = {s \in Request : req[r].now >= sessions[s]}
            /\ Unexpired(req[r].now) = SessionStore!Cleaned(gone)
<1> DEFINE gone == {s \in Request : req[r].now >= sessions[s]}
<1>1. /\ req[r].now \in Nat /\ now \in Nat /\ req[r].now <= now
      /\ \A s \in Request : sessions[s] \in Nat
  BY Constants DEF IInv, TypeOK, HandlerInv, Time
<1>2. gone \subseteq SessionStore!Expired
  BY <1>1 DEF SessionStore!Expired
<1>3. Unexpired(req[r].now) = SessionStore!Cleaned(gone)
  BY DEF Unexpired, SessionStore!Cleaned
<1> QED
  BY <1>2, <1>3

LEMMA SessionsStep == IInv /\ [Next]_vars => [SessionStore!Next]_SessionStore!vars
<1> SUFFICES ASSUME IInv, [Next]_vars, ~ UNCHANGED <<now, issued, sessions>>
             PROVE  SessionStore!Next
  BY DEF SessionStore!vars
<1>1. /\ now \in Nat /\ TTL \in Nat /\ TTL > 0 /\ issued \subseteq Request
      /\ req \in [Request -> Handler] /\ sessions \in [Request -> 0 .. MaxTime + TTL]
  BY Constants DEF IInv, TypeOK, Handler, Pc, Time
<1>2. ASSUME NEW r \in Request, Login(r)
      PROVE  SessionStore!Begin(r)
  <2>1. req[r].now \in Nat /\ req[r].now <= now /\ r \notin issued
    BY <1>2, Constants DEF Login, At, IInv, HandlerInv, TypeOK, Time
  <2>2. PICK gone \in SUBSET SessionStore!Expired :
             Unexpired(req[r].now) = SessionStore!Cleaned(gone)
    BY CleanupIsSound
  <2>3. req[r].now \in 0 .. now
    BY <1>1, <2>1
  <2>4. /\ sessions' = [SessionStore!Cleaned(gone) EXCEPT ![r] = req[r].now + TTL]
        /\ issued' = issued \cup {r} /\ now' = now
    BY <1>2, <2>2 DEF Login, clock
  <2> QED
    BY <2>1, <2>3, <2>4 DEF SessionStore!Begin
<1>3. ASSUME NEW r \in Request, IdentityFromRequest(r)
      PROVE  SessionStore!Next
  <2> DEFINE t == req[r].token
  <2>1. /\ req[r].pc = "use" /\ t \in Request /\ now' = now /\ issued' = issued
        /\ req[r].now \in Nat /\ req[r].now <= now
    BY <1>1, <1>3, Constants
       DEF IdentityFromRequest, At, IInv, HandlerInv, TypeOK, clock, Time
  <2>2. PICK gone \in SUBSET SessionStore!Expired :
             /\ gone = {s \in Request : req[r].now >= sessions[s]}
             /\ Unexpired(req[r].now) = SessionStore!Cleaned(gone)
    BY CleanupIsSound
  <2>3. CASE Unexpired(req[r].now)[t] # 0
    <3>1. t \notin gone /\ req[r].now < sessions[t]
      BY <1>1, <2>1, <2>2, <2>3 DEF Unexpired
    <3>2. req[r].now \in 0 .. now
      BY <1>1, <2>1
    <3>3. sessions' = [SessionStore!Cleaned(gone) EXCEPT ![t] = req[r].now + TTL]
      BY <1>3, <2>2, <2>3 DEF IdentityFromRequest, Accept
    <3>4. gone \in SUBSET (SessionStore!Expired \ {t})
      BY <2>2, <3>1
    <3>5. SessionStore!Use(t)
      BY <2>1, <3>1, <3>2, <3>3, <3>4 DEF SessionStore!Use
    <3> QED
      BY <2>1, <3>5 DEF SessionStore!Next
  <2>4. CASE Unexpired(req[r].now)[t] = 0
    <3>1. sessions' = SessionStore!Cleaned(gone)
      BY <1>3, <2>2, <2>4 DEF IdentityFromRequest
    <3> QED
      BY <2>1, <3>1 DEF SessionStore!Next, SessionStore!Expire
  <2> QED
    BY <2>3, <2>4
<1>4. ASSUME NEW r \in Request, NEW t \in Request, handleAuthLogout(r, t)
      PROVE  SessionStore!Logout(t)
  <2>1. sessions' = [sessions EXCEPT ![t] = 0] /\ now' = now /\ issued' = issued
    BY <1>4 DEF handleAuthLogout, LogoutToken, clock
  <2>2. sessions' = SessionStore!Cleaned({t})
    BY <1>1, <2>1 DEF SessionStore!Cleaned
  <2> QED
    BY <2>1, <2>2 DEF SessionStore!Logout
<1>5. CASE Tick
  BY <1>5 DEF Tick, tokens, SessionStore!Next, SessionStore!Pass
<1>6. CASE Restart
  <2>1. sessions' = SessionStore!Cleaned(Request)
    BY <1>6 DEF Restart, SessionStore!Cleaned
  <2> QED
    BY <1>6, <2>1 DEF Restart, SessionStore!Next, SessionStore!Restart
<1>7. \/ \E r \in Request : Login(r) \/ IdentityFromRequest(r)
      \/ \E r, t \in Request : handleAuthLogout(r, t)
      \/ Tick \/ Restart
  BY DEF Next, vars, clock, tokens, handleAuthBootstrap, handleAuthLogin, withRole,
         handleAuthMe, BootstrapAdmin, saveAuthUsersToStore,
         secureStorePathPermissions, allow, verifyUserSecret, reset
<1> QED
  BY <1>2, <1>3, <1>4, <1>5, <1>6, <1>7 DEF SessionStore!Next

\* Every behaviour is one of the abstract session store: although requests work
\* with readings of the clock that may be late, no session is ended by another's
\* request before its time, none is extended at a reading at which it was over,
\* and none that was logged out, lost or removed comes back.
THEOREM Refinement == Spec => ImplementsSessions
BY SessionsInit, SessionsStep, Invariance, PTL
   DEF Spec, ImplementsSessions, SessionStore!Spec
=============================================================================
