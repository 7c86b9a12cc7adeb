-------------------------------- MODULE Auth --------------------------------
(***************************************************************************)
(* Logins and sessions of the backend (auth.go, and the handlers of        *)
(* server.go that call it): first-time bootstrap of the admin's password,  *)
(* the limiter of login attempts, and sessions that slide with their use.  *)
(*                                                                         *)
(* One mutex guards users and sessions, another the limiter's buckets.     *)
(* Every operation reads the clock before it waits for its mutex, so that  *)
(* it may work with a time that is past.  A request is served once; a      *)
(* session is named by the request that created it.                        *)
(***************************************************************************)
EXTENDS Naturals, FiniteSets

CONSTANTS Request, IP, Password,
          TTL,          \* ATLAS_AUTH_SESSION_TTL_MINUTES
          Window,       \* ATLAS_AUTH_LOGIN_WINDOW_MINUTES
          MaxAttempts,  \* ATLAS_AUTH_LOGIN_MAX_ATTEMPTS
          None,         \* no password, no request
          MaxTime,      \* bound on the clock
          MaxCrashes    \* bound on crashes of the backend

ASSUME PositiveAssumption == {TTL, Window, MaxAttempts} \subseteq Nat \ {0}
ASSUME BoundsAssumption == {MaxTime, MaxCrashes} \subseteq Nat
ASSUME NoneAssumption == None \notin Password \cup Request

VARIABLES
  crashes,    \* crashes of the backend so far
  now,        \* the clock
  req,        \* per request: its handler
  mu,         \* AuthManager.mu: None, or the request that saves the store
  users,      \* the admin's password; None while bootstrapRequired
  store,      \* the auth store on disk; None while there is no file
  sessions,   \* per token: ExpiresAt, 0 if there is no such session
  cookie,     \* per token: until when the browser keeps it, 0 if it does not
  attempts,   \* per IP: its loginAttemptBucket, of count 0 if there is none
  confirmed,  \* history: the password of a bootstrap that succeeded
  issued,     \* history: tokens of all sessions so far
  lastUse,    \* history, per token: the latest time at which it was accepted
  passes      \* history, per IP: attempts let through since the last reset

vars == <<crashes, now, req, mu, users, store, sessions, cookie, attempts,
          confirmed, issued, lastUse, passes>>
clock == <<crashes, now>>
accounts == <<mu, users, store, confirmed>>
tokens == <<sessions, cookie, issued, lastUse>>
limiter == <<attempts, passes>>

Time == 0 .. MaxTime
NoBucket == [Count |-> 0, WindowStart |-> 0]
Fresh == [pc |-> "new", ip |-> None, password |-> None, token |-> None, now |-> 0]

TypeOK ==
  /\ crashes \in 0 .. MaxCrashes
  /\ now \in Time
  /\ req \in [Request ->
       [pc : {"new", "boot", "save", "secure", "limit", "verify", "insert",
              "reset", "use", "refused", "done"},
        ip : IP \cup {None}, password : Password \cup {None},
        token : Request \cup {None}, now : Time]]
  /\ mu \in {None} \cup Request
  /\ \A r \in Request : req[r].pc \in {"save", "secure"} <=> mu = r
  /\ users \in Password \cup {None}
  /\ store \in Password \cup {None}
  /\ {sessions, cookie} \subseteq [Request -> 0 .. MaxTime + TTL]
  /\ attempts \in [IP -> [Count : 0 .. MaxAttempts, WindowStart : Time]]
  /\ confirmed \in Password \cup {None}
  /\ issued \subseteq Request
  /\ lastUse \in [Request -> Time]
  /\ passes \in [IP -> SUBSET (Request \X Time)]

\* Started for the first time, or with the store of an earlier run.
Init ==
  /\ crashes = 0
  /\ now = 0
  /\ req = [r \in Request |-> Fresh]
  /\ mu = None
  /\ store \in Password \cup {None}
  /\ users = store
  /\ sessions = [r \in Request |-> 0]
  /\ cookie = [r \in Request |-> 0]
  /\ attempts = [i \in IP |-> NoBucket]
  /\ confirmed = store
  /\ issued = {}
  /\ lastUse = [r \in Request |-> 0]
  /\ passes = [i \in IP |-> {}]

BootstrapRequired == users = None

At(r, pc) == req[r].pc = pc
End(r, pc) == req' = [req EXCEPT ![r] = [Fresh EXCEPT !.pc = pc]]
Go(r, pc) == req' = [req EXCEPT ![r].pc = pc]
\* Go on with the time of the clock.
GoNow(r, pc) == req' = [req EXCEPT ![r].pc = pc, ![r].now = now]

-----------------------------------------------------------------------------
(* First-time bootstrap                                                    *)

handleAuthBootstrap(r, p, i) ==
  /\ At(r, "new") /\ mu = None /\ BootstrapRequired
  /\ req' = [req EXCEPT ![r] = [@ EXCEPT !.pc = "boot", !.password = p, !.ip = i]]
  /\ UNCHANGED <<clock, accounts, tokens, limiter>>

\* Mutant: what was checked before the lock is not checked again.
BootstrapAdmin_Unchecked(r) ==
  /\ At(r, "boot") /\ mu = None
  /\ Go(r, "save") /\ mu' = r
  /\ UNCHANGED <<clock, users, store, confirmed, tokens, limiter>>

\* BootstrapAdmin holds the mutex until the store is saved.
BootstrapAdmin(r) ==
  /\ At(r, "boot") /\ mu = None
  /\ IF BootstrapRequired
     THEN Go(r, "save") /\ mu' = r
     ELSE End(r, "done") /\ UNCHANGED mu
  /\ UNCHANGED <<clock, users, store, confirmed, tokens, limiter>>

\* Write a temporary file and rename it, or fail before the rename.
saveAuthUsersToStore(r) ==
  /\ At(r, "save")
  /\ \/ store' = req[r].password /\ Go(r, "secure") /\ UNCHANGED mu
     \/ End(r, "done") /\ mu' = None /\ UNCHANGED store
  /\ UNCHANGED <<clock, users, confirmed, tokens, limiter>>

\* Mutant: a failure returns without unlocking.
secureStorePathPermissions_StaysLocked(r) ==
  /\ At(r, "secure")
  /\ \/ /\ users' = req[r].password /\ confirmed' = req[r].password
        /\ Go(r, "verify") /\ mu' = None
     \/ End(r, "done") /\ UNCHANGED <<mu, users, confirmed>>
  /\ UNCHANGED <<clock, store, tokens, limiter>>

\* Tighten the permissions of the file.  If that fails, so does the bootstrap,
\* although the file is there.
secureStorePathPermissions(r) ==
  /\ At(r, "secure")
  /\ mu' = None
  /\ \/ users' = req[r].password /\ confirmed' = req[r].password /\ Go(r, "verify")
     \/ End(r, "done") /\ UNCHANGED <<users, confirmed>>
  /\ UNCHANGED <<clock, store, tokens, limiter>>

-----------------------------------------------------------------------------
(* Login                                                                   *)

handleAuthLogin(r, p, i) ==
  /\ At(r, "new") /\ mu = None /\ ~BootstrapRequired
  /\ req' = [req EXCEPT ![r] =
               [@ EXCEPT !.pc = "limit", !.password = p, !.ip = i, !.now = now]]
  /\ UNCHANGED <<clock, accounts, tokens, limiter>>

\* Mutant: a window lasts one unit longer.
Current_Late(t) ==
  [i \in IP |-> IF t > attempts[i].WindowStart + Window THEN NoBucket ELSE attempts[i]]

\* The buckets after those whose window is over at time t are deleted.
Current(t) ==
  [i \in IP |-> IF t >= attempts[i].WindowStart + Window THEN NoBucket ELSE attempts[i]]

allow(r) ==
  LET i == req[r].ip
      buckets == Current(req[r].now)
      bucket == IF buckets[i] = NoBucket
                THEN [NoBucket EXCEPT !.WindowStart = req[r].now] ELSE buckets[i]
  IN  /\ At(r, "limit")
      /\ IF bucket.Count >= MaxAttempts
         THEN /\ attempts' = buckets
              /\ End(r, "refused")
              /\ UNCHANGED passes
         ELSE /\ attempts' = [buckets EXCEPT ![i] = [bucket EXCEPT !.Count = @ + 1]]
              /\ passes' = [passes EXCEPT ![i] = @ \cup {<<r, now>>}]
              /\ Go(r, "verify")
      /\ UNCHANGED <<clock, accounts, tokens>>

\* Login compares the password without the lock.
verifyUserSecret(r) ==
  /\ At(r, "verify") /\ mu = None
  /\ IF req[r].password = users THEN GoNow(r, "insert") ELSE End(r, "done")
  /\ UNCHANGED <<clock, accounts, tokens, limiter>>

\* Mutant: a session lasts one unit longer.
Unexpired_Late(t) == [s \in Request |-> IF t > sessions[s] THEN 0 ELSE sessions[s]]

\* The sessions after cleanupExpiredLocked.
Unexpired(t) == [s \in Request |-> IF t >= sessions[s] THEN 0 ELSE sessions[s]]

Login(r) ==
  /\ At(r, "insert") /\ mu = None
  /\ sessions' = [Unexpired(req[r].now) EXCEPT ![r] = req[r].now + TTL]
  /\ issued' = issued \cup {r}
  /\ lastUse' = [lastUse EXCEPT ![r] = req[r].now]
  /\ Go(r, "reset")
  /\ UNCHANGED <<clock, cookie, accounts, limiter>>

\* The browser keeps the token for TTL.
SetSessionCookie(r) == cookie' = [cookie EXCEPT ![r] = now + TTL]

\* Forget the client's attempts and answer.
reset(r) ==
  /\ At(r, "reset")
  /\ attempts' = [attempts EXCEPT ![req[r].ip] = NoBucket]
  /\ passes' = [passes EXCEPT ![req[r].ip] = {}]
  /\ SetSessionCookie(r)
  /\ End(r, "done")
  /\ UNCHANGED <<clock, accounts, sessions, issued, lastUse>>

-----------------------------------------------------------------------------
(* Sessions                                                                *)

\* A token comes in a header or, from a browser, in its cookie.
TokenFromRequest == issued

\* A request with a token reads the clock.
withRole(r, t) ==
  /\ At(r, "new") /\ mu = None /\ ~BootstrapRequired
  /\ t \in TokenFromRequest
  /\ req' = [req EXCEPT ![r] = [@ EXCEPT !.pc = "use", !.token = t, !.now = now]]
  /\ UNCHANGED <<clock, accounts, tokens, limiter>>

\* The page asks who it is, with the same effect.
handleAuthMe(r, t) == withRole(r, t)

\* Accept the token at the time that was read.
Accept(r) ==
  LET t == req[r].token
  IN  /\ sessions' = [Unexpired(req[r].now) EXCEPT ![t] = req[r].now + TTL]
      /\ lastUse' = [lastUse EXCEPT ![t] = IF @ < req[r].now THEN req[r].now ELSE @]

\* Mutant: the session is stored again without being looked up again.
IdentityFromRequest_NoLookup(r) ==
  /\ At(r, "use") /\ mu = None
  /\ Accept(r)
  /\ End(r, "done")
  /\ UNCHANGED <<clock, accounts, cookie, issued, limiter>>

\* Cleanup may delete the very session that is asked for.
IdentityFromRequest(r) ==
  /\ At(r, "use") /\ mu = None
  /\ IF Unexpired(req[r].now)[req[r].token] # 0
     THEN Accept(r)
     ELSE sessions' = Unexpired(req[r].now) /\ UNCHANGED lastUse
  /\ End(r, "done")
  /\ UNCHANGED <<clock, accounts, cookie, issued, limiter>>

LogoutToken(t) == sessions' = [sessions EXCEPT ![t] = 0]
ClearSessionCookie(t) == cookie' = [cookie EXCEPT ![t] = 0]

handleAuthLogout(r, t) ==
  /\ At(r, "new") /\ mu = None
  /\ t \in TokenFromRequest
  /\ LogoutToken(t) /\ ClearSessionCookie(t)
  /\ End(r, "done")
  /\ UNCHANGED <<clock, accounts, issued, lastUse, limiter>>

-----------------------------------------------------------------------------
(* The clock, and crashes                                                  *)

Tick ==
  /\ now < MaxTime
  /\ now' = now + 1
  /\ UNCHANGED <<crashes, req, accounts, tokens, limiter>>

\* newAuthManager reads the store.
Restart ==
  /\ crashes < MaxCrashes
  /\ crashes' = crashes + 1
  /\ req' = [r \in Request |-> 
                      IF At(r, "new") THEN Fresh ELSE [Fresh EXCEPT !.pc = "done"]]
  /\ mu' = None
  /\ users' = store
  /\ sessions' = [r \in Request |-> 0]
  /\ attempts' = [i \in IP |-> NoBucket]
  /\ passes' = [i \in IP |-> {}]
  /\ UNCHANGED <<now, cookie, store, confirmed, issued, lastUse>>

-----------------------------------------------------------------------------
Next ==
  \/ \E r \in Request :
        \/ \E p \in Password, i \in IP :
              handleAuthBootstrap(r, p, i) \/ handleAuthLogin(r, p, i)
        \/ \E t \in Request : withRole(r, t) \/ handleAuthMe(r, t)
                                  \/ handleAuthLogout(r, t)
        \/ BootstrapAdmin(r) \/ saveAuthUsersToStore(r)
        \/ secureStorePathPermissions(r)
        \/ allow(r) \/ verifyUserSecret(r) \/ Login(r) \/ reset(r)
        \/ IdentityFromRequest(r)
  \/ Tick
  \/ Restart

Spec == Init /\ [][Next]_vars

-----------------------------------------------------------------------------
(* Properties                                                              *)

\* A password that a bootstrap confirmed is the one that counts from then on,
\* also after a restart, whatever other bootstraps were under way.
ConfirmedPasswordStays ==
  confirmed # None => users = confirmed /\ store = confirmed

\* The sessions are those of the abstract store: what was logged out, lost or
\* removed never comes back, a session that a reading of the clock finds expired
\* is not extended at that reading, and nobody's session is ended by another's
\* request.  A session that is over but not removed can still be extended, by a
\* request that read the clock in time and got the lock late (auth.go:435).
SessionStore == INSTANCE Sessions WITH Token <- Request, expires <- sessions
ImplementsSessions == SessionStore!Spec

\* README.md:145, "sliding expiration": every extension of a session is a use
\* within TTL of an earlier one, whatever order requests get the lock in.
IdleSessionsEnd ==
  [][\A t \in issued : lastUse'[t] < lastUse[t] + TTL]_vars

\* README.md:145: "Session lifetime in minutes (sliding expiration)".  The
\* browser can go on using a session for as long as its uses keep it alive.
LiveSessionHasCookie ==
  \A t \in Request : cookie[t] # 0 /\ now < sessions[t] => now < cookie[t]

\* An attempt that has not been answered with a session: it was refused the
\* login, or its password is being verified, or its answer is under way.
Unsuccessful(r) == r \notin issued \/ At(r, "reset")

\* A client is refused only for its own attempts: MaxAttempts of them within the
\* window, none of which was answered with a session, and no session was given
\* to the client after them.  README.md:146 calls MaxAttempts the "maximum failed
\* login attempts", but allow counts an attempt before its password is compared,
\* so that valid logins under way at the same time count until they are answered.
RefusalIsJust ==
  [][\A r \in Request :
       At(r, "limit") /\ At(r, "refused")' =>
          Cardinality({x \in passes[req[r].ip] :
                          req[r].now < x[2] + Window /\ Unsuccessful(x[1])})
             >= MaxAttempts]_vars
=============================================================================
