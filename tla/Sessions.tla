------------------------------ MODULE Sessions ------------------------------
(***************************************************************************)
(* What the session store of auth.go promises, although its requests work  *)
(* with readings of the clock that may be late: a session lasts until TTL  *)
(* after a reading at which it was used and had not ended, unless it is    *)
(* logged out or the backend restarts; nobody else's request ends it, and  *)
(* once it is removed it does not come back.                               *)
(*                                                                         *)
(* A session whose end has passed may not be removed yet.  A use with a    *)
(* reading from before its end still moves that end, into the future even. *)
(***************************************************************************)
EXTENDS Naturals

CONSTANTS Token, TTL

VARIABLES now,      \* the clock
          issued,   \* tokens of all sessions so far
          expires   \* per token: when its session expires, 0 if there is none

vars == <<now, issued, expires>>

Init == now = 0 /\ issued = {} /\ expires = [t \in Token |-> 0]

Expired == {t \in Token : expires[t] <= now}

\* The sessions after some of those that have expired were removed.
Cleaned(gone) == [t \in Token |-> IF t \in gone THEN 0 ELSE expires[t]]

\* A session begins, at some reading of the clock.
Begin(t) ==
  /\ t \notin issued
  /\ issued' = issued \cup {t}
  /\ \E gone \in SUBSET Expired, at \in 0 .. now :
        expires' = [Cleaned(gone) EXCEPT ![t] = at + TTL]
  /\ UNCHANGED now

\* A use of a session that has not ended at the reading of the clock that the
\* use works with: it ends TTL after that reading.
Use(t) ==
  /\ \E gone \in SUBSET (Expired \ {t}), at \in 0 .. now :
        /\ at < expires[t]
        /\ expires' = [Cleaned(gone) EXCEPT ![t] = at + TTL]
  /\ UNCHANGED <<now, issued>>

\* Sessions end because their time is over, or one was logged out, or all are
\* lost in a restart.
Expire == \E gone \in SUBSET Expired : expires' = Cleaned(gone) /\ UNCHANGED <<now, issued>>
Logout(t) == expires' = Cleaned({t}) /\ UNCHANGED <<now, issued>>
Restart == expires' = Cleaned(Token) /\ UNCHANGED <<now, issued>>

Pass == now' = now + 1 /\ UNCHANGED <<issued, expires>>

Next == \/ \E t \in Token : Begin(t) \/ Use(t) \/ Logout(t)
        \/ Expire \/ Restart \/ Pass

Spec == Init /\ [][Next]_vars
=============================================================================
