------------------------------- MODULE JobLog -------------------------------
(***************************************************************************)
(* What a provisioning job promises those who follow it, without locks,    *)
(* channels, or copies of the list of listeners: a log that grows and is   *)
(* closed once, with a verdict that follows from it, and followers who get *)
(* every VM's events in their order and without a gap, except for events   *)
(* that were refused to a follower who lagged behind.                      *)
(***************************************************************************)
EXTENDS Naturals, Sequences, FiniteSets

CONSTANTS VM,        \* the VMs whose events are logged
          Event,     \* their events: of a VM, with a number and a step
          complete,  \* the event that closes the log
          Client,    \* the followers
          Cap        \* how far a follower may lag behind

VARIABLES log,       \* the events so far
          verdict,   \* "running", and then what has come of the VMs
          got,       \* per follower: the events delivered, in order
          refused,   \* per follower: the events it will never get
          left,      \* followers who have gone away
          ended      \* followers whose stream was ended

vars == <<log, verdict, got, refused, left, ended>>

Logged == {log[i] : i \in DOMAIN log}
Got(c) == {got[c][i] : i \in DOMAIN got[c]}
Outstanding(c) == Logged \ (Got(c) \cup refused[c])

Init ==
  /\ log = <<>>
  /\ verdict = "running"
  /\ got = [c \in Client |-> <<>>]
  /\ refused = [c \in Client |-> {}]
  /\ left = {}
  /\ ended = {}

\* A VM's next event, unless it has had its last one.
Log(e) ==
  /\ verdict = "running"
  /\ \A d \in Logged : d.vm = e.vm => d.n < e.n /\ d.step = "progress"
  /\ log' = Append(log, e)
  /\ UNCHANGED <<verdict, got, refused, left, ended>>

\* Every VM has had its last event.
Close ==
  /\ verdict = "running"
  /\ \A v \in VM : \E e \in Logged : e.vm = v /\ e.step # "progress"
  /\ log' = Append(log, complete)
  /\ verdict' = IF \E e \in Logged : e.step = "failed" THEN "failed" ELSE "completed"
  /\ UNCHANGED <<got, refused, left, ended>>

\* The first outstanding event of a VM; the closing one comes after all others.
Deliver(c, e) ==
  /\ c \notin ended
  /\ \A d \in Outstanding(c) : d.vm = e.vm => e.n <= d.n
  /\ e = complete => Outstanding(c) = {e}
  /\ got' = [got EXCEPT ![c] = Append(@, e)]
  /\ UNCHANGED <<log, verdict, refused, left, ended>>

\* More than Cap events are outstanding.
Refuse(c, e) ==
  /\ Cardinality(Outstanding(c)) > Cap
  /\ refused' = [refused EXCEPT ![c] = @ \cup {e}]
  /\ UNCHANGED <<log, verdict, got, left, ended>>

Leave(c) ==
  /\ left' = left \cup {c}
  /\ UNCHANGED <<log, verdict, got, refused, ended>>

\* The stream of a follower who stays ends with the log.
End(c) ==
  /\ c \in left \/ complete \in Got(c)
  /\ ended' = ended \cup {c}
  /\ UNCHANGED <<log, verdict, got, refused, left>>

Next ==
  \/ \E e \in Event : Log(e)
  \/ Close
  \/ \E c \in Client :
        \/ \E e \in Outstanding(c) : Deliver(c, e) \/ Refuse(c, e)
        \/ Leave(c) \/ End(c)

Spec == Init /\ [][Next]_vars
=============================================================================
