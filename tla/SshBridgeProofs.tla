--------------------------- MODULE SshBridgeProofs ----------------------------
(***************************************************************************)
(* Theorems about SshBridge, for any sockets and any number of ssh:connect *)
(* events on each.                                                         *)
(***************************************************************************)
EXTENDS SshBridge, TLAPS

AttemptState == {"idle", "refused", "fetching", "loading", "failed", "connected"}
ConnState == {"none", "connecting", "ready", "opening", "shell", "closed"}

\* Who is responsible for a client of the socket: as long as its listeners are
\* attached it has the socket's variable or was replaced in it, and without
\* them it was ended.
HeldInv(s) ==
  /\ ~closed[s] => ended[s] = {}
  /\ \A n \in Attempt :
        /\ conn[s][n] # "none" =>
              attempt[s][n] = "connected" /\ n \in listening[s] \cup ended[s]
        /\ n \in listening[s] => sshClient[s] = n \/ n \in replaced[s]
        /\ closed[s] /\ n \in listening[s] => n \in orphans[s] \cup replaced[s]
        /\ ~closed[s] /\ replaced[s] = {} /\ conn[s][n] = "shell" => sshStream[s] = n

IInv == TypeOK /\ (\A s \in Socket : HeldInv(s)) /\ FaultIsExplained

-----------------------------------------------------------------------------
LEMMA AttemptIsPositive == \A n \in Attempt : n # null
BY ConnectsAssumption DEF Attempt, null

\* TypeOK in parts.
Tables ==
  /\ attempt \in [Socket -> [Attempt -> AttemptState]]
  /\ conn \in [Socket -> [Attempt -> ConnState]]
Variables ==
  /\ closed \in [Socket -> BOOLEAN]
  /\ sshClient \in [Socket -> {null} \cup Attempt]
  /\ sshStream \in [Socket -> {null} \cup Attempt]
  /\ ended \in [Socket -> SUBSET Attempt]
  /\ listening \in [Socket -> SUBSET Attempt]
Histories ==
  /\ orphans \in [Socket -> SUBSET Attempt]
  /\ replaced \in [Socket -> SUBSET Attempt]
References(s) ==
  /\ sshClient[s] # null => attempt[s][sshClient[s]] \in {"connected", "failed"}
  /\ sshStream[s] # null => conn[s][sshStream[s]] # "none"
Messages ==
  /\ socket \in [Socket -> {"open", "leaving", "gone"}]
  /\ answered \in [Socket -> SUBSET Attempt]
  /\ raced \in [Socket -> SUBSET Attempt]
FaultType ==
  fault \in {NoFault} \cup [kind : {"exception", "unheard error"}, socket : Socket]

LEMMA TypeOKParts ==
  ASSUME TypeOK
  PROVE  /\ Tables /\ Variables /\ Histories /\ Messages /\ FaultType
         /\ \A s \in Socket : References(s)
<1>1. Tables /\ Histories /\ Messages /\ FaultType
  BY DEF TypeOK, Tables, Histories, Messages, FaultType, AttemptState, ConnState
<1>2. Variables
  BY DEF TypeOK, Variables
<1>3. ASSUME NEW s \in Socket PROVE References(s)
  BY DEF TypeOK, References
<1> QED
  BY <1>1, <1>2, <1>3

LEMMA TypeOKFromParts ==
  ASSUME Tables', Variables', Histories', Messages', FaultType',
         \A s \in Socket : References(s)'
  PROVE  TypeOK'
<1>1. ASSUME NEW s \in Socket
      PROVE  /\ sshClient'[s] \in {null} \cup {n \in Attempt :
                                       attempt'[s][n] \in {"connected", "failed"}}
             /\ sshStream'[s] \in {null} \cup {n \in Attempt : conn'[s][n] # "none"}
  BY DEF Variables, References
<1>2. {sshClient', sshStream'} \subseteq [Socket -> {null} \cup Attempt]
  BY DEF Variables
<1> QED
  BY <1>1, <1>2 DEF TypeOK, Tables, Variables, Histories, Messages, FaultType,
                    AttemptState, ConnState

\* Assigning to one place of a table.
LEMMA TableEntry ==
  ASSUME NEW S, NEW T, NEW V, NEW f \in [S -> [T -> V]],
         NEW s \in S, NEW n \in T, NEW v \in V, NEW g, g = [f EXCEPT ![s][n] = v]
  PROVE  /\ g \in [S -> [T -> V]]
         /\ \A t \in S \ {s} : g[t] = f[t]
         /\ \A m \in T : g[s][m] = IF m = n THEN v ELSE f[s][m]
OBVIOUS

\* Assigning to one row of it.
LEMMA TableRow ==
  ASSUME NEW S, NEW V, NEW f \in [S -> V], NEW s \in S, NEW v \in V,
         NEW g, g = [f EXCEPT ![s] = v]
  PROVE  /\ g \in [S -> V] /\ g[s] = v
         /\ \A t \in S \ {s} : g[t] = f[t]
OBVIOUS

LEMMA InitIInv == Init => IInv
<1> SUFFICES ASSUME Init PROVE IInv
  OBVIOUS
<1>1. TypeOK
  BY DEF Init, TypeOK, NoFault
<1>2. \A s \in Socket : HeldInv(s)
  BY DEF Init, HeldInv
<1>3. FaultIsExplained
  BY DEF Init, FaultIsExplained, NoFault
<1> QED
  BY <1>1, <1>2, <1>3 DEF IInv

\* What the connections and the attempts of a socket may do without becoming
\* anybody's responsibility.
Moves(s) ==
  /\ attempt' \in [Socket -> [Attempt -> AttemptState]]
  /\ conn' \in [Socket -> [Attempt -> ConnState]]
  /\ \A t \in Socket \ {s} : attempt'[t] = attempt[t] /\ conn'[t] = conn[t]
  /\ \A n \in Attempt :
        /\ conn'[s][n] # "none" <=> conn[s][n] # "none"
        /\ conn'[s][n] = "shell" => conn[s][n] = "shell"
        /\ attempt[s][n] \in {"connected", "failed"} => attempt'[s][n] = attempt[s][n]

FaultOK ==
  /\ FaultType'
  /\ FaultIsExplained'

\* Steps that leave the variables of the sockets alone.
LEMMA KeepStep ==
  ASSUME IInv, NEW s \in Socket, Moves(s), Messages', FaultOK, UNCHANGED session
  PROVE  IInv'
<1>1. UNCHANGED <<closed, sshClient, sshStream, ended, listening, orphans, replaced>>
  BY DEF session, lost
<1>2. TypeOK'
  <2>1. Variables /\ Histories /\ \A t \in Socket : References(t)
    BY TypeOKParts DEF IInv
  <2>2. Variables' /\ Histories'
    BY <1>1, <2>1 DEF Variables, Histories
  <2>3. ASSUME NEW t \in Socket PROVE References(t)'
    <3>1. CASE t = s
      BY <1>1, <2>1, <3>1 DEF References, Moves, Variables
    <3>2. CASE t # s
      BY <1>1, <2>1, <3>2 DEF References, Moves
    <3> QED
      BY <3>1, <3>2
  <2>4. Tables' /\ Messages' /\ FaultType'
    BY DEF Moves, FaultOK, Tables
  <2> QED
    BY <2>2, <2>3, <2>4, TypeOKFromParts
<1>3. ASSUME NEW t \in Socket PROVE HeldInv(t)'
  <2>1. CASE t = s
    BY <1>1, <2>1 DEF IInv, HeldInv, Moves
  <2>2. CASE t # s
    BY <1>1, <2>2 DEF IInv, HeldInv, Moves
  <2> QED
    BY <2>1, <2>2
<1> QED
  BY <1>2, <1>3 DEF IInv, FaultOK

\* What the first cleanup does to its socket, and to no other.
LEMMA CleanupEffect ==
  ASSUME IInv, NEW s \in Socket, NEW client \in {null} \cup Attempt,
         cleanup(s, client), ~closed[s]
  PROVE  /\ closed' \in [Socket -> BOOLEAN] /\ closed'[s]
         /\ sshClient' \in [Socket -> {null} \cup Attempt] /\ sshClient'[s] = null
         /\ sshStream' \in [Socket -> {null} \cup Attempt] /\ sshStream'[s] = null
         /\ ended' \in [Socket -> SUBSET Attempt] /\ ended'[s] = {client} \ {null}
         /\ listening' \in [Socket -> SUBSET Attempt]
         /\ listening'[s] = listening[s] \ {client}
         /\ \A t \in Socket \ {s} :
               /\ closed'[t] = closed[t] /\ sshClient'[t] = sshClient[t]
               /\ sshStream'[t] = sshStream[t] /\ ended'[t] = ended[t]
               /\ listening'[t] = listening[t]
<1>1. /\ closed \in [Socket -> BOOLEAN] /\ ended \in [Socket -> SUBSET Attempt]
      /\ listening \in [Socket -> SUBSET Attempt] /\ ended[s] = {}
      /\ sshClient \in [Socket -> {null} \cup Attempt]
      /\ sshStream \in [Socket -> {null} \cup Attempt]
  BY DEF IInv, TypeOK, HeldInv
<1>2. /\ closed' = [closed EXCEPT ![s] = TRUE]
      /\ sshStream' = [sshStream EXCEPT ![s] = null]
      /\ sshClient' = [sshClient EXCEPT ![s] = null]
      /\ ended' = [ended EXCEPT ![s] = @ \cup ({client} \ {null})]
      /\ listening' = [listening EXCEPT ![s] = @ \ {client}]
  BY DEF cleanup
<1>3. /\ closed' \in [Socket -> BOOLEAN] /\ closed'[s]
      /\ \A t \in Socket \ {s} : closed'[t] = closed[t]
  BY <1>1, <1>2
<1>4. /\ sshClient' \in [Socket -> {null} \cup Attempt] /\ sshClient'[s] = null
      /\ sshStream' \in [Socket -> {null} \cup Attempt] /\ sshStream'[s] = null
      /\ \A t \in Socket \ {s} : sshClient'[t] = sshClient[t] /\ sshStream'[t] = sshStream[t]
  BY <1>1, <1>2
<1>5. /\ ended' \in [Socket -> SUBSET Attempt] /\ ended'[s] = {client} \ {null}
      /\ \A t \in Socket \ {s} : ended'[t] = ended[t]
  BY <1>1, <1>2
<1>6. /\ listening' \in [Socket -> SUBSET Attempt]
      /\ listening'[s] = listening[s] \ {client}
      /\ \A t \in Socket \ {s} : listening'[t] = listening[t]
  BY <1>1, <1>2
<1> QED
  BY <1>3, <1>4, <1>5, <1>6

\* What explains a fault goes on explaining it.
LEMMA FaultStep ==
  ASSUME IInv, UNCHANGED fault,
         \A t \in Socket : ended[t] \subseteq ended'[t] /\ replaced[t] \subseteq replaced'[t]
  PROVE  FaultOK
<1>1. CASE fault = NoFault
  BY <1>1 DEF FaultOK, FaultIsExplained, FaultType, NoFault
<1>2. CASE fault # NoFault
  <2>1. fault \in [kind : {"exception", "unheard error"}, socket : Socket]
    BY <1>2 DEF IInv, TypeOK
  <2> QED
    BY <2>1 DEF IInv, FaultOK, FaultIsExplained, FaultType
<1> QED
  BY <1>1, <1>2

\* A session ends: cleanup runs, or has run before.
LEMMA CleanupStep ==
  ASSUME IInv, NEW s \in Socket, Moves(s), Messages', Cleanup(s), UNCHANGED fault
  PROVE  IInv'
<1>1. CASE closed[s]
  <2>1. UNCHANGED session
    <3>1. /\ sshClient' = [sshClient EXCEPT ![s] = sshClient[s]]
          /\ UNCHANGED <<closed, sshStream, ended, listening, lost>>
      BY <1>1 DEF Cleanup, cleanup
    <3>2. sshClient' = sshClient
      BY <3>1 DEF IInv, TypeOK
    <3> QED
      BY <3>1, <3>2 DEF session
  <2>2. FaultOK
    BY <2>1, FaultStep DEF session, lost
  <2> QED
    BY <2>1, <2>2, KeepStep
<1>2. CASE ~closed[s]
  <2> DEFINE client == sshClient[s]
  <2>1. client \in {null} \cup Attempt
    BY DEF IInv, TypeOK
  <2>2. /\ closed' \in [Socket -> BOOLEAN] /\ closed'[s]
        /\ sshClient' \in [Socket -> {null} \cup Attempt] /\ sshClient'[s] = null
        /\ sshStream' \in [Socket -> {null} \cup Attempt] /\ sshStream'[s] = null
        /\ ended' \in [Socket -> SUBSET Attempt] /\ ended'[s] = {client} \ {null}
        /\ listening' \in [Socket -> SUBSET Attempt]
        /\ listening'[s] = listening[s] \ {client}
        /\ \A t \in Socket \ {s} :
              /\ closed'[t] = closed[t] /\ sshClient'[t] = sshClient[t]
              /\ sshStream'[t] = sshStream[t] /\ ended'[t] = ended[t]
              /\ listening'[t] = listening[t]
    BY <1>2, <2>1, CleanupEffect DEF Cleanup
  <2>3. orphans' = orphans /\ replaced' = replaced
    BY DEF Cleanup, lost
  <2>4. ASSUME NEW t \in Socket, t # s
        PROVE  /\ attempt'[t] = attempt[t] /\ conn'[t] = conn[t]
               /\ closed'[t] = closed[t] /\ sshClient'[t] = sshClient[t]
               /\ sshStream'[t] = sshStream[t] /\ ended'[t] = ended[t]
               /\ listening'[t] = listening[t]
    BY <2>2, <2>4 DEF Moves
  <2>5. TypeOK'
    <3>1. Histories /\ \A t \in Socket : References(t)
      BY TypeOKParts DEF IInv
    <3>2. Variables' /\ Histories' /\ Tables' /\ FaultType'
      BY <2>2, <2>3, <3>1, TypeOKParts
         DEF IInv, Variables, Histories, Tables, Moves, FaultType
    <3>3. ASSUME NEW t \in Socket PROVE References(t)'
      <4>1. CASE t = s
        BY <2>2, <4>1 DEF References
      <4>2. CASE t # s
        BY <2>4, <3>1, <4>2 DEF References
      <4> QED
        BY <4>1, <4>2
    <3> QED
      BY <3>2, <3>3, TypeOKFromParts
  <2>6. ASSUME NEW t \in Socket PROVE HeldInv(t)'
    <3>1. CASE t = s
      <4>1. ASSUME NEW n \in Attempt
            PROVE  /\ conn'[s][n] # "none" =>
                         attempt'[s][n] = "connected" /\ n \in listening'[s] \cup ended'[s]
                   /\ n \in listening'[s] => n \in replaced[s]
        <5>1. /\ conn'[s][n] # "none" =>
                    attempt[s][n] = "connected" /\ n \in listening[s]
              /\ n \in listening[s] => client = n \/ n \in replaced[s]
              /\ attempt[s][n] = "connected" => attempt'[s][n] = "connected"
          BY <1>2 DEF IInv, HeldInv, Moves
        <5> QED
          BY <2>2, <5>1, AttemptIsPositive
      <4> QED
        BY <2>2, <2>3, <3>1, <4>1 DEF HeldInv
    <3>2. CASE t # s
      BY <2>3, <2>4, <3>2 DEF IInv, HeldInv
    <3> QED
      BY <3>1, <3>2
  <2>7. FaultOK
    <3>1. ASSUME NEW t \in Socket PROVE ended[t] \subseteq ended'[t]
      <4>1. CASE t = s
        BY <1>2, <4>1 DEF IInv, HeldInv
      <4>2. CASE t # s
        BY <2>4, <4>2
      <4> QED
        BY <4>1, <4>2
    <3> QED
      BY <2>3, <3>1, FaultStep
  <2> QED
    BY <2>5, <2>6, <2>7 DEF IInv, FaultOK
<1> QED
  BY <1>1, <1>2
-----------------------------------------------------------------------------
(* Steps that leave the socket's variables alone, or end its session.      *)

\* The entries of a socket after one of its attempts, or connections, moved.
LEMMA ProceedMoves ==
  ASSUME IInv, NEW s \in Socket, NEW n \in Attempt, NEW state \in AttemptState,
         Proceed(s, n, state), attempt[s][n] \in {"idle", "fetching", "loading"},
         UNCHANGED conn
  PROVE  Moves(s)
<1>1. attempt \in [Socket -> [Attempt -> AttemptState]]
  BY DEF IInv, TypeOK, AttemptState
<1>2. attempt' = [attempt EXCEPT ![s][n] = state]
  BY DEF Proceed
<1>3. /\ attempt' \in [Socket -> [Attempt -> AttemptState]]
      /\ \A t \in Socket \ {s} : attempt'[t] = attempt[t]
      /\ \A m \in Attempt : attempt'[s][m] = IF m = n THEN state ELSE attempt[s][m]
  BY <1>1, <1>2, TableEntry
<1> QED
  BY <1>3 DEF IInv, TypeOK, Moves, ConnState

LEMMA ConnectionMoves ==
  ASSUME IInv, NEW s \in Socket, NEW n \in Attempt,
         NEW state \in {"ready", "opening", "closed"},
         Connection(s, n, state), conn[s][n] # "none", UNCHANGED attempt
  PROVE  Moves(s)
<1>1. conn \in [Socket -> [Attempt -> ConnState]] /\ state \in ConnState
  BY DEF IInv, TypeOK, ConnState
<1>2. conn' = [conn EXCEPT ![s][n] = state]
  BY DEF Connection
<1>3. /\ conn' \in [Socket -> [Attempt -> ConnState]]
      /\ \A t \in Socket \ {s} : conn'[t] = conn[t]
      /\ \A m \in Attempt : conn'[s][m] = IF m = n THEN state ELSE conn[s][m]
  BY <1>1, <1>2, TableEntry
<1> QED
  BY <1>3 DEF IInv, TypeOK, Moves, AttemptState

LEMMA NothingMoves ==
  ASSUME IInv, NEW s \in Socket, UNCHANGED <<attempt, conn>>
  PROVE  Moves(s)
BY DEF IInv, TypeOK, Moves, AttemptState, ConnState

LEMMA MessageSteps ==
  ASSUME IInv, NEW s \in Socket, NEW n \in Attempt,
         Answer(s, n) \/ UNCHANGED answered,
         UNCHANGED <<socket, raced>>
  PROVE  Messages'
<1>1. /\ answered \in [Socket -> SUBSET Attempt] /\ raced \in [Socket -> SUBSET Attempt]
      /\ socket \in [Socket -> {"open", "leaving", "gone"}]
  BY DEF IInv, TypeOK
<1>2. answered' \in [Socket -> SUBSET Attempt]
  <2>1. CASE Answer(s, n)
    <3>1. answered[s] \cup {n} \in SUBSET Attempt
      BY <1>1
    <3>2. answered' = [answered EXCEPT ![s] = answered[s] \cup {n}]
      BY <2>1 DEF Answer
    <3> QED
      BY <1>1, <3>1, <3>2, TableRow
  <2>2. CASE UNCHANGED answered
    BY <1>1, <2>2
  <2> QED
    BY <2>1, <2>2
<1> QED
  BY <1>1, <1>2 DEF Messages

LEMMA SessionFault ==
  ASSUME IInv, UNCHANGED <<session, fault>>
  PROVE  FaultOK
BY FaultStep DEF session, lost

LEMMA ConnectStep ==
  ASSUME IInv, NEW s \in Socket, NEW n \in Attempt, Connect(s, n)
  PROVE  IInv'
<1>1. attempt[s][n] = "idle" /\ UNCHANGED <<socket, session, conn, fault>>
  BY DEF Connect
<1>2. Moves(s)
  BY <1>1, ProceedMoves DEF Connect, AttemptState
<1>3. Messages'
  <2>1. CASE Answer(s, n) /\ UNCHANGED raced
    BY <1>1, <2>1, MessageSteps
  <2>2. CASE UNCHANGED answered /\ ~ UNCHANGED raced
    <3> DEFINE others == IF Awaiting(s) = {} THEN raced[s]
                         ELSE raced[s] \cup {n} \cup Awaiting(s)
    <3>1. raced \in [Socket -> SUBSET Attempt] /\ others \in SUBSET Attempt
      BY DEF IInv, TypeOK, Awaiting
    <3>2. raced' = [raced EXCEPT ![s] = others]
      BY <2>2 DEF Connect
    <3>3. raced' \in [Socket -> SUBSET Attempt]
      BY <3>1, <3>2, TableRow
    <3> QED
      BY <1>1, <2>2, <3>3 DEF Messages, IInv, TypeOK
  <2>3. CASE UNCHANGED <<answered, raced>>
    BY <1>1, <2>3, MessageSteps
  <2> QED
    BY <2>1, <2>2, <2>3 DEF Connect
<1> QED
  BY <1>1, <1>2, <1>3, SessionFault, KeepStep

LEMMA FetchedStep ==
  ASSUME IInv, NEW s \in Socket, NEW n \in Attempt, Fetched(s, n)
  PROVE  IInv'
<1>1. /\ attempt[s][n] = "fetching" /\ Proceed(s, n, "loading")
      /\ UNCHANGED <<socket, session, conn, answered, fault, raced>>
  BY DEF Fetched
<1>2. Moves(s)
  BY <1>1, ProceedMoves DEF AttemptState
<1> QED
  BY <1>1, <1>2, MessageSteps, SessionFault, KeepStep

LEMMA FailsStep ==
  ASSUME IInv, NEW s \in Socket, NEW n \in Attempt, Fails(s, n)
  PROVE  IInv'
<1>1. /\ attempt[s][n] \in {"fetching", "loading"} /\ Proceed(s, n, "failed")
      /\ Answer(s, n) /\ Cleanup(s) /\ UNCHANGED <<socket, conn, fault, raced>>
  BY DEF Fails, Awaiting
<1>2. Moves(s)
  BY <1>1, ProceedMoves DEF AttemptState
<1> QED
  BY <1>1, <1>2, MessageSteps, CleanupStep

\* A shell is asked of somebody else's client only if that client took the
\* place of the one that is ready.
LEMMA ReadyStep ==
  ASSUME IInv, NEW s \in Socket, NEW n \in Attempt, Ready(s, n)
  PROVE  IInv'
<1>1. conn[s][n] = "connecting" /\ UNCHANGED <<socket, session, attempt, answered, raced>>
  BY DEF Ready
<1>2. Moves(s)
  BY <1>1, ConnectionMoves DEF Ready
<1>3. FaultOK
  <2>1. CASE fault' = fault
    BY <1>1, <2>1, SessionFault
  <2>2. CASE fault' # fault
    <3>1. /\ fault' = [kind |-> "exception", socket |-> s]
          /\ n \in listening[s] /\ sshClient[s] # n
      BY <2>2 DEF Ready
    <3>2. n \in replaced[s] /\ replaced' = replaced
      BY <1>1, <3>1 DEF IInv, HeldInv, session, lost
    <3> QED
      BY <3>1, <3>2 DEF FaultOK, FaultIsExplained, FaultType
  <2> QED
    BY <2>1, <2>2
<1> QED
  BY <1>1, <1>2, <1>3, MessageSteps, KeepStep

LEMMA ShellFailsStep ==
  ASSUME IInv, NEW s \in Socket, NEW n \in Attempt, ShellFails(s, n)
  PROVE  IInv'
<1>1. /\ conn[s][n] = "opening" /\ Connection(s, n, "ready")
      /\ Answer(s, n) /\ Cleanup(s) /\ UNCHANGED <<socket, attempt, fault, raced>>
  BY DEF ShellFails
<1>2. Moves(s)
  BY <1>1, ConnectionMoves
<1> QED
  BY <1>1, <1>2, MessageSteps, CleanupStep

LEMMA StreamClosesStep ==
  ASSUME IInv, NEW s \in Socket, NEW n \in Attempt, StreamCloses(s, n)
  PROVE  IInv'
<1>1. /\ conn[s][n] = "shell" /\ Connection(s, n, "ready")
      /\ UNCHANGED <<socket, attempt, fault, raced>>
  BY DEF StreamCloses
<1>2. Moves(s)
  BY <1>1, ConnectionMoves
<1>3. CASE sshStream[s] = n
  BY <1>1, <1>2, <1>3, MessageSteps, CleanupStep DEF StreamCloses
<1>4. CASE sshStream[s] # n
  BY <1>1, <1>2, <1>4, MessageSteps, SessionFault, KeepStep DEF StreamCloses
<1> QED
  BY <1>3, <1>4

\* Nobody listens to a client any more only if it was ended.
LEMMA ClientErrorStep ==
  ASSUME IInv, NEW s \in Socket, NEW n \in Attempt, ClientError(s, n)
  PROVE  IInv'
<1>1. /\ conn[s][n] # "none" /\ Connection(s, n, "closed")
      /\ UNCHANGED <<socket, attempt, raced>>
  BY DEF ClientError, Connected
<1>2. Moves(s)
  BY <1>1, ConnectionMoves
<1>3. CASE n \in listening[s]
  BY <1>1, <1>2, <1>3, MessageSteps, CleanupStep DEF ClientError
<1>4. CASE n \notin listening[s]
  <2>1. /\ fault' = [kind |-> "unheard error", socket |-> s]
        /\ UNCHANGED <<session, answered>>
    BY <1>4 DEF ClientError
  <2>2. n \in ended[s] /\ ended' = ended
    BY <1>1, <1>4, <2>1 DEF IInv, HeldInv, session
  <2>3. FaultOK
    BY <2>1, <2>2 DEF FaultOK, FaultIsExplained, FaultType
  <2> QED
    BY <1>1, <1>2, <2>1, <2>3, MessageSteps, KeepStep
<1> QED
  BY <1>3, <1>4

LEMMA ClientClosedStep ==
  ASSUME IInv, NEW s \in Socket, NEW n \in Attempt, ClientClosed(s, n)
  PROVE  IInv'
<1>1. /\ conn[s][n] # "none" /\ Connection(s, n, "closed")
      /\ UNCHANGED <<socket, attempt, fault, raced>>
  BY DEF ClientClosed, Connected
<1>2. Moves(s)
  BY <1>1, ConnectionMoves
<1>3. CASE Answer(s, n) /\ Cleanup(s)
  BY <1>1, <1>2, <1>3, MessageSteps, CleanupStep
<1>4. CASE UNCHANGED <<session, answered>>
  BY <1>1, <1>2, <1>4, MessageSteps, SessionFault, KeepStep
<1> QED
  BY <1>3, <1>4 DEF ClientClosed

LEMMA LeaveStep ==
  ASSUME IInv, NEW s \in Socket, AskDisconnect(s) \/ Disconnect(s)
  PROVE  IInv'
<1>1. Cleanup(s) /\ UNCHANGED <<attempt, conn, answered, fault, raced>>
  BY DEF AskDisconnect, Disconnect
<1>2. Messages'
  BY DEF AskDisconnect, Disconnect, IInv, TypeOK, Messages
<1> QED
  BY <1>1, <1>2, NothingMoves, CleanupStep
-----------------------------------------------------------------------------
(* Steps that give the socket a client or a stream.                        *)

LEMMA Remembered ==
  ASSUME IInv, NEW s \in Socket, NEW n \in Attempt, Remember(s, n)
  PROVE  /\ orphans' \in [Socket -> SUBSET Attempt]
         /\ replaced' \in [Socket -> SUBSET Attempt]
         /\ orphans'[s] = (IF closed[s] THEN orphans[s] \cup {n} ELSE orphans[s])
         /\ replaced'[s] = replaced[s] \cup ({sshClient[s]} \ {null})
         /\ \A t \in Socket \ {s} : orphans'[t] = orphans[t] /\ replaced'[t] = replaced[t]
<1> DEFINE o == IF closed[s] THEN orphans[s] \cup {n} ELSE orphans[s]
           p == replaced[s] \cup ({sshClient[s]} \ {null})
<1>1. /\ orphans \in [Socket -> SUBSET Attempt] /\ o \in SUBSET Attempt
      /\ replaced \in [Socket -> SUBSET Attempt] /\ p \in SUBSET Attempt
  BY DEF IInv, TypeOK
<1>2. orphans' = [orphans EXCEPT ![s] = o] /\ replaced' = [replaced EXCEPT ![s] = p]
  BY DEF Remember
<1> HIDE DEF o, p
<1>3. /\ orphans' \in [Socket -> SUBSET Attempt] /\ orphans'[s] = o
      /\ \A t \in Socket \ {s} : orphans'[t] = orphans[t]
  BY <1>1, <1>2, TableRow
<1>4. /\ replaced' \in [Socket -> SUBSET Attempt] /\ replaced'[s] = p
      /\ \A t \in Socket \ {s} : replaced'[t] = replaced[t]
  BY <1>1, <1>2, TableRow
<1> QED
  BY <1>3, <1>4 DEF o, p

\* The socket's variable gets client n, and who had it is replaced.
LEMMA LoadedStep ==
  ASSUME IInv, NEW s \in Socket, NEW n \in Attempt, Loaded(s, n)
  PROVE  IInv'
<1>1. /\ attempt[s][n] = "loading" /\ n # null
      /\ attempt' = [attempt EXCEPT ![s][n] = "connected"]
      /\ conn' = [conn EXCEPT ![s][n] = "connecting"]
      /\ sshClient' = [sshClient EXCEPT ![s] = n]
      /\ listening' = [listening EXCEPT ![s] = listening[s] \cup {n}]
      /\ UNCHANGED <<socket, closed, sshStream, ended, answered, fault, raced>>
  BY AttemptIsPositive DEF Loaded, Proceed, Connection
<1>2. /\ attempt \in [Socket -> [Attempt -> AttemptState]]
      /\ conn \in [Socket -> [Attempt -> ConnState]]
      /\ sshClient \in [Socket -> {null} \cup Attempt]
      /\ listening \in [Socket -> SUBSET Attempt]
      /\ listening[s] \cup {n} \in SUBSET Attempt
      /\ "connected" \in AttemptState /\ "connecting" \in ConnState
  BY DEF IInv, TypeOK, AttemptState, ConnState
<1>3. /\ attempt' \in [Socket -> [Attempt -> AttemptState]]
      /\ \A t \in Socket \ {s} : attempt'[t] = attempt[t]
      /\ \A m \in Attempt : attempt'[s][m] = IF m = n THEN "connected" ELSE attempt[s][m]
  BY <1>1, <1>2, TableEntry
<1>4. /\ conn' \in [Socket -> [Attempt -> ConnState]]
      /\ \A t \in Socket \ {s} : conn'[t] = conn[t]
      /\ \A m \in Attempt : conn'[s][m] = IF m = n THEN "connecting" ELSE conn[s][m]
  BY <1>1, <1>2, TableEntry
<1>5. /\ sshClient' \in [Socket -> {null} \cup Attempt] /\ sshClient'[s] = n
      /\ \A t \in Socket \ {s} : sshClient'[t] = sshClient[t]
  BY <1>1, <1>2, TableRow
<1>6. /\ listening' \in [Socket -> SUBSET Attempt] /\ listening'[s] = listening[s] \cup {n}
      /\ \A t \in Socket \ {s} : listening'[t] = listening[t]
  BY <1>1, <1>2, TableRow
<1>7. /\ orphans' \in [Socket -> SUBSET Attempt]
      /\ replaced' \in [Socket -> SUBSET Attempt]
      /\ orphans'[s] = (IF closed[s] THEN orphans[s] \cup {n} ELSE orphans[s])
      /\ replaced'[s] = replaced[s] \cup ({sshClient[s]} \ {null})
      /\ \A t \in Socket \ {s} : orphans'[t] = orphans[t] /\ replaced'[t] = replaced[t]
  BY Remembered DEF Loaded
<1>8. TypeOK'
  <2>1. /\ Variables /\ Messages /\ FaultType
        /\ \A t \in Socket : References(t)
    BY TypeOKParts DEF IInv
  <2>2. Variables' /\ Tables' /\ Histories' /\ Messages' /\ FaultType'
    BY <1>1, <1>3, <1>4, <1>5, <1>6, <1>7, <2>1
       DEF Variables, Tables, Histories, Messages, FaultType
  <2>3. ASSUME NEW t \in Socket PROVE References(t)'
    <3>1. CASE t = s
      BY <1>1, <1>3, <1>4, <1>5, <2>1, <3>1 DEF References, Variables
    <3>2. CASE t # s
      BY <1>1, <1>3, <1>4, <1>5, <2>1, <3>2 DEF References
    <3> QED
      BY <3>1, <3>2
  <2> QED
    BY <2>2, <2>3, TypeOKFromParts
<1>9. ASSUME NEW t \in Socket PROVE HeldInv(t)'
  <2>1. CASE t = s
    <3>1. ASSUME NEW m \in Attempt
          PROVE  /\ conn'[s][m] # "none" =>
                       attempt'[s][m] = "connected" /\ m \in listening'[s] \cup ended'[s]
                 /\ m \in listening'[s] => sshClient'[s] = m \/ m \in replaced'[s]
                 /\ closed'[s] /\ m \in listening'[s] => m \in orphans'[s] \cup replaced'[s]
                 /\ ~closed'[s] /\ replaced'[s] = {} /\ conn'[s][m] = "shell" =>
                       sshStream'[s] = m
      <4>1. CASE m = n
        BY <1>1, <1>3, <1>4, <1>5, <1>6, <1>7, <4>1
      <4>2. CASE m # n
        <5>1. /\ conn'[s][m] = conn[s][m] /\ attempt'[s][m] = attempt[s][m]
              /\ m \in listening'[s] <=> m \in listening[s]
              /\ closed'[s] = closed[s] /\ sshStream'[s] = sshStream[s] /\ ended'[s] = ended[s]
              /\ replaced[s] \subseteq replaced'[s] /\ orphans[s] \subseteq orphans'[s]
              /\ sshClient[s] = m => m \in replaced'[s]
          BY <1>1, <1>3, <1>4, <1>6, <1>7, <4>2, AttemptIsPositive
        <5> QED
          BY <5>1 DEF IInv, HeldInv
      <4> QED
        BY <4>1, <4>2
    <3> QED
      BY <1>1, <2>1, <3>1 DEF IInv, HeldInv
  <2>2. CASE t # s
    BY <1>1, <1>3, <1>4, <1>5, <1>6, <1>7, <2>2 DEF IInv, HeldInv
  <2> QED
    BY <2>1, <2>2
<1>10. FaultOK
  <2>1. ASSUME NEW t \in Socket
        PROVE  ended[t] \subseteq ended'[t] /\ replaced[t] \subseteq replaced'[t]
    BY <1>1, <1>7
  <2> QED
    BY <1>1, <2>1, FaultStep
<1> QED
  BY <1>8, <1>9, <1>10 DEF IInv, FaultOK

LEMMA BadKeyStep ==
  ASSUME IInv, NEW s \in Socket, NEW n \in Attempt, BadKey(s, n)
  PROVE  IInv'
<1>1. /\ attempt[s][n] = "loading" /\ n # null
      /\ attempt' = [attempt EXCEPT ![s][n] = "failed"]
      /\ cleanup(s, n) /\ Answer(s, n) /\ UNCHANGED <<socket, conn, fault, raced>>
  BY AttemptIsPositive DEF BadKey, Proceed
<1>2. /\ attempt \in [Socket -> [Attempt -> AttemptState]] /\ "failed" \in AttemptState
      /\ sshClient \in [Socket -> {null} \cup Attempt]
  BY DEF IInv, TypeOK, AttemptState
<1>3. /\ attempt' \in [Socket -> [Attempt -> AttemptState]]
      /\ \A t \in Socket \ {s} : attempt'[t] = attempt[t]
      /\ \A m \in Attempt : attempt'[s][m] = IF m = n THEN "failed" ELSE attempt[s][m]
  BY <1>1, <1>2, TableEntry
<1>4. /\ orphans' \in [Socket -> SUBSET Attempt]
      /\ replaced' \in [Socket -> SUBSET Attempt]
      /\ orphans'[s] = (IF closed[s] THEN orphans[s] \cup {n} ELSE orphans[s])
      /\ replaced'[s] = replaced[s] \cup ({sshClient[s]} \ {null})
      /\ \A t \in Socket \ {s} : orphans'[t] = orphans[t] /\ replaced'[t] = replaced[t]
  BY Remembered DEF BadKey
<1>5. Messages'
  BY <1>1, MessageSteps
<1>6. /\ closed' \in [Socket -> BOOLEAN] /\ closed'[s]
      /\ sshClient' \in [Socket -> {null} \cup Attempt] /\ sshClient'[s] \in {null, n}
      /\ closed[s] => sshClient'[s] = n
      /\ sshStream' \in [Socket -> {null} \cup Attempt] /\ sshStream'[s] \in {null, sshStream[s]}
      /\ ended' \in [Socket -> SUBSET Attempt] /\ ended[s] \subseteq ended'[s]
      /\ listening' \in [Socket -> SUBSET Attempt]
      /\ closed[s] => listening'[s] = listening[s]
      /\ ~closed[s] => listening'[s] = listening[s] \ {n} /\ ended'[s] = {n}
      /\ \A t \in Socket \ {s} :
            /\ closed'[t] = closed[t] /\ sshClient'[t] = sshClient[t]
            /\ sshStream'[t] = sshStream[t] /\ ended'[t] = ended[t]
            /\ listening'[t] = listening[t]
  <2>1. CASE closed[s]
    <3>1. /\ sshClient' = [sshClient EXCEPT ![s] = n]
          /\ UNCHANGED <<closed, sshStream, ended, listening>>
      BY <1>1, <2>1 DEF cleanup
    <3>2. /\ sshClient' \in [Socket -> {null} \cup Attempt] /\ sshClient'[s] = n
          /\ \A t \in Socket \ {s} : sshClient'[t] = sshClient[t]
      BY <1>2, <3>1, TableRow
    <3> QED
      BY <2>1, <3>1, <3>2 DEF IInv, TypeOK
  <2>2. CASE ~closed[s]
    <3>1. ended[s] = {}
      BY <2>2 DEF IInv, HeldInv
    <3> QED
      BY <1>1, <2>2, <3>1, CleanupEffect
  <2> QED
    BY <2>1, <2>2
<1>7. TypeOK'
  <2>1. /\ Variables /\ Tables /\ FaultType
        /\ \A t \in Socket : References(t)
    BY TypeOKParts DEF IInv
  <2>2. Variables' /\ Tables' /\ Histories' /\ FaultType'
    BY <1>1, <1>3, <1>4, <1>6, <2>1 DEF Variables, Tables, Histories, FaultType
  <2>3. ASSUME NEW t \in Socket PROVE References(t)'
    <3>1. CASE t = s
      BY <1>1, <1>3, <1>6, <2>1, <3>1 DEF References, Variables
    <3>2. CASE t # s
      BY <1>1, <1>3, <1>6, <2>1, <3>2 DEF References
    <3> QED
      BY <3>1, <3>2
  <2> QED
    BY <1>5, <2>2, <2>3, TypeOKFromParts
<1>8. ASSUME NEW t \in Socket PROVE HeldInv(t)'
  <2>1. CASE t = s
    <3>1. ASSUME NEW m \in Attempt
          PROVE  /\ conn'[s][m] # "none" =>
                       attempt'[s][m] = "connected" /\ m \in listening'[s] \cup ended'[s]
                 /\ m \in listening'[s] => sshClient'[s] = m \/ m \in replaced'[s]
                 /\ m \in listening'[s] => m \in orphans'[s] \cup replaced'[s]
      <4>1. /\ conn'[s][m] = conn[s][m]
            /\ conn[s][m] # "none" => m # n /\ attempt'[s][m] = attempt[s][m]
            /\ replaced[s] \subseteq replaced'[s] /\ orphans[s] \subseteq orphans'[s]
            /\ sshClient[s] = m => m \in replaced'[s]
        BY <1>1, <1>3, <1>4, AttemptIsPositive DEF IInv, HeldInv
      <4>2. CASE closed[s]
        BY <1>6, <4>1, <4>2 DEF IInv, HeldInv
      <4>3. CASE ~closed[s]
        BY <1>6, <4>1, <4>3 DEF IInv, HeldInv
      <4> QED
        BY <4>2, <4>3
    <3> QED
      BY <1>6, <2>1, <3>1 DEF HeldInv
  <2>2. CASE t # s
    BY <1>1, <1>3, <1>4, <1>6, <2>2 DEF IInv, HeldInv
  <2> QED
    BY <2>1, <2>2
<1>9. FaultOK
  <2>1. ASSUME NEW t \in Socket
        PROVE  ended[t] \subseteq ended'[t] /\ replaced[t] \subseteq replaced'[t]
    BY <1>4, <1>6
  <2> QED
    BY <1>1, <2>1, FaultStep
<1> QED
  BY <1>7, <1>8, <1>9 DEF IInv, FaultOK

\* Of the clients of a socket that nobody replaced, one has a shell.
LEMMA ShellOpenedStep ==
  ASSUME IInv, NEW s \in Socket, NEW n \in Attempt, ShellOpened(s, n)
  PROVE  IInv'
<1>1. /\ conn[s][n] = "opening"
      /\ conn' = [conn EXCEPT ![s][n] = "shell"]
      /\ sshStream' = [sshStream EXCEPT ![s] = n]
      /\ UNCHANGED <<socket, closed, sshClient, ended, listening, orphans, replaced,
                     attempt, fault, raced>>
  BY DEF ShellOpened, Connection, lost
<1>2. /\ conn \in [Socket -> [Attempt -> ConnState]] /\ "shell" \in ConnState
      /\ sshStream \in [Socket -> {null} \cup Attempt]
  BY DEF IInv, TypeOK, ConnState
<1>3. /\ conn' \in [Socket -> [Attempt -> ConnState]]
      /\ \A t \in Socket \ {s} : conn'[t] = conn[t]
      /\ \A m \in Attempt : conn'[s][m] = IF m = n THEN "shell" ELSE conn[s][m]
  BY <1>1, <1>2, TableEntry
<1>4. /\ sshStream' \in [Socket -> {null} \cup Attempt] /\ sshStream'[s] = n
      /\ \A t \in Socket \ {s} : sshStream'[t] = sshStream[t]
  BY <1>1, <1>2, TableRow
<1>5. Messages'
  BY <1>1, MessageSteps DEF ShellOpened
<1>6. TypeOK'
  <2>1. /\ Variables /\ Tables /\ Histories /\ FaultType
        /\ \A t \in Socket : References(t)
    BY TypeOKParts DEF IInv
  <2>2. Variables' /\ Tables' /\ Histories' /\ FaultType'
    BY <1>1, <1>3, <1>4, <2>1 DEF Variables, Tables, Histories, FaultType
  <2>3. ASSUME NEW t \in Socket PROVE References(t)'
    <3>1. CASE t = s
      BY <1>1, <1>3, <1>4, <2>1, <3>1 DEF References, Variables
    <3>2. CASE t # s
      BY <1>1, <1>3, <1>4, <2>1, <3>2 DEF References
    <3> QED
      BY <3>1, <3>2
  <2> QED
    BY <1>5, <2>2, <2>3, TypeOKFromParts
<1>7. ASSUME NEW t \in Socket PROVE HeldInv(t)'
  <2>1. CASE t = s
    <3>1. ASSUME NEW m \in Attempt, ~closed[s], replaced[s] = {}, conn'[s][m] = "shell"
          PROVE  m = n
      <4>1. m \in listening[s] /\ n \in listening[s]
        BY <1>1, <1>3, <3>1 DEF IInv, HeldInv
      <4> QED
        BY <3>1, <4>1 DEF IInv, HeldInv
    <3>2. \A m \in Attempt : conn'[s][m] # "none" => conn[s][m] # "none"
      BY <1>1, <1>3
    <3> QED
      BY <1>1, <1>4, <2>1, <3>1, <3>2 DEF IInv, HeldInv
  <2>2. CASE t # s
    BY <1>1, <1>3, <1>4, <2>2 DEF IInv, HeldInv
  <2> QED
    BY <2>1, <2>2
<1>8. FaultOK
  BY <1>1, FaultStep
<1> QED
  BY <1>6, <1>7, <1>8 DEF IInv, FaultOK

-----------------------------------------------------------------------------
LEMMA NextIInv ==
  ASSUME IInv, [Next]_vars
  PROVE  IInv'
<1>1. ASSUME NEW s \in Socket, NEW n \in Attempt,
             \/ Connect(s, n) \/ Fetched(s, n) \/ Fails(s, n) \/ Loaded(s, n)
             \/ BadKey(s, n) \/ Ready(s, n)
      PROVE  IInv'
  BY <1>1, ConnectStep, FetchedStep, FailsStep, LoadedStep, BadKeyStep, ReadyStep
<1>2. ASSUME NEW s \in Socket, NEW n \in Attempt,
             \/ ShellOpened(s, n) \/ ShellFails(s, n)
             \/ StreamCloses(s, n) \/ ClientError(s, n) \/ ClientClosed(s, n)
      PROVE  IInv'
  BY <1>2, ShellOpenedStep, ShellFailsStep, StreamClosesStep, ClientErrorStep, ClientClosedStep
<1>3. ASSUME NEW s \in Socket, AskDisconnect(s) \/ Disconnect(s)
      PROVE  IInv'
  BY <1>3, LeaveStep
<1>4. CASE UNCHANGED vars
  <2>1. CASE Socket = {}
    BY <1>4, <2>1 DEF vars, IInv, TypeOK, HeldInv, FaultIsExplained
  <2>2. ASSUME NEW s \in Socket PROVE IInv'
    <3>1. UNCHANGED <<socket, session, attempt, conn, answered, raced, fault>>
      BY <1>4 DEF vars, session, lost
    <3>2. Messages'
      BY <3>1, TypeOKParts DEF IInv, Messages
    <3> QED
      BY <3>1, <3>2, NothingMoves, SessionFault, KeepStep
  <2> QED
    BY <2>1, <2>2
<1> QED
  BY <1>1, <1>2, <1>3, <1>4 DEF Next

\* The three properties follow from the invariant.
LEMMA IInvImplies ==
  IInv => TypeOK /\ LiveSessionIsHeld /\ TeardownEndsClient /\ FaultIsExplained
<1> SUFFICES ASSUME IInv
             PROVE  TypeOK /\ LiveSessionIsHeld /\ TeardownEndsClient /\ FaultIsExplained
  OBVIOUS
<1>1. ASSUME NEW s \in Socket, NEW n \in Attempt, Alive(s, n)
      PROVE  n \in listening[s]
  BY <1>1 DEF IInv, HeldInv, Alive, Connected
<1>2. LiveSessionIsHeld
  BY <1>1 DEF IInv, HeldInv, LiveSessionIsHeld
<1>3. TeardownEndsClient
  BY <1>1 DEF IInv, HeldInv, TeardownEndsClient
<1> QED
  BY <1>2, <1>3 DEF IInv

\* The invariant that the other theorems rest on.
THEOREM Invariance == Spec => []IInv
BY InitIInv, NextIInv, PTL DEF Spec

\* The variables keep their types; a socket's client is one that an attempt
\* created, and its stream one that a connection opened.
THEOREM TypeCorrect == Spec => []TypeOK
BY Invariance, IInvImplies, PTL

\* Cleanup can reach whatever runs on a socket on which no two attempts raced.
THEOREM SessionsAreHeld == Spec => []LiveSessionIsHeld
BY Invariance, IInvImplies, PTL

\* What outlives cleanup was created after it or had been replaced.
THEOREM TeardownIsSound == Spec => []TeardownEndsClient
BY Invariance, IInvImplies, PTL

\* The bridge's process ends by an exception only if a connect event of the
\* socket took the place of another's client, and by an unheard error only if
\* the socket had ended a client of its own, for which one attempt is enough.
THEOREM FaultsAreExplained == Spec => []FaultIsExplained
BY Invariance, IInvImplies, PTL
=============================================================================
