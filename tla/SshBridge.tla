----------------------------- MODULE SshBridge ------------------------------
(***************************************************************************)
(* The SSH bridge of docker/ssh-bridge/server.mjs: one terminal session    *)
(* per Socket.io socket.  Handlers run one at a time and to completion;    *)
(* the handler of ssh:connect is cut in three by its two awaits, and the   *)
(* callbacks of ssh2 come in between.                                      *)
(*                                                                         *)
(* sshClient, sshStream and closed are variables of the socket, so that    *)
(* every attempt and every callback of the socket reads and writes the     *)
(* same three.  A client is named by the attempt that created it.          *)
(***************************************************************************)
EXTENDS Naturals, FiniteSets

CONSTANTS Socket,
          MaxConnects   \* bound on the ssh:connect events of a socket

ASSUME ConnectsAssumption == MaxConnects \in Nat \ {0}

Attempt == 1 .. MaxConnects
null == 0

VARIABLES
  socket,     \* per socket: open, leaving (ssh:disconnect was sent) or gone
  closed,     \* per socket: has cleanup run?
  sshClient,  \* per socket: a client, or null
  sshStream,  \* per socket: the client of the stream, or null
  attempt,    \* per attempt: how far the handler of ssh:connect is
  conn,       \* per client: its connection
  ended,      \* per socket: clients whose end() was called
  listening,  \* per socket: clients whose event listeners are attached
  answered,   \* per socket: attempts that the socket had a message about
  orphans,    \* history, per socket: clients created after cleanup had run
  replaced,   \* history, per socket: clients whose place another one took
  raced,      \* history, per socket: attempts that waited while another did
  fault       \* an exception that nothing caught ended the process

vars == <<socket, closed, sshClient, sshStream, attempt, conn, ended,
          listening, answered, orphans, replaced, raced, fault>>
lost == <<orphans, replaced>>
session == <<closed, sshClient, sshStream, ended, listening, lost>>

NoFault == [kind |-> "none"]
Up == fault = NoFault

TypeOK ==
  /\ socket \in [Socket -> {"open", "leaving", "gone"}]
  /\ closed \in [Socket -> BOOLEAN]
  /\ attempt \in [Socket -> [Attempt -> {"idle", "refused", "fetching", "loading",
                                         "failed", "connected"}]]
  /\ conn \in [Socket -> [Attempt -> {"none", "connecting", "ready", "opening",
                                      "shell", "closed"}]]
  /\ {sshClient, sshStream} \subseteq [Socket -> {null} \cup Attempt]
  /\ \A s \in Socket :
        /\ sshClient[s] \in {null} \cup {n \in Attempt :
                                           attempt[s][n] \in {"connected", "failed"}}
        /\ sshStream[s] \in {null} \cup {n \in Attempt : conn[s][n] # "none"}
  /\ ended \in [Socket -> SUBSET Attempt]
  /\ listening \in [Socket -> SUBSET Attempt]
  /\ answered \in [Socket -> SUBSET Attempt]
  /\ orphans \in [Socket -> SUBSET Attempt]
  /\ replaced \in [Socket -> SUBSET Attempt]
  /\ raced \in [Socket -> SUBSET Attempt]
  /\ fault \in {NoFault} \cup
               [kind : {"exception", "unheard error"}, socket : Socket]

Init ==
  /\ socket = [s \in Socket |-> "open"]
  /\ closed = [s \in Socket |-> FALSE]
  /\ sshClient = [s \in Socket |-> null]
  /\ sshStream = [s \in Socket |-> null]
  /\ attempt = [s \in Socket |-> [n \in Attempt |-> "idle"]]
  /\ conn = [s \in Socket |-> [n \in Attempt |-> "none"]]
  /\ ended = [s \in Socket |-> {}]
  /\ listening = [s \in Socket |-> {}]
  /\ answered = [s \in Socket |-> {}]
  /\ orphans = [s \in Socket |-> {}]
  /\ replaced = [s \in Socket |-> {}]
  /\ raced = [s \in Socket |-> {}]
  /\ fault = NoFault

-----------------------------------------------------------------------------
(* cleanup                                                                 *)

\* Mutant: the client keeps its listeners.
cleanup_KeepsListeners(s, client) ==
  IF closed[s]
  THEN /\ sshClient' = [sshClient EXCEPT ![s] = client]
       /\ UNCHANGED <<closed, sshStream, ended, listening>>
  ELSE /\ closed' = [closed EXCEPT ![s] = TRUE]
       /\ sshStream' = [sshStream EXCEPT ![s] = null]
       /\ sshClient' = [sshClient EXCEPT ![s] = null]
       /\ ended' = [ended EXCEPT ![s] = @ \cup ({client} \ {null})]
       /\ UNCHANGED listening

\* Mutant: only the stream is ended.
cleanup_KeepsClient(s, client) ==
  IF closed[s]
  THEN /\ sshClient' = [sshClient EXCEPT ![s] = client]
       /\ UNCHANGED <<closed, sshStream, ended, listening>>
  ELSE /\ closed' = [closed EXCEPT ![s] = TRUE]
       /\ sshStream' = [sshStream EXCEPT ![s] = null]
       /\ sshClient' = [sshClient EXCEPT ![s] = null]
       /\ listening' = [listening EXCEPT ![s] = @ \ {client}]
       /\ UNCHANGED ended

\* Works once per socket.  client is the value of sshClient.
cleanup(s, client) ==
  IF closed[s]
  THEN /\ sshClient' = [sshClient EXCEPT ![s] = client]
       /\ UNCHANGED <<closed, sshStream, ended, listening>>
  ELSE /\ closed' = [closed EXCEPT ![s] = TRUE]
       /\ sshStream' = [sshStream EXCEPT ![s] = null]
       /\ sshClient' = [sshClient EXCEPT ![s] = null]
       /\ ended' = [ended EXCEPT ![s] = @ \cup ({client} \ {null})]
       /\ listening' = [listening EXCEPT ![s] = @ \ {client}]

Cleanup(s) == cleanup(s, sshClient[s]) /\ UNCHANGED lost
Awaiting(s) == {n \in Attempt : attempt[s][n] \in {"fetching", "loading"}}

Answer(s, n) == answered' = [answered EXCEPT ![s] = @ \cup {n}]
Proceed(s, n, state) == attempt' = [attempt EXCEPT ![s][n] = state]
Connection(s, n, state) == conn' = [conn EXCEPT ![s][n] = state]

\* What the histories remember of a client that takes the socket's variable.
Remember(s, n) ==
  /\ orphans' = [orphans EXCEPT ![s] = IF closed[s] THEN @ \cup {n} ELSE @]
  /\ replaced' = [replaced EXCEPT ![s] = @ \cup ({sshClient[s]} \ {null})]

-----------------------------------------------------------------------------
(* ssh:connect                                                             *)

\* Up to the first await: refused for an invalid VM number, or because a
\* session is active.
Connect(s, n) ==
  /\ Up /\ socket[s] = "open"
  /\ attempt[s][n] = "idle" /\ \A m \in 1 .. n - 1 : attempt[s][m] # "idle"
  /\ \/ /\ Proceed(s, n, "refused") /\ Answer(s, n)
        /\ UNCHANGED raced
     \/ /\ sshClient[s] = null /\ sshStream[s] = null
        /\ Proceed(s, n, "fetching")
        /\ raced' = [raced EXCEPT ![s] =
             IF Awaiting(s) = {} THEN @ ELSE @ \cup {n} \cup Awaiting(s)]
        /\ UNCHANGED answered
  /\ UNCHANGED <<socket, session, conn, fault>>

\* Mutant: a client takes its place before the key is read.
Fetched_TakesPlace(s, n) ==
  /\ Up /\ attempt[s][n] = "fetching"
  /\ Proceed(s, n, "loading")
  /\ sshClient' = [sshClient EXCEPT ![s] = n]
  /\ UNCHANGED <<socket, closed, sshStream, ended, listening, lost, conn, answered, fault, raced>>

\* fetchConnectInfo resolves.
Fetched(s, n) ==
  /\ Up /\ attempt[s][n] = "fetching"
  /\ Proceed(s, n, "loading")
  /\ UNCHANGED <<socket, session, conn, answered, fault, raced>>

\* Mutant: the error is not reported.
Fails_Silently(s, n) ==
  /\ Up /\ n \in Awaiting(s)
  /\ Proceed(s, n, "failed")
  /\ Cleanup(s)
  /\ UNCHANGED <<socket, conn, answered, fault, raced>>

\* fetchConnectInfo or loadPrivateKeyForVM throws.
Fails(s, n) ==
  /\ Up /\ n \in Awaiting(s)
  /\ Proceed(s, n, "failed")
  /\ Answer(s, n)
  /\ Cleanup(s)
  /\ UNCHANGED <<socket, conn, fault, raced>>

\* Mutant: the client is kept in a variable of the handler.
Loaded_Local(s, n) ==
  /\ Up /\ attempt[s][n] = "loading"
  /\ Proceed(s, n, "connected")
  /\ Connection(s, n, "connecting")
  /\ listening' = [listening EXCEPT ![s] = @ \cup {n}]
  /\ UNCHANGED <<socket, closed, sshClient, sshStream, ended, lost, answered, fault, raced>>

\* The key is there: create the client and let it connect, whatever has
\* happened to the socket in the meantime.
Loaded(s, n) ==
  /\ Up /\ attempt[s][n] = "loading"
  /\ Proceed(s, n, "connected")
  /\ sshClient' = [sshClient EXCEPT ![s] = n]
  /\ Connection(s, n, "connecting")
  /\ listening' = [listening EXCEPT ![s] = @ \cup {n}]
  /\ Remember(s, n)
  /\ UNCHANGED <<socket, closed, sshStream, ended, answered, fault, raced>>

\* The same, but connect throws because it cannot parse the key.
BadKey(s, n) ==
  /\ Up /\ attempt[s][n] = "loading"
  /\ Proceed(s, n, "failed")
  /\ Answer(s, n)
  /\ cleanup(s, n)
  /\ Remember(s, n)
  /\ UNCHANGED <<socket, conn, fault, raced>>

-----------------------------------------------------------------------------
(* Callbacks of the SSH client and its stream                              *)

Connected(s, n) == conn[s][n] \notin {"none", "closed"}

\* The listener asks sshClient for a shell, which need not be the client that
\* is ready: null throws, and another client throws or opens a shell of its
\* own, which is not followed further.
Ready(s, n) ==
  /\ Up /\ conn[s][n] = "connecting"
  /\ \/ /\ n \notin listening[s]
        /\ Connection(s, n, "ready")
        /\ UNCHANGED fault
     \/ /\ n \in listening[s] /\ sshClient[s] = n
        /\ Connection(s, n, "opening")
        /\ UNCHANGED fault
     \/ /\ n \in listening[s] /\ sshClient[s] # n
        /\ Connection(s, n, "ready")
        /\ \/ fault' = [kind |-> "exception", socket |-> s]
           \/ sshClient[s] # null /\ UNCHANGED fault
  /\ UNCHANGED <<socket, session, attempt, answered, raced>>

\* The callback of shell looks at neither closed nor the listeners.
ShellOpened(s, n) ==
  /\ Up /\ conn[s][n] = "opening"
  /\ Connection(s, n, "shell")
  /\ sshStream' = [sshStream EXCEPT ![s] = n]
  /\ Answer(s, n)
  /\ UNCHANGED <<socket, closed, sshClient, ended, listening, lost, attempt, fault, raced>>

ShellFails(s, n) ==
  /\ Up /\ conn[s][n] = "opening"
  /\ Connection(s, n, "ready")
  /\ Answer(s, n)
  /\ Cleanup(s)
  /\ UNCHANGED <<socket, attempt, fault, raced>>

\* The remote shell exits.  A stream that cleanup has ended has no listeners.
StreamCloses(s, n) ==
  /\ Up /\ conn[s][n] = "shell"
  /\ Connection(s, n, "ready")
  /\ IF sshStream[s] = n
     THEN Answer(s, n) /\ Cleanup(s)
     ELSE UNCHANGED <<session, answered>>
  /\ UNCHANGED <<socket, attempt, fault, raced>>

\* An error, readyTimeout's too.  One that nobody listens to any more is
\* thrown, and ends the process with every session it serves.
ClientError(s, n) ==
  /\ Up /\ Connected(s, n)
  /\ Connection(s, n, "closed")
  /\ IF n \in listening[s]
     THEN Answer(s, n) /\ Cleanup(s) /\ UNCHANGED fault
     ELSE /\ fault' = [kind |-> "unheard error", socket |-> s]
          /\ UNCHANGED <<session, answered>>
  /\ UNCHANGED <<socket, attempt, raced>>

\* The connection closes, because the other side or end() asked for it.  A
\* shell that is being opened fails with it.
ClientClosed(s, n) ==
  /\ Up /\ Connected(s, n)
  /\ Connection(s, n, "closed")
  /\ IF n \in listening[s] \/ conn[s][n] = "opening"
     THEN Answer(s, n) /\ Cleanup(s)
     ELSE UNCHANGED <<session, answered>>
  /\ UNCHANGED <<socket, attempt, fault, raced>>

-----------------------------------------------------------------------------
(* The end of the socket                                                   *)

\* The page emits ssh:disconnect.
AskDisconnect(s) ==
  /\ Up /\ socket[s] = "open"
  /\ socket' = [socket EXCEPT ![s] = "leaving"]
  /\ Cleanup(s)
  /\ UNCHANGED <<attempt, conn, answered, fault, raced>>

\* The socket disconnects, asked or not.
Disconnect(s) ==
  /\ Up /\ socket[s] # "gone"
  /\ socket' = [socket EXCEPT ![s] = "gone"]
  /\ Cleanup(s)
  /\ UNCHANGED <<attempt, conn, answered, fault, raced>>

-----------------------------------------------------------------------------
Next ==
  \E s \in Socket :
     \/ \E n \in Attempt :
           \/ Connect(s, n) \/ Fetched(s, n) \/ Fails(s, n) \/ Loaded(s, n)
           \/ BadKey(s, n) \/ Ready(s, n) \/ ShellOpened(s, n) \/ ShellFails(s, n)
           \/ StreamCloses(s, n) \/ ClientError(s, n) \/ ClientClosed(s, n)
     \/ AskDisconnect(s)
     \/ Disconnect(s)

Spec == Init /\ [][Next]_vars

-----------------------------------------------------------------------------
(* Properties                                                              *)

Alive(s, n) == Connected(s, n) /\ n \notin ended[s]

\* As long as cleanup has not run, it can reach what runs: the socket's
\* variables hold the client that is alive and the stream that is open, unless
\* two connect events raced and one took the other's place.
LiveSessionIsHeld ==
  \A s \in Socket, n \in Attempt :
     ~closed[s] /\ Alive(s, n) /\ replaced[s] = {} =>
        sshClient[s] = n /\ (conn[s][n] = "shell" => sshStream[s] = n)

\* However a session ends, its client is ended with it: what outlives cleanup
\* was created after it, by a handler that was waiting or by a retry, or had
\* been replaced.
TeardownEndsClient ==
  \A s \in Socket, n \in Attempt :
     closed[s] /\ Alive(s, n) => n \in orphans[s] \cup replaced[s]

\* No callback of a session meets variables that were cleared under it, and no
\* error of a session is unheard: an exception takes two racing connect
\* events on one socket, and an error that ends the process a client that
\* was ended before.
FaultIsExplained ==
  /\ fault.kind = "exception" => replaced[fault.socket] # {}
  /\ fault.kind = "unheard error" => ended[fault.socket] # {}

\* A page that waits for its session gets a message about it, whatever fails
\* and also when it retries on a socket that was cleaned up, unless two of its
\* attempts raced, one of them took the other down, or the process died.
Answered ==
  \A s \in Socket, n \in Attempt :
     attempt[s][n] = "fetching" ~>
        n \in answered[s] \/ n \in raced[s] \/ socket[s] # "open" \/ ~Up

\* README-docker.md:60: "Closing the window immediately tears down SSH stream +
\* socket session."  Closing takes the socket away, and after it no client
\* may be alive.
WindowClosedTearsDown ==
  \A s \in Socket, n \in Attempt : socket[s] = "gone" => ~Alive(s, n)
=============================================================================
