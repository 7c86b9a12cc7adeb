---------------------------- MODULE TerminalProofs ----------------------------
(***************************************************************************)
(* Theorems about Terminal: what is proved of the bridge's sessions holds  *)
(* in the world they run in, and a session is on the VM of its window, for *)
(* any machines and any number of clones.                                  *)
(***************************************************************************)
EXTENDS Terminal, SshBridgeProofs

AskState == {"received", "has key", "resolved", "running", "answered"}
MachineState == [clone : Nat \ {0}, state : {"none", "cloned", "stopped", "running"}]

\* A key that was loaded for an attempt is one of the window's number.
KeyInv ==
  \A s \in Socket, n \in Attempt :
     key[s][n] # Nobody => key[s][n][1] = Target[s]

WorldTypes ==
  /\ machine \in [VM -> MachineState]
  /\ \A v \in VM : machine[v].clone <= MaxClones[v] /\ vault[v] \in 0 .. machine[v].clone
  /\ vault \in [VM -> Nat]
  /\ at \in {Nobody} \cup {v \in VM : machine[v].state = "running"}
LookupTypes ==
  /\ ask \in [Socket -> [Attempt -> AskState]]
  /\ key \in [Socket -> [Attempt -> {Nobody} \cup Machine]]
  /\ peer \in [Socket -> [Attempt -> {Nobody} \cup Machine]]

TerminalIInv == IInv /\ WorldTypes /\ LookupTypes /\ KeyInv /\ SessionIsOnTheVM

-----------------------------------------------------------------------------
LEMMA MachineMembers ==
  /\ \A v \in VM, c \in Nat : <<v, c>> \in Machine <=> c \in 1 .. MaxClones[v]
  /\ \A v \in VM : MaxClones[v] \in Nat /\ MaxClones[v] > 0
<1>1. \A v \in VM : MaxClones[v] \in Nat /\ MaxClones[v] > 0
  BY ClonesAssumption
<1>2. ASSUME NEW v \in VM, NEW c \in Nat
      PROVE  <<v, c>> \in Machine <=> c \in 1 .. MaxClones[v]
  <2>1. ASSUME c \in 1 .. MaxClones[v] PROVE <<v, c>> \in Machine
    <3>1. <<v, c>> \in {v} \X (1 .. MaxClones[v])
      BY <2>1
    <3> QED
      BY <3>1 DEF Machine
  <2>2. ASSUME <<v, c>> \in Machine PROVE c \in 1 .. MaxClones[v]
    <3>1. PICK u \in VM : <<v, c>> \in {u} \X (1 .. MaxClones[u])
      BY <2>2 DEF Machine
    <3> QED
      BY <3>1
  <2> QED
    BY <2>1, <2>2
<1> QED
  BY <1>1, <1>2

LEMMA PairIsSomebody == \A a, b : <<a, b>> # Nobody
BY DEF Nobody

LEMMA TerminalTypes ==
  ASSUME TypeOK, WorldTypes, LookupTypes
  PROVE  TerminalTypeOK
<1>1. \A v \in VM : <<v, machine[v].clone>> \in Machine
  BY MachineMembers DEF WorldTypes, MachineState
<1> QED
  BY <1>1 DEF TerminalTypeOK, WorldTypes, LookupTypes, MachineState, AskState

LEMMA TerminalInitIInv == TerminalInit => TerminalIInv
<1> SUFFICES ASSUME TerminalInit PROVE TerminalIInv
  OBVIOUS
<1>1. IInv
  BY InitIInv DEF TerminalInit
<1>2. WorldTypes
  BY MachineMembers DEF TerminalInit, WorldTypes, MachineState
<1>3. LookupTypes /\ KeyInv
  BY DEF TerminalInit, LookupTypes, KeyInv, AskState
<1>4. SessionIsOnTheVM
  BY <1>1 DEF TerminalInit, Init, SessionIsOnTheVM
<1> QED
  BY <1>1, <1>2, <1>3, <1>4 DEF TerminalIInv

-----------------------------------------------------------------------------
(* Sessions are those of the bridge.                                       *)

Machines(v) == \/ Clone(v) \/ generateSSHCert(v) \/ Start(v) \/ Lease(v)
               \/ Stop(v) \/ handleDeleteVM(v)

LEMMA BridgeStep == [TerminalNext]_terminal => [Next]_vars
<1> SUFFICES ASSUME [TerminalNext]_terminal PROVE [Next]_vars
  OBVIOUS
<1>1. ASSUME NEW s \in Socket, NEW n \in Attempt, handleVMSSHConnect(s, n)
      PROVE  UNCHANGED vars
  BY <1>1 DEF handleVMSSHConnect, HasKeyForVM, resolveVMNode, listVMs, extractIPv4, Asks
<1>2. ASSUME NEW s \in Socket, NEW n \in Attempt,
             ConnectInfo(s, n) \/ KeyRead(s, n) \/ Admitted(s, n) \/ Other(s, n)
      PROVE  Next
  BY <1>2 DEF ConnectInfo, KeyRead, Admitted, Other, Next
<1>3. ASSUME NEW s \in Socket, Leave(s) PROVE Next
  BY <1>3 DEF Leave, Next
<1>4. ASSUME NEW v \in VM, Machines(v) PROVE UNCHANGED vars
  BY <1>4 DEF Machines, Clone, generateSSHCert, Start, Lease, Stop, handleDeleteVM
<1>5. CASE UNCHANGED terminal
  BY <1>5 DEF terminal
<1> QED
  BY <1>1, <1>2, <1>3, <1>4, <1>5 DEF TerminalNext, Machines

\* Only Ready lets a client in.
In(s, n) == conn[s][n] \in {"ready", "opening", "shell"}

LEMMA OnlyReadyLetsIn ==
  ASSUME IInv, NEW s \in Socket,
         \/ \E n \in Attempt :
               \/ Connect(s, n) \/ Fetched(s, n) \/ Fails(s, n) \/ Loaded(s, n)
               \/ BadKey(s, n) \/ ShellOpened(s, n) \/ ShellFails(s, n)
               \/ StreamCloses(s, n) \/ ClientError(s, n) \/ ClientClosed(s, n)
         \/ AskDisconnect(s) \/ Disconnect(s)
  PROVE  \A t \in Socket, m \in Attempt : In(t, m)' => In(t, m)
<1>1. conn \in [Socket -> [Attempt -> ConnState]]
  BY TypeOKParts DEF IInv, Tables
<1>2. CASE UNCHANGED conn
  BY <1>2 DEF In
<1>3. ASSUME NEW n \in Attempt, NEW c \in ConnState, conn' = [conn EXCEPT ![s][n] = c],
             In(s, n) \/ c \in {"connecting", "closed"} \/ conn[s][n] = "opening"
      PROVE  \A t \in Socket, m \in Attempt : In(t, m)' => In(t, m)
  <2>1. /\ \A t \in Socket \ {s} : conn'[t] = conn[t]
        /\ \A m \in Attempt : conn'[s][m] = IF m = n THEN c ELSE conn[s][m]
    BY <1>1, <1>3, TableEntry
  <2> QED
    BY <1>3, <2>1 DEF In
<1>4. ASSUME NEW n \in Attempt,
             \/ Connect(s, n) \/ Fetched(s, n) \/ Fails(s, n) \/ BadKey(s, n)
      PROVE  UNCHANGED conn
  BY <1>4 DEF Connect, Fetched, Fails, BadKey
<1>5. ASSUME NEW n \in Attempt, Loaded(s, n) \/ ClientError(s, n) \/ ClientClosed(s, n)
      PROVE  \E c \in {"connecting", "closed"} : conn' = [conn EXCEPT ![s][n] = c]
  BY <1>5 DEF Loaded, ClientError, ClientClosed, Connection
<1>6. ASSUME NEW n \in Attempt,
             ShellOpened(s, n) \/ ShellFails(s, n) \/ StreamCloses(s, n)
      PROVE  In(s, n) /\ \E c \in {"shell", "ready"} : conn' = [conn EXCEPT ![s][n] = c]
  BY <1>6 DEF ShellOpened, ShellFails, StreamCloses, Connection, In
<1>7. CASE AskDisconnect(s) \/ Disconnect(s)
  BY <1>2, <1>7 DEF AskDisconnect, Disconnect
<1> QED
  BY <1>2, <1>3, <1>4, <1>5, <1>6, <1>7 DEF ConnState
-----------------------------------------------------------------------------
(* Steps.                                                                  *)

\* The world stays as it is and nobody is let in.
LEMMA OutsideStep ==
  ASSUME TerminalIInv, IInv', UNCHANGED <<world, key, peer>>,
         ask' \in [Socket -> [Attempt -> AskState]],
         \A t \in Socket, m \in Attempt : In(t, m)' => In(t, m)
  PROVE  TerminalIInv'
<1>1. UNCHANGED <<machine, vault, at, key, peer>>
  BY DEF world
<1>2. WorldTypes' /\ LookupTypes' /\ KeyInv'
  BY <1>1 DEF TerminalIInv, WorldTypes, LookupTypes, KeyInv
<1>3. SessionIsOnTheVM'
  BY <1>1 DEF TerminalIInv, SessionIsOnTheVM, In
<1> QED
  BY <1>2, <1>3 DEF TerminalIInv

LEMMA handleVMSSHConnectStep ==
  ASSUME TerminalIInv, NEW s \in Socket, NEW n \in Attempt, handleVMSSHConnect(s, n), IInv'
  PROVE  TerminalIInv'
<1>1. PICK from \in AskState, to \in AskState : Asks(s, n, from, to)
  BY DEF handleVMSSHConnect, HasKeyForVM, resolveVMNode, listVMs, extractIPv4, AskState
<1>2. /\ ask' = [ask EXCEPT ![s][n] = to] /\ UNCHANGED <<vars, world, key, peer>>
      /\ ask \in [Socket -> [Attempt -> AskState]]
  BY <1>1 DEF Asks, TerminalIInv, LookupTypes
<1>3. ask' \in [Socket -> [Attempt -> AskState]]
  BY <1>2, TableEntry
<1>4. \A t \in Socket, m \in Attempt : In(t, m)' => In(t, m)
  BY <1>2 DEF vars, In
<1> QED
  BY <1>2, <1>3, <1>4, OutsideStep

LEMMA SessionStep ==
  ASSUME TerminalIInv, NEW s \in Socket, IInv',
         Leave(s) \/ \E n \in Attempt : ConnectInfo(s, n) \/ Other(s, n)
  PROVE  TerminalIInv'
<1>1. UNCHANGED <<world, lookup>>
  BY DEF Leave, ConnectInfo, Other
<1>2. /\ UNCHANGED <<world, key, peer>>
      /\ ask' \in [Socket -> [Attempt -> AskState]]
  BY <1>1 DEF lookup, TerminalIInv, LookupTypes
<1>3. \A t \in Socket, m \in Attempt : In(t, m)' => In(t, m)
  <2>1. CASE Leave(s)
    BY <2>1, OnlyReadyLetsIn DEF Leave, TerminalIInv
  <2>2. ASSUME NEW n \in Attempt, ConnectInfo(s, n) \/ Other(s, n)
        PROVE  \A t \in Socket, m \in Attempt : In(t, m)' => In(t, m)
    BY <2>2, OnlyReadyLetsIn DEF ConnectInfo, Other, TerminalIInv
  <2> QED
    BY <2>1, <2>2
<1> QED
  BY <1>2, <1>3, OutsideStep

\* The key that is read is the one that the window's number has by now.
LEMMA KeyReadStep ==
  ASSUME TerminalIInv, NEW s \in Socket, NEW n \in Attempt, KeyRead(s, n), IInv'
  PROVE  TerminalIInv'
<1>1. PICK k \in loadPrivateKeyForVM(Target[s]) : key' = [key EXCEPT ![s][n] = k]
  BY DEF KeyRead
<1>2. k \in Machine /\ k[1] = Target[s]
  <2>1. PICK v \in VM : k = <<v, vault[v]>> /\ vault[v] # null
    BY <1>1 DEF loadPrivateKeyForVM, Keys
  <2>2. vault[v] \in 1 .. MaxClones[v]
    BY <2>1, MachineMembers DEF TerminalIInv, WorldTypes, MachineState, null
  <2>3. k \in Machine
    BY <2>1, <2>2, MachineMembers
  <2> QED
    BY <1>1, <2>3 DEF loadPrivateKeyForVM
<1>3. /\ key' \in [Socket -> [Attempt -> {Nobody} \cup Machine]]
      /\ \A t \in Socket \ {s} : key'[t] = key[t]
      /\ \A m \in Attempt : key'[s][m] = IF m = n THEN k ELSE key[s][m]
  <2>1. key \in [Socket -> [Attempt -> {Nobody} \cup Machine]] /\ k \in {Nobody} \cup Machine
    BY <1>2 DEF TerminalIInv, LookupTypes
  <2> QED
    BY <1>1, <2>1, TableEntry
<1>4. UNCHANGED <<machine, vault, at, ask, peer>>
  BY DEF KeyRead, world
<1>5. WorldTypes' /\ LookupTypes'
  BY <1>3, <1>4 DEF TerminalIInv, WorldTypes, LookupTypes
<1>6. KeyInv'
  BY <1>2, <1>3 DEF TerminalIInv, KeyInv
<1>7. \A t \in Socket, m \in Attempt : In(t, m)' => In(t, m)
  BY OnlyReadyLetsIn DEF KeyRead, TerminalIInv
<1>8. SessionIsOnTheVM'
  BY <1>4, <1>7 DEF TerminalIInv, SessionIsOnTheVM, In
<1> QED
  BY <1>5, <1>6, <1>8 DEF TerminalIInv

\* The machine that has the address lets the client in only with its own key.
LEMMA AdmittedStep ==
  ASSUME TerminalIInv, NEW s \in Socket, NEW n \in Attempt, Admitted(s, n), IInv'
  PROVE  TerminalIInv'
<1> DEFINE host == <<at, machine[at].clone>>
<1>1. /\ key[s][n] = host /\ peer' = [peer EXCEPT ![s][n] = host]
      /\ UNCHANGED <<machine, vault, at, ask, key>> /\ Ready(s, n)
  BY DEF Admitted, world
<1>2. key[s][n] # Nobody /\ host \in {Nobody} \cup Machine
  <2>1. key[s][n] \in {Nobody} \cup Machine
    BY DEF TerminalIInv, LookupTypes
  <2>2. host # Nobody
    BY PairIsSomebody
  <2> QED
    BY <1>1, <2>1, <2>2
<1>3. host[1] = Target[s]
  BY <1>1, <1>2 DEF TerminalIInv, KeyInv
<1>4. /\ peer' \in [Socket -> [Attempt -> {Nobody} \cup Machine]]
      /\ \A t \in Socket \ {s} : peer'[t] = peer[t]
      /\ \A m \in Attempt : peer'[s][m] = IF m = n THEN host ELSE peer[s][m]
  <2>1. peer \in [Socket -> [Attempt -> {Nobody} \cup Machine]]
    BY DEF TerminalIInv, LookupTypes
  <2> HIDE DEF host
  <2> QED
    BY <1>1, <1>2, <2>1, TableEntry
<1>5. /\ \A t \in Socket \ {s} : conn'[t] = conn[t]
      /\ \A m \in Attempt \ {n} : conn'[s][m] = conn[s][m]
  <2>1. PICK c \in ConnState : conn' = [conn EXCEPT ![s][n] = c]
    BY <1>1 DEF Ready, Connection, ConnState
  <2>2. conn \in [Socket -> [Attempt -> ConnState]]
    BY TypeOKParts DEF TerminalIInv, IInv, Tables
  <2> QED
    BY <2>1, <2>2, TableEntry
<1>6. WorldTypes' /\ LookupTypes' /\ KeyInv'
  BY <1>1, <1>4 DEF TerminalIInv, WorldTypes, LookupTypes, KeyInv
<1>7. SessionIsOnTheVM'
  BY <1>3, <1>4, <1>5 DEF TerminalIInv, SessionIsOnTheVM
<1> QED
  BY <1>6, <1>7 DEF TerminalIInv

LEMMA MachinesStep ==
  ASSUME TerminalIInv, NEW v \in VM, Machines(v), IInv'
  PROVE  TerminalIInv'
<1>1. UNCHANGED <<vars, lookup>>
  BY DEF Machines, Clone, generateSSHCert, Start, Lease, Stop, handleDeleteVM
<1>2. LookupTypes' /\ KeyInv' /\ SessionIsOnTheVM'
  BY <1>1 DEF TerminalIInv, vars, lookup, LookupTypes, KeyInv, SessionIsOnTheVM
<1>3. WorldTypes'
  <2>1. /\ machine \in [VM -> MachineState] /\ machine[v] \in MachineState
        /\ machine[v].clone \in Nat \ {0} /\ machine[v].clone <= MaxClones[v]
        /\ MaxClones[v] \in Nat /\ vault[v] \in 0 .. machine[v].clone
        /\ vault \in [VM -> Nat]
        /\ \A u \in VM : machine[u].clone <= MaxClones[u] /\ vault[u] \in 0 .. machine[u].clone
        /\ at \in {Nobody} \cup {u \in VM : machine[u].state = "running"}
    BY MachineMembers DEF TerminalIInv, WorldTypes, MachineState
  <2>2. CASE Clone(v)
    <3> DEFINE new == [clone |-> machine[v].clone + 1, state |-> "cloned"]
    <3>1. /\ machine' = [machine EXCEPT ![v] = new] /\ machine[v].state = "none"
          /\ machine[v].clone < MaxClones[v] /\ UNCHANGED <<vault, at>>
      BY <2>2 DEF Clone
    <3>2. /\ new \in MachineState /\ new.clone <= MaxClones[v]
          /\ vault[v] \in 0 .. new.clone
      BY <2>1, <3>1 DEF MachineState
    <3> HIDE DEF new
    <3>3. /\ machine' \in [VM -> MachineState] /\ machine'[v] = new
          /\ \A u \in VM \ {v} : machine'[u] = machine[u]
      BY <2>1, <3>1, <3>2, TableRow
    <3>4. at' \in {Nobody} \cup {u \in VM : machine'[u].state = "running"}
      BY <2>1, <3>1, <3>3
    <3>5. ASSUME NEW u \in VM
          PROVE  machine'[u].clone <= MaxClones[u] /\ vault'[u] \in 0 .. machine'[u].clone
      BY <2>1, <3>1, <3>2, <3>3
    <3> QED
      BY <2>1, <3>1, <3>3, <3>4, <3>5 DEF WorldTypes
  <2>3. ASSUME NEW state \in {"none", "stopped", "running"}, Becomes(v, state),
               vault' = vault \/ vault' = [vault EXCEPT ![v] = machine[v].clone],
               at' \in {Nobody} \cup {u \in VM : machine'[u].state = "running"}
        PROVE  WorldTypes'
    <3> DEFINE new == [machine[v] EXCEPT !.state = state]
    <3>1. new \in MachineState /\ new.clone = machine[v].clone
      BY <2>1 DEF MachineState
    <3>2. machine' = [machine EXCEPT ![v] = new]
      BY <2>3 DEF Becomes
    <3> HIDE DEF new
    <3>3. /\ machine' \in [VM -> MachineState] /\ machine'[v] = new
          /\ \A u \in VM \ {v} : machine'[u] = machine[u]
      BY <2>1, <3>1, <3>2, TableRow
    <3>4. /\ vault' \in [VM -> Nat] /\ vault'[v] \in {vault[v], machine[v].clone}
          /\ \A u \in VM \ {v} : vault'[u] = vault[u]
      BY <2>1, <2>3
    <3>5. ASSUME NEW u \in VM
          PROVE  machine'[u].clone <= MaxClones[u] /\ vault'[u] \in 0 .. machine'[u].clone
      <4>1. CASE u = v
        BY <2>1, <3>1, <3>3, <3>4, <4>1
      <4>2. CASE u # v
        BY <2>1, <3>3, <3>4, <4>2
      <4> QED
        BY <4>1, <4>2
    <3> QED
      BY <2>3, <3>3, <3>4, <3>5 DEF WorldTypes
  <2>4. CASE generateSSHCert(v) \/ Start(v) \/ handleDeleteVM(v)
    <3>1. /\ at' = at /\ machine[v].state # "running"
          /\ vault' = vault \/ vault' = [vault EXCEPT ![v] = machine[v].clone]
          /\ Becomes(v, "none") \/ Becomes(v, "stopped") \/ Becomes(v, "running")
      BY <2>1, <2>4 DEF generateSSHCert, Start, handleDeleteVM
    <3>2. at' \in {Nobody} \cup {u \in VM : machine'[u].state = "running"}
      BY <2>1, <3>1 DEF Becomes
    <3> QED
      BY <2>3, <3>1, <3>2
  <2>5. CASE Lease(v)
    BY <2>1, <2>5 DEF Lease, WorldTypes
  <2>6. CASE Stop(v)
    <3>1. /\ Becomes(v, "stopped") /\ vault' = vault
          /\ at' = IF at = v THEN Nobody ELSE at
      BY <2>6 DEF Stop
    <3>2. at' \in {Nobody} \cup {u \in VM : machine'[u].state = "running"}
      BY <2>1, <3>1 DEF Becomes
    <3> QED
      BY <2>3, <3>1, <3>2
  <2> QED
    BY <2>2, <2>4, <2>5, <2>6 DEF Machines
<1> QED
  BY <1>2, <1>3 DEF TerminalIInv

LEMMA TerminalNextIInv ==
  ASSUME TerminalIInv, [TerminalNext]_terminal
  PROVE  TerminalIInv'
<1>1. IInv'
  BY BridgeStep, NextIInv DEF TerminalIInv
<1>2. ASSUME NEW s \in Socket, NEW n \in Attempt,
             handleVMSSHConnect(s, n) \/ KeyRead(s, n) \/ Admitted(s, n)
      PROVE  TerminalIInv'
  BY <1>1, <1>2, handleVMSSHConnectStep, KeyReadStep, AdmittedStep
<1>3. ASSUME NEW s \in Socket,
             Leave(s) \/ \E n \in Attempt : ConnectInfo(s, n) \/ Other(s, n)
      PROVE  TerminalIInv'
  BY <1>1, <1>3, SessionStep
<1>4. ASSUME NEW v \in VM, Machines(v) PROVE TerminalIInv'
  BY <1>1, <1>4, MachinesStep
<1>5. CASE UNCHANGED terminal
  BY <1>1, <1>5 DEF terminal, vars, world, lookup, TerminalIInv, WorldTypes,
                    LookupTypes, KeyInv, SessionIsOnTheVM
<1> QED
  BY <1>2, <1>3, <1>4, <1>5 DEF TerminalNext, Machines

-----------------------------------------------------------------------------
\* The invariant that the other theorems rest on.
THEOREM TerminalInvariance == TerminalSpec => []TerminalIInv
BY TerminalInitIInv, TerminalNextIInv, PTL DEF TerminalSpec

\* The variables keep their types: the address is of a machine that runs, and
\* a number's key is one that was generated for the clone it has or had.
THEOREM TerminalTypeCorrect == TerminalSpec => []TerminalTypeOK
<1>1. TerminalIInv => TerminalTypeOK
  BY TerminalTypes DEF TerminalIInv, IInv
<1> QED
  BY <1>1, TerminalInvariance, PTL

\* Who gets a shell is on a machine of the number that the window is about,
\* whoever has the address by then and whatever became of the key.
THEOREM SessionsAreOnTheirVM == TerminalSpec => []SessionIsOnTheVM
<1>1. TerminalIInv => SessionIsOnTheVM
  BY DEF TerminalIInv
<1> QED
  BY <1>1, TerminalInvariance, PTL

\* Sessions to machines that come and go are sessions of the bridge.
THEOREM TerminalIsABridge == TerminalSpec => Spec
<1>1. TerminalInit => Init
  BY DEF TerminalInit
<1> QED
  BY <1>1, BridgeStep, PTL DEF TerminalSpec, Spec

\* What was proved of the bridge alone holds of it in the world: it reaches
\* what runs, ends what it ended, and does not fail unexplained.
THEOREM TerminalSessions ==
  TerminalSpec => [](LiveSessionIsHeld /\ TeardownEndsClient /\ FaultIsExplained)
<1>1. TerminalIInv => LiveSessionIsHeld /\ TeardownEndsClient /\ FaultIsExplained
  BY IInvImplies DEF TerminalIInv
<1> QED
  BY <1>1, TerminalInvariance, PTL
=============================================================================
