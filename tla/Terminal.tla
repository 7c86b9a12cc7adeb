------------------------------ MODULE Terminal ------------------------------
(***************************************************************************)
(* From a window to the VM it names: the sessions of SshBridge together    *)
(* with the handler of /api/vms/{id}/ssh-connect, which tells the bridge   *)
(* where a VM is, the key vault, from which the bridge reads the key, and  *)
(* the machines, which come and go meanwhile.                              *)
(*                                                                         *)
(* A machine is a number and how many times that number was cloned, and a  *)
(* key is the machine it was generated for.  There is one address, and it  *)
(* moves from machine to machine: what is wrong with an address that was   *)
(* reported earlier is that somebody else has it by now.                   *)
(***************************************************************************)
EXTENDS SshBridge

CONSTANTS VM,        \* numbers of VMs
          Target,    \* per socket: the number its window is about
          MaxClones  \* per number: bound on the clones made with it

ASSUME TargetAssumption == Target \in [Socket -> VM]
ASSUME ClonesAssumption == MaxClones \in [VM -> Nat \ {0}]

VARIABLES
  machine,  \* per number: the clone that has it, and what state it is in
  vault,    \* per number: the clone whose key the vault has, or null
  at,       \* the number of the machine that has the address
  ask,      \* per attempt: how far the handler of its request is
  key,      \* per attempt: the key that was loaded for it
  peer      \* per client: the machine that let it in

world == <<machine, vault, at>>
lookup == <<ask, key, peer>>
terminal == <<vars, world, lookup>>

Nobody == <<>>
Machine == UNION {{v} \X (1 .. MaxClones[v]) : v \in VM}

TerminalTypeOK ==
  /\ TypeOK
  /\ machine \in [VM -> [clone : Nat \ {0},
                         state : {"none", "cloned", "stopped", "running"}]]
  /\ \A v \in VM : <<v, machine[v].clone>> \in Machine
                   /\ vault[v] \in 0 .. machine[v].clone
  /\ at \in {Nobody} \cup {v \in VM : machine[v].state = "running"}
  /\ ask \in [Socket -> [Attempt -> {"received", "has key", "resolved",
                                     "running", "answered"}]]
  /\ key \in [Socket -> [Attempt -> {Nobody} \cup Machine]]
  /\ peer \in [Socket -> [Attempt -> {Nobody} \cup Machine]]

\* Every number has a machine that was provisioned and runs.
TerminalInit ==
  /\ Init
  /\ machine = [v \in VM |-> [clone |-> 1, state |-> "running"]]
  /\ vault = [v \in VM |-> 1]
  /\ at \in {Nobody} \cup VM
  /\ ask = [s \in Socket |-> [n \in Attempt |-> "received"]]
  /\ key = [s \in Socket |-> [n \in Attempt |-> Nobody]]
  /\ peer = [s \in Socket |-> [n \in Attempt |-> Nobody]]

-----------------------------------------------------------------------------
(* handleVMSSHConnect: four reads, each of what is there by then           *)

Asks(s, n, from, to) ==
  /\ Up /\ attempt[s][n] = "fetching" /\ ask[s][n] = from
  /\ ask' = [ask EXCEPT ![s][n] = to]
  /\ UNCHANGED <<vars, world, key, peer>>

HasKeyForVM(s, n) ==
  /\ vault[Target[s]] # null
  /\ Asks(s, n, "received", "has key")

resolveVMNode(s, n) ==
  /\ machine[Target[s]].state # "none"
  /\ Asks(s, n, "has key", "resolved")

listVMs(s, n) ==
  /\ machine[Target[s]].state = "running"
  /\ Asks(s, n, "resolved", "running")

\* The guest agent reports the address.
extractIPv4(s, n) ==
  /\ at = Target[s]
  /\ Asks(s, n, "running", "answered")

handleVMSSHConnect(s, n) ==
  \/ HasKeyForVM(s, n) \/ resolveVMNode(s, n) \/ listVMs(s, n) \/ extractIPv4(s, n)

-----------------------------------------------------------------------------
(* The session                                                             *)

\* fetchConnectInfo resolves with the answer.
ConnectInfo(s, n) ==
  /\ ask[s][n] = "answered"
  /\ Fetched(s, n)
  /\ UNCHANGED <<world, lookup>>

Keys == {<<v, vault[v]>> : v \in {u \in VM : vault[u] # null}}

\* Mutant: some record of the index is taken.
loadPrivateKeyForVM_AnyRecord(v) == Keys

\* The record of a number in the index.
loadPrivateKeyForVM(v) == {k \in Keys : k[1] = v}

\* The key is loaded, parsed or not.
KeyRead(s, n) ==
  /\ Loaded(s, n) \/ BadKey(s, n)
  /\ \E k \in loadPrivateKeyForVM(Target[s]) : key' = [key EXCEPT ![s][n] = k]
  /\ UNCHANGED <<world, ask, peer>>

\* The machine that has the address by now lets the client in.
Admitted(s, n) ==
  /\ Ready(s, n)
  /\ at # Nobody /\ key[s][n] = <<at, machine[at].clone>>
  /\ peer' = [peer EXCEPT ![s][n] = <<at, machine[at].clone>>]
  /\ UNCHANGED <<world, ask, key>>

Other(s, n) ==
  /\ \/ Connect(s, n) \/ Fails(s, n) \/ ShellOpened(s, n) \/ ShellFails(s, n)
     \/ StreamCloses(s, n) \/ ClientError(s, n) \/ ClientClosed(s, n)
  /\ UNCHANGED <<world, lookup>>

Leave(s) ==
  /\ AskDisconnect(s) \/ Disconnect(s)
  /\ UNCHANGED <<world, lookup>>

-----------------------------------------------------------------------------
(* The machines                                                            *)

Becomes(v, state) == machine' = [machine EXCEPT ![v].state = state]

\* The number goes to another VM, of Atlas or of another tool.
Clone(v) ==
  /\ machine[v].state = "none" /\ machine[v].clone < MaxClones[v]
  /\ machine' = [machine EXCEPT ![v] = [clone |-> @.clone + 1, state |-> "cloned"]]
  /\ UNCHANGED <<vars, vault, at, lookup>>

\* The pipeline generates a key, which replaces the number's record, and
\* leaves it for the VM to find when it boots.
generateSSHCert(v) ==
  /\ machine[v].state = "cloned"
  /\ vault' = [vault EXCEPT ![v] = machine[v].clone]
  /\ Becomes(v, "stopped")
  /\ UNCHANGED <<vars, at, lookup>>

Start(v) ==
  /\ machine[v].state = "stopped"
  /\ Becomes(v, "running")
  /\ UNCHANGED <<vars, vault, at, lookup>>

Lease(v) ==
  /\ machine[v].state = "running" /\ at = Nobody
  /\ at' = v
  /\ UNCHANGED <<vars, machine, vault, lookup>>

Stop(v) ==
  /\ machine[v].state = "running"
  /\ Becomes(v, "stopped")
  /\ at' = IF at = v THEN Nobody ELSE at
  /\ UNCHANGED <<vars, vault, lookup>>

\* The VM goes; its record stays in the vault.
handleDeleteVM(v) ==
  /\ machine[v].state = "stopped"
  /\ Becomes(v, "none")
  /\ UNCHANGED <<vars, vault, at, lookup>>

-----------------------------------------------------------------------------
TerminalNext ==
  \/ \E s \in Socket :
        \/ \E n \in Attempt :
              \/ handleVMSSHConnect(s, n)
              \/ ConnectInfo(s, n) \/ KeyRead(s, n) \/ Admitted(s, n) \/ Other(s, n)
        \/ Leave(s)
  \/ \E v \in VM : \/ Clone(v) \/ generateSSHCert(v) \/ Start(v) \/ Lease(v)
                   \/ Stop(v) \/ handleDeleteVM(v)

\* Requests, file reads and readyTimeout come to an end, and a server answers a
\* shell request or the connection dies.  Nothing is assumed of the machines.
TerminalFairness ==
  \A s \in Socket, n \in Attempt :
     /\ WF_terminal(handleVMSSHConnect(s, n) \/ ConnectInfo(s, n)
                      \/ (attempt[s][n] = "fetching" /\ Other(s, n)))
     /\ WF_terminal(KeyRead(s, n) \/ (attempt[s][n] = "loading" /\ Other(s, n)))
     /\ WF_terminal(Admitted(s, n) \/ (conn[s][n] = "connecting" /\ Other(s, n)))
     /\ WF_terminal(conn[s][n] = "opening" /\ Other(s, n))

TerminalSpec == TerminalInit /\ [][TerminalNext]_terminal /\ TerminalFairness

-----------------------------------------------------------------------------
(* Properties                                                              *)

\* A client that was let in is on a machine of the number its window is about:
\* the address was reported earlier, by a machine that may be gone, the number
\* may have been cloned again and its key replaced between any two reads, and
\* a deleted VM's key is still in the vault.
SessionIsOnTheVM ==
  \A s \in Socket, n \in Attempt :
     conn[s][n] \in {"ready", "opening", "shell"} => peer[s][n][1] = Target[s]
=============================================================================
