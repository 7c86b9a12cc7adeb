---------------------------- MODULE Provisioning ----------------------------
(***************************************************************************)
(* Provisioning jobs against one Proxmox cluster: handleProvision          *)
(* allocates VMIDs from a snapshot of the cluster, each VM's provisionVM   *)
(* pipeline then clones, configures, keys and boots its VM step by step,   *)
(* while operators start, stop and delete VMs through the API and other    *)
(* tools create VMs of their own.                                          *)
(*                                                                         *)
(* A pipeline names its VM by number only.  The key it generates is        *)
(* identified with the pipeline, so that "the VM lets this key in" is      *)
(* an equation between pipelines.                                          *)
(***************************************************************************)
EXTENDS Naturals, FiniteSets

CONSTANTS Job,           \* provisioning requests
          Count,         \* per request: how many VMs (VM_COUNT)
          VMID,          \* the VMIDs the cluster can use
          StartID,       \* VM_START_ID
          Operator,      \* requests to start, stop, reboot or delete a VM
          MaxOperations  \* bound on operator requests

ASSUME VMIDAssumption ==
  VMID \subseteq Nat \ {0} /\ IsFiniteSet(VMID) /\ StartID \in Nat
ASSUME CountAssumption == Count \in [Job -> Nat \ {0}]
ASSUME OperationsAssumption == MaxOperations \in Nat

VARIABLES
  pipe,        \* per pipeline: the step it is at and its VMID
  task,        \* per pipeline: the Proxmox task of its clone
  vms,         \* per VMID: the VM of that number in the cluster
  snippet,     \* per VMID: whose key is in vm-<vmid>-user-data.yml
  vault,       \* per VMID: whose key the key vault returns
  op,          \* per operator: its request
  operations,  \* number of operator requests so far
  meddled      \* history: VMIDs that an operator's request changed while a
               \* pipeline was at work on its clone

vars == <<pipe, task, vms, snippet, vault, op, operations, meddled>>

Pipe == UNION {{j} \X (1 .. Count[j]) : j \in Job}
Nobody == <<>>    \* no pipeline: a VM of another tool, or no key at all
Owner == Pipe \cup {Nobody}

Steps == {"idle", "cloning", "clone_wait", "configuring", "generating_cert",
          "writing_snippet", "injecting", "booting", "waiting_ip", "ready",
          "failed"}

\* A pipeline between its allocation and its last event.
Active(p) == pipe[p].step \notin {"idle", "ready", "failed"}

\* A pipeline whose clone was accepted and that is still at work on it.
Owning(p) == Active(p) /\ pipe[p].step # "cloning"

NoVM == [state |-> "none", owner |-> Nobody, ci |-> FALSE, key |-> Nobody]

TypeOK ==
  /\ pipe \in [Pipe -> [step : Steps, vmid : VMID \cup {0}]]
  /\ \A p \in Pipe : pipe[p].vmid = 0 <=> pipe[p].step = "idle"
  /\ \A p, q \in Pipe :
        p # q /\ p[1] = q[1] /\ pipe[p].vmid # 0 => pipe[p].vmid # pipe[q].vmid
  /\ task \in [Pipe -> {"none", "running", "OK", "error"}]
  /\ vms \in [VMID -> [state : {"none", "cloning", "stopped", "running"},
                       owner : Owner, ci : BOOLEAN, key : Owner]]
  /\ snippet \in [VMID -> Owner]
  /\ vault \in [VMID -> Owner]
  /\ op \in [Operator -> [pc : {"idle", "start", "stop", "reboot", "delete"},
                          vmid : VMID \cup {0}]]
  /\ operations \in 0 .. MaxOperations
  /\ meddled \subseteq VMID

Init ==
  /\ pipe = [p \in Pipe |-> [step |-> "idle", vmid |-> 0]]
  /\ task = [p \in Pipe |-> "none"]
  /\ vms \in [VMID -> {NoVM, [NoVM EXCEPT !.state = "stopped"]}]
  /\ snippet = [v \in VMID |-> Nobody]
  /\ vault = [v \in VMID |-> Nobody]
  /\ op = [o \in Operator |-> [pc |-> "idle", vmid |-> 0]]
  /\ operations = 0
  /\ meddled = {}

-----------------------------------------------------------------------------
(* Allocation                                                              *)

existingVMIDs == {v \in VMID : vms[v].state # "none"}

\* The scan upwards from start skips used numbers and stops at count: the
\* i-th number it finds has i - 1 free ones below it.
Free(used, start) == {v \in VMID : v >= start /\ v \notin used}
allocateVMIDs_NoAdvance(used, start, i) ==  \* mutant: the candidate stays
  CHOOSE v \in Free(used, start) : \A u \in Free(used, start) : v <= u
allocateVMIDs(used, start, i) ==
  CHOOSE v \in Free(used, start) :
     Cardinality({u \in Free(used, start) : u < v}) = i - 1

\* Allocate from one snapshot of the cluster and start a pipeline per VM;
\* without enough numbers the request fails and starts nothing.
handleProvision(j) ==
  /\ pipe[<<j, 1>>].step = "idle"
  /\ Cardinality(Free(existingVMIDs, StartID)) >= Count[j]
  /\ pipe' = [p \in Pipe |->
                IF p[1] = j
                THEN [step |-> "cloning",
                      vmid |-> allocateVMIDs(existingVMIDs, StartID, p[2])]
                ELSE pipe[p]]
  /\ UNCHANGED <<task, vms, snippet, vault, op, operations, meddled>>

-----------------------------------------------------------------------------
(* The pipeline                                                            *)

\* A call is made; if it did its work and the answer is lost, or the next thing
\* fails, the pipeline ends there.
Go(p, from, to) ==
  /\ pipe[p].step = from
  /\ \E next \in {to, "failed"} : pipe' = [pipe EXCEPT ![p].step = next]

\* Mutant: a VM that is there already is adopted.
cloneVM_Adopts(p) ==
  LET v == pipe[p].vmid
  IN  /\ Go(p, "cloning", "clone_wait")
      /\ task' = [task EXCEPT ![p] = "running"]
      /\ vms' = [vms EXCEPT ![v] = [NoVM EXCEPT !.state = "cloning", !.owner = p]]
      /\ UNCHANGED <<snippet, vault, op, operations, meddled>>

\* Proxmox refuses to clone to a number in use and reserves the number of an
\* accepted clone at once.
cloneVM(p) ==
  LET v == pipe[p].vmid
  IN  /\ Go(p, "cloning", "clone_wait")
      /\ vms[v].state = "none"
      /\ task' = [task EXCEPT ![p] = "running"]
      /\ vms' = [vms EXCEPT ![v] = [NoVM EXCEPT !.state = "cloning", !.owner = p]]
      /\ UNCHANGED <<snippet, vault, op, operations, meddled>>

\* The clone task ends; a failed one leaves no VM.
CloneTask(p) ==
  LET v == pipe[p].vmid
  IN  /\ task[p] = "running"
      /\ \/ /\ task' = [task EXCEPT ![p] = "OK"]
            /\ vms' = [vms EXCEPT ![v].state = "stopped"]
         \/ /\ task' = [task EXCEPT ![p] = "error"]
            /\ vms' = [vms EXCEPT ![v] = NoVM]
      /\ UNCHANGED <<pipe, snippet, vault, op, operations, meddled>>

waitForTask(p) ==
  /\ task[p] = "OK"
  /\ Go(p, "clone_wait", "configuring")
  /\ UNCHANGED <<task, vms, snippet, vault, op, operations, meddled>>

\* A configuration call needs a VM of that number that is not being cloned.
Reachable(p) == vms[pipe[p].vmid].state \in {"stopped", "running"}

\* configureHardware and resizeDisk
configure(p) ==
  /\ Go(p, "configuring", "generating_cert")
  /\ Reachable(p)
  /\ UNCHANGED <<task, vms, snippet, vault, op, operations, meddled>>

generateSSHCert(p) ==
  /\ Go(p, "generating_cert", "writing_snippet")
  /\ vault' = [vault EXCEPT ![pipe[p].vmid] = p]
  /\ UNCHANGED <<task, vms, snippet, op, operations, meddled>>

writeSnippetViaSSH(p) ==
  /\ Go(p, "writing_snippet", "injecting")
  /\ snippet' = [snippet EXCEPT ![pipe[p].vmid] = p]
  /\ UNCHANGED <<task, vms, vault, op, operations, meddled>>

\* Mutant: the VM is booted before its snippet is attached.
injectCloudInit_Skipped(p) ==
  /\ Go(p, "injecting", "booting")
  /\ UNCHANGED <<task, vms, snippet, vault, op, operations, meddled>>

\* cicustom refers to the snippet by its file name.
injectCloudInit(p) ==
  /\ Go(p, "injecting", "booting")
  /\ Reachable(p)
  /\ vms' = [vms EXCEPT ![pipe[p].vmid].ci = TRUE]
  /\ UNCHANGED <<task, snippet, vault, op, operations, meddled>>

\* A VM that starts lets in the key of the snippet it is configured with.
Booted(v) == [vms[v] EXCEPT !.state = "running",
                            !.key = IF vms[v].ci THEN snippet[v] ELSE Nobody]

\* The request starts a task that nobody waits for: it boots the VM, or fails,
\* as it does on a VM that runs already.
startVM(p) ==
  LET v == pipe[p].vmid
  IN  /\ Go(p, "booting", "waiting_ip")
      /\ Reachable(p)
      /\ \/ vms[v].state = "stopped" /\ vms' = [vms EXCEPT ![v] = Booted(v)]
         \/ vms' = vms
      /\ UNCHANGED <<task, snippet, vault, op, operations, meddled>>

\* The guest agent of a running VM of that number reports an address.
waitForIP(p) ==
  /\ Go(p, "waiting_ip", "ready")
  /\ vms[pipe[p].vmid].state = "running"
  /\ UNCHANGED <<task, vms, snippet, vault, op, operations, meddled>>

\* Mutant: a failed pipeline deletes the VM of its number.
Fail_RollsBack(p) ==
  LET v == pipe[p].vmid
  IN  /\ Active(p)
      /\ pipe' = [pipe EXCEPT ![p].step = "failed"]
      /\ vms' = [vms EXCEPT ![v] = IF vms[v].state = "stopped" THEN NoVM ELSE @]
      /\ UNCHANGED <<task, snippet, vault, op, operations, meddled>>

\* Every call can fail without its effect: Proxmox or the node refuses, a poll
\* goes wrong, an address does not show up in time.  The pipeline stops there
\* and takes nothing back; a snippet may be left truncated.
Fail(p) ==
  /\ Active(p)
  /\ pipe' = [pipe EXCEPT ![p].step = "failed"]
  /\ \/ UNCHANGED snippet
     \/ /\ pipe[p].step = "writing_snippet"
        /\ snippet' = [snippet EXCEPT ![pipe[p].vmid] = Nobody]
  /\ UNCHANGED <<task, vms, vault, op, operations, meddled>>

-----------------------------------------------------------------------------
(* Operators and other tools                                               *)

\* resolveVMNode finds the VM in a list of the cluster's VMs.
resolveVMNode(o, what, v) ==
  /\ op[o].pc = "idle"
  /\ operations < MaxOperations
  /\ vms[v].state # "none"
  /\ op' = [op EXCEPT ![o] = [pc |-> what, vmid |-> v]]
  /\ operations' = operations + 1
  /\ UNCHANGED <<pipe, task, vms, snippet, vault, meddled>>

\* What a request does to the VM it finds, if its state allows it.
Outcome(what, v) ==
  CASE what = "start" /\ vms[v].state = "stopped"  -> Booted(v)
    [] what = "reboot" /\ vms[v].state = "running" -> Booted(v)
    [] what = "stop" /\ vms[v].state = "running"   -> [vms[v] EXCEPT !.state = "stopped"]
    [] what = "delete" /\ vms[v].state = "stopped" -> NoVM
    [] OTHER -> vms[v]

\* The request then acts on the VM that has the number by now, unless the call
\* fails.
actOnNode(o) ==
  LET v == op[o].vmid
  IN  /\ op[o].pc # "idle"
      /\ op' = [op EXCEPT ![o] = [pc |-> "idle", vmid |-> 0]]
      /\ vms' \in {vms, [vms EXCEPT ![v] = Outcome(op[o].pc, v)]}
      /\ meddled' = meddled \cup
           {u \in {v} : vms' # vms /\ \E p \in Pipe : Owning(p) /\ pipe[p].vmid = u}
      /\ UNCHANGED <<pipe, task, snippet, vault, operations>>

\* Another tool creates a VM with a number that is free.
OtherTool(v) ==
  /\ vms[v].state = "none"
  /\ vms' = [vms EXCEPT ![v] = [NoVM EXCEPT !.state = "stopped"]]
  /\ UNCHANGED <<pipe, task, snippet, vault, op, operations, meddled>>

-----------------------------------------------------------------------------
provisionVM(p) ==
  \/ cloneVM(p) \/ waitForTask(p) \/ configure(p) \/ generateSSHCert(p)
  \/ writeSnippetViaSSH(p) \/ injectCloudInit(p) \/ startVM(p) \/ waitForIP(p)
  \/ Fail(p)

Next ==
  \/ \E j \in Job : handleProvision(j)
  \/ \E p \in Pipe : provisionVM(p) \/ CloneTask(p)
  \/ \E o \in Operator : \/ \E v \in VMID, what \in {"start", "stop", "reboot", "delete"} :
                               resolveVMNode(o, what, v)
                         \/ actOnNode(o)
  \/ \E v \in VMID : OtherTool(v)

Spec == Init /\ [][Next]_vars

-----------------------------------------------------------------------------
(* Properties                                                              *)

\* main.go:823: "It is safe to call concurrently".  VMIDs come from a snapshot
\* that may be stale by the time of the clone, and a pipeline names its VM by
\* number only.  Unless an operator meddled with that number, a pipeline whose
\* clone was accepted works on the VM it cloned and on nothing else.
WorksOnOwnVM ==
  \A p \in Pipe : Owning(p) /\ task[p] # "error" /\ pipe[p].vmid \notin meddled =>
                    vms[pipe[p].vmid].owner = p

\* A pipeline that reported "ready" handed out a key file: while the VM of its
\* number is the one it cloned, this very key opens it and the vault returns it
\* for the number, whatever pipelines tried the same number before or since
\* and however often the VM is restarted.  Numbers that an operator meddled
\* with while a pipeline was at work on them are left out.
ReadyVMHasItsKey ==
  \A p \in Pipe :
     LET v == pipe[p].vmid
     IN  pipe[p].step = "ready" /\ v \notin meddled /\ vms[v].owner = p =>
            vms[v].key = p /\ vault[v] = p

\* No step of a pipeline, its failure included, changes a VM that it did not
\* clone itself, but for numbers that an operator meddled with.
LeavesOtherVMsAlone ==
  [][\A p \in Pipe : pipe'[p] # pipe[p] =>
        \A v \in VMID \ meddled : vms[v].owner # p /\ vms[v].state # "none" =>
           vms'[v] = vms[v]]_vars
=============================================================================
