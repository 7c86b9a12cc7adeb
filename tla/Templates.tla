----------------------------- MODULE Templates ------------------------------
(***************************************************************************)
(* The template manager of server.go: the registry of VM templates per     *)
(* node, requests that assign storage and build templates, the builds      *)
(* themselves (commands run over SSH on a node), and the JSON file that    *)
(* every change is saved to and that a restart loads.                      *)
(*                                                                         *)
(* A save copies the registry under templateMu, and then writes a          *)
(* temporary file and renames it with no lock at all; every save uses the  *)
(* same temporary name.                                                    *)
(***************************************************************************)
EXTENDS Naturals, Sequences, FiniteSets

CONSTANTS Template, Node,
          VMID,         \* VMIDs for templates (9000 and up)
          Request,      \* requests to assign storage or to build
          Lists,        \* the sets of nodes that may make up the cluster
          Commands,     \* what the commands of a build do to its VM, in order
          Known,        \* registries that an earlier run may have left
          MaxChanges,   \* bound on nodes joining and leaving and VMs deleted
          MaxServed,    \* bound on requests
          MaxCrashes    \* bound on crashes of the backend

ASSUME VMIDAssumption == VMID \subseteq Nat \ {0}
ASSUME ListsAssumption == Node \in Lists /\ Lists \subseteq SUBSET Node
\* In the code: download, create, import, five qm set, convert.
ASSUME CommandsAssumption ==
  /\ Commands \in Seq({"nothing", "create", "convert"})
  /\ \E i \in DOMAIN Commands : Commands[i] = "convert"
  /\ \A i \in DOMAIN Commands : Commands[i] = "convert" =>
        \E j \in 1 .. i - 1 : Commands[j] = "create"

ASSUME BoundsAssumption == {MaxChanges, MaxServed, MaxCrashes} \subseteq Nat

VARIABLES
  crashes,     \* crashes of the backend so far
  served,      \* requests so far
  changes,     \* changes of the cluster so far, deleted VMs included
  cluster,     \* the nodes that Proxmox lists
  NodeStates,  \* per template and node: its TemplateNodeState
  active,      \* activeTplBuilds
  req,         \* per request: its handler, then its build goroutine
  save,        \* per request: the save it is in the middle of
  tmp,         \* contents of the temporary file
  file,        \* contents of the source of truth
  vms,         \* per VMID: the VM in the cluster
  unattended,  \* history: keys that a restart found in the middle of a build,
               \* or whose build was given up because its first save failed
  overlapped,  \* history: have two saves overlapped?
  deleted      \* history: key, VMID and state of each VM that was deleted

bounds == <<crashes, served, changes>>
vars == <<bounds, cluster, NodeStates, active, req, save, tmp, file, vms, unattended,
          overlapped, deleted>>
disk == <<tmp, file>>
cloud == <<vms, deleted>>

Key == Template \X Node

\* "Building" stands for the statuses of a build that is in progress:
\* Downloading, Importing, Provisioning and Converting.
Absent == [status |-> "", vmid |-> 0, storage |-> FALSE]
Missing == [Absent EXCEPT !.status = "Missing"]
NodeState == [status : {"Missing", "Building", "Ready", "Failed"},
              vmid : VMID \cup {0}, storage : BOOLEAN]
Registry == [Key -> NodeState \cup {Absent}]
Nothing == [k \in Key |-> Absent]

\* A registry shows a finished template with this number.
Shows(registry, k, v) == registry[k].status = "Ready" /\ registry[k].vmid = v

ASSUME KnownAssumption == Known \subseteq Registry

\* A file: it may not exist, be empty, hold a registry, or hold one written
\* over another.
Contents == [kind : {"none", "empty", "registry", "mixed"}, registry : Registry]
Holding(kind) == [kind |-> kind, registry |-> Nothing]

NoVM == [state |-> "none", key |-> <<>>]
Idle == [pc |-> "idle", key |-> <<>>, vmid |-> 0, nodes |-> {}, cmd |-> 0]
NoSave == [pc |-> "none", registry |-> Nothing, fd |-> ""]

\* The file descriptor of a save refers to what is now the temporary file,
\* the source of truth, or a file without a name.
Fd == {"", "tmp", "file", "unlinked"}

Handling == {"listed", "unused", "checked", "assigned", "reserved"}
Running == {"begin", "stage", "command", "ending"}

TypeOK ==
  /\ crashes \in 0 .. MaxCrashes
  /\ served \in 0 .. MaxServed
  /\ changes \in 0 .. MaxChanges
  /\ cluster \in Lists
  /\ NodeStates \in Registry
  /\ active \subseteq Key
  /\ req \in [Request -> [pc : {"idle"} \cup Handling \cup Running,
                          key : Key \cup {<<>>}, vmid : VMID \cup {0},
                          nodes : SUBSET Node, cmd : 0 .. Len(Commands)]]
  /\ save \in [Request -> [pc : {"none", "copy", "open", "write", "rename"},
                           registry : Registry, fd : Fd]]
  /\ tmp \in Contents
  /\ file \in Contents
  /\ vms \in [VMID -> {NoVM} \cup [state : {"vm", "template"}, key : Key]]
  /\ unattended \subseteq Key
  /\ overlapped \in BOOLEAN
  /\ deleted \subseteq Key \X VMID \X {"vm", "template"}

\* loadTemplateSoT: a file that does not parse is ignored with a warning.
Loaded == IF file.kind = "registry" THEN file.registry ELSE Nothing

\* The backend has started, with what an earlier run saved.  A template that
\* it finished is still there, or was deleted.
Init ==
  /\ crashes = 0
  /\ served = 0
  /\ changes = 0
  /\ cluster = Node
  /\ file \in {Holding("none")} \cup [kind : {"registry"}, registry : Known]
  /\ NodeStates = Loaded
  /\ active = {}
  /\ req = [r \in Request |-> Idle]
  /\ save = [r \in Request |-> NoSave]
  /\ tmp = Holding("none")
  /\ vms \in [VMID -> {NoVM} \cup [state : {"template"}, key : Key]]
  /\ \A v \in VMID : vms[v] # NoVM => Shows(Loaded, vms[v].key, v)
  /\ unattended = {k \in Key : Loaded[k].status = "Building"}
  /\ overlapped = FALSE
  /\ deleted = {d \in Key \X VMID \X {"template"} :
                   Shows(Loaded, d[1], d[2]) /\ vms[d[2]].key # d[1]}

-----------------------------------------------------------------------------
(* saveTemplateSoT                                                         *)

\* The caller's critical section ends and its save takes its own copy next;
\* until then the registry may change again.
Saves(r, pc) ==
  /\ req' = [req EXCEPT ![r].pc = pc, ![r].nodes = {}]
  /\ save' = [save EXCEPT ![r].pc = "copy"]

Saving == {r \in Request : save[r].pc \in {"write", "rename"}}

\* Copy the registry, under the lock; all that follows is without it.
CopyRegistry(r) ==
  /\ save[r].pc = "copy"
  /\ save' = [save EXCEPT ![r] = [pc |-> "open", registry |-> NodeStates, fd |-> ""]]
  /\ UNCHANGED <<bounds, cluster, NodeStates, active, req, disk, cloud, unattended,
                 overlapped>>

\* Mutant: the source of truth itself is truncated.
OpenTmp_InPlace(r) ==
  /\ save[r].pc = "open"
  /\ save' = [save EXCEPT ![r].pc = "write", ![r].fd = "file"]
  /\ file' = Holding("empty")
  /\ overlapped' = (overlapped \/ Saving # {})
  /\ UNCHANGED <<bounds, cluster, NodeStates, active, req, tmp, cloud, unattended>>

\* Opening the temporary file truncates it.
OpenTmp(r) ==
  /\ save[r].pc = "open"
  /\ save' = [save EXCEPT ![r].pc = "write", ![r].fd = "tmp"]
  /\ tmp' = Holding("empty")
  /\ overlapped' = (overlapped \/ Saving # {})
  /\ UNCHANGED <<bounds, cluster, NodeStates, active, req, file, cloud, unattended>>

\* What a file holds after registry is written at its start: the tail of a
\* longer text that was there before may remain.
Overwritten(old, registry) ==
  LET new == [kind |-> "registry", registry |-> registry]
  IN  IF old \in {Holding("empty"), new} THEN {new} ELSE {new, Holding("mixed")}

WriteTmp(r) ==
  /\ save[r].pc = "write"
  /\ CASE save[r].fd = "tmp"  -> tmp' \in Overwritten(tmp, save[r].registry)
                                  /\ UNCHANGED file
       [] save[r].fd = "file" -> file' \in Overwritten(file, save[r].registry)
                                  /\ UNCHANGED tmp
       [] OTHER               -> UNCHANGED disk
  /\ save' = [save EXCEPT ![r] = [NoSave EXCEPT !.pc = "rename"]]
  /\ UNCHANGED <<bounds, cluster, NodeStates, active, req, cloud, unattended, overlapped>>

\* Where a descriptor points after the temporary file is renamed.
Renamed(fd) == CASE fd = "tmp" -> "file" [] fd = "file" -> "unlinked" [] OTHER -> fd

\* The save returns: a handler replies, after it has started the build that
\* was asked for, and a build goes on, or returns after its last save.
Returns(r) ==
  req' = CASE req[r].pc = "reserved" -> [req EXCEPT ![r].pc = "begin"]
           [] req[r].pc \in {"assigned", "ending"} -> [req EXCEPT ![r] = Idle]
           [] OTHER -> req

RenameTmp(r) ==
  /\ save[r].pc = "rename"
  /\ tmp.kind # "none"
  /\ file' = tmp
  /\ tmp' = Holding("none")
  /\ save' = [s \in Request |-> IF s = r THEN NoSave
                                ELSE [save[s] EXCEPT !.fd = Renamed(@)]]
  /\ Returns(r)
  /\ UNCHANGED <<bounds, cluster, NodeStates, active, cloud, unattended, overlapped>>

\* Any of the calls fails, the rename also because another save took the
\* temporary file away.  A handler reports the error and does no more, so that
\* the build it has reserved is never started; a build ignores it.
SaveFails(r) ==
  /\ save[r].pc \in {"open", "write", "rename"}
  /\ save' = [save EXCEPT ![r] = NoSave]
  /\ IF req[r].pc = "reserved"
     THEN /\ req' = [req EXCEPT ![r] = Idle]
          /\ unattended' = unattended \cup {req[r].key}
     ELSE Returns(r) /\ UNCHANGED unattended
  /\ UNCHANGED <<bounds, cluster, NodeStates, active, disk, cloud, overlapped>>

saveTemplateSoT(r) ==
  CopyRegistry(r) \/ OpenTmp(r) \/ WriteTmp(r) \/ RenameTmp(r) \/ SaveFails(r)

-----------------------------------------------------------------------------
(* Requests                                                                *)

At(r, pc) == req[r].pc = pc /\ save[r].pc = "none"

\* The registry after ensureTemplateLocked of templates ts: listed nodes get
\* a state, all others lose theirs.
ensureTemplate(ts, nodes) ==
  [k \in Key |-> IF k[1] \notin ts THEN NodeStates[k]
                 ELSE IF k[2] \notin nodes THEN Absent
                 ELSE IF NodeStates[k] = Absent THEN Missing
                 ELSE NodeStates[k]]

\* The same, and the state of the request's own node, created if need be.
Ensured(k, nodes) ==
  LET states == ensureTemplate({k[1]}, nodes)
  IN  [states EXCEPT ![k] = IF @ = Absent THEN Missing ELSE @]

\* Show the registry: brings the template asked for and all that have states up
\* to date, and saves nothing.  The code lists the nodes before it takes the lock;
\* what a list that is out of date does is what a Change to it, this step and a
\* Change back do.
handleTemplateState ==
  /\ \E ts \in SUBSET Template :
        /\ \A k \in Key : NodeStates[k] # Absent => k[1] \in ts
        /\ NodeStates' = ensureTemplate(ts, cluster)
  /\ UNCHANGED <<bounds, cluster, active, req, save, disk, cloud, unattended,
                 overlapped>>

\* A handler reads the list of nodes and uses it in a later critical section.
Start(r, request) ==
  /\ At(r, "idle")
  /\ served < MaxServed
  /\ served' = served + 1
  /\ req' = [req EXCEPT ![r] = request]
  /\ UNCHANGED <<crashes, changes, cluster, NodeStates, active, save, disk, cloud,
                 unattended, overlapped>>

StartAssign(r, k) ==
  Start(r, [pc |-> "listed", key |-> k, vmid |-> 0, nodes |-> cluster, cmd |-> 0])

handleAssignTemplateStorage(r) ==
  /\ At(r, "listed")
  /\ NodeStates' = [Ensured(req[r].key, req[r].nodes) EXCEPT ![req[r].key].storage = TRUE]
  /\ Saves(r, "assigned")
  /\ UNCHANGED <<bounds, cluster, active, disk, cloud, unattended, overlapped>>

\* handleBuildTemplate has read the node list and sees that no VM has the
\* number; isTemplateVMIDAvailable looks at the other templates later.
\* The number is the caller's or that of nextTemplateVMID.
ListVMs(r, k, v) ==
  /\ vms[v] = NoVM
  /\ Start(r, [pc |-> "unused", key |-> k, vmid |-> v, nodes |-> cluster, cmd |-> 0])

isTemplateVMIDAvailable(k, v) ==
  \A other \in Key \ {k} : NodeStates[other].vmid # v

CheckVMID(r) ==
  /\ At(r, "unused")
  /\ req' = [req EXCEPT ![r] =
               IF isTemplateVMIDAvailable(@.key, @.vmid)
               THEN [@ EXCEPT !.pc = "checked"] ELSE Idle]
  /\ UNCHANGED <<bounds, cluster, NodeStates, active, save, disk, cloud,
                 unattended, overlapped>>

\* Mutant: a build that is running already is not looked for.
Refused_IgnoresActive(k, states) == ~states[k].storage

\* No storage is assigned, or a build is running.
Refused(k, states) == ~states[k].storage \/ k \in active

\* The critical section of handleBuildTemplate.
Reserve(r) ==
  LET k == req[r].key
      states == Ensured(k, req[r].nodes)
  IN  /\ At(r, "checked")
      /\ IF Refused(k, states)
         THEN /\ NodeStates' = states
              /\ req' = [req EXCEPT ![r] = Idle]
              /\ UNCHANGED <<active, save, unattended>>
         ELSE /\ NodeStates' = [states EXCEPT ![k] =
                   [@ EXCEPT !.status = "Building", !.vmid = req[r].vmid]]
              /\ active' = active \cup {k}
              /\ unattended' = unattended \ {k}
              /\ Saves(r, "reserved")
      /\ UNCHANGED <<bounds, cluster, disk, cloud, overlapped>>

-----------------------------------------------------------------------------
(* runTemplateBuild                                                        *)

\* Mutant: the build is no longer active, but a failure keeps its status.
Finished_KeepsStatus(r, status) ==
  LET k == req[r].key
  IN  /\ NodeStates' = [NodeStates EXCEPT ![k].status =
                          IF status = "Failed" THEN @ ELSE status]
      /\ active' = active \ {k}
      /\ Saves(r, "ending")

\* finish: a node state that is gone is created again, without its VMID.
Finished(r, status) ==
  LET k == req[r].key
  IN  /\ NodeStates' = [NodeStates EXCEPT ![k].status = status]
      /\ active' = active \ {k}
      /\ Saves(r, "ending")

\* Read the storage and the VMID again.
Begin(r) ==
  LET state == NodeStates[req[r].key]
  IN  /\ At(r, "begin")
      /\ IF state.storage
         THEN /\ req' = [req EXCEPT ![r] =
                          [@ EXCEPT !.pc = "stage", !.cmd = 1,
                                    !.vmid = IF state.vmid > 0 THEN state.vmid
                                             ELSE req[r].vmid]]
              /\ UNCHANGED <<NodeStates, active, save>>
         ELSE Finished(r, "Failed")
      /\ UNCHANGED <<bounds, cluster, disk, cloud, unattended, overlapped>>

\* updateStage before each command.
updateStage(r) ==
  /\ At(r, "stage")
  /\ NodeStates' = [NodeStates EXCEPT ![req[r].key].status = "Building"]
  /\ Saves(r, "command")
  /\ UNCHANGED <<bounds, cluster, active, disk, cloud, unattended, overlapped>>

\* What the command does: qm create makes the VM, qm template converts it on
\* the node that has it.
Effect(r) ==
  LET v == req[r].vmid
      node == req[r].key[2]
  IN  CASE Commands[req[r].cmd] = "create" ->
             /\ vms[v] = NoVM
             /\ vms' = [vms EXCEPT ![v] = [state |-> "vm", key |-> req[r].key]]
        [] Commands[req[r].cmd] = "convert" ->
             /\ vms[v].state = "vm" /\ vms[v].key[2] = node
             /\ vms' = [vms EXCEPT ![v].state = "template"]
        [] OTHER -> UNCHANGED vms

\* Mutant: a build whose VM exists already goes on.
CommandSucceeds_Adopts(r) ==
  /\ At(r, "command")
  /\ Effect(r) \/ UNCHANGED vms
  /\ IF req[r].cmd = Len(Commands)
     THEN Finished(r, "Ready")
     ELSE /\ req' = [req EXCEPT ![r].pc = "stage", ![r].cmd = @ + 1]
          /\ UNCHANGED <<NodeStates, active, save>>
  /\ UNCHANGED <<bounds, cluster, disk, unattended, overlapped, deleted>>

\* Mutant: the end is noticed one command too late.
CommandSucceeds_TooLate(r) ==
  /\ At(r, "command")
  /\ Effect(r)
  /\ IF req[r].cmd > Len(Commands)
     THEN Finished(r, "Ready")
     ELSE /\ req' = [req EXCEPT ![r].pc = "stage", ![r].cmd = @ + 1]
          /\ UNCHANGED <<NodeStates, active, save>>
  /\ UNCHANGED <<bounds, cluster, disk, unattended, overlapped, deleted>>

CommandSucceeds(r) ==
  /\ At(r, "command")
  /\ Effect(r)
  /\ IF req[r].cmd = Len(Commands)
     THEN Finished(r, "Ready")
     ELSE /\ req' = [req EXCEPT ![r].pc = "stage", ![r].cmd = @ + 1]
          /\ UNCHANGED <<NodeStates, active, save>>
  /\ UNCHANGED <<bounds, cluster, disk, unattended, overlapped, deleted>>

\* The command fails, or it works and its answer is lost.
CommandFails(r) ==
  /\ At(r, "command")
  /\ Effect(r) \/ UNCHANGED vms
  /\ Finished(r, "Failed")
  /\ UNCHANGED <<bounds, cluster, disk, unattended, overlapped, deleted>>

-----------------------------------------------------------------------------
(* The cluster, and crashes                                                *)

\* Nodes join or leave.
Change ==
  /\ changes < MaxChanges
  /\ changes' = changes + 1
  /\ cluster' \in Lists \ {cluster}
  /\ UNCHANGED <<crashes, served, NodeStates, active, req, save, disk, cloud,
                 unattended, overlapped>>

\* A VM is deleted, through the API or by another tool, whatever it is and
\* whoever is building it.  The registry is not told.
handleDeleteVM(v) ==
  /\ changes < MaxChanges
  /\ changes' = changes + 1
  /\ vms[v] # NoVM
  /\ vms' = [vms EXCEPT ![v] = NoVM]
  /\ deleted' = deleted \cup {<<vms[v].key, v, vms[v].state>>}
  /\ UNCHANGED <<crashes, served, cluster, NodeStates, active, req, save, disk,
                 unattended, overlapped>>

Restart ==
  /\ crashes < MaxCrashes
  /\ crashes' = crashes + 1
  /\ NodeStates' = Loaded
  /\ active' = {}
  /\ req' = [r \in Request |-> Idle]
  /\ save' = [r \in Request |-> NoSave]
  /\ unattended' = {k \in Key : Loaded[k].status = "Building"}
  /\ UNCHANGED <<served, changes, cluster, disk, cloud, overlapped>>

-----------------------------------------------------------------------------
handleBuildTemplate(r) ==
  \/ \E k \in Key, v \in VMID : ListVMs(r, k, v)
  \/ CheckVMID(r) \/ Reserve(r)

runTemplateBuild(r) ==
  \/ Begin(r) \/ updateStage(r) \/ CommandSucceeds(r) \/ CommandFails(r)

Next ==
  \/ \E r \in Request :
        \/ \E k \in Key : StartAssign(r, k)
        \/ handleAssignTemplateStorage(r)
        \/ handleBuildTemplate(r)
        \/ runTemplateBuild(r)
        \/ saveTemplateSoT(r)
  \/ handleTemplateState
  \/ Change
  \/ \E v \in VMID : handleDeleteVM(v)
  \/ Restart

Spec == Init /\ [][Next]_vars

-----------------------------------------------------------------------------
(* Properties                                                              *)

\* Requests that have reserved their key and whose build is not over.
Builders(k) == {r \in Request : req[r].key = k
                                /\ req[r].pc \in (Running \ {"ending"}) \cup {"reserved"}}

\* server.go:1322: however requests, lost node states and restarts interleave,
\* a template is built at most once at a time on a node, and never without
\* being marked active.
OneBuildPerKey ==
  \A k \in Key : /\ Cardinality(Builders(k)) <= 1
                 /\ Builders(k) # {} => k \in active

\* A node state that shows a build in progress belongs to a build that runs, with
\* two exceptions: a build that a restart cut short, and one that was given up
\* because saving its first state failed (server.go:1341).  No other path, of
\* builds that fail, node states that are forgotten or saves that are overtaken,
\* leaves such a status behind.
BuildStatusIsLive ==
  \A k \in Key : NodeStates[k].status = "Building" => Builders(k) # {} \/ k \in unattended

\* There is, or there was until it was deleted, such a VM.
HasBeen(state, k, v) ==
  vms[v] = [state |-> state, key |-> k] \/ <<k, v, state>> \in deleted

\* A state that says "Ready" and names a VMID names a finished template of
\* its node, although VMIDs are checked and reserved in different critical
\* sections, the states may vanish during a build, its VM may be deleted
\* before it is finished, and a restart may load an old registry.  It was
\* built for this very template, unless somebody deleted the VM of the build
\* and a build of another template has taken its number.  Only a finished
\* template that was deleted is still shown as "Ready".
ReadyIsBuilt ==
  \A k \in Key, v \in VMID : Shows(NodeStates, k, v) =>
     \E t \in Template :
        /\ HasBeen("template", <<t, k[2]>>, v)
        /\ t # k[1] => <<k, v, "vm">> \in deleted

\* server.go:1682: a save writes a temporary file and renames it, so that a
\* crash at any point, or a call that fails, leaves either the file of the
\* save before or the whole copy this one took, unless two saves overlap.
Copied(r) == CASE save[r].pc \in {"open", "write"} -> {save[r].registry}
               [] save[r].pc = "rename" -> {tmp.registry}
               [] OTHER -> {}
SavedFile == INSTANCE TemplateFile
               WITH Saver <- Request, mem <- NodeStates, disk <- Loaded,
                    copy <- [r \in Request |-> Copied(r)],
                    readable <- file.kind \in {"none", "registry"}
ImplementsTemplateFile == SavedFile!Spec

\* server.go:1324 refuses a request because "a template build is already
\* running for this node".
RefusalIsTrue == \A k \in active : Builders(k) # {}
=============================================================================
