-------------------------- MODULE TemplatesProofs ---------------------------
(***************************************************************************)
(* Theorems about Templates, for any templates, nodes, VMIDs and number of *)
(* requests, any lists of nodes, and any commands in which a conversion    *)
(* follows a creation.                                                     *)
(***************************************************************************)
EXTENDS Templates, FiniteSetTheorems, TLAPS

PC == {"idle"} \cup Handling \cup Running
BuildPC == {"reserved", "begin", "stage", "command"}
CommandPC == {"stage", "command"}
RequestState == [pc : PC, key : Key \cup {<<>>}, vmid : VMID \cup {0},
                 nodes : SUBSET Node, cmd : 0 .. Len(Commands)]
SaveState == [pc : {"none", "copy", "open", "write", "rename"},
              registry : Registry, fd : Fd]
VM == {NoVM} \cup [state : {"vm", "template"}, key : Key]

\* TypeOK in parts.
Counters ==
  /\ crashes \in 0 .. MaxCrashes
  /\ served \in 0 .. MaxServed
  /\ changes \in 0 .. MaxChanges
  /\ cluster \in Lists
Registered ==
  /\ NodeStates \in Registry
  /\ active \subseteq Key
  /\ unattended \subseteq Key
Requests == req \in [Request -> RequestState]
SaveTypes == save \in [Request -> SaveState] /\ overlapped \in BOOLEAN
Disk == tmp \in Contents /\ file \in Contents
Cloud == vms \in [VMID -> VM] /\ deleted \subseteq Key \X VMID \X {"vm", "template"}

LEMMA TypeOKParts ==
  TypeOK <=> Counters /\ Registered /\ Requests /\ SaveTypes /\ Disk /\ Cloud
BY DEF TypeOK, Counters, Registered, Requests, SaveTypes, Disk, Cloud, RequestState,
       SaveState, VM, PC

-----------------------------------------------------------------------------
(* The inductive invariant                                                 *)

\* What a request knows at each point.
RequestInv(r) ==
  /\ req[r].pc # "idle" => req[r].key \in Key
  /\ req[r].pc \in {"unused", "checked"} \cup BuildPC => req[r].vmid \in VMID
  /\ req[r].pc \in CommandPC => req[r].cmd >= 1

\* A build excludes the others of its key.
Excludes(r) ==
  req[r].pc \in BuildPC =>
    /\ req[r].key \in active
    /\ \A s \in Request : req[s].pc \in BuildPC /\ req[s].key = req[r].key => s = r

\* The state of its key names the VM of the build or, forgotten, none.
OwnsState(r) ==
  req[r].pc \in BuildPC => NodeStates[req[r].key].vmid \in {0, req[r].vmid}

\* The VM of a build on k was created, whatever has become of it.
Created(k, v) == HasBeen("vm", k, v) \/ HasBeen("template", k, v)

\* What ReadyIsBuilt says of a state that names v.
Converted(k, v) ==
  \E t \in Template : /\ HasBeen("template", <<t, k[2]>>, v)
                      /\ t # k[1] => <<k, v, "vm">> \in deleted

\* What the commands have done that a build has behind it.
Done(c, command) == \E i \in 1 .. c - 1 : Commands[i] = command
Progress(r) ==
  req[r].pc \in CommandPC =>
    /\ Done(req[r].cmd, "create") => Created(req[r].key, req[r].vmid)
    /\ Done(req[r].cmd, "convert") => Converted(req[r].key, req[r].vmid)

\* Some copy of the registry shows a finished template with this number.
Remembered(k, v) ==
  \/ Shows(NodeStates, k, v) \/ Shows(tmp.registry, k, v) \/ Shows(file.registry, k, v)
  \/ \E r \in Request : Shows(save[r].registry, k, v)
TruthInv == \A k \in Key, v \in VMID : Remembered(k, v) => Converted(k, v)

\* A save that is alone in the temporary file leaves a whole registry there.
SaveInv ==
  ~overlapped =>
    /\ file.kind \in {"none", "registry"}
    /\ \A r, s \in Request : r \in Saving /\ s \in Saving => r = s
    /\ \A r \in Request :
          /\ save[r].pc = "write" => save[r].fd = "tmp" /\ tmp = Holding("empty")
          /\ save[r].pc = "rename" => tmp.kind = "registry"

\* A status in progress belongs to a build that runs, or that was cut short.
Attended(k) ==
  \/ \E r \in Request : req[r].pc \in BuildPC /\ req[r].key = k
  \/ k \in unattended
LiveInv == \A k \in Key : NodeStates[k].status = "Building" => Attended(k)

RequestInvs == \A r \in Request : RequestInv(r)
BuildInvs == \A r \in Request : Excludes(r) /\ OwnsState(r) /\ Progress(r)

IInv == TypeOK /\ RequestInvs /\ BuildInvs /\ LiveInv /\ TruthInv /\ SaveInv

-----------------------------------------------------------------------------
(* Registries                                                              *)

\* A state, or what Go's map gives for one that is not there.
AnyState == [status : {"", "Missing", "Building", "Ready", "Failed"},
             vmid : VMID \cup {0}, storage : BOOLEAN]

LEMMA AnyStates ==
  ASSUME NEW state
  PROVE  /\ state \in NodeState <=> state \in AnyState /\ state.status # ""
         /\ state \in NodeState \cup {Absent} => state \in AnyState
<1>1. state \in NodeState => state \in AnyState /\ state.status # ""
  BY DEF AnyState, NodeState
<1>2. state \in AnyState /\ state.status # "" => state \in NodeState
  BY DEF AnyState, NodeState
<1>3. Absent \in AnyState
  BY DEF AnyState, Absent
<1> QED  BY <1>1, <1>2, <1>3

\* The fields of a state whose status was replaced.
LEMMA StatusFields ==
  ASSUME NEW state \in AnyState,
         NEW status \in {"Missing", "Building", "Ready", "Failed"}
  PROVE  /\ [state EXCEPT !.status = status] \in NodeState
         /\ [state EXCEPT !.status = status].status = status
         /\ [state EXCEPT !.status = status].vmid = state.vmid
<1>1. [state EXCEPT !.status = status] \in AnyState
  BY DEF AnyState
<1>2. [state EXCEPT !.status = status].status = status
  BY DEF AnyState
<1> QED  BY <1>1, <1>2, AnyStates DEF AnyState

LEMMA ForgottenFields ==
  /\ Absent.status = "" /\ Absent.vmid = 0
  /\ Missing.status = "Missing" /\ Missing.vmid = 0
  /\ Missing \in NodeState
<1>1. Absent.status = "" /\ Absent.vmid = 0
  BY DEF Absent
<1>2. Absent \in AnyState
  BY DEF Absent, AnyState
<1> QED  BY <1>1, <1>2, StatusFields DEF Missing

LEMMA NothingIsARegistry == Nothing \in Registry /\ \A k \in Key : Nothing[k] = Absent
BY DEF Nothing, Registry

LEMMA NothingShows == \A k \in Key, v \in VMID : ~Shows(Nothing, k, v)
BY NothingIsARegistry, ForgottenFields DEF Shows

\* A state that is brought up to date is as before, or knows nothing.
Forgets(new, old) == new = old \/ new \in {Absent, Missing}

LEMMA EnsureForgets ==
  ASSUME NodeStates \in Registry, NEW ts, NEW nodes
  PROVE  /\ ensureTemplate(ts, nodes) \in Registry
         /\ \A k \in Key : Forgets(ensureTemplate(ts, nodes)[k], NodeStates[k])
<1> DEFINE f == ensureTemplate(ts, nodes)
<1>1. ASSUME NEW k \in Key
      PROVE  f[k] \in {NodeStates[k], Absent, Missing}
  BY DEF ensureTemplate
<1>2. ASSUME NEW k \in Key PROVE f[k] \in NodeState \cup {Absent}
  BY <1>1, ForgottenFields DEF Registry
<1>3. f = [k \in Key |-> f[k]]
  BY DEF ensureTemplate
<1>4. f \in Registry
  BY <1>2, <1>3 DEF Registry
<1> QED  BY <1>1, <1>4 DEF Forgets

LEMMA EnsuredForgets ==
  ASSUME NodeStates \in Registry, NEW k \in Key, NEW nodes
  PROVE  /\ Ensured(k, nodes) \in Registry
         /\ Ensured(k, nodes)[k] \in NodeState
         /\ \A l \in Key : Forgets(Ensured(k, nodes)[l], NodeStates[l])
<1> DEFINE f == ensureTemplate({k[1]}, nodes)
           g == Ensured(k, nodes)
<1>1. f \in Registry /\ \A l \in Key : Forgets(f[l], NodeStates[l])
  BY EnsureForgets
<1>2. g = [f EXCEPT ![k] = IF f[k] = Absent THEN Missing ELSE f[k]]
  BY DEF Ensured
<1> HIDE DEF f, g
<1>3. g[k] \in NodeState /\ g[k] \in {f[k], Missing}
  BY <1>1, <1>2, ForgottenFields DEF Registry
<1>4. \A l \in Key \ {k} : g[l] = f[l]
  BY <1>1, <1>2 DEF Registry
<1>5. g \in Registry
  BY <1>1, <1>2, <1>3 DEF Registry
<1>6. \A l \in Key : Forgets(g[l], NodeStates[l])
  BY <1>1, <1>3, <1>4 DEF Forgets
<1> QED  BY <1>3, <1>5, <1>6 DEF g

\* A state that has forgotten shows nothing that it did not show before.
LEMMA ForgottenState ==
  ASSUME NEW new, NEW old, Forgets(new, old)
  PROVE  /\ new.vmid \in {0, old.vmid}
         /\ new.status \in {"Building", "Ready"} => new = old
BY ForgottenFields DEF Forgets

LEMMA LoadedIsARegistry ==
  ASSUME Disk
  PROVE  /\ Loaded \in Registry
         /\ \A k \in Key, v \in VMID : Shows(Loaded, k, v) => Shows(file.registry, k, v)
<1>1. file.registry \in Registry
  BY DEF Disk, Contents
<1> QED  BY <1>1, NothingIsARegistry, NothingShows DEF Loaded

-----------------------------------------------------------------------------
(* What a step has to keep                                                 *)

\* A request keeps what it knows.
Keeps(r) ==
  /\ req'[r].key = req[r].key
  /\ req'[r].vmid = req[r].vmid
  /\ req'[r].cmd = req[r].cmd

\* A request is no build, or is the build that it was.
Continues(r) ==
  req'[r].pc \in BuildPC => req[r].pc \in BuildPC /\ Keeps(r)

\* A build goes on, or its key is known to have lost it.
GoesOn(r) ==
  req[r].pc \in BuildPC => \/ req'[r].pc \in BuildPC /\ req'[r].key = req[r].key
                           \/ req[r].key \in unattended'

LEMMA ExcludesStays ==
  ASSUME BuildInvs,
         \A r \in Request : req'[r].pc \in BuildPC =>
            /\ req[r].pc \in BuildPC
            /\ req'[r].key = req[r].key
            /\ req[r].key \in active => req[r].key \in active'
  PROVE  \A r \in Request : Excludes(r)'
BY DEF BuildInvs, Excludes

LEMMA OwnsStays ==
  ASSUME BuildInvs, RequestInvs, \A r \in Request : Continues(r),
         \A k \in Key : NodeStates'[k].vmid \in {0, NodeStates[k].vmid}
  PROVE  \A r \in Request : OwnsState(r)'
<1> SUFFICES ASSUME NEW r \in Request, req'[r].pc \in BuildPC
             PROVE  NodeStates'[req'[r].key].vmid \in {0, req'[r].vmid}
  BY DEF OwnsState
<1>1. req[r].pc \in BuildPC /\ Keeps(r)
  BY DEF Continues
<1>2. NodeStates[req[r].key].vmid \in {0, req[r].vmid} /\ req[r].key \in Key
  BY <1>1 DEF BuildInvs, OwnsState, RequestInvs, RequestInv, BuildPC
<1> QED  BY <1>1, <1>2 DEF Keeps

\* What happens to VMs takes nothing back.
CloudGrows ==
  \A k \in Key, v \in VMID : /\ Created(k, v) => Created(k, v)'
                             /\ Converted(k, v) => Converted(k, v)'

LEMMA CloudIsQuiet == UNCHANGED cloud => CloudGrows
BY DEF cloud, CloudGrows, Created, Converted, HasBeen

\* The commands that a build has behind it have done what they do.
LEMMA ProgressStays ==
  ASSUME BuildInvs, RequestInvs, CloudGrows, NEW r \in Request, Continues(r),
         req'[r].pc \in CommandPC => req[r].pc \in CommandPC
  PROVE  Progress(r)'
<1> SUFFICES ASSUME req'[r].pc \in CommandPC
             PROVE  /\ Done(req'[r].cmd, "create") => Created(req[r].key, req[r].vmid)'
                    /\ Done(req'[r].cmd, "convert") => Converted(req[r].key, req[r].vmid)'
  BY DEF Progress, Done
<1>1. req[r].pc \in CommandPC /\ Keeps(r)
  BY DEF Continues, CommandPC, BuildPC
<1>2. req[r].key \in Key /\ req[r].vmid \in VMID
  BY <1>1 DEF RequestInvs, RequestInv, CommandPC, BuildPC
<1>3. PICK k \in Key, v \in VMID : k = req[r].key /\ v = req[r].vmid
  BY <1>2
<1>4. req'[r].key = k /\ req'[r].vmid = v /\ req'[r].cmd = req[r].cmd
  BY <1>1, <1>3 DEF Keeps
<1>5. /\ Done(req[r].cmd, "create") => Created(k, v)
      /\ Done(req[r].cmd, "convert") => Converted(k, v)
  BY <1>1, <1>3 DEF BuildInvs, Progress
<1>6. /\ Done(req[r].cmd, "create") => Created(k, v)'
      /\ Done(req[r].cmd, "convert") => Converted(k, v)'
  BY <1>5 DEF CloudGrows
<1>7. Created(k, v)' => Created(req[r].key, req[r].vmid)'
  BY <1>4 DEF Created, HasBeen
<1>8. Converted(k, v)' => Converted(req[r].key, req[r].vmid)'
  BY <1>4 DEF Converted, HasBeen
<1> QED  BY <1>4, <1>6, <1>7, <1>8

LEMMA LiveStays ==
  ASSUME LiveInv, \A r \in Request : GoesOn(r), unattended \subseteq unattended',
         \A k \in Key : NodeStates'[k].status = "Building" => NodeStates[k].status = "Building"
  PROVE  LiveInv'
<1> SUFFICES ASSUME NEW k \in Key, NodeStates'[k].status = "Building" PROVE Attended(k)'
  BY DEF LiveInv
<1>1. CASE k \in unattended
  BY <1>1 DEF Attended
<1>2. ASSUME NEW r \in Request, req[r].pc \in BuildPC, req[r].key = k PROVE Attended(k)'
  BY <1>2 DEF GoesOn, Attended
<1> QED  BY <1>1, <1>2 DEF LiveInv, Attended

LEMMA TruthStays ==
  ASSUME TruthInv, CloudGrows,
         \A k \in Key, v \in VMID :
            Remembered(k, v)' => Remembered(k, v) \/ Converted(k, v)'
  PROVE  TruthInv'
BY DEF TruthInv, CloudGrows

LEMMA SaveIsQuiet ==
  ASSUME SaveInv, UNCHANGED <<disk, overlapped>>,
         \A r \in Request : save'[r] = save[r] \/ save'[r].pc \notin {"write", "rename"}
  PROVE  SaveInv'
<1>1. \A r \in Request : r \in Saving' => r \in Saving /\ save'[r] = save[r]
  BY DEF Saving
<1> QED  BY <1>1 DEF SaveInv, Saving, disk

LEMMA InvFromParts ==
  ASSUME Counters', Registered', Requests', SaveTypes', Disk', Cloud', RequestInvs',
         \A r \in Request : Excludes(r)', \A r \in Request : OwnsState(r)',
         \A r \in Request : Progress(r)', LiveInv', TruthInv', SaveInv'
  PROVE  IInv'
<1>1. TypeOK'
  BY DEF TypeOK, Counters, Registered, Requests, SaveTypes, Disk, Cloud, RequestState,
         SaveState, VM, PC
<1> QED  BY <1>1 DEF IInv, BuildInvs

LEMMA InvParts ==
  ASSUME IInv
  PROVE  /\ Counters /\ Registered /\ Requests /\ SaveTypes /\ Disk /\ Cloud
         /\ RequestInvs /\ BuildInvs /\ LiveInv /\ TruthInv /\ SaveInv
BY TypeOKParts DEF IInv

MoreUnattended == /\ unattended \subseteq unattended'
                  /\ unattended' = unattended \/ unattended' \subseteq Key

\* A step that leaves the registry and the builds alone.
LEMMA BuildsAreQuiet ==
  ASSUME IInv, UNCHANGED <<NodeStates, active>>, CloudGrows, MoreUnattended,
         \A r \in Request : /\ Continues(r) /\ GoesOn(r)
                            /\ req'[r].pc \in CommandPC => req[r].pc \in CommandPC
  PROVE  /\ Registered'
         /\ \A r \in Request : Excludes(r)' /\ OwnsState(r)' /\ Progress(r)'
         /\ LiveInv'
<1>1. Registered'
  BY InvParts DEF Registered, MoreUnattended
<1>2. \A r \in Request : Excludes(r)'
  BY InvParts, ExcludesStays DEF Continues, Keeps
<1>3. \A r \in Request : OwnsState(r)'
  BY InvParts, OwnsStays
<1>4. ASSUME NEW r \in Request PROVE Progress(r)'
  BY InvParts, ProgressStays
<1>5. LiveInv'
  BY InvParts, LiveStays DEF MoreUnattended
<1> QED  BY <1>1, <1>2, <1>3, <1>4, <1>5

-----------------------------------------------------------------------------
(* What the parts of an action do                                          *)

\* A request that stays as it is keeps all it knows.
LEMMA Unmoved ==
  ASSUME NEW r \in Request, req'[r] = req[r]
  PROVE  /\ Continues(r) /\ GoesOn(r)
         /\ req'[r].pc \in CommandPC => req[r].pc \in CommandPC
         /\ RequestInv(r) => RequestInv(r)'
BY DEF Continues, GoesOn, Keeps, RequestInv

LEMMA IdleIsARequest == Idle \in RequestState /\ Idle.pc = "idle"
<1>1. 0 \in 0 .. Len(Commands)
  BY CommandsAssumption
<1> QED  BY <1>1 DEF Idle, RequestState, PC

LEMMA NoSaveIsASave == NoSave \in SaveState /\ NoSave.registry = Nothing /\ NoSave.pc = "none"
BY NothingIsARegistry DEF NoSave, SaveState, Fd

LEMMA SavesEffect ==
  ASSUME Requests, SaveTypes, NEW r \in Request, NEW pc \in PC, Saves(r, pc)
  PROVE  /\ Requests'
         /\ req'[r].pc = pc /\ Keeps(r)
         /\ \A s \in Request \ {r} : req'[s] = req[s]
<1>1. req' = [req EXCEPT ![r] = [req[r] EXCEPT !.pc = pc, !.nodes = {}]]
  BY DEF Saves, Requests
<1>2. req[r] \in RequestState
  BY DEF Requests
<1>3. [req[r] EXCEPT !.pc = pc, !.nodes = {}] \in RequestState
  BY <1>2 DEF RequestState
<1>4. req'[r] = [req[r] EXCEPT !.pc = pc, !.nodes = {}]
  BY <1>1 DEF Requests
<1> QED  BY <1>1, <1>2, <1>3, <1>4 DEF Requests, RequestState, Keeps

LEMMA SavesSave ==
  ASSUME Requests, SaveTypes, NEW r \in Request, NEW pc, Saves(r, pc), UNCHANGED overlapped
  PROVE  /\ SaveTypes'
         /\ save'[r].pc = "copy"
         /\ \A s \in Request : save'[s].registry = save[s].registry
         /\ \A s \in Request \ {r} : save'[s] = save[s]
<1>1. save' = [save EXCEPT ![r] = [save[r] EXCEPT !.pc = "copy"]]
  BY DEF Saves, SaveTypes
<1>2. save[r] \in SaveState
  BY DEF SaveTypes
<1>3. [save[r] EXCEPT !.pc = "copy"] \in SaveState
  BY <1>2 DEF SaveState
<1>4. save'[r] = [save[r] EXCEPT !.pc = "copy"]
  BY <1>1 DEF SaveTypes
<1> QED  BY <1>1, <1>2, <1>3, <1>4 DEF SaveTypes, SaveState

LEMMA ReturnsEffect ==
  ASSUME Requests, RequestInvs, NEW r \in Request, Returns(r)
  PROVE  /\ Requests' /\ RequestInvs'
         /\ \A s \in Request : /\ Continues(s) /\ GoesOn(s)
                               /\ req'[s].pc \in CommandPC => req[s].pc \in CommandPC
<1>1. req[r] \in RequestState
  BY DEF Requests
<1>2. \A s \in Request \ {r} : req'[s] = req[s]
  BY DEF Returns, Requests
<1>3. CASE req[r].pc = "reserved"
  <2>1. req'[r] = [req[r] EXCEPT !.pc = "begin"]
    BY <1>3 DEF Returns, Requests
  <2>2. req'[r] \in RequestState /\ req'[r].pc = "begin" /\ Keeps(r)
    BY <1>1, <2>1 DEF RequestState, PC, Running, Keeps
  <2>3. req' = [req EXCEPT ![r] = req'[r]]
    BY <1>3, <2>1 DEF Returns, Requests
  <2>4. Requests'
    BY <2>2, <2>3 DEF Requests
  <2>5. RequestInv(r)' /\ Continues(r) /\ GoesOn(r)
    BY <1>3, <2>2 DEF RequestInvs, RequestInv, Continues, GoesOn, Keeps, BuildPC, CommandPC
  <2> QED  BY <1>2, <2>2, <2>4, <2>5, Unmoved DEF RequestInvs, CommandPC
<1>4. CASE req[r].pc \notin {"reserved", "assigned", "ending"}
  <2>1. req' = req
    BY <1>4 DEF Returns
  <2> QED  BY <2>1, Unmoved DEF Requests, RequestInvs
<1>5. CASE req[r].pc \in {"assigned", "ending"}
  <2>1. req' = [req EXCEPT ![r] = Idle]
    BY <1>5 DEF Returns
  <2>2. Requests' /\ req'[r].pc = "idle"
    BY <2>1, IdleIsARequest DEF Requests
  <2>3. RequestInv(r)' /\ Continues(r) /\ GoesOn(r)
    BY <1>5, <2>2 DEF RequestInv, Continues, GoesOn, BuildPC, CommandPC
  <2> QED  BY <1>2, <2>2, <2>3, Unmoved DEF RequestInvs, CommandPC
<1> QED  BY <1>3, <1>4, <1>5

-----------------------------------------------------------------------------
(* The steps of a save                                                     *)

\* A step that only moves requests and saves.
LEMMA SavingStep ==
  ASSUME IInv,
         UNCHANGED <<bounds, cluster, NodeStates, active, cloud>>, MoreUnattended,
         Requests', RequestInvs', SaveTypes', Disk', SaveInv',
         \A r \in Request : /\ Continues(r) /\ GoesOn(r)
                            /\ req'[r].pc \in CommandPC => req[r].pc \in CommandPC,
         \A k \in Key, v \in VMID : Remembered(k, v)' => Remembered(k, v)
  PROVE  IInv'
<1>1. CloudGrows /\ Counters' /\ Cloud'
  BY InvParts, CloudIsQuiet DEF Counters, Cloud, cloud, bounds
<1>2. TruthInv'
  BY <1>1, InvParts, TruthStays
<1> QED  BY <1>1, <1>2, InvParts, BuildsAreQuiet, InvFromParts

\* Where the copies of the registry come from.
LEMMA CopiesMove ==
  ASSUME UNCHANGED NodeStates,
         \/ tmp'.registry \in {tmp.registry, Nothing}
         \/ \E s \in Request : tmp'.registry = save[s].registry,
         \/ file'.registry \in {tmp.registry, file.registry, Nothing}
         \/ \E s \in Request : file'.registry = save[s].registry,
         \A s \in Request : save'[s].registry \in {save[s].registry, NodeStates, Nothing}
  PROVE  \A k \in Key, v \in VMID : Remembered(k, v)' => Remembered(k, v)
<1> SUFFICES ASSUME NEW k \in Key, NEW v \in VMID, Remembered(k, v)'
             PROVE  Remembered(k, v)
  OBVIOUS
<1>1. CASE Shows(NodeStates, k, v)'
  BY <1>1 DEF Remembered, Shows
<1>2. CASE Shows(tmp.registry, k, v)'
  <2>1. Shows(tmp'.registry, k, v)
    BY <1>2 DEF Shows
  <2> QED  BY <2>1, NothingShows DEF Remembered
<1>3. CASE Shows(file.registry, k, v)'
  <2>1. Shows(file'.registry, k, v)
    BY <1>3 DEF Shows
  <2> QED  BY <2>1, NothingShows DEF Remembered
<1>4. ASSUME NEW s \in Request, Shows(save[s].registry, k, v)'
      PROVE  Remembered(k, v)
  <2>1. Shows(save'[s].registry, k, v)
    BY <1>4 DEF Shows
  <2>2. save'[s].registry \in {save[s].registry, NodeStates}
    BY <2>1, NothingShows
  <2> QED  BY <2>1, <2>2 DEF Remembered
<1> QED  BY <1>1, <1>2, <1>3, <1>4 DEF Remembered

LEMMA RequestsRest ==
  ASSUME Requests, RequestInvs, UNCHANGED req
  PROVE  /\ Requests' /\ RequestInvs'
         /\ \A r \in Request : /\ Continues(r) /\ GoesOn(r)
                               /\ req'[r].pc \in CommandPC => req[r].pc \in CommandPC
BY Unmoved DEF Requests, RequestInvs

LEMMA CopyRegistryStep ==
  ASSUME IInv, NEW r \in Request, CopyRegistry(r)
  PROVE  IInv'
<1> USE DEF CopyRegistry
<1> DEFINE copy == [pc |-> "open", registry |-> NodeStates, fd |-> ""]
<1>1. copy \in SaveState
  BY InvParts DEF SaveState, Registered, Fd
<1>2. save' = [save EXCEPT ![r] = copy] /\ copy.pc = "open" /\ copy.registry = NodeStates
  OBVIOUS
<1> HIDE DEF copy
<1>3. save'[r] = copy /\ \A s \in Request \ {r} : save'[s] = save[s]
  BY <1>2, InvParts DEF SaveTypes
<1>4. SaveTypes' /\ Disk'
  BY <1>1, <1>2, InvParts DEF SaveTypes, Disk, disk
<1>5. SaveInv'
  BY <1>2, <1>3, InvParts, SaveIsQuiet
<1>6. \A k \in Key, v \in VMID : Remembered(k, v)' => Remembered(k, v)
  BY <1>2, <1>3, CopiesMove DEF disk
<1> QED  BY <1>4, <1>5, <1>6, InvParts, RequestsRest, SavingStep DEF MoreUnattended

LEMMA EmptyFile ==
  /\ Holding("empty") \in Contents /\ Holding("none") \in Contents
  /\ Holding("mixed") \in Contents
  /\ \A kind : Holding(kind).kind = kind /\ Holding(kind).registry = Nothing
BY NothingIsARegistry DEF Holding, Contents

LEMMA OpenTmpStep ==
  ASSUME IInv, NEW r \in Request, OpenTmp(r)
  PROVE  IInv'
<1> USE DEF OpenTmp
<1>1. save' = [save EXCEPT ![r] = [save[r] EXCEPT !.pc = "write", !.fd = "tmp"]]
  BY InvParts DEF SaveTypes
<1>2. save[r] \in SaveState
  BY InvParts DEF SaveTypes
<1>3. save'[r] = [save[r] EXCEPT !.pc = "write", !.fd = "tmp"]
  BY <1>1, InvParts DEF SaveTypes
<1>4. /\ save'[r] \in SaveState /\ save'[r].pc = "write" /\ save'[r].fd = "tmp"
      /\ save'[r].registry = save[r].registry
  <2> DEFINE opened == [save[r] EXCEPT !.pc = "write", !.fd = "tmp"]
  <2>1. /\ opened \in SaveState /\ opened.pc = "write" /\ opened.fd = "tmp"
        /\ opened.registry = save[r].registry
    <3> HIDE DEF OpenTmp
    <3> QED
      BY <1>2 DEF SaveState, Fd
  <2> HIDE DEF opened, OpenTmp
  <2>2. save'[r] = opened
    BY <1>3 DEF opened
  <2> QED
    BY <2>1, <2>2
<1>5. \A s \in Request \ {r} : save'[s] = save[s]
  BY <1>1, InvParts DEF SaveTypes
<1>6. SaveTypes' /\ Disk'
  BY <1>1, <1>3, <1>4, EmptyFile, InvParts DEF SaveTypes, Disk
<1>7. SaveInv'
  <2> SUFFICES ASSUME ~overlapped' PROVE SaveInv'
    BY DEF SaveInv
  <2>1. ~overlapped /\ Saving = {}
    OBVIOUS
  <2>2. \A s \in Request : save'[s].pc \in {"write", "rename"} => s = r
    BY <1>5, <2>1 DEF Saving
  <2> QED  BY <2>1, <2>2, <1>4, InvParts DEF SaveInv, Saving
<1>8. \A k \in Key, v \in VMID : Remembered(k, v)' => Remembered(k, v)
  <2>1. \A s \in Request : save'[s].registry = save[s].registry
    BY <1>4, <1>5
  <2>2. tmp'.registry = Nothing
    BY EmptyFile
  <2> QED  BY <2>1, <2>2, CopiesMove
<1> QED  BY <1>6, <1>7, <1>8, InvParts, RequestsRest, SavingStep DEF MoreUnattended

LEMMA OverwrittenIs ==
  ASSUME NEW old \in Contents, NEW registry \in Registry, NEW new \in Overwritten(old, registry)
  PROVE  /\ new \in Contents
         /\ new.registry \in {registry, Nothing}
         /\ old = Holding("empty") => new.kind = "registry"
<1>1. [kind |-> "registry", registry |-> registry] \in Contents
  BY DEF Contents
<1> QED  BY <1>1, EmptyFile DEF Overwritten

LEMMA WriteTmpStep ==
  ASSUME IInv, NEW r \in Request, WriteTmp(r)
  PROVE  IInv'
<1> USE DEF WriteTmp
<1> DEFINE written == [NoSave EXCEPT !.pc = "rename"]
<1>1. written \in SaveState /\ written.pc = "rename" /\ written.registry = Nothing
  BY NoSaveIsASave DEF SaveState
<1>2. save' = [save EXCEPT ![r] = written]
  OBVIOUS
<1> HIDE DEF written
<1>3. save'[r] = written /\ \A s \in Request \ {r} : save'[s] = save[s]
  BY <1>2, InvParts DEF SaveTypes
<1>4. SaveTypes'
  BY <1>1, <1>2, InvParts DEF SaveTypes
<1>5. save[r] \in SaveState
  BY InvParts DEF SaveTypes
<1>6. \/ save[r].fd = "tmp" /\ tmp' \in Overwritten(tmp, save[r].registry) /\ UNCHANGED file
      \/ save[r].fd = "file" /\ file' \in Overwritten(file, save[r].registry) /\ UNCHANGED tmp
      \/ save[r].fd \notin {"tmp", "file"} /\ UNCHANGED disk
  OBVIOUS
<1>7. save[r].registry \in Registry /\ tmp \in Contents /\ file \in Contents
  BY <1>5, InvParts DEF SaveState, Disk
<1>8. /\ tmp' = tmp \/ (tmp' \in Contents /\ tmp'.registry \in {save[r].registry, Nothing})
      /\ file' = file \/ (file' \in Contents /\ file'.registry \in {save[r].registry, Nothing})
  BY <1>6, <1>7, OverwrittenIs DEF disk
<1>9. Disk'
  BY <1>7, <1>8 DEF Disk
<1>10. SaveInv'
  <2> SUFFICES ASSUME ~overlapped PROVE SaveInv'
    BY DEF SaveInv
  <2>1. r \in Saving /\ save[r].fd = "tmp" /\ tmp = Holding("empty")
    BY InvParts DEF SaveInv, Saving
  <2>2. tmp'.kind = "registry" /\ file' = file
    BY <1>6, <1>7, <2>1, OverwrittenIs
  <2>3. \A s \in Request : s \in Saving' => s = r
    BY <1>3, <2>1, InvParts DEF SaveInv, Saving
  <2>4. \A s \in Request : s # r => save'[s].pc \notin {"write", "rename"}
    BY <2>3 DEF Saving
  <2> QED  BY <1>1, <1>3, <2>2, <2>3, <2>4, InvParts DEF SaveInv
<1>11. \A k \in Key, v \in VMID : Remembered(k, v)' => Remembered(k, v)
  <2>1. \A s \in Request : save'[s].registry \in {save[s].registry, Nothing}
    BY <1>1, <1>3
  <2> QED  BY <2>1, <1>8, CopiesMove
<1> QED  BY <1>4, <1>9, <1>10, <1>11, InvParts, RequestsRest, SavingStep DEF MoreUnattended

LEMMA RenameTmpStep ==
  ASSUME IInv, NEW r \in Request, RenameTmp(r)
  PROVE  IInv'
<1> USE DEF RenameTmp
<1>1. ASSUME NEW s \in Request
      PROVE  /\ save'[s] \in SaveState
             /\ save'[s].registry \in {save[s].registry, Nothing}
             /\ s = r => save'[s].pc = "none"
             /\ s # r => save'[s].pc = save[s].pc
  <2>1. CASE s = r
    BY <2>1, NoSaveIsASave
  <2>2. CASE s # r
    <3>1. save[s] \in SaveState
      BY InvParts DEF SaveTypes
    <3>2. save'[s] = [save[s] EXCEPT !.fd = Renamed(save[s].fd)]
      BY <2>2
    <3>3. Renamed(save[s].fd) \in Fd
      BY <3>1 DEF Renamed, Fd, SaveState
    <3> QED  BY <2>2, <3>1, <3>2, <3>3 DEF SaveState
  <2> QED  BY <2>1, <2>2
<1>2. SaveTypes'
  BY <1>1, InvParts DEF SaveTypes
<1>3. Disk'
  BY EmptyFile, InvParts DEF Disk
<1>4. SaveInv'
  <2> SUFFICES ASSUME ~overlapped PROVE SaveInv'
    BY DEF SaveInv
  <2>1. r \in Saving /\ tmp.kind = "registry"
    BY InvParts DEF SaveInv, Saving
  <2>2. \A s \in Request : s \in Saving => s = r
    BY <2>1, InvParts DEF SaveInv
  <2>3. \A s \in Request : save'[s].pc \notin {"write", "rename"}
    BY <1>1, <2>2 DEF Saving
  <2> QED  BY <2>1, <2>3 DEF SaveInv, Saving
<1>5. \A k \in Key, v \in VMID : Remembered(k, v)' => Remembered(k, v)
  <2>1. tmp'.registry = Nothing /\ file'.registry = tmp.registry
    BY EmptyFile
  <2> QED  BY <1>1, <2>1, CopiesMove
<1> QED  BY <1>2, <1>3, <1>4, <1>5, InvParts, ReturnsEffect, SavingStep DEF MoreUnattended

LEMMA BecomesIdle ==
  ASSUME Requests, RequestInvs, NEW r \in Request, req' = [req EXCEPT ![r] = Idle],
         req[r].pc \in BuildPC => req[r].key \in unattended'
  PROVE  /\ Requests' /\ RequestInvs'
         /\ \A s \in Request : /\ Continues(s) /\ GoesOn(s)
                               /\ req'[s].pc \in CommandPC => req[s].pc \in CommandPC
<1>1. Requests' /\ req'[r].pc = "idle"
  BY IdleIsARequest DEF Requests
<1>2. RequestInv(r)' /\ Continues(r) /\ GoesOn(r)
  BY <1>1 DEF RequestInv, Continues, GoesOn, BuildPC, CommandPC
<1>3. \A s \in Request \ {r} : req'[s] = req[s]
  BY DEF Requests
<1> QED  BY <1>1, <1>2, <1>3, Unmoved DEF RequestInvs, CommandPC

LEMMA SaveFailsStep ==
  ASSUME IInv, NEW r \in Request, SaveFails(r)
  PROVE  IInv'
<1> USE DEF SaveFails
<1>1. SaveTypes' /\ save'[r] = NoSave /\ \A s \in Request \ {r} : save'[s] = save[s]
  BY NoSaveIsASave, InvParts DEF SaveTypes
<1>2. Disk'
  BY InvParts DEF Disk, disk
<1>3. SaveInv'
  <2>1. \A s \in Request : save'[s] = save[s] \/ save'[s].pc \notin {"write", "rename"}
    BY <1>1, NoSaveIsASave
  <2> QED  BY <2>1, InvParts, SaveIsQuiet
<1>4. \A k \in Key, v \in VMID : Remembered(k, v)' => Remembered(k, v)
  <2>1. \A s \in Request : save'[s].registry \in {save[s].registry, Nothing}
    BY <1>1, NoSaveIsASave
  <2> QED  BY <2>1, CopiesMove DEF disk
<1>5. /\ Requests' /\ RequestInvs'
      /\ \A s \in Request : /\ Continues(s) /\ GoesOn(s)
                            /\ req'[s].pc \in CommandPC => req[s].pc \in CommandPC
  BY InvParts, ReturnsEffect, BecomesIdle
<1>6. MoreUnattended
  <2>1. req[r].pc = "reserved" => req[r].key \in Key
    BY InvParts DEF RequestInvs, RequestInv
  <2> QED  BY <2>1, InvParts DEF Registered, MoreUnattended
<1> QED  BY <1>1, <1>2, <1>3, <1>4, <1>5, <1>6, SavingStep

-----------------------------------------------------------------------------
(* The steps of requests                                                   *)

LEMMA SavesRest ==
  ASSUME SaveTypes, Disk, SaveInv, UNCHANGED <<save, disk, overlapped>>
  PROVE  SaveTypes' /\ Disk' /\ SaveInv'
BY SaveIsQuiet DEF SaveTypes, Disk, disk

\* A request that is no build, and no other changes.
LEMMA HandlerMoves ==
  ASSUME Requests, RequestInvs, NEW r \in Request, NEW h \in RequestState,
         req' = [req EXCEPT ![r] = h], req[r].pc \notin BuildPC, h.pc \notin BuildPC,
         h.pc # "idle" => h.key \in Key, h.pc \in {"unused", "checked"} => h.vmid \in VMID
  PROVE  /\ Requests' /\ RequestInvs'
         /\ \A s \in Request : /\ Continues(s) /\ GoesOn(s)
                               /\ req'[s].pc \in CommandPC => req[s].pc \in CommandPC
<1>1. Requests' /\ req'[r] = h
  BY DEF Requests
<1>2. RequestInv(r)' /\ Continues(r) /\ GoesOn(r)
  BY <1>1 DEF RequestInv, Continues, GoesOn, BuildPC, CommandPC
<1>3. \A s \in Request \ {r} : req'[s] = req[s]
  BY DEF Requests
<1> QED  BY <1>1, <1>2, <1>3, Unmoved DEF RequestInvs, CommandPC, BuildPC

LEMMA StartStep ==
  ASSUME IInv, NEW r \in Request, NEW h \in RequestState, Start(r, h),
         h.pc \in {"listed", "unused"}, h.key \in Key, h.pc = "unused" => h.vmid \in VMID
  PROVE  IInv'
<1> USE DEF Start
<1>1. Counters'
  BY InvParts, BoundsAssumption DEF Counters
<1>2. /\ Requests' /\ RequestInvs'
      /\ \A s \in Request : /\ Continues(s) /\ GoesOn(s)
                            /\ req'[s].pc \in CommandPC => req[s].pc \in CommandPC
  BY InvParts, HandlerMoves DEF BuildPC, At
<1>3. CloudGrows /\ Cloud'
  BY InvParts, CloudIsQuiet DEF Cloud, cloud
<1>4. SaveTypes' /\ Disk' /\ SaveInv'
  BY InvParts, SavesRest
<1>5. TruthInv'
  BY <1>3, InvParts, TruthStays DEF Remembered, Shows, disk
<1> QED  BY <1>1, <1>2, <1>3, <1>4, <1>5, BuildsAreQuiet, InvFromParts DEF MoreUnattended

LEMMA StartAssignStep ==
  ASSUME IInv, NEW r \in Request, NEW k \in Key, StartAssign(r, k)
  PROVE  IInv'
<1> DEFINE h == [pc |-> "listed", key |-> k, vmid |-> 0, nodes |-> cluster, cmd |-> 0]
<1>1. h \in RequestState
  BY InvParts, ListsAssumption, CommandsAssumption
     DEF RequestState, PC, Handling, Counters
<1>2. h.pc = "listed" /\ h.key = k /\ Start(r, h)
  BY DEF StartAssign
<1> HIDE DEF h
<1> QED  BY <1>1, <1>2, StartStep

LEMMA ListVMsStep ==
  ASSUME IInv, NEW r \in Request, NEW k \in Key, NEW v \in VMID, ListVMs(r, k, v)
  PROVE  IInv'
<1> DEFINE h == [pc |-> "unused", key |-> k, vmid |-> v, nodes |-> cluster, cmd |-> 0]
<1>1. h \in RequestState
  BY InvParts, ListsAssumption, CommandsAssumption
     DEF RequestState, PC, Handling, Counters
<1>2. h.pc = "unused" /\ h.key = k /\ h.vmid = v /\ Start(r, h)
  BY DEF ListVMs
<1> HIDE DEF h
<1> QED  BY <1>1, <1>2, StartStep

LEMMA CheckVMIDStep ==
  ASSUME IInv, NEW r \in Request, CheckVMID(r)
  PROVE  IInv'
<1> USE DEF CheckVMID
<1> DEFINE h == IF isTemplateVMIDAvailable(req[r].key, req[r].vmid)
                THEN [req[r] EXCEPT !.pc = "checked"] ELSE Idle
<1>1. req[r] \in RequestState /\ RequestInv(r)
  BY InvParts DEF Requests, RequestInvs
<1>2. req[r].key \in Key /\ req[r].vmid \in VMID
  BY <1>1 DEF RequestInv, At
<1>3. [req[r] EXCEPT !.pc = "checked"] \in RequestState
  BY <1>1 DEF RequestState, PC, Handling
<1>4. h \in RequestState
  BY <1>3, IdleIsARequest
<1>5. /\ h.pc \in {"idle", "checked"}
      /\ h.pc = "checked" => h.key = req[r].key /\ h.vmid = req[r].vmid
  BY <1>1, IdleIsARequest DEF RequestState
<1>6. req' = [req EXCEPT ![r] = h]
  OBVIOUS
<1> HIDE DEF h
<1>7. /\ Requests' /\ RequestInvs'
      /\ \A s \in Request : /\ Continues(s) /\ GoesOn(s)
                            /\ req'[s].pc \in CommandPC => req[s].pc \in CommandPC
  BY <1>2, <1>4, <1>5, <1>6, InvParts, HandlerMoves DEF BuildPC, At
<1>8. SaveTypes' /\ Disk' /\ SaveInv'
  BY InvParts, SavesRest
<1>9. \A k \in Key, v \in VMID : Remembered(k, v)' => Remembered(k, v)
  BY DEF Remembered, Shows, disk
<1> QED  BY <1>7, <1>8, <1>9, SavingStep DEF MoreUnattended

\* A step that may forget states, and moves no build.
LEMMA ForgetfulStep ==
  ASSUME IInv,
         UNCHANGED <<bounds, cluster, active, cloud, unattended>>,
         Registered', Requests', RequestInvs', SaveTypes', Disk', SaveInv',
         \A r \in Request : /\ Continues(r) /\ GoesOn(r)
                            /\ req'[r].pc \in CommandPC => req[r].pc \in CommandPC,
         \A k \in Key :
            /\ NodeStates'[k].vmid \in {0, NodeStates[k].vmid}
            /\ NodeStates'[k].status \in {"Building", "Ready"} =>
                  /\ NodeStates'[k].status = NodeStates[k].status
                  /\ NodeStates'[k].vmid = NodeStates[k].vmid,
         \A s \in Request : save'[s].registry = save[s].registry,
         UNCHANGED disk
  PROVE  IInv'
<1>1. CloudGrows /\ Counters' /\ Cloud'
  BY InvParts, CloudIsQuiet DEF Counters, Cloud, cloud, bounds
<1>2. \A r \in Request : Excludes(r)'
  BY InvParts, ExcludesStays DEF Continues, Keeps
<1>3. \A r \in Request : OwnsState(r)'
  BY InvParts, OwnsStays
<1>4. ASSUME NEW r \in Request PROVE Progress(r)'
  BY <1>1, InvParts, ProgressStays
<1>5. LiveInv'
  BY InvParts, LiveStays
<1>6. \A k \in Key, v \in VMID : Remembered(k, v)' => Remembered(k, v)
  BY DEF Remembered, Shows, disk
<1>7. TruthInv'
  BY <1>1, <1>6, InvParts, TruthStays
<1> QED  BY <1>1, <1>2, <1>3, <1>4, <1>5, <1>7, InvFromParts

LEMMA TemplateStateStep ==
  ASSUME IInv, handleTemplateState
  PROVE  IInv'
<1> USE DEF handleTemplateState
<1>1. NodeStates' \in Registry /\ \A k \in Key : Forgets(NodeStates'[k], NodeStates[k])
  BY InvParts, EnsureForgets DEF Registered
<1>2. Registered'
  BY <1>1, InvParts DEF Registered
<1>3. \A k \in Key :
         /\ NodeStates'[k].vmid \in {0, NodeStates[k].vmid}
         /\ NodeStates'[k].status \in {"Building", "Ready"} => NodeStates'[k] = NodeStates[k]
  BY <1>1, ForgottenState
<1>4. SaveTypes' /\ Disk' /\ SaveInv'
  BY InvParts, SavesRest
<1> QED  BY <1>2, <1>3, <1>4, InvParts, RequestsRest, ForgetfulStep

LEMMA AssignStep ==
  ASSUME IInv, NEW r \in Request, handleAssignTemplateStorage(r)
  PROVE  IInv'
<1> USE DEF handleAssignTemplateStorage
<1>1. req[r].key \in Key
  BY InvParts DEF RequestInvs, RequestInv, At
<1>2. PICK k \in Key : k = req[r].key
  BY <1>1
<1> DEFINE f == Ensured(k, req[r].nodes)
<1>3. f \in Registry /\ f[k] \in NodeState /\ \A l \in Key : Forgets(f[l], NodeStates[l])
  BY InvParts, EnsuredForgets DEF Registered
<1>4. NodeStates' = [f EXCEPT ![k] = [f[k] EXCEPT !.storage = TRUE]]
  BY <1>2, <1>3 DEF Registry
<1> HIDE DEF f
<1>5. [f[k] EXCEPT !.storage = TRUE] \in NodeState
  BY <1>3 DEF NodeState
<1>6. NodeStates'[k] = [f[k] EXCEPT !.storage = TRUE] /\ \A l \in Key \ {k} : NodeStates'[l] = f[l]
  BY <1>3, <1>4 DEF Registry
<1>7. NodeStates'[k].vmid = f[k].vmid /\ NodeStates'[k].status = f[k].status
  BY <1>3, <1>6 DEF NodeState
<1>8. \A l \in Key : NodeStates'[l].vmid = f[l].vmid /\ NodeStates'[l].status = f[l].status
  BY <1>6, <1>7
<1>9. Registered'
  BY <1>3, <1>4, <1>5, InvParts DEF Registered, Registry
<1>10. \A l \in Key :
          /\ f[l].vmid \in {0, NodeStates[l].vmid}
          /\ f[l].status \in {"Building", "Ready"} => f[l] = NodeStates[l]
  BY <1>3, ForgottenState
<1>11. /\ Requests' /\ req'[r].pc = "assigned" /\ Keeps(r)
       /\ \A s \in Request \ {r} : req'[s] = req[s]
  BY InvParts, SavesEffect DEF PC, Handling
<1>12. RequestInv(r)' /\ Continues(r) /\ GoesOn(r) /\ req'[r].pc \notin CommandPC
  BY <1>1, <1>11 DEF RequestInv, Continues, GoesOn, At, Keeps, BuildPC, CommandPC
<1>13. /\ RequestInvs'
       /\ \A s \in Request : /\ Continues(s) /\ GoesOn(s)
                             /\ req'[s].pc \in CommandPC => req[s].pc \in CommandPC
  BY <1>11, <1>12, InvParts, Unmoved DEF RequestInvs
<1>14. /\ SaveTypes' /\ save'[r].pc = "copy"
       /\ \A s \in Request : save'[s].registry = save[s].registry
       /\ \A s \in Request \ {r} : save'[s] = save[s]
  BY InvParts, SavesSave
<1>15. SaveInv' /\ Disk'
  BY <1>14, InvParts, SaveIsQuiet DEF Disk, disk
<1> QED  BY <1>8, <1>9, <1>10, <1>11, <1>13, <1>14, <1>15, ForgetfulStep

LEMMA ReserveStep ==
  ASSUME IInv, NEW r \in Request, Reserve(r)
  PROVE  IInv'
<1>1. req[r].pc = "checked" /\ req[r].key \in Key /\ req[r].vmid \in VMID
  BY InvParts DEF RequestInvs, RequestInv, At, Reserve
<1>2. PICK k \in Key, v \in VMID : k = req[r].key /\ v = req[r].vmid
  BY <1>1
<1> DEFINE f == Ensured(k, req[r].nodes)
<1>3. f \in Registry /\ f[k] \in NodeState /\ \A l \in Key : Forgets(f[l], NodeStates[l])
  BY InvParts, EnsuredForgets DEF Registered
<1>4. \A l \in Key :
          /\ f[l].vmid \in {0, NodeStates[l].vmid}
          /\ f[l].status \in {"Building", "Ready"} => f[l] = NodeStates[l]
  BY <1>3, ForgottenState
<1>5. CASE Refused(k, f)
  <2>1. /\ NodeStates' = f /\ req' = [req EXCEPT ![r] = Idle]
        /\ UNCHANGED <<active, save, unattended, bounds, cluster, disk, cloud, overlapped>>
    BY <1>2, <1>5 DEF Reserve
  <2>2. Registered'
    BY <1>3, <2>1, InvParts DEF Registered
  <2>3. SaveTypes' /\ Disk' /\ SaveInv'
    BY <2>1, InvParts, SavesRest
  <2>4. /\ Requests' /\ RequestInvs'
        /\ \A s \in Request : /\ Continues(s) /\ GoesOn(s)
                              /\ req'[s].pc \in CommandPC => req[s].pc \in CommandPC
    BY <1>1, <2>1, InvParts, BecomesIdle DEF BuildPC
  <2> QED  BY <1>4, <2>1, <2>2, <2>3, <2>4, ForgetfulStep
<1>6. CASE ~Refused(k, f)
  <2>1. /\ NodeStates' = [f EXCEPT ![k] = [f[k] EXCEPT !.status = "Building", !.vmid = v]]
        /\ active' = active \cup {k} /\ unattended' = unattended \ {k}
        /\ Saves(r, "reserved")
        /\ UNCHANGED <<bounds, cluster, disk, cloud, overlapped>>
    BY <1>2, <1>3, <1>6 DEF Reserve, Registry
  <2>2. k \notin active
    BY <1>6 DEF Refused
  <2> HIDE DEF f
  <2>3. /\ [f[k] EXCEPT !.status = "Building", !.vmid = v] \in NodeState
        /\ [f[k] EXCEPT !.status = "Building", !.vmid = v].status = "Building"
        /\ [f[k] EXCEPT !.status = "Building", !.vmid = v].vmid = v
    BY <1>3 DEF NodeState
  <2>4. /\ NodeStates'[k].status = "Building" /\ NodeStates'[k].vmid = v
        /\ \A l \in Key \ {k} : NodeStates'[l] = f[l]
    BY <1>3, <2>1, <2>3 DEF Registry
  <2>5. Registered'
    BY <1>3, <2>1, <2>3, InvParts DEF Registered, Registry
  <2>6. /\ Requests' /\ req'[r].pc = "reserved" /\ Keeps(r)
        /\ \A s \in Request \ {r} : req'[s] = req[s]
    BY <2>1, InvParts, SavesEffect DEF PC, Handling
  <2>7. RequestInvs'
    <3>1. RequestInv(r)'
      BY <1>1, <2>6 DEF RequestInv, Keeps, CommandPC
    <3> QED  BY <2>6, <3>1, InvParts, Unmoved DEF RequestInvs
  <2>8. /\ SaveTypes' /\ save'[r].pc = "copy"
        /\ \A s \in Request : save'[s].registry = save[s].registry
        /\ \A s \in Request \ {r} : save'[s] = save[s]
    BY <2>1, InvParts, SavesSave
  <2>9. SaveInv' /\ Disk'
    BY <2>1, <2>8, InvParts, SaveIsQuiet DEF Disk, disk
  <2>10. \A s \in Request : req[s].pc \in BuildPC => req[s].key \in active
    BY InvParts DEF BuildInvs, Excludes
  <2>11. \A s \in Request : Excludes(s)'
    <3>1. \A s \in Request \ {r} : req'[s].pc \in BuildPC => req'[s].key \in active /\ req'[s].key # k
      BY <2>2, <2>6, <2>10
    <3>2. req'[r].key = k
      BY <1>2, <2>6 DEF Keeps
    <3>3. \A s, t \in Request : req'[s].pc \in BuildPC /\ req'[t].pc \in BuildPC
                                /\ s # r /\ t # r /\ req'[s].key = req'[t].key => s = t
      BY <2>6, InvParts DEF BuildInvs, Excludes
    <3> QED  BY <2>1, <3>1, <3>2, <3>3 DEF Excludes
  <2>12. \A s \in Request : OwnsState(s)'
    <3>1. OwnsState(r)'
      BY <1>2, <2>4, <2>6 DEF OwnsState, Keeps
    <3>2. ASSUME NEW s \in Request \ {r}, req[s].pc \in BuildPC
          PROVE  NodeStates'[req[s].key].vmid \in {0, req[s].vmid}
      <4>1. req[s].key \in Key \ {k} /\ NodeStates[req[s].key].vmid \in {0, req[s].vmid}
        BY <2>2, <2>10, <3>2, InvParts DEF BuildInvs, OwnsState, Registered
      <4> QED  BY <1>4, <2>4, <4>1
    <3> QED  BY <2>6, <3>1, <3>2 DEF OwnsState
  <2>13. CloudGrows /\ Counters' /\ Cloud'
    BY <2>1, InvParts, CloudIsQuiet DEF Counters, Cloud, cloud, bounds
  <2>14. ASSUME NEW s \in Request PROVE Progress(s)'
    <3>1. CASE s = r
      BY <2>6, <3>1 DEF Progress, CommandPC
    <3>2. CASE s # r
      BY <2>6, <2>13, <3>2, InvParts, Unmoved, ProgressStays
    <3> QED  BY <3>1, <3>2
  <2>15. LiveInv'
    <3>1. req'[r].key = k
      BY <1>2, <2>6 DEF Keeps
    <3>2. Attended(k)'
      BY <2>6, <3>1 DEF Attended, BuildPC
    <3>3. ASSUME NEW l \in Key \ {k}, NodeStates'[l].status = "Building"
          PROVE  Attended(l)'
      <4>1. Attended(l)
        BY <1>4, <2>4, <3>3, InvParts DEF LiveInv
      <4>2. req[r].pc \notin BuildPC
        BY <1>1 DEF BuildPC
      <4> QED  BY <2>1, <2>6, <4>1, <4>2 DEF Attended
    <3> QED  BY <3>2, <3>3 DEF LiveInv
  <2>16. \A l \in Key, u \in VMID : Remembered(l, u)' => Remembered(l, u)
    <3>1. \A l \in Key, u \in VMID : Shows(NodeStates', l, u) => Shows(NodeStates, l, u)
      BY <1>4, <2>4 DEF Shows
    <3> QED  BY <2>1, <2>8, <3>1 DEF Remembered, Shows, disk
  <2>17. TruthInv'
    BY <2>13, <2>16, InvParts, TruthStays
  <2> QED  BY <2>5, <2>6, <2>7, <2>8, <2>9, <2>11, <2>12, <2>13, <2>14, <2>15, <2>17, InvFromParts
<1> QED  BY <1>5, <1>6

-----------------------------------------------------------------------------
(* The steps of a build                                                    *)

\* A build ends, as "Ready" only if its VM was converted.
LEMMA FinishedStep ==
  ASSUME IInv, NEW r \in Request, NEW status \in {"Ready", "Failed"},
         req[r].pc \in BuildPC, Finished(r, status),
         UNCHANGED <<bounds, cluster, disk, unattended, overlapped>>,
         Cloud', CloudGrows,
         NEW k \in Key, NEW v \in VMID, k = req[r].key, v = req[r].vmid,
         status = "Ready" => Converted(k, v)'
  PROVE  IInv'
<1>1. /\ NodeStates' = [NodeStates EXCEPT ![k].status = status]
      /\ active' = active \ {k}
      /\ Saves(r, "ending")
  BY DEF Finished
<1>2. NodeStates[k] \in AnyState /\ NodeStates[k].vmid \in {0, v}
  <2>1. NodeStates[k] \in NodeState \cup {Absent}
    BY InvParts DEF Registered, Registry
  <2> QED  BY <2>1, AnyStates, InvParts DEF BuildInvs, OwnsState
<1>3. /\ NodeStates' \in Registry
      /\ NodeStates'[k] = [NodeStates[k] EXCEPT !.status = status]
      /\ \A l \in Key \ {k} : NodeStates'[l] = NodeStates[l]
  <2>1. NodeStates' = [NodeStates EXCEPT ![k] = [NodeStates[k] EXCEPT !.status = status]]
    BY <1>1, InvParts DEF Registered, Registry
  <2>2. [NodeStates[k] EXCEPT !.status = status] \in NodeState
    BY <1>2, StatusFields
  <2> QED  BY <2>1, <2>2, InvParts DEF Registered, Registry
<1>4. NodeStates'[k].status = status /\ NodeStates'[k].vmid = NodeStates[k].vmid
  BY <1>2, <1>3, StatusFields
<1>5. Registered'
  BY <1>1, <1>3, InvParts DEF Registered
<1>6. /\ Requests' /\ req'[r].pc = "ending" /\ Keeps(r)
      /\ \A s \in Request \ {r} : req'[s] = req[s]
  BY <1>1, InvParts, SavesEffect DEF PC, Running
<1>7. RequestInvs'
  <2>1. RequestInv(r)'
    BY <1>6 DEF RequestInv, Keeps, CommandPC, BuildPC
  <2> QED  BY <1>6, <2>1, InvParts, Unmoved DEF RequestInvs
<1>8. \A s \in Request : /\ Continues(s)
                         /\ req'[s].pc \in CommandPC => req[s].pc \in CommandPC
  BY <1>6, Unmoved DEF Continues, BuildPC, CommandPC
<1>9. /\ SaveTypes' /\ save'[r].pc = "copy"
      /\ \A s \in Request : save'[s].registry = save[s].registry
      /\ \A s \in Request \ {r} : save'[s] = save[s]
  BY <1>1, InvParts, SavesSave
<1>10. SaveInv' /\ Disk'
  BY <1>9, InvParts, SaveIsQuiet DEF Disk, disk
<1>11. \A s \in Request : Excludes(s)'
  <2>1. ASSUME NEW s \in Request, req'[s].pc \in BuildPC
        PROVE  /\ req[s].pc \in BuildPC /\ req'[s].key = req[s].key
               /\ req[s].key \in active'
    <3>1. s # r /\ req'[s] = req[s]
      BY <1>6, <2>1 DEF BuildPC
    <3>2. req[s].key # k /\ req[s].key \in active
      BY <2>1, <3>1, InvParts DEF BuildInvs, Excludes
    <3> QED  BY <1>1, <2>1, <3>1, <3>2
  <2> QED  BY <2>1, InvParts, ExcludesStays
<1>12. \A s \in Request : OwnsState(s)'
  BY <1>3, <1>4, <1>8, InvParts, OwnsStays
<1>13. ASSUME NEW s \in Request PROVE Progress(s)'
  BY <1>8, InvParts, ProgressStays
<1>14. Counters'
  BY InvParts DEF Counters, bounds
<1>15. LiveInv'
  <2> SUFFICES ASSUME NEW l \in Key, NodeStates'[l].status = "Building" PROVE Attended(l)'
    BY DEF LiveInv
  <2>1. l # k
    BY <1>4
  <2>2. Attended(l)
    BY <1>3, <2>1, InvParts DEF LiveInv
  <2> QED  BY <1>6, <2>1, <2>2 DEF Attended
<1>16. TruthInv'
  <2>1. ASSUME NEW l \in Key, NEW u \in VMID, Shows(NodeStates', l, u)
        PROVE  Shows(NodeStates, l, u) \/ Converted(l, u)'
    <3>1. CASE l # k
      BY <1>3, <2>1, <3>1 DEF Shows
    <3>2. CASE l = k
      <4>1. status = "Ready" /\ u = v
        BY <1>2, <1>4, <2>1, <3>2, VMIDAssumption DEF Shows
      <4> QED  BY <3>2, <4>1
    <3> QED  BY <3>1, <3>2
  <2>2. \A l \in Key, u \in VMID :
           Remembered(l, u)' => Remembered(l, u) \/ Converted(l, u)'
    BY <1>9, <2>1 DEF Remembered, Shows, disk
  <2> QED  BY <2>2, InvParts, TruthStays
<1> QED  BY <1>5, <1>6, <1>7, <1>9, <1>10, <1>11, <1>12, <1>13, <1>14, <1>15, <1>16,
            InvFromParts

LEMMA BeginStep ==
  ASSUME IInv, NEW r \in Request, Begin(r)
  PROVE  IInv'
<1>1. req[r].pc = "begin" /\ req[r] \in RequestState /\ req[r].key \in Key /\ req[r].vmid \in VMID
  BY InvParts DEF RequestInvs, RequestInv, At, Begin, BuildPC, Requests
<1>2. PICK k \in Key, v \in VMID : k = req[r].key /\ v = req[r].vmid
  BY <1>1
<1>3. UNCHANGED <<bounds, cluster, disk, cloud, unattended, overlapped>>
  BY DEF Begin
<1>4. CloudGrows /\ Counters' /\ Cloud'
  BY <1>3, InvParts, CloudIsQuiet DEF Counters, Cloud, cloud, bounds
<1>5. CASE NodeStates[k].storage
  <2> DEFINE state == NodeStates[req[r].key]
             u == IF state.vmid > 0 THEN state.vmid ELSE req[r].vmid
             h == [req[r] EXCEPT !.pc = "stage", !.cmd = 1, !.vmid = u]
  <2>1. u = v
    BY <1>1, <1>2, InvParts, VMIDAssumption DEF BuildInvs, OwnsState, BuildPC
  <2>2. req' = [req EXCEPT ![r] = h] /\ UNCHANGED <<NodeStates, active, save>>
    <3>1. state.storage
      BY <1>2, <1>5
    <3> QED  BY <3>1 DEF Begin
  <2>3. 1 \in 0 .. Len(Commands)
    BY CommandsAssumption
  <2>4. h \in RequestState /\ h.pc = "stage" /\ h.cmd = 1 /\ h.vmid = v /\ h.key = k
    BY <1>1, <1>2, <2>1, <2>3 DEF RequestState, PC, Running
  <2> HIDE DEF h, u
  <2>5. Requests' /\ req'[r] = h /\ \A s \in Request \ {r} : req'[s] = req[s]
    BY <2>2, <2>4, InvParts DEF Requests
  <2>6. RequestInv(r)'
    BY <2>4, <2>5 DEF RequestInv
  <2>7. RequestInvs'
    BY <2>5, <2>6, InvParts, Unmoved DEF RequestInvs
  <2>8. SaveTypes' /\ Disk' /\ SaveInv'
    BY <1>3, <2>2, InvParts, SavesRest
  <2>9. \A s \in Request : Excludes(s)'
    BY <1>1, <1>2, <2>2, <2>4, <2>5, InvParts, ExcludesStays DEF BuildPC
  <2>10. \A s \in Request : OwnsState(s)'
    BY <1>1, <1>2, <2>2, <2>4, <2>5, InvParts DEF BuildInvs, OwnsState, BuildPC
  <2>11. ASSUME NEW s \in Request PROVE Progress(s)'
    <3>1. CASE s = r
      <4>1. ~Done(h.cmd, "create") /\ ~Done(h.cmd, "convert")
        BY <2>4 DEF Done
      <4> QED  BY <2>5, <3>1, <4>1 DEF Progress, Done
    <3>2. CASE s # r
      BY <1>4, <2>5, <3>2, InvParts, Unmoved, ProgressStays
    <3> QED  BY <3>1, <3>2
  <2>12. Registered' /\ LiveInv'
    <3>1. \A s \in Request : GoesOn(s)
      BY <1>2, <2>4, <2>5 DEF GoesOn, BuildPC
    <3> QED  BY <1>3, <2>2, <3>1, InvParts, LiveStays DEF Registered
  <2>13. \A l \in Key, w \in VMID : Remembered(l, w)' => Remembered(l, w)
    BY <1>3, <2>2 DEF Remembered, Shows, disk
  <2>14. TruthInv'
    BY <1>4, <2>13, InvParts, TruthStays
  <2> QED  BY <1>4, <2>5, <2>7, <2>8, <2>9, <2>10, <2>11, <2>12, <2>14, InvFromParts
<1>6. CASE ~NodeStates[k].storage
  <2>1. Finished(r, "Failed")
    BY <1>2, <1>6 DEF Begin
  <2> QED  BY <1>1, <1>2, <1>3, <1>4, <2>1, FinishedStep DEF BuildPC
<1> QED  BY <1>5, <1>6

LEMMA UpdateStageStep ==
  ASSUME IInv, NEW r \in Request, updateStage(r)
  PROVE  IInv'
<1> USE DEF updateStage
<1>1. /\ req[r].pc = "stage" /\ req[r] \in RequestState /\ req[r].key \in Key
      /\ req[r].key \in active /\ req[r].cmd >= 1 /\ req[r].vmid \in VMID
  BY InvParts DEF RequestInvs, RequestInv, At, BuildPC, CommandPC, Requests, BuildInvs,
     Excludes
<1>2. PICK k \in Key : k = req[r].key
  BY <1>1
<1>3. NodeStates[k] \in AnyState
  <2>1. NodeStates[k] \in NodeState \cup {Absent}
    BY InvParts DEF Registered, Registry
  <2> QED  BY <2>1, AnyStates
<1>4. NodeStates' = [NodeStates EXCEPT ![k] = [NodeStates[k] EXCEPT !.status = "Building"]]
  BY <1>2, InvParts DEF Registered, Registry
<1>5. /\ [NodeStates[k] EXCEPT !.status = "Building"] \in NodeState
      /\ [NodeStates[k] EXCEPT !.status = "Building"].status = "Building"
      /\ [NodeStates[k] EXCEPT !.status = "Building"].vmid = NodeStates[k].vmid
  BY <1>3, StatusFields
<1>6. /\ NodeStates' \in Registry
      /\ NodeStates'[k] = [NodeStates[k] EXCEPT !.status = "Building"]
      /\ \A l \in Key \ {k} : NodeStates'[l] = NodeStates[l]
  BY <1>4, <1>5, InvParts DEF Registered, Registry
<1>7. NodeStates'[k].status = "Building" /\ NodeStates'[k].vmid = NodeStates[k].vmid
  BY <1>5, <1>6
<1>8. Registered'
  BY <1>6, InvParts DEF Registered
<1>9. /\ Requests' /\ req'[r].pc = "command" /\ Keeps(r)
      /\ \A s \in Request \ {r} : req'[s] = req[s]
  BY InvParts, SavesEffect DEF PC, Running
<1>10. RequestInv(r)' /\ Continues(r) /\ GoesOn(r)
  BY <1>1, <1>9 DEF RequestInv, Keeps, Continues, GoesOn, BuildPC
<1>11. /\ RequestInvs'
       /\ \A s \in Request : /\ Continues(s) /\ GoesOn(s)
                             /\ req'[s].pc \in CommandPC => req[s].pc \in CommandPC
  BY <1>1, <1>9, <1>10, InvParts, Unmoved DEF RequestInvs, CommandPC
<1>12. /\ SaveTypes' /\ save'[r].pc = "copy"
       /\ \A s \in Request : save'[s].registry = save[s].registry
       /\ \A s \in Request \ {r} : save'[s] = save[s]
  BY InvParts, SavesSave
<1>13. SaveInv' /\ Disk'
  BY <1>12, InvParts, SaveIsQuiet DEF Disk, disk
<1>14. \A s \in Request : Excludes(s)'
  BY <1>11, InvParts, ExcludesStays DEF Continues, Keeps
<1>15. \A s \in Request : OwnsState(s)'
  BY <1>6, <1>7, <1>11, InvParts, OwnsStays
<1>16. CloudGrows /\ Counters' /\ Cloud'
  BY InvParts, CloudIsQuiet DEF Counters, Cloud, cloud, bounds
<1>17. ASSUME NEW s \in Request PROVE Progress(s)'
  BY <1>11, <1>16, InvParts, ProgressStays
<1>18. LiveInv'
  <2>1. req'[r].pc = "command" /\ req'[r].key = k
    BY <1>2, <1>9 DEF Keeps
  <2>2. Attended(k)'
    BY <2>1 DEF Attended, BuildPC
  <2>3. ASSUME NEW l \in Key \ {k}, NodeStates'[l].status = "Building" PROVE Attended(l)'
    <3>1. Attended(l)
      BY <1>6, <2>3, InvParts DEF LiveInv
    <3> QED  BY <1>2, <1>9, <3>1 DEF Attended
  <2> QED  BY <2>2, <2>3 DEF LiveInv
<1>19. TruthInv'
  <2>1. \A l \in Key, u \in VMID : Shows(NodeStates', l, u) => Shows(NodeStates, l, u)
    BY <1>6, <1>7 DEF Shows
  <2>2. \A l \in Key, u \in VMID : Remembered(l, u)' => Remembered(l, u)
    BY <1>12, <2>1 DEF Remembered, Shows, disk
  <2> QED  BY <1>16, <2>2, InvParts, TruthStays
<1> QED  BY <1>8, <1>9, <1>11, <1>12, <1>13, <1>14, <1>15, <1>16, <1>17, <1>18, <1>19,
            InvFromParts

\* A command that works creates or converts the VM with the number of its
\* build, and never takes anything away.
LEMMA EffectIs ==
  ASSUME Cloud, UNCHANGED deleted, NEW r \in Request, Effect(r),
         NEW k \in Key, NEW v \in VMID, k = req[r].key, v = req[r].vmid
  PROVE  /\ Cloud' /\ CloudGrows
         /\ Commands[req[r].cmd] = "create" => Created(k, v)'
         /\ Commands[req[r].cmd] = "convert" /\ Created(k, v) => Converted(k, v)'
<1>1. CASE Commands[req[r].cmd] = "create"
  <2> DEFINE vm == [state |-> "vm", key |-> k]
  <2>1. vm \in VM /\ vm.state = "vm"
    BY DEF VM
  <2>2. vms[v] = NoVM /\ vms' = [vms EXCEPT ![v] = vm]
    BY <1>1 DEF Effect
  <2> HIDE DEF vm
  <2>3. vms'[v] = vm /\ \A u \in VMID \ {v} : vms'[u] = vms[u]
    BY <2>2 DEF Cloud
  <2>4. Cloud'
    BY <2>1, <2>2 DEF Cloud
  <2>5. NoVM.state = "none"
    BY DEF NoVM
  <2>6. ASSUME NEW state \in {"vm", "template"}, NEW l \in Key, NEW u \in VMID,
               HasBeen(state, l, u)
        PROVE  HasBeen(state, l, u)'
    <3>1. CASE vms[u] = [state |-> state, key |-> l]
      <4>1. vms[u].state = state
        BY <3>1
      <4> QED  BY <2>2, <2>3, <2>5, <3>1, <4>1 DEF HasBeen
    <3>2. CASE <<l, u, state>> \in deleted
      BY <3>2 DEF HasBeen
    <3> QED  BY <2>6, <3>1, <3>2 DEF HasBeen
  <2>7. CloudGrows
    <3>1. \A l \in Key, u \in VMID : Created(l, u) => Created(l, u)'
      BY <2>6 DEF Created
    <3>2. ASSUME NEW l \in Key, NEW u \in VMID, Converted(l, u) PROVE Converted(l, u)'
      <4>1. PICK t \in Template : /\ HasBeen("template", <<t, l[2]>>, u)
                                  /\ t # l[1] => <<l, u, "vm">> \in deleted
        BY <3>2 DEF Converted
      <4>2. <<t, l[2]>> \in Key
        BY DEF Key
      <4> QED  BY <2>6, <4>1, <4>2 DEF Converted
    <3> QED  BY <3>1, <3>2 DEF CloudGrows
  <2>8. Created(k, v)'
    BY <2>3 DEF Created, HasBeen, vm
  <2> QED  BY <1>1, <2>4, <2>7, <2>8
<1>2. CASE Commands[req[r].cmd] = "convert"
  <2> DEFINE old == vms[v]
             vm == [old EXCEPT !.state = "template"]
  <2>1. /\ old \in [state : {"vm", "template"}, key : Key]
        /\ old.state = "vm" /\ old.key[2] = k[2]
    BY <1>2 DEF Effect, Cloud, VM, NoVM
  <2>2. vms' = [vms EXCEPT ![v] = vm]
    BY <1>2 DEF Effect, Cloud
  <2>3. /\ vm \in [state : {"vm", "template"}, key : Key]
        /\ vm.state = "template" /\ vm.key = old.key
    BY <2>1
  <2> HIDE DEF vm
  <2>4. vms'[v] = vm /\ \A u \in VMID \ {v} : vms'[u] = vms[u]
    BY <2>2 DEF Cloud
  <2>5. Cloud'
    BY <2>2, <2>3 DEF Cloud, VM
  <2>6. \A l : old = [state |-> "vm", key |-> l] => vm = [state |-> "template", key |-> l]
    BY <2>3
  <2>7. ASSUME NEW l \in Key, NEW u \in VMID
        PROVE  /\ HasBeen("vm", l, u) => HasBeen("vm", l, u)' \/ HasBeen("template", l, u)'
               /\ HasBeen("template", l, u) => HasBeen("template", l, u)'
    <3>1. CASE u # v
      BY <2>4, <3>1 DEF HasBeen
    <3>2. CASE u = v
      <4>1. old # [state |-> "template", key |-> l]
        BY <2>1
      <4> QED  BY <2>4, <2>6, <3>2, <4>1 DEF HasBeen
    <3> QED  BY <3>1, <3>2
  <2>8. CloudGrows
    <3>1. \A l \in Key, u \in VMID : Created(l, u) => Created(l, u)'
      BY <2>7 DEF Created
    <3>2. ASSUME NEW l \in Key, NEW u \in VMID, Converted(l, u) PROVE Converted(l, u)'
      <4>1. PICK t \in Template : /\ HasBeen("template", <<t, l[2]>>, u)
                                  /\ t # l[1] => <<l, u, "vm">> \in deleted
        BY <3>2 DEF Converted
      <4>2. <<t, l[2]>> \in Key
        BY DEF Key
      <4> QED  BY <2>7, <4>1, <4>2 DEF Converted
    <3> QED  BY <3>1, <3>2 DEF CloudGrows
  <2>9. ASSUME Created(k, v) PROVE Converted(k, v)'
    <3>1. k[1] \in Template /\ <<k[1], k[2]>> = k
      BY DEF Key
    <3>2. CASE <<k, v, "template">> \in deleted
      BY <3>1, <3>2 DEF Converted, HasBeen
    <3>3. CASE <<k, v, "template">> \notin deleted
      <4>1. old = [state |-> "vm", key |-> k] \/ <<k, v, "vm">> \in deleted
        BY <2>1, <2>9, <3>3 DEF Created, HasBeen
      <4>2. CASE old = [state |-> "vm", key |-> k]
        BY <2>4, <2>6, <3>1, <4>2 DEF Converted, HasBeen
      <4>3. CASE <<k, v, "vm">> \in deleted
        <5>1. PICK t \in Template, n \in Node : old.key = <<t, n>>
          BY <2>1 DEF Key
        <5>2. vm = [state |-> "template", key |-> old.key]
          BY <2>3
        <5>3. old.key = <<t, k[2]>>
          BY <2>1, <5>1
        <5>4. vm = [state |-> "template", key |-> <<t, k[2]>>]
          BY <5>2, <5>3
        <5> QED  BY <2>4, <4>3, <5>4 DEF Converted, HasBeen
      <4> QED  BY <4>1, <4>2, <4>3
    <3> QED  BY <3>2, <3>3
  <2> QED  BY <1>2, <2>5, <2>8, <2>9
<1>3. CASE Commands[req[r].cmd] \notin {"create", "convert"}
  <2>1. UNCHANGED cloud
    BY <1>3 DEF Effect, cloud
  <2> QED  BY <1>3, <2>1, CloudIsQuiet DEF Cloud, cloud
<1> QED  BY <1>1, <1>2, <1>3

\* What is behind a build, one command later.
LEMMA DoneAfter ==
  ASSUME NEW c \in Nat \ {0}, NEW command
  PROVE  Done(c + 1, command) => Done(c, command) \/ Commands[c] = command
BY DEF Done

LEMMA CommandsAreOrdered ==
  ASSUME NEW c \in 1 .. Len(Commands)
  PROVE  /\ Commands[c] = "convert" => Done(c, "create")
         /\ c = Len(Commands) => Done(c + 1, "convert")
<1>1. Len(Commands) \in Nat /\ DOMAIN Commands = 1 .. Len(Commands)
  BY CommandsAssumption
<1>2. Commands[c] = "convert" => \E i \in 1 .. c - 1 : Commands[i] = "create"
  BY <1>1, CommandsAssumption
<1>3. PICK i \in 1 .. Len(Commands) : Commands[i] = "convert"
  BY <1>1, CommandsAssumption
<1>4. c = Len(Commands) => i \in 1 .. (c + 1) - 1
  BY <1>1
<1> QED  BY <1>2, <1>3, <1>4 DEF Done

LEMMA CommandSucceedsStep ==
  ASSUME IInv, NEW r \in Request, CommandSucceeds(r)
  PROVE  IInv'
<1> USE DEF CommandSucceeds
<1>1. /\ req[r].pc = "command" /\ req[r] \in RequestState /\ req[r].key \in Key
      /\ req[r].cmd >= 1 /\ req[r].vmid \in VMID
  BY InvParts DEF RequestInvs, RequestInv, At, BuildPC, CommandPC, Requests
<1>2. PICK k \in Key, v \in VMID, c \in 1 .. Len(Commands) :
         k = req[r].key /\ v = req[r].vmid /\ c = req[r].cmd
  BY <1>1, CommandsAssumption DEF RequestState
<1>3. /\ Cloud' /\ CloudGrows
      /\ Commands[c] = "create" => Created(k, v)'
      /\ Commands[c] = "convert" /\ Created(k, v) => Converted(k, v)'
  BY <1>2, InvParts, EffectIs
<1>4. /\ Done(c, "create") => Created(k, v)
      /\ Done(c, "convert") => Converted(k, v)
  BY <1>1, <1>2, InvParts DEF BuildInvs, Progress, CommandPC
<1>5. /\ Done(c + 1, "create") => Created(k, v)'
      /\ Done(c + 1, "convert") => Converted(k, v)'
  <2>1. c \in Nat \ {0}
    BY CommandsAssumption
  <2> QED  BY <1>3, <1>4, <2>1, DoneAfter, CommandsAreOrdered DEF CloudGrows
<1>6. CASE c = Len(Commands)
  <2>1. Finished(r, "Ready") /\ Converted(k, v)'
    BY <1>2, <1>5, <1>6, CommandsAreOrdered
  <2> QED  BY <1>1, <1>2, <1>3, <2>1, FinishedStep DEF BuildPC
<1>7. CASE c # Len(Commands)
  <2> DEFINE h == [req[r] EXCEPT !.pc = "stage", !.cmd = req[r].cmd + 1]
  <2>1. req' = [req EXCEPT ![r] = h] /\ UNCHANGED <<NodeStates, active, save>>
    BY <1>2, <1>7, InvParts DEF Requests
  <2>2. c + 1 \in 0 .. Len(Commands)
    BY <1>7, CommandsAssumption
  <2>3. h \in RequestState /\ h.pc = "stage" /\ h.cmd = c + 1 /\ h.vmid = v /\ h.key = k
    BY <1>1, <1>2, <2>2 DEF RequestState, PC, Running
  <2> HIDE DEF h
  <2>4. Requests' /\ req'[r] = h /\ \A s \in Request \ {r} : req'[s] = req[s]
    BY <2>1, <2>3, InvParts DEF Requests
  <2>5. RequestInv(r)'
    BY <2>3, <2>4 DEF RequestInv
  <2>6. RequestInvs'
    BY <2>4, <2>5, InvParts, Unmoved DEF RequestInvs
  <2>7. SaveTypes' /\ Disk' /\ SaveInv'
    BY <2>1, InvParts, SavesRest
  <2>8. \A s \in Request : Excludes(s)'
    BY <1>1, <1>2, <2>1, <2>3, <2>4, InvParts, ExcludesStays DEF BuildPC
  <2>9. \A s \in Request : OwnsState(s)'
    BY <1>1, <1>2, <2>1, <2>3, <2>4, InvParts DEF BuildInvs, OwnsState, BuildPC
  <2>10. ASSUME NEW s \in Request PROVE Progress(s)'
    <3>1. CASE s = r
      <4>1. Done(req'[r].cmd, "create") => Created(req[r].key, req[r].vmid)'
        BY <1>5, <2>3, <2>4 DEF Created, HasBeen
      <4>2. Done(req'[r].cmd, "convert") => Converted(req[r].key, req[r].vmid)'
        BY <1>5, <2>3, <2>4 DEF Converted, HasBeen
      <4> QED  BY <3>1, <4>1, <4>2 DEF Progress, Done
    <3>2. CASE s # r
      BY <1>3, <2>4, <3>2, InvParts, Unmoved, ProgressStays
    <3> QED  BY <3>1, <3>2
  <2>11. Registered' /\ LiveInv'
    <3>1. \A s \in Request : GoesOn(s)
      BY <1>2, <2>3, <2>4 DEF GoesOn, BuildPC
    <3> QED  BY <2>1, <3>1, InvParts, LiveStays DEF Registered
  <2>12. \A l \in Key, w \in VMID : Remembered(l, w)' => Remembered(l, w)
    BY <2>1 DEF Remembered, Shows, disk
  <2>13. TruthInv'
    BY <1>3, <2>12, InvParts, TruthStays
  <2>14. Counters'
    BY InvParts DEF Counters, bounds
  <2> QED  BY <1>3, <2>4, <2>6, <2>7, <2>8, <2>9, <2>10, <2>11, <2>13, <2>14, InvFromParts
<1> QED  BY <1>6, <1>7

LEMMA CommandFailsStep ==
  ASSUME IInv, NEW r \in Request, CommandFails(r)
  PROVE  IInv'
<1> USE DEF CommandFails
<1>1. req[r].pc = "command" /\ req[r].key \in Key /\ req[r].vmid \in VMID
  BY InvParts DEF RequestInvs, RequestInv, At, BuildPC
<1>2. PICK k \in Key, v \in VMID : k = req[r].key /\ v = req[r].vmid
  BY <1>1
<1>3. Cloud' /\ CloudGrows
  <2>1. CASE Effect(r)
    BY <1>2, <2>1, InvParts, EffectIs
  <2>2. CASE UNCHANGED vms
    BY <2>2, InvParts, CloudIsQuiet DEF Cloud, cloud
  <2> QED  BY <2>1, <2>2
<1> QED  BY <1>1, <1>2, <1>3, FinishedStep DEF BuildPC

-----------------------------------------------------------------------------
(* The cluster, and crashes                                                *)

LEMMA ChangeStep ==
  ASSUME IInv, Change
  PROVE  IInv'
<1> USE DEF Change
<1>1. Counters'
  BY InvParts, BoundsAssumption DEF Counters
<1>2. CloudGrows /\ Cloud'
  BY InvParts, CloudIsQuiet DEF Cloud, cloud
<1>3. SaveTypes' /\ Disk' /\ SaveInv'
  BY InvParts, SavesRest
<1>4. TruthInv'
  BY <1>2, InvParts, TruthStays DEF Remembered, Shows, disk
<1> QED  BY <1>1, <1>2, <1>3, <1>4, InvParts, RequestsRest, BuildsAreQuiet,
            InvFromParts DEF MoreUnattended

LEMMA DeleteVMStep ==
  ASSUME IInv, NEW v \in VMID, handleDeleteVM(v)
  PROVE  IInv'
<1> USE DEF handleDeleteVM
<1>1. Counters'
  BY InvParts, BoundsAssumption DEF Counters
<1>2. vms[v] \in [state : {"vm", "template"}, key : Key]
  BY InvParts DEF Cloud, VM
<1>3. Cloud'
  <2>1. <<vms[v].key, v, vms[v].state>> \in Key \X VMID \X {"vm", "template"}
    BY <1>2
  <2> QED  BY <2>1, InvParts DEF Cloud, VM
<1>4. \A u \in VMID \ {v} : vms'[u] = vms[u]
  BY InvParts DEF Cloud
<1>5. ASSUME NEW state, NEW l, NEW u \in VMID, HasBeen(state, l, u)
      PROVE  HasBeen(state, l, u)'
  <2>1. CASE u = v /\ vms[u] = [state |-> state, key |-> l]
    <3>1. vms[v].state = state /\ vms[v].key = l
      BY <2>1
    <3>2. <<l, u, state>> \in deleted'
      BY <2>1, <3>1
    <3> QED  BY <3>2 DEF HasBeen
  <2>2. CASE u # v \/ <<l, u, state>> \in deleted
    BY <1>4, <1>5, <2>2 DEF HasBeen
  <2> QED  BY <1>5, <2>1, <2>2 DEF HasBeen
<1>6. CloudGrows
  <2>1. \A l \in Key, u \in VMID : Created(l, u) => Created(l, u)'
    BY <1>5 DEF Created
  <2>2. ASSUME NEW l \in Key, NEW u \in VMID, Converted(l, u) PROVE Converted(l, u)'
    <3>1. PICK t \in Template : /\ HasBeen("template", <<t, l[2]>>, u)
                                /\ t # l[1] => <<l, u, "vm">> \in deleted
      BY <2>2 DEF Converted
    <3> QED  BY <1>5, <3>1 DEF Converted
  <2> QED  BY <2>1, <2>2 DEF CloudGrows
<1>7. SaveTypes' /\ Disk' /\ SaveInv'
  BY InvParts, SavesRest
<1>8. TruthInv'
  BY <1>6, InvParts, TruthStays DEF Remembered, Shows, disk
<1> QED  BY <1>1, <1>3, <1>6, <1>7, <1>8, InvParts, RequestsRest, BuildsAreQuiet,
            InvFromParts DEF MoreUnattended

LEMMA RestartStep ==
  ASSUME IInv, Restart
  PROVE  IInv'
<1> USE DEF Restart
<1>1. Counters'
  BY InvParts, BoundsAssumption DEF Counters
<1>2. CloudGrows /\ Cloud'
  BY InvParts, CloudIsQuiet DEF Cloud, cloud
<1>3. Registered'
  BY InvParts, LoadedIsARegistry DEF Registered
<1>4. Requests' /\ \A r \in Request : req'[r].pc = "idle"
  BY IdleIsARequest DEF Requests
<1>5. RequestInvs' /\ \A r \in Request : Excludes(r)' /\ OwnsState(r)' /\ Progress(r)'
  BY <1>4 DEF RequestInvs, RequestInv, Excludes, OwnsState, Progress, BuildPC, CommandPC
<1>6. /\ SaveTypes' /\ Disk'
      /\ \A r \in Request : save'[r].pc = "none" /\ save'[r].registry = Nothing
  BY NoSaveIsASave, InvParts DEF SaveTypes, Disk, disk
<1>7. SaveInv'
  BY <1>6, InvParts, SaveIsQuiet
<1>8. LiveInv'
  BY DEF LiveInv, Attended
<1>9. TruthInv'
  <2>1. \A k \in Key, v \in VMID : Shows(NodeStates', k, v) => Shows(file.registry, k, v)
    BY InvParts, LoadedIsARegistry
  <2>2. \A k \in Key, v \in VMID : Remembered(k, v)' => Remembered(k, v)
    BY <1>6, <2>1, NothingShows DEF Remembered, Shows, disk
  <2> QED  BY <1>2, <2>2, InvParts, TruthStays
<1> QED  BY <1>1, <1>2, <1>3, <1>4, <1>5, <1>6, <1>7, <1>8, <1>9, InvFromParts

-----------------------------------------------------------------------------
(* The theorems                                                            *)

\* What an earlier run has left are templates, and what it deleted was one.
LEMMA KnownTemplates ==
  ASSUME Init, NEW k \in Key, NEW v \in VMID, Shows(Loaded, k, v)
  PROVE  Converted(k, v)
<1>1. k[1] \in Template /\ <<k[1], k[2]>> = k
  BY DEF Key
<1>2. HasBeen("template", k, v)
  <2>1. CASE vms[v].key = k
    <3>1. vms[v] \in {NoVM} \cup [state : {"template"}, key : Key] /\ NoVM.key # k
      BY DEF Init, NoVM, Key
    <3>2. vms[v] = [state |-> "template", key |-> k]
      BY <2>1, <3>1
    <3> QED  BY <3>2 DEF HasBeen
  <2>2. CASE vms[v].key # k
    <3> DEFINE d == <<k, v, "template">>
    <3>1. d \in Key \X VMID \X {"template"} /\ d[1] = k /\ d[2] = v
      OBVIOUS
    <3>2. d \in deleted
      <4> HIDE DEF d
      <4> QED  BY <2>2, <3>1 DEF Init
    <3> QED  BY <3>2 DEF HasBeen
  <2> QED  BY <2>1, <2>2
<1> QED  BY <1>1, <1>2 DEF Converted

LEMMA InitIsFine == Init => IInv
<1> SUFFICES ASSUME Init PROVE IInv
  OBVIOUS
<1> USE DEF Init
<1>1. Counters
  BY BoundsAssumption, ListsAssumption DEF Counters
<1>2. Disk /\ file.kind \in {"none", "registry"}
  <2>1. CASE file = Holding("none")
    BY <2>1, EmptyFile DEF Disk
  <2>2. CASE file \in [kind : {"registry"}, registry : Known]
    BY <2>2, EmptyFile, KnownAssumption DEF Disk, Contents
  <2> QED  BY <2>1, <2>2
<1>3. Loaded \in Registry
  BY <1>2, LoadedIsARegistry
<1>4. Registered
  BY <1>3 DEF Registered
<1>5. Requests /\ \A r \in Request : req[r].pc = "idle"
  BY IdleIsARequest DEF Requests
<1>6. SaveTypes /\ \A r \in Request : save[r].pc = "none" /\ save[r].registry = Nothing
  BY NoSaveIsASave DEF SaveTypes
<1>7. Cloud
  <2>1. ASSUME NEW v \in VMID PROVE vms[v] \in VM
    BY DEF VM
  <2>2. deleted \subseteq Key \X VMID \X {"vm", "template"}
    <3>1. deleted \subseteq Key \X VMID \X {"template"}
      OBVIOUS
    <3> QED  BY <3>1
  <2> QED  BY <2>1, <2>2 DEF Cloud
<1>8. TypeOK
  BY <1>1, <1>2, <1>4, <1>5, <1>6, <1>7, TypeOKParts
<1>9. RequestInvs /\ BuildInvs
  BY <1>5 DEF RequestInvs, RequestInv, BuildInvs, Excludes, OwnsState, Progress, BuildPC,
     CommandPC
<1>10. LiveInv
  BY DEF LiveInv, Attended
<1>11. SaveInv
  BY <1>2, <1>6 DEF SaveInv, Saving
<1>12. TruthInv
  <2>1. ASSUME NEW k \in Key, NEW v \in VMID, Remembered(k, v) PROVE Shows(Loaded, k, v)
    <3>1. ~Shows(tmp.registry, k, v)
      BY EmptyFile, NothingShows
    <3>2. \A r \in Request : ~Shows(save[r].registry, k, v)
      BY <1>6, NothingShows
    <3>3. Shows(file.registry, k, v) => Shows(Loaded, k, v)
      <4>1. CASE file.kind = "registry"
        BY <4>1 DEF Loaded
      <4>2. CASE file.kind # "registry"
        BY <4>2, EmptyFile, NothingShows
      <4> QED  BY <4>1, <4>2
    <3> QED  BY <2>1, <3>1, <3>2, <3>3 DEF Remembered
  <2> QED  BY <2>1, KnownTemplates DEF TruthInv
<1> QED  BY <1>8, <1>9, <1>10, <1>11, <1>12 DEF IInv

LEMMA NextIsFine == IInv /\ [Next]_vars => IInv'
<1> SUFFICES ASSUME IInv, [Next]_vars PROVE IInv'
  OBVIOUS
<1>1. ASSUME NEW r \in Request, NEW k \in Key, StartAssign(r, k) PROVE IInv'
  BY <1>1, StartAssignStep
<1>2. ASSUME NEW r \in Request, handleAssignTemplateStorage(r) PROVE IInv'
  BY <1>2, AssignStep
<1>3. ASSUME NEW r \in Request, handleBuildTemplate(r) PROVE IInv'
  BY <1>3, ListVMsStep, CheckVMIDStep, ReserveStep DEF handleBuildTemplate
<1>4. ASSUME NEW r \in Request, runTemplateBuild(r) PROVE IInv'
  BY <1>4, BeginStep, UpdateStageStep, CommandSucceedsStep, CommandFailsStep
     DEF runTemplateBuild
<1>5. ASSUME NEW r \in Request, saveTemplateSoT(r) PROVE IInv'
  BY <1>5, CopyRegistryStep, OpenTmpStep, WriteTmpStep, RenameTmpStep, SaveFailsStep
     DEF saveTemplateSoT
<1>6. CASE handleTemplateState
  BY <1>6, TemplateStateStep
<1>7. CASE Change
  BY <1>7, ChangeStep
<1>8. ASSUME NEW v \in VMID, handleDeleteVM(v) PROVE IInv'
  BY <1>8, DeleteVMStep
<1>9. CASE Restart
  BY <1>9, RestartStep
<1>10. CASE UNCHANGED vars
  <2>1. UNCHANGED <<bounds, cluster, NodeStates, active, cloud, unattended>>
    BY <1>10 DEF vars, cloud
  <2>2. SaveTypes' /\ Disk' /\ SaveInv'
    BY <1>10, InvParts, SavesRest DEF vars, disk
  <2>3. UNCHANGED <<req, save, disk>>
    BY <1>10 DEF vars, disk
  <2>4. \A k \in Key, v \in VMID : Remembered(k, v)' => Remembered(k, v)
    BY <2>1, <2>3 DEF Remembered, Shows, disk
  <2> QED  BY <2>1, <2>2, <2>3, <2>4, InvParts, RequestsRest, SavingStep DEF MoreUnattended
<1> QED
  BY <1>1, <1>2, <1>3, <1>4, <1>5, <1>6, <1>7, <1>8, <1>9, <1>10 DEF Next

\* The inductive invariant holds in every state that the backend reaches.
THEOREM Invariance == Spec => []IInv
BY InitIsFine, NextIsFine, PTL DEF Spec

\* Every variable has its type: no step leaves a registry, a file or a build
\* in a shape that the next could not read.
THEOREM TypeCorrect == Spec => []TypeOK
<1>1. IInv => TypeOK
  BY DEF IInv
<1> QED  BY <1>1, Invariance, PTL

\* However requests, forgotten states, failed saves and restarts interleave,
\* activeTplBuilds keeps two builds of a template apart on a node: the check
\* and the mark are one critical section, and only the build itself clears it.
THEOREM BuildsExclude == Spec => []OneBuildPerKey
<1>1. ASSUME IInv, NEW k \in Key
      PROVE  /\ Cardinality(Builders(k)) <= 1
             /\ Builders(k) # {} => k \in active
  <2>1. \A r \in Builders(k) : r \in Request /\ req[r].pc \in BuildPC /\ req[r].key = k
    BY DEF Builders, Running, BuildPC
  <2>2. \A r \in Builders(k) : k \in active
    BY <1>1, <2>1, InvParts DEF BuildInvs, Excludes
  <2>3. \A r, s \in Builders(k) : r = s
    BY <1>1, <2>1, InvParts DEF BuildInvs, Excludes
  <2>4. Cardinality(Builders(k)) <= 1
    <3>1. CASE Builders(k) = {}
      BY <3>1, FS_EmptySet
    <3>2. CASE Builders(k) # {}
      <4>1. PICK r : Builders(k) = {r}
        BY <2>3, <3>2
      <4>2. Cardinality({r}) = 1
        BY FS_Singleton
      <4> QED  BY <4>1, <4>2
    <3> QED  BY <3>1, <3>2
  <2> QED  BY <2>2, <2>4
<1>2. IInv => OneBuildPerKey
  BY <1>1 DEF OneBuildPerKey
<1> QED  BY <1>2, Invariance, PTL

\* A status that shows a build in progress belongs to a build that runs, unless
\* a restart cut the build short or saving its first state failed: no other
\* path leaves such a status behind.
THEOREM BuildStatusIsNotStale == Spec => []BuildStatusIsLive
<1>1. \A k \in Key : Attended(k) => Builders(k) # {} \/ k \in unattended
  BY DEF Attended, Builders, BuildPC, Running
<1>2. IInv => BuildStatusIsLive
  BY <1>1 DEF IInv, LiveInv, BuildStatusIsLive
<1> QED  BY <1>2, Invariance, PTL

\* A state of the registry that says "Ready" and names a VMID names a VM that
\* was converted for it; or, if somebody deleted the VM that was being built
\* for it, one that was converted on its node for another template.
THEOREM ReadyIsTrue == Spec => []ReadyIsBuilt
<1>1. IInv => ReadyIsBuilt
  BY InvParts DEF ReadyIsBuilt, TruthInv, Remembered, Converted
<1> QED  BY <1>1, Invariance, PTL

\* The same of every copy of the registry: those that requests are saving, the
\* temporary file, and the source of truth that the next restart will load.
\* A failed, overtaken or interrupted save brings no untrue "Ready" back.
THEOREM CopiesAreTrue ==
  Spec => []\A k \in Key, v \in VMID :
               \/ Shows(tmp.registry, k, v) \/ Shows(file.registry, k, v)
               \/ \E r \in Request : Shows(save[r].registry, k, v)
               => Converted(k, v)
<1>1. IInv => \A k \in Key, v \in VMID :
                 \/ Shows(tmp.registry, k, v) \/ Shows(file.registry, k, v)
                 \/ \E r \in Request : Shows(save[r].registry, k, v)
                 => Converted(k, v)
  BY InvParts DEF TruthInv, Remembered
<1> QED  BY <1>1, Invariance, PTL

\* The temporary file and the rename make a save atomic, for a crash at any
\* point, as long as no two saves overlap.
THEOREM SavesAreAtomic == Spec => [](file.kind \in {"empty", "mixed"} => overlapped)
<1>1. IInv => (file.kind \in {"empty", "mixed"} => overlapped)
  BY InvParts DEF SaveInv
<1> QED  BY <1>1, Invariance, PTL
-----------------------------------------------------------------------------
(* What is saved                                                           *)

Copies == [s \in Request |-> Copied(s)]
Readable == file.kind \in {"none", "registry"}
FileRests == Loaded' = Loaded /\ Readable' = Readable /\ overlapped' = overlapped

\* The steps of the abstract file, in the words of the backend.
LEMMA FileStepsAre ==
  /\ Copies' = Copies /\ FileRests => SavedFile!Next
  /\ NodeStates' = Loaded /\ Copies' = [s \in Request |-> {}] /\ FileRests
     => SavedFile!Next
  /\ overlapped /\ UNCHANGED <<NodeStates, overlapped>> => SavedFile!Next
  /\ \A r \in Request :
        /\ UNCHANGED NodeStates /\ FileRests
        /\ \E copies \in {{}, {NodeStates}} : Copies' = [Copies EXCEPT ![r] = copies]
        => SavedFile!Next
  /\ \A r \in Request :
        /\ UNCHANGED <<NodeStates, overlapped>>
        /\ Loaded' \in Copies[r] /\ Readable' = TRUE /\ Copies' = [Copies EXCEPT ![r] = {}]
        => SavedFile!Next
  /\ \A r, s \in Request :
        /\ UNCHANGED NodeStates /\ Loaded' = Loaded /\ Readable' = Readable
        /\ r # s /\ Copies[r] # {} /\ Copies[s] # {} /\ overlapped' = TRUE
        => SavedFile!Next
BY DEF SavedFile!Next, SavedFile!Change, SavedFile!Copy, SavedFile!Install,
       SavedFile!GiveUp, SavedFile!Restart, SavedFile!Overlap, SavedFile!Garble,
       SavedFile!NoCopies, Copies, Readable, FileRests

LEMMA CopiedIs ==
  ASSUME NEW r
  PROVE  /\ save[r].pc \in {"open", "write"} => Copied(r) = {save[r].registry}
         /\ save[r].pc = "rename" => Copied(r) = {tmp.registry}
         /\ save[r].pc \in {"none", "copy"} => Copied(r) = {}
         /\ save'[r].pc \in {"open", "write"} => Copied(r)' = {save'[r].registry}
         /\ save'[r].pc = "rename" => Copied(r)' = {tmp'.registry}
         /\ save'[r].pc \in {"none", "copy"} => Copied(r)' = {}
BY DEF Copied

\* One saver's copy changes.
LEMMA CopiesChange ==
  ASSUME NEW r \in Request, \A s \in Request \ {r} : Copied(s)' = Copied(s)
  PROVE  /\ Copies' = [Copies EXCEPT ![r] = Copied(r)']
         /\ Copied(r)' = Copied(r) => Copies' = Copies
         /\ Copies[r] = Copied(r)
BY DEF Copies

LEMMA DiskRests ==
  ASSUME UNCHANGED <<file, overlapped>> PROVE FileRests
BY DEF FileRests, Loaded, Readable

\* A step that is not a save's: the registry may change, and a save may be due.
LEMMA NoSaveRuns ==
  ASSUME SaveTypes, UNCHANGED <<disk, overlapped>>,
         \/ UNCHANGED save
         \/ \E r \in Request : save[r].pc = "none" /\ save' = [save EXCEPT ![r].pc = "copy"]
  PROVE  SavedFile!Next
<1>1. FileRests /\ UNCHANGED tmp
  BY DiskRests DEF disk
<1>2. CASE UNCHANGED save
  <2>1. Copies' = Copies
    BY <1>1, <1>2 DEF Copies, Copied
  <2> QED  BY <1>1, <2>1, FileStepsAre
<1>3. ASSUME NEW r \in Request, save[r].pc = "none", save' = [save EXCEPT ![r].pc = "copy"]
      PROVE  SavedFile!Next
  <2>1. save'[r].pc = "copy" /\ \A s \in Request \ {r} : save'[s] = save[s]
    BY <1>3 DEF SaveTypes, SaveState
  <2>2. Copied(r)' = Copied(r)
    <3>1. Copied(r) = {}
      BY <1>3, CopiedIs
    <3>2. Copied(r)' = {}
      BY <2>1, CopiedIs
    <3> QED  BY <3>1, <3>2
  <2>3. \A s \in Request \ {r} : Copied(s)' = Copied(s)
    BY <1>1, <2>1 DEF Copied
  <2> QED  BY <1>1, <2>2, <2>3, CopiesChange, FileStepsAre
<1> QED  BY <1>2, <1>3

LEMMA CopyRegistrySaves ==
  ASSUME IInv, NEW r \in Request, CopyRegistry(r) PROVE SavedFile!Next
<1>1. /\ save' = [save EXCEPT ![r] = [pc |-> "open", registry |-> NodeStates, fd |-> ""]]
      /\ UNCHANGED <<NodeStates, tmp, file, overlapped>>
  BY DEF CopyRegistry, disk
<1>2. /\ save'[r].pc = "open" /\ save'[r].registry = NodeStates
      /\ \A s \in Request \ {r} : save'[s] = save[s]
  BY <1>1, InvParts DEF SaveTypes
<1>3. Copied(r)' = {NodeStates} /\ \A s \in Request \ {r} : Copied(s)' = Copied(s)
  BY <1>1, <1>2, CopiedIs DEF Copied
<1> QED  BY <1>1, <1>3, CopiesChange, DiskRests, FileStepsAre

\* Opening the file makes it another save's, or takes it from one.
LEMMA OpenTmpSaves ==
  ASSUME IInv, NEW r \in Request, OpenTmp(r) PROVE SavedFile!Next
<1>1. /\ save[r].pc = "open"
      /\ save' = [save EXCEPT ![r].pc = "write", ![r].fd = "tmp"]
      /\ overlapped' = (overlapped \/ Saving # {})
      /\ UNCHANGED <<NodeStates, file>>
  BY DEF OpenTmp
<1>2. overlapped \in BOOLEAN /\ save[r] \in SaveState
  BY InvParts DEF SaveTypes
<1>3. CASE overlapped
  BY <1>1, <1>2, <1>3, FileStepsAre
<1>4. CASE ~overlapped /\ Saving = {}
  <2>1. /\ save'[r].pc = "write" /\ save'[r].registry = save[r].registry
        /\ \A s \in Request \ {r} : save'[s] = save[s]
    BY <1>1, <1>2, InvParts DEF SaveTypes, SaveState
  <2>2. Copied(r)' = Copied(r)
    <3>1. Copied(r) = {save[r].registry}
      BY <1>1, CopiedIs
    <3>2. Copied(r)' = {save'[r].registry}
      BY <2>1, CopiedIs
    <3> QED  BY <2>1, <3>1, <3>2
  <2>3. \A s \in Request \ {r} : Copied(s)' = Copied(s)
    BY <1>4, <2>1 DEF Copied, Saving
  <2> QED  BY <1>1, <1>2, <1>4, <2>2, <2>3, CopiesChange, DiskRests, FileStepsAre
<1>5. CASE ~overlapped /\ Saving # {}
  <2>1. PICK s \in Request : save[s].pc \in {"write", "rename"}
    BY <1>5 DEF Saving
  <2>2. Copies[r] # {} /\ Copies[s] # {} /\ r # s
    BY <1>1, <2>1, CopiedIs DEF Copies
  <2>3. Loaded' = Loaded /\ Readable' = Readable
    BY <1>1 DEF Loaded, Readable
  <2> QED  BY <1>1, <1>5, <2>2, <2>3, FileStepsAre
<1> QED  BY <1>2, <1>3, <1>4, <1>5

LEMMA WriteTmpSaves ==
  ASSUME IInv, NEW r \in Request, WriteTmp(r) PROVE SavedFile!Next
<1>1. /\ save[r].pc = "write"
      /\ save' = [save EXCEPT ![r] = [NoSave EXCEPT !.pc = "rename"]]
      /\ save[r].fd = "tmp" => tmp' \in Overwritten(tmp, save[r].registry) /\ UNCHANGED file
      /\ UNCHANGED <<NodeStates, overlapped>>
  BY DEF WriteTmp
<1>2. CASE overlapped
  BY <1>1, <1>2, FileStepsAre
<1>3. CASE ~overlapped
  <2>1. save[r].fd = "tmp" /\ tmp = Holding("empty") /\ r \in Saving
    BY <1>1, <1>3, InvParts DEF SaveInv, Saving
  <2>2. tmp' = [kind |-> "registry", registry |-> save[r].registry] /\ UNCHANGED file
    BY <1>1, <2>1 DEF Overwritten
  <2>3. tmp'.registry = save[r].registry
    BY <2>2
  <2>4. save'[r].pc = "rename" /\ \A s \in Request \ {r} : save'[s] = save[s]
    BY <1>1, InvParts DEF SaveTypes, NoSave
  <2>5. Copied(r)' = Copied(r)
    <3>1. Copied(r) = {save[r].registry}
      BY <1>1, CopiedIs
    <3>2. Copied(r)' = {tmp'.registry}
      BY <2>4, CopiedIs
    <3> QED  BY <2>3, <3>1, <3>2
  <2>6. \A s \in Request \ {r} : s \notin Saving
    BY <1>3, <2>1, InvParts DEF SaveInv
  <2>7. \A s \in Request \ {r} : Copied(s)' = Copied(s)
    BY <2>4, <2>6 DEF Copied, Saving
  <2> QED  BY <1>1, <2>2, <2>5, <2>7, CopiesChange, DiskRests, FileStepsAre
<1> QED  BY <1>2, <1>3

LEMMA RenameTmpSaves ==
  ASSUME IInv, NEW r \in Request, RenameTmp(r) PROVE SavedFile!Next
<1>1. /\ save[r].pc = "rename" /\ file' = tmp
      /\ save' = [s \in Request |-> IF s = r THEN NoSave
                                    ELSE [save[s] EXCEPT !.fd = Renamed(@)]]
      /\ UNCHANGED <<NodeStates, overlapped>>
  BY DEF RenameTmp
<1>2. CASE overlapped
  BY <1>1, <1>2, FileStepsAre
<1>3. CASE ~overlapped
  <2>1. tmp.kind = "registry" /\ r \in Saving
    BY <1>1, <1>3, InvParts DEF SaveInv, Saving
  <2>2. Loaded' = tmp.registry /\ Readable' = TRUE
    BY <1>1, <2>1 DEF Loaded, Readable
  <2>3. Copied(r) = {tmp.registry} /\ Copied(r)' = {}
    <3>1. save'[r].pc = "none"
      BY <1>1, NoSaveIsASave
    <3> QED  BY <1>1, <3>1, CopiedIs
  <2>4. ASSUME NEW s \in Request \ {r} PROVE Copied(s)' = Copied(s)
    <3>1. s \notin Saving
      BY <1>3, <2>1, InvParts DEF SaveInv
    <3>2. save'[s] = [save[s] EXCEPT !.fd = Renamed(save[s].fd)] /\ save[s] \in SaveState
      BY <1>1, InvParts DEF SaveTypes
    <3>3. save'[s].pc = save[s].pc /\ save'[s].registry = save[s].registry
      BY <3>2 DEF SaveState
    <3> QED  BY <3>1, <3>3 DEF Copied, Saving
  <2> QED  BY <1>1, <2>2, <2>3, <2>4, CopiesChange, FileStepsAre
<1> QED  BY <1>2, <1>3

LEMMA SaveFailsSaves ==
  ASSUME IInv, NEW r \in Request, SaveFails(r) PROVE SavedFile!Next
<1>1. /\ save' = [save EXCEPT ![r] = NoSave]
      /\ UNCHANGED <<NodeStates, tmp, file, overlapped>>
  BY DEF SaveFails, disk
<1>2. save'[r].pc = "none" /\ \A s \in Request \ {r} : save'[s] = save[s]
  BY <1>1, NoSaveIsASave, InvParts DEF SaveTypes
<1>3. Copied(r)' = {} /\ \A s \in Request \ {r} : Copied(s)' = Copied(s)
  BY <1>1, <1>2, CopiedIs DEF Copied
<1> QED  BY <1>1, <1>3, CopiesChange, DiskRests, FileStepsAre

LEMMA RestartLoads == ASSUME Restart PROVE SavedFile!Next
<1>1. /\ NodeStates' = Loaded /\ save' = [r \in Request |-> NoSave]
      /\ UNCHANGED <<file, overlapped>>
  BY DEF Restart, disk
<1>2. Copies' = [s \in Request |-> {}]
  <2>1. \A s \in Request : save'[s].pc = "none"
    BY <1>1, NoSaveIsASave
  <2>2. \A s \in Request : Copied(s)' = {}
    BY <2>1, CopiedIs
  <2> QED  BY <2>2 DEF Copies
<1> QED  BY <1>1, <1>2, DiskRests, FileStepsAre

\* What a restart loads is at any time the copy of the registry that the last
\* save took, whole, whatever save fails or is cut short by a crash, until two
\* saves overlap: saveTemplateSoT refines TemplateFile.
THEOREM Refinement == Spec => ImplementsTemplateFile
<1>1. Init => SavedFile!Init
  <2>1. SUFFICES ASSUME Init PROVE SavedFile!Init
    OBVIOUS
  <2>2. /\ file \in {Holding("none")} \cup [kind : {"registry"}, registry : Known]
        /\ NodeStates = Loaded /\ overlapped = FALSE
        /\ \A r \in Request : save[r].pc = "none"
    BY <2>1, NoSaveIsASave DEF Init
  <2>3. Readable = TRUE
    BY <2>2, EmptyFile DEF Readable
  <2>4. Copies = [s \in Request |-> {}]
    <3>1. \A s \in Request : Copied(s) = {}
      BY <2>2, CopiedIs
    <3> QED  BY <3>1 DEF Copies
  <2> QED  BY <2>2, <2>3, <2>4 DEF SavedFile!Init, SavedFile!NoCopies, Copies, Readable
<1>2. IInv /\ [Next]_vars => [SavedFile!Next]_(SavedFile!vars)
  <2>1. SUFFICES ASSUME IInv, Next PROVE SavedFile!Next
    BY DEF vars, disk, SavedFile!vars, Copied, Loaded
  <2>2. SaveTypes
    BY <2>1, InvParts
  <2>3. ASSUME NEW r \in Request, saveTemplateSoT(r) PROVE SavedFile!Next
    BY <2>1, <2>3, CopyRegistrySaves, OpenTmpSaves, WriteTmpSaves, RenameTmpSaves,
       SaveFailsSaves DEF saveTemplateSoT
  <2>4. ASSUME NEW r \in Request, NEW k \in Key, StartAssign(r, k) PROVE SavedFile!Next
    BY <2>2, <2>4, NoSaveRuns DEF StartAssign, Start
  <2>5. ASSUME NEW r \in Request, handleAssignTemplateStorage(r) PROVE SavedFile!Next
    BY <2>2, <2>5, NoSaveRuns DEF handleAssignTemplateStorage, Saves, At
  <2>6. ASSUME NEW r \in Request, handleBuildTemplate(r) PROVE SavedFile!Next
    BY <2>2, <2>6, NoSaveRuns
       DEF handleBuildTemplate, ListVMs, Start, CheckVMID, Reserve, Saves, At
  <2>7. ASSUME NEW r \in Request, runTemplateBuild(r) PROVE SavedFile!Next
    BY <2>2, <2>7, NoSaveRuns
       DEF runTemplateBuild, Begin, updateStage, CommandSucceeds, CommandFails, Finished,
           Saves, At
  <2>8. CASE handleTemplateState \/ Change \/ \E v \in VMID : handleDeleteVM(v)
    BY <2>2, <2>8, NoSaveRuns DEF handleTemplateState, Change, handleDeleteVM
  <2>9. CASE Restart
    BY <2>9, RestartLoads
  <2> QED  BY <2>1, <2>3, <2>4, <2>5, <2>6, <2>7, <2>8, <2>9 DEF Next
<1> QED  BY <1>1, <1>2, Invariance, PTL DEF Spec, SavedFile!Spec, ImplementsTemplateFile
=============================================================================
