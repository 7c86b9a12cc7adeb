# Atlas Plane: TLA+ models, checks and proofs

Atlas Plane provisions virtual machines on a Proxmox cluster. One Go process
serves a web UI and an API (or provisions once from the command line), a Node.js
process bridges browser terminals to SSH, and both share a directory of
encrypted SSH keys. This directory holds TLA+ models of the parts where
concurrency, failure and persistence meet, the TLC configurations that check
them, and proofs checked by TLAPS.

`PROJECT.json` records, for every definition that models code, the lines it
stands for; for every property, a mutation of the model that breaks it; and every
known hazard of the code with the properties that guard it.

## 1. The system

| Component | Source | State | Operations |
|---|---|---|---|
| Job runner and event stream | `server.go` 36-80, 985-1079, 1996-2060 | `job.Events`, `job.Status`, `job.listeners`, `job.done`, one channel per client | `runJob`, its `emit` callback, `handleJobEvents`, `handleListJobs` |
| Provisioning pipeline | `main.go` 320-915, `server.go` 876-957 | none of its own between calls: VMs, tasks and snippets live in Proxmox, keys in the vault | allocate VMIDs, clone, wait, configure, key, snippet, cloud-init, boot, wait for IP |
| VM operations | `server.go` 490-634, `main.go` 635-697 | none | start, stop, restart, delete: resolve the node, then act on it |
| SSH key vault | `key_vault.go`, `server.go` 638-694 | maps `records` and `nameToVMID`, files `*.enc` and `index.json` | store, look up by VMID or filename, list, load at start |
| SSH bridge | `docker/ssh-bridge/server.mjs` | per socket: `sshClient`, `sshStream`, `closed` | connect, input, resize, disconnect; reads the vault's files directly |
| Template manager | `server.go` 959-983, 1081-1985 | `templates`, `activeTplBuilds`, `templateLogs`, a JSON file | assign storage, start and run a build over SSH, list, save, load |
| Authentication | `auth.go`, `server.go` 278-437 | users, sessions, login attempts per address, the user store | bootstrap, login, identify, logout, rate limit |
| VM list and connect information | `server.go` 440-580 | none | joins Proxmox's answers with the vault's |
| Preflight | `server.go` 713-874 | none | seven reads of Proxmox, a node, the template registry and files; a report |
| Configuration | `main.go` 86-189 | read once at start | environment and `.env` |
| Web UI | `web/index.html` | the deploy form, its last preflight report, the job it follows | edits the form, runs checks, launches, follows a job |
| Setup and migration scripts | `setup.*`, `scripts/` | none | one-shot copies |

### How the parts interact

* `handleProvision` allocates VMIDs from one snapshot of the cluster, creates a
  `Job` and starts `runJob`, which starts one `provisionVM` goroutine per VM. These
  emit events into the job; browsers follow them as server-sent events.
* `provisionVM` stores each VM's private key in the vault (`StorePrivateKey`).
  Downloads and the VM list read the vault under its mutex; the SSH bridge, another
  process, reads `index.json` and the key file with no lock at all.
* Start, stop, restart and delete requests act on VMs by number, with no relation
  to pipelines that may be at work on the same number.
* Templates give `handleProvision` the VMID to clone from.
* The page sends its form to `handlePreflight`, and after a report that is ready to
  `handleProvision`. The two merge, resolve and allocate in code of their own.
* A terminal window asks the bridge for a VM by number. The bridge asks the
  backend where that VM is (`handleVMSSHConnect`: vault, cluster, guest agent),
  reads the VM's key from the vault's files, and connects to the address.

### What is hard

* **Interleavings.** Goroutines of one job share its log, status and listeners;
  some reads skip the lock. Several writers and readers meet in the vault,
  one of them in another process. Two jobs can allocate the same VMIDs.
* **Check, then act.** VMIDs are allocated from a snapshot, VM nodes resolved
  before the call, key files opened after the unlock, template VMIDs checked before
  they are reserved, the bridge's guard tested before two awaits. A form is checked
  and then launched; an address is reported and then connected to.
* **Crashes and partial failures.** The vault removes the old key file before the
  new index is in place; a failed save leaves memory ahead of the disk; a failed
  pipeline takes nothing back; a template build cut short by a restart keeps its
  intermediate status.
* **Slow and vanishing clients.** Event channels overflow, replay writes to the
  network with the job's lock held, browsers disconnect at any point.

### What makes each component correct

* *Vault:* a lookup returns the key that was asked for or says it is gone; a name
  leads to a record of that name; a key whose store succeeded survives everything
  but a newer store for its own VM; storing one VM's key never costs another VM its
  own.
* *Job stream:* a client sees every event once and in each VM's order, unless its
  channel overflowed; a stream ends only when everything was said; the status is
  that of the log and final; jobs and streams end.
* *Provisioning:* a pipeline works on the VM it cloned and on no other; a VM
  reported ready is opened by the key that was handed out.
* *Templates:* one build per template and node; a status in progress belongs to a
  build that runs, unless a restart cut the build short or its request gave up
  because the first save failed, and then nothing ends the status; a template
  called ready is one that was built on its node, for this template unless the VM
  of its build was deleted on the way, though it too may have been deleted since; a
  crash leaves a file that loads.
* *Authentication:* no session outlives its last use by more than the TTL, and none
  that was logged out, lost or removed comes back; the password a bootstrap
  confirmed is the one that counts, also after a restart; a client is refused only
  for `MaxAttempts` attempts of its own, none of which was answered with a session.
* *Bridge:* one SSH session per socket, within reach of cleanup as long as it
  lives, ended with the socket; a page that waits gets an answer; a session is on
  a machine of the number its window is about.
* *Preflight and deploy form:* in a cluster at rest "ready" is said of every request
  that can be carried out, and otherwise only if nothing but the template is
  missing and a number for it is on record; launching such a request does what the
  report said, unless the two handlers read it differently; the page launches what
  it checked, and once. To each of these the code has exceptions, which the
  properties name: see Deploy in section 2.

## 2. Modules

| Module | Models | Role |
|---|---|---|
| `KeyStore` | - | abstract specification: per VM, the key a download returns now and after a crash |
| `KeyVault` | the key vault and its three kinds of users | detailed specification, implements `KeyStore` |
| `KeyVaultProofs` | - | theorems about `KeyVault` |
| `JobLog` | - | abstract specification: a log that is closed once, and followers who get each VM's events in order |
| `JobStream` | one job, its pipelines' events, the clients that follow it and the job list | detailed specification with fairness, implements `JobLog` |
| `Provisioning` | jobs, pipelines, Proxmox's VMs, operators and other tools | detailed specification |
| `TemplateFile` | - | abstract specification: what a restart loads of a registry that is saved whole or not at all |
| `Templates` | the template registry, its builds, its file, nodes that come and go, restarts | detailed specification, implements `TemplateFile` |
| `SshBridge` | the sockets, SSH clients and streams of the bridge | detailed specification |
| `Terminal` | `SshBridge` with the backend's answer, the vault's records and the machines | composition, with fairness |
| `Sessions` | - | abstract specification of a session store with sliding expiration |
| `Auth` | bootstrap, login limiter, sliding sessions and their cookies, the user store, restarts | detailed specification, implements `Sessions` |
| `Deploy` | the page's deploy form, `handlePreflight`, `handleProvision` up to the job | detailed specification |
| `JobStreamProofs`, `ProvisioningProofs`, `TemplatesProofs`, `SshBridgeProofs`, `TerminalProofs`, `AuthProofs`, `DeployProofs` | - | theorems about the module in their name; `TerminalProofs` builds on `SshBridgeProofs` |
| `MCKeyVault`, `MCProvisioning`, `MCTemplates`, `MCTerminal`, `MCAuth`, `MCDeploy` | - | symmetry sets and structured constants for TLC; the `.cfg` files give the other constants their values |

The components meet at narrow interfaces, so most are separate modules rather than
one product whose states multiply. `Provisioning` uses of the vault that the key
returned for a VMID is that of the last store, which is what `KeyVault` implements
of `KeyStore` (refinement `ImplementsKeyStore`). `JobStream` lets a pipeline emit the
sequences of steps that `Provisioning` goes through, and `Deploy` ends where both
begin, with the job. The bridge's lookup of a key is a reader of `KeyVault`; in
`SshBridge` it is an await that ends or fails, and in `Terminal` a read of the
record that the vault has by then. `Deploy` sees of `Templates` the VMID that the
registry has for a template and node. `Auth` shares no state with the others.

In the modules, definitions that end in `_Something` after the name of an action
(`Renamed_KeepsOldName`) are mutants: the action with a plausible bug. No
specification uses them.

### KeyVault

`StorePrivateKey` is four steps: `WriteCipherFile` (encrypt and write a new file
under a random name, before the lock), `Lock`, `Replace` (remove the old file,
update both maps) and `SaveIndex` or `SaveIndexFails` (write and rename the index,
unlock). Between the last two the old file is gone and the index still refers to
it, which is why they are two steps: a crash or the bridge can come between them.
The write of `index.json.tmp` is not a step of its own, since it happens under the
lock and nobody reads that file.

Lookups are two steps, the record under the mutex (`GetPrivateKeyByVMID`,
`GetPrivateKeyByFilename`) and the file after it (`decryptRecord`). The VM list
asks twice (`HasKeyForVM`, `KeyFileNameForVM`). The bridge reads the index
(`BridgeReadIndex`) and then the file.

A key is identified with the fresh name of its file, and AES-GCM is represented by
its additional data: a file sealed for one VMID and download name opens only with
these. `Crash` loses maps, calls and backend requests; `loadIndex` starts the
process again, choosing nondeterministically among records with one name because
the order of the file is that of a Go map iteration.

Two history variables state the properties: `acked`, the key whose store returned
no error and has not started to be replaced, and `lost`, the VMs for whom a crash
found memory and index different.

### JobStream

`Emit` is the critical section of the emit callback (append, copy the listeners),
`EmitSend` one non-blocking send, in any order of the listeners. `runJob` after
`wg.Wait` is `WaitAndLock`, `WriteStatusWord` (twice: a Go string is two words, and
`handleListJobs` reads it without `job.mu`), `LogComplete`, `CompleteSend`,
`CloseDone`. A client's request is `Open` (lock), `Replay` for each event with the
lock held, `Subscribe` (return if the job is done, else register), then `Receive`,
`ContextDone` and the deferred `Leave`.

The pipeline's steps are counted, not named: what matters is that each event of a
VM is different and that the last one is "ready" or "failed". The list's two reads of
the status words are the steps of `ReadStatusWord`; its answer follows the second
read at once, since it touches nothing that others do. `handleListJobs` holds `ws.mu`
until it has answered, and `Open` takes it for a moment: `Listing` are the requests
for the list that hold it, and nobody else can meanwhile.

`JobLog` is what remains without locks, channels and copies of the listener list:
`Log` and `Close` extend a log, `Deliver` gives a follower the first outstanding event
of some VM, `Refuse` withholds one for ever, only from a follower with more than `Cap`
events outstanding, and `End` ends a stream that delivered `job_complete` or whose
client left. `JobStream` implements it: the log is `Events`, what a follower got is what
was written to its connection, what it was refused is what `Offer` dropped, and the
verdict (`Verdict`) is "running" until `job_complete` is in the log and then the status
that is about to be, or was, published.

### Provisioning

A pipeline is its step and its VMID; its actions are named after the Go functions
they call. Every call can fail without effect (`Fail`) or have its effect and still
end the pipeline (`Go` with "failed": a lost answer or a failure of the next line).
The VM has an owner, the pipeline that cloned it, so that "its own VM" can be said,
and the key it lets in, which is that of the snippet it was last booted with.
Proxmox itself is external: it reserves the number of an accepted clone, refuses a
second one, locks a VM while it is cloned, runs start requests as tasks that nobody
waits for, and deletes only stopped VMs.

Operators resolve a VM (`resolveVMNode`) and act on its number later
(`actOnNode`). The history variable `meddled` collects the numbers on which such a
request had an effect while a pipeline was at work there. For those numbers the
code promises nothing: an overtaken delete removes the pipeline's VM, and the
pipeline continues with whatever VM has the number next. The properties are stated
for the other numbers.

### Templates

A registry entry is a template's state on one node. "Building" stands for the four
statuses of a build in progress (Downloading, Importing, Provisioning, Converting).
A handler reads the cluster's nodes or VMs (`StartAssign`, `ListVMs`) and works with
what it read later, under the lock: `handleAssignTemplateStorage`, or `CheckVMID`
and `Reserve`, which is where a build becomes active. `ensureTemplate` drops the
states of nodes that were not in the list, those of running builds included.
`runTemplateBuild` is `Begin`, then for each command `updateStage` and the command,
which succeeds, fails, or works and is reported as failed; its `finish` is
`Finished`. `Commands` says what each command does to the VM; the code's sequence
is download, create, import, five times `qm set`, convert. `handleDeleteVM` takes a
VM away at any moment, one that is being built included: the rest of that build
fails at its conversion, which needs a VM on its node, unless another build has
taken the number by then. The registry is not told, so a finished template that is
deleted is still shown as "Ready".

A save is `CopyRegistry` under the lock, then `OpenTmp`, `WriteTmp` and `RenameTmp`
without it, or `SaveFails`. All saves use one temporary name, so a descriptor may
end up pointing at the source of truth, and a longer text under a shorter one
leaves a "mixed" file. `Restart` loads the file, or nothing if it does not parse.

`TemplateFile` is the promise of the temporary file and the rename, without either: a
saver has a copy of the registry (`Copy`), which replaces what a restart loads as a
whole (`Install`) or is given up (`GiveUp`), whatever fails in between. `Templates`
implements it: what a restart loads is `Loaded`, and a saver's copy (`Copied`) is its own
until it is written, and then what the temporary file holds.

Three history variables: `deleted` names the VMs that were deleted, unfinished or
finished, with the template and node they were built for, `unattended` holds the
keys that a restart found in the middle of a build and those whose build was given
up because its first save failed, until a build of the key begins anew, and
`overlapped` says that two saves were between open
and rename at once. Overlapping saves really can leave an empty or mixed file;
`TemplateFile` promises nothing of the file after them (`Garble`), and the hazard is
recorded in `PROJECT.json`.

`BuildStatusIsLive` says that only `unattended` keys show a build in progress that no
request works on. The code does leave those as they are: the save at server.go:1341
fails after the status was set to "Downloading" and the key marked active, and the
handler returns without taking either back; `templates_stuck` shows what that does to
later requests.

`ReadyIsBuilt` has an exception that the proof found. A VMID is checked and reserved
in different critical sections, so two builds on a node can hold one number. If
the VM of the first is deleted while it is built, and the second creates its own
under the number, the first build's conversion turns the second's VM into a
template and reports its own key as ready. So a state that says ready names a
template of its node, and that template was built for the state's key or the VM of
the key's own build was deleted. `Init` allows for an earlier run in which this, or
the reuse of a deleted template's number, has happened, and whose templates are
still there or deleted.

### SshBridge

The handlers of `server.mjs` run to completion, so each is one action; the handler
of `ssh:connect` is cut at its two awaits into `Connect`, `Fetched` and `Loaded`
(`Fails`, `BadKey` when a step throws). `sshClient`, `sshStream` and `closed` belong
to the socket and are shared by its attempts and by the callbacks of ssh2 (`Ready`,
`ShellOpened`, `ShellFails`, `StreamCloses`, `ClientError`, `ClientClosed`).
`cleanup` is written once and used wherever the code calls it, with its return. `fault` records what ends the process: an exception in a callback, or an
error event that no listener is left for.

Three histories say what the code cannot keep hold of. `orphans` are the clients
that were created after cleanup had run, by a handler that was inside an await or by
a retry on the same socket: `closed` stays true, and nothing but their own
callbacks ends them. `replaced` are the clients whose place in `sshClient` another
attempt took, and `raced` the attempts that were awaiting together. Properties
except exactly these, so that a retry, a refused second attempt and a teardown at
any step are covered, and so is what a race does to the process. The page makes no
second attempt of its own: it turns reconnection off (index.html:4582) and connects
once per socket (index.html:4696).

### Terminal

`Terminal` extends `SshBridge` with what its awaits wait for.
`handleVMSSHConnect` is four reads, each of what is there by then: the vault
(`HasKeyForVM`), the cluster twice (`resolveVMNode`, `listVMs`) and the guest agent
(`extractIPv4`). `KeyRead` takes the record that `loadPrivateKeyForVM` finds when the
bridge reads the index. `Admitted` is the `ready` event of the SSH client: the machine
that has the address by then lets in the key its VM was booted with. A machine is
a number and a count of the clones made with it, so that a number which is deleted
and cloned again is another machine, and a key is the machine it was made for.
There is one address: an answer that is stale is one whose address has moved on.
Deleting a VM leaves its record in the vault, as in the code.

### Auth

Each operation reads the clock before it waits for its mutex, so an action that
reads it is separate from the one that uses it (`withRole` and
`IdentityFromRequest`, `handleAuthLogin` and `allow`, `verifyUserSecret` and
`Login`). `BootstrapAdmin` holds the mutex through `saveAuthUsersToStore` and
`secureStorePathPermissions`; the latter can fail after the store is in place. The
comparison of passwords runs outside the mutex. A request is served once, and a
session is named by the request that created it, since tokens are 32 random bytes.
`cookie` is until when the browser keeps a token: it is set at login and bootstrap
(`SetSessionCookie`) and cleared at logout, and at no other time. A token may also
come in a header, so requests use any token that was issued.

`Sessions` says what this amounts to without locks and handlers: a session lasts
until TTL after a reading of the clock at which it was used and had not ended, unless
it is logged out or the backend restarts, and once removed it does not come back. The
reading may be older than the use. `IdentityFromRequest` reads the clock before it
gets the lock (auth.go:435), so a session that is over but not yet removed can be
extended by a request that came in time, and `Use` allows this and nothing more: a
session that the reading finds expired is not extended. `Auth` implements `Sessions`
under the identity mapping of `sessions`.

README.md:146 calls the limit one of failed login attempts. `allow` counts an attempt
before its password is compared, and only an answered login resets the count, so
valid logins under way at the same time count as well. `RefusalIsJust` therefore
speaks of attempts that have not been answered with a session, and that were made since
the client was last given one.

History: `confirmed`, the password of a bootstrap that returned success; `issued`,
all tokens so far; `lastUse`, the latest accepted time per token; `passes`, the
attempts an address was let through with since its bucket was last reset.

### Deploy

A request is served in steps, one per question its handler asks: `Resolve` (the
template), `ListNodes`, `ListNodeStorages`, `TestSnippetDir`, `ReadCAKey`, and
`CheckVMIDs` or `Provision`. Each reads the cluster as it is by then, and `Change`
may come between any two. A preflight goes on after a check that failed, except
that a node which is not online is not asked about its storage, and a count below
one leaves out the VMIDs; `ready` is the handler's variable. `preflightConfig` and
`provisionConfig` are the two mergings of a request with the configuration, which are
not the same: the preflight trims the node and takes one of white space as missing
(server.go:729), the provision uses it as it is (909). Nor do they read the same
bodies: `decodes` says whether `handleProvision` can read one, which an empty body and
a number of cores that is no integer prevent; `handlePreflight` does not mind them.
Of the template both ask whether there is a number for it (`templateVMIDForNode`);
`built` in the state of the cluster says which templates really are there. A negative `VM_COUNT` reaches `make` and aborts the handler.
`TEMPLATE_VMID` is not checked either, so a report may name any positive number as
its template. `none`, the page's absent result, is assumed to differ from all results.

The page has its form, its last report, whether it waits for one, and whether its
launch button is enabled. `Edit` stands for every control that calls
`invalidatePreflight`, `TakeReport` for the end of `runPreflightCheck`, with the
launch that follows when `Submit` asked for the report. Answers may be lost
(`NoReport`, `NoJob`), and the handler goes on. `CallAPI` are requests of other
clients, with any fields missing.

Histories: `quiet` (no change of the cluster since the request came), `report` (what
a preflight found ready in the cluster as it still is), `late` and `renewed`. What the
code does not promise is said by the properties:

* `ReportIsTrue`: "ready" means that a request can be carried out, or that it lacks the
  template alone, though a number for it is on record (`OnlyNumbered`): it failed, is
  still being built, or was deleted. README.md:325 of the repository says that the
  template is validated.
* `PreflightPredicts`: a provision does what the report said if and only if its node
  has no white space and its body can be decoded.
* `LaunchWasChecked`: each launch has a report that says ready, and it is about the form
  launched unless `late`: it arrived after an edit, or a configuration was loaded under
  it.
* `LaunchIsSingle`: one launch is out at most, unless `renewed`: a report or the
  configuration arrived while one was out, and enabled the button or started the next.
  Two presses without a ready report, each with a preflight of its own, are such a case.

## 3. Runs

All runs take less than three minutes with two workers. Bounds are constants of the
modules: `MaxCrashes` (restarts), `MaxOperations` (operator requests), `MaxChanges`
(nodes joining and leaving, or the cluster), `MaxServed` (requests), `MaxConnects`
(connect events), `MaxClones` (clones with one number), `LastVMID` (999999999 in the
code), `MaxTime` (the clock), `Steps` (events of a pipeline before its last), `Cap` (size
of an event channel, 100 in the code), and the sizes of the sets in the `.cfg`.

| Run | Checks | Instance and why it is enough |
|---|---|---|
| `key_vault_safety` | `TypeOK`, `NameMapSound`, `ReadsRightKey`, `FileGoneOnlyIfReplaced`, `AcknowledgedKeyIsDurable`, `ImplementsKeyStore` | 2 VMs, 2 names, 3 files, 2 writers, a backend reader, a bridge reader, 2 crashes: two stores overlap, a VM is stored twice, a name moves between VMs, both readers come between any two steps, the second crash follows a reload |
| `job_stream` | `TypeOK`, `NothingMissed`, `StreamOrdered`, `EndedStreamIsWhole`, `CompletedJobIsFinal`, `StatusMatchesLog`, `ImplementsJobLog`, `JobEnds`, `RegisteredStreamEnds` | 2 VMs of 2 events, 1 client, a job list, capacity 1: the channel overflows, sends of two VMs overtake each other, one VM fails while the other succeeds, the list reads a status that is being written |
| `provisioning` | `TypeOK`, `WorksOnOwnVM`, `ReadyVMHasItsKey`, `LeavesOtherVMsAlone` | a job of 2 VMs and one of 1, 2 VMIDs, an operator with 2 requests: both jobs allocate the same number, other tools take one, a VM is stopped and deleted and its number provisioned again |
| `templates` | `TypeOK`, `OneBuildPerKey`, `BuildStatusIsLive`, `ReadyIsBuilt`, `ImplementsTemplateFile` | 2 templates on 1 node, 1 VMID, 2 requests, 2 commands, the node leaves or a VM is deleted, a restart; no template at the start, or both with one number, still there or deleted: two builds want one key or one VMID, a build converts the VM of another, their saves overlap, a build's state vanishes under it, a restart loads any of the files that this leaves |
| `ssh_bridge` (`MCTerminal`) | `TerminalTypeOK`, `LiveSessionIsHeld`, `TeardownEndsClient`, `FaultIsExplained`, `SessionIsOnTheVM`, `Answered` | 1 socket (sockets share nothing but the process), 2 connect events, every callback and disconnect in any order; 2 numbers, the window's cloned twice: its VM is stopped, deleted and cloned again, and the address passes to the other VM, between any two reads |
| `auth` | `TypeOK`, `ConfirmedPasswordStays`, `ImplementsSessions`, `IdleSessionsEnd`, `RefusalIsJust` | 3 requests, 2 addresses, 2 passwords, session and window of 2 units, 2 attempts, clock up to 3, a restart: two bootstraps race, a login, a use and a logout of one session meet, a third attempt is refused for two that are under way, both boundaries are reached and passed |
| `deploy` | `TypeOK`, `ReportIsTrue`, `PreflightPredicts`, `LaunchIsSingle`, `LaunchWasChecked` | 2 requests at a time, 2 nodes, 1 template, 5 VMIDs of which some are used, a form of 2 VMs from two starts (its own and the configuration's), requests with no field, with a node of white space, or with a body that only the preflight reads; a negative `VM_COUNT` and a `TEMPLATE_VMID` that is no template; the cluster is well or lacks its API, the CA key, a node, a storage, a directory, a template's number or free VMIDs, for the node asked for or for the default one; 1 change |

Five runs are expected to violate a property that a comment or a document of the
repository states:

| Run | Property | What happens |
|---|---|---|
| `job_stream_late_client` | `StreamEndsWithJob` | a client that opens the stream between `job_complete` and `close(done)` is never released; server.go:1065 |
| `job_stream_slow_client` | `JobEnds` | a client that stops reading during the replay holds `job.mu` and stops every pipeline; server.go:2008 and 2016 promise the opposite for sends |
| `templates_stuck` | `RefusalIsTrue` | a save that fails after the key was marked active leaves it so; every later request is told that a build is already running (server.go:1324) |
| `ssh_bridge_teardown` | `WindowClosedTearsDown` | a socket that goes away during an await is cleaned up first and gets its SSH client afterwards; README-docker.md:60 says that closing the window tears the session down at once |
| `auth_cookie` | `LiveSessionHasCookie` | uses extend a session, and no handler extends the cookie: the browser loses it TTL after the login; README.md:145 and auth.go:446 call the expiration sliding |

Deadlock checking is on for the vault and for the templates, and off where the
modelled process really stops: jobs and their clients come to an end, pipelines
finish, a socket is gone, requests are served once.

### Fairness

`JobStream` and `Terminal` make liveness claims. In `JobStream`, `FairSpec` assumes
weak fairness of each goroutine: pipelines, `runJob`, a handler's reaction to a
disconnected client and its cleanup. This is what the Go scheduler and `sync.Mutex`
give: a goroutine that can run does, and a waiting locker gets the mutex (Go's
starvation mode). Each client opens the stream once, so a mutex is taken finitely
often by others while one waits and weak fairness suffices. Steps that write to the
network are fair only for clients that read or have disconnected (`Slow` are the
others): the server sets no write timeout. The assumption that each pipeline takes
its next step stands for Proxmox answering: `waitForTask` polls without a limit.

In `Terminal`, `TerminalSpec` assumes that `fetch` and the file reads come to an end,
that a connection becomes ready or fails (`readyTimeout`, 20 s), and that a server
answers a request for a shell or the connection dies. Nothing is assumed of the
user, of the machines, or of a shell that is open.

## 4. Proofs

Every invariant and every action property that a passing run checks is also a
theorem, for all sets of VMs, clients, requests and so on and for every value of the
bounds; so are the four refinements (`KeyStore`, `JobLog`, `TemplateFile`, `Sessions`). Each module of proofs states its inductive
invariant as `IInv` (`TerminalIInv` for the composition), shows action by action
that it is preserved, and concludes

    THEOREM Invariance == Spec => []IInv

from which the theorems below follow.

| Module | Theorem | States |
|---|---|---|
| `KeyVaultProofs` | `TypeCorrect` | `TypeOK`, which includes mutual exclusion of `v.mu` |
| | `NamesAreSound` | `NameMapSound` |
| | `LookupsAreRight` | `ReadsRightKey` |
| | `OnlyReplacedFilesGo` | `FileGoneOnlyIfReplaced` |
| | `AcknowledgedKeysLast` | `AcknowledgedKeyIsDurable` |
| | `Refinement` | `ImplementsKeyStore` |
| `JobStreamProofs` | `TypeCorrect` | `TypeOK` |
| | `NothingIsMissed` | `NothingMissed` |
| | `StreamsAreOrdered` | `StreamOrdered` |
| | `EndedStreamsAreWhole` | `EndedStreamIsWhole` |
| | `StatusFollowsLog` | `StatusMatchesLog` |
| | `CompletionIsFinal` | `CompletedJobIsFinal` (action property) |
| | `Refinement` | `ImplementsJobLog` |
| `ProvisioningProofs` | `TypeCorrect` | `TypeOK`, which includes what `allocateVMIDs` returns |
| | `PipelinesKeepApart` | `WorksOnOwnVM` |
| | `ReadyKeyOpensVM` | `ReadyVMHasItsKey` |
| | `OthersAreLeftAlone` | `LeavesOtherVMsAlone` (action property) |
| `TemplatesProofs` | `TypeCorrect` | `TypeOK` |
| | `BuildsExclude` | `OneBuildPerKey` |
| | `BuildStatusIsNotStale` | `BuildStatusIsLive` |
| | `ReadyIsTrue` | `ReadyIsBuilt` |
| | `CopiesAreTrue` | the same of every copy of the registry: those being saved and both files |
| | `SavesAreAtomic` | the file is never empty or mixed unless saves overlapped |
| | `Refinement` | `ImplementsTemplateFile` |
| `SshBridgeProofs` | `TypeCorrect` | `SshBridge`'s `TypeOK` |
| | `SessionsAreHeld` | `LiveSessionIsHeld` |
| | `TeardownIsSound` | `TeardownEndsClient` |
| | `FaultsAreExplained` | `FaultIsExplained` |
| `TerminalProofs` | `TerminalTypeCorrect` | `TerminalTypeOK` |
| | `SessionsAreOnTheirVM` | `SessionIsOnTheVM` |
| | `TerminalIsABridge` | `TerminalSpec => Spec` of `SshBridge` |
| | `TerminalSessions` | the three properties of the bridge, of the composition |
| `AuthProofs` | `TypeCorrect` | `TypeOK` |
| | `ConfirmedPassword` | `ConfirmedPasswordStays` |
| | `SlidingExpiration` | `IdleSessionsEnd` (action property) |
| | `JustRefusals` | `RefusalIsJust` (action property) |
| | `Refinement` | `ImplementsSessions` |
| `DeployProofs` | `TypeCorrect` | `TypeOK` |
| | `ReportsAreTrue` | `ReportIsTrue` |
| | `PreflightsPredict` | `PreflightPredicts` |
| | `LaunchesAreSingle` | `LaunchIsSingle` |
| | `LaunchesWereChecked` | `LaunchWasChecked` (action property) |

### Arguments

*KeyVault.* None of the properties is inductive alone. `RecordInv`: every record in
memory, in the index or in a reader's hands is well sealed, that is, its file was
sealed for its VMID and name, and is stored under its own VMID; a stale record can
then only miss its file, not open a wrong one. `CallInv`: between writing its file
and `Replace`, a writer's file is on disk and no map, index, reader or other writer
refers to it, so a concurrent store cannot remove it; this needs file names to be
fresh, as 128 random bits are. `RequestInv` and `DownInv`: what a lookup has seen
stays true until it is used, and a stopped backend has nothing in memory. The
refinement maps a VM's current key to its record's file if that is on disk, and its
durable key likewise from the index: `Replace` is `Put`, `SaveIndex` is `Commit`,
`Crash` is `Crash`, everything else a stutter.

*JobStream.* `PlacesInv` says of each client where every event of the log is: in its
stream (written, or waiting in its channel), in flight (a sender has copied the
listeners and not offered it yet), or dropped. These never overlap, and for a
registered client they cover the log. Order needs more than that, because sends of
different VMs overtake each other: `Ordered` asks for order per VM, and it survives
`EmitSend` because a VM's next event is not emitted before the last one was
offered, so that what is in flight is later than what the client has. That nothing
follows `job_complete` comes from `PipeInv` (the runner goes on only after the last
pipeline has ended, its sends included). `RunnerInv` follows the two words of the
status, `HandlerInv` a client's handler from the replay to its return. The lemmas
are about `Append`, `\o` and removing the head of a sequence.

The refinement rests on all of these. `Replay` and `Receive` are `Deliver`: what a
client has yet to get of a VM is a sequence in order, so its head is the first one
outstanding (`FirstOfOrdered`). An `EmitSend` that finds a channel full is `Refuse`: the
channel holds `Cap` different events that were not delivered, the one offered is
another, and counting them (`OrderedIsCounted`) gives more than `Cap`. `LogComplete` is
`Close`: by then every pipeline has logged its last event and the status says whether
one failed. A handler's return (in `Subscribe`, if the job is done, or in `Leave`) is
`End`, `Disconnect` is the abstract `Leave`, the rest stutters.

*Provisioning.* The heart is that a VM has an owner, and `VMInv`: its number is that of
the owner's pipeline, so two pipelines that raced for a number have one VM between
them, and Proxmox's refusal of the second clone decides whose. `TaskInv` relates a
pipeline to its clone task, `Progress` says how far a pipeline has brought its VM:
from the step that stored its key on, vault, snippet and configuration hold it, as
long as nobody meddled with the number. `Allocation` is a theorem about
`allocateVMIDs`: it returns numbers that are free and different, one for each VM,
found by rank (`LeastNumber`, `RankedNumber`), since sets of numbers have a least
element and counting from it reaches each rank.

*Templates.* `Excludes`: a build's key is active and no other build has it, which
survives the loss of its state because `active` is a map of its own. `LiveInv`: a key
that shows a build in progress is `Attended`, it has a build or is `unattended`; it is
kept because a build that ends finishes its status, and one that does not is among the
`unattended` (`GoesOn`). `Progress` says
what a build's finished commands have done, whatever became of the VM since, and
`TruthInv` that every copy of the registry (in memory, in a save, in either file)
shows only converted VMs as ready: a restart can load an old one, which is why the
theorem about the registry needs the one about its copies (`CopiesAreTrue`). `SaveInv`: a save
that is alone in the temporary file leaves a whole registry. In the refinement
`RenameTmp` is `Install`, `CopyRegistry` is `Copy` (the save has its registry from there
on), a failure is `GiveUp`. While no saves overlap, a saver that has written finds its
own copy in the temporary file, so that what others do leaves each saver's copy alone
(`CopiesChange`); the opening that makes two saves overlap is `Overlap`, and from then
on the file may be anything (`Garble`).

*SshBridge and Terminal.* `HeldInv`: a client whose listeners are attached is in
`sshClient` or was replaced there, one without listeners was ended, and after
cleanup only orphans and replaced clients remain. `TerminalIsABridge` shows that each
step of the composition is a step of the bridge or a stutter, so the bridge's
theorems carry over; `KeyInv`, that a loaded key is one of the window's number, does
the rest: a stale address leads to a machine that refuses the key, or to one of the
right number.

*Auth.* `PasswordInv`: while a bootstrap holds the mutex there is no password in
memory, and the one that it has saved is on disk; that keeps the confirmed password
in memory and on disk equal. `SessionInv`: a session ends within TTL of its last use.
`LimiterInv`: the attempts that a bucket counts are attempts that were let through
since its window began, each for a request of its own, and `AttemptInv` that none of
these was answered with a session (one whose answer is under way is about to reset the
count); this is what makes a refusal just although times
are read before the mutex. The refinement is under the identity
mapping of `sessions`.

*Deploy.* `PreflightInv` says, for each question a preflight is at, what its answers so
far amount to, in a cluster at rest, and `ProvisionInv` why a provision stopped.
They are stated of a request merged as each handler does it (`nodeOf` and `templateOf`
for the preflight, `nodeFor` and `templateFor` for the provision), and `MergedIs` shows
that these are what the handlers merge; they differ only where the node has white
space. `ReportInv` says that a report which is kept is still true. `Prepared` asks
for a set of free VMIDs of the right size, the code compares a count: `PreparedIs` and
`FeasibleIs` prove these equivalent, from `SubsetOfSize`. `PageInv`: the page's result
is about its form unless `late`, and at most one launch is out and the button waits for
it unless `renewed`; one lemma per step shows `[Checked]_vars`, the action property,
along with the invariant.

### Assumptions

They are named where the constants are declared, and TLC evaluates them on every
run. Those that say something about the program:

* `KeyVault`: VMIDs are positive (checked by `StorePrivateKey`), names are not empty
  (`sanitizeKeyName` never returns ""), the backend's and the bridge's readers differ.
* `JobStream`: a pipeline has a first event and a channel room for one; VMs, clients
  and the fixed words are different.
* `Provisioning`: `VMIDAssumption`, there are finitely many VMIDs (Proxmox has
  999999999) and 0 is none. A request is for at least one VM.
* `Templates`: `CommandsAssumption`, the commands of a build contain a conversion, and
  each has a creation before it, as the code's eight do. `ListsAssumption`, Proxmox
  lists nodes that exist.
* `Terminal`: each window is for one VM, each number can be cloned at least once.
* `Auth`: durations and limits are positive; `None` is no password and no request.
* `Deploy`: forms come from the page's controls (`FormAssumption`: 1 to 20 VMs, a
  template, a node without white space and a start; not that the body decodes, since
  cores may be 1.5), other clients' requests have the fields of `ProvisionParams`; no
  node is called "" or " ", which stand for a missing one and one with white space
  (`NamesAssumption`); of the configuration only `VM_START_ID` and the node are taken to
  be what they should.

### What the proofs changed

Two properties that TLC had found to hold on its instances were false in general,
and one type was too narrow:

* `ReadyIsBuilt` said that a template called ready was built for its key. The run
  then had one template on two nodes, and a counterexample needs two templates of one
  node: see Templates above. The property and the run were corrected.
* `Deploy`'s `TypeOK` said that a report names a VMID of the cluster as its template.
  The default `TEMPLATE_VMID` is not checked, so it may name any positive number.
* `SshBridge`'s `TypeOK` did not say which sockets `sshClient` and `sshStream` are
  defined on, which the proofs need.

### What is left to TLC

Liveness (`JobEnds` and `RegisteredStreamEnds` of `JobStream`, `Answered` of `Terminal`):
the prover does not handle fairness and `ENABLED`. The runs that are expected to find
a violation have nothing to prove.

## 5. Not modelled

* Configuration: read once at start, from the environment and `.env`.
* The web UI but for its deploy form: it shows what the API returns. The scripts:
  one-shot copies that run while the services are stopped.
* The command line (`main` without serve mode): the pipelines of one job with its
  results printed, no other client, no events.
* Unique key filenames: main.go:448 calls a VM's key filename unique, and nothing
  makes it so. In `KeyVault` two VMs stored under one name share it, the later one is
  served under that name, and `NameMapSound` says what remains true.
* Template node logs (`templateLogs`): appended to and shown, read by nothing else.
* Users beyond the one that bootstrap creates, and roles: `hasRequiredRole` compares
  two ranks and changes nothing.
* What the bridge promises two attempts that race on one socket, beyond what ends
  the process: see `raced` and `replaced` above.
* Retrying a launch whose answer was lost: the page cannot tell that the job runs,
  and deploys a second one.
* That the backend's answer names another VM's node after a migration: the agent's
  request then fails, which is one of the failures.
* Input and resize of the bridge: they pass data to the open stream.
* Cryptography, JSON, HTTP, Go's memory model beyond the one data race that
  `JobStream` contains, and Proxmox beyond what the code relies on.
* Torn writes of key files: a crash during `os.WriteFile` leaves a file that nothing
  refers to, the same as an unused one.

## 6. Plan

Done: the vault with its abstract key store, the job stream with its abstract log,
provisioning, templates with their abstract file, the bridge with its connect
information, authentication with its abstract session store, and the path from the
deploy form to a job, as models with their runs; and proofs of every safety property
and every refinement that the passing runs check. What could follow:

1. An abstract specification for `Provisioning`, numbers that are each given to one
   pipeline at a time, and the proof that it is implemented.
2. Pure algorithms against reference definitions, in modules of their own:
   filename sanitising, storage eligibility.
