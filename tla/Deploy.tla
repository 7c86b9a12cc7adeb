------------------------------- MODULE Deploy -------------------------------
(***************************************************************************)
(* From the deploy form to a job: the page checks its form with            *)
(* POST /api/preflight and submits it with POST /api/provision (index.html);*)
(* handlePreflight and handleProvision (server.go) each merge a request    *)
(* with the configuration, resolve the template and choose VMIDs, and the  *)
(* preflight asks six more questions.  Every question is a read of its     *)
(* own, of a cluster that goes on changing, and every answer reaches the   *)
(* page some time after it was given, if it does.                          *)
(*                                                                         *)
(* What a job does once it is there is the subject of JobStream and        *)
(* Provisioning.                                                           *)
(***************************************************************************)
EXTENDS Integers, FiniteSets

CONSTANTS Node, Template,
          LastVMID,     \* 999999999
          Form,         \* what a user may enter
          Call,         \* requests of other clients of the API
          Config,       \* configurations the backend may run with
          Clusters,     \* states the cluster may be in
          Request,      \* requests that are served at the same time
          MaxChanges,   \* bound on changes of the cluster
          none

VMID == 1 .. LastVMID

\* The fields of a request that both handlers know; "" and 0 stand for a field
\* that is missing.  spaces: is there white space around the node, or instead of
\* it?  decodes: can handleProvision read the body?  handlePreflight also takes
\* an empty one, and does not look at cores and memory, which must be integers.
Params == [template : Template \cup {""}, templateId : VMID \cup {0},
           node : Node \cup {""}, spaces : BOOLEAN,
           count : Int, start : VMID \cup {0}, decodes : BOOLEAN]

ASSUME LastVMIDAssumption == LastVMID \in Nat
ASSUME ChangesAssumption == MaxChanges \in Nat
ASSUME NamesAssumption == "" \notin Node \cup Template /\ " " \notin Node
ASSUME NoneAssumption == none \notin [p : Params, ready : BOOLEAN]
ASSUME CallAssumption == Call \subseteq Params
ASSUME FormAssumption ==
  Form \subseteq {p \in Params : p.template # "" /\ p.templateId = 0 /\ p.node # "" /\ ~p.spaces
                                   /\ p.count \in 1 .. 20 /\ p.start > 0}
\* VM_COUNT and TEMPLATE_VMID are not checked; VM_START_ID is taken to be one.
ASSUME ConfigAssumption ==
  Config \subseteq [templateId : Int, node : Node, count : Int, start : VMID]

VARIABLES
  cfg,       \* ws.cfg
  cluster,   \* what the handlers' questions are about
  changes,   \* changes of the cluster so far
  req,       \* per request: what it asks and how far its handler is
  form,      \* page: state.prov
  result,    \* page: state.preflight.result and what it was asked about, or none
  loading,   \* page: state.preflight.loading
  button,    \* page: is the launch button enabled?
  active,    \* page: is it following a job?
  late,      \* history, page: did its result come after an edit, or was the
             \* configuration loaded under it?
  renewed,   \* history, page: has a render come between a launch that is out
             \* and the page's own one that keeps the button disabled?
  report     \* history: a preflight that was ready, in the cluster as it is

page == <<form, result, loading, button, active, late, renewed>>
vars == <<cfg, cluster, changes, req, page, report>>

\* vmid is the registry of templates, see module Templates, and built are the
\* templates that exist, by VMID and node.
ASSUME ClustersAssumption ==
  Clusters \subseteq [api : BOOLEAN,
                     node : [Node -> {"online", "offline", "absent"}],
                     store : [Node -> {"absent", "plain", "snippets"}],
                     dir : [Node -> BOOLEAN],
                     caKey : BOOLEAN,
                     vmid : [Template \X Node -> VMID \cup {0}],
                     built : SUBSET (VMID \X Node),
                     used : SUBSET VMID]

\* In the order of handlePreflight; handleProvision asks the first and the
\* last question only.
Asking == {"template", "nodes", "store", "dir", "ca", "allocate"}

Nothing == [template |-> "", templateId |-> 0, node |-> "", spaces |-> FALSE,
            count |-> 0, start |-> 0, decodes |-> TRUE]
Idle == [pc |-> "idle", kind |-> "", from |-> "", p |-> Nothing, template |-> 0,
         ids |-> {}, ready |-> TRUE, quiet |-> TRUE]

\* ready is the variable of handlePreflight; which checks have made it false is
\* not kept.  quiet is a history: has the cluster been at rest since the request came?
TypeOK ==
  /\ cfg \in Config
  /\ cluster \in Clusters
  /\ changes \in 0 .. MaxChanges
  /\ req \in [Request -> [pc : Asking \cup {"idle", "reported", "job", "refused", "aborted"},
                          kind : {"", "preflight", "provision"},
                          from : {"", "client", "checks", "submit"},
                          p : Params, template : Int, ids : SUBSET VMID,
                          ready : BOOLEAN, quiet : BOOLEAN]]
  /\ form \in Form \cup {[f EXCEPT !.start = cfg.start] : f \in Form}
  /\ result = none \/ result \in [p : Params, ready : BOOLEAN]
  /\ {loading, button, active, late, renewed} \subseteq BOOLEAN
  /\ report = none \/ report \in [p : Params, node : Node, template : Nat \ {0},
                                  ids : SUBSET VMID]

Init ==
  /\ cfg \in Config
  /\ cluster \in Clusters
  /\ changes = 0
  /\ req = [r \in Request |-> Idle]
  /\ form \in Form
  /\ result = none
  /\ loading = FALSE
  /\ button = FALSE
  /\ active = FALSE
  /\ late = FALSE
  /\ renewed = FALSE
  /\ report = none

\* Something that the handlers ask about changes: other requests, jobs and
\* template builds, nodes and administrators.
Change ==
  /\ changes < MaxChanges /\ changes' = changes + 1
  /\ cluster' \in Clusters \ {cluster}
  /\ req' = [r \in Request |-> [req[r] EXCEPT !.quiet = req[r].pc = "idle"]]
  /\ report' = none
  /\ UNCHANGED <<cfg, page>>

-----------------------------------------------------------------------------
(* The handlers: what a request is merged with, and the questions          *)

\* handlePreflight's copy of the configuration.  White space around the node is
\* trimmed, and a node of white space is one that is missing.
preflightConfig(p) ==
  [count |-> IF p.count > 0 THEN p.count ELSE cfg.count,
   start |-> IF p.start > 0 THEN p.start ELSE cfg.start,
   node |-> IF p.node # "" THEN p.node ELSE cfg.node]

\* Mutant: the requested start is overlooked.
provisionConfig_IgnoresStart(p) ==
  [count |-> IF p.count > 0 THEN p.count ELSE cfg.count,
   start |-> cfg.start,
   node |-> IF p.spaces THEN " " ELSE IF p.node # "" THEN p.node ELSE cfg.node]

\* handleProvision's copy.  The node is taken as it is; " " stands for one with
\* white space, which no node of the cluster has in its name.
provisionConfig(p) ==
  [count |-> IF p.count > 0 THEN p.count ELSE cfg.count,
   start |-> IF p.start > 0 THEN p.start ELSE cfg.start,
   node |-> IF p.spaces THEN " " ELSE IF p.node # "" THEN p.node ELSE cfg.node]

config(r) == IF req[r].kind = "preflight" THEN preflightConfig(req[r].p)
                                          ELSE provisionConfig(req[r].p)

\* 0 stands for an error.  Only the registry is asked: not whether the template
\* has been built, is being built, or has been deleted.
templateVMIDForNode(template, node) ==
  IF node \in Node THEN cluster.vmid[template, node] ELSE 0

resolvedTemplate(r) ==
  LET p == req[r].p
  IN  IF p.template # "" THEN templateVMIDForNode(p.template, config(r).node)
      ELSE IF p.templateId > 0 THEN p.templateId
      ELSE cfg.templateId

\* Mutant: one number too many.
Free_PastTheEnd(start) == {v \in start .. LastVMID + 1 : v \notin cluster.used}

\* The first count free numbers from start on.  Only a positive count can
\* find the space exhausted.
Free(start) == {v \in start .. LastVMID : v \notin cluster.used}
VMIDsExist(start, count) == Cardinality(Free(start)) >= count
allocateVMIDs(start, count) ==
  {v \in Free(start) : Cardinality({w \in Free(start) : w < v}) < count}

Send(r, kind, from, p) ==
  /\ req[r].pc = "idle"
  /\ req' = [req EXCEPT ![r] = [Idle EXCEPT !.pc = "template", !.kind = kind,
                                           !.from = from, !.p = p]]

\* A request that does not come from the page, and one that nobody waits for
\* any more.
CallAPI(r) ==
  /\ \E kind \in {"preflight", "provision"}, p \in Call : Send(r, kind, "client", p)
  /\ UNCHANGED <<cfg, cluster, changes, page, report>>

Return(r) ==
  /\ req[r].from = "client"
  /\ req[r].pc \in {"reported", "job", "refused", "aborted"}
  /\ req' = [req EXCEPT ![r] = Idle]
  /\ UNCHANGED <<cfg, cluster, changes, page, report>>

Ask(r, pc, kinds) == req[r].pc = pc /\ req[r].kind \in kinds
Told == UNCHANGED <<cfg, cluster, changes, page, report>>

\* The request goes on with pc, after checks that passed or failed.
Report(r, pc, passed) == req' = [req EXCEPT ![r].pc = pc, ![r].ready = @ /\ passed]

\* Both handlers decode the body and resolve the template first; only the
\* preflight goes on when that fails.  The registry is read under templateMu.
Resolve(r) ==
  /\ Ask(r, "template", {"preflight", "provision"})
  /\ LET vmid == resolvedTemplate(r)
     IN  req' = [req EXCEPT
           ![r].template = vmid,
           ![r].pc = IF req[r].kind = "preflight" THEN "nodes"
                     ELSE IF \/ ~req[r].p.decodes
                             \/ req[r].p.template # "" /\ vmid = 0 THEN "refused"
                     ELSE "allocate",
           ![r].ready = vmid > 0]
  /\ Told

\* Mutant: a node that is offline is passed over like one that is checked.
ListNodes_SkipsOffline(r) ==
  /\ Ask(r, "nodes", {"preflight"})
  /\ LET node == cluster.node[config(r).node]
     IN  IF cluster.api /\ node = "online" THEN Report(r, "store", TRUE)
         ELSE Report(r, "ca", cluster.api /\ node = "offline")
  /\ Told

\* The snippet storage and directory of a node that is not online are not
\* asked about.
ListNodes(r) ==
  /\ Ask(r, "nodes", {"preflight"})
  /\ IF cluster.api /\ cluster.node[config(r).node] = "online"
     THEN Report(r, "store", TRUE)
     ELSE Report(r, "ca", FALSE)
  /\ Told

ListNodeStorages(r) ==
  /\ Ask(r, "store", {"preflight"})
  /\ Report(r, "dir", cluster.api /\ cluster.store[config(r).node] = "snippets")
  /\ Told

\* test -d and test -w over SSH.
TestSnippetDir(r) ==
  /\ Ask(r, "dir", {"preflight"})
  /\ Report(r, "ca", cluster.dir[config(r).node])
  /\ Told

\* The vault is there, or the backend would not have started.
ReadCAKey(r) ==
  /\ Ask(r, "ca", {"preflight"})
  /\ Report(r, "allocate", cluster.caKey /\ config(r).count >= 1)
  /\ Told

\* The last question of a preflight, which is left out when no VM is asked for.
CheckVMIDs(r) ==
  /\ Ask(r, "allocate", {"preflight"})
  /\ LET c == config(r)
         found == cluster.api /\ VMIDsExist(c.start, c.count)
         ready == req[r].ready /\ (found \/ c.count <= 0)
         ids == IF found /\ c.count > 0 THEN allocateVMIDs(c.start, c.count) ELSE {}
     IN  /\ req' = [req EXCEPT ![r].pc = "reported", ![r].ready = ready]
         /\ report' = IF ready /\ req[r].quiet
                      THEN [p |-> req[r].p, node |-> c.node,
                            template |-> req[r].template, ids |-> ids]
                      ELSE report
  /\ UNCHANGED <<cfg, cluster, changes, page>>

\* VMIDs are chosen, the job is registered and runJob started.  make panics
\* for a negative count, and the handler with it.
Provision(r) ==
  /\ Ask(r, "allocate", {"provision"})
  /\ LET c == config(r)
     IN  IF ~(cluster.api /\ VMIDsExist(c.start, c.count))
         THEN req' = [req EXCEPT ![r].pc = "refused"]
         ELSE req' = [req EXCEPT ![r].pc = IF c.count < 0 THEN "aborted" ELSE "job",
                                 ![r].ids = allocateVMIDs(c.start, c.count)]
  /\ Told

-----------------------------------------------------------------------------
(* The page                                                                *)

Passed(answer) == answer # none /\ answer.ready
Server == UNCHANGED <<cfg, cluster, changes, report>>

\* Does the page still wait for an answer to r?
Awaited(r, kind) == req[r].kind = kind /\ req[r].from \in {"checks", "submit"}
Launching == {r \in Request : Awaited(r, "provision")}

\* Mutant: the report on the old form is kept.
Edit_KeepsReport ==
  /\ ~active
  /\ form' \in Form \ {form}
  /\ UNCHANGED <<result, button, loading, active, late, renewed, req>>
  /\ Server

\* A field changes, and invalidatePreflight runs.
Edit ==
  /\ ~active
  /\ form' \in Form \ {form}
  /\ result' = none
  /\ button' = FALSE
  /\ late' = FALSE
  /\ UNCHANGED <<loading, active, renewed, req>>
  /\ Server

\* "Run checks".
RunChecks(r) ==
  /\ ~loading /\ ~active
  /\ Send(r, "preflight", "checks", form)
  /\ loading' = TRUE
  /\ UNCHANGED <<form, result, button, active, late, renewed>>
  /\ Server

\* Mutant: the button can be pressed again at once.
Submit_KeepsButton(r) ==
  /\ button
  /\ IF Passed(result)
     THEN /\ Send(r, "provision", "submit", form)
          /\ UNCHANGED <<loading, button>>
     ELSE /\ Send(r, "preflight", "submit", form)
          /\ loading' = TRUE
          /\ UNCHANGED button
  /\ UNCHANGED <<form, result, active, late, renewed>>
  /\ Server

\* The launch button.  Without a report that is ready, one is asked for first.
Submit(r) ==
  /\ button
  /\ IF Passed(result)
     THEN /\ Send(r, "provision", "submit", form)
          /\ button' = FALSE
          /\ UNCHANGED loading
     ELSE /\ Send(r, "preflight", "submit", form)
          /\ loading' = TRUE
          /\ UNCHANGED button
  /\ UNCHANGED <<form, result, active, late, renewed>>
  /\ Server

\* A report arrives and is shown, whatever the form is by then; one that
\* Submit asked for and that is ready starts the launch, with the form as it
\* is by then.
TakeReport(r) ==
  /\ Awaited(r, "preflight") /\ req[r].pc = "reported"
  /\ result' = [p |-> req[r].p, ready |-> req[r].ready]
  /\ loading' = FALSE
  /\ late' = (form # req[r].p)
  /\ renewed' = (Launching # {})
  /\ \/ /\ req[r].from = "submit" /\ req[r].ready
        /\ req' = [req EXCEPT ![r] = [Idle EXCEPT !.pc = "template", !.kind = "provision",
                                                 !.from = "submit", !.p = form]]
        /\ button' = FALSE
     \/ /\ req[r].from = "checks" \/ ~req[r].ready
        /\ req' = [req EXCEPT ![r] = Idle]
        /\ button' = (req[r].ready /\ ~active)
  /\ UNCHANGED <<form, active>>
  /\ Server

\* The answer is lost, or the session has expired.  The handler may go on, but
\* it only reads.
NoReport(r) ==
  /\ Awaited(r, "preflight")
  /\ req' = [req EXCEPT ![r] = Idle]
  /\ result' = none
  /\ loading' = FALSE
  /\ button' = FALSE
  /\ late' = FALSE
  /\ UNCHANGED <<form, active, renewed>>
  /\ Server

\* The page goes over to following its job.
TakeJob(r) ==
  /\ Awaited(r, "provision") /\ req[r].pc = "job"
  /\ req' = [req EXCEPT ![r] = Idle]
  /\ active' = TRUE
  /\ button' = FALSE
  /\ renewed' = (renewed /\ Launching' # {})
  /\ UNCHANGED <<form, result, loading, late>>
  /\ Server

\* No launch, as far as the page can tell, though the handler may go on: the
\* button is enabled again, unless a render has replaced it in the meantime.
NoJob(r) ==
  /\ Awaited(r, "provision")
  /\ req' = [req EXCEPT ![r].from = "client"]
  /\ button' \in {button, ~active}
  /\ renewed' = (renewed /\ Launching' # {})
  /\ UNCHANGED <<form, result, loading, active, late>>
  /\ Server

\* The job is complete and "Deploy another" resets the form.
New ==
  /\ active
  /\ active' = FALSE
  /\ form' \in Form
  /\ result' = none
  /\ button' = FALSE
  /\ late' = FALSE
  /\ UNCHANGED <<loading, renewed, req>>
  /\ Server

\* Signing in again, with the form still open, loads the configuration and
\* its default for the first VMID, and renders.
ConfigLoaded ==
  /\ form' = [form EXCEPT !.start = cfg.start]
  /\ button' = (Passed(result) /\ ~active)
  /\ late' = (result # none /\ (late \/ form' # form))
  /\ renewed' = (Launching # {})
  /\ UNCHANGED <<result, loading, active, req>>
  /\ Server
-----------------------------------------------------------------------------
Next ==
  \/ \E r \in Request :
        \/ CallAPI(r) \/ Return(r) \/ Resolve(r) \/ ListNodes(r) \/ ListNodeStorages(r)
        \/ TestSnippetDir(r) \/ ReadCAKey(r) \/ CheckVMIDs(r) \/ Provision(r)
        \/ RunChecks(r) \/ Submit(r) \/ TakeReport(r) \/ NoReport(r)
        \/ TakeJob(r) \/ NoJob(r)
  \/ Change \/ Edit \/ New \/ ConfigLoaded

Spec == Init /\ [][Next]_vars

-----------------------------------------------------------------------------
(* Properties                                                              *)

\* What a request needs of the cluster and the configuration to become VMs, as
\* handlePreflight reads it: all but the template, and the template.
targetNode(p) == IF p.node = "" THEN cfg.node ELSE p.node

Prepared(p) ==
  LET start == IF p.start = 0 THEN cfg.start ELSE p.start
      count == IF p.count <= 0 THEN cfg.count ELSE p.count
  IN  /\ cluster.api /\ cluster.caKey
      /\ cluster.node[targetNode(p)] = "online"
      /\ cluster.store[targetNode(p)] = "snippets" /\ cluster.dir[targetNode(p)]
      /\ count > 0
      /\ \E ids \in SUBSET (start .. LastVMID) :
            Cardinality(ids) = count /\ ids \cap cluster.used = {}

\* The VMID that a request, the registry or TEMPLATE_VMID has for the template.
targetTemplate(p) == IF p.template # "" THEN cluster.vmid[p.template, targetNode(p)]
                ELSE IF p.templateId # 0 THEN p.templateId ELSE cfg.templateId

Feasible(p) == Prepared(p) /\ <<targetTemplate(p), targetNode(p)>> \in cluster.built

\* There is a number, but no template under it: the build has failed or is still
\* on, the template was deleted, or never was.
OnlyNumbered(p) == targetTemplate(p) > 0 /\ <<targetTemplate(p), targetNode(p)>> \notin cluster.built

\* A preflight in a cluster at rest says "ready" of every request that can be
\* carried out, and of no other but those that lack the template alone while a
\* number for it is on record.  README.md:325 claims more, that the template is
\* validated.  The checks that handlePreflight leaves out after another one has
\* failed never make it say so.
ReportIsTrue ==
  \A r \in Request :
     req[r].pc = "reported" /\ req[r].quiet =>
        (req[r].ready <=> \/ Feasible(req[r].p)
                          \/ Prepared(req[r].p) /\ OnlyNumbered(req[r].p))

\* What a preflight has found ready, a provision of the same request delivers
\* while the cluster is at rest: a job, on the same node, from the same template,
\* with the VMIDs that were the preflight's candidates.  The two handlers decode,
\* merge and resolve the request separately, and disagree on exactly these: a
\* node with white space, and a body that only the preflight can read, such as a
\* form with 1.5 cores.
PreflightPredicts ==
  \A r \in Request :
     /\ req[r].kind = "provision" /\ req[r].pc \in {"job", "refused", "aborted"}
     /\ req[r].quiet /\ report # none /\ report.p = req[r].p
     => (req[r].p.decodes /\ ~req[r].p.spaces <=>
           /\ req[r].pc = "job" /\ config(r).node = report.node
           /\ req[r].template = report.template /\ req[r].ids = report.ids)

Launches(r) == r \notin Launching /\ Awaited(r, "provision")'

\* index.html:4163: "Preflight checks must pass before provisioning."  The page
\* launches nothing without a report that says ready, and no form but the one
\* that report is about, with two exceptions that the code has: a report that
\* arrived after the form had been edited, and a configuration that was loaded
\* under the form it was about.
LaunchWasChecked ==
  [][\A r \in Request :
       Launches(r) => Passed(result') /\ (result'.p = req'[r].p \/ late')]_vars

\* A second press of the button does not deploy the form twice: while the
\* answer to a launch is out, no second one starts, unless a report or the
\* configuration arrived since the launch and the page was rendered anew.
LaunchIsSingle == Cardinality(Launching) <= 1 \/ renewed
=============================================================================
