---------------------------- MODULE DeployProofs ----------------------------
(***************************************************************************)
(* Theorems about Deploy, for any forms, calls, configurations, states of  *)
(* the cluster and number of requests at a time.                           *)
(***************************************************************************)
EXTENDS Deploy, FunctionTheorems, FiniteSetTheorems, TLAPS

Served == [pc : Asking \cup {"idle", "reported", "job", "refused", "aborted"},
           kind : {"", "preflight", "provision"},
           from : {"", "client", "checks", "submit"},
           p : Params, template : Int, ids : SUBSET VMID,
           ready : BOOLEAN, quiet : BOOLEAN]

\* TypeOK in parts.
Setting == cfg \in Config /\ cluster \in Clusters /\ changes \in 0 .. MaxChanges
Requests == req \in [Request -> Served]
Forms == Form \cup {[f EXCEPT !.start = cfg.start] : f \in Form}
Page == /\ form \in Forms
        /\ result = none \/ result \in [p : Params, ready : BOOLEAN]
        /\ {loading, button, active, late, renewed} \subseteq BOOLEAN
Ready == [p : Params, node : Node, template : Nat \ {0}, ids : SUBSET VMID]
Reports == report = none \/ report \in Ready

-----------------------------------------------------------------------------
(* The inductive invariant                                                 *)

\* A request merged with the configuration, and its template, as handlePreflight
\* finds them.
nodeOf(p) == IF p.node # "" THEN p.node ELSE cfg.node
countOf(p) == IF p.count > 0 THEN p.count ELSE cfg.count
startOf(p) == IF p.start > 0 THEN p.start ELSE cfg.start
templateOf(p) == IF p.template # "" THEN templateVMIDForNode(p.template, nodeOf(p))
                 ELSE IF p.templateId > 0 THEN p.templateId ELSE cfg.templateId

\* The node and the template as handleProvision finds them.
nodeFor(p) == IF p.spaces THEN " " ELSE nodeOf(p)
templateFor(p) == IF p.template # "" THEN templateVMIDForNode(p.template, nodeFor(p))
                  ELSE IF p.templateId > 0 THEN p.templateId ELSE cfg.templateId

\* What the checks ask.
TemplateOK(p) == templateOf(p) > 0
NodeOK(p) == cluster.api /\ cluster.node[nodeOf(p)] = "online"
StoreOK(p) == cluster.api /\ cluster.store[nodeOf(p)] = "snippets"
DirOK(p) == cluster.dir[nodeOf(p)]
KeyOK(p) == cluster.caKey /\ countOf(p) >= 1
VMIDsOK(p) == cluster.api /\ VMIDsExist(startOf(p), countOf(p))

\* In a cluster at rest a preflight knows the answers to the questions it has
\* asked or left out.
PreflightInv(q) ==
  /\ q.pc \in {"nodes", "store", "dir", "ca", "allocate", "reported"} =>
        q.template = templateOf(q.p)
  /\ q.pc = "nodes" => (q.ready <=> TemplateOK(q.p))
  /\ q.pc = "store" => NodeOK(q.p) /\ (q.ready <=> TemplateOK(q.p))
  /\ q.pc = "dir" => NodeOK(q.p) /\ (q.ready <=> TemplateOK(q.p) /\ StoreOK(q.p))
  /\ q.pc = "ca" =>
        (q.ready <=> TemplateOK(q.p) /\ NodeOK(q.p) /\ StoreOK(q.p) /\ DirOK(q.p))
  /\ q.pc = "allocate" =>
        (q.ready <=> /\ TemplateOK(q.p) /\ NodeOK(q.p) /\ StoreOK(q.p) /\ DirOK(q.p)
                     /\ KeyOK(q.p))
  /\ q.pc = "reported" =>
        (q.ready <=> /\ TemplateOK(q.p) /\ NodeOK(q.p) /\ StoreOK(q.p) /\ DirOK(q.p)
                     /\ KeyOK(q.p) /\ VMIDsOK(q.p))

\* And a provision is refused or aborted for a reason that is still there.
ProvisionInv(q) ==
  /\ q.pc \in {"allocate", "job"} => q.p.decodes /\ q.template = templateFor(q.p)
  /\ q.pc = "refused" => \/ ~q.p.decodes
                        \/ (q.p.template # "" /\ templateFor(q.p) = 0)
                        \/ ~VMIDsOK(q.p)
  /\ q.pc = "aborted" => countOf(q.p) < 0
  /\ q.pc = "job" => q.ids = allocateVMIDs(startOf(q.p), countOf(q.p))

AnswerInv(q) ==
  /\ q.pc = "reported" => q.kind = "preflight"
  /\ q.quiet => /\ q.kind = "preflight" => PreflightInv(q)
                /\ q.kind = "provision" => ProvisionInv(q)

AnswersInv == \A r \in Request : \A q \in Served : q = req[r] => AnswerInv(q)

\* A report that is kept is true of the cluster as it is.
ReportHolds(rep) ==
  /\ TemplateOK(rep.p) /\ KeyOK(rep.p) /\ VMIDsOK(rep.p)
  /\ rep.node = nodeOf(rep.p) /\ rep.template = templateOf(rep.p)
  /\ rep.ids = allocateVMIDs(startOf(rep.p), countOf(rep.p))

ReportInv ==
  \A rep \in Ready :
     report # none /\ rep = report => ReportHolds(rep)

\* The page's result is about its form, and the button waits for the answer to
\* a launch.
PageInv ==
  /\ ~late => (result # none => result.p = form)
  /\ ~renewed => (\A r, s \in Launching : r = s) /\ (button => Launching = {})

IInv ==
  /\ TypeOK
  /\ AnswersInv
  /\ ReportInv
  /\ PageInv
-----------------------------------------------------------------------------
(* The parts of a state                                                    *)

LEMMA TypeOKParts ==
  /\ TypeOK <=> Setting /\ Requests /\ Page /\ Reports
  /\ TypeOK' <=> Setting' /\ Requests' /\ Page' /\ Reports'
BY DEF TypeOK, Setting, Requests, Page, Forms, Reports, Served, Ready

LEMMA IdleIs ==
  /\ Idle \in Served /\ Nothing \in Params
  /\ Idle.pc = "idle" /\ Idle.kind = "" /\ Idle.from = "" /\ Idle.quiet
<1>1. 0 \in Int /\ {} \in SUBSET VMID /\ TRUE \in BOOLEAN
  OBVIOUS
<1>2. Nothing \in Params
  BY <1>1 DEF Nothing, Params
<1>3. Idle \in Served
  BY <1>1, <1>2 DEF Idle, Served
<1> QED
  BY <1>2, <1>3 DEF Idle

\* How the two handlers merge a request.
LEMMA MergedIs ==
  ASSUME NEW r, NEW p \in Params, req[r].p = p
  PROVE  /\ config(r).count = countOf(p) /\ config(r).start = startOf(p)
         /\ req[r].kind = "preflight" =>
              config(r).node = nodeOf(p) /\ resolvedTemplate(r) = templateOf(p)
         /\ req[r].kind # "preflight" =>
              config(r).node = nodeFor(p) /\ resolvedTemplate(r) = templateFor(p)
<1>1. CASE req[r].kind = "preflight"
  <2>1. config(r) = preflightConfig(p)
    BY <1>1 DEF config
  <2>2. preflightConfig(p) = [count |-> countOf(p), start |-> startOf(p), node |-> nodeOf(p)]
    BY DEF preflightConfig, nodeOf, countOf, startOf
  <2>3. config(r).node = nodeOf(p) /\ config(r).count = countOf(p)
        /\ config(r).start = startOf(p)
    BY <2>1, <2>2
  <2> QED
    BY <1>1, <2>3 DEF resolvedTemplate, templateOf
<1>2. CASE req[r].kind # "preflight"
  <2>1. config(r) = provisionConfig(p)
    BY <1>2 DEF config
  <2>2. provisionConfig(p) = [count |-> countOf(p), start |-> startOf(p), node |-> nodeFor(p)]
    BY DEF provisionConfig, nodeFor, nodeOf, countOf, startOf
  <2>3. config(r).node = nodeFor(p) /\ config(r).count = countOf(p)
        /\ config(r).start = startOf(p)
    BY <2>1, <2>2
  <2> QED
    BY <1>2, <2>3 DEF resolvedTemplate, templateFor
<1> QED
  BY <1>1, <1>2

LEMMA MergedTypes ==
  ASSUME Setting, NEW p \in Params
  PROVE  /\ nodeOf(p) \in Node /\ countOf(p) \in Int /\ startOf(p) \in VMID
         /\ templateOf(p) \in Int /\ templateFor(p) \in Int
         /\ Free(startOf(p)) \subseteq VMID /\ IsFiniteSet(Free(startOf(p)))
         /\ allocateVMIDs(startOf(p), countOf(p)) \in SUBSET VMID
         /\ cluster.api \in BOOLEAN /\ cluster.caKey \in BOOLEAN
         /\ cluster.dir[nodeOf(p)] \in BOOLEAN
<1>1. cfg.templateId \in Int /\ cfg.node \in Node /\ cfg.count \in Int /\ cfg.start \in VMID
  BY ConfigAssumption DEF Setting
<1>2. /\ p.template \in Template \/ p.template = ""
      /\ p.templateId \in VMID \/ p.templateId = 0
      /\ p.node \in Node \/ p.node = ""
      /\ p.count \in Int
      /\ p.start \in VMID \/ p.start = 0
  BY DEF Params
<1>3. VMID \subseteq Int /\ \A v \in VMID : v > 0
  BY LastVMIDAssumption DEF VMID
<1>4. nodeOf(p) \in Node /\ countOf(p) \in Int /\ startOf(p) \in VMID
  <2>1. nodeOf(p) \in Node
    BY <1>1, <1>2 DEF nodeOf
  <2>2. countOf(p) \in Int
    BY <1>1, <1>2 DEF countOf
  <2>3. startOf(p) \in VMID
    <3>1. p.start = 0 => startOf(p) = cfg.start
      BY DEF startOf
    <3>2. startOf(p) \in {p.start, cfg.start}
      BY DEF startOf
    <3> QED
      BY <1>1, <1>2, <3>1, <3>2, Zenon
  <2> QED
    BY <2>1, <2>2, <2>3
<1>5. /\ cluster.vmid \in [Template \X Node -> VMID \cup {0}]
      /\ cluster.api \in BOOLEAN /\ cluster.caKey \in BOOLEAN
      /\ cluster.dir \in [Node -> BOOLEAN]
  BY ClustersAssumption DEF Setting
<1>6. templateOf(p) \in Int /\ templateFor(p) \in Int
  <2>1. CASE p.template # ""
    <3>1. \A n \in Node : cluster.vmid[p.template, n] \in VMID \cup {0}
      BY <1>2, <1>5, <2>1
    <3>2. \A n : templateVMIDForNode(p.template, n) \in VMID \cup {0}
      BY <3>1 DEF templateVMIDForNode
    <3>3. /\ templateOf(p) = templateVMIDForNode(p.template, nodeOf(p))
          /\ templateFor(p) = templateVMIDForNode(p.template, nodeFor(p))
      BY <2>1 DEF templateOf, templateFor
    <3>4. VMID \cup {0} \subseteq Int
      BY <1>3
    <3> QED
      BY <3>2, <3>3, <3>4
  <2>2. CASE p.template = ""
    <3>1. p.templateId \in Int
      <4>1. 0 \in Int
        OBVIOUS
      <4> QED
        BY <1>2, <1>3, <4>1, Zenon
    <3>2. /\ templateOf(p) \in {p.templateId, cfg.templateId}
          /\ templateFor(p) \in {p.templateId, cfg.templateId}
      BY <2>2 DEF templateOf, templateFor
    <3> QED
      BY <1>1, <3>1, <3>2
  <2> QED
    BY <2>1, <2>2
<1>7. Free(startOf(p)) \subseteq VMID
  BY <1>4, LastVMIDAssumption DEF Free, VMID
<1>8. IsFiniteSet(VMID)
  BY LastVMIDAssumption, FS_Interval DEF VMID
<1>9. IsFiniteSet(Free(startOf(p)))
  BY <1>7, <1>8, FS_Subset
<1>10. allocateVMIDs(startOf(p), countOf(p)) \subseteq Free(startOf(p))
  BY DEF allocateVMIDs
<1> QED
  BY <1>4, <1>5, <1>6, <1>7, <1>9, <1>10

\* Nothing else that the answers depend on.
LEMMA AnswersRest ==
  ASSUME UNCHANGED <<cfg, cluster>>
  PROVE  /\ \A q : AnswerInv(q)' <=> AnswerInv(q)
         /\ \A rep : ReportHolds(rep)' <=> ReportHolds(rep)
<1>1. ASSUME NEW p
      PROVE  /\ nodeOf(p)' = nodeOf(p) /\ countOf(p)' = countOf(p)
             /\ startOf(p)' = startOf(p) /\ nodeFor(p)' = nodeFor(p)
  BY DEF nodeOf, nodeFor, countOf, startOf
<1>2. ASSUME NEW p
      PROVE  templateOf(p)' = templateOf(p) /\ templateFor(p)' = templateFor(p)
  <2>1. \A t, n : templateVMIDForNode(t, n)' = templateVMIDForNode(t, n)
    BY DEF templateVMIDForNode
  <2> QED
    BY <1>1, <2>1 DEF templateOf, templateFor
<1>3. \A start : Free(start)' = Free(start)
  BY DEF Free
<1>4. \A p : /\ VMIDsExist(startOf(p), countOf(p))' <=> VMIDsExist(startOf(p), countOf(p))
             /\ allocateVMIDs(startOf(p), countOf(p))' = allocateVMIDs(startOf(p), countOf(p))
  BY <1>1, <1>3 DEF VMIDsExist, allocateVMIDs
<1>5. ASSUME NEW p
      PROVE  /\ TemplateOK(p)' <=> TemplateOK(p)
             /\ NodeOK(p)' <=> NodeOK(p)
             /\ StoreOK(p)' <=> StoreOK(p)
             /\ DirOK(p)' <=> DirOK(p)
             /\ KeyOK(p)' <=> KeyOK(p)
             /\ VMIDsOK(p)' <=> VMIDsOK(p)
  BY <1>1, <1>2, <1>4 DEF TemplateOK, NodeOK, StoreOK, DirOK, KeyOK, VMIDsOK
<1>6. ASSUME NEW q PROVE PreflightInv(q)' <=> PreflightInv(q)
  BY <1>2, <1>5 DEF PreflightInv
<1>7. ASSUME NEW q PROVE ProvisionInv(q)' <=> ProvisionInv(q)
  BY <1>1, <1>2, <1>4, <1>5 DEF ProvisionInv
<1>8. ASSUME NEW q PROVE AnswerInv(q)' <=> AnswerInv(q)
  BY <1>6, <1>7 DEF AnswerInv
<1>9. ASSUME NEW rep PROVE ReportHolds(rep)' <=> ReportHolds(rep)
  BY <1>1, <1>2, <1>4, <1>5 DEF ReportHolds
<1> QED
  BY <1>8, <1>9

\* A request of which nothing is known.
LEMMA NothingIsKnown ==
  ASSUME NEW q, q.pc \in {"idle", "template"}
  PROVE  AnswerInv(q)
BY DEF AnswerInv, PreflightInv, ProvisionInv

LEMMA IdleIsAnswered == AnswerInv(Idle)
<1>1. PICK q : q = Idle
  OBVIOUS
<1>2. q.pc = "idle"
  BY <1>1, IdleIs
<1>3. AnswerInv(q)
  BY <1>2 DEF AnswerInv, PreflightInv, ProvisionInv
<1> QED
  BY <1>1, <1>3

-----------------------------------------------------------------------------
(* The invariant, at the start and in a step of one request                *)

LEMMA InitIInv == Init => IInv
<1> SUFFICES ASSUME Init PROVE IInv
  OBVIOUS
<1>1. /\ cfg \in Config /\ cluster \in Clusters /\ changes = 0
      /\ req = [r \in Request |-> Idle] /\ form \in Form /\ result = none
      /\ loading = FALSE /\ button = FALSE /\ active = FALSE /\ late = FALSE
      /\ renewed = FALSE /\ report = none
  BY DEF Init
<1>2. \A r \in Request : req[r] = Idle
  BY <1>1
<1>3. TypeOK
  <2>1. Setting
    BY <1>1, ChangesAssumption DEF Setting
  <2>2. Requests
    BY <1>1, IdleIs DEF Requests
  <2>3. Page /\ Reports
    BY <1>1 DEF Page, Forms, Reports
  <2> QED
    BY <2>1, <2>2, <2>3, TypeOKParts
<1>4. AnswersInv
  BY <1>2, IdleIsAnswered DEF AnswersInv
<1>5. ReportInv
  BY <1>1 DEF ReportInv
<1>6. PageInv
  BY <1>1, <1>2, IdleIs DEF PageInv, Launching, Awaited
<1> QED
  BY <1>3, <1>4, <1>5, <1>6 DEF IInv

\* The answers to the other requests, while the cluster is at rest.
LEMMA OthersRest ==
  ASSUME IInv, NEW r \in Request, NEW q \in Served, req'[r] = q, AnswerInv(q),
         \A s \in Request \ {r} : req'[s] = req[s],
         UNCHANGED <<cfg, cluster>>
  PROVE  AnswersInv'
<1>1. SUFFICES ASSUME NEW s \in Request, NEW a \in Served, a = req'[s]
               PROVE  AnswerInv(a)'
  BY DEF AnswersInv
<1>2. AnswerInv(a)
  <2>1. CASE s = r
    BY <1>1, <2>1
  <2>2. CASE s # r
    BY <1>1, <2>2 DEF IInv, AnswersInv
  <2> QED
    BY <2>1, <2>2
<1> QED
  BY <1>2, AnswersRest

LEMMA ReportRests ==
  ASSUME IInv, UNCHANGED <<cfg, cluster, report>>
  PROVE  Reports' /\ ReportInv'
<1>1. Reports /\ ReportInv
  BY TypeOKParts DEF IInv
<1>2. Reports'
  BY <1>1 DEF Reports
<1>3. ReportInv'
  BY <1>1, AnswersRest DEF ReportInv
<1> QED
  BY <1>2, <1>3

\* Launches, that is, and what LaunchWasChecked says of them.
Checked ==
  \A r \in Request : Launches(r) => Passed(result') /\ (result'.p = req'[r].p \/ late')

LEMMA LaunchingIs ==
  /\ \A s : s \in Launching <=>
              s \in Request /\ req[s].kind = "provision" /\ req[s].from \in {"checks", "submit"}
  /\ \A s : s \in Launching' <=>
              s \in Request /\ req'[s].kind = "provision" /\ req'[s].from \in {"checks", "submit"}
  /\ \A s \in Request : Launches(s) <=> s \in Launching' \ Launching
BY DEF Launching, Awaited, Launches

LEMMA NothingIsLaunched ==
  ASSUME Launching' \subseteq Launching PROVE Checked
BY LaunchingIs DEF Checked

\* A step of a handler, which the page does not see.
LEMMA HandlerStep ==
  ASSUME IInv, NEW r \in Request, NEW q \in Served,
         req' \in [Request -> Served], req'[r] = q,
         \A s \in Request \ {r} : req'[s] = req[s],
         q.kind = req[r].kind, q.from = req[r].from, AnswerInv(q),
         UNCHANGED <<cfg, cluster, changes, page>>, Reports', ReportInv'
  PROVE  IInv' /\ Checked
<1>1. Setting /\ Requests /\ Page /\ PageInv
  BY TypeOKParts DEF IInv
<1>2. UNCHANGED <<form, result, loading, button, active, late, renewed>>
  BY DEF page
<1>3. TypeOK'
  <2>1. Setting' /\ Page'
    BY <1>1, <1>2 DEF Setting, Page, Forms
  <2>2. Requests'
    BY DEF Requests
  <2> QED
    BY <2>1, <2>2, TypeOKParts
<1>4. AnswersInv'
  BY OthersRest
<1>5. PageInv'
  <2>1. \A s \in Request : req'[s].kind = req[s].kind /\ req'[s].from = req[s].from
    OBVIOUS
  <2>2. Launching' = Launching
    BY <2>1 DEF Launching, Awaited
  <2> QED
    BY <1>1, <1>2, <2>2 DEF PageInv
<1>6. Checked
  BY LaunchingIs, NothingIsLaunched
<1> QED
  BY <1>3, <1>4, <1>5, <1>6 DEF IInv

\* How a request goes on.
LEMMA ReportIs ==
  ASSUME Requests, NEW r \in Request, NEW pc \in Asking \cup {"reported"},
         NEW passed \in BOOLEAN, Report(r, pc, passed)
  PROVE  \E q \in Served :
           /\ req' \in [Request -> Served] /\ req'[r] = q
           /\ \A s \in Request \ {r} : req'[s] = req[s]
           /\ q.pc = pc /\ q.kind = req[r].kind /\ q.from = req[r].from
           /\ q.p = req[r].p /\ q.template = req[r].template /\ q.ids = req[r].ids
           /\ q.ready = (req[r].ready /\ passed) /\ q.quiet = req[r].quiet
<1> DEFINE q == [req[r] EXCEPT !.pc = pc, !.ready = req[r].ready /\ passed]
<1>1. req[r] \in Served
  BY DEF Requests
<1>2. (req[r].ready /\ passed) \in BOOLEAN
  BY <1>1 DEF Served
<1>3. q \in Served
  BY <1>1 DEF Served
<1>4. /\ q.pc = pc /\ q.kind = req[r].kind /\ q.from = req[r].from
      /\ q.p = req[r].p /\ q.template = req[r].template /\ q.ids = req[r].ids
      /\ q.ready = (req[r].ready /\ passed) /\ q.quiet = req[r].quiet
  BY <1>1 DEF Served
<1>5. req' = [req EXCEPT ![r] = q]
  BY DEF Report
<1> HIDE DEF q
<1>6. /\ req' \in [Request -> Served] /\ req'[r] = q
      /\ \A s \in Request \ {r} : req'[s] = req[s]
  BY <1>3, <1>5 DEF Requests
<1> QED
  BY <1>3, <1>4, <1>6

\* A preflight that has asked a question.
LEMMA ReportStep ==
  ASSUME IInv, NEW r \in Request, req[r].kind = "preflight",
         NEW pc \in {"store", "dir", "ca", "allocate"},
         NEW passed \in BOOLEAN, Report(r, pc, passed), Told,
         \A q \in Served :
            /\ PreflightInv(req[r]) /\ q.pc = pc /\ q.p = req[r].p
            /\ q.template = req[r].template /\ q.ready = (req[r].ready /\ passed)
            => PreflightInv(q)
  PROVE  IInv' /\ Checked
<1>1. Requests /\ AnswersInv
  BY TypeOKParts DEF IInv
<1>2. pc \in Asking \cup {"reported"}
  BY DEF Asking
<1>3. PICK q \in Served :
        /\ req' \in [Request -> Served] /\ req'[r] = q
        /\ \A s \in Request \ {r} : req'[s] = req[s]
        /\ q.pc = pc /\ q.kind = req[r].kind /\ q.from = req[r].from
        /\ q.p = req[r].p /\ q.template = req[r].template
        /\ q.ready = (req[r].ready /\ passed) /\ q.quiet = req[r].quiet
  BY <1>1, <1>2, ReportIs
<1>4. AnswerInv(q)
  <2>1. PICK a \in Served : a = req[r]
    BY <1>1 DEF Requests
  <2>2. a.quiet => PreflightInv(a)
    BY <1>1, <2>1 DEF AnswersInv, AnswerInv
  <2>3. q.quiet => PreflightInv(q)
    BY <1>3, <2>1, <2>2
  <2> QED
    BY <1>3, <2>3 DEF AnswerInv
<1>5. UNCHANGED <<cfg, cluster, changes, page, report>>
  BY DEF Told
<1>6. Reports' /\ ReportInv'
  BY <1>5, ReportRests
<1> QED
  BY <1>3, <1>4, <1>5, <1>6, HandlerStep

LEMMA ListNodesStep == ASSUME IInv, NEW r \in Request, ListNodes(r) PROVE IInv' /\ Checked
<1>1. Setting /\ Requests /\ req[r] \in Served /\ req[r].p \in Params
  BY TypeOKParts DEF IInv, Requests, Served
<1>2. req[r].pc = "nodes" /\ req[r].kind = "preflight" /\ Told
  BY DEF ListNodes, Ask
<1>3. PICK p \in Params : req[r].p = p
  BY <1>1
<1>4. config(r).node = nodeOf(p)
  BY <1>2, <1>3, MergedIs
<1>5. CASE NodeOK(p)
  <2>1. Report(r, "store", TRUE)
    BY <1>4, <1>5 DEF ListNodes, NodeOK
  <2>2. ASSUME NEW q \in Served, PreflightInv(req[r]), q.pc = "store", q.p = req[r].p,
               q.template = req[r].template, q.ready = (req[r].ready /\ TRUE)
        PROVE  PreflightInv(q)
    BY <1>2, <1>3, <1>5, <2>2 DEF PreflightInv
  <2> QED
    BY <1>2, <2>1, <2>2, ReportStep
<1>6. CASE ~NodeOK(p)
  <2>1. Report(r, "ca", FALSE)
    BY <1>4, <1>6 DEF ListNodes, NodeOK
  <2>2. ASSUME NEW q \in Served, PreflightInv(req[r]), q.pc = "ca", q.p = req[r].p,
               q.template = req[r].template, q.ready = (req[r].ready /\ FALSE)
        PROVE  PreflightInv(q)
    BY <1>2, <1>3, <1>6, <2>2 DEF PreflightInv
  <2> QED
    BY <1>2, <2>1, <2>2, ReportStep
<1> QED
  BY <1>5, <1>6

LEMMA ListNodeStoragesStep ==
  ASSUME IInv, NEW r \in Request, ListNodeStorages(r) PROVE IInv' /\ Checked
<1>1. Setting /\ Requests /\ req[r] \in Served /\ req[r].p \in Params
  BY TypeOKParts DEF IInv, Requests, Served
<1>2. req[r].pc = "store" /\ req[r].kind = "preflight" /\ Told
  BY DEF ListNodeStorages, Ask
<1>3. PICK p \in Params : req[r].p = p
  BY <1>1
<1>4. config(r).node = nodeOf(p)
  BY <1>2, <1>3, MergedIs
<1>5. StoreOK(p) \in BOOLEAN
  BY DEF StoreOK
<1>6. Report(r, "dir", StoreOK(p))
  BY <1>4 DEF ListNodeStorages, StoreOK
<1>7. ASSUME NEW q \in Served, PreflightInv(req[r]), q.pc = "dir", q.p = req[r].p,
             q.template = req[r].template, q.ready = (req[r].ready /\ StoreOK(p))
      PROVE  PreflightInv(q)
  BY <1>2, <1>3, <1>7 DEF PreflightInv
<1> QED
  BY <1>2, <1>5, <1>6, <1>7, ReportStep

LEMMA TestSnippetDirStep ==
  ASSUME IInv, NEW r \in Request, TestSnippetDir(r) PROVE IInv' /\ Checked
<1>1. Setting /\ Requests /\ req[r] \in Served /\ req[r].p \in Params
  BY TypeOKParts DEF IInv, Requests, Served
<1>2. req[r].pc = "dir" /\ req[r].kind = "preflight" /\ Told
  BY DEF TestSnippetDir, Ask
<1>3. PICK p \in Params : req[r].p = p
  BY <1>1
<1>4. config(r).node = nodeOf(p)
  BY <1>2, <1>3, MergedIs
<1>5. DirOK(p) \in BOOLEAN
  BY <1>1, MergedTypes DEF DirOK
<1>6. Report(r, "ca", DirOK(p))
  BY <1>4 DEF TestSnippetDir, DirOK
<1>7. ASSUME NEW q \in Served, PreflightInv(req[r]), q.pc = "ca", q.p = req[r].p,
             q.template = req[r].template, q.ready = (req[r].ready /\ DirOK(p))
      PROVE  PreflightInv(q)
  BY <1>2, <1>3, <1>7 DEF PreflightInv
<1> QED
  BY <1>2, <1>5, <1>6, <1>7, ReportStep

LEMMA ReadCAKeyStep == ASSUME IInv, NEW r \in Request, ReadCAKey(r) PROVE IInv' /\ Checked
<1>1. Setting /\ Requests /\ req[r] \in Served /\ req[r].p \in Params
  BY TypeOKParts DEF IInv, Requests, Served
<1>2. req[r].pc = "ca" /\ req[r].kind = "preflight" /\ Told
  BY DEF ReadCAKey, Ask
<1>3. PICK p \in Params : req[r].p = p
  BY <1>1
<1>4. config(r).count = countOf(p)
  BY <1>3, MergedIs
<1>5. KeyOK(p) \in BOOLEAN
  BY DEF KeyOK
<1>6. Report(r, "allocate", KeyOK(p))
  BY <1>4 DEF ReadCAKey, KeyOK
<1>7. ASSUME NEW q \in Served, PreflightInv(req[r]), q.pc = "allocate", q.p = req[r].p,
             q.template = req[r].template, q.ready = (req[r].ready /\ KeyOK(p))
      PROVE  PreflightInv(q)
  BY <1>2, <1>3, <1>7 DEF PreflightInv
<1> QED
  BY <1>2, <1>5, <1>6, <1>7, ReportStep

LEMMA ResolveStep == ASSUME IInv, NEW r \in Request, Resolve(r) PROVE IInv' /\ Checked
<1>1. Setting /\ Requests /\ req[r] \in Served /\ req[r].p \in Params
  BY TypeOKParts DEF IInv, Requests, Served
<1>2. /\ req[r].pc = "template" /\ req[r].kind \in {"preflight", "provision"}
      /\ UNCHANGED <<cfg, cluster, changes, page, report>>
  BY DEF Resolve, Ask, Told
<1>3. PICK p \in Params : req[r].p = p
  BY <1>1
<1> DEFINE vmid == IF req[r].kind = "preflight" THEN templateOf(p) ELSE templateFor(p)
           pc == IF req[r].kind = "preflight" THEN "nodes"
                 ELSE IF ~p.decodes \/ (p.template # "" /\ vmid = 0) THEN "refused"
                 ELSE "allocate"
           ready == vmid > 0
           q == [req[r] EXCEPT !.template = vmid, !.pc = pc, !.ready = ready]
<1>4. req' = [req EXCEPT ![r] = q]
  <2>1. resolvedTemplate(r) = vmid
    BY <1>3, MergedIs
  <2> QED
    BY <1>3, <2>1 DEF Resolve
<1>5. vmid \in Int
  BY <1>1, MergedTypes
<1>6. /\ q \in Served /\ q.template = vmid /\ q.pc = pc /\ q.ready = ready /\ q.p = p
      /\ q.kind = req[r].kind /\ q.from = req[r].from /\ q.quiet = req[r].quiet
  <2>1. pc \in Asking \cup {"idle", "reported", "job", "refused", "aborted"}
    BY DEF Asking
  <2>2. ready \in BOOLEAN
    OBVIOUS
  <2> HIDE DEF pc, vmid, ready
  <2> QED
    BY <1>1, <1>3, <1>5, <2>1, <2>2 DEF Served
<1> HIDE DEF q, vmid
<1>7. req' \in [Request -> Served] /\ req'[r] = q /\ \A s \in Request \ {r} : req'[s] = req[s]
  BY <1>1, <1>4, <1>6 DEF Requests
<1>8. AnswerInv(q)
  <2>1. CASE req[r].kind = "preflight"
    <3>1. PreflightInv(q)
      BY <1>6, <2>1 DEF PreflightInv, TemplateOK, vmid
    <3> QED
      BY <1>6, <2>1, <3>1 DEF AnswerInv
  <2>2. CASE req[r].kind = "provision"
    <3>1. ProvisionInv(q)
      BY <1>6, <2>2 DEF ProvisionInv, vmid
    <3> QED
      BY <1>6, <2>2, <3>1 DEF AnswerInv
  <2> QED
    BY <1>2, <2>1, <2>2
<1>9. Reports' /\ ReportInv'
  BY <1>2, ReportRests
<1> QED
  BY <1>2, <1>6, <1>7, <1>8, <1>9, HandlerStep

LEMMA CheckVMIDsStep == ASSUME IInv, NEW r \in Request, CheckVMIDs(r) PROVE IInv' /\ Checked
<1>1. /\ Setting /\ Requests /\ Reports /\ ReportInv /\ AnswersInv
      /\ req[r] \in Served /\ req[r].p \in Params
  BY TypeOKParts DEF IInv, Requests, Served
<1>2. /\ req[r].pc = "allocate" /\ req[r].kind = "preflight"
      /\ UNCHANGED <<cfg, cluster, changes, page>>
  BY DEF CheckVMIDs, Ask
<1>3. PICK p \in Params : req[r].p = p
  BY <1>1
<1> DEFINE count == countOf(p)
           start == startOf(p)
           found == VMIDsOK(p)
           passed == found \/ count <= 0
           ids == IF found /\ count > 0 THEN allocateVMIDs(start, count) ELSE {}
           rep == [p |-> p, node |-> nodeOf(p), template |-> req[r].template, ids |-> ids]
<1>4. config(r).count = count /\ config(r).start = start /\ config(r).node = nodeOf(p)
  BY <1>2, <1>3, MergedIs
<1>5. /\ Report(r, "reported", passed)
      /\ report' = IF (req[r].ready /\ passed) /\ req[r].quiet THEN rep ELSE report
  <2>1. found = (cluster.api /\ VMIDsExist(config(r).start, config(r).count))
    BY <1>4 DEF VMIDsOK
  <2>2. /\ req' = [req EXCEPT ![r].pc = "reported", ![r].ready = req[r].ready /\ passed]
        /\ report' = IF (req[r].ready /\ passed) /\ req[r].quiet THEN rep ELSE report
    BY <1>3, <1>4, <2>1 DEF CheckVMIDs
  <2> QED
    BY <2>2 DEF Report
<1>6. count \in Int /\ found \in BOOLEAN /\ passed \in BOOLEAN /\ ids \in SUBSET VMID
  <2>1. countOf(p) \in Int /\ allocateVMIDs(startOf(p), countOf(p)) \in SUBSET VMID
    BY <1>1, MergedTypes
  <2>2. found \in BOOLEAN
    BY DEF VMIDsOK
  <2> QED
    BY <2>1, <2>2
<1> HIDE DEF passed
<1>7. PICK q \in Served :
        /\ req' \in [Request -> Served] /\ req'[r] = q
        /\ \A s \in Request \ {r} : req'[s] = req[s]
        /\ q.pc = "reported" /\ q.kind = req[r].kind /\ q.from = req[r].from
        /\ q.p = req[r].p /\ q.template = req[r].template
        /\ q.ready = (req[r].ready /\ passed) /\ q.quiet = req[r].quiet
  BY <1>1, <1>5, <1>6, ReportIs
<1>8. req[r].quiet =>
        /\ q.template = templateOf(p)
        /\ q.ready <=> /\ TemplateOK(p) /\ NodeOK(p) /\ StoreOK(p) /\ DirOK(p)
                       /\ KeyOK(p) /\ VMIDsOK(p)
  <2>1. PICK a \in Served : a = req[r]
    BY <1>1
  <2>2. a.quiet => PreflightInv(a)
    BY <1>1, <1>2, <2>1 DEF AnswersInv, AnswerInv
  <2>3. KeyOK(p) => (passed <=> VMIDsOK(p))
    BY <1>6 DEF KeyOK, passed
  <2> QED
    BY <1>2, <1>3, <1>7, <2>1, <2>2, <2>3 DEF PreflightInv
<1>9. AnswerInv(q)
  BY <1>2, <1>3, <1>7, <1>8 DEF AnswerInv, PreflightInv
<1>10. Reports' /\ ReportInv'
  <2>1. CASE (req[r].ready /\ passed) /\ req[r].quiet
    <3>1. report' = rep
      BY <1>5, <2>1
    <3>2. TemplateOK(p) /\ KeyOK(p) /\ VMIDsOK(p) /\ req[r].template = templateOf(p)
      BY <1>7, <1>8, <2>1
    <3>3. req[r].template \in Nat \ {0}
      <4>1. req[r].template \in Int /\ req[r].template > 0
        BY <1>1, <3>2 DEF Served, TemplateOK
      <4> QED
        BY <4>1
    <3>4. ids = allocateVMIDs(startOf(p), countOf(p))
      BY <1>6, <3>2 DEF KeyOK
    <3> HIDE DEF ids
    <3>5. /\ rep \in Ready
          /\ rep.p = p /\ rep.node = nodeOf(p) /\ rep.template = req[r].template /\ rep.ids = ids
      BY <1>1, <1>6, <3>3, MergedTypes DEF Ready
    <3> HIDE DEF rep
    <3>6. ReportHolds(rep)
      BY <3>2, <3>4, <3>5 DEF ReportHolds
    <3>7. Reports'
      BY <3>1, <3>5 DEF Reports
    <3>8. \A a : ReportHolds(a)' <=> ReportHolds(a)
      BY <1>2, AnswersRest
    <3>9. ReportInv'
      <4>1. PICK a : a = rep
        OBVIOUS
      <4>2. ReportHolds(a)
        BY <3>6, <4>1
      <4>3. SUFFICES ASSUME NEW b, b = report' PROVE ReportHolds(b)'
        BY DEF ReportInv
      <4>4. ReportHolds(b)
        BY <3>1, <4>1, <4>2, <4>3
      <4> QED
        BY <3>8, <4>4
    <3> QED
      BY <3>7, <3>9
  <2>2. CASE ~((req[r].ready /\ passed) /\ req[r].quiet)
    <3>1. report' = report
      BY <1>5, <2>2
    <3> QED
      BY <1>2, <3>1, ReportRests
  <2> QED
    BY <2>1, <2>2
<1> QED
  BY <1>2, <1>7, <1>9, <1>10, HandlerStep

LEMMA ProvisionStep == ASSUME IInv, NEW r \in Request, Provision(r) PROVE IInv' /\ Checked
<1>1. /\ Setting /\ Requests /\ AnswersInv /\ req[r] \in Served /\ req[r].p \in Params
  BY TypeOKParts DEF IInv, Requests, Served
<1>2. /\ req[r].pc = "allocate" /\ req[r].kind = "provision"
      /\ UNCHANGED <<cfg, cluster, changes, page, report>>
  BY DEF Provision, Ask, Told
<1>3. PICK p \in Params : req[r].p = p
  BY <1>1
<1> DEFINE count == countOf(p)
           start == startOf(p)
<1>4. config(r).count = count /\ config(r).start = start
  BY <1>3, MergedIs
<1>5. req[r].quiet => p.decodes /\ req[r].template = templateFor(p)
  <2>1. PICK a \in Served : a = req[r]
    BY <1>1
  <2>2. a.quiet => ProvisionInv(a)
    BY <1>1, <1>2, <2>1 DEF AnswersInv, AnswerInv
  <2> QED
    BY <1>2, <1>3, <2>1, <2>2 DEF ProvisionInv
<1>6. Reports' /\ ReportInv'
  BY <1>2, ReportRests
<1>7. CASE ~VMIDsOK(p)
  <2> DEFINE q == [req[r] EXCEPT !.pc = "refused"]
  <2>1. req' = [req EXCEPT ![r] = q]
    BY <1>4, <1>7 DEF Provision, VMIDsOK
  <2>2. /\ q \in Served /\ q.pc = "refused" /\ q.p = p /\ q.kind = req[r].kind
        /\ q.from = req[r].from
    BY <1>1, <1>3 DEF Served
  <2> HIDE DEF q
  <2>3. req' \in [Request -> Served] /\ req'[r] = q
        /\ \A s \in Request \ {r} : req'[s] = req[s]
    BY <1>1, <2>1, <2>2 DEF Requests
  <2>4. AnswerInv(q)
    BY <1>2, <1>7, <2>2 DEF AnswerInv, ProvisionInv
  <2> QED
    BY <1>2, <1>6, <2>2, <2>3, <2>4, HandlerStep
<1>8. CASE VMIDsOK(p)
  <2> DEFINE pc == IF count < 0 THEN "aborted" ELSE "job"
             ids == allocateVMIDs(start, count)
             q == [req[r] EXCEPT !.pc = pc, !.ids = ids]
  <2>1. req' = [req EXCEPT ![r] = q]
    BY <1>4, <1>8 DEF Provision, VMIDsOK
  <2>2. ids \in SUBSET VMID /\ pc \in {"aborted", "job"}
    BY <1>1, MergedTypes
  <2> HIDE DEF ids, pc
  <2>3. /\ q \in Served /\ q.pc = pc /\ q.p = p /\ q.kind = req[r].kind /\ q.ids = ids
        /\ q.from = req[r].from /\ q.template = req[r].template /\ q.quiet = req[r].quiet
    BY <1>1, <1>3, <2>2 DEF Served
  <2> HIDE DEF q
  <2>4. req' \in [Request -> Served] /\ req'[r] = q
        /\ \A s \in Request \ {r} : req'[s] = req[s]
    BY <1>1, <2>1, <2>3 DEF Requests
  <2>5. q.quiet => ProvisionInv(q)
    BY <1>5, <2>2, <2>3 DEF ProvisionInv, pc, ids
  <2>6. AnswerInv(q)
    <3>1. q.pc # "reported" /\ q.kind = "provision"
      BY <1>2, <2>2, <2>3
    <3> QED
      BY <2>5, <3>1 DEF AnswerInv
  <2> QED
    BY <1>2, <1>6, <2>3, <2>4, <2>6, HandlerStep
<1> QED
  BY <1>7, <1>8

-----------------------------------------------------------------------------
(* The page, other clients and the cluster                                 *)

Sent(r, kind, from, p) ==
  req' = [req EXCEPT ![r] = [Idle EXCEPT !.pc = "template", !.kind = kind, !.from = from,
                                         !.p = p]]

\* What is sent is a request of which nothing is known yet.
LEMMA SentIs ==
  ASSUME Requests, NEW r \in Request, NEW kind \in {"preflight", "provision"},
         NEW from \in {"client", "checks", "submit"}, NEW p \in Params,
         Sent(r, kind, from, p)
  PROVE  \E q \in Served :
           /\ q.kind = kind /\ q.from = from /\ q.p = p /\ AnswerInv(q)
           /\ req' \in [Request -> Served] /\ req'[r] = q
           /\ \A s \in Request \ {r} : req'[s] = req[s]
<1> DEFINE q == [Idle EXCEPT !.pc = "template", !.kind = kind, !.from = from, !.p = p]
<1>1. Idle \in Served
  BY IdleIs
<1>2. "template" \in Asking \cup {"idle", "reported", "job", "refused", "aborted"}
  BY DEF Asking
<1>3. q \in Served /\ q.pc = "template" /\ q.kind = kind /\ q.from = from /\ q.p = p
  <2> HIDE DEF Idle
  <2> QED
    BY <1>1, <1>2 DEF Served
<1>4. req' = [req EXCEPT ![r] = q]
  BY DEF Sent
<1> HIDE DEF q
<1>5. /\ req' \in [Request -> Served] /\ req'[r] = q
      /\ \A s \in Request \ {r} : req'[s] = req[s]
  BY <1>3, <1>4 DEF Requests
<1>6. AnswerInv(q)
  BY <1>3, NothingIsKnown
<1> QED
  BY <1>3, <1>5, <1>6

\* A request is taken from the page: what is left is launching already.
LEMMA LaunchingShrinks ==
  ASSUME NEW r \in Request, \A s \in Request \ {r} : req'[s] = req[s],
         ~(req'[r].kind = "provision" /\ req'[r].from \in {"checks", "submit"})
  PROVE  Launching' = Launching \ {r}
<1>1. ASSUME NEW s PROVE s \in Launching' <=> s \in Launching \ {r}
  BY LaunchingIs
<1> QED
  BY <1>1

\* A step of the page, or of another client, that changes one request.
LEMMA RequestStep ==
  ASSUME IInv, NEW r \in Request, NEW q \in Served, AnswerInv(q),
         req' \in [Request -> Served], req'[r] = q,
         \A s \in Request \ {r} : req'[s] = req[s],
         UNCHANGED <<cfg, cluster, changes, report>>, Page', PageInv'
  PROVE  IInv'
<1>1. Setting /\ Requests
  BY TypeOKParts DEF IInv
<1>2. Reports' /\ ReportInv'
  BY ReportRests
<1>3. TypeOK'
  <2>1. Setting' /\ Requests'
    BY <1>1 DEF Setting, Requests
  <2> QED
    BY <1>2, <2>1, TypeOKParts
<1>4. AnswersInv'
  BY OthersRest
<1> QED
  BY <1>2, <1>3, <1>4 DEF IInv

\* A step of the page alone.
LEMMA PageStep ==
  ASSUME IInv, UNCHANGED <<cfg, cluster, changes, report, req>>, Page', PageInv'
  PROVE  IInv' /\ Checked
<1>1. Setting /\ Requests /\ AnswersInv
  BY TypeOKParts DEF IInv
<1>2. Reports' /\ ReportInv'
  BY ReportRests
<1>3. TypeOK'
  <2>1. Setting' /\ Requests'
    BY <1>1 DEF Setting, Requests
  <2> QED
    BY <1>2, <2>1, TypeOKParts
<1>4. AnswersInv'
  BY <1>1, AnswersRest DEF AnswersInv
<1>5. Checked
  BY LaunchingIs, NothingIsLaunched
<1> QED
  BY <1>2, <1>3, <1>4, <1>5 DEF IInv

\* The page as it is, with no more launches than before.
LEMMA PageRests ==
  ASSUME IInv, UNCHANGED <<cfg, page>>, Launching' \subseteq Launching
  PROVE  Page' /\ PageInv'
<1>1. /\ Page /\ PageInv
      /\ UNCHANGED <<form, result, loading, button, active, late, renewed>>
  BY TypeOKParts DEF IInv, page
<1>2. Page'
  BY <1>1 DEF Page, Forms
<1>3. PageInv'
  BY <1>1 DEF PageInv
<1> QED
  BY <1>2, <1>3

LEMMA FormIs ==
  ASSUME Setting, Page PROVE form \in Params /\ Form \subseteq Params
<1>1. Form \subseteq Params
  BY FormAssumption
<1>2. cfg.start \in VMID \cup {0}
  BY ConfigAssumption DEF Setting
<1>3. \A f \in Params : [f EXCEPT !.start = cfg.start] \in Params
  BY <1>2 DEF Params
<1> QED
  BY <1>1, <1>3 DEF Page, Forms

LEMMA CallAPIStep == ASSUME IInv, NEW r \in Request, CallAPI(r) PROVE IInv' /\ Checked
<1>1. Requests
  BY TypeOKParts DEF IInv
<1>2. PICK kind \in {"preflight", "provision"}, p \in Call :
        Sent(r, kind, "client", p)
  BY DEF CallAPI, Send, Sent
<1>3. UNCHANGED <<cfg, cluster, changes, page, report>>
  BY DEF CallAPI
<1>5. p \in Params
  BY CallAssumption
<1>6. PICK q \in Served :
        /\ q.kind = kind /\ q.from = "client" /\ q.p = p /\ AnswerInv(q)
        /\ req' \in [Request -> Served] /\ req'[r] = q
        /\ \A s \in Request \ {r} : req'[s] = req[s]
  BY <1>1, <1>2, <1>5, SentIs
<1>7. Launching' = Launching \ {r}
  BY <1>6, LaunchingShrinks
<1>8. Page' /\ PageInv'
  BY <1>3, <1>7, PageRests
<1> QED
  BY <1>3, <1>6, <1>7, <1>8, RequestStep, NothingIsLaunched

\* A request that nobody waits for any more.
LEMMA IdleStep ==
  ASSUME Requests, NEW r \in Request, req' = [req EXCEPT ![r] = Idle]
  PROVE  /\ Idle \in Served /\ AnswerInv(Idle)
         /\ req' \in [Request -> Served] /\ req'[r] = Idle
         /\ \A s \in Request \ {r} : req'[s] = req[s]
         /\ Launching' = Launching \ {r}
<1> HIDE DEF Idle
<1>1. Idle \in Served /\ AnswerInv(Idle) /\ Idle.kind = ""
  BY IdleIs, IdleIsAnswered
<1>2. /\ req' \in [Request -> Served] /\ req'[r] = Idle
      /\ \A s \in Request \ {r} : req'[s] = req[s]
  BY <1>1 DEF Requests
<1>3. Launching' = Launching \ {r}
  BY <1>1, <1>2, LaunchingShrinks
<1> QED
  BY <1>1, <1>2, <1>3

LEMMA ReturnStep == ASSUME IInv, NEW r \in Request, Return(r) PROVE IInv' /\ Checked
<1>1. Requests
  BY TypeOKParts DEF IInv
<1>2. req' = [req EXCEPT ![r] = Idle] /\ UNCHANGED <<cfg, cluster, changes, page, report>>
  BY DEF Return
<1>3. Launching' \subseteq Launching
  BY <1>1, <1>2, IdleStep
<1>4. Page' /\ PageInv'
  BY <1>2, <1>3, PageRests
<1> QED
  BY <1>1, <1>2, <1>3, <1>4, IdleStep, RequestStep, NothingIsLaunched

LEMMA ChangeStep == ASSUME IInv, Change PROVE IInv' /\ Checked
<1>1. Setting /\ Requests /\ Page
  BY TypeOKParts DEF IInv
<1>2. /\ changes < MaxChanges /\ changes' = changes + 1 /\ cluster' \in Clusters
      /\ req' = [r \in Request |-> [req[r] EXCEPT !.quiet = req[r].pc = "idle"]]
      /\ report' = none /\ UNCHANGED <<cfg, page>>
  BY DEF Change
<1>3. ASSUME NEW r \in Request
      PROVE  /\ req'[r] \in Served /\ req'[r].pc = req[r].pc
             /\ req'[r].kind = req[r].kind /\ req'[r].from = req[r].from
             /\ req'[r].quiet = (req[r].pc = "idle")
  <2>1. req[r] \in Served
    BY <1>1 DEF Requests
  <2> DEFINE quiet == req[r].pc = "idle"
  <2>2. quiet \in BOOLEAN /\ req'[r] = [req[r] EXCEPT !.quiet = quiet]
    BY <1>2
  <2> HIDE DEF quiet
  <2>3. /\ req'[r] \in Served /\ req'[r].pc = req[r].pc
        /\ req'[r].kind = req[r].kind /\ req'[r].from = req[r].from
        /\ req'[r].quiet = quiet
    BY <2>1, <2>2 DEF Served
  <2> QED
    BY <2>3 DEF quiet
<1>4. Requests'
  BY <1>2, <1>3 DEF Requests
<1>5. ASSUME NEW r \in Request, NEW q \in Served, q = req'[r] PROVE AnswerInv(q)'
  <2>1. PICK a \in Served : a = req[r]
    BY <1>1 DEF Requests
  <2>2. q.pc = "reported" => q.kind = "preflight"
    BY <1>3, <1>5, <2>1 DEF IInv, AnswersInv, AnswerInv
  <2>3. ~q.quiet \/ q.pc = "idle"
    BY <1>3, <1>5
  <2> QED
    BY <2>2, <2>3 DEF AnswerInv, PreflightInv, ProvisionInv
<1>6. Launching' = Launching
  BY <1>3 DEF Launching, Awaited
<1>7. Page' /\ PageInv'
  BY <1>2, <1>6, PageRests
<1>8. Setting'
  BY <1>1, <1>2, ChangesAssumption DEF Setting
<1>9. Reports' /\ ReportInv'
  BY <1>2 DEF Reports, ReportInv
<1>10. TypeOK'
  BY <1>4, <1>7, <1>8, <1>9, TypeOKParts
<1>11. AnswersInv'
  BY <1>5 DEF AnswersInv
<1> QED
  BY <1>6, <1>7, <1>9, <1>10, <1>11, NothingIsLaunched DEF IInv

LEMMA EditStep == ASSUME IInv, Edit PROVE IInv' /\ Checked
<1>1. Page
  BY TypeOKParts DEF IInv
<1>2. /\ form' \in Form /\ result' = none /\ button' = FALSE
      /\ late' = FALSE
      /\ UNCHANGED <<loading, active, renewed, req, cfg, cluster, changes, report>>
  BY DEF Edit, Server
<1>3. Page'
  BY <1>1, <1>2 DEF Page, Forms
<1>4. PageInv'
  <2>1. Launching' = Launching
    BY <1>2 DEF Launching, Awaited
  <2> QED
    BY <1>2, <2>1 DEF IInv, PageInv
<1> QED
  BY <1>2, <1>3, <1>4, PageStep

LEMMA NewStep == ASSUME IInv, New PROVE IInv' /\ Checked
<1>1. Page
  BY TypeOKParts DEF IInv
<1>2. /\ form' \in Form /\ result' = none /\ button' = FALSE /\ active' = FALSE
      /\ late' = FALSE
      /\ UNCHANGED <<loading, renewed, req, cfg, cluster, changes, report>>
  BY DEF New, Server
<1>3. Page'
  BY <1>1, <1>2 DEF Page, Forms
<1>4. PageInv'
  <2>1. Launching' = Launching
    BY <1>2 DEF Launching, Awaited
  <2> QED
    BY <1>2, <2>1 DEF IInv, PageInv
<1> QED
  BY <1>2, <1>3, <1>4, PageStep

LEMMA ConfigLoadedStep == ASSUME IInv, ConfigLoaded PROVE IInv' /\ Checked
<1>1. Setting /\ Page /\ PageInv
  BY TypeOKParts DEF IInv
<1>2. /\ form' = [form EXCEPT !.start = cfg.start]
      /\ button' = (Passed(result) /\ ~active)
      /\ late' = (result # none /\ (late \/ form' # form)) /\ renewed' = (Launching # {})
      /\ UNCHANGED <<result, loading, active, req, cfg, cluster, changes, report>>
  BY DEF ConfigLoaded, Server
<1>3. form' \in Forms'
  <2>1. CASE form \in Form
    BY <1>2, <2>1 DEF Forms
  <2>2. CASE form \notin Form
    <3>1. PICK f \in Form : form = [f EXCEPT !.start = cfg.start]
      BY <1>1, <2>2 DEF Page, Forms
    <3>2. f \in Params
      BY FormAssumption
    <3>3. form' = form
      BY <1>2, <3>1, <3>2 DEF Params
    <3> QED
      BY <1>2, <3>1, <3>3 DEF Forms
  <2> QED
    BY <2>1, <2>2
<1>4. Page'
  <2>1. button' \in BOOLEAN /\ late' \in BOOLEAN /\ renewed' \in BOOLEAN
    BY <1>2
  <2> QED
    BY <1>1, <1>2, <1>3, <2>1 DEF Page
<1>5. PageInv'
  <2>1. Launching' = Launching
    BY <1>2 DEF Launching, Awaited
  <2>2. ~late' => result = none \/ (~late /\ form' = form)
    BY <1>2
  <2>3. ~renewed' => Launching = {}
    BY <1>2
  <2> QED
    BY <1>1, <1>2, <2>1, <2>2, <2>3 DEF PageInv
<1> QED
  BY <1>2, <1>4, <1>5, PageStep

LEMMA RunChecksStep == ASSUME IInv, NEW r \in Request, RunChecks(r) PROVE IInv' /\ Checked
<1>1. Setting /\ Requests /\ Page /\ PageInv
  BY TypeOKParts DEF IInv
<1>2. /\ Sent(r, "preflight", "checks", form) /\ loading' = TRUE
      /\ UNCHANGED <<form, result, button, active, late, renewed, cfg, cluster, changes,
                     report>>
  BY DEF RunChecks, Server, Send, Sent
<1>3. PICK p \in Params : p = form
  BY <1>1, FormIs
<1>4. Sent(r, "preflight", "checks", p)
  BY <1>2, <1>3
<1>6. PICK q \in Served :
        /\ q.kind = "preflight" /\ q.from = "checks" /\ q.p = p /\ AnswerInv(q)
        /\ req' \in [Request -> Served] /\ req'[r] = q
        /\ \A s \in Request \ {r} : req'[s] = req[s]
  BY <1>1, <1>4, SentIs
<1>7. Launching' = Launching \ {r}
  BY <1>6, LaunchingShrinks
<1>8. Page'
  BY <1>1, <1>2 DEF Page, Forms
<1>9. PageInv'
  BY <1>1, <1>2, <1>7 DEF PageInv
<1> QED
  BY <1>2, <1>6, <1>7, <1>8, <1>9, RequestStep, NothingIsLaunched

\* A launch, by a page whose result and whose other launches allow it.
LEMMA LaunchStep ==
  ASSUME IInv, NEW r \in Request, Sent(r, "provision", "submit", form),
         UNCHANGED <<form, cfg, cluster, changes, report>>, Page',
         button' = FALSE, Passed(result'), late' \/ result'.p = form,
         renewed' \/ Launching = {}
  PROVE  IInv' /\ Checked
<1>1. Setting /\ Requests /\ Page
  BY TypeOKParts DEF IInv
<1>2. PICK p \in Params : p = form
  BY <1>1, FormIs
<1>3. Sent(r, "provision", "submit", p)
  BY <1>2
<1>4. PICK q \in Served :
        /\ q.kind = "provision" /\ q.from = "submit" /\ q.p = p /\ AnswerInv(q)
        /\ req' \in [Request -> Served] /\ req'[r] = q
        /\ \A s \in Request \ {r} : req'[s] = req[s]
  BY <1>1, <1>3, SentIs
<1>5. Launching' = Launching \cup {r}
  <2>1. ASSUME NEW s PROVE s \in Launching' <=> s \in Launching \cup {r}
    BY <1>4, LaunchingIs
  <2> QED
    BY <2>1
<1>6. PageInv'
  <2>1. ~late' => result'.p = form'
    OBVIOUS
  <2>2. ~renewed' => Launching' = {r} /\ ~button'
    BY <1>5
  <2> QED
    BY <2>1, <2>2 DEF PageInv
<1>7. IInv'
  BY <1>4, <1>6, RequestStep
<1>8. Checked
  <2>1. SUFFICES ASSUME NEW s \in Request, Launches(s)
                 PROVE  Passed(result') /\ (result'.p = req'[s].p \/ late')
    BY DEF Checked
  <2>2. s = r
    BY <1>5, <2>1, LaunchingIs
  <2> QED
    BY <1>2, <1>4, <2>1, <2>2
<1> QED
  BY <1>7, <1>8

LEMMA SubmitStep == ASSUME IInv, NEW r \in Request, Submit(r) PROVE IInv' /\ Checked
<1>1. Setting /\ Requests /\ Page /\ PageInv
  BY TypeOKParts DEF IInv
<1>2. /\ button
      /\ UNCHANGED <<form, result, active, late, renewed, cfg, cluster, changes, report>>
      /\ \/ /\ Passed(result) /\ Sent(r, "provision", "submit", form)
            /\ button' = FALSE /\ UNCHANGED loading
         \/ /\ Sent(r, "preflight", "submit", form)
            /\ loading' = TRUE /\ UNCHANGED button
  BY DEF Submit, Server, Send, Sent
<1>3. Page'
  BY <1>1, <1>2 DEF Page, Forms
<1>4. CASE Passed(result) /\ Sent(r, "provision", "submit", form) /\ button' = FALSE
  <2>1. (late \/ result.p = form) /\ (renewed \/ Launching = {})
    BY <1>1, <1>2, <1>4 DEF PageInv, Passed
  <2>2. Passed(result') /\ (late' \/ result'.p = form) /\ (renewed' \/ Launching = {})
    BY <1>2, <1>4, <2>1 DEF Passed
  <2> QED
    BY <1>2, <1>3, <1>4, <2>2, LaunchStep
<1>5. CASE Sent(r, "preflight", "submit", form) /\ UNCHANGED button
  <2>1. PICK p \in Params : p = form
    BY <1>1, FormIs
  <2>2. Sent(r, "preflight", "submit", p)
    BY <1>5, <2>1
  <2>3. PICK q \in Served :
          /\ q.kind = "preflight" /\ q.from = "submit" /\ q.p = p /\ AnswerInv(q)
          /\ req' \in [Request -> Served] /\ req'[r] = q
          /\ \A s \in Request \ {r} : req'[s] = req[s]
    BY <1>1, <2>2, SentIs
  <2>4. Launching' = Launching \ {r}
    BY <2>3, LaunchingShrinks
  <2>5. PageInv'
    BY <1>1, <1>2, <1>5, <2>4 DEF PageInv
  <2> QED
    BY <1>2, <1>3, <2>3, <2>4, <2>5, RequestStep, NothingIsLaunched
<1> QED
  BY <1>2, <1>4, <1>5

LEMMA TakeReportStep == ASSUME IInv, NEW r \in Request, TakeReport(r) PROVE IInv' /\ Checked
<1>1. Setting /\ Requests /\ Page /\ PageInv /\ req[r] \in Served
  BY TypeOKParts DEF IInv, Requests
<1>2. /\ result' = [p |-> req[r].p, ready |-> req[r].ready] /\ loading' = FALSE
      /\ late' = (form # req[r].p) /\ renewed' = (Launching # {})
      /\ \/ /\ req[r].ready /\ Sent(r, "provision", "submit", form)
            /\ button' = FALSE
         \/ /\ req' = [req EXCEPT ![r] = Idle]
            /\ button' = (req[r].ready /\ ~active)
      /\ UNCHANGED <<form, active, cfg, cluster, changes, report>>
  BY DEF TakeReport, Server, Sent
<1>3. result' \in [p : Params, ready : BOOLEAN] /\ result'.p = req[r].p
      /\ result'.ready = req[r].ready
  BY <1>1, <1>2 DEF Served
<1>4. Page'
  <2>1. button' \in BOOLEAN /\ late' \in BOOLEAN /\ renewed' \in BOOLEAN
    BY <1>2
  <2> QED
    BY <1>1, <1>2, <1>3, <2>1 DEF Page, Forms
<1>5. (late' \/ req[r].p = form) /\ (renewed' \/ Launching = {})
  BY <1>2
<1>6. CASE req[r].ready /\ Sent(r, "provision", "submit", form) /\ button' = FALSE
  <2>1. Passed(result')
    BY <1>3, <1>6, NoneAssumption DEF Passed
  <2>2. late' \/ result'.p = form
    BY <1>3, <1>5
  <2> QED
    BY <1>2, <1>4, <1>5, <1>6, <2>1, <2>2, LaunchStep
<1>7. CASE req' = [req EXCEPT ![r] = Idle]
  <2>1. Launching' = Launching \ {r}
    BY <1>1, <1>7, IdleStep
  <2>2. PageInv'
    <3>1. ~late' => result'.p = form'
      BY <1>2, <1>3, <1>5
    <3>2. ~renewed' => Launching' = {}
      BY <1>5, <2>1
    <3> QED
      BY <3>1, <3>2 DEF PageInv
  <2>3. Launching' \subseteq Launching
    BY <2>1
  <2> QED
    BY <1>1, <1>2, <1>4, <1>7, <2>2, <2>3, IdleStep, RequestStep, NothingIsLaunched
<1> QED
  BY <1>2, <1>6, <1>7

LEMMA NoReportStep == ASSUME IInv, NEW r \in Request, NoReport(r) PROVE IInv' /\ Checked
<1>1. Setting /\ Requests /\ Page /\ PageInv
  BY TypeOKParts DEF IInv
<1>2. /\ req' = [req EXCEPT ![r] = Idle] /\ result' = none /\ loading' = FALSE
      /\ button' = FALSE /\ late' = FALSE
      /\ UNCHANGED <<form, active, renewed, cfg, cluster, changes, report>>
  BY DEF NoReport, Server
<1>3. Launching' = Launching \ {r}
  BY <1>1, <1>2, IdleStep
<1>4. Page'
  BY <1>1, <1>2 DEF Page, Forms
<1>5. PageInv'
  BY <1>1, <1>2, <1>3 DEF PageInv
<1>6. Launching' \subseteq Launching
  BY <1>3
<1> QED
  BY <1>1, <1>2, <1>4, <1>5, <1>6, IdleStep, RequestStep, NothingIsLaunched

LEMMA TakeJobStep == ASSUME IInv, NEW r \in Request, TakeJob(r) PROVE IInv' /\ Checked
<1>1. Setting /\ Requests /\ Page /\ PageInv
  BY TypeOKParts DEF IInv
<1>2. /\ req' = [req EXCEPT ![r] = Idle] /\ active' = TRUE /\ button' = FALSE
      /\ renewed' = (renewed /\ Launching' # {})
      /\ UNCHANGED <<form, result, loading, late, cfg, cluster, changes, report>>
  BY DEF TakeJob, Server
<1>3. Launching' = Launching \ {r}
  BY <1>1, <1>2, IdleStep
<1>4. Page'
  BY <1>1, <1>2 DEF Page, Forms
<1>5. PageInv'
  BY <1>1, <1>2, <1>3 DEF PageInv
<1>6. Launching' \subseteq Launching
  BY <1>3
<1> QED
  BY <1>1, <1>2, <1>4, <1>5, <1>6, IdleStep, RequestStep, NothingIsLaunched

LEMMA NoJobStep == ASSUME IInv, NEW r \in Request, NoJob(r) PROVE IInv' /\ Checked
<1>1. Setting /\ Requests /\ Page /\ PageInv /\ AnswersInv
  BY TypeOKParts DEF IInv
<1>2. /\ Awaited(r, "provision")
      /\ req' = [req EXCEPT ![r].from = "client"] /\ button' \in {button, ~active}
      /\ renewed' = (renewed /\ Launching' # {})
      /\ UNCHANGED <<form, result, loading, active, late, cfg, cluster, changes, report>>
  BY DEF NoJob, Server
<1> DEFINE q == [req[r] EXCEPT !.from = "client"]
<1>3. req[r] \in Served
  BY <1>1 DEF Requests
<1>4. /\ q \in Served /\ q.pc = req[r].pc /\ q.kind = req[r].kind /\ q.from = "client"
      /\ q.p = req[r].p /\ q.template = req[r].template /\ q.ids = req[r].ids
      /\ q.ready = req[r].ready /\ q.quiet = req[r].quiet
  BY <1>3 DEF Served
<1>5. req' = [req EXCEPT ![r] = q]
  BY <1>2
<1> HIDE DEF q
<1>6. /\ req' \in [Request -> Served] /\ req'[r] = q
      /\ \A s \in Request \ {r} : req'[s] = req[s]
  BY <1>1, <1>4, <1>5 DEF Requests
<1>7. AnswerInv(q)
  <2>1. PICK a \in Served : a = req[r]
    BY <1>3
  <2>2. AnswerInv(a)
    BY <1>1, <2>1 DEF AnswersInv
  <2> QED
    BY <1>4, <2>1, <2>2 DEF AnswerInv, PreflightInv, ProvisionInv
<1>8. Launching' = Launching \ {r} /\ r \in Launching
  BY <1>2, <1>4, <1>6, LaunchingShrinks DEF Launching
<1>9. Page'
  <2>1. button' \in BOOLEAN /\ renewed' \in BOOLEAN
    BY <1>1, <1>2 DEF Page
  <2> QED
    BY <1>1, <1>2, <2>1 DEF Page, Forms
<1>10. PageInv'
  <2>1. ~renewed' => Launching' = {}
    <3>1. CASE ~renewed
      BY <1>1, <1>8, <3>1 DEF PageInv
    <3>2. CASE renewed
      BY <1>2, <3>2
    <3> QED
      BY <3>1, <3>2
  <2>2. ~late' => (result' # none => result'.p = form')
    BY <1>1, <1>2 DEF PageInv
  <2> QED
    BY <2>1, <2>2 DEF PageInv
<1> QED
  BY <1>2, <1>4, <1>6, <1>7, <1>8, <1>9, <1>10, RequestStep, NothingIsLaunched

-----------------------------------------------------------------------------
(* Numbers: as many as there are can be chosen                             *)

LEMMA SubsetOfSize ==
  ASSUME NEW S, IsFiniteSet(S), NEW k \in Nat
  PROVE  k <= Cardinality(S) <=> \E T \in SUBSET S : Cardinality(T) = k
<1>1. ASSUME NEW T \in SUBSET S, Cardinality(T) = k PROVE k <= Cardinality(S)
  BY <1>1, FS_Subset
<1>2. ASSUME k <= Cardinality(S) PROVE \E T \in SUBSET S : Cardinality(T) = k
  <2> DEFINE n == Cardinality(S)
  <2>1. n \in Nat /\ ExistsBijection(1 .. n, S)
    BY FS_CardinalityType
  <2>2. PICK f \in Bijection(1 .. n, S) : TRUE
    BY <2>1 DEF ExistsBijection
  <2>3. f \in [1 .. n -> S] /\ \A a, b \in 1 .. n : f[a] = f[b] => a = b
    BY <2>2 DEF Bijection, Injection, IsInjective
  <2>4. 1 .. k \subseteq 1 .. n
    BY <1>2, <2>1
  <2> DEFINE g == [i \in 1 .. k |-> f[i]]
             T == {f[i] : i \in 1 .. k}
  <2>5. T \in SUBSET S
    BY <2>3, <2>4
  <2>6. g \in [1 .. k -> T] /\ \A a, b \in 1 .. k : g[a] = g[b] => a = b
    BY <2>3, <2>4
  <2>7. \A t \in T : \E i \in 1 .. k : g[i] = t
    OBVIOUS
  <2>8. g \in Bijection(1 .. k, T)
    <3> HIDE DEF g, T
    <3> QED
      BY <2>6, <2>7, Fun_IsBij
  <2>9. Cardinality(T) = k
    <3> HIDE DEF g, T
    <3> QED
      BY <2>8, FS_CountingElements DEF ExistsBijection
  <2> QED
    BY <2>5, <2>9
<1> QED
  BY <1>1, <1>2

LEMMA IntegersCompare ==
  \A i \in Int : /\ i > 0 <=> ~(i <= 0)
                 /\ i >= 1 <=> i > 0
                 /\ i > 0 => i \in Nat
OBVIOUS

\* All but the template.
LEMMA PreparedIs ==
  ASSUME Setting, NEW p \in Params
  PROVE  /\ Prepared(p) <=> /\ NodeOK(p) /\ StoreOK(p) /\ DirOK(p) /\ KeyOK(p) /\ VMIDsOK(p)
         /\ targetNode(p) = nodeOf(p)
<1> DEFINE node == targetNode(p)
           start == IF p.start = 0 THEN cfg.start ELSE p.start
           count == IF p.count <= 0 THEN cfg.count ELSE p.count
<1>1. /\ nodeOf(p) \in Node /\ countOf(p) \in Int /\ startOf(p) \in VMID
      /\ IsFiniteSet(Free(startOf(p)))
  BY MergedTypes
<1>2. VMID \subseteq Int /\ \A v \in VMID : v > 0
  BY LastVMIDAssumption DEF VMID
<1>3. /\ p.count \in Int
      /\ p.start \in VMID \/ p.start = 0
  BY DEF Params
<1>4. node = nodeOf(p) /\ count = countOf(p) /\ start = startOf(p)
  <2>1. node = nodeOf(p)
    BY DEF nodeOf, targetNode
  <2>2. count = countOf(p)
    <3>1. p.count > 0 <=> ~(p.count <= 0)
      BY <1>3, IntegersCompare, Zenon
    <3> QED
      BY <3>1 DEF countOf
  <2>3. start = startOf(p)
    <3>1. p.start > 0 <=> p.start # 0
      <4>1. CASE p.start \in VMID
        <5>1. \A v \in VMID : v > 0 /\ v # 0
          BY <1>2
        <5> QED
          BY <4>1, <5>1
      <4>2. CASE p.start = 0
        <5>1. ~(0 > 0)
          OBVIOUS
        <5> QED
          BY <4>2, <5>1, Zenon
      <4> QED
        BY <1>3, <4>1, <4>2
    <3> QED
      BY <3>1 DEF startOf
  <2> QED
    BY <2>1, <2>2, <2>3
<1>6. ASSUME count > 0
      PROVE  (\E ids \in SUBSET (start .. LastVMID) :
                 Cardinality(ids) = count /\ ids \cap cluster.used = {})
             <=> VMIDsExist(startOf(p), countOf(p))
  <2>1. count \in Nat
    <3> HIDE DEF count
    <3> QED
      BY <1>1, <1>4, <1>6, IntegersCompare, Zenon
  <2> HIDE DEF start, count
  <2>2. count <= Cardinality(Free(start)) <=>
          \E T \in SUBSET Free(start) : Cardinality(T) = count
    <3>1. IsFiniteSet(Free(start))
      BY <1>1, <1>4
    <3> QED
      BY <2>1, <3>1, SubsetOfSize
  <2>3. \A ids : ids \in SUBSET Free(start) <=>
                   ids \in SUBSET (start .. LastVMID) /\ ids \cap cluster.used = {}
    BY DEF Free
  <2>4. VMIDsExist(start, count) <=> count <= Cardinality(Free(start))
    <3>1. Cardinality(Free(start)) \in Nat
      BY <1>1, <1>4, FS_CardinalityType
    <3> QED
      BY <2>1, <3>1 DEF VMIDsExist
  <2> QED
    BY <1>4, <2>2, <2>3, <2>4
<1>7. KeyOK(p) <=> cluster.caKey /\ count > 0
  <2>1. count \in Int /\ (count >= 1 <=> count > 0)
    <3> HIDE DEF count
    <3> QED
      BY <1>1, <1>4, IntegersCompare, Zenon
  <2> QED
    BY <1>4, <2>1 DEF KeyOK
<1>8. Prepared(p) <=>
        /\ cluster.api /\ cluster.caKey
        /\ cluster.node[node] = "online"
        /\ cluster.store[node] = "snippets" /\ cluster.dir[node]
        /\ count > 0
        /\ \E ids \in SUBSET (start .. LastVMID) :
              Cardinality(ids) = count /\ ids \cap cluster.used = {}
  BY DEF Prepared
<1> HIDE DEF node, start, count
<1>9. Prepared(p) <=> /\ NodeOK(p) /\ StoreOK(p) /\ DirOK(p) /\ KeyOK(p) /\ VMIDsOK(p)
  BY <1>4, <1>6, <1>7, <1>8 DEF NodeOK, StoreOK, DirOK, VMIDsOK
<1> QED
  BY <1>4, <1>9 DEF node

\* And the template, of which only the number is asked.
LEMMA FeasibleIs ==
  ASSUME Setting, NEW p \in Params
  PROVE  Feasible(p) \/ (Prepared(p) /\ OnlyNumbered(p)) <=> Prepared(p) /\ TemplateOK(p)
<1>1. targetNode(p) = nodeOf(p) /\ nodeOf(p) \in Node
  BY PreparedIs, MergedTypes
<1>2. targetTemplate(p) = templateOf(p)
  <2>1. CASE p.template # ""
    BY <1>1, <2>1 DEF targetTemplate, templateOf, templateVMIDForNode
  <2>2. CASE p.template = ""
    <3>1. p.templateId \in VMID \/ p.templateId = 0
      BY DEF Params
    <3>2. \A v \in VMID : v > 0 /\ v # 0
      BY LastVMIDAssumption DEF VMID
    <3>3. ~(0 > 0)
      OBVIOUS
    <3>4. p.templateId > 0 <=> p.templateId # 0
      BY <3>1, <3>2, <3>3, Zenon
    <3> QED
      BY <2>2, <3>4 DEF targetTemplate, templateOf
  <2> QED
    BY <2>1, <2>2
<1>3. ASSUME <<targetTemplate(p), targetNode(p)>> \in cluster.built PROVE targetTemplate(p) > 0
  <2>1. cluster.built \in SUBSET (VMID \X Node)
    BY ClustersAssumption DEF Setting
  <2>2. targetTemplate(p) \in VMID
    BY <1>3, <2>1
  <2> QED
    BY <2>2, LastVMIDAssumption DEF VMID
<1> QED
  BY <1>2, <1>3 DEF Feasible, OnlyNumbered, TemplateOK

-----------------------------------------------------------------------------
(* The invariant and the theorems                                          *)

LEMMA NextIInv == IInv /\ [Next]_vars => IInv' /\ [Checked]_vars
<1>1. ASSUME IInv, NEW r \in Request,
             CallAPI(r) \/ Return(r) \/ Resolve(r) \/ ListNodes(r) \/ ListNodeStorages(r)
               \/ TestSnippetDir(r) \/ ReadCAKey(r) \/ CheckVMIDs(r) \/ Provision(r)
      PROVE  IInv' /\ Checked
  BY <1>1, CallAPIStep, ReturnStep, ResolveStep, ListNodesStep, ListNodeStoragesStep,
     TestSnippetDirStep, ReadCAKeyStep, CheckVMIDsStep, ProvisionStep
<1>2. ASSUME IInv, NEW r \in Request,
             RunChecks(r) \/ Submit(r) \/ TakeReport(r) \/ NoReport(r) \/ TakeJob(r) \/ NoJob(r)
      PROVE  IInv' /\ Checked
  BY <1>2, RunChecksStep, SubmitStep, TakeReportStep, NoReportStep, TakeJobStep, NoJobStep
<1>3. ASSUME IInv, Change \/ Edit \/ New \/ ConfigLoaded PROVE IInv' /\ Checked
  BY <1>3, ChangeStep, EditStep, NewStep, ConfigLoadedStep
<1>4. ASSUME IInv, UNCHANGED vars PROVE IInv'
  <2>1. UNCHANGED <<cfg, cluster, changes, report, req, page>>
    BY <1>4 DEF vars
  <2>2. Launching' \subseteq Launching
    BY <2>1, LaunchingIs
  <2> QED
    BY <1>4, <2>1, <2>2, PageRests, PageStep
<1> QED
  BY <1>1, <1>2, <1>3, <1>4 DEF Next

THEOREM Invariance == Spec => []IInv
<1>1. IInv /\ [Next]_vars => IInv'
  BY NextIInv
<1> QED
  BY <1>1, InitIInv, PTL DEF Spec

\* Type correctness: a report that is ready names a template and free VMIDs that
\* a cluster can have.
THEOREM TypeCorrect == Spec => []TypeOK
<1>1. IInv => TypeOK
  BY DEF IInv
<1> QED
  BY <1>1, Invariance, PTL

\* handlePreflight says ready, in a cluster that has been at rest since the
\* request came, exactly if the request could be carried out or lacks only a
\* template that a number is on record for, whichever checks it left out.
THEOREM ReportsAreTrue == Spec => []ReportIsTrue
<1>1. IInv => ReportIsTrue
  <2>1. SUFFICES ASSUME IInv, NEW r \in Request, req[r].pc = "reported", req[r].quiet
                 PROVE  req[r].ready <=> \/ Feasible(req[r].p)
                                         \/ Prepared(req[r].p) /\ OnlyNumbered(req[r].p)
    BY DEF ReportIsTrue
  <2>2. Setting /\ Requests
    BY <2>1, TypeOKParts DEF IInv
  <2>3. PICK q \in Served : q = req[r]
    BY <2>2 DEF Requests
  <2>4. PICK p \in Params : p = q.p
    BY <2>3 DEF Served
  <2>5. PreflightInv(q)
    BY <2>1, <2>3 DEF IInv, AnswersInv, AnswerInv
  <2>6. q.ready <=> Prepared(p) /\ TemplateOK(p)
    BY <2>1, <2>2, <2>3, <2>4, <2>5, PreparedIs DEF PreflightInv
  <2>7. q.ready <=> Feasible(p) \/ (Prepared(p) /\ OnlyNumbered(p))
    BY <2>2, <2>6, FeasibleIs
  <2> QED
    BY <2>3, <2>4, <2>7
<1> QED
  BY <1>1, Invariance, PTL

\* handleProvision delivers what handlePreflight announced, in a cluster that has
\* been at rest: a job, on the same node, from the same template and with the
\* same VMIDs, unless there is white space in the node or the body is one that
\* handleProvision cannot decode, and then it does not.
THEOREM PreflightsPredict == Spec => []PreflightPredicts
<1>1. IInv => PreflightPredicts
  <2>1. SUFFICES ASSUME IInv, NEW r \in Request, req[r].kind = "provision",
                        req[r].pc \in {"job", "refused", "aborted"}, req[r].quiet,
                        report # none, report.p = req[r].p
                 PROVE  req[r].p.decodes /\ ~req[r].p.spaces <=>
                          /\ req[r].pc = "job" /\ config(r).node = report.node
                          /\ req[r].template = report.template /\ req[r].ids = report.ids
    BY DEF PreflightPredicts
  <2>2. Setting /\ Requests /\ Reports /\ ReportInv
    BY <2>1, TypeOKParts DEF IInv
  <2>3. PICK q \in Served : q = req[r]
    BY <2>2 DEF Requests
  <2>4. PICK rep \in Ready : rep = report
    BY <2>1, <2>2 DEF Reports
  <2>5. PICK p \in Params : p = q.p /\ p = rep.p
    BY <2>1, <2>3, <2>4 DEF Served
  <2>6. ReportHolds(rep)
    BY <2>1, <2>2, <2>4 DEF ReportInv
  <2>7. ProvisionInv(q)
    BY <2>1, <2>3 DEF IInv, AnswersInv, AnswerInv
  <2>8. config(r).node = nodeFor(p)
    BY <2>1, <2>3, <2>5, MergedIs
  <2>9. rep.node = nodeOf(p) /\ nodeOf(p) \in Node
    BY <2>2, <2>5, <2>6, MergedTypes DEF ReportHolds
  <2>10. ASSUME p.decodes, ~p.spaces
         PROVE  /\ q.pc = "job" /\ config(r).node = rep.node
                /\ q.template = rep.template /\ q.ids = rep.ids
    <3>1. nodeFor(p) = nodeOf(p)
      BY <2>10 DEF nodeFor
    <3>2. templateFor(p) = templateOf(p)
      BY <3>1 DEF templateFor, templateOf
    <3>3. templateOf(p) # 0 /\ ~(countOf(p) < 0) /\ VMIDsOK(p)
      <4>1. countOf(p) \in Int /\ templateOf(p) \in Int
        BY <2>2, MergedTypes
      <4>2. templateOf(p) > 0 /\ countOf(p) >= 1 /\ VMIDsOK(p)
        BY <2>5, <2>6 DEF ReportHolds, TemplateOK, KeyOK
      <4> QED
        BY <4>1, <4>2
    <3>4. q.pc = "job"
      <4>1. q.pc # "refused" /\ q.pc # "aborted"
        BY <2>5, <2>7, <2>10, <3>2, <3>3 DEF ProvisionInv
      <4> QED
        BY <2>1, <2>3, <4>1
    <3>5. q.template = rep.template /\ q.ids = rep.ids
      BY <2>5, <2>6, <2>7, <3>2, <3>4 DEF ProvisionInv, ReportHolds
    <3> QED
      BY <2>8, <2>9, <3>1, <3>4, <3>5
  <2>11. ASSUME q.pc = "job", config(r).node = rep.node PROVE p.decodes /\ ~p.spaces
    <3>1. p.decodes
      BY <2>5, <2>7, <2>11 DEF ProvisionInv
    <3>2. ~p.spaces
      BY <2>8, <2>9, <2>11, NamesAssumption DEF nodeFor
    <3> QED
      BY <3>1, <3>2
  <2> QED
    BY <2>3, <2>4, <2>5, <2>10, <2>11
<1> QED
  BY <1>1, Invariance, PTL

\* While the answer to a launch is out the page starts no second one, unless a
\* report or the configuration has come and rendered it anew since the launch.
THEOREM LaunchesAreSingle == Spec => []LaunchIsSingle
<1>1. IInv => LaunchIsSingle
  <2>1. SUFFICES ASSUME IInv, ~renewed PROVE Cardinality(Launching) <= 1
    BY DEF LaunchIsSingle
  <2>2. \A r, s \in Launching : r = s
    BY <2>1 DEF IInv, PageInv
  <2>3. CASE Launching = {}
    BY <2>3, FS_EmptySet
  <2>4. CASE Launching # {}
    <3>1. PICK r : Launching = {r}
      BY <2>2, <2>4
    <3>2. Cardinality({r}) = 1
      BY FS_Singleton
    <3> QED
      BY <3>1, <3>2
  <2> QED
    BY <2>3, <2>4
<1> QED
  BY <1>1, Invariance, PTL

\* The page launches nothing without a ready report, and it launches the form
\* that the report is about, unless that report came after an edit or the
\* configuration was loaded under it.
THEOREM LaunchesWereChecked == Spec => LaunchWasChecked
<1>1. IInv /\ [Next]_vars => [Checked]_vars
  BY NextIInv
<1>2. [Checked]_vars => [\A r \in Request :
                           Launches(r) =>
                             Passed(result') /\ (result'.p = req'[r].p \/ late')]_vars
  BY DEF Checked
<1> QED
  BY <1>1, <1>2, Invariance, PTL DEF Spec, LaunchWasChecked

=============================================================================
