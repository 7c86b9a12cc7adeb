------------------------- MODULE ProvisioningProofs -------------------------
(***************************************************************************)
(* Theorems about Provisioning, for any jobs, VMIDs, operators and number  *)
(* of operator requests.                                                   *)
(***************************************************************************)
EXTENDS Provisioning, FiniteSetTheorems, WellFoundedInduction, TLAPS

PipeState == [step : Steps, vmid : VMID \cup {0}]
VM == [state : {"none", "cloning", "stopped", "running"},
       owner : Owner, ci : BOOLEAN, key : Owner]
Request == [pc : {"idle", "start", "stop", "reboot", "delete"}, vmid : VMID \cup {0}]

\* TypeOK in parts.
Pipes == pipe \in [Pipe -> PipeState] /\ task \in [Pipe -> {"none", "running", "OK", "error"}]
Numbered == \A p \in Pipe : pipe[p].vmid = 0 <=> pipe[p].step = "idle"
Separate ==
  \A p, q \in Pipe :
     p # q /\ p[1] = q[1] /\ pipe[p].vmid # 0 => pipe[p].vmid # pipe[q].vmid
Cloud == /\ vms \in [VMID -> VM]
         /\ snippet \in [VMID -> Owner] /\ vault \in [VMID -> Owner]
Operators == op \in [Operator -> Request] /\ operations \in 0 .. MaxOperations
Meddling == meddled \subseteq VMID

-----------------------------------------------------------------------------
(* The inductive invariant                                                 *)

\* The steps after which a pipeline's key is in the vault, in the snippet, and
\* in the configuration of its VM; and those that have seen the clone done.
Keyed == {"writing_snippet", "injecting", "booting", "waiting_ip", "ready"}
Written == {"injecting", "booting", "waiting_ip", "ready"}
Injected == {"booting", "waiting_ip", "ready"}
Cloned == {"configuring", "generating_cert"} \cup Keyed

\* The pipelines of a job start together.
Together ==
  \A p, q \in Pipe : p[1] = q[1] => (pipe[p].step = "idle" <=> pipe[q].step = "idle")

\* A clone task goes with its pipeline, and with the VM it is making.
TaskInv(p) ==
  /\ pipe[p].step \in {"idle", "cloning"} => task[p] = "none"
  /\ pipe[p].step \in Cloned => task[p] = "OK"
  /\ task[p] = "running" => /\ vms[pipe[p].vmid].state = "cloning"
                            /\ vms[pipe[p].vmid].owner = p

\* A number that is free has no VM, and a VM has the number of its owner.
VMInv(v) ==
  /\ vms[v].state = "none" => vms[v] = NoVM
  /\ vms[v].owner \in Pipe => /\ pipe[vms[v].owner].vmid = v
                              /\ pipe[vms[v].owner].step # "cloning"

\* How far a pipeline has brought its own VM, if nobody meddled with it.
Progress(p) ==
  LET v == pipe[p].vmid
  IN  v \in VMID \ meddled /\ vms[v].owner = p =>
        /\ pipe[p].step \in Keyed => vault[v] = p
        /\ pipe[p].step \in Written => snippet[v] = p
        /\ pipe[p].step \in Injected => vms[v].ci
        /\ Owning(p) /\ vms[v].state = "running" =>
              pipe[p].step = "waiting_ip" /\ vms[v].key = p
        /\ pipe[p].step = "ready" => vms[v].key = p

\* An operator's request is about a number.
OpInv(o) == op[o].pc # "idle" => op[o].vmid \in VMID

IInv ==
  /\ TypeOK
  /\ Together
  /\ \A p \in Pipe : TaskInv(p)
  /\ \A v \in VMID : VMInv(v)
  /\ \A p \in Pipe : Progress(p)
  /\ \A o \in Operator : OpInv(o)
  /\ WorksOnOwnVM

-----------------------------------------------------------------------------
(* Allocation: the i-th free number from the start                         *)

\* Every set of numbers has a least one: the intervals that end in its elements
\* are finite sets, and the smallest of them ends in it.
LEMMA LeastNumber ==
  ASSUME NEW S, S \subseteq Nat, S # {}
  PROVE  \E m \in S : \A k \in S : m <= k
<1> DEFINE Up == {0 .. k : k \in S}
<1>1. Up \subseteq FiniteSubsetsOf(Nat)
  <2>1. ASSUME NEW k \in S PROVE 0 .. k \subseteq Nat /\ IsFiniteSet(0 .. k)
    BY FS_Interval
  <2> QED
    BY <2>1 DEF FiniteSubsetsOf
<1>2. Up # {}
  OBVIOUS
<1>3. PICK I \in Up : \A J \in Up : <<J, I>> \notin StrictSubsetOrdering(Nat)
  BY <1>1, <1>2, FS_StrictSubsetOrderingWellFounded, WFMin
<1>4. PICK m \in S : I = 0 .. m
  BY <1>3
<1>5. ASSUME NEW k \in S, k < m PROVE FALSE
  <2>1. 0 .. k \in Up /\ 0 .. k \subseteq 0 .. m
    BY <1>5
  <2>2. 0 .. k # 0 .. m
    <3>1. m \in 0 .. m /\ m \notin 0 .. k
      BY <1>5
    <3> QED
      BY <3>1
  <2>3. <<0 .. k, I>> \in StrictSubsetOrdering(Nat)
    <3>1. 0 .. k \in SUBSET Nat /\ 0 .. m \in SUBSET Nat
      OBVIOUS
    <3> QED
      BY <1>4, <2>1, <2>2, <3>1 DEF StrictSubsetOrdering
  <2> QED
    BY <1>3, <2>1, <2>3
<1> QED
  BY <1>5

\* A finite set of numbers is bounded: the smallest one that were not would be
\* bounded after all, by its element x or the bound of the rest.
LEMMA FiniteSetIsBounded ==
  ASSUME NEW T, IsFiniteSet(T), T \subseteq Nat
  PROVE  \E n \in Nat : \A u \in T : u < n
<1> DEFINE Unbounded(U) == \A n \in Nat : \E u \in U : u >= n
           Sizes == {Cardinality(U) : U \in {W \in SUBSET T : Unbounded(W)}}
<1>1. \A U \in SUBSET T : IsFiniteSet(U) /\ Cardinality(U) \in Nat
  BY FS_Subset, FS_CardinalityType
<1>2. SUFFICES ASSUME Unbounded(T) PROVE FALSE
  OBVIOUS
<1>3. Sizes # {} /\ Sizes \subseteq Nat
  BY <1>1, <1>2
<1>4. PICK c \in Sizes : \A d \in Sizes : c <= d
  <2> HIDE DEF Sizes
  <2> QED
    BY <1>3, LeastNumber
<1>5. PICK U \in SUBSET T : Cardinality(U) = c /\ Unbounded(U)
  BY <1>4
<1>6. PICK x \in U : x >= 0
  BY <1>5
<1>7. Cardinality(U) \in Nat /\ Cardinality(U \ {x}) = Cardinality(U) - 1
  BY <1>1, <1>6, FS_RemoveElement
<1>8. ~ Unbounded(U \ {x})
  <2>1. SUFFICES ASSUME Unbounded(U \ {x}) PROVE FALSE
    OBVIOUS
  <2>2. Cardinality(U \ {x}) \in Sizes
    BY <2>1
  <2> HIDE DEF Sizes
  <2>3. c <= Cardinality(U \ {x})
    BY <1>4, <2>2
  <2> QED
    BY <1>5, <1>7, <2>3
<1>9. PICK n \in Nat : \A u \in U \ {x} : ~(u >= n)
  BY <1>8
<1>10. x \in Nat /\ n + x + 1 \in Nat
  BY <1>6
<1>11. \A u \in U : u < n + x + 1
  BY <1>9, <1>10
<1>12. \E u \in U : u >= n + x + 1
  BY <1>5, <1>10
<1> QED
  BY <1>10, <1>11, <1>12

\* For every rank up to its size, a finite set of numbers has an element with
\* that many elements up to it: the first number with enough below it is the
\* successor of the one to be found.
LEMMA RankedNumber ==
  ASSUME NEW T, IsFiniteSet(T), T \subseteq Nat, NEW i \in 1 .. Cardinality(T)
  PROVE  \E v \in T : Cardinality({u \in T : u < v}) = i - 1
<1> DEFINE Below(n) == {u \in T : u < n}
           Enough == {n \in Nat : Cardinality(Below(n)) >= i}
<1>1. Cardinality(T) \in Nat /\ i \in Nat \ {0} /\ i <= Cardinality(T)
  BY FS_CardinalityType
<1>2. ASSUME NEW n \in Nat PROVE IsFiniteSet(Below(n)) /\ Cardinality(Below(n)) \in Nat
  <2>1. Below(n) \in SUBSET T
    OBVIOUS
  <2> HIDE DEF Below
  <2> QED
    BY <2>1, FS_Subset, FS_CardinalityType
<1>3. Enough # {} /\ Enough \subseteq Nat
  <2>1. PICK n \in Nat : \A u \in T : u < n
    BY FiniteSetIsBounded
  <2>2. Below(n) = T
    BY <2>1
  <2>3. n \in Enough
    BY <1>1, <2>2
  <2> QED
    BY <2>3
<1>4. PICK n \in Enough : \A m \in Enough : n <= m
  <2> HIDE DEF Enough
  <2> QED
    BY <1>3, LeastNumber
<1>5. n \in Nat /\ Cardinality(Below(n)) >= i
  BY <1>4
<1>6. n # 0
  <2>1. Below(0) = {}
    <3>1. \A u \in T : ~(u < 0)
      OBVIOUS
    <3> QED
      BY <3>1
  <2> QED
    BY <1>1, <1>5, <2>1, FS_EmptySet
<1>7. n - 1 \in Nat /\ Cardinality(Below(n - 1)) < i
  <2>1. n - 1 \in Nat /\ n - 1 \notin Enough
    <3> HIDE DEF Enough
    <3> QED
      BY <1>4, <1>5, <1>6
  <2>2. ~(Cardinality(Below(n - 1)) >= i)
    BY <2>1
  <2>3. Cardinality(Below(n - 1)) \in Nat
    BY <1>2, <2>1
  <2> HIDE DEF Below
  <2> QED
    BY <1>1, <2>1, <2>2, <2>3
<1>8. \A u \in T : u < n <=> u < n - 1 \/ u = n - 1
  BY <1>5, <1>7
<1>9. \A u \in T : ~(u < n - 1 /\ u = n - 1)
  BY <1>7
<1>10. n - 1 \in T
  <2>1. SUFFICES ASSUME n - 1 \notin T PROVE FALSE
    OBVIOUS
  <2>2. Below(n) = Below(n - 1)
    BY <1>8, <2>1
  <2>3. Cardinality(Below(n)) \in Nat
    BY <1>2, <1>5
  <2> HIDE DEF Below
  <2> QED
    BY <1>1, <1>5, <1>7, <2>2, <2>3
<1>11. Cardinality(Below(n - 1)) = Cardinality(Below(n)) - 1
  <2>1. Below(n) \ {n - 1} = Below(n - 1) /\ n - 1 \in Below(n)
    BY <1>8, <1>9, <1>10
  <2>2. IsFiniteSet(Below(n))
    BY <1>2, <1>5
  <2> HIDE DEF Below
  <2> QED
    BY <2>1, <2>2, FS_RemoveElement
<1>12. Cardinality(Below(n - 1)) = i - 1
  <2>1. Cardinality(Below(n)) \in Nat /\ Cardinality(Below(n - 1)) \in Nat
    BY <1>2, <1>5, <1>7
  <2> HIDE DEF Below
  <2> QED
    BY <1>1, <1>5, <1>7, <1>11, <2>1
<1> QED
  BY <1>10, <1>12

\* How many numbers below v are free.
Rank(used, v) == Cardinality({u \in Free(used, StartID) : u < v})

\* A request gets numbers that are free, and a different one for every VM.
LEMMA Allocation ==
  ASSUME NEW used, NEW i \in 1 .. Cardinality(Free(used, StartID))
  PROVE  /\ allocateVMIDs(used, StartID, i) \in VMID \ used
         /\ Rank(used, allocateVMIDs(used, StartID, i)) = i - 1
<1> DEFINE F == Free(used, StartID)
<1>1. IsFiniteSet(F) /\ F \subseteq Nat /\ F \subseteq VMID \ used
  BY VMIDAssumption, FS_Subset DEF Free
<1>2. \E v \in F : Rank(used, v) = i - 1
  BY <1>1, RankedNumber DEF Rank
<1>3. allocateVMIDs(used, StartID, i) = CHOOSE v \in F : Rank(used, v) = i - 1
  BY DEF allocateVMIDs, Rank
<1> HIDE DEF F
<1> QED
  BY <1>1, <1>2, <1>3

-----------------------------------------------------------------------------
(* Types                                                                   *)

\* A pipeline is a request and a number, and nobody is none.
LEMMA PipeIsPair ==
  /\ \A p \in Pipe : p = <<p[1], p[2]>> /\ p[1] \in Job /\ p[2] \in 1 .. Count[p[1]]
  /\ \A p, q \in Pipe : p # q /\ p[1] = q[1] => p[2] # q[2]
  /\ \A j \in Job : <<j, 1>> \in Pipe
  /\ Nobody \notin Pipe
<1>1. \A p \in Pipe : p = <<p[1], p[2]>> /\ p[1] \in Job /\ p[2] \in 1 .. Count[p[1]]
  BY DEF Pipe
<1>2. \A p, q \in Pipe : p # q /\ p[1] = q[1] => p[2] # q[2]
  BY <1>1
<1>3. \A j \in Job : <<j, 1>> \in Pipe
  BY CountAssumption DEF Pipe
<1>4. \A a, b : <<a, b>> # <<>>
  OBVIOUS
<1> QED
  BY <1>1, <1>2, <1>3, <1>4 DEF Nobody

LEMMA NumberIsPositive == 0 \notin VMID
BY VMIDAssumption

LEMMA TypeOKFromParts ==
  ASSUME Pipes', Numbered', Separate', Cloud', Operators', Meddling'
  PROVE  TypeOK'
BY DEF TypeOK, Pipes, Numbered, Separate, Cloud, Operators, Meddling, PipeState,
       VM, Request

LEMMA TypeOKParts ==
  ASSUME TypeOK
  PROVE  Pipes /\ Numbered /\ Separate /\ Cloud /\ Operators /\ Meddling
BY DEF TypeOK, Pipes, Numbered, Separate, Cloud, Operators, Meddling, PipeState,
       VM, Request

LEMMA InitIInv == Init => IInv
<1> SUFFICES ASSUME Init PROVE IInv
  OBVIOUS
<1>1. TypeOK
  <2>1. Pipes /\ Numbered /\ Separate
    BY NumberIsPositive DEF Init, Pipes, Numbered, Separate, PipeState, Steps
  <2>2. vms \in [VMID -> VM]
    <3>1. NoVM \in VM /\ [NoVM EXCEPT !.state = "stopped"] \in VM
      BY DEF NoVM, VM, Owner
    <3> QED
      BY <3>1 DEF Init
  <2>3. Cloud /\ Operators /\ Meddling
    BY <2>2, OperationsAssumption DEF Init, Cloud, Operators, Meddling, Owner, Request
  <2> QED
    BY <2>1, <2>3 DEF TypeOK, Pipes, Numbered, Separate, Cloud, Operators, Meddling,
                      PipeState, VM, Request
<1>2. ASSUME NEW v \in VMID PROVE VMInv(v)
  <2>1. vms[v] = NoVM \/ vms[v] = [NoVM EXCEPT !.state = "stopped"]
    BY DEF Init
  <2>2. vms[v].owner = Nobody /\ (vms[v].state = "none" => vms[v] = NoVM)
    BY <2>1 DEF NoVM
  <2> QED
    BY <2>2, PipeIsPair DEF VMInv
<1>3. \A p \in Pipe : TaskInv(p) /\ Progress(p)
  BY NumberIsPositive DEF Init, TaskInv, Progress, Cloned, Keyed
<1>4. Together /\ WorksOnOwnVM /\ \A o \in Operator : OpInv(o)
  BY DEF Init, Together, WorksOnOwnVM, Owning, Active, OpInv
<1> QED
  BY <1>1, <1>2, <1>3, <1>4 DEF IInv

-----------------------------------------------------------------------------
(* The steps of a pipeline                                                 *)

\* p goes from a step to the next.
Advance(p, next) ==
  /\ Active(p)
  /\ next \in Steps \ {"idle", "cloning"}
  /\ pipe' = [pipe EXCEPT ![p].step = next]

LEMMA AdvanceEffect ==
  ASSUME TypeOK, Together, NEW p \in Pipe, NEW next, Advance(p, next)
  PROVE  /\ pipe'[p].step = next /\ pipe'[p].vmid = pipe[p].vmid
         /\ \A q \in Pipe \ {p} : pipe'[q] = pipe[q]
         /\ pipe[p].vmid \in VMID
         /\ pipe' \in [Pipe -> PipeState] /\ Numbered' /\ Separate' /\ Together'
<1>1. Pipes /\ Numbered /\ Separate
  BY TypeOKParts
<1>2. /\ pipe'[p].step = next /\ pipe'[p].vmid = pipe[p].vmid
      /\ \A q \in Pipe \ {p} : pipe'[q] = pipe[q]
  BY <1>1 DEF Advance, Pipes, PipeState
<1>3. pipe[p].vmid \in VMID
  BY <1>1 DEF Advance, Active, Pipes, Numbered, PipeState
<1>4. pipe' \in [Pipe -> PipeState]
  BY <1>1 DEF Advance, Pipes, PipeState
<1>5. \A q \in Pipe : /\ pipe'[q].vmid = pipe[q].vmid
                      /\ pipe'[q].step = "idle" <=> pipe[q].step = "idle"
  BY <1>2 DEF Advance, Active
<1>6. Numbered' /\ Separate' /\ Together'
  BY <1>1, <1>5 DEF Numbered, Separate, Together
<1> QED
  BY <1>2, <1>3, <1>4, <1>6

\* What a pipeline may do to the VMs: a VM that is being cloned stays as it is,
\* like a number without one, and no VM is given to another owner or taken away.
VMsKept ==
  \A v \in VMID : /\ vms'[v].owner = vms[v].owner
                  /\ vms[v].state \in {"none", "cloning"} => vms'[v] = vms[v]
                  /\ vms'[v].state = "none" => vms'[v] = vms[v]

\* A step of a pipeline after its clone call.
LEMMA PipelineStep ==
  ASSUME IInv, NEW p \in Pipe, NEW next, Advance(p, next),
         next \in Cloned => task[p] = "OK",
         next # "failed" => pipe[p].step # "cloning",
         Cloud', VMsKept, \A q \in Pipe : Progress(q)',
         UNCHANGED <<task, op, operations, meddled>>
  PROVE  IInv'
<1>1. TypeOK /\ Together /\ WorksOnOwnVM
  BY DEF IInv
<1>2. Pipes /\ Operators /\ Meddling
  BY <1>1, TypeOKParts
<1>3. /\ pipe'[p].step = next /\ pipe'[p].vmid = pipe[p].vmid
      /\ \A q \in Pipe \ {p} : pipe'[q] = pipe[q]
      /\ pipe' \in [Pipe -> PipeState] /\ Numbered' /\ Separate' /\ Together'
  BY <1>1, AdvanceEffect
<1>4. TypeOK'
  <2>1. Pipes' /\ Operators' /\ Meddling'
    BY <1>2, <1>3 DEF Pipes, Operators, Meddling
  <2> QED
    BY <1>3, <2>1, TypeOKFromParts
<1>5. next \in Steps \ {"idle", "cloning"}
  BY DEF Advance
<1>6. ASSUME NEW q \in Pipe PROVE TaskInv(q)'
  <2>1. TaskInv(q)
    BY DEF IInv
  <2>2. task[q] = "running" => /\ vms'[pipe'[q].vmid].state = "cloning"
                               /\ vms'[pipe'[q].vmid].owner = q
    <3>1. SUFFICES ASSUME task[q] = "running"
                   PROVE  vms'[pipe[q].vmid] = vms[pipe[q].vmid]
      BY <1>3, <2>1 DEF TaskInv
    <3>2. pipe[q].vmid \in VMID
      BY <1>2, <1>1, <2>1, <3>1, TypeOKParts DEF TaskInv, Pipes, PipeState, Numbered
    <3> QED
      BY <2>1, <3>1, <3>2 DEF TaskInv, VMsKept
  <2>3. CASE q = p
    BY <1>3, <1>5, <2>1, <2>2, <2>3 DEF TaskInv
  <2>4. CASE q # p
    BY <1>3, <2>1, <2>2, <2>4 DEF TaskInv
  <2> QED
    BY <2>3, <2>4
<1>7. ASSUME NEW v \in VMID PROVE VMInv(v)'
  <2>1. VMInv(v)
    BY DEF IInv
  <2>2. vms'[v].owner = vms[v].owner
    BY DEF VMsKept
  <2>3. vms'[v].state = "none" => vms'[v] = NoVM
    BY <2>1 DEF VMsKept, VMInv
  <2>4. \A q \in Pipe : /\ pipe'[q].vmid = pipe[q].vmid
                        /\ pipe'[q].step = "cloning" => pipe[q].step = "cloning"
    BY <1>3, <1>5
  <2> QED
    BY <2>1, <2>2, <2>3, <2>4 DEF VMInv
<1>8. WorksOnOwnVM'
  <2>1. ASSUME NEW q \in Pipe, Owning(q)' PROVE Owning(q) /\ pipe'[q].vmid = pipe[q].vmid
    <3>1. CASE q = p
      BY <1>3, <2>1, <3>1 DEF Owning, Active, Advance
    <3>2. CASE q # p
      BY <1>3, <2>1, <3>2 DEF Owning, Active
    <3> QED
      BY <3>1, <3>2
  <2>2. ASSUME NEW q \in Pipe, Owning(q) PROVE pipe[q].vmid \in VMID
    BY <1>1, <1>2, <2>2, TypeOKParts DEF Owning, Active, Pipes, PipeState, Numbered
  <2> QED
    BY <1>1, <2>1, <2>2 DEF WorksOnOwnVM, VMsKept
<1>9. \A o \in Operator : OpInv(o)'
  BY DEF IInv, OpInv
<1> QED
  BY <1>3, <1>4, <1>6, <1>7, <1>8, <1>9 DEF IInv

\* Once its clone is done, a pipeline whose number nobody meddled with changes
\* its own VM only; so it takes nothing from another pipeline.
LEMMA OthersProgress ==
  ASSUME IInv, NEW p \in Pipe, NEW next, Advance(p, next), pipe[p].step \in Cloned,
         VMsKept, UNCHANGED <<task, meddled>>,
         \A v \in VMID \ {pipe[p].vmid} :
            vms'[v] = vms[v] /\ snippet'[v] = snippet[v] /\ vault'[v] = vault[v],
         NEW q \in Pipe \ {p}
  PROVE  Progress(q)'
<1>1. TypeOK /\ Together /\ WorksOnOwnVM
  BY DEF IInv
<1>2. pipe'[q] = pipe[q] /\ pipe[p].vmid \in VMID
  BY <1>1, AdvanceEffect
<1>3. CASE pipe[q].vmid = pipe[p].vmid
  <2>1. Owning(p) /\ task[p] # "error"
    BY DEF IInv, TaskInv, Owning, Advance, Cloned, Keyed
  <2>2. pipe[p].vmid \notin meddled => vms[pipe[p].vmid].owner # q
    BY <1>1, <2>1 DEF WorksOnOwnVM
  <2> QED
    BY <1>2, <1>3, <2>2 DEF Progress, VMsKept
<1>4. CASE pipe[q].vmid # pipe[p].vmid
  <2>1. Progress(q)
    BY DEF IInv
  <2>2. pipe[q].vmid \in VMID =>
          LET v == pipe[q].vmid
          IN  vms'[v] = vms[v] /\ snippet'[v] = snippet[v] /\ vault'[v] = vault[v]
    BY <1>4
  <2>3. Owning(q)' => Owning(q)
    BY <1>2 DEF Owning, Active
  <2> QED
    BY <1>2, <2>1, <2>2, <2>3 DEF Progress
<1> QED
  BY <1>3, <1>4

\* A call that names the steps it goes between.
LEMMA GoIsAdvance ==
  ASSUME NEW p \in Pipe, NEW from, NEW to, Go(p, from, to),
         from \in Steps \ {"idle", "ready", "failed"}, to \in Steps \ {"idle", "cloning"}
  PROVE  \E next \in {to, "failed"} : Advance(p, next)
BY DEF Go, Advance, Active, Steps

LEMMA SameVMsKept == UNCHANGED vms => VMsKept
BY DEF VMsKept

\* waitForTask, configure: nothing but the step changes.
LEMMA QuietStep ==
  ASSUME IInv, NEW p \in Pipe, NEW next, Advance(p, next), next \notin Keyed \cup {"ready"},
         next \in Cloned => task[p] = "OK", next # "failed" => pipe[p].step # "cloning",
         pipe[p].step # "waiting_ip" \/ next = "failed",
         UNCHANGED <<task, vms, snippet, vault, op, operations, meddled>>
  PROVE  IInv'
<1>1. TypeOK /\ Together /\ Cloud /\ VMsKept /\ Cloud'
  BY TypeOKParts, SameVMsKept DEF IInv, Cloud
<1>2. ASSUME NEW q \in Pipe PROVE Progress(q)'
  <2>1. Progress(q)
    BY DEF IInv
  <2>2. CASE q = p
    <3>1. pipe'[p].step = next /\ pipe'[p].vmid = pipe[p].vmid
      BY <1>1, AdvanceEffect
    <3>2. Owning(p)' => Owning(p) /\ pipe[p].step # "waiting_ip"
      BY <3>1 DEF Owning, Active, Advance
    <3> QED
      BY <2>1, <2>2, <3>1, <3>2 DEF Progress, Keyed, Written, Injected
  <2>3. CASE q # p
    <3>1. pipe'[q] = pipe[q]
      BY <1>1, <2>3, AdvanceEffect
    <3> QED
      BY <2>1, <3>1 DEF Progress, Owning, Active
  <2> QED
    BY <2>2, <2>3
<1> QED
  BY <1>1, <1>2, PipelineStep

LEMMA WaitForTaskStep ==
  ASSUME IInv, NEW p \in Pipe, waitForTask(p) PROVE IInv'
<1>1. PICK next \in {"configuring", "failed"} : Advance(p, next)
  BY GoIsAdvance DEF waitForTask, Steps
<1> QED
  BY <1>1, QuietStep DEF waitForTask, Go, Keyed

LEMMA ConfigureStep ==
  ASSUME IInv, NEW p \in Pipe, configure(p) PROVE IInv'
<1>1. PICK next \in {"generating_cert", "failed"} : Advance(p, next)
  BY GoIsAdvance DEF configure, Steps
<1>2. task[p] = "OK"
  BY DEF configure, Go, IInv, TaskInv, Cloned
<1> QED
  BY <1>1, <1>2, QuietStep DEF configure, Go, Keyed

LEMMA GenerateStep ==
  ASSUME IInv, NEW p \in Pipe, generateSSHCert(p) PROVE IInv'
<1>1. PICK next \in {"writing_snippet", "failed"} : Advance(p, next)
  BY GoIsAdvance DEF generateSSHCert, Steps
<1>2. TypeOK /\ Together /\ Cloud /\ VMsKept /\ pipe[p].vmid \in VMID
  BY <1>1, TypeOKParts, SameVMsKept, AdvanceEffect DEF IInv, generateSSHCert
<1>3. pipe[p].step = "generating_cert" /\ task[p] = "OK"
  BY DEF generateSSHCert, Go, IInv, TaskInv, Cloned
<1>4. vault' = [vault EXCEPT ![pipe[p].vmid] = p] /\ UNCHANGED <<task, vms, snippet, meddled>>
  BY DEF generateSSHCert
<1>5. Cloud'
  BY <1>2, <1>4 DEF Cloud, Owner
<1>6. ASSUME NEW q \in Pipe PROVE Progress(q)'
  <2>1. CASE q = p
    <3>1. pipe'[p].step = next /\ pipe'[p].vmid = pipe[p].vmid /\ vault'[pipe[p].vmid] = p
      BY <1>1, <1>2, <1>4, AdvanceEffect DEF Cloud
    <3>2. Progress(p)
      BY DEF IInv
    <3>3. Owning(p) /\ pipe[p].step # "waiting_ip"
      BY <1>3 DEF Owning, Active
    <3> QED
      BY <1>4, <2>1, <3>1, <3>2, <3>3 DEF Progress, Written, Injected
  <2>2. CASE q # p
    BY <1>1, <1>2, <1>3, <1>4, <2>2, OthersProgress DEF Cloud, Cloned
  <2> QED
    BY <2>1, <2>2
<1> QED
  BY <1>1, <1>2, <1>3, <1>5, <1>6, PipelineStep DEF generateSSHCert

LEMMA WriteSnippetStep ==
  ASSUME IInv, NEW p \in Pipe, writeSnippetViaSSH(p) PROVE IInv'
<1>1. PICK next \in {"injecting", "failed"} : Advance(p, next)
  BY GoIsAdvance DEF writeSnippetViaSSH, Steps
<1>2. TypeOK /\ Together /\ Cloud /\ VMsKept /\ pipe[p].vmid \in VMID
  BY <1>1, TypeOKParts, SameVMsKept, AdvanceEffect DEF IInv, writeSnippetViaSSH
<1>3. pipe[p].step = "writing_snippet" /\ task[p] = "OK"
  BY DEF writeSnippetViaSSH, Go, IInv, TaskInv, Cloned, Keyed
<1>4. snippet' = [snippet EXCEPT ![pipe[p].vmid] = p] /\ UNCHANGED <<task, vms, vault, meddled>>
  BY DEF writeSnippetViaSSH
<1>5. Cloud'
  BY <1>2, <1>4 DEF Cloud, Owner
<1>6. ASSUME NEW q \in Pipe PROVE Progress(q)'
  <2>1. CASE q = p
    <3>1. pipe'[p].step = next /\ pipe'[p].vmid = pipe[p].vmid /\ snippet'[pipe[p].vmid] = p
      BY <1>1, <1>2, <1>4, AdvanceEffect DEF Cloud
    <3>2. Progress(p)
      BY DEF IInv
    <3>3. Owning(p) /\ pipe[p].step \in Keyed /\ pipe[p].step # "waiting_ip"
      BY <1>3 DEF Owning, Active, Keyed
    <3> QED
      BY <1>4, <2>1, <3>1, <3>2, <3>3 DEF Progress, Injected
  <2>2. CASE q # p
    BY <1>1, <1>2, <1>3, <1>4, <2>2, OthersProgress DEF Cloud, Cloned, Keyed
  <2> QED
    BY <2>1, <2>2
<1> QED
  BY <1>1, <1>2, <1>3, <1>5, <1>6, PipelineStep DEF writeSnippetViaSSH

\* What changing one VM that is not being cloned amounts to.
LEMMA OneVMKept ==
  ASSUME Cloud, NEW v \in VMID, NEW r \in VM, vms' = [vms EXCEPT ![v] = r],
         vms[v].state \in {"stopped", "running"}, r.owner = vms[v].owner,
         r.state # "none", UNCHANGED <<snippet, vault>>
  PROVE  VMsKept /\ Cloud' /\ vms'[v] = r /\ \A u \in VMID \ {v} : vms'[u] = vms[u]
<1>1. vms'[v] = r /\ \A u \in VMID \ {v} : vms'[u] = vms[u]
  BY DEF Cloud
<1>2. Cloud'
  BY DEF Cloud
<1> QED
  BY <1>1, <1>2 DEF VMsKept

\* A VM is a record, whatever fields are assigned.
LEMMA WithCloudInit ==
  ASSUME NEW r \in VM
  PROVE  /\ [r EXCEPT !.ci = TRUE] \in VM
         /\ LET t == [r EXCEPT !.ci = TRUE]
            IN  t.ci /\ t.state = r.state /\ t.owner = r.owner /\ t.key = r.key
BY DEF VM

LEMMA WithState ==
  ASSUME NEW r \in VM, NEW s \in {"none", "cloning", "stopped", "running"}
  PROVE  /\ [r EXCEPT !.state = s] \in VM
         /\ LET t == [r EXCEPT !.state = s]
            IN  t.ci = r.ci /\ t.state = s /\ t.owner = r.owner /\ t.key = r.key
BY DEF VM

LEMMA WithKey ==
  ASSUME NEW r \in VM, NEW k \in Owner
  PROVE  /\ [r EXCEPT !.state = "running", !.key = k] \in VM
         /\ LET t == [r EXCEPT !.state = "running", !.key = k]
            IN  t.ci = r.ci /\ t.state = "running" /\ t.owner = r.owner /\ t.key = k
BY DEF VM

LEMMA InjectStep ==
  ASSUME IInv, NEW p \in Pipe, injectCloudInit(p) PROVE IInv'
<1> DEFINE v == pipe[p].vmid
<1>1. PICK next \in {"booting", "failed"} : Advance(p, next)
  BY GoIsAdvance DEF injectCloudInit, Steps
<1>2. TypeOK /\ Together /\ Cloud /\ v \in VMID
  BY <1>1, TypeOKParts, AdvanceEffect DEF IInv
<1>3. pipe[p].step = "injecting" /\ task[p] = "OK"
  BY DEF injectCloudInit, Go, IInv, TaskInv, Cloned, Keyed
<1>4. /\ vms' = [vms EXCEPT ![v] = [vms[v] EXCEPT !.ci = TRUE]]
      /\ UNCHANGED <<task, snippet, vault, meddled>>
      /\ vms[v].state \in {"stopped", "running"}
  <2>1. vms' = [vms EXCEPT ![v].ci = TRUE]
    BY DEF injectCloudInit
  <2> QED
    BY <1>2, <2>1 DEF injectCloudInit, Reachable, Cloud
<1>5. PICK r \in VM : /\ vms' = [vms EXCEPT ![v] = r]
                      /\ r.ci /\ r.state = vms[v].state /\ r.owner = vms[v].owner
                      /\ r.key = vms[v].key
  <2>1. vms[v] \in VM
    BY <1>2 DEF Cloud
  <2> QED
    BY <1>4, <2>1, WithCloudInit
<1>6. VMsKept /\ Cloud' /\ vms'[v] = r /\ \A u \in VMID \ {v} : vms'[u] = vms[u]
  BY <1>2, <1>4, <1>5, OneVMKept
<1>7. ASSUME NEW q \in Pipe PROVE Progress(q)'
  <2>1. CASE q = p
    <3>1. pipe'[p].step = next /\ pipe'[p].vmid = v
      BY <1>1, <1>2, AdvanceEffect
    <3>2. Progress(p)
      BY DEF IInv
    <3>3. Owning(p) /\ pipe[p].step \in Keyed \cap Written /\ pipe[p].step # "waiting_ip"
      BY <1>3 DEF Owning, Active, Keyed, Written
    <3>4. v \in VMID \ meddled /\ vms[v].owner = p =>
            vault[v] = p /\ snippet[v] = p /\ vms[v].state # "running"
      BY <3>2, <3>3 DEF Progress
    <3>5. vms'[v].ci /\ vms'[v].owner = vms[v].owner /\ vms'[v].state = vms[v].state
      BY <1>5, <1>6
    <3> QED
      BY <1>4, <2>1, <3>1, <3>4, <3>5 DEF Progress
  <2>2. CASE q # p
    BY <1>1, <1>3, <1>4, <1>6, <2>2, OthersProgress DEF Cloned, Keyed
  <2> QED
    BY <2>1, <2>2
<1> QED
  BY <1>1, <1>3, <1>6, <1>7, PipelineStep DEF injectCloudInit

\* Starting a VM keeps its owner and lets in the key of its snippet.
LEMMA BootedFields ==
  ASSUME Cloud, NEW v \in VMID
  PROVE  /\ Booted(v) \in VM
         /\ Booted(v).state = "running" /\ Booted(v).owner = vms[v].owner
         /\ Booted(v).ci = vms[v].ci
         /\ vms[v].ci => Booted(v).key = snippet[v]
<1>1. vms[v] \in VM /\ snippet[v] \in Owner
  BY DEF Cloud
<1>2. PICK k \in Owner : k = IF vms[v].ci THEN snippet[v] ELSE Nobody
  BY <1>1 DEF Owner
<1> DEFINE t == [vms[v] EXCEPT !.state = "running", !.key = k]
<1>3. Booted(v) = t
  BY <1>2 DEF Booted
<1>4. t \in VM /\ t.ci = vms[v].ci /\ t.state = "running" /\ t.owner = vms[v].owner /\ t.key = k
  BY <1>1, WithKey
<1>5. vms[v].ci => k = snippet[v]
  BY <1>2
<1> HIDE DEF t
<1> QED
  BY <1>3, <1>4, <1>5

LEMMA StartStep ==
  ASSUME IInv, NEW p \in Pipe, startVM(p) PROVE IInv'
<1> DEFINE v == pipe[p].vmid
<1>1. PICK next \in {"waiting_ip", "failed"} : Advance(p, next)
  BY GoIsAdvance DEF startVM, Steps
<1>2. TypeOK /\ Together /\ Cloud /\ v \in VMID
  BY <1>1, TypeOKParts, AdvanceEffect DEF IInv
<1>3. pipe[p].step = "booting" /\ task[p] = "OK"
  BY DEF startVM, Go, IInv, TaskInv, Cloned, Keyed
<1>4. UNCHANGED <<task, snippet, vault, meddled>>
  BY DEF startVM
<1>5. pipe'[p].step = next /\ pipe'[p].vmid = v
  BY <1>1, <1>2, AdvanceEffect
<1>6. Owning(p) /\ pipe[p].step \in Keyed \cap Written \cap Injected
      /\ pipe[p].step # "waiting_ip"
  BY <1>3 DEF Owning, Active, Keyed, Written, Injected
<1>7. v \in VMID \ meddled /\ vms[v].owner = p =>
        vault[v] = p /\ snippet[v] = p /\ vms[v].ci /\ vms[v].state # "running"
  BY <1>6 DEF IInv, Progress
<1>8. Owning(p)' => next = "waiting_ip"
  BY <1>5 DEF Owning, Active
<1>9. /\ VMsKept /\ Cloud' /\ \A u \in VMID \ {v} : vms'[u] = vms[u]
      /\ Progress(p)'
  <2>1. CASE vms' = vms
    <3>1. Cloud' /\ VMsKept
      BY <1>2, <1>4, <2>1, SameVMsKept DEF Cloud
    <3> QED
      BY <1>4, <1>5, <1>7, <2>1, <3>1 DEF Progress
  <2>2. CASE vms[v].state = "stopped" /\ vms' = [vms EXCEPT ![v] = Booted(v)]
    <3>1. VMsKept /\ Cloud' /\ vms'[v] = Booted(v) /\ \A u \in VMID \ {v} : vms'[u] = vms[u]
      BY <1>2, <1>4, <2>2, BootedFields, OneVMKept
    <3>2. Booted(v).owner = vms[v].owner /\ Booted(v).ci = vms[v].ci
          /\ (vms[v].ci => Booted(v).key = snippet[v])
      BY <1>2, BootedFields
    <3>3. Progress(p)'
      BY <1>4, <1>5, <1>7, <1>8, <3>1, <3>2 DEF Progress
    <3> QED
      BY <3>1, <3>3
  <2> QED
    BY <2>1, <2>2 DEF startVM
<1>10. \A q \in Pipe \ {p} : Progress(q)'
  BY <1>1, <1>3, <1>4, <1>9, OthersProgress DEF Cloned, Keyed
<1> QED
  BY <1>1, <1>3, <1>9, <1>10, PipelineStep DEF startVM

LEMMA WaitForIPStep ==
  ASSUME IInv, NEW p \in Pipe, waitForIP(p) PROVE IInv'
<1> DEFINE v == pipe[p].vmid
<1>1. PICK next \in {"ready", "failed"} : Advance(p, next)
  BY GoIsAdvance DEF waitForIP, Steps
<1>2. TypeOK /\ Together /\ Cloud /\ VMsKept
  BY <1>1, TypeOKParts, SameVMsKept DEF IInv, waitForIP
<1>3. pipe[p].step = "waiting_ip" /\ task[p] = "OK" /\ vms[v].state = "running"
  BY DEF waitForIP, Go, IInv, TaskInv, Cloned, Keyed
<1>4. UNCHANGED <<task, vms, snippet, vault, meddled>>
  BY DEF waitForIP
<1>5. Cloud'
  BY <1>2, <1>4 DEF Cloud
<1>6. ASSUME NEW q \in Pipe PROVE Progress(q)'
  <2>1. CASE q = p
    <3>1. pipe'[p].step = next /\ pipe'[p].vmid = v
      BY <1>1, <1>2, AdvanceEffect
    <3>2. Owning(p) /\ pipe[p].step \in Keyed \cap Written \cap Injected
      BY <1>3 DEF Owning, Active, Keyed, Written, Injected
    <3>3. v \in VMID \ meddled /\ vms[v].owner = p =>
            vault[v] = p /\ snippet[v] = p /\ vms[v].ci /\ vms[v].key = p
      BY <1>3, <3>2 DEF IInv, Progress
    <3>4. ~ Owning(p)'
      BY <3>1 DEF Owning, Active
    <3> QED
      BY <1>4, <2>1, <3>1, <3>3, <3>4 DEF Progress
  <2>2. CASE q # p
    BY <1>1, <1>2, <1>3, <1>4, <2>2, OthersProgress DEF Cloned, Keyed
  <2> QED
    BY <2>1, <2>2
<1> QED
  BY <1>1, <1>2, <1>3, <1>5, <1>6, PipelineStep DEF waitForIP, Cloned, Keyed

LEMMA FailStep ==
  ASSUME IInv, NEW p \in Pipe, Fail(p) PROVE IInv'
<1>1. Advance(p, "failed")
  BY DEF Fail, Advance, Steps
<1>2. TypeOK /\ Together /\ Cloud /\ VMsKept /\ pipe[p].vmid \in VMID
  BY <1>1, TypeOKParts, SameVMsKept, AdvanceEffect DEF IInv, Fail
<1>3. CASE UNCHANGED snippet
  BY <1>1, <1>3, QuietStep DEF Fail, Cloned, Keyed
<1>4. CASE pipe[p].step = "writing_snippet" /\ snippet' = [snippet EXCEPT ![pipe[p].vmid] = Nobody]
  <2>1. Cloud'
    BY <1>2, <1>4 DEF Cloud, Owner, Fail
  <2>2. ASSUME NEW q \in Pipe PROVE Progress(q)'
    <3>1. CASE q = p
      <4>1. pipe'[p].step = "failed"
        BY <1>1, <1>2, AdvanceEffect
      <4> QED
        BY <3>1, <4>1 DEF Progress, Keyed, Written, Injected, Owning, Active
    <3>2. CASE q # p
      BY <1>1, <1>2, <1>4, <3>2, OthersProgress DEF Fail, Cloud, Cloned, Keyed
    <3> QED
      BY <3>1, <3>2
  <2> QED
    BY <1>1, <1>2, <2>1, <2>2, PipelineStep DEF Fail, Cloned, Keyed
<1> QED
  BY <1>3, <1>4 DEF Fail

\* The clone call: the VM of its number, of which there is none, becomes the
\* pipeline's.
LEMMA CloneStep ==
  ASSUME IInv, NEW p \in Pipe, cloneVM(p) PROVE IInv'
<1> DEFINE v == pipe[p].vmid
           new == [NoVM EXCEPT !.state = "cloning", !.owner = p]
<1>1. PICK next \in {"clone_wait", "failed"} : Advance(p, next)
  BY GoIsAdvance DEF cloneVM, Steps
<1>2. TypeOK /\ Together /\ WorksOnOwnVM
  BY DEF IInv
<1>3. Pipes /\ Cloud /\ Operators /\ Meddling
  BY <1>2, TypeOKParts
<1>4. /\ pipe'[p].step = next /\ pipe'[p].vmid = v /\ v \in VMID
      /\ \A q \in Pipe \ {p} : pipe'[q] = pipe[q]
      /\ pipe' \in [Pipe -> PipeState] /\ Numbered' /\ Separate' /\ Together'
  BY <1>1, <1>2, AdvanceEffect
<1>5. vms[v] = NoVM /\ pipe[p].step = "cloning"
  BY <1>4 DEF cloneVM, Go, IInv, VMInv
<1>6. new \in VM /\ new.state = "cloning" /\ new.owner = p
  BY DEF NoVM, VM, Owner
<1> HIDE DEF new
<1>7. vms' \in [VMID -> VM] /\ vms'[v] = new /\ \A u \in VMID \ {v} : vms'[u] = vms[u]
  BY <1>3, <1>4, <1>6 DEF cloneVM, Cloud, new
<1>8. task'[p] = "running" /\ \A q \in Pipe \ {p} : task'[q] = task[q]
  BY <1>3 DEF cloneVM, Pipes
<1>9. UNCHANGED <<snippet, vault, op, operations, meddled>>
  BY DEF cloneVM
<1>10. TypeOK'
  <2>1. task' \in [Pipe -> {"none", "running", "OK", "error"}]
    BY <1>3 DEF cloneVM, Pipes
  <2>2. Pipes' /\ Cloud' /\ Operators' /\ Meddling'
    BY <1>3, <1>4, <1>7, <1>9, <2>1 DEF Pipes, Cloud, Operators, Meddling
  <2> QED
    BY <1>4, <2>2, TypeOKFromParts
<1>11. NoVM.owner \notin Pipe /\ NoVM.state = "none"
  BY PipeIsPair DEF NoVM
<1>12. ASSUME NEW q \in Pipe PROVE TaskInv(q)'
  <2>1. TaskInv(q)
    BY DEF IInv
  <2>2. CASE q = p
    BY <1>4, <1>6, <1>7, <1>8, <2>2 DEF TaskInv, Cloned, Keyed
  <2>3. CASE q # p
    <3>1. task[q] = "running" => pipe[q].vmid # v
      BY <1>5, <1>11, <2>1 DEF TaskInv
    <3>2. task[q] = "running" => pipe[q].vmid \in VMID
      BY <1>2, <1>3, <2>1, TypeOKParts DEF TaskInv, Pipes, PipeState, Numbered
    <3> QED
      BY <1>4, <1>7, <1>8, <2>1, <2>3, <3>1, <3>2 DEF TaskInv
  <2> QED
    BY <2>2, <2>3
<1>13. ASSUME NEW u \in VMID PROVE VMInv(u)'
  <2>1. CASE u = v
    BY <1>4, <1>6, <1>7, <2>1 DEF VMInv
  <2>2. CASE u # v
    <3>1. VMInv(u) /\ vms'[u] = vms[u]
      BY <1>7, <2>2 DEF IInv
    <3>2. \A q \in Pipe : /\ pipe'[q].vmid = pipe[q].vmid
                          /\ pipe'[q].step = "cloning" => pipe[q].step = "cloning"
      BY <1>4
    <3> QED
      BY <3>1, <3>2 DEF VMInv
  <2> QED
    BY <2>1, <2>2
<1>14. ASSUME NEW q \in Pipe PROVE Progress(q)'
  <2>1. CASE q = p
    <3>1. vms'[v].state = "cloning"
      BY <1>6, <1>7
    <3> QED
      BY <1>4, <2>1, <3>1 DEF Progress, Keyed, Written, Injected
  <2>2. CASE q # p
    <3>1. Progress(q) /\ pipe'[q] = pipe[q]
      BY <1>4, <2>2 DEF IInv
    <3>2. CASE pipe[q].vmid = v
      BY <1>6, <1>7, <2>2, <3>1, <3>2 DEF Progress
    <3>3. CASE pipe[q].vmid # v
      <4>1. Owning(q)' => Owning(q)
        BY <3>1 DEF Owning, Active
      <4> QED
        BY <1>7, <1>9, <3>1, <3>3, <4>1 DEF Progress
    <3> QED
      BY <3>2, <3>3
  <2> QED
    BY <2>1, <2>2
<1>15. WorksOnOwnVM'
  <2>1. SUFFICES ASSUME NEW q \in Pipe, Owning(q)', task'[q] # "error",
                        pipe'[q].vmid \notin meddled
                 PROVE  vms'[pipe'[q].vmid].owner = q
    BY <1>9 DEF WorksOnOwnVM
  <2>2. CASE q = p
    BY <1>4, <1>6, <1>7, <2>2
  <2>3. CASE q # p
    <3>1. pipe'[q] = pipe[q] /\ Owning(q)
      BY <1>4, <2>1, <2>3 DEF Owning, Active
    <3>2. vms[pipe[q].vmid].owner = q /\ pipe[q].vmid \in VMID
      BY <1>2, <1>3, <1>8, <2>1, <2>3, <3>1, TypeOKParts
      DEF WorksOnOwnVM, Owning, Active, Pipes, PipeState, Numbered
    <3>3. pipe[q].vmid # v
      BY <1>5, <1>11, <3>2
    <3> QED
      BY <1>7, <3>1, <3>2, <3>3
  <2> QED
    BY <2>2, <2>3
<1>16. \A o \in Operator : OpInv(o)'
  BY <1>9 DEF IInv, OpInv
<1> QED
  BY <1>4, <1>10, <1>12, <1>13, <1>14, <1>15, <1>16 DEF IInv

-----------------------------------------------------------------------------
(* Steps that leave the pipelines alone                                    *)

LEMMA NumberOfActive ==
  ASSUME TypeOK, NEW p \in Pipe, pipe[p].step # "idle"
  PROVE  pipe[p].vmid \in VMID
BY TypeOKParts DEF Pipes, PipeState, Numbered

\* Steps that change at most one VM: what has to be seen to at its number.
LEMMA ClusterStep ==
  ASSUME IInv, NEW v \in VMID, NEW r \in VM, vms' = [vms EXCEPT ![v] = r],
         UNCHANGED <<pipe, snippet, vault>>,
         task' \in [Pipe -> {"none", "running", "OK", "error"}],
         \A p \in Pipe : TaskInv(p)',
         Operators', \A o \in Operator : OpInv(o)',
         Meddling', meddled \subseteq meddled',
         \A p \in Pipe : pipe[p].vmid # v => task'[p] = task[p],
         r.state = "none" => r = NoVM,
         r.owner \in Pipe => r.owner = vms[v].owner,
         v \notin meddled' => \A p \in Pipe : pipe[p].vmid = v =>
            /\ Progress(p)'
            /\ Owning(p) /\ task'[p] # "error" => r.owner = p
  PROVE  IInv'
<1>1. TypeOK /\ Together /\ WorksOnOwnVM
  BY DEF IInv
<1>2. Pipes /\ Numbered /\ Separate /\ Cloud
  BY <1>1, TypeOKParts
<1>3. vms' \in [VMID -> VM] /\ vms'[v] = r /\ \A u \in VMID \ {v} : vms'[u] = vms[u]
  BY <1>2 DEF Cloud
<1>4. TypeOK' /\ Together'
  <2>1. Pipes' /\ Numbered' /\ Separate' /\ Cloud'
    BY <1>2, <1>3 DEF Pipes, Numbered, Separate, Cloud
  <2>2. Together'
    BY <1>1 DEF Together
  <2> QED
    BY <2>1, <2>2, TypeOKFromParts
<1>5. ASSUME NEW u \in VMID PROVE VMInv(u)'
  <2>1. VMInv(u)
    BY DEF IInv
  <2>2. CASE u = v
    BY <1>3, <2>1, <2>2 DEF VMInv
  <2>3. CASE u # v
    BY <1>3, <2>1, <2>3 DEF VMInv
  <2> QED
    BY <2>2, <2>3
<1>6. ASSUME NEW p \in Pipe PROVE Progress(p)'
  <2>1. CASE pipe[p].vmid = v
    BY <2>1 DEF Progress
  <2>2. CASE pipe[p].vmid # v
    <3>1. Progress(p)
      BY DEF IInv
    <3> QED
      BY <1>3, <2>2, <3>1 DEF Progress, Owning, Active
  <2> QED
    BY <2>1, <2>2
<1>7. WorksOnOwnVM'
  <2>1. SUFFICES ASSUME NEW p \in Pipe, Owning(p), task'[p] # "error",
                        pipe[p].vmid \notin meddled'
                 PROVE  vms'[pipe[p].vmid].owner = p
    BY DEF WorksOnOwnVM, Owning, Active
  <2>2. CASE pipe[p].vmid = v
    BY <1>3, <2>1, <2>2
  <2>3. CASE pipe[p].vmid # v
    <3>1. pipe[p].vmid \in VMID
      BY <1>1, <2>1, NumberOfActive DEF Owning, Active
    <3> QED
      BY <1>1, <1>3, <2>1, <2>3, <3>1 DEF WorksOnOwnVM
  <2> QED
    BY <2>2, <2>3
<1> QED
  BY <1>4, <1>5, <1>6, <1>7 DEF IInv

\* The clone task ends, with the VM of its pipeline or without one.
LEMMA CloneTaskStep ==
  ASSUME IInv, NEW p \in Pipe, CloneTask(p) PROVE IInv'
<1> DEFINE v == pipe[p].vmid
<1>1. TypeOK /\ Pipes /\ Cloud /\ Operators /\ Meddling
  BY TypeOKParts DEF IInv
<1>2. task[p] = "running" /\ UNCHANGED <<pipe, snippet, vault, op, operations, meddled>>
  BY DEF CloneTask
<1>3. /\ pipe[p].step \notin {"idle", "cloning"} \cup Cloned
      /\ vms[v].state = "cloning" /\ vms[v].owner = p
  BY <1>2 DEF IInv, TaskInv
<1>4. v \in VMID /\ vms[v] \in VM
  BY <1>1, <1>3, NumberOfActive DEF Cloud
<1>5. PICK end \in {"OK", "error"}, r \in VM :
        /\ task' = [task EXCEPT ![p] = end]
        /\ vms' = [vms EXCEPT ![v] = r]
        /\ end = "OK" => r.state = "stopped" /\ r.owner = p
        /\ end = "error" => r = NoVM
  <2>1. CASE task' = [task EXCEPT ![p] = "OK"] /\ vms' = [vms EXCEPT ![v].state = "stopped"]
    <3>1. vms' = [vms EXCEPT ![v] = [vms[v] EXCEPT !.state = "stopped"]]
      BY <1>1, <1>4, <2>1 DEF Cloud
    <3>2. /\ [vms[v] EXCEPT !.state = "stopped"] \in VM
          /\ [vms[v] EXCEPT !.state = "stopped"].state = "stopped"
          /\ [vms[v] EXCEPT !.state = "stopped"].owner = p
      BY <1>3, <1>4, WithState
    <3> QED
      BY <2>1, <3>1, <3>2
  <2>2. CASE task' = [task EXCEPT ![p] = "error"] /\ vms' = [vms EXCEPT ![v] = NoVM]
    <3>1. NoVM \in VM
      BY DEF NoVM, VM, Owner
    <3> QED
      BY <2>2, <3>1
  <2> QED
    BY <2>1, <2>2 DEF CloneTask
<1>6. /\ task' \in [Pipe -> {"none", "running", "OK", "error"}]
      /\ task'[p] = end /\ \A q \in Pipe \ {p} : task'[q] = task[q]
  BY <1>1, <1>5 DEF Pipes
<1>7. NoVM.owner \notin Pipe /\ NoVM.state = "none"
  BY PipeIsPair DEF NoVM
<1>8. vms'[v] = r /\ \A u \in VMID \ {v} : vms'[u] = vms[u]
  BY <1>1, <1>4, <1>5 DEF Cloud
<1>9. ASSUME NEW q \in Pipe PROVE TaskInv(q)'
  <2>1. TaskInv(q)
    BY DEF IInv
  <2>2. CASE q = p
    BY <1>2, <1>3, <1>6, <2>2 DEF TaskInv
  <2>3. CASE q # p
    <3>1. task[q] = "running" => pipe[q].vmid # v
      BY <1>3, <2>1, <2>3 DEF TaskInv
    <3>2. task[q] = "running" => pipe[q].vmid \in VMID
      BY <1>1, <2>1, NumberOfActive DEF TaskInv
    <3> QED
      BY <1>2, <1>6, <1>8, <2>1, <2>3, <3>1, <3>2 DEF TaskInv
  <2> QED
    BY <2>2, <2>3
<1>10. Operators' /\ Meddling' /\ \A o \in Operator : OpInv(o)'
  BY <1>1, <1>2 DEF Operators, Meddling, IInv, OpInv
<1>11. ASSUME NEW q \in Pipe, pipe[q].vmid = v, v \notin meddled'
       PROVE  /\ Progress(q)'
              /\ Owning(q) /\ task'[q] # "error" => r.owner = q
  <2>1. CASE q = p
    <3>1. Progress(p)'
      BY <1>2, <1>3, <1>5, <1>7, <1>8
      DEF Progress, Cloned, Keyed, Written, Injected
    <3> QED
      BY <1>5, <1>6, <2>1, <3>1
  <2>2. CASE q # p
    <3>1. r.owner # q
      BY <1>5, <1>7, <2>2
    <3>2. Progress(q)'
      BY <1>2, <1>8, <1>11, <3>1 DEF Progress
    <3>3. ~(Owning(q) /\ task[q] # "error")
      BY <1>2, <1>3, <1>11, <2>2 DEF IInv, WorksOnOwnVM
    <3> QED
      BY <1>6, <2>2, <3>2, <3>3
  <2> QED
    BY <2>1, <2>2
<1>12. \A q \in Pipe : pipe[q].vmid # v => task'[q] = task[q]
  BY <1>6
<1>13. r.state = "none" => r = NoVM
  BY <1>5
<1>14. r.owner \in Pipe => r.owner = vms[v].owner
  BY <1>3, <1>5, <1>7
<1> QED
  BY <1>2, <1>4, <1>5, <1>6, <1>9, <1>10, <1>11, <1>12, <1>13, <1>14, ClusterStep

LEMMA OtherToolStep ==
  ASSUME IInv, NEW v \in VMID, OtherTool(v) PROVE IInv'
<1> DEFINE r == [NoVM EXCEPT !.state = "stopped"]
<1>1. TypeOK /\ Pipes /\ Cloud /\ Operators /\ Meddling
  BY TypeOKParts DEF IInv
<1>2. vms[v] = NoVM /\ UNCHANGED <<pipe, task, snippet, vault, op, operations, meddled>>
  BY DEF OtherTool, IInv, VMInv
<1>3. r \in VM /\ r.state = "stopped" /\ r.owner = Nobody /\ NoVM.owner = Nobody
      /\ NoVM.state = "none"
  BY DEF NoVM, VM, Owner
<1>4. vms' = [vms EXCEPT ![v] = r]
  BY DEF OtherTool
<1> HIDE DEF r
<1>5. vms'[v] = r /\ \A u \in VMID \ {v} : vms'[u] = vms[u]
  BY <1>1, <1>4 DEF Cloud
<1>6. ASSUME NEW q \in Pipe PROVE TaskInv(q)'
  <2>1. TaskInv(q)
    BY DEF IInv
  <2>2. task[q] = "running" => pipe[q].vmid # v /\ pipe[q].vmid \in VMID
    BY <1>1, <1>2, <1>3, <2>1, NumberOfActive DEF TaskInv
  <2> QED
    BY <1>2, <1>5, <2>1, <2>2 DEF TaskInv
<1>7. Operators' /\ Meddling' /\ \A o \in Operator : OpInv(o)'
  BY <1>1, <1>2 DEF Operators, Meddling, IInv, OpInv
<1>8. ASSUME NEW q \in Pipe, pipe[q].vmid = v, v \notin meddled'
      PROVE  /\ Progress(q)'
             /\ Owning(q) /\ task'[q] # "error" => r.owner = q
  <2>1. Progress(q)'
    BY <1>2, <1>3, <1>5, <1>8, PipeIsPair DEF Progress
  <2>2. ~(Owning(q) /\ task[q] # "error")
    BY <1>2, <1>3, <1>8, PipeIsPair DEF IInv, WorksOnOwnVM
  <2> QED
    BY <1>2, <2>1, <2>2
<1>9. task' \in [Pipe -> {"none", "running", "OK", "error"}]
  BY <1>1, <1>2 DEF Pipes
<1> QED
  BY <1>2, <1>3, <1>4, <1>6, <1>7, <1>8, <1>9, PipeIsPair, ClusterStep

LEMMA ResolveStep ==
  ASSUME IInv, NEW o \in Operator, NEW v \in VMID,
         NEW what \in {"start", "stop", "reboot", "delete"}, resolveVMNode(o, what, v)
  PROVE  IInv'
<1>1. TypeOK /\ Pipes /\ Cloud /\ Operators /\ Meddling
  BY TypeOKParts DEF IInv
<1>2. UNCHANGED <<pipe, task, vms, snippet, vault, meddled>>
  BY DEF resolveVMNode
<1>3. Operators'
  <2>1. [pc |-> what, vmid |-> v] \in Request
    BY DEF Request
  <2>2. op' \in [Operator -> Request]
    BY <1>1, <2>1 DEF resolveVMNode, Operators
  <2>3. operations' \in 0 .. MaxOperations
    BY <1>1, OperationsAssumption DEF resolveVMNode, Operators
  <2> QED
    BY <2>2, <2>3 DEF Operators
<1>4. TypeOK'
  BY <1>1, <1>2, <1>3, TypeOKParts, TypeOKFromParts
  DEF Pipes, Numbered, Separate, Cloud, Meddling
<1>5. ASSUME NEW a \in Operator PROVE OpInv(a)'
  <2>1. op'[o].vmid = v /\ (a # o => op'[a] = op[a])
    BY <1>1 DEF resolveVMNode, Operators
  <2> QED
    BY <2>1 DEF IInv, OpInv
<1>6. /\ Together' /\ WorksOnOwnVM'
      /\ \A p \in Pipe : TaskInv(p)' /\ Progress(p)'
      /\ \A u \in VMID : VMInv(u)'
  BY <1>2 DEF IInv, Together, WorksOnOwnVM, TaskInv, Progress, VMInv, Owning, Active
<1> QED
  BY <1>4, <1>5, <1>6 DEF IInv

\* A request leaves a VM that is being cloned alone, never gives a VM to another
\* owner, and a VM it (re)starts lets in the key of its snippet.
LEMMA OutcomeIs ==
  ASSUME Cloud, NEW what, NEW v \in VMID
  PROVE  /\ Outcome(what, v) \in VM
         /\ vms[v].state \in {"none", "cloning"} => Outcome(what, v) = vms[v]
         /\ \/ Outcome(what, v) = NoVM
            \/ /\ Outcome(what, v).owner = vms[v].owner
               /\ Outcome(what, v).ci = vms[v].ci
               /\ Outcome(what, v).state = "none" => Outcome(what, v) = vms[v]
               /\ \/ Outcome(what, v).key = vms[v].key
                  \/ vms[v].ci => Outcome(what, v).key = snippet[v]
<1> DEFINE t == [vms[v] EXCEPT !.state = "stopped"]
<1>1. vms[v] \in VM /\ NoVM \in VM
  BY DEF Cloud, NoVM, VM, Owner
<1>2. t \in VM /\ t.ci = vms[v].ci /\ t.state = "stopped" /\ t.owner = vms[v].owner
      /\ t.key = vms[v].key
  BY <1>1, WithState
<1>3. /\ Booted(v) \in VM
      /\ Booted(v).state = "running" /\ Booted(v).owner = vms[v].owner
      /\ Booted(v).ci = vms[v].ci
      /\ vms[v].ci => Booted(v).key = snippet[v]
  BY BootedFields
<1>4. \/ Outcome(what, v) = vms[v]
      \/ vms[v].state = "stopped" /\ Outcome(what, v) \in {Booted(v), NoVM}
      \/ vms[v].state = "running" /\ Outcome(what, v) \in {Booted(v), t}
  BY DEF Outcome
<1> HIDE DEF t
<1>5. CASE Outcome(what, v) = vms[v]
  BY <1>1, <1>5
<1>6. CASE vms[v].state = "stopped" /\ Outcome(what, v) \in {Booted(v), NoVM}
  BY <1>1, <1>3, <1>6
<1>7. CASE vms[v].state = "running" /\ Outcome(what, v) \in {Booted(v), t}
  BY <1>2, <1>3, <1>7
<1> QED
  BY <1>4, <1>5, <1>6, <1>7

LEMMA ActStep ==
  ASSUME IInv, NEW o \in Operator, actOnNode(o) PROVE IInv'
<1> DEFINE v == op[o].vmid
           r == IF vms' = vms THEN vms[v] ELSE Outcome(op[o].pc, v)
<1>1. TypeOK /\ Pipes /\ Cloud /\ Operators /\ Meddling
  BY TypeOKParts DEF IInv
<1>2. v \in VMID /\ vms[v] \in VM
  BY <1>1 DEF actOnNode, IInv, OpInv, Cloud
<1>3. UNCHANGED <<pipe, task, snippet, vault, operations>>
  BY DEF actOnNode
<1>4. vms' = [vms EXCEPT ![v] = r]
  <2>1. vms = [vms EXCEPT ![v] = vms[v]]
    BY <1>1 DEF Cloud
  <2> QED
    BY <2>1 DEF actOnNode
<1>5. /\ r \in VM
      /\ vms[v].state \in {"none", "cloning"} => r = vms[v]
      /\ \/ r = NoVM
         \/ /\ r.owner = vms[v].owner /\ r.ci = vms[v].ci
            /\ r.state = "none" => r = vms[v]
            /\ r.key = vms[v].key \/ (vms[v].ci => r.key = snippet[v])
  <2>1. CASE vms' = vms
    BY <1>2, <2>1
  <2>2. CASE vms' # vms
    BY <1>1, <1>2, <2>2, OutcomeIs
  <2> QED
    BY <2>1, <2>2
<1>6. /\ meddled \subseteq meddled' /\ Meddling'
      /\ v \notin meddled' => \/ vms' = vms /\ r = vms[v]
                              \/ \A q \in Pipe : pipe[q].vmid = v => ~ Owning(q)
  <2>1. meddled' = meddled \cup
           {u \in {v} : vms' # vms /\ \E p \in Pipe : Owning(p) /\ pipe[p].vmid = u}
    BY DEF actOnNode
  <2> QED
    BY <1>1, <1>2, <2>1 DEF Meddling
<1> HIDE DEF r
<1>7. vms'[v] = r /\ \A u \in VMID \ {v} : vms'[u] = vms[u]
  BY <1>1, <1>2, <1>4 DEF Cloud
<1>8. NoVM.owner \notin Pipe /\ NoVM.state = "none"
  BY PipeIsPair DEF NoVM
<1>9. VMInv(v)
  BY <1>2 DEF IInv
<1>10. ASSUME NEW q \in Pipe PROVE TaskInv(q)'
  <2>1. TaskInv(q)
    BY DEF IInv
  <2>2. SUFFICES ASSUME task[q] = "running" PROVE vms'[pipe[q].vmid] = vms[pipe[q].vmid]
    BY <1>3, <2>1 DEF TaskInv
  <2>3. pipe[q].vmid \in VMID /\ vms[pipe[q].vmid].state = "cloning"
    BY <1>1, <2>1, <2>2, NumberOfActive DEF TaskInv
  <2> QED
    BY <1>5, <1>7, <2>3
<1>11. Operators' /\ \A a \in Operator : OpInv(a)'
  <2>1. [pc |-> "idle", vmid |-> 0] \in Request
    BY DEF Request
  <2>2. op' = [op EXCEPT ![o] = [pc |-> "idle", vmid |-> 0]]
    BY DEF actOnNode
  <2>3. /\ op' \in [Operator -> Request] /\ op'[o].pc = "idle"
        /\ \A a \in Operator \ {o} : op'[a] = op[a]
    BY <1>1, <2>1, <2>2 DEF Operators
  <2>4. Operators'
    BY <1>1, <1>3, <2>3 DEF Operators
  <2> QED
    BY <2>3, <2>4 DEF IInv, OpInv
<1>12. ASSUME NEW q \in Pipe, pipe[q].vmid = v, v \notin meddled'
       PROVE  /\ Progress(q)'
              /\ Owning(q) /\ task'[q] # "error" => r.owner = q
  <2>1. v \notin meddled
    BY <1>6, <1>12
  <2>2. CASE r = vms[v]
    <3>1. Owning(q) /\ task[q] # "error" => r.owner = q
      BY <1>12, <2>1, <2>2 DEF IInv, WorksOnOwnVM
    <3>2. Progress(q)
      BY DEF IInv
    <3>3. Progress(q)'
      BY <1>3, <1>7, <1>12, <2>1, <2>2, <3>2 DEF Progress, Owning, Active
    <3> QED
      BY <1>3, <3>1, <3>3
  <2>3. CASE ~ Owning(q)
    <3>1. SUFFICES ASSUME r.owner = q PROVE Progress(q)'
      <4>1. r.owner # q => Progress(q)'
        BY <1>3, <1>7, <1>12 DEF Progress
      <4> QED
        BY <2>3, <3>1, <4>1
    <3>2. /\ vms[v].owner = q /\ r.ci = vms[v].ci
          /\ r.key = vms[v].key \/ (vms[v].ci => r.key = snippet[v])
      BY <1>5, <1>8, <3>1
    <3>3. pipe[q].step \notin {"idle", "cloning"}
      BY <1>2, <1>9, <1>12, <3>2, NumberIsPositive, TypeOKParts, <1>1 DEF VMInv, Numbered
    <3>4. pipe[q].step \in {"ready", "failed"}
      BY <2>3, <3>3 DEF Owning, Active
    <3>5. pipe[q].step = "ready" =>
            /\ vault[v] = q /\ snippet[v] = q /\ vms[v].ci /\ vms[v].key = q
      BY <1>2, <1>12, <2>1, <3>2 DEF IInv, Progress, Keyed, Written, Injected
    <3> QED
      BY <1>3, <1>7, <1>12, <2>3, <3>2, <3>4, <3>5
      DEF Progress, Keyed, Written, Injected, Owning, Active
  <2> QED
    BY <1>6, <1>12, <2>2, <2>3
<1>13. r.state = "none" => r = NoVM
  BY <1>5, <1>9 DEF VMInv
<1>14. r.owner \in Pipe => r.owner = vms[v].owner
  BY <1>5, <1>8
<1>15. task' \in [Pipe -> {"none", "running", "OK", "error"}]
  BY <1>1, <1>3 DEF Pipes
<1> QED
  BY <1>2, <1>3, <1>4, <1>5, <1>6, <1>10, <1>11, <1>12, <1>13, <1>14, <1>15, ClusterStep

\* A request starts all its pipelines, each with a number of its own that no VM
\* has.
LEMMA ProvisionStep ==
  ASSUME IInv, NEW j \in Job, handleProvision(j) PROVE IInv'
<1> DEFINE N(i) == allocateVMIDs(existingVMIDs, StartID, i)
<1>1. TypeOK /\ Together /\ Pipes /\ Numbered /\ Separate /\ Cloud /\ Operators /\ Meddling
  BY TypeOKParts DEF IInv
<1>2. UNCHANGED <<task, vms, snippet, vault, op, operations, meddled>>
  BY DEF handleProvision
<1>3. \A p \in Pipe : p[1] = j => pipe[p].step = "idle" /\ pipe[p].vmid = 0
  <2>1. <<j, 1>> \in Pipe /\ <<j, 1>>[1] = j /\ pipe[<<j, 1>>].step = "idle"
    BY PipeIsPair DEF handleProvision
  <2> QED
    BY <1>1, <2>1 DEF Together, Numbered
<1>4. ASSUME NEW i \in 1 .. Count[j]
      PROVE  /\ N(i) \in VMID /\ vms[N(i)].state = "none"
             /\ Rank(existingVMIDs, N(i)) = i - 1
  <2>1. IsFiniteSet(Free(existingVMIDs, StartID))
    BY VMIDAssumption, FS_Subset DEF Free
  <2>2. Cardinality(Free(existingVMIDs, StartID)) \in Nat
    BY <2>1, FS_CardinalityType
  <2>3. Count[j] \in Nat /\ Cardinality(Free(existingVMIDs, StartID)) >= Count[j]
    BY CountAssumption DEF handleProvision
  <2>4. i \in 1 .. Cardinality(Free(existingVMIDs, StartID))
    BY <2>2, <2>3
  <2>5. /\ N(i) \in VMID \ existingVMIDs
        /\ Rank(existingVMIDs, N(i)) = i - 1
    BY <2>4, Allocation
  <2> HIDE DEF N
  <2>6. vms[N(i)].state = "none"
    BY <2>5 DEF existingVMIDs
  <2> QED
    BY <2>5, <2>6
<1>5. \A i, k \in 1 .. Count[j] : i # k => N(i) # N(k)
  <2>1. SUFFICES ASSUME NEW i \in 1 .. Count[j], NEW k \in 1 .. Count[j], N(i) = N(k)
                 PROVE  i = k
    OBVIOUS
  <2>2. i - 1 = k - 1
    BY <1>4, <2>1
  <2>3. i \in Int /\ k \in Int
    OBVIOUS
  <2> HIDE DEF N
  <2> QED
    BY <2>2, <2>3
<1>6. pipe' = [p \in Pipe |-> IF p[1] = j THEN [step |-> "cloning", vmid |-> N(p[2])]
                                          ELSE pipe[p]]
  BY DEF handleProvision
<1> HIDE DEF N
<1>7. /\ \A p \in Pipe : p[1] = j => pipe'[p].step = "cloning" /\ pipe'[p].vmid = N(p[2])
                                     /\ N(p[2]) \in VMID
      /\ \A p \in Pipe : p[1] # j => pipe'[p] = pipe[p]
      /\ pipe' \in [Pipe -> PipeState]
  <2>1. \A p \in Pipe : p[1] = j => p[2] \in 1 .. Count[j] /\ N(p[2]) \in VMID
    BY <1>4, PipeIsPair
  <2>2. \A p \in Pipe : p[1] = j => [step |-> "cloning", vmid |-> N(p[2])] \in PipeState
    BY <2>1 DEF PipeState, Steps
  <2> QED
    BY <1>1, <1>6, <2>1, <2>2 DEF Pipes
<1>8. Numbered' /\ Separate' /\ Together'
  <2>1. Numbered'
    BY <1>1, <1>7, NumberIsPositive DEF Numbered
  <2>2. ASSUME NEW p \in Pipe, NEW q \in Pipe, p # q, p[1] = q[1], pipe'[p].vmid # 0
        PROVE  pipe'[p].vmid # pipe'[q].vmid
    <3>1. CASE p[1] = j
      <4>1. p[2] # q[2] /\ p[2] \in 1 .. Count[j] /\ q[2] \in 1 .. Count[j]
        BY <2>2, <3>1, PipeIsPair
      <4>2. N(p[2]) # N(q[2])
        BY <1>5, <4>1
      <4>3. pipe'[p].vmid = N(p[2]) /\ pipe'[q].vmid = N(q[2])
        BY <1>7, <2>2, <3>1
      <4> QED
        BY <4>2, <4>3
    <3>2. CASE p[1] # j
      BY <1>1, <1>7, <2>2, <3>2 DEF Separate
    <3> QED
      BY <3>1, <3>2
  <2>3. Together'
    BY <1>1, <1>7 DEF Together
  <2> QED
    BY <2>1, <2>2, <2>3 DEF Separate
<1>9. TypeOK'
  <2>1. Pipes' /\ Cloud' /\ Operators' /\ Meddling'
    BY <1>1, <1>2, <1>7 DEF Pipes, Cloud, Operators, Meddling
  <2> QED
    BY <1>8, <2>1, TypeOKFromParts
<1>10. ASSUME NEW p \in Pipe PROVE TaskInv(p)' /\ Progress(p)'
  <2>1. TaskInv(p) /\ Progress(p)
    BY DEF IInv
  <2>2. CASE p[1] = j
    <3>1. task[p] = "none" /\ pipe'[p].step = "cloning" /\ pipe'[p].vmid \in VMID
          /\ vms[pipe'[p].vmid].state = "none"
      <4>1. p[2] \in 1 .. Count[j]
        BY <2>2, PipeIsPair
      <4>2. N(p[2]) \in VMID /\ vms[N(p[2])].state = "none"
        BY <1>4, <4>1
      <4>3. pipe'[p].step = "cloning" /\ pipe'[p].vmid = N(p[2])
        BY <1>7, <2>2
      <4>4. task[p] = "none"
        BY <1>3, <2>1, <2>2 DEF TaskInv
      <4> QED
        BY <4>2, <4>3, <4>4
    <3>2. vms[pipe'[p].vmid] = NoVM
      BY <3>1 DEF IInv, VMInv
    <3>3. vms[pipe'[p].vmid].owner # p
      BY <3>2, PipeIsPair DEF NoVM
    <3> QED
      BY <1>2, <3>1, <3>3 DEF TaskInv, Progress, Cloned, Keyed
  <2>3. CASE p[1] # j
    <3>1. pipe'[p] = pipe[p]
      BY <1>7, <2>3
    <3> QED
      BY <1>2, <2>1, <3>1 DEF TaskInv, Progress, Owning, Active
  <2> QED
    BY <2>2, <2>3
<1>11. ASSUME NEW v \in VMID PROVE VMInv(v)'
  <2>1. VMInv(v)
    BY DEF IInv
  <2>2. vms[v].owner \in Pipe => vms[v].owner[1] # j
    <3>1. SUFFICES ASSUME vms[v].owner \in Pipe, vms[v].owner[1] = j PROVE FALSE
      OBVIOUS
    <3> QED
      BY <1>3, <2>1, <3>1, NumberIsPositive DEF VMInv
  <2> QED
    BY <1>2, <1>7, <2>1, <2>2 DEF VMInv
<1>12. WorksOnOwnVM'
  <2>1. ASSUME NEW p \in Pipe, Owning(p)' PROVE Owning(p) /\ pipe'[p] = pipe[p]
    BY <1>7, <2>1 DEF Owning, Active
  <2> QED
    BY <1>2, <2>1 DEF IInv, WorksOnOwnVM
<1>13. \A o \in Operator : OpInv(o)'
  BY <1>2 DEF IInv, OpInv
<1> QED
  BY <1>8, <1>9, <1>10, <1>11, <1>12, <1>13 DEF IInv

-----------------------------------------------------------------------------
(* The theorems                                                            *)

LEMMA NextIInv == IInv /\ [Next]_vars => IInv'
<1> SUFFICES ASSUME IInv, [Next]_vars PROVE IInv'
  OBVIOUS
<1>1. ASSUME NEW j \in Job, handleProvision(j) PROVE IInv'
  BY <1>1, ProvisionStep
<1>2. ASSUME NEW p \in Pipe, provisionVM(p) PROVE IInv'
  <2>1. CASE cloneVM(p)
    BY <2>1, CloneStep
  <2>2. CASE waitForTask(p)
    BY <2>2, WaitForTaskStep
  <2>3. CASE configure(p)
    BY <2>3, ConfigureStep
  <2>4. CASE generateSSHCert(p)
    BY <2>4, GenerateStep
  <2>5. CASE writeSnippetViaSSH(p)
    BY <2>5, WriteSnippetStep
  <2>6. CASE injectCloudInit(p)
    BY <2>6, InjectStep
  <2>7. CASE startVM(p)
    BY <2>7, StartStep
  <2>8. CASE waitForIP(p)
    BY <2>8, WaitForIPStep
  <2>9. CASE Fail(p)
    BY <2>9, FailStep
  <2> QED
    BY <1>2, <2>1, <2>2, <2>3, <2>4, <2>5, <2>6, <2>7, <2>8, <2>9 DEF provisionVM
<1>3. ASSUME NEW p \in Pipe, CloneTask(p) PROVE IInv'
  BY <1>3, CloneTaskStep
<1>4. ASSUME NEW o \in Operator, NEW v \in VMID,
             NEW what \in {"start", "stop", "reboot", "delete"}, resolveVMNode(o, what, v)
      PROVE  IInv'
  BY <1>4, ResolveStep
<1>5. ASSUME NEW o \in Operator, actOnNode(o) PROVE IInv'
  BY <1>5, ActStep
<1>6. ASSUME NEW v \in VMID, OtherTool(v) PROVE IInv'
  BY <1>6, OtherToolStep
<1>7. CASE UNCHANGED vars
  <2>1. UNCHANGED <<pipe, task, vms, snippet, vault, op, operations, meddled>>
    BY <1>7 DEF vars
  <2>2. TypeOK' /\ Together' /\ WorksOnOwnVM'
    BY <2>1 DEF IInv, TypeOK, Together, WorksOnOwnVM, Owning, Active
  <2>3. (\A p \in Pipe : TaskInv(p)') /\ (\A v \in VMID : VMInv(v)')
    BY <2>1 DEF IInv, TaskInv, VMInv
  <2>4. (\A p \in Pipe : Progress(p)') /\ (\A o \in Operator : OpInv(o)')
    BY <2>1 DEF IInv, Progress, Owning, Active, OpInv
  <2> QED
    BY <2>2, <2>3, <2>4 DEF IInv
<1> QED
  BY <1>1, <1>2, <1>3, <1>4, <1>5, <1>6, <1>7 DEF Next

\* The invariant that carries the others: who may own the VM of a number, and
\* how far its pipeline has brought it.
THEOREM Invariance == Spec => []IInv
BY InitIInv, NextIInv, PTL DEF Spec

\* The variables keep their types, and two VMs of a request never have the same
\* number.
THEOREM TypeCorrect == Spec => []TypeOK
<1>1. IInv => TypeOK
  BY DEF IInv
<1> QED
  BY <1>1, Invariance, PTL

\* However requests race for numbers, a pipeline works on the VM it cloned
\* itself, unless an operator meddled with that number (main.go provisionVM).
THEOREM PipelinesKeepApart == Spec => []WorksOnOwnVM
<1>1. IInv => WorksOnOwnVM
  BY DEF IInv
<1> QED
  BY <1>1, Invariance, PTL

\* The key a pipeline handed out with "ready" opens the VM it cloned, and is the
\* one the vault returns for its number, unless an operator meddled with it.
THEOREM ReadyKeyOpensVM == Spec => []ReadyVMHasItsKey
<1>1. ASSUME IInv PROVE ReadyVMHasItsKey
  <2>1. SUFFICES ASSUME NEW p \in Pipe, pipe[p].step = "ready",
                        pipe[p].vmid \notin meddled, vms[pipe[p].vmid].owner = p
                 PROVE  vms[pipe[p].vmid].key = p /\ vault[pipe[p].vmid] = p
    BY DEF ReadyVMHasItsKey
  <2>2. pipe[p].vmid \in VMID
    BY <1>1, <2>1, NumberOfActive DEF IInv
  <2> QED
    BY <1>1, <2>1, <2>2 DEF IInv, Progress, Keyed
<1> QED
  BY <1>1, Invariance, PTL

\* No step of a pipeline changes a VM that the pipeline did not clone, unless an
\* operator meddled with the VM's number.
THEOREM OthersAreLeftAlone == Spec => LeavesOtherVMsAlone
<1> DEFINE Alone == \A p \in Pipe : pipe'[p] # pipe[p] =>
                      \A v \in VMID \ meddled :
                         vms[v].owner # p /\ vms[v].state # "none" => vms'[v] = vms[v]
<1>1. ASSUME IInv, [Next]_vars PROVE Alone
  <2>1. SUFFICES ASSUME NEW p \in Pipe, pipe'[p] # pipe[p],
                        NEW v \in VMID \ meddled,
                        vms[v].owner # p, vms[v].state # "none"
                 PROVE  vms'[v] = vms[v]
    OBVIOUS
  <2>2. TypeOK /\ Pipes /\ Cloud
    BY <1>1, TypeOKParts DEF IInv
  <2>3. ASSUME NEW q \in Pipe, NEW from, NEW to, Go(q, from, to) PROVE q = p
    BY <2>1, <2>2, <2>3 DEF Go, Pipes
  <2>4. CASE cloneVM(p)
    <3>1. v # pipe[p].vmid
      BY <2>1, <2>4 DEF cloneVM
    <3> QED
      BY <2>2, <2>4, <3>1 DEF cloneVM, Cloud
  <2>5. ASSUME Owning(p), task[p] = "OK" PROVE pipe[p].vmid # v
    BY <1>1, <2>1, <2>5 DEF IInv, WorksOnOwnVM
  <2>6. CASE injectCloudInit(p)
    <3>1. pipe[p].vmid # v
      BY <1>1, <2>5, <2>6 DEF injectCloudInit, Go, IInv, TaskInv, Cloned, Keyed, Owning, Active
    <3> QED
      BY <2>2, <2>6, <3>1 DEF injectCloudInit, Cloud
  <2>7. CASE startVM(p)
    <3>1. pipe[p].vmid # v
      BY <1>1, <2>5, <2>7 DEF startVM, Go, IInv, TaskInv, Cloned, Keyed, Owning, Active
    <3> QED
      BY <2>2, <2>7, <3>1 DEF startVM, Cloud
  <2>8. ASSUME NEW q \in Pipe, provisionVM(q) PROVE vms'[v] = vms[v]
    <3>1. CASE cloneVM(q) \/ injectCloudInit(q) \/ startVM(q)
      <4>1. q = p
        BY <2>3, <3>1 DEF cloneVM, injectCloudInit, startVM
      <4> QED
        BY <2>4, <2>6, <2>7, <3>1, <4>1
    <3>2. CASE ~(cloneVM(q) \/ injectCloudInit(q) \/ startVM(q))
      BY <2>8, <3>2 DEF provisionVM, waitForTask, configure, generateSSHCert,
                        writeSnippetViaSSH, waitForIP, Fail
    <3> QED
      BY <3>1, <3>2
  <2>9. ASSUME NEW j \in Job, handleProvision(j) PROVE vms' = vms
    BY <2>9 DEF handleProvision
  <2>10. ASSUME NEW q \in Pipe, CloneTask(q) PROVE FALSE
    BY <2>1, <2>10 DEF CloneTask
  <2>11. ASSUME NEW o \in Operator,
                \/ actOnNode(o)
                \/ \E u \in VMID, what \in {"start", "stop", "reboot", "delete"} :
                     resolveVMNode(o, what, u)
         PROVE  FALSE
    BY <2>1, <2>11 DEF actOnNode, resolveVMNode
  <2>12. ASSUME NEW u \in VMID, OtherTool(u) PROVE FALSE
    BY <2>1, <2>12 DEF OtherTool
  <2> QED
    BY <1>1, <2>1, <2>8, <2>9, <2>10, <2>11, <2>12 DEF Next, vars
<1>2. IInv /\ [Next]_vars => [Alone]_vars
  BY <1>1
<1> QED
  BY <1>2, Invariance, PTL DEF Spec, LeavesOtherVMsAlone

=============================================================================
