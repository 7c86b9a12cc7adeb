------------------------------ MODULE MCDeploy ------------------------------
(* An instance of Deploy for TLC.                                          *)
EXTENDS Deploy, TLC

CONSTANTS n1, n2, t1

\* Two VMs, from the second VMID; the configuration has the first.
MCForm == {[Nothing EXCEPT !.template = t1, !.node = n1, !.count = 2, !.start = 2]}
MCConfig == {[templateId |-> 4, node |-> n2, count |-> -1, start |-> 1]}

\* A node of white space, a body that handleProvision cannot decode, and a
\* request in which all fields are missing: VM_COUNT is negative.
OneVM == [Nothing EXCEPT !.count = 1]
MCCall == {[OneVM EXCEPT !.spaces = TRUE],
           [OneVM EXCEPT !.node = n1, !.templateId = 3, !.decodes = FALSE],
           Nothing}

\* TEMPLATE_VMID is not a template that exists on its node.
Healthy == [api |-> TRUE, caKey |-> TRUE,
            node |-> [n \in {n1, n2} |-> "online"],
            store |-> [n \in {n1, n2} |-> "snippets"],
            dir |-> [n \in {n1, n2} |-> TRUE],
            vmid |-> [k \in {t1} \X {n1, n2} |-> IF k[2] = n1 THEN 3 ELSE 0],
            built |-> {<<3, n1>>},
            used |-> {3, 4}]

\* All is well, or something is not, which may differ for the two nodes and for
\* the two VMIDs that deployments start from.
MCClusters == {Healthy,
               [Healthy EXCEPT !.api = FALSE, !.vmid[t1, n1] = 0],
               [Healthy EXCEPT !.caKey = FALSE, !.dir[n1] = FALSE],
               [Healthy EXCEPT !.node[n1] = "offline", !.store[n2] = "plain",
                               !.used = {3, 4, 5}]}

Symmetry == Permutations(Request)
=============================================================================
