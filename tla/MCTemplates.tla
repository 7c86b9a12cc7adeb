---------------------------- MODULE MCTemplates -----------------------------
(* Instances of Templates for TLC.                                         *)
EXTENDS Templates, TLC

\* All nodes, and all that are left when one has gone.
MCLists == {Node, Node \ {CHOOSE n \in Node : TRUE}}

\* The commands that change the VM.
MCCommands == <<"create", "convert">>

\* Storage is assigned everywhere, and no template was built, or all were, one
\* after the other with the same number.
MCKnown ==
  LET assigned == [k \in Key |-> [Missing EXCEPT !.storage = TRUE]]
  IN  {assigned, [k \in Key |-> [assigned[k] EXCEPT !.status = "Ready",
                                                   !.vmid = CHOOSE v \in VMID : TRUE]]}
Symmetry == Permutations(Request) \cup Permutations(Template)
=============================================================================
