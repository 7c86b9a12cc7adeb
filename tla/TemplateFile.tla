---------------------------- MODULE TemplateFile ----------------------------
(***************************************************************************)
(* What saving the template registry promises, without a temporary file: a *)
(* restart loads the copy of the registry that the last save took, whole,  *)
(* whatever fails or crashes in between.  Nothing is promised of the file  *)
(* once two saves have overlapped, and a save may bring back an older copy *)
(* than the one it replaces.                                               *)
(***************************************************************************)
CONSTANT Saver

VARIABLES mem,        \* the registry in memory
          copy,       \* per saver: the copy that it is saving, if any
          disk,       \* the registry that a restart loads
          readable,   \* is the file as a save left it?
          overlapped  \* have two saves overlapped?

vars == <<mem, copy, disk, readable, overlapped>>
NoCopies == [s \in Saver |-> {}]

Init ==
  /\ mem = disk
  /\ copy = NoCopies
  /\ readable = TRUE
  /\ overlapped = FALSE

\* The registry in memory changes, to whatever.
Change == UNCHANGED <<copy, disk, readable, overlapped>>

Copy(s) ==
  /\ copy' = [copy EXCEPT ![s] = {mem}]
  /\ UNCHANGED <<mem, disk, readable, overlapped>>

Install(s) ==
  /\ disk' \in copy[s]
  /\ readable' = TRUE
  /\ copy' = [copy EXCEPT ![s] = {}]
  /\ UNCHANGED <<mem, overlapped>>

GiveUp(s) ==
  /\ copy' = [copy EXCEPT ![s] = {}]
  /\ UNCHANGED <<mem, disk, readable, overlapped>>

Restart ==
  /\ mem' = disk
  /\ copy' = NoCopies
  /\ UNCHANGED <<disk, readable, overlapped>>

Overlap ==
  /\ \E s, t \in Saver : s # t /\ copy[s] # {} /\ copy[t] # {}
  /\ overlapped' = TRUE
  /\ UNCHANGED <<mem, disk, readable>>

Garble ==
  /\ overlapped
  /\ UNCHANGED <<mem, overlapped>>

Next == \/ Change \/ Restart \/ Overlap \/ Garble
        \/ \E s \in Saver : Copy(s) \/ Install(s) \/ GiveUp(s)

Spec == Init /\ [][Next]_vars
=============================================================================
