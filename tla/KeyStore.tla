------------------------------ MODULE KeyStore ------------------------------
(***************************************************************************)
(* What the encrypted key vault promises, without files, locks or an       *)
(* index: for every VM, the key a download returns now and the key a       *)
(* download would return after a crash of the backend.  Storing a key for  *)
(* one VM never changes what any other VM's owner can download.            *)
(***************************************************************************)

CONSTANTS VM,       \* the VMIDs that own keys
          Key,      \* every private key ever stored, each stored once
          NoKey     \* the answer "no key"

VARIABLES current,  \* current[v]: the key a download of v returns now
          durable   \* durable[v]: the key it would return after a crash

vars == <<current, durable>>

TypeOK == /\ current \in [VM -> Key \cup {NoKey}]
          /\ durable \in [VM -> Key \cup {NoKey}]

Init == /\ current = [v \in VM |-> NoKey]
        /\ durable = [v \in VM |-> NoKey]

\* The new key is served at once; until Commit, a crash may leave v without
\* any key, since its previous one is already being discarded.
Put(v, k) == /\ current' = [current EXCEPT ![v] = k]
             /\ \E old \in {NoKey, durable[v]} :
                   durable' = [durable EXCEPT ![v] = old]

Commit == /\ durable' = current
          /\ UNCHANGED current

Crash == /\ current' = durable
         /\ UNCHANGED durable

Next == \/ \E v \in VM, k \in Key : Put(v, k)
        \/ Commit
        \/ Crash

Spec == Init /\ [][Next]_vars
=============================================================================
