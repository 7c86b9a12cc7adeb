--------------------------- MODULE MCProvisioning ---------------------------
(* Instances of Provisioning for TLC.                                      *)
EXTENDS Provisioning

\* The first job asks for two VMs, the others for one.
MCCount == [j \in Job |-> IF j = CHOOSE k \in Job : TRUE THEN 2 ELSE 1]
=============================================================================
