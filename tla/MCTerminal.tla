----------------------------- MODULE MCTerminal -----------------------------
(* Instances of Terminal for TLC.                                          *)
EXTENDS Terminal, TLC

CONSTANTS v1, v2

MCVM == {v1, v2}
MCTarget == [s \in Socket |-> v1]
MCMaxClones == (v1 :> 2) @@ (v2 :> 1)
=============================================================================
