----------------------------- MODULE MCKeyVault -----------------------------
(* Instances of KeyVault for TLC.                                          *)
EXTENDS KeyVault, TLC

\* Names, files and processes are interchangeable.  The VMIDs are numbers
\* and stay out of the symmetry set.
Symmetry == Permutations(DownloadName) \cup Permutations(CipherFile)
              \cup Permutations(Writer)
=============================================================================
