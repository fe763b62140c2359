---------------------------- MODULE MCVaultRead ----------------------------
EXTENDS VaultRead, TLC

(* Item names are interchangeable.  Ciphers and collections are numbers,    *)
(* whose order the scan and the resolution follow, and a collection may     *)
(* have the name of the personal vault.                                     *)
Symmetry == Permutations(Names)
=============================================================================
