--------------------------- MODULE MCTaskScheduler ---------------------------
(* Instances of TaskScheduler: the static schedule "clean" is of the second *)
(* tenant when there are two, everything else is of the first.              *)
EXTENDS TaskScheduler, TLC

TenantOfKey == [k \in Static \cup Objects |-> IF k = "clean" THEN NTenants ELSE 1]
Symmetry == Permutations(Workers)
=============================================================================
