-------------------------- MODULE MCReqDependency --------------------------
(* A small device and pool for TLC; all names are interchangeable.         *)
EXTENDS ReqDependency, TLC

DepSymmetry == Permutations(Tags) \cup Permutations(Entries)
                 \cup Permutations(Dies) \cup Permutations(Values)
=============================================================================
