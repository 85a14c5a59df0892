---------------------------- MODULE MCSliceStore ----------------------------
(* A small device for TLC; the slices and values are interchangeable.      *)
EXTENDS SliceStore, TLC

StoreSymmetry == Permutations(LogicalSlices) \cup Permutations(Values)
=============================================================================
