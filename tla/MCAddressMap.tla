---------------------------- MODULE MCAddressMap ----------------------------
(* Small instances of AddressMap for TLC. *)
EXTENDS AddressMap, TLC

\* The logical slices are interchangeable: Init and every action treat them
\* alike, and no property of the runs that use this singles one out.
SliceSymmetry == Permutations(LogicalSlices)
=============================================================================
