---------------------------- MODULE LogicalStore ----------------------------
(***************************************************************************)
(* What the flash translation layer promises the write-back cache above    *)
(* it: a store that holds, for each logical slice, the value written last. *)
(* On flash whose programs and erases may fail it may lose the value of a  *)
(* slice, but has no other one in its place.  On flash that may also       *)
(* refuse a read for good it may take one value for another: a slice may   *)
(* then hold anything that was written at some time, to whichever slice.   *)
(***************************************************************************)
CONSTANTS
  Slices,   \* the logical slices
  Values,   \* what can be written to one
  Blank,    \* the content of a slice never written
  Broken    \* the content of a slice whose value is lost

VARIABLES
  store,
  latest,     \* what its user wrote to each slice last
  written,    \* the values written so far
  mayLose,    \* whether the store is one that may lose values
  mayMix      \* whether it is one that may mix them up

Init ==
  /\ store = [l \in Slices |-> Blank]
  /\ latest = [l \in Slices |-> Blank]
  /\ written = {}
  /\ mayLose \in BOOLEAN
  /\ mayMix \in BOOLEAN

Write(l, x) ==
  /\ store' = [store EXCEPT ![l] = x]
  /\ latest' = [latest EXCEPT ![l] = x]
  /\ written' = written \cup {x}
  /\ UNCHANGED <<mayLose, mayMix>>

\* Only what has been written can be lost...
Lose(l) ==
  /\ mayLose \/ mayMix
  /\ store[l] # Blank
  /\ store' = [store EXCEPT ![l] = Broken]
  /\ UNCHANGED <<latest, written, mayLose, mayMix>>

\* ...or replaced.
Mix(l, x) ==
  /\ mayMix
  /\ store[l] # Blank
  /\ x \in written
  /\ store' = [store EXCEPT ![l] = x]
  /\ UNCHANGED <<latest, written, mayLose, mayMix>>

Next ==
  \E l \in Slices :
    (\E x \in Values : Write(l, x) \/ Mix(l, x)) \/ Lose(l)

Spec == Init /\ [][Next]_<<store, latest, written, mayLose, mayMix>>
=============================================================================
