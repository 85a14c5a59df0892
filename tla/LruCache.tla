------------------------------ MODULE LruCache ------------------------------
(***************************************************************************)
(* What the host data buffer promises as a cache: a fixed number of        *)
(* places, each request served from the place of its slice or else from    *)
(* the place used longest ago, which is emptied first.                     *)
(***************************************************************************)
EXTENDS Naturals, Sequences

CONSTANTS Size,     \* number of places
          Slices,   \* the slices that are requested
          Empty     \* content of a place never used

VARIABLE cache      \* the places, the most recently used one first

Place(s, w) == [slice |-> s, dirty |-> w]

Init == cache = [i \in 1 .. Size |-> Place(Empty, FALSE)]

\* The places without the i-th.
Others(i) == SubSeq(cache, 1, i - 1) \o SubSeq(cache, i + 1, Size)

\* Slice s has a place; a write (w) makes it dirty.
Hit(s, w) ==
  \E i \in 1 .. Size :
    /\ cache[i].slice = s
    /\ cache' = <<Place(s, cache[i].dirty \/ w)>> \o Others(i)

\* Slice s has none and gets the one used longest ago.
Miss(s, w) ==
  /\ \A i \in 1 .. Size : cache[i].slice # s
  /\ cache' = <<Place(s, w)>> \o Others(Size)

Next == \E s \in Slices, w \in BOOLEAN : Hit(s, w) \/ Miss(s, w)

Spec == Init /\ [][Next]_cache
=============================================================================
