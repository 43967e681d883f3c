------------------------------ MODULE Universe ------------------------------
(***************************************************************************)
(* What the instrument registry promises: the universe of instruments is   *)
(* unknown, then known, and is only ever replaced as a whole by another    *)
(* one.  A resolution that fails is no step of it.                         *)
(***************************************************************************)
CONSTANTS Listings,   \* the universes a search may report
          Unknown     \* before the first resolution

VARIABLE universe

Init    == universe = Unknown
Resolve == universe' \in Listings
Spec    == Init /\ [][Resolve]_universe
=============================================================================
