---------------------------- MODULE MCDerivation ----------------------------
(***************************************************************************)
(* Derivation for TLC.  With an interval of 2 units, the clock advances by *)
(* the lower end of the contiguous band or by more than its upper end, or  *)
(* is set back.  One expiry has two instruments, the other has one.        *)
(***************************************************************************)
EXTENDS Derivation

CONSTANTS e1, e2, k1, k2

MCGaps   == {-1, 1, 4}
MCListed == [e \in Expiries |-> IF e = e1 THEN {k1, k2} ELSE {k1}]
=============================================================================
