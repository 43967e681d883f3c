---------------------------- MODULE MCCollector -----------------------------
(***************************************************************************)
(* Collector for TLC: a few records over two days, two stops, both         *)
(* clients.                                                                *)
(***************************************************************************)
EXTENDS Collector, TLC

Symmetry == Permutations(Records)
=============================================================================
