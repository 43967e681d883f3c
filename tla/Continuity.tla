----------------------------- MODULE Continuity -----------------------------
(***************************************************************************)
(* How a snapshot is classified against the one before it                  *)
(* (DiscoveryController._compute_continuity, lib/discovery/controller.py). *)
(* Times are in units of which `interval' make one poll interval of the    *)
(* run, its interval_seconds.                                              *)
(***************************************************************************)
EXTENDS Integers

Statuses == {"FIRST", "CONTIGUOUS", "GAP"}

\* Within 50% of the poll interval, both ends included.
Within(interval, actual) == interval <= 2 * actual /\ 2 * actual <= 3 * interval

\* Mutant: a clock set back has a status of its own.
ClassifySkew(interval, first, actual) ==
    IF first THEN "FIRST"
    ELSE IF actual < 0 THEN "SKEW"
    ELSE IF Within(interval, actual) THEN "CONTIGUOUS" ELSE "GAP"

\* continuity_status of a snapshot, `actual' after the one before it.
Classify(interval, first, actual) ==
    IF first THEN "FIRST"
    ELSE IF Within(interval, actual) THEN "CONTIGUOUS" ELSE "GAP"
=============================================================================
