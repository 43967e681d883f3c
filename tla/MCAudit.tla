------------------------------ MODULE MCAudit -------------------------------
(***************************************************************************)
(* Audit for TLC, in seconds.  Runs poll every 2 or 4; the clock is set    *)
(* back, stands still, or advances by 4 (two polls, or one) or by 7, which *)
(* rounds from 3.5 and from 1.75 polls.                                    *)
(***************************************************************************)
EXTENDS Audit

MCIntervals == {2, 4}
MCGaps      == {-1, 0, 4, 7}
=============================================================================
