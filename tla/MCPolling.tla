----------------------------- MODULE MCPolling -----------------------------
(***************************************************************************)
(* Polling for TLC.  Trading hours are units 3 to 7 of a day of 18, so     *)
(* that a run holds up to four ticks; day 0 is a weekend.  Runs start on  *)
(* the weekend, and on day 1 before opening, in the session and at its     *)
(* close.  Horizon lies in the trading hours of day 2.                     *)
(***************************************************************************)
EXTENDS Polling

MCWeekend == {0}
MCStarts  == {4, 18, 22, 26}
=============================================================================
