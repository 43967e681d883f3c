--------------------------- MODULE MCObservation ---------------------------
(***************************************************************************)
(* Observation for TLC.  Index and VIX share the levels: below, at and     *)
(* above both bands, on and between two strikes, and what is no finite     *)
(* float.  The chains have rows of both sides or of one, rows that do not  *)
(* parse, and each sort of row that raises; with 50 for what is too large, *)
(* 100 against 2 is, in open interest or volume, and 100 against 100, or   *)
(* against nothing, is not.                                                *)
(***************************************************************************)
EXTENDS Observation, TLC

CONSTANTS e1, e2

MCGaps   == {-1, 1, 4}
MCLevels == {Finite(n) : n \in {-3, 0, 3, 5, 9}}
              \union {Number(s) : s \in {"nan", "inf", "huge", "none"}}

Row(s, n, v, price) == [side |-> s, oi |-> n, vol |-> v, ltp |-> price]
call    == Row("CE", 2, 2, Finite(1))
put     == Row("PE", 3, 1, Number("nan"))
negCall == Row("CE", -2, 0, None)
bigCall == Row("CE", 100, 1, Finite(1))
bigPut  == Row("PE", 100, 1, Finite(1))
junk    == Row("none", Text, Text, Number("huge"))

MCChains == {<<>>, <<call, put>>, <<put>>, <<junk, call>>, <<negCall, put>>,
             <<bigPut>>, <<call, bigPut>>, <<bigCall, bigPut>>,
             <<call, Row("PE", 1, 100, None)>>, <<call, Row("CE", Text, 1, None)>>,
             <<Row("PE", 1, Text, None), call>>, <<Row("CE", 1, 1, Number("huge"))>>}
MCRaisingRules == {{}, {"vix_plausibility"}, {"identity_consistency", "chain_completeness"},
                   Range(RuleIds)}
=============================================================================
