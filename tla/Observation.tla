---------------------------- MODULE Observation -----------------------------
(***************************************************************************)
(* One tick of a run, from the broker's answers to the verdict on its      *)
(* snapshot: DiscoveryController._poll_once and _persist, with SpotFetcher *)
(* and VIXFetcher (lib/discovery/fetchers/) and ValidationEngine           *)
(* (lib/discovery/validation.py).  Controller has the ticks in a row,      *)
(* Derivation what passes from one to the next, ChainFetcher the chains.   *)
(*                                                                         *)
(* Index levels, strikes and VIX values are in the integer units of the    *)
(* instance.  A row of a chain has a side ("none": its symbol does not     *)
(* parse), an open interest, a volume and a price.                         *)
(***************************************************************************)
EXTENDS Continuity, StrikeLadder

CONSTANTS Expiries,            \* the configured expiries
          Interval,            \* interval_seconds
          Gaps,                \* wall-clock intervals since the previous tick
          Levels,              \* the values of the field "ltp" (see Numbers)
          Chains,              \* the answers to a chain request: sequences of rows
          Text,                \* an open interest or volume int() does not take
          TooLarge,            \* the least ratio that is too large for a float
          SpotMin, SpotMax,    \* the plausible band of the index, in engine only
          VixMin, VixMax,      \* that of VIX, the same in fetcher and engine
          RaisingRules         \* which sets of rules may raise

ASSUME ObservationAssumption == /\ Expiries # {} /\ Gaps \subseteq Int /\ Interval \in Nat \ {0}
                                /\ 0 < SpotMin /\ SpotMin <= SpotMax
                                /\ VixMin <= VixMax /\ TooLarge \in Nat \ {0}

(***************************************************************************)
(* What JSON makes of a number: a float, an infinity or NaN, or an integer *)
(* too large for a float; "none" is anything that is not a number.         *)
(***************************************************************************)
Number(sort)  == [sort |-> sort, value |-> 0]
Finite(n)     == [sort |-> "finite", value |-> n]
None          == Number("none")
Numbers       == {x \in [sort : {"finite", "nan", "inf", "huge", "none"}, value : Int] :
                     x.sort # "finite" => x.value = 0}

ASSUME LevelsAssumption == None \in Levels /\ Levels \subseteq Numbers

Rows == [side : {"CE", "PE", "none"}, oi : Int \union {Text}, vol : Int \union {Text},
         ltp : Numbers]

ASSUME ChainsAssumption == Chains \subseteq Seq(Rows)

InBand(x, lo, hi) == x.sort = "finite" /\ lo <= x.value /\ x.value <= hi

Failures == [kind : {"raises", "malformed", "refused"}, symbol : {"none"}, ltp : {None}]
Answers  == Failures \union
              [kind : {"answer"}, symbol : {"none", "own", "other"}, ltp : Levels]

\* SpotResult and VIXResult; raw is the "ltp" of the raw_response, kept for spot.
Unusable(raw) == [success |-> FALSE, ltp |-> None, raw |-> raw]
Usable(raw)   == [success |-> TRUE, ltp |-> raw, raw |-> raw]

\* What a chain fetch comes to; a successful one may hold no row.
NotFetched == [kind |-> "none", rows |-> <<>>]
Outcomes   == [kind : {"failed", "raises"}, rows : {<<>>}]
                \union [kind : {"ok"}, rows : Chains]

\* derived: None, or for each expiry, of open interest and of volume, the
\* totals of calls and puts and their ratio.
Fields     == {"oi", "vol"}
NoRatio    == <<>>
NoTotals   == [field \in Fields |-> [ce |-> 0, pe |-> 0, ratio |-> NoRatio]]
NoDerived  == [given |-> FALSE, of |-> [e \in Expiries |-> NoTotals]]

RuleIds == <<"identity_consistency", "vix_plausibility", "spot_plausibility",
             "atm_resolution_coherence", "chain_completeness",
             "continuity_self_consistency">>

ASSUME RulesAssumption == RaisingRules \subseteq SUBSET Range(RuleIds)

VARIABLES
    pc,         \* the next step of the tick
    mode,       \* source_mode of the spot fetcher
    wiring,     \* "none", a "validator", or one with a "quality" archiver
    continuity, \* SnapshotContinuity: status and actual_interval_seconds
    spot, vix,  \* SpotResult, VIXResult: success and ltp
    meta,       \* SnapshotMeta: anchoring_spot and resolved_atm
    chains,     \* [Expiries -> Outcomes]: the answers, with their raw rows
    derived,    \* DerivedObservation
    findings,   \* the verdict, <<>> without one
    raising,    \* ghost: the rules that raised while it was made
    archived,   \* whether the snapshot is in the raw archive
    quality     \* the verdict in the quality stream, <<>> without one

fetched == <<continuity, spot, vix, meta, chains, derived>>
vars    == <<pc, mode, wiring, fetched, findings, raising, archived, quality>>

Init ==
    /\ pc = "spot"
    /\ mode \in {"separate_call", "chain_embedded"}
    /\ wiring \in {"none", "validator", "quality"}
    /\ \/ continuity = [status |-> "FIRST", actual |-> 0]
       \/ \E gap \in Gaps : continuity = [status |-> Classify(Interval, FALSE, gap), actual |-> gap]
    /\ spot = Unusable(None) /\ vix = Unusable(None)
    /\ meta = [anchor |-> 0, atm |-> 0]
    /\ chains = [e \in Expiries |-> NotFetched] /\ derived = NoDerived
    /\ findings = <<>> /\ raising = {} /\ archived = FALSE /\ quality = <<>>

-----------------------------------------------------------------------------
(***************************************************************************)
(* The broker's answers.                                                   *)
(***************************************************************************)
Raise == pc' = "raised"

(***************************************************************************)
(* SpotFetcher.fetch: any number but 0 is a level, and an integer too      *)
(* large for float() raises.  The controller passes no chain, so the       *)
(* embedded source never has a level.                                      *)
(***************************************************************************)
FetchSpot(answer) ==
    /\ pc = "spot"
    /\ IF mode = "separate_call"
         THEN /\ spot' = IF answer.ltp \in {None, Finite(0), Number("huge")}
                           THEN Unusable(answer.ltp) ELSE Usable(answer.ltp)
              /\ IF answer.ltp = Number("huge") THEN Raise ELSE pc' = "vix"
         ELSE UNCHANGED spot /\ pc' = "vix"
    /\ UNCHANGED <<mode, wiring, continuity, vix, meta, chains, derived, findings, raising, archived, quality>>

\* Mutant: any number is taken for VIX, whatever it is of.
FetchVixUnchecked(answer) ==
    /\ pc = "vix"
    /\ vix' = IF answer.ltp.sort = "finite" THEN Usable(answer.ltp) ELSE Unusable(None)
    /\ pc' = IF spot.success THEN "anchor" ELSE "validate"
    /\ UNCHANGED <<mode, wiring, continuity, spot, meta, chains, derived, findings, raising, archived, quality>>

\* VIXFetcher.fetch: a number in the band, under no other instrument's symbol.
FetchVix(answer) ==
    /\ pc = "vix"
    /\ vix' = IF answer.symbol # "other" /\ InBand(answer.ltp, VixMin, VixMax)
                THEN Usable(answer.ltp) ELSE Unusable(None)
    /\ pc' = IF spot.success THEN "anchor" ELSE "validate"
    /\ UNCHANGED <<mode, wiring, continuity, spot, meta, chains, derived, findings, raising, archived, quality>>

\* int(round(level / step)): an infinity or NaN raises.
Anchor ==
    /\ pc = "anchor"
    /\ IF spot.ltp.sort = "finite"
         THEN /\ meta' = [anchor |-> spot.ltp.value, atm |-> AtmCandidate(spot.ltp.value)]
              /\ pc' = "chains"
         ELSE Raise /\ UNCHANGED meta
    /\ UNCHANGED <<mode, wiring, continuity, spot, vix, chains, derived, findings, raising, archived, quality>>

FetchChains(outcome) ==
    /\ pc = "chains"
    /\ chains' = outcome
    /\ IF \E e \in Expiries : outcome[e].kind = "raises" THEN Raise ELSE pc' = "parse"
    /\ UNCHANGED <<mode, wiring, continuity, spot, vix, meta, derived, findings, raising, archived, quality>>

-----------------------------------------------------------------------------
(***************************************************************************)
(* The quotes of an expiry (_parse_quotes): the rows whose symbol parses,  *)
(* of a successful chain, each under the names of the expiry and of the    *)
(* underlying.                                                             *)
(***************************************************************************)
Underlying == "underlying"

Parses(row) == row.side \in {"CE", "PE"}

Quotes(e) ==
    LET rows == chains[e].rows
    IN  [i \in {j \in DOMAIN rows : Parses(rows[j])} |->
            [underlying |-> Underlying, expiry |-> e, side |-> rows[i].side,
             oi |-> rows[i].oi, vol |-> rows[i].vol]]

\* Of a parsed row, int() must take open interest and volume, and float() a
\* price that is an integer.
Unparsable(e) ==
    \E i \in DOMAIN chains[e].rows :
        LET row == chains[e].rows[i]
        IN  Parses(row) /\ (row.oi = Text \/ row.vol = Text \/ row.ltp = Number("huge"))

SumOf(e, field, side) ==
    LET quotes == Quotes(e)
    IN  SumFunction([i \in {j \in DOMAIN quotes : quotes[j].side = side} |-> quotes[i][field]])

AnyOk == \E e \in Expiries : chains[e].kind = "ok"

\* Mutant: the divisor is guarded against negative totals only.
DivisibleLoose(ce) == ce >= 0

\* There is a ratio of puts to calls, but None without calls.
Divisible(ce) == ce > 0

Totals(e) ==
    [field \in Fields |->
        LET ce == SumOf(e, field, "CE")
            pe == SumOf(e, field, "PE")
        IN  [ce |-> ce, pe |-> pe, ratio |-> IF Divisible(ce) THEN <<pe, ce>> ELSE NoRatio]]

\* The division of two integers raises on 0, and when the quotient is too large.
RatioRaises(total) ==
    total.ratio # NoRatio /\ (total.ce = 0 \/ Abs(total.pe) >= TooLarge * total.ce)

TotalsRaise(e) == \E field \in Fields : RatioRaises(Totals(e)[field])

\* _parse_quotes for every chain, then _build_derived if one succeeded.
Assemble ==
    /\ pc = "parse"
    /\ IF (\E e \in Expiries : Unparsable(e)) \/ (AnyOk /\ \E e \in Expiries : TotalsRaise(e))
         THEN Raise /\ UNCHANGED derived
         ELSE /\ derived' = IF AnyOk THEN [given |-> TRUE, of |-> [e \in Expiries |-> Totals(e)]]
                            ELSE NoDerived
              /\ pc' = "validate"
    /\ UNCHANGED <<mode, wiring, continuity, spot, vix, meta, chains, findings, raising, archived, quality>>

-----------------------------------------------------------------------------
(***************************************************************************)
(* The six rules, on the snapshot as assembled.                            *)
(***************************************************************************)
Identity ==
    IF \A e \in Expiries : \A i \in DOMAIN Quotes(e) :
          Quotes(e)[i].expiry = e /\ Quotes(e)[i].underlying = Underlying
      THEN "PASS" ELSE "FAIL"

\* Mutant: only the upper bound is looked at.
PlausibleUpper(result, lo, hi) ==
    IF ~result.success \/ InBand(result.ltp, result.ltp.value, hi) THEN "PASS" ELSE "FAIL"

Plausible(result, lo, hi) ==
    IF ~result.success \/ InBand(result.ltp, lo, hi) THEN "PASS" ELSE "FAIL"

\* Within one step, or within five.
Coherence ==
    LET gap == Abs(meta.atm - meta.anchor)
    IN  CASE gap <= Step -> "PASS"
          [] Step < gap /\ gap <= 5 * Step -> "WARN"
          [] 5 * Step < gap -> "FAIL"

Completeness ==
    LET missing == {e \in Expiries : chains[e].kind # "ok"}
    IN  CASE ~spot.success \/ missing = {} -> "PASS"
          [] spot.success /\ missing = Expiries -> "FAIL"
          [] OTHER -> "WARN"

\* With its own copy of the band.
SelfConsistency ==
    IF continuity.status = "FIRST" THEN "PASS"
    ELSE IF (continuity.status = "CONTIGUOUS")
               <=> (Interval <= 2 * continuity.actual /\ 2 * continuity.actual <= 3 * Interval)
           THEN "PASS" ELSE "WARN"

Rule(id) ==
    CASE id = "identity_consistency"        -> Identity
      [] id = "vix_plausibility"            -> Plausible(vix, VixMin, VixMax)
      [] id = "spot_plausibility"           -> Plausible(spot, SpotMin, SpotMax)
      [] id = "atm_resolution_coherence"    -> Coherence
      [] id = "chain_completeness"          -> Completeness
      [] id = "continuity_self_consistency" -> SelfConsistency

\* Mutant: a rule that raises leaves no finding.
EvaluateSkipping(raised) ==
    LET ran == SelectSeq(RuleIds, LAMBDA id : id \notin raised)
    IN  [i \in DOMAIN ran |-> [rule |-> ran[i], level |-> Rule(ran[i])]]

\* evaluate(): one finding a rule, in order; a rule that raises fails.
Evaluate(raised) ==
    [i \in DOMAIN RuleIds |->
        [rule |-> RuleIds[i],
         level |-> IF RuleIds[i] \in raised THEN "FAIL" ELSE Rule(RuleIds[i])]]

\* _evaluate_validation: no validator, or one that raises as a whole, no verdict.
Validate ==
    /\ pc = "validate" /\ pc' = "archive"
    /\ \/ wiring # "none" /\ raising' \in RaisingRules /\ findings' = Evaluate(raising')
       \/ UNCHANGED <<findings, raising>>
    /\ UNCHANGED <<mode, wiring, fetched, archived, quality>>

\* Mutant: the archiver's exception is logged, as that of the quality stream is.
ArchiveSwallowing ==
    /\ pc = "archive" /\ pc' = IF findings # <<>> THEN "quality" ELSE "done"
    /\ archived' \in BOOLEAN
    /\ UNCHANGED <<mode, wiring, fetched, findings, raising, quality>>

\* archiver.write(), whatever the verdict; its failure, an ArchiverError or an
\* OSError of a rotation, ends the run.
Archive ==
    /\ pc = "archive"
    /\ \/ archived' = TRUE /\ pc' = IF findings # <<>> THEN "quality" ELSE "done"
       \/ pc' = "aborted" /\ UNCHANGED archived
    /\ UNCHANGED <<mode, wiring, fetched, findings, raising, quality>>

(***************************************************************************)
(* _persist_quality: an ArchiverError is logged; an OSError of a rotation  *)
(* of the stream (archiver.py:202 and 207) is none, and leaves the tick.   *)
(***************************************************************************)
PersistQuality ==
    /\ pc = "quality"
    /\ \/ wiring = "quality" /\ quality' = findings /\ pc' = "done"
       \/ UNCHANGED quality /\ pc' = "done"
       \/ wiring = "quality" /\ Raise /\ UNCHANGED quality
    /\ UNCHANGED <<mode, wiring, fetched, findings, raising, archived>>

Next ==
    \/ \E answer \in Answers : FetchSpot(answer) \/ FetchVix(answer)
    \/ Anchor
    \/ \E outcome \in [Expiries -> Outcomes] : FetchChains(outcome)
    \/ Assemble \/ Validate \/ Archive \/ PersistQuality

Spec == Init /\ [][Next]_vars

-----------------------------------------------------------------------------
TypeOK ==
    /\ pc \in {"spot", "vix", "anchor", "chains", "parse", "validate", "archive",
               "quality", "done", "raised", "aborted"}
    /\ continuity \in [status : Statuses, actual : Int]
    /\ {spot, vix} \subseteq [success : BOOLEAN, ltp : Levels, raw : Levels]
    /\ meta \in [anchor : Int, atm : Int]
    /\ chains \in [Expiries -> Outcomes \union {NotFetched}]
    /\ derived.given \in BOOLEAN /\ DOMAIN derived.of = Expiries
    /\ {findings, quality} \subseteq Seq([rule : Range(RuleIds), level : {"PASS", "WARN", "FAIL"}])
    /\ raising \subseteq Range(RuleIds)
    /\ archived \in BOOLEAN

\* The snapshot is complete: _poll_once has returned it.
Returned == pc \in {"validate", "archive", "quality", "done", "aborted"} \/ archived

(***************************************************************************)
(* A snapshot is lost to a failing archive write, or to an answer          *)
(* _poll_once cannot compute with: an index level that is no finite float, *)
(* a chain fetch that raises, a parsed row whose open interest or volume   *)
(* is no number or whose price is an integer too large, totals with a      *)
(* ratio too large.  Every other failure, of VIX, of spot, of any chain,   *)
(* of a rule and of the validator, costs none, and a chain without calls   *)
(* has no ratio rather than a division by zero ("all component errors are  *)
(* captured in their result objects", controller.py:399).  The quality     *)
(* stream can end the run, not cost the snapshot (controller.py:769).      *)
(***************************************************************************)
RawTotal(e, field, side) ==
    LET rows == chains[e].rows
    IN  SumFunction([i \in {j \in DOMAIN rows : rows[j].side = side} |-> rows[i][field]])

RatioTooLarge(e, field) ==
    /\ RawTotal(e, field, "CE") > 0
    /\ Abs(RawTotal(e, field, "PE")) >= TooLarge * RawTotal(e, field, "CE")

Incomputable ==
    \/ spot.raw.sort \in {"nan", "inf", "huge"}
    \/ \E e \in Expiries : chains[e].kind = "raises" \/ Unparsable(e)
    \/ AnyOk /\ \E e \in Expiries, field \in Fields : RatioTooLarge(e, field)

OnlyFatalStops ==
    /\ pc = "raised" /\ ~archived => Incomputable
    /\ pc = "raised" /\ archived => wiring = "quality"
    /\ Returned => ~Incomputable
    /\ pc = "done" => archived

(***************************************************************************)
(* The engine agrees with the code it re-checks: on a snapshot of the      *)
(* controller, identity, VIX, ATM and continuity always pass, whatever was *)
(* answered, and completeness fails for exactly the snapshots whose        *)
(* derived values are omitted although spot was there (validation.py       *)
(* against vix.py:225, controller.py:446, 471, 517 and 595).               *)
(***************************************************************************)
EngineAgrees ==
    Returned =>
        /\ \A id \in {"identity_consistency", "vix_plausibility",
                      "atm_resolution_coherence", "continuity_self_consistency"} :
              Rule(id) = "PASS"
        /\ (Completeness = "FAIL") <=> (spot.success /\ ~derived.given)

(***************************************************************************)
(* A verdict without a FAIL vouches for the snapshot: its index level, if  *)
(* it has one, is in the plausible band, and some chain came with it; its  *)
(* VIX value is in its band.  The spot fetcher itself lets a negative      *)
(* level through (spot.py:246), so the engine is the only guard.           *)
(***************************************************************************)
CleanVerdictVouches ==
    (findings # <<>> /\ \A i \in DOMAIN findings : findings[i].level # "FAIL")
        => /\ spot.success => /\ SpotMin <= meta.anchor /\ meta.anchor <= SpotMax
                              /\ derived.given
           /\ vix.success => InBand(vix.ltp, VixMin, VixMax)

(***************************************************************************)
(* A rule that raises fails and changes no other finding: a verdict has    *)
(* the six rules in their order, and what the quality stream holds is the  *)
(* verdict of an archived snapshot ("exactly one ValidationFinding per     *)
(* registered rule, in registration order", validation.py:366).            *)
(***************************************************************************)
VerdictPerRule ==
    /\ findings # <<>> =>
          /\ [i \in DOMAIN findings |-> findings[i].rule] = RuleIds
          /\ \A i \in DOMAIN findings :
                findings[i].level = IF RuleIds[i] \in raising THEN "FAIL" ELSE Rule(RuleIds[i])
    /\ quality # <<>> => quality = findings /\ archived
=============================================================================
