------------------------- MODULE ObservationProofs -------------------------
(***************************************************************************)
(* Proofs about one tick, for any expiries, levels, rows, bands and poll   *)
(* interval.                                                               *)
(***************************************************************************)
EXTENDS Observation, SequenceTheorems, TLAPS

-----------------------------------------------------------------------------
(***************************************************************************)
(* The inductive invariant: what each step of the tick leaves behind, and  *)
(* the steps that come after it find.                                      *)
(***************************************************************************)
Answered ==
    pc \in {"chains", "parse", "validate", "archive", "quality", "done", "aborted"} \/ archived
Judged == pc \in {"archive", "quality", "done", "aborted"} \/ archived

Overflowing == AnyOk /\ \E e \in Expiries, field \in Fields : RatioTooLarge(e, field)

SpotKnown ==
    /\ spot.success => spot.ltp = spot.raw /\ spot.raw # None
    /\ pc = "spot" => ~spot.success /\ spot.raw = None
    /\ pc = "vix" => /\ spot.raw.sort # "huge"
                     /\ spot.raw.sort \in {"nan", "inf"} => spot.success
    /\ pc = "anchor" => spot.success /\ spot.raw.sort # "huge"
    /\ pc \in {"chains", "parse"} => spot.success
    /\ Answered => spot.raw.sort \notin {"nan", "inf", "huge"}

VixKnown == vix.success => InBand(vix.ltp, VixMin, VixMax)

ContinuityKnown ==
    continuity.status = "FIRST" \/ continuity.status = Classify(Interval, FALSE, continuity.actual)

MetaKnown ==
    /\ pc \in {"spot", "vix", "anchor"} => meta.anchor = 0 /\ meta.atm = 0
    /\ \/ meta.anchor = 0 /\ meta.atm = 0 /\ (Answered => ~spot.success)
       \/ meta.atm = AtmCandidate(meta.anchor) /\ meta.anchor = spot.ltp.value

ChainsKnown ==
    /\ pc \in {"spot", "vix", "anchor", "chains"} => chains = [e \in Expiries |-> NotFetched]
    /\ pc = "parse" => \A e \in Expiries : chains[e].kind # "raises"
    /\ Returned => /\ \A e \in Expiries : chains[e].kind # "raises" /\ ~Unparsable(e)
                   /\ ~Overflowing

DerivedKnown == Returned /\ spot.success => (derived.given <=> AnyOk)

VerdictKnown ==
    /\ ~Judged => findings = <<>>
    /\ findings # <<>> => findings = Evaluate(raising)
    /\ archived => pc \in {"quality", "done", "raised"}
    /\ pc \in {"quality", "done"} => archived
    /\ quality # <<>> => pc = "done" /\ quality = findings

RaisedKnown == pc = "raised" => IF archived THEN wiring = "quality" ELSE Incomputable

IInv == /\ TypeOK /\ SpotKnown /\ VixKnown /\ ContinuityKnown /\ MetaKnown
        /\ ChainsKnown /\ DerivedKnown /\ VerdictKnown /\ RaisedKnown

LEMMA Division ==
    ASSUME NEW n \in Int
    PROVE  /\ n \div Step \in Int /\ n % Step \in 0..(Step - 1)
           /\ n = (n \div Step) * Step + (n % Step)
  BY LadderAssumption, SMT

\* The arithmetic ATM is within half a step of the level, whichever way it is rounded.
LEMMA AtmRounds ==
    ASSUME NEW n \in Int
    PROVE  AtmCandidate(n) \in Int /\ 2 * Abs(AtmCandidate(n) - n) <= Step
<1> DEFINE q == n \div Step
           r == n % Step
<1>1. /\ q \in Int /\ r \in 0..(Step - 1) /\ n = q * Step + r
  BY Division
<1>2. \/ RoundDiv(n) = q /\ 2 * r <= Step
      \/ RoundDiv(n) = q + 1 /\ Step <= 2 * r
  <2>1. 2 * r < Step \/ 2 * r = Step \/ Step < 2 * r
    BY <1>1, LadderAssumption, SMT
  <2>2. 2 * r < Step => 2 * r <= Step
    BY <1>1, LadderAssumption, SMT
  <2>3. 2 * r = Step => 2 * r <= Step /\ Step <= 2 * r
    BY <1>1, LadderAssumption, SMT
  <2>4. Step < 2 * r => Step <= 2 * r /\ ~(2 * r < Step) /\ 2 * r # Step
    BY <1>1, LadderAssumption, SMT
  <2> QED
    BY <2>1, <2>2, <2>3, <2>4 DEF RoundDiv
<1>3. (q + 1) * Step = q * Step + Step /\ q * Step \in Int
  BY <1>1, LadderAssumption, SMT
<1> HIDE DEF q, r
<1>4. \/ AtmCandidate(n) = q * Step /\ 2 * r <= Step
      \/ AtmCandidate(n) = q * Step + Step /\ Step <= 2 * r
  BY <1>2, <1>3 DEF AtmCandidate
<1> QED
  BY <1>1, <1>3, <1>4, LadderAssumption, SMT DEF Abs

LEMMA AtmNear ==
    ASSUME NEW n \in Int
    PROVE  AtmCandidate(n) \in Int /\ Abs(AtmCandidate(n) - n) <= Step
<1>1. AtmCandidate(n) \in Int /\ 2 * Abs(AtmCandidate(n) - n) <= Step
  BY AtmRounds
<1>2. Abs(AtmCandidate(n) - n) \in Nat
  BY <1>1, SMT DEF Abs
<1> QED
  BY <1>1, <1>2, LadderAssumption, SMT

LEMMA UnusableTyped ==
    /\ Unusable(None) \in [success : BOOLEAN, ltp : Levels, raw : Levels]
    /\ ~Unusable(None).success /\ Unusable(None).raw = None /\ None.sort = "none"
  BY LevelsAssumption DEF Unusable, None, Number

LEMMA NothingUnparsable ==
    ASSUME chains = [e \in Expiries |-> NotFetched], NEW e \in Expiries
    PROVE  ~Unparsable(e) /\ chains[e].kind = "none" /\ ~Overflowing
  BY DEF Unparsable, NotFetched, Overflowing, AnyOk

LEMMA InitIInv == Init => IInv
<1> SUFFICES ASSUME Init PROVE IInv
  OBVIOUS
<1>1. continuity \in [status : Statuses, actual : Int] /\ ContinuityKnown
  BY ObservationAssumption DEF Init, ContinuityKnown, Classify, Statuses
<1>2. TypeOK
  <2>1. findings \in Seq([rule : Range(RuleIds), level : {"PASS", "WARN", "FAIL"}])
    BY DEF Init
  <2>2. quality \in Seq([rule : Range(RuleIds), level : {"PASS", "WARN", "FAIL"}])
    BY DEF Init
  <2>3. meta \in [anchor : Int, atm : Int]
    BY DEF Init
  <2> QED
    BY <1>1, <2>1, <2>2, <2>3, UnusableTyped DEF Init, TypeOK, NoDerived
<1>3. SpotKnown /\ VixKnown
  BY UnusableTyped DEF Init, SpotKnown, VixKnown, Answered
<1>4. MetaKnown /\ ChainsKnown /\ DerivedKnown /\ VerdictKnown
  BY DEF Init, MetaKnown, ChainsKnown, DerivedKnown, VerdictKnown, Answered, Judged, Returned
<1>5. RaisedKnown
  BY DEF Init, RaisedKnown
<1> QED
  BY <1>1, <1>2, <1>3, <1>4, <1>5 DEF IInv

-----------------------------------------------------------------------------
\* What a snapshot is worth does not change with the steps that file it.
LEMMA ChainsStay ==
    ASSUME UNCHANGED chains
    PROVE  /\ \A e \in Expiries : Unparsable(e)' = Unparsable(e) /\ Quotes(e)' = Quotes(e)
           /\ AnyOk' = AnyOk /\ Overflowing' = Overflowing
<1>1. \A e \in Expiries, field \in Fields : RatioTooLarge(e, field)' = RatioTooLarge(e, field)
  BY DEF RatioTooLarge, RawTotal
<1> QED
  BY <1>1 DEF Unparsable, AnyOk, Quotes, Overflowing

(***************************************************************************)
(* The totals are the sums over the raw rows of each side, so the division *)
(* raises for the rows whose ratio is too large, and never by zero.        *)
(***************************************************************************)
LEMMA TotalsAreRaw ==
    ASSUME NEW e \in Expiries, NEW field \in Fields, NEW side \in {"CE", "PE"}
    PROVE  SumOf(e, field, side) = RawTotal(e, field, side)
<1> DEFINE rows == chains[e].rows
           quoted == [i \in {j \in DOMAIN Quotes(e) : Quotes(e)[j].side = side} |->
                         Quotes(e)[i][field]]
           raw == [i \in {j \in DOMAIN rows : rows[j].side = side} |-> rows[i][field]]
<1>1. /\ DOMAIN Quotes(e) = {j \in DOMAIN rows : rows[j].side \in {"CE", "PE"}}
      /\ \A j \in DOMAIN Quotes(e) : /\ Quotes(e)[j].side = rows[j].side
                                     /\ Quotes(e)[j].oi = rows[j].oi
                                     /\ Quotes(e)[j].vol = rows[j].vol
  BY DEF Quotes, Parses
<1>2. {j \in DOMAIN Quotes(e) : Quotes(e)[j].side = side} = {j \in DOMAIN rows : rows[j].side = side}
  BY <1>1
<1>3. CASE field = "oi"
  <2>1. quoted = raw
    BY <1>1, <1>2, <1>3
  <2> QED
    BY <2>1 DEF SumOf, RawTotal
<1>4. CASE field = "vol"
  <2>1. quoted = raw
    BY <1>1, <1>2, <1>4
  <2> QED
    BY <2>1 DEF SumOf, RawTotal
<1> QED
  BY <1>3, <1>4 DEF Fields

LEMMA RaisesIfTooLarge ==
    ASSUME NEW e \in Expiries
    PROVE  TotalsRaise(e) <=> \E field \in Fields : RatioTooLarge(e, field)
<1> SUFFICES ASSUME NEW field \in Fields
             PROVE  RatioRaises(Totals(e)[field]) <=> RatioTooLarge(e, field)
  BY DEF TotalsRaise
<1> DEFINE ce == RawTotal(e, field, "CE")
           pe == RawTotal(e, field, "PE")
<1>1. Totals(e)[field] = [ce |-> ce, pe |-> pe, ratio |-> IF ce > 0 THEN <<pe, ce>> ELSE NoRatio]
  BY TotalsAreRaw DEF Totals, Divisible
<1>2. <<pe, ce>> # NoRatio
  BY DEF NoRatio
<1>3. RatioTooLarge(e, field) <=> ce > 0 /\ Abs(pe) >= TooLarge * ce
  BY DEF RatioTooLarge
<1>4. ~(ce > 0 /\ ce = 0)
  BY SMT
<1> HIDE DEF ce, pe
<1> QED
  BY <1>1, <1>2, <1>3, <1>4 DEF RatioRaises

LEMMA RulesStay ==
    ASSUME UNCHANGED fetched, NEW id
    PROVE  Rule(id)' = Rule(id)
<1>1. UNCHANGED <<continuity, spot, vix, meta, chains, derived>>
  BY DEF fetched
<1>2. Identity' = Identity
  BY <1>1, ChainsStay DEF Identity
<1>3. /\ Plausible(vix, VixMin, VixMax)' = Plausible(vix, VixMin, VixMax)
      /\ Plausible(spot, SpotMin, SpotMax)' = Plausible(spot, SpotMin, SpotMax)
  BY <1>1 DEF Plausible
<1>4. Coherence' = Coherence
  BY <1>1 DEF Coherence
<1>5. Completeness' = Completeness
  BY <1>1 DEF Completeness
<1>6. SelfConsistency' = SelfConsistency
  BY <1>1 DEF SelfConsistency
<1> QED
  BY <1>2, <1>3, <1>4, <1>5, <1>6 DEF Rule

LEMMA VerdictStays ==
    ASSUME UNCHANGED <<fetched, raising>>
    PROVE  Evaluate(raising)' = Evaluate(raising)
  BY RulesStay DEF Evaluate

LEMMA RuleIdsKnown ==
    /\ DOMAIN RuleIds = 1..6 /\ RuleIds \in Seq(Range(RuleIds))
    /\ RuleIds[1] = "identity_consistency" /\ RuleIds[2] = "vix_plausibility"
    /\ RuleIds[3] = "spot_plausibility" /\ RuleIds[4] = "atm_resolution_coherence"
    /\ RuleIds[5] = "chain_completeness" /\ RuleIds[6] = "continuity_self_consistency"
<1>1. DOMAIN RuleIds = 1..6
  BY DEF RuleIds
<1>2. \A i \in DOMAIN RuleIds : RuleIds[i] \in Range(RuleIds)
  BY DEF Range
<1>3. RuleIds \in [1..6 -> Range(RuleIds)]
  BY <1>1, <1>2 DEF RuleIds
<1>4. RuleIds \in Seq(Range(RuleIds))
  BY <1>3 DEF RuleIds
<1> QED
  BY <1>1, <1>4 DEF RuleIds

LEMMA RuleTyped ==
    ASSUME TypeOK, NEW i \in DOMAIN RuleIds
    PROVE  Rule(RuleIds[i]) \in {"PASS", "WARN", "FAIL"}
<1>1. Coherence \in {"PASS", "WARN", "FAIL"}
  <2>1. Abs(meta.atm - meta.anchor) \in Int
    BY SMT DEF TypeOK, Abs
  <2>2. Step \in Int
    BY LadderAssumption
  <2> DEFINE gap == Abs(meta.atm - meta.anchor)
  <2>3. gap <= Step \/ (Step < gap /\ gap <= 5 * Step) \/ 5 * Step < gap
    BY <2>1, <2>2, SMT
  <2> QED
    BY <2>3 DEF Coherence
<1>2. Completeness \in {"PASS", "WARN", "FAIL"}
  BY DEF Completeness
<1>3. /\ Identity \in {"PASS", "WARN", "FAIL"} /\ SelfConsistency \in {"PASS", "WARN", "FAIL"}
      /\ Plausible(vix, VixMin, VixMax) \in {"PASS", "WARN", "FAIL"}
      /\ Plausible(spot, SpotMin, SpotMax) \in {"PASS", "WARN", "FAIL"}
  BY DEF Identity, SelfConsistency, Plausible
<1>4. i \in 1..6
  BY RuleIdsKnown
<1>5. \/ RuleIds[i] \in {"identity_consistency", "vix_plausibility", "spot_plausibility"}
      \/ RuleIds[i] \in {"atm_resolution_coherence", "chain_completeness",
                         "continuity_self_consistency"}
  BY <1>4, RuleIdsKnown, SMT
<1> QED
  BY <1>1, <1>2, <1>3, <1>5 DEF Rule

LEMMA VerdictTyped ==
    ASSUME TypeOK, NEW raised
    PROVE  /\ Evaluate(raised) \in Seq([rule : Range(RuleIds), level : {"PASS", "WARN", "FAIL"}])
           /\ DOMAIN Evaluate(raised) = DOMAIN RuleIds
           /\ \A i \in DOMAIN RuleIds :
                 /\ Evaluate(raised)[i].rule = RuleIds[i]
                 /\ Evaluate(raised)[i].level =
                      IF RuleIds[i] \in raised THEN "FAIL" ELSE Rule(RuleIds[i])
           /\ Evaluate(raised) # <<>>
<1> DEFINE F == [rule : Range(RuleIds), level : {"PASS", "WARN", "FAIL"}]
<1>1. \A i \in DOMAIN RuleIds : Evaluate(raised)[i] \in F
  <2> SUFFICES ASSUME NEW i \in DOMAIN RuleIds PROVE Evaluate(raised)[i] \in F
    OBVIOUS
  <2>1. Rule(RuleIds[i]) \in {"PASS", "WARN", "FAIL"}
    BY RuleTyped
  <2>2. RuleIds[i] \in Range(RuleIds)
    BY DEF Range
  <2> QED
    BY <2>1, <2>2 DEF Evaluate
<1>2. DOMAIN Evaluate(raised) = 1..6
  BY RuleIdsKnown DEF Evaluate
<1>3. Evaluate(raised) \in [1..6 -> F]
  <2> HIDE DEF F
  <2> QED
    BY <1>1, <1>2, RuleIdsKnown DEF Evaluate
<1>4. Evaluate(raised) \in Seq(F)
  <2> HIDE DEF F
  <2> QED
    BY <1>3, SeqDef
<1>5. Evaluate(raised) # <<>>
  BY <1>2, SMT
<1> QED
  BY <1>4, <1>5 DEF Evaluate

-----------------------------------------------------------------------------
LEMMA SpotKeeps ==
    ASSUME IInv, NEW answer \in Answers, FetchSpot(answer)
    PROVE  IInv'
<1>1. /\ pc = "spot" /\ UNCHANGED <<mode, wiring, continuity, vix, meta, chains, derived, findings, raising, archived, quality>>
      /\ answer.ltp \in Levels /\ answer.ltp \in Numbers
  BY LevelsAssumption DEF FetchSpot, Answers, Failures
<1>2. \/ spot' = spot /\ pc' = "vix"
      \/ /\ answer.ltp = Number("huge") /\ pc' = "raised" /\ spot' = Unusable(answer.ltp)
      \/ /\ answer.ltp \in {None, Finite(0)} /\ pc' = "vix" /\ spot' = Unusable(answer.ltp)
      \/ /\ answer.ltp \notin {None, Finite(0), Number("huge")} /\ pc' = "vix"
         /\ spot' = Usable(answer.ltp)
  BY DEF FetchSpot, Raise, Number, None, Finite
<1>0. ~archived /\ archived' = archived
  BY <1>1 DEF IInv, VerdictKnown
<1>3. spot' \in [success : BOOLEAN, ltp : Levels, raw : Levels]
  <2>1. spot \in [success : BOOLEAN, ltp : Levels, raw : Levels]
    BY DEF IInv, TypeOK
  <2>2. Unusable(answer.ltp) \in [success : BOOLEAN, ltp : Levels, raw : Levels]
    BY <1>1, LevelsAssumption DEF Unusable
  <2>3. Usable(answer.ltp) \in [success : BOOLEAN, ltp : Levels, raw : Levels]
    BY <1>1 DEF Usable
  <2> QED
    BY <1>2, <2>1, <2>2, <2>3
<1>4. TypeOK'
  BY <1>1, <1>2, <1>3 DEF IInv, TypeOK
<1>5. SpotKnown' /\ (pc' = "raised" => spot'.raw.sort = "huge")
  <2>1. CASE spot' = spot /\ pc' = "vix"
    BY <1>0, <1>1, <2>1 DEF IInv, SpotKnown, Answered, None, Number
  <2>2. CASE answer.ltp = Number("huge") /\ pc' = "raised" /\ spot' = Unusable(answer.ltp)
    BY <1>0, <2>2 DEF SpotKnown, Answered, Unusable, Number
  <2>3. CASE answer.ltp \in {None, Finite(0)} /\ pc' = "vix" /\ spot' = Unusable(answer.ltp)
    BY <1>0, <2>3 DEF SpotKnown, Answered, Unusable, Number, None, Finite
  <2>4. CASE /\ answer.ltp \notin {None, Finite(0), Number("huge")} /\ pc' = "vix"
             /\ spot' = Usable(answer.ltp)
    <3>1. answer.ltp.sort # "huge"
      BY <1>1, <2>4 DEF Numbers, Number
    <3> QED
      BY <1>0, <2>4, <3>1 DEF SpotKnown, Answered, Usable
  <2> QED
    BY <1>2, <2>1, <2>2, <2>3, <2>4
<1>6. VixKnown' /\ ContinuityKnown' /\ DerivedKnown' /\ VerdictKnown' /\ ChainsKnown'
  BY <1>1, <1>2 DEF IInv, VixKnown, ContinuityKnown, DerivedKnown, VerdictKnown, ChainsKnown,
                    Judged, Returned
<1>7. MetaKnown'
  BY <1>0, <1>1, <1>2 DEF IInv, MetaKnown, Answered
<1>8. RaisedKnown'
  <2>1. ~archived'
    BY <1>1 DEF IInv, VerdictKnown
  <2> QED
    BY <1>5, <2>1 DEF RaisedKnown, Incomputable
<1> QED
  BY <1>4, <1>5, <1>6, <1>7, <1>8 DEF IInv

LEMMA VixKeeps ==
    ASSUME IInv, NEW answer \in Answers, FetchVix(answer)
    PROVE  IInv'
<1>1. /\ pc = "vix" /\ pc' = IF spot.success THEN "anchor" ELSE "validate"
      /\ UNCHANGED <<mode, wiring, continuity, spot, meta, chains, derived, findings, raising, archived, quality>>
      /\ answer.ltp \in Levels
  BY LevelsAssumption DEF FetchVix, Answers, Failures
<1>2. /\ vix' \in [success : BOOLEAN, ltp : Levels, raw : Levels]
      /\ vix'.success => InBand(vix'.ltp, VixMin, VixMax)
  BY <1>1, LevelsAssumption DEF FetchVix, Unusable, Usable
<1>3. TypeOK'
  BY <1>1, <1>2 DEF IInv, TypeOK
<1>4. VixKnown'
  BY <1>2 DEF VixKnown
<1>5. SpotKnown'
  BY <1>1 DEF IInv, SpotKnown, Answered
<1>6. ContinuityKnown' /\ VerdictKnown' /\ MetaKnown' /\ DerivedKnown'
  BY <1>1 DEF IInv, ContinuityKnown, VerdictKnown, MetaKnown, DerivedKnown, Judged, Answered, Returned
<1>7. ChainsKnown'
  <2>1. chains = [e \in Expiries |-> NotFetched]
    BY <1>1 DEF IInv, ChainsKnown
  <2>2. \A e \in Expiries : ~Unparsable(e) /\ chains[e].kind # "raises"
    BY <2>1, NothingUnparsable
  <2>3. ~Overflowing
    BY <2>1, ObservationAssumption, NothingUnparsable
  <2> QED
    BY <1>1, <2>1, <2>2, <2>3, ChainsStay DEF ChainsKnown, Returned
<1>8. RaisedKnown'
  BY <1>1 DEF RaisedKnown
<1> QED
  BY <1>3, <1>4, <1>5, <1>6, <1>7, <1>8 DEF IInv

LEMMA AnchorKeeps ==
    ASSUME IInv, Anchor
    PROVE  IInv'
<1>1. /\ pc = "anchor" /\ spot.success /\ spot.ltp = spot.raw
      /\ UNCHANGED <<mode, wiring, continuity, spot, vix, chains, derived, findings, raising, archived, quality>>
      /\ spot.ltp \in Numbers /\ spot.raw # None /\ spot.raw.sort # "huge"
  BY LevelsAssumption DEF Anchor, IInv, SpotKnown, TypeOK
<1>2. spot.ltp.value \in Int /\ spot.raw.sort \in {"finite", "nan", "inf"}
  BY <1>1 DEF Numbers, None, Number
<1>3. \/ /\ spot.ltp.sort = "finite" /\ pc' = "chains"
         /\ meta' = [anchor |-> spot.ltp.value, atm |-> AtmCandidate(spot.ltp.value)]
      \/ spot.ltp.sort # "finite" /\ pc' = "raised" /\ meta' = meta
  BY DEF Anchor, Raise
<1>0. ~archived /\ archived' = archived
  BY <1>1 DEF IInv, VerdictKnown
<1>4. meta' \in [anchor : Int, atm : Int]
  <2>1. AtmCandidate(spot.ltp.value) \in Int
    BY <1>2, AtmNear
  <2> QED
    BY <1>2, <1>3, <2>1 DEF IInv, TypeOK
<1>5. TypeOK'
  BY <1>1, <1>3, <1>4 DEF IInv, TypeOK
<1>6. SpotKnown'
  BY <1>0, <1>1, <1>2, <1>3 DEF SpotKnown, Answered
<1>7. MetaKnown'
  BY <1>1, <1>3 DEF IInv, MetaKnown, Answered
<1>8. VixKnown' /\ ContinuityKnown' /\ VerdictKnown' /\ DerivedKnown' /\ ChainsKnown'
  BY <1>1, <1>3 DEF IInv, VixKnown, ContinuityKnown, VerdictKnown, DerivedKnown, ChainsKnown,
                    Judged, Returned
<1>9. RaisedKnown'
  <2>1. ~archived'
    BY <1>1 DEF IInv, VerdictKnown
  <2> QED
    BY <1>1, <1>2, <1>3, <2>1 DEF RaisedKnown, Incomputable
<1> QED
  BY <1>5, <1>6, <1>7, <1>8, <1>9 DEF IInv

LEMMA ChainsKeep ==
    ASSUME IInv, NEW outcome \in [Expiries -> Outcomes], FetchChains(outcome)
    PROVE  IInv'
<1>1. /\ pc = "chains" /\ chains' = outcome
      /\ UNCHANGED <<mode, wiring, continuity, spot, vix, meta, derived, findings, raising, archived, quality>>
      /\ \/ pc' = "raised" /\ \E e \in Expiries : outcome[e].kind = "raises"
         \/ pc' = "parse" /\ \A e \in Expiries : outcome[e].kind # "raises"
  BY DEF FetchChains, Raise
<1>2. chains' \in [Expiries -> Outcomes \union {NotFetched}]
  BY <1>1
<1>3. TypeOK'
  BY <1>1, <1>2 DEF IInv, TypeOK
<1>4. SpotKnown' /\ VixKnown' /\ ContinuityKnown' /\ MetaKnown' /\ VerdictKnown'
  BY <1>1 DEF IInv, SpotKnown, VixKnown, ContinuityKnown, MetaKnown, VerdictKnown, Answered, Judged
<1>5. ChainsKnown' /\ DerivedKnown'
  BY <1>1 DEF IInv, VerdictKnown, ChainsKnown, DerivedKnown, Returned
<1>6. RaisedKnown'
  <2>1. ~archived'
    BY <1>1 DEF IInv, VerdictKnown
  <2> QED
    BY <1>1, <2>1 DEF RaisedKnown, Incomputable
<1> QED
  BY <1>3, <1>4, <1>5, <1>6 DEF IInv

LEMMA AssembleKeeps ==
    ASSUME IInv, Assemble
    PROVE  IInv'
<1>1. /\ pc = "parse"
      /\ UNCHANGED <<mode, wiring, continuity, spot, vix, meta, chains, findings, raising, archived, quality>>
      /\ \/ /\ pc' = "raised" /\ derived' = derived
            /\ (\E e \in Expiries : Unparsable(e)) \/ Overflowing
         \/ /\ pc' = "validate" /\ \A e \in Expiries : ~Unparsable(e)
            /\ ~Overflowing
            /\ derived' = IF AnyOk THEN [given |-> TRUE, of |-> [e \in Expiries |-> Totals(e)]]
                          ELSE NoDerived
  BY RaisesIfTooLarge DEF Assemble, Raise, Overflowing
<1>2. /\ derived'.given \in BOOLEAN /\ DOMAIN derived'.of = Expiries
      /\ pc' = "validate" => (derived'.given <=> AnyOk)
  <2>1. CASE pc' = "raised" /\ derived' = derived
    BY <2>1 DEF IInv, TypeOK
  <2>2. CASE pc' = "validate" /\ AnyOk
           /\ derived' = [given |-> TRUE, of |-> [e \in Expiries |-> Totals(e)]]
    BY <2>2
  <2>3. CASE pc' = "validate" /\ ~AnyOk /\ derived' = NoDerived
    BY <2>3 DEF NoDerived
  <2> QED
    BY <1>1, <2>1, <2>2, <2>3
<1>3. TypeOK'
  BY <1>1, <1>2 DEF IInv, TypeOK
<1>4. SpotKnown' /\ VixKnown' /\ ContinuityKnown' /\ MetaKnown' /\ VerdictKnown'
  BY <1>1 DEF IInv, SpotKnown, VixKnown, ContinuityKnown, MetaKnown, VerdictKnown, Answered, Judged
<1>5. ~archived'
  BY <1>1 DEF IInv, VerdictKnown
<1>6. ChainsKnown'
  BY <1>1, <1>5, ChainsStay DEF IInv, ChainsKnown, Returned
<1>7. DerivedKnown'
  BY <1>1, <1>2, <1>5, ChainsStay DEF DerivedKnown, Returned
<1>8. RaisedKnown'
  BY <1>1, <1>5, ChainsStay DEF RaisedKnown, Incomputable, Overflowing
<1> QED
  BY <1>3, <1>4, <1>6, <1>7, <1>8 DEF IInv

\* The steps that file the snapshot.
LEMMA FilingKeeps ==
    ASSUME IInv, UNCHANGED <<mode, wiring, fetched>>,
           pc \in {"validate", "archive", "quality", "done", "aborted"},
           pc' \in {"archive", "quality", "done", "aborted", "raised"},
           pc' = "raised" => archived' /\ wiring = "quality",
           TypeOK', VerdictKnown'
    PROVE  IInv'
<1>1. UNCHANGED <<continuity, spot, vix, meta, chains, derived>>
  BY DEF fetched
<1>2. SpotKnown' /\ VixKnown' /\ ContinuityKnown' /\ MetaKnown'
  BY <1>1 DEF IInv, SpotKnown, VixKnown, ContinuityKnown, MetaKnown, Answered
<1>3. ChainsKnown' /\ DerivedKnown'
  BY <1>1, ChainsStay DEF IInv, ChainsKnown, DerivedKnown, Returned
<1>4. RaisedKnown'
  BY DEF RaisedKnown
<1> QED
  BY <1>2, <1>3, <1>4 DEF IInv

LEMMA ValidateKeeps ==
    ASSUME IInv, Validate
    PROVE  IInv'
<1>1. /\ pc = "validate" /\ pc' = "archive" /\ UNCHANGED <<mode, wiring, fetched, archived, quality>>
      /\ \/ raising' \in RaisingRules /\ findings' = Evaluate(raising')
         \/ findings' = findings /\ raising' = raising
  BY DEF Validate
<1>2. findings = <<>> /\ quality = <<>> /\ ~archived
  BY <1>1 DEF IInv, VerdictKnown, Judged
<1>3. Evaluate(raising)' = Evaluate(raising')
  BY <1>1, RulesStay DEF Evaluate
<1>4. VerdictKnown'
  BY <1>1, <1>2, <1>3 DEF VerdictKnown, Judged
<1>5. findings' \in Seq([rule : Range(RuleIds), level : {"PASS", "WARN", "FAIL"}])
  <2> PICK raised : raised = raising'
    OBVIOUS
  <2>1. TypeOK
    BY DEF IInv
  <2>2. Evaluate(raised) \in Seq([rule : Range(RuleIds), level : {"PASS", "WARN", "FAIL"}])
    BY <2>1, VerdictTyped
  <2> QED
    BY <1>1, <2>1, <2>2 DEF TypeOK
<1>6. TypeOK'
  BY <1>1, <1>5, RulesAssumption DEF IInv, TypeOK, fetched
<1> QED
  BY <1>1, <1>4, <1>6, FilingKeeps

LEMMA ArchiveKeeps ==
    ASSUME IInv, Archive
    PROVE  IInv'
<1>1. /\ pc = "archive" /\ UNCHANGED <<mode, wiring, fetched, findings, raising, quality>>
      /\ \/ archived' = TRUE /\ pc' \in {"quality", "done"}
         \/ archived' = archived /\ pc' = "aborted"
  BY DEF Archive
<1>2. quality = <<>>
  BY <1>1 DEF IInv, VerdictKnown
<1>3. VerdictKnown'
  BY <1>1, <1>2, VerdictStays DEF IInv, VerdictKnown, Judged
<1>4. TypeOK'
  BY <1>1 DEF IInv, TypeOK, fetched
<1> QED
  BY <1>1, <1>3, <1>4, FilingKeeps

LEMMA QualityKeeps ==
    ASSUME IInv, PersistQuality
    PROVE  IInv'
<1>1. /\ pc = "quality" /\ UNCHANGED <<mode, wiring, fetched, findings, raising, archived>>
      /\ \/ pc' = "done" /\ (quality' = findings \/ quality' = quality)
         \/ pc' = "raised" /\ wiring = "quality" /\ quality' = quality
  BY DEF PersistQuality, Raise
<1>2. quality = <<>> /\ archived
  BY <1>1 DEF IInv, VerdictKnown
<1>3. VerdictKnown'
  BY <1>1, <1>2, VerdictStays DEF IInv, VerdictKnown, Judged
<1>4. TypeOK'
  BY <1>1 DEF IInv, TypeOK, fetched
<1>5. UNCHANGED <<mode, wiring, fetched>> /\ archived'
  BY <1>1, <1>2
<1> QED
  BY <1>1, <1>3, <1>4, <1>5, FilingKeeps

LEMMA StepIInv == IInv /\ [Next]_vars => IInv'
<1> SUFFICES ASSUME IInv, [Next]_vars PROVE IInv'
  OBVIOUS
<1>1. CASE \E answer \in Answers : FetchSpot(answer) \/ FetchVix(answer)
  BY <1>1, SpotKeeps, VixKeeps
<1>2. CASE Anchor
  BY <1>2, AnchorKeeps
<1>3. CASE \E outcome \in [Expiries -> Outcomes] : FetchChains(outcome)
  BY <1>3, ChainsKeep
<1>4. CASE Assemble
  BY <1>4, AssembleKeeps
<1>5. CASE Validate
  BY <1>5, ValidateKeeps
<1>6. CASE Archive
  BY <1>6, ArchiveKeeps
<1>7. CASE PersistQuality
  BY <1>7, QualityKeeps
<1>8. CASE UNCHANGED vars
  <2>1. UNCHANGED <<pc, mode, wiring, fetched, continuity, spot, vix, meta, chains, derived,
                    findings, raising, archived, quality>>
    BY <1>8 DEF vars, fetched
  <2>2. TypeOK' /\ SpotKnown' /\ VixKnown' /\ ContinuityKnown' /\ MetaKnown'
    BY <2>1 DEF IInv, TypeOK, SpotKnown, VixKnown, ContinuityKnown, MetaKnown, Answered
  <2>3. ChainsKnown' /\ DerivedKnown' /\ RaisedKnown'
    BY <2>1, ChainsStay DEF IInv, ChainsKnown, DerivedKnown, Returned, RaisedKnown, Incomputable,
                            Overflowing
  <2>4. VerdictKnown'
    BY <2>1, VerdictStays DEF IInv, VerdictKnown, Judged
  <2> QED
    BY <2>2, <2>3, <2>4 DEF IInv
<1> QED
  BY <1>1, <1>2, <1>3, <1>4, <1>5, <1>6, <1>7, <1>8 DEF Next

\* IInv holds of every state of the tick.
THEOREM Invariance == Spec => []IInv
  BY InitIInv, StepIInv, PTL DEF Spec

-----------------------------------------------------------------------------
(***************************************************************************)
(* The snapshot and its verdict keep their types, for any levels and rows  *)
(* (_models.py:114-325).                                                   *)
(***************************************************************************)
THEOREM TypeCorrect == Spec => []TypeOK
<1>1. IInv => TypeOK
  BY DEF IInv
<1> QED
  BY <1>1, Invariance, PTL

(***************************************************************************)
(* Only a failing archive write and what _poll_once cannot compute with    *)
(* cost a snapshot, and it computes with everything else, for any rows and *)
(* totals; the quality stream can end the run when the snapshot is         *)
(* archived (controller.py:385-492, 533-673, 685-776).                     *)
(***************************************************************************)
THEOREM SnapshotsSurvive == Spec => []OnlyFatalStops
<1>1. IInv => OnlyFatalStops
  <2> SUFFICES ASSUME IInv PROVE OnlyFatalStops
    OBVIOUS
  <2>1. Returned => ~Incomputable
    BY DEF IInv, SpotKnown, ChainsKnown, Returned, Answered, Incomputable, Overflowing
  <2> QED
    BY <2>1 DEF IInv, VerdictKnown, RaisedKnown, OnlyFatalStops
<1> QED
  BY <1>1, Invariance, PTL

LEMMA AtmCoherent == IInv => Coherence = "PASS"
<1> SUFFICES ASSUME IInv PROVE Coherence = "PASS"
  OBVIOUS
<1>1. meta.anchor \in Int /\ meta.atm \in Int
  BY DEF IInv, TypeOK
<1>2. Step \in Nat /\ Step > 0
  BY LadderAssumption, SMT
<1>3. Abs(meta.atm - meta.anchor) <= Step
  <2>1. CASE meta.anchor = 0 /\ meta.atm = 0
    BY <1>2, <2>1, SMT DEF Abs
  <2>2. CASE meta.atm = AtmCandidate(meta.anchor)
    BY <1>1, <2>2, AtmNear
  <2> QED
    BY <2>1, <2>2 DEF IInv, MetaKnown
<1>4. Abs(meta.atm - meta.anchor) \in Int
  BY <1>1, SMT DEF Abs
<1>5. LET gap == Abs(meta.atm - meta.anchor)
      IN  ~(Step < gap /\ gap <= 5 * Step) /\ ~(5 * Step < gap)
  BY <1>2, <1>3, <1>4, SMT
<1> QED
  BY <1>3, <1>5 DEF Coherence

LEMMA ContinuityConsistent == IInv => SelfConsistency = "PASS"
  BY DEF IInv, ContinuityKnown, Classify, Within, SelfConsistency

LEMMA CompletenessTells == IInv /\ Returned => ((Completeness = "FAIL") <=> (spot.success /\ ~derived.given))
<1> SUFFICES ASSUME IInv, Returned
             PROVE  (Completeness = "FAIL") <=> (spot.success /\ ~derived.given)
  OBVIOUS
<1> DEFINE missing == {e \in Expiries : chains[e].kind # "ok"}
<1>1. spot.success => (derived.given <=> missing # Expiries)
  BY DEF IInv, DerivedKnown, AnyOk
<1>2. missing = Expiries => missing # {}
  BY ObservationAssumption
<1>3. Completeness = CASE ~spot.success \/ missing = {} -> "PASS"
                       [] spot.success /\ missing = Expiries -> "FAIL"
                       [] OTHER -> "WARN"
  BY DEF Completeness
<1> HIDE DEF missing
<1>4. (Completeness = "FAIL") <=> (spot.success /\ missing = Expiries)
  <2>1. CASE ~spot.success \/ missing = {}
    BY <1>2, <1>3, <2>1
  <2>2. CASE spot.success /\ missing = Expiries
    BY <1>2, <1>3, <2>2
  <2>3. CASE spot.success /\ missing # {} /\ missing # Expiries
    BY <1>3, <2>3
  <2> QED
    BY <2>1, <2>2, <2>3
<1> QED
  BY <1>1, <1>4

(***************************************************************************)
(* Whatever the poll interval, the strike step, the bands and the answers, *)
(* the engine finds nothing wrong with what the controller derived         *)
(* (validation.py against vix.py:225, controller.py:446, 471, 517, 595).   *)
(***************************************************************************)
THEOREM RulesAgree == Spec => []EngineAgrees
<1>1. IInv => EngineAgrees
  <2> SUFFICES ASSUME IInv, Returned PROVE EngineAgrees
    BY DEF EngineAgrees
  <2>1. Rule("identity_consistency") = "PASS"
    BY DEF Rule, Identity, Quotes
  <2>2. Rule("vix_plausibility") = "PASS"
    BY DEF IInv, VixKnown, Rule, Plausible
  <2>3. Rule("atm_resolution_coherence") = "PASS"
    BY AtmCoherent DEF Rule
  <2>4. Rule("continuity_self_consistency") = "PASS"
    BY ContinuityConsistent DEF Rule
  <2> QED
    BY <2>1, <2>2, <2>3, <2>4, CompletenessTells DEF EngineAgrees
<1> QED
  BY <1>1, Invariance, PTL

LEMMA VerdictHolds ==
    ASSUME IInv, findings # <<>>
    PROVE  /\ DOMAIN findings = DOMAIN RuleIds
           /\ \A i \in DOMAIN RuleIds : /\ findings[i].rule = RuleIds[i]
                                       /\ findings[i].level = IF RuleIds[i] \in raising THEN "FAIL" ELSE Rule(RuleIds[i])
  BY VerdictTyped DEF IInv, VerdictKnown

(***************************************************************************)
(* A verdict has one finding a rule, in order, whichever rules raise, and  *)
(* the quality stream holds verdicts of archived snapshots only            *)
(* (validation.py:364-384, controller.py:747-776).                         *)
(***************************************************************************)
THEOREM OneFindingARule == Spec => []VerdictPerRule
<1>1. IInv => VerdictPerRule
  <2> SUFFICES ASSUME IInv PROVE VerdictPerRule
    OBVIOUS
  <2>1. ASSUME findings # <<>>
        PROVE  /\ [i \in DOMAIN findings |-> findings[i].rule] = RuleIds
               /\ \A i \in DOMAIN findings : findings[i].level = IF RuleIds[i] \in raising THEN "FAIL" ELSE Rule(RuleIds[i])
    <3>1. RuleIds = [i \in 1..6 |-> RuleIds[i]]
      BY RuleIdsKnown DEF RuleIds
    <3> QED
      BY <2>1, <3>1, VerdictHolds, RuleIdsKnown
  <2>2. quality # <<>> => quality = findings /\ archived
    BY DEF IInv, VerdictKnown
  <2> QED
    BY <2>1, <2>2 DEF VerdictPerRule
<1> QED
  BY <1>1, Invariance, PTL

(***************************************************************************)
(* A verdict without a FAIL is the guard the fetchers leave out: the level *)
(* is in its band, some chain came with it, and VIX is in its band         *)
(* (validation.py:137-188, 226-270 against spot.py:246).                   *)
(***************************************************************************)
THEOREM CleanMeansPlausible == Spec => []CleanVerdictVouches
<1>1. IInv => CleanVerdictVouches
  <2> SUFFICES ASSUME IInv, findings # <<>>,
                      \A i \in DOMAIN findings : findings[i].level # "FAIL"
               PROVE  /\ spot.success => /\ SpotMin <= meta.anchor /\ meta.anchor <= SpotMax
                                         /\ derived.given
                      /\ vix.success => InBand(vix.ltp, VixMin, VixMax)
    BY DEF CleanVerdictVouches
  <2>1. \A i \in 1..6 : Rule(RuleIds[i]) # "FAIL"
    BY VerdictHolds, RuleIdsKnown
  <2>2. Plausible(spot, SpotMin, SpotMax) # "FAIL" /\ Completeness # "FAIL"
    <3>1. Rule(RuleIds[3]) # "FAIL" /\ Rule(RuleIds[5]) # "FAIL"
      BY <2>1, SMT
    <3> QED
      BY <3>1, RuleIdsKnown DEF Rule
  <2>3. Returned /\ Answered
    BY DEF IInv, VerdictKnown, Judged, Returned, Answered
  <2>4. spot.success => meta.anchor = spot.ltp.value
    BY <2>3 DEF IInv, MetaKnown
  <2> QED
    BY <2>2, <2>3, <2>4, CompletenessTells DEF IInv, VixKnown, Plausible, InBand
<1> QED
  BY <1>1, Invariance, PTL

=============================================================================
