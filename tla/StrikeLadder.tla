---------------------------- MODULE StrikeLadder ----------------------------
(***************************************************************************)
(* StrikeLadder (lib/discovery/fetchers/strike_ladder.py) as operators:    *)
(* the strikes asked for, given the strikes listed for one expiry and side *)
(* and the index level.  A token stands for its strike: the exchange lists *)
(* one instrument a strike.                                                *)
(***************************************************************************)
EXTENDS Integers, Sequences, FiniteSets, SequencesExt

CONSTANTS Step,         \* step_size
          WindowSteps   \* window_steps

ASSUME LadderAssumption == Step \in Nat \ {0} /\ WindowSteps \in Nat

Abs(n) == IF n < 0 THEN -n ELSE n

\* S as an increasing sequence: the i-th element has i - 1 below it.
Sorted(S) ==
    [i \in 1..Cardinality(S) |->
        CHOOSE s \in S : Cardinality({t \in S : t < s}) = i - 1]

\* Mutant: the quotient is cut off.
RoundDown(n) == n \div Step

\* round(n / Step): a half goes to the even neighbour.
RoundDiv(n) ==
    LET q == n \div Step
        r == n % Step
    IN  IF 2 * r < Step \/ (2 * r = Step /\ q % 2 = 0) THEN q ELSE q + 1

\* Listed strikes on the grid anchored at the least one; the others are dropped.
Backbone(listed) == {s \in listed : (s - Min(listed)) % Step = 0}

\* The arithmetic ATM, also resolved_atm of SnapshotMeta (controller.py:446).
AtmCandidate(spot) == RoundDiv(spot) * Step

\* resolved_atm: the nearest backbone strike, the lower of two.
ResolvedAtm(listed, spot) ==
    LET gap(s) == Abs(s - AtmCandidate(spot))
    IN  CHOOSE s \in Backbone(listed) :
            \A t \in Backbone(listed) : gap(s) < gap(t) \/ (gap(s) = gap(t) /\ s <= t)

\* Mutant: the slice ends before its upper bound.
WindowExclusive(listed, spot) ==
    LET ladder == Sorted(Backbone(listed))
        idx == CHOOSE i \in DOMAIN ladder : ladder[i] = ResolvedAtm(listed, spot)
        lo  == IF idx - WindowSteps < 1 THEN 1 ELSE idx - WindowSteps
        hi  == IF idx + WindowSteps > Len(ladder) THEN Len(ladder) ELSE idx + WindowSteps
    IN  IF listed = {} THEN <<>> ELSE SubSeq(ladder, lo, hi - 1)

\* window: the backbone strikes around the ATM, in order, cut at both ends.
Window(listed, spot) ==
    LET ladder == Sorted(Backbone(listed))
        idx == CHOOSE i \in DOMAIN ladder : ladder[i] = ResolvedAtm(listed, spot)
        lo  == IF idx - WindowSteps < 1 THEN 1 ELSE idx - WindowSteps
        hi  == IF idx + WindowSteps > Len(ladder) THEN Len(ladder) ELSE idx + WindowSteps
    IN  IF listed = {} THEN <<>> ELSE SubSeq(ladder, lo, hi)

(***************************************************************************)
(* What the window is meant to be: the ATM strike and, on each side of it, *)
(* the WindowSteps backbone strikes nearest to it.                         *)
(***************************************************************************)
Between(S, a, b) == {t \in S : (a < t /\ t <= b) \/ (b <= t /\ t < a)}

WindowStrikes(listed, spot) ==
    {s \in Backbone(listed) :
        Cardinality(Between(Backbone(listed), ResolvedAtm(listed, spot), s)) <= WindowSteps}
=============================================================================
