----------------------------- MODULE Derivation -----------------------------
(***************************************************************************)
(* What one run derives from its snapshots (lib/discovery/controller.py:   *)
(* _poll_once, _build_derived): the open-interest changes, along the       *)
(* continuity chain.                                                       *)
(*                                                                         *)
(* An open-interest value is known by the tick at which it was observed: a *)
(* change is then a pair of ticks, the one it is recorded at and the one   *)
(* its prior value is from, 0 when the code takes the prior value to be 0. *)
(***************************************************************************)
EXTENDS Continuity, Sequences

CONSTANTS Expiries,   \* the configured expiries
          Keys,       \* the instruments of an expiry: (side, strike)
          Listed,     \* [Expiries -> SUBSET Keys]: those an expiry may quote
          Interval,   \* interval_seconds
          Gaps,       \* what the wall clock advances by between two ticks; it
                      \* may stand still or be set back
          MaxTicks    \* bound: ticks of the run

ASSUME DerivationAssumption == /\ Expiries # {} /\ Interval \in Nat \ {0}
                               /\ Listed \in [Expiries -> SUBSET Keys]
                               /\ Gaps \subseteq Int
                               /\ MaxTicks \in Nat

\* A ChainResult: whether the fetch succeeded and the instruments quoted.  A
\* successful chain may hold no row that parses.
ChainResults == [ok : {TRUE}, keys : SUBSET Keys] \union [ok : {FALSE}, keys : {{}}]

Chains == {chains \in [Expiries -> ChainResults] :
              \A e \in Expiries : chains[e].keys \subseteq Listed[e]}

\* SpotResult and chains: no chain is fetched when spot fails.
Polls == [spot : {TRUE}, chains : Chains]
            \union [spot : {FALSE}, chains : [Expiries -> [ok : {FALSE}, keys : {{}}]]]

\* oi_changes: None, or a list of changes.
Changes     == [expiry : Expiries, key : Keys, from : 0..MaxTicks]
NoChanges   == [given |-> FALSE, list |-> {}]
Given(list) == [given |-> TRUE, list |-> list]

Snapshots == [at : Int, prev : 0..MaxTicks, status : Statuses,
              actual : Int, poll : Polls,
              changes : [given : BOOLEAN, list : SUBSET Changes]]

VARIABLES
    clock,     \* the wall clock at the last tick
    archive,   \* the archived snapshots; the i-th is tick i, and i its poll_id
    prevAt,    \* _prev_polled_at, with _prev_snapshot_id the last tick
    prevOi     \* _prev_oi: [Expiries -> [Keys -> tick of the value, 0 if none]]

vars == <<clock, archive, prevAt, prevOi>>

TypeOK ==
    /\ clock \in Int /\ prevAt \in Int
    /\ archive \in Seq(Snapshots)
    /\ prevOi \in [Expiries -> [Keys -> 0..MaxTicks]]

NoOi == [e \in Expiries |-> [k \in Keys |-> 0]]

Init == clock = 0 /\ archive = <<>> /\ prevAt = 0 /\ prevOi = NoOi

-----------------------------------------------------------------------------
Tick == Len(archive) + 1

Status(now) == Classify(Interval, archive = <<>>, now - prevAt)

AnyOk(poll) == \E e \in Expiries : poll.chains[e].ok

\* Mutant: changes are computed whatever the continuity is.
OiChangesUngated(poll, status) ==
    IF ~AnyOk(poll) \/ prevOi = NoOi THEN NoChanges
    ELSE Given({c \in Changes : /\ c.key \in poll.chains[c.expiry].keys
                               /\ c.from = prevOi[c.expiry][c.key]})

(***************************************************************************)
(* oi_changes: None without a chain, without any earlier open interest, or *)
(* when this snapshot is not contiguous with the one before; otherwise one *)
(* change for every instrument quoted now, against _prev_oi, whatever its  *)
(* age, and against 0 when _prev_oi has none.                              *)
(***************************************************************************)
OiChanges(poll, status) ==
    IF ~AnyOk(poll) \/ prevOi = NoOi \/ status # "CONTIGUOUS" THEN NoChanges
    ELSE Given({c \in Changes : /\ c.key \in poll.chains[c.expiry].keys
                               /\ c.from = prevOi[c.expiry][c.key]})

\* Mutant: the instruments of a new chain are merged into the old ones.
NextOiMerged(poll) ==
    [e \in Expiries |-> [k \in Keys |->
        IF k \in poll.chains[e].keys THEN Tick ELSE prevOi[e][k]]]

\* Mutant: open interest is kept from contiguous snapshots only.
NextOiStuck(poll) == IF prevOi = NoOi THEN NextOiMerged(poll) ELSE prevOi

(***************************************************************************)
(* _prev_oi: an expiry with quotes replaces its entry, the others keep     *)
(* theirs.  It moves on across a gap, and stays when spot fails.           *)
(***************************************************************************)
NextOi(poll) ==
    [e \in Expiries |->
        IF poll.chains[e].keys = {} THEN prevOi[e]
        ELSE [k \in Keys |-> IF k \in poll.chains[e].keys THEN Tick ELSE 0]]

\* The record of the tick: its link, its continuity and its derived values.
Record(now, poll) ==
    [at |-> now, prev |-> Len(archive), status |-> Status(now),
     actual |-> IF archive = <<>> THEN 0 ELSE now - prevAt,
     poll |-> poll, changes |-> OiChanges(poll, Status(now))]

(***************************************************************************)
(* One tick: _poll_once and the archiving of the record it returns.  Times *)
(* are counted from the first tick.                                        *)
(***************************************************************************)
Poll(gap, poll) ==
    /\ Tick <= MaxTicks
    /\ clock' = IF archive = <<>> THEN clock ELSE clock + gap
    /\ archive' = Append(archive, Record(clock', poll))
    /\ prevAt' = clock'
    /\ prevOi' = NextOi(poll)

Next == \E gap \in Gaps, poll \in Polls : Poll(gap, poll)

Spec == Init /\ [][Next]_vars

-----------------------------------------------------------------------------
HasChanges(i) == archive[i].changes.given

\* The ticks before i at which expiry e was quoted.
Quoted(e, i) == {j \in 1..(i - 1) : archive[j].poll.chains[e].keys # {}}

LastOf(S) == CHOOSE j \in S : \A h \in S : h <= j

(***************************************************************************)
(* Every open-interest change can be recomputed from the archive alone: it *)
(* is the value quoted now against the value in the last snapshot that     *)
(* quoted the expiry, 0 when the instrument was not in it, for exactly the *)
(* instruments quoted now ("every value is therefore reproducible from the *)
(* raw JSONL archive", _models.py:261).                                    *)
(***************************************************************************)
Prior(e, k, i) ==
    IF Quoted(e, i) # {} /\ k \in archive[LastOf(Quoted(e, i))].poll.chains[e].keys
      THEN LastOf(Quoted(e, i)) ELSE 0

Recomputed(i) ==
    {c \in Changes : /\ c.key \in archive[i].poll.chains[c.expiry].keys
                     /\ c.from = Prior(c.expiry, c.key, i)}

ChangesReproducible ==
    \A i \in DOMAIN archive : HasChanges(i) => archive[i].changes.list = Recomputed(i)

(***************************************************************************)
(* Two changes of an instrument count the same interval (the later starts  *)
(* before the tick of the earlier) if and only if the chain the expiry     *)
(* quoted last before the later one lacks the instrument: one that drops   *)
(* out of a chain and returns gets its whole open interest as a change     *)
(* against 0 (prev.get(..., 0), line 660), over intervals it has been      *)
(* counted for.  All other changes of an instrument can be added up,       *)
(* whatever failed, came back empty or was withheld in between.            *)
(***************************************************************************)
OverlapOnReturnOnly ==
    \A i, j \in DOMAIN archive : i < j /\ HasChanges(i) /\ HasChanges(j) =>
        \A c \in archive[i].changes.list, d \in archive[j].changes.list :
            c.expiry = d.expiry /\ c.key = d.key =>
                LET last == LastOf(Quoted(d.expiry, j))
                IN  d.from < i <=> d.key \notin archive[last].poll.chains[d.expiry].keys

(***************************************************************************)
(* "Across a GAP (or on the first snapshot) oi_changes is None, [...]      *)
(* _prev_oi is still advanced so a subsequent contiguous snapshot resumes  *)
(* correct single-interval deltas" (controller.py:613-617): an instrument  *)
(* quoted by two consecutive snapshots changes by exactly that interval if *)
(* the second is contiguous, and not at all if it is not.                  *)
(***************************************************************************)
ResumesAfterGap ==
    \A i \in DOMAIN archive : i > 1 =>
        \A e \in Expiries, k \in Keys :
            k \in archive[i].poll.chains[e].keys /\ k \in archive[i - 1].poll.chains[e].keys
            => IF Within(Interval, archive[i].at - archive[i - 1].at)
                 THEN [expiry |-> e, key |-> k, from |-> i - 1] \in archive[i].changes.list
                 ELSE ~HasChanges(i)

(***************************************************************************)
(* "Path-dependent metrics (e.g. OI deltas) are computed only across       *)
(* CONTIGUOUS snapshots; across a GAP they are withheld rather than        *)
(* silently spanning the gap" (_models.py:216).  The code looks at the     *)
(* last snapshot only: the prior value may be from before a gap, when the  *)
(* expiry's chain failed or brought no row that parses at the snapshot     *)
(* after it, so that _prev_oi kept the older values.                       *)
(***************************************************************************)
NoChangeSpansGap ==
    \A i \in DOMAIN archive : HasChanges(i) =>
        \A c \in archive[i].changes.list :
            c.from # 0 => \A j \in (c.from + 1)..i : archive[j].status # "GAP"
=============================================================================
