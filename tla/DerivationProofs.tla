------------------------- MODULE DerivationProofs ---------------------------
(***************************************************************************)
(* Proofs about the open-interest changes of a run, for any expiries,      *)
(* instruments, answers, clock and number of snapshots.  What makes a      *)
(* change recomputable is that _prev_oi is a function of the archive: for  *)
(* each expiry the tick that last quoted it (Carried).                     *)
(***************************************************************************)
EXTENDS Derivation, TLAPS

\* _prev_oi, _prev_polled_at and the clock follow from the archive.
Carried ==
    /\ \A e \in Expiries, k \in Keys : prevOi[e][k] = Prior(e, k, Len(archive) + 1)
    /\ Len(archive) > 0 => prevAt = archive[Len(archive)].at

\* The ticks that quoted an expiry, if any, have a last one.
HasLast ==
    \A e \in Expiries, j \in 1..(Len(archive) + 1) : Quoted(e, j) # {} =>
        /\ LastOf(Quoted(e, j)) \in Quoted(e, j)
        /\ \A h \in Quoted(e, j) : h <= LastOf(Quoted(e, j))

Bounded == Len(archive) <= MaxTicks

IInv == /\ TypeOK /\ Bounded /\ HasLast /\ Carried
        /\ ChangesReproducible /\ ResumesAfterGap

-----------------------------------------------------------------------------
(***************************************************************************)
(* A tick adds one snapshot and leaves the ones before it.                 *)
(***************************************************************************)
LEMMA AppendTyped ==
    ASSUME TypeOK, NEW rec, archive' = Append(archive, rec)
    PROVE  /\ Len(archive) \in Nat
           /\ Len(archive') = Len(archive) + 1
           /\ \A i \in 1..Len(archive) : archive'[i] = archive[i]
           /\ archive'[Len(archive) + 1] = rec
           /\ DOMAIN archive' = 1..(Len(archive) + 1)
           /\ DOMAIN archive = 1..Len(archive)
  BY SMT DEF TypeOK

LEMMA Appended ==
    ASSUME TypeOK, NEW gap \in Gaps, NEW poll \in Polls, Poll(gap, poll)
    PROVE  /\ Len(archive) \in Nat
           /\ Len(archive') = Len(archive) + 1
           /\ \A i \in 1..Len(archive) : archive'[i] = archive[i]
           /\ archive'[Len(archive) + 1] = Record(clock', poll)
           /\ DOMAIN archive' = 1..(Len(archive) + 1)
           /\ DOMAIN archive = 1..Len(archive)
<1>1. archive' = Append(archive, Record(clock', poll))
  BY DEF Poll
<1>2. PICK rec : rec = Record(clock', poll)
  OBVIOUS
<1> QED
  BY <1>1, <1>2, AppendTyped

\* The keys of a chain are instruments, and only a successful chain has some.
LEMMA PollsTyped ==
    ASSUME NEW poll \in Polls, NEW e \in Expiries
    PROVE  /\ poll.chains[e].keys \subseteq Keys
           /\ poll.chains[e].keys # {} => poll.chains[e].ok
  BY DEF Polls, Chains, ChainResults

\* The changes recorded are those of instruments quoted now, against _prev_oi.
LEMMA ChangesListed ==
    ASSUME TypeOK, NEW poll \in Polls, NEW status,
           OiChanges(poll, status).given
    PROVE  /\ status = "CONTIGUOUS"
           /\ OiChanges(poll, status).list =
                {c \in Changes : /\ c.key \in poll.chains[c.expiry].keys
                                 /\ c.from = prevOi[c.expiry][c.key]}
  BY DEF OiChanges, NoChanges, Given

LEMMA ChangesTyped ==
    ASSUME NEW poll \in Polls, NEW status
    PROVE  OiChanges(poll, status) \in [given : BOOLEAN, list : SUBSET Changes]
  BY DEF OiChanges, NoChanges, Given

\* The last of the ticks that quoted an expiry is the latest when it did.
LEMMA LastIsLatest ==
    ASSUME NEW n \in Nat, NEW S, S \subseteq 1..n, n \in S
    PROVE  LastOf(S) = n /\ \A h \in S : h <= n
<1>1. \A j \in S : (\A h \in S : h <= j) => j = n
  BY SMT
<1>2. \A h \in S : h <= n
  BY SMT
<1> QED
  BY <1>1, <1>2 DEF LastOf

-----------------------------------------------------------------------------
LEMMA InitIInv == Init => IInv
<1> SUFFICES ASSUME Init PROVE IInv
  OBVIOUS
<1>1. archive = <<>> /\ Len(archive) = 0 /\ DOMAIN archive = {}
  BY SMT DEF Init
<1>2. TypeOK
  BY DerivationAssumption, <1>1, SMT DEF Init, TypeOK, NoOi
<1>3. \A e \in Expiries : Quoted(e, 1) = {}
  BY SMT DEF Quoted
<1>4. Carried /\ Bounded
  BY DerivationAssumption, <1>1, <1>3, SMT DEF Carried, Bounded, Prior, Init, NoOi
<1>5. HasLast
  BY <1>1, <1>3, SMT DEF HasLast
<1> QED
  BY <1>1, <1>2, <1>4, <1>5 DEF IInv, ChangesReproducible, ResumesAfterGap

-----------------------------------------------------------------------------
LEMMA RecordFields ==
    ASSUME NEW now, NEW poll
    PROVE  /\ Record(now, poll).at = now /\ Record(now, poll).poll = poll
           /\ Record(now, poll).changes = OiChanges(poll, Status(now))
  BY DEF Record

(***************************************************************************)
(* The ticks that quoted an expiry, before and after a tick.               *)
(***************************************************************************)
LEMMA QuotedStep ==
    ASSUME TypeOK, NEW gap \in Gaps, NEW poll \in Polls, Poll(gap, poll),
           NEW n \in Nat, n = Len(archive), NEW e \in Expiries
    PROVE  /\ \A j \in 1..(n + 1) : Quoted(e, j)' = Quoted(e, j)
           /\ Quoted(e, n + 2)' = IF poll.chains[e].keys = {} THEN Quoted(e, n + 1)
                                  ELSE Quoted(e, n + 1) \union {n + 1}
<1>1. /\ \A i \in 1..n : archive'[i] = archive[i]
      /\ archive'[n + 1].poll = poll
  BY Appended, RecordFields
<1>2. ASSUME NEW j \in 1..(n + 1)
      PROVE  Quoted(e, j)' = Quoted(e, j)
  <2>1. \A h \in 1..(j - 1) : archive'[h] = archive[h]
    BY <1>1, SMT
  <2> QED
    BY <2>1 DEF Quoted
<1>3. Quoted(e, n + 2)' = {h \in 1..(n + 1) : archive'[h].poll.chains[e].keys # {}}
  <2>1. (n + 2) - 1 = n + 1
    BY SMT
  <2> QED
    BY <2>1 DEF Quoted
<1>4. Quoted(e, n + 1) = {h \in 1..n : archive[h].poll.chains[e].keys # {}}
  <2>1. (n + 1) - 1 = n
    BY SMT
  <2> QED
    BY <2>1 DEF Quoted
<1>5. \A h : h \in 1..(n + 1) <=> h \in 1..n \/ h = n + 1
  BY SMT
<1> DEFINE Before == {h \in 1..n : archive[h].poll.chains[e].keys # {}}
           After  == {h \in 1..(n + 1) : archive'[h].poll.chains[e].keys # {}}
<1>8. \A h \in 1..n : archive'[h].poll.chains[e].keys = archive[h].poll.chains[e].keys
  BY <1>1
<1>9. archive'[n + 1].poll.chains[e].keys = poll.chains[e].keys
  BY <1>1
<1>6. CASE poll.chains[e].keys = {}
  <2>2. After = Before
    BY <1>5, <1>6, <1>8, <1>9
  <2>1. Quoted(e, n + 2)' = Quoted(e, n + 1)
    BY <1>3, <1>4, <2>2
  <2> QED
    BY <1>2, <1>6, <2>1
<1>7. CASE poll.chains[e].keys # {}
  <2>2. After = Before \union {n + 1}
    BY <1>5, <1>7, <1>8, <1>9
  <2>1. Quoted(e, n + 2)' = Quoted(e, n + 1) \union {n + 1}
    BY <1>3, <1>4, <2>2
  <2> QED
    BY <1>2, <1>7, <2>1
<1> QED
  BY <1>2, <1>6, <1>7

\* The last tick that quoted an expiry, after a tick that did.
LEMMA LastStep ==
    ASSUME TypeOK, NEW gap \in Gaps, NEW poll \in Polls, Poll(gap, poll),
           NEW n \in Nat, n = Len(archive), NEW e \in Expiries,
           poll.chains[e].keys # {}
    PROVE  /\ n + 1 \in Quoted(e, n + 2)' /\ LastOf(Quoted(e, n + 2)') = n + 1
           /\ \A h \in Quoted(e, n + 2)' : h <= n + 1
<1> DEFINE S == Quoted(e, n + 1) \union {n + 1}
<1>1. Quoted(e, n + 2)' = S
  BY QuotedStep
<1>2. S \subseteq 1..(n + 1) /\ n + 1 \in Nat
  BY SMT DEF Quoted
<1>3. LastOf(S) = n + 1 /\ \A h \in S : h <= n + 1
  BY <1>2, LastIsLatest
<1> QED
  BY <1>1, <1>3

(***************************************************************************)
(* What the archive says of the prior value, before and after a tick.      *)
(***************************************************************************)
LEMMA PriorStep ==
    ASSUME TypeOK, HasLast, NEW gap \in Gaps, NEW poll \in Polls, Poll(gap, poll),
           NEW n \in Nat, n = Len(archive), NEW e \in Expiries, NEW k \in Keys
    PROVE  /\ \A j \in 1..(n + 1) : Prior(e, k, j)' = Prior(e, k, j)
           /\ Prior(e, k, n + 2)' = IF poll.chains[e].keys = {} THEN Prior(e, k, n + 1)
                                    ELSE IF k \in poll.chains[e].keys THEN n + 1 ELSE 0
<1>1. \A i \in 1..n : archive'[i] = archive[i]
  BY Appended
<1>2. ASSUME NEW j \in 1..(n + 1), Quoted(e, j) # {}
      PROVE  archive'[LastOf(Quoted(e, j))] = archive[LastOf(Quoted(e, j))]
  <2>1. LastOf(Quoted(e, j)) \in Quoted(e, j)
    BY <1>2 DEF HasLast
  <2>2. Quoted(e, j) \subseteq 1..n
    BY SMT DEF Quoted
  <2> QED
    BY <1>1, <2>1, <2>2
<1>3. \A j \in 1..(n + 1) : Quoted(e, j)' = Quoted(e, j)
  BY QuotedStep
<1>4. ASSUME NEW j \in 1..(n + 1)
      PROVE  Prior(e, k, j)' = Prior(e, k, j)
  <2>1. Quoted(e, j)' = Quoted(e, j)
    BY <1>3, <1>4
  <2>2. LastOf(Quoted(e, j))' = LastOf(Quoted(e, j))
    BY <2>1 DEF LastOf
  <2> QED
    BY <1>2, <2>1, <2>2 DEF Prior
<1>5. CASE poll.chains[e].keys = {}
  <2>1. Quoted(e, n + 2)' = Quoted(e, n + 1)
    BY <1>5, QuotedStep
  <2>2. LastOf(Quoted(e, n + 2))' = LastOf(Quoted(e, n + 1))
    BY <2>1 DEF LastOf
  <2>3. n + 1 \in 1..(n + 1)
    BY SMT
  <2>4. Prior(e, k, n + 2)' = Prior(e, k, n + 1)
    BY <1>2, <2>1, <2>2, <2>3 DEF Prior
  <2> QED
    BY <1>4, <1>5, <2>4
<1>6. CASE poll.chains[e].keys # {}
  <2>1. n + 1 \in Quoted(e, n + 2)' /\ LastOf(Quoted(e, n + 2)') = n + 1
    BY <1>6, LastStep
  <2>2. archive'[n + 1].poll = poll
    BY Appended, RecordFields
  <2>3. LastOf(Quoted(e, n + 2))' = n + 1
    BY <2>1 DEF LastOf
  <2> QED
    BY <1>4, <1>6, <2>1, <2>2, <2>3 DEF Prior
<1> QED
  BY <1>4, <1>5, <1>6

-----------------------------------------------------------------------------
(***************************************************************************)
(* IInv is inductive: what a tick does to each part of it.                 *)
(***************************************************************************)
LEMMA StepTypeOK ==
    ASSUME TypeOK, Bounded, NEW gap \in Gaps, NEW poll \in Polls, Poll(gap, poll)
    PROVE  TypeOK' /\ Bounded'
<1>1. /\ Len(archive) \in Nat /\ Len(archive) + 1 <= MaxTicks
      /\ clock' \in Int /\ prevAt' = clock'
      /\ Len(archive') = Len(archive) + 1
  BY DerivationAssumption, Appended, SMT DEF TypeOK, Poll, Tick
<1>2. Record(clock', poll) \in Snapshots
  <2>1. Status(clock') \in Statuses
    BY DEF Status, Classify, Statuses
  <2>2. OiChanges(poll, Status(clock')) \in [given : BOOLEAN, list : SUBSET Changes]
    BY ChangesTyped
  <2>3. /\ Len(archive) \in 0..MaxTicks
        /\ (IF archive = <<>> THEN 0 ELSE clock' - prevAt) \in Int
    BY <1>1, DerivationAssumption, SMT DEF TypeOK
  <2> QED
    BY <1>1, <2>1, <2>2, <2>3 DEF Record, Snapshots
<1>3. archive' \in Seq(Snapshots)
  BY <1>2 DEF TypeOK, Poll
<1>4. prevOi' \in [Expiries -> [Keys -> 0..MaxTicks]]
  <2>1. Tick \in 0..MaxTicks /\ 0 \in 0..MaxTicks
    BY <1>1, DerivationAssumption, SMT DEF Tick
  <2>2. prevOi' = NextOi(poll)
    BY DEF Poll
  <2> QED
    BY <2>1, <2>2 DEF NextOi, TypeOK
<1> QED
  BY <1>1, <1>3, <1>4 DEF TypeOK, Bounded

LEMMA StepHasLast ==
    ASSUME TypeOK, HasLast, NEW gap \in Gaps, NEW poll \in Polls, Poll(gap, poll)
    PROVE  HasLast'
<1> SUFFICES ASSUME NEW e \in Expiries, NEW j \in 1..(Len(archive') + 1), Quoted(e, j)' # {}
             PROVE  /\ LastOf(Quoted(e, j)') \in Quoted(e, j)'
                    /\ \A h \in Quoted(e, j)' : h <= LastOf(Quoted(e, j)')
  BY DEF HasLast
<1> PICK n \in Nat : n = Len(archive)
  BY Appended
<1>1. j \in 1..(n + 1) \/ j = n + 2
  BY Appended, SMT
<1>2. ASSUME NEW h \in 1..(n + 1), Quoted(e, h) # {}
      PROVE  /\ LastOf(Quoted(e, h)) \in Quoted(e, h)
             /\ \A i \in Quoted(e, h) : i <= LastOf(Quoted(e, h))
  BY <1>2 DEF HasLast
<1>3. CASE j \in 1..(n + 1)
  <2>1. Quoted(e, j)' = Quoted(e, j)
    BY <1>3, QuotedStep
  <2> QED
    BY <1>2, <1>3, <2>1
<1>4. CASE j = n + 2 /\ poll.chains[e].keys = {}
  <2>1. Quoted(e, n + 2)' = Quoted(e, n + 1)
    BY <1>4, QuotedStep
  <2>2. n + 1 \in 1..(n + 1)
    BY SMT
  <2> QED
    BY <1>2, <1>4, <2>1, <2>2
<1>5. CASE j = n + 2 /\ poll.chains[e].keys # {}
  BY <1>5, LastStep
<1> QED
  BY <1>1, <1>3, <1>4, <1>5

LEMMA StepCarried ==
    ASSUME TypeOK, HasLast, Carried,
           NEW gap \in Gaps, NEW poll \in Polls, Poll(gap, poll)
    PROVE  Carried'
<1> PICK n \in Nat : n = Len(archive)
  BY Appended
<1>1. /\ Len(archive') = n + 1 /\ Len(archive') + 1 = n + 2
      /\ archive'[n + 1].at = clock' /\ archive'[n + 1].poll = poll
      /\ \A i \in 1..n : archive'[i] = archive[i]
  BY Appended, RecordFields, SMT
<1>2. ASSUME NEW e \in Expiries, NEW k \in Keys
      PROVE  prevOi'[e][k] = IF poll.chains[e].keys = {} THEN prevOi[e][k]
                             ELSE IF k \in poll.chains[e].keys THEN n + 1 ELSE 0
  BY DEF Poll, NextOi, Tick
<1>3. ASSUME NEW e \in Expiries, NEW k \in Keys
      PROVE  prevOi'[e][k] = Prior(e, k, n + 2)'
  BY <1>2, PriorStep DEF Carried
<1>4. \A e \in Expiries, k \in Keys : prevOi'[e][k] = Prior(e, k, Len(archive) + 1)'
  BY <1>1, <1>3
<1>5. prevAt' = archive'[Len(archive')].at
  BY <1>1 DEF Poll
<1> QED
  BY <1>4, <1>5 DEF Carried

\* A change is of an instrument quoted now, against _prev_oi.
LEMMA NewChanges ==
    ASSUME TypeOK, NEW gap \in Gaps, NEW poll \in Polls, Poll(gap, poll),
           NEW n \in Nat, n = Len(archive), HasChanges(n + 1)'
    PROVE  archive'[n + 1].changes.list =
             {c \in Changes : /\ c.key \in poll.chains[c.expiry].keys
                              /\ c.from = prevOi[c.expiry][c.key]}
<1>1. archive'[n + 1].changes = OiChanges(poll, Status(clock'))
  BY Appended, RecordFields
<1>2. OiChanges(poll, Status(clock')).given
  BY <1>1 DEF HasChanges
<1> QED
  BY <1>1, <1>2, ChangesListed

LEMMA StepReproducible ==
    ASSUME TypeOK, HasLast, Carried, ChangesReproducible,
           NEW gap \in Gaps, NEW poll \in Polls, Poll(gap, poll)
    PROVE  ChangesReproducible'
<1> PICK n \in Nat : n = Len(archive)
  BY Appended
<1>1. /\ DOMAIN archive' = 1..(n + 1) /\ DOMAIN archive = 1..n
      /\ \A i \in 1..n : archive'[i] = archive[i] /\ i \in 1..(n + 1)
      /\ archive'[n + 1].poll = poll /\ n + 1 \in 1..(n + 1)
      /\ \A i \in 1..(n + 1) : i \in 1..n \/ i = n + 1
  BY Appended, RecordFields, SMT
<1>2. \A c \in Changes : c.expiry \in Expiries /\ c.key \in Keys
  BY DEF Changes
<1>3. \A c \in Changes, i \in 1..(n + 1) :
         Prior(c.expiry, c.key, i)' = Prior(c.expiry, c.key, i)
  BY <1>2, PriorStep
<1>4. ASSUME NEW i \in 1..n, HasChanges(i)'
      PROVE  archive'[i].changes.list = Recomputed(i)'
  <2>1. archive[i].changes.list = Recomputed(i)
    BY <1>1, <1>4 DEF ChangesReproducible, HasChanges
  <2>2. Recomputed(i)' = Recomputed(i)
    BY <1>1, <1>3 DEF Recomputed
  <2> QED
    BY <1>1, <2>1, <2>2
<1>5. ASSUME HasChanges(n + 1)'
      PROVE  archive'[n + 1].changes.list = Recomputed(n + 1)'
  <2>1. \A c \in Changes : Prior(c.expiry, c.key, n + 1)' = prevOi[c.expiry][c.key]
    BY <1>1, <1>2, <1>3 DEF Carried
  <2>2. Recomputed(n + 1)' =
          {c \in Changes : /\ c.key \in poll.chains[c.expiry].keys
                           /\ c.from = prevOi[c.expiry][c.key]}
    BY <1>1, <2>1 DEF Recomputed
  <2> QED
    BY <1>5, <2>2, NewChanges
<1> QED
  BY <1>1, <1>4, <1>5 DEF ChangesReproducible

LEMMA StepResumes ==
    ASSUME TypeOK, Bounded', HasLast, Carried, ResumesAfterGap,
           NEW gap \in Gaps, NEW poll \in Polls, Poll(gap, poll)
    PROVE  ResumesAfterGap'
<1> PICK n \in Nat : n = Len(archive)
  BY Appended
<1>1. /\ DOMAIN archive' = 1..(n + 1) /\ DOMAIN archive = 1..n
      /\ \A i \in 1..n : archive'[i] = archive[i]
      /\ archive'[n + 1].at = clock' /\ archive'[n + 1].poll = poll
      /\ archive'[n + 1].changes = OiChanges(poll, Status(clock'))
      /\ Len(archive') = n + 1
  BY Appended, RecordFields
<1> SUFFICES ASSUME NEW i \in 1..(n + 1), i > 1, NEW e \in Expiries, NEW k \in Keys,
                    k \in archive'[i].poll.chains[e].keys,
                    k \in archive'[i - 1].poll.chains[e].keys
             PROVE  IF Within(Interval, archive'[i].at - archive'[i - 1].at)
                      THEN [expiry |-> e, key |-> k, from |-> i - 1] \in archive'[i].changes.list
                      ELSE ~HasChanges(i)'
  BY <1>1 DEF ResumesAfterGap
<1>2. i - 1 \in 1..n /\ (i \in 1..n \/ (i = n + 1 /\ i - 1 = n))
  BY SMT
<1>3. CASE i \in 1..n
  BY <1>1, <1>2, <1>3 DEF ResumesAfterGap, HasChanges
<1>4. CASE i = n + 1 /\ i - 1 = n
  <2>1. k \in archive[n].poll.chains[e].keys /\ k \in poll.chains[e].keys
    BY <1>1, <1>2, <1>4
  <2>2. Quoted(e, n + 1) \subseteq 1..n /\ n \in Quoted(e, n + 1)
    <3>1. (n + 1) - 1 = n /\ n \in 1..n
      BY <1>2, <1>4, SMT
    <3> QED
      BY <2>1, <3>1 DEF Quoted
  <2>3. LastOf(Quoted(e, n + 1)) = n
    BY <2>2, LastIsLatest
  <2>4. prevOi[e][k] = n /\ n # 0
    <3>1. n # 0
      BY <1>2, <1>4, SMT
    <3> QED
      BY <2>1, <2>2, <2>3, <3>1 DEF Carried, Prior
  <2>5. prevOi # NoOi
    BY <2>4 DEF NoOi
  <2>6. AnyOk(poll)
    BY <2>1, PollsTyped DEF AnyOk
  <2>7. archive # <<>> /\ prevAt = archive[n].at
    <3>1. Len(archive) > 0 /\ (archive = <<>> => Len(archive) = 0)
      BY <1>2, <1>4, SMT
    <3> QED
      BY <3>1 DEF Carried
  <2>8. Status(clock') = IF Within(Interval, clock' - archive[n].at) THEN "CONTIGUOUS" ELSE "GAP"
    BY <2>7 DEF Status, Classify
  <2>9. CASE Within(Interval, clock' - archive[n].at)
    <3>1. archive'[n + 1].changes.list =
            {c \in Changes : /\ c.key \in poll.chains[c.expiry].keys
                             /\ c.from = prevOi[c.expiry][c.key]}
      <4>1. OiChanges(poll, Status(clock')).given
        BY <2>5, <2>6, <2>8, <2>9 DEF OiChanges, Given
      <4> QED
        BY <1>1, <4>1, ChangesListed
    <3>2. n \in 0..MaxTicks
      BY <1>1, DerivationAssumption, SMT DEF Bounded
    <3>3. [expiry |-> e, key |-> k, from |-> n] \in Changes
      BY <3>2 DEF Changes
    <3> QED
      BY <1>1, <1>2, <1>4, <2>1, <2>4, <2>9, <3>1, <3>3
  <2>10. CASE ~Within(Interval, clock' - archive[n].at)
    <3>1. ~OiChanges(poll, Status(clock')).given
      BY <2>8, <2>10 DEF OiChanges, NoChanges
    <3> QED
      BY <1>1, <1>2, <1>4, <2>10, <3>1 DEF HasChanges
  <2> QED
    BY <2>9, <2>10
<1> QED
  BY <1>2, <1>3, <1>4

LEMMA StepIInv == IInv /\ [Next]_vars => IInv'
<1> SUFFICES ASSUME IInv, [Next]_vars PROVE IInv'
  OBVIOUS
<1> USE DEF IInv
<1>1. ASSUME NEW gap \in Gaps, NEW poll \in Polls, Poll(gap, poll)
      PROVE  IInv'
  BY <1>1, StepTypeOK, StepHasLast, StepCarried, StepReproducible, StepResumes
<1>2. CASE UNCHANGED vars
  <2>1. UNCHANGED <<clock, archive, prevAt, prevOi>>
    BY <1>2 DEF vars
  <2>2. \A e \in Expiries, j \in Int : Quoted(e, j)' = Quoted(e, j)
    BY <2>1 DEF Quoted
  <2>3. \A e \in Expiries, j \in Int : LastOf(Quoted(e, j))' = LastOf(Quoted(e, j))
    BY <2>2 DEF LastOf
  <2>4. \A e \in Expiries, k \in Keys, j \in Int : Prior(e, k, j)' = Prior(e, k, j)
    BY <2>1, <2>2, <2>3 DEF Prior
  <2>5. Len(archive) \in Nat /\ DOMAIN archive = 1..Len(archive)
    BY SMT DEF TypeOK
  <2>6. \A j \in 1..(Len(archive) + 1) : j \in Int
    BY <2>5, SMT
  <2>7. Len(archive) + 1 \in Int
    BY <2>5, SMT
  <2>8. TypeOK' /\ Bounded'
    BY <2>1 DEF TypeOK, Bounded
  <2>9. HasLast'
    BY <2>1, <2>2, <2>3, <2>6 DEF HasLast
  <2>10. Carried'
    BY <2>1, <2>4, <2>7 DEF Carried
  <2>11. ChangesReproducible'
    <3> SUFFICES ASSUME NEW i \in 1..Len(archive), HasChanges(i)
                 PROVE  archive[i].changes.list = Recomputed(i)'
      BY <2>1, <2>5 DEF ChangesReproducible, HasChanges
    <3>1. \A c \in Changes : Prior(c.expiry, c.key, i)' = Prior(c.expiry, c.key, i)
      BY <2>4, <2>5, SMT DEF Changes
    <3>2. Recomputed(i)' = Recomputed(i)
      BY <2>1, <3>1 DEF Recomputed
    <3> QED
      BY <2>5, <3>2 DEF ChangesReproducible
  <2>12. ResumesAfterGap'
    BY <2>1 DEF ResumesAfterGap, HasChanges
  <2> QED
    BY <2>8, <2>9, <2>10, <2>11, <2>12
<1> QED
  BY <1>1, <1>2 DEF Next

\* IInv holds of every state of a run.
THEOREM Invariance == Spec => []IInv
  BY InitIInv, StepIInv, PTL DEF Spec

-----------------------------------------------------------------------------
(***************************************************************************)
(* The variables of a run keep their types; in particular a prior value is *)
(* always of a tick of the run.                                            *)
(***************************************************************************)
THEOREM TypeCorrect == Spec => []TypeOK
<1>1. IInv => TypeOK
  BY DEF IInv
<1> QED
  BY <1>1, Invariance, PTL

(***************************************************************************)
(* Every open-interest change can be recomputed from the archive, for any  *)
(* expiries and instruments, whatever failed, came and went in the run.    *)
(***************************************************************************)
THEOREM ChangesFromArchive == Spec => []ChangesReproducible
<1>1. IInv => ChangesReproducible
  BY DEF IInv
<1> QED
  BY <1>1, Invariance, PTL

(***************************************************************************)
(* In any run, two changes of an instrument count an interval twice if and *)
(* only if the instrument dropped out of its expiry's chain and returned.  *)
(***************************************************************************)
LEMMA OverlapFollows ==
    ASSUME TypeOK, HasLast, ChangesReproducible
    PROVE  OverlapOnReturnOnly
<1> SUFFICES ASSUME NEW i \in DOMAIN archive, NEW j \in DOMAIN archive, i < j,
                    HasChanges(i), HasChanges(j),
                    NEW c \in archive[i].changes.list, NEW d \in archive[j].changes.list,
                    c.expiry = d.expiry, c.key = d.key
             PROVE  d.from < i <=>
                      d.key \notin archive[LastOf(Quoted(d.expiry, j))].poll.chains[d.expiry].keys
  BY DEF OverlapOnReturnOnly
<1> DEFINE last == LastOf(Quoted(d.expiry, j))
<1>1. d \in Changes /\ d.from = Prior(d.expiry, d.key, j)
  BY DEF ChangesReproducible, Recomputed
<1>2. c.key \in archive[i].poll.chains[c.expiry].keys
  BY DEF ChangesReproducible, Recomputed
<1>3. /\ i \in Int /\ 1 <= i /\ i \in 1..(j - 1)
      /\ j \in 1..(Len(archive) + 1) /\ d.expiry \in Expiries
  BY <1>1, SMT DEF TypeOK, Changes
<1>4. i \in Quoted(d.expiry, j)
  BY <1>2, <1>3 DEF Quoted
<1>5. i <= last /\ last \in Int
  <2>1. i <= last /\ last \in Quoted(d.expiry, j)
    BY <1>3, <1>4 DEF HasLast
  <2>2. \A h \in Quoted(d.expiry, j) : h \in Int
    BY <1>3, SMT DEF Quoted
  <2> QED
    BY <2>1, <2>2
<1>6. d.from = IF d.key \in archive[last].poll.chains[d.expiry].keys THEN last ELSE 0
  BY <1>1, <1>4 DEF Prior
<1> QED
  BY <1>3, <1>5, <1>6, SMT

THEOREM OverlapsExplained == Spec => []OverlapOnReturnOnly
<1>1. IInv => OverlapOnReturnOnly
  BY OverlapFollows DEF IInv
<1> QED
  BY <1>1, Invariance, PTL

(***************************************************************************)
(* After a gap, changes resume with the next contiguous snapshot.          *)
(***************************************************************************)
THEOREM ChangesResume == Spec => []ResumesAfterGap
<1>1. IInv => ResumesAfterGap
  BY DEF IInv
<1> QED
  BY <1>1, Invariance, PTL
=============================================================================
