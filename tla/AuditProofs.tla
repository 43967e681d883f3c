----------------------------- MODULE AuditProofs ------------------------------
(***************************************************************************)
(* What the readers of a day's file can rely on, proved for any number of  *)
(* records, runs and damaged lines.                                        *)
(***************************************************************************)
EXTENDS Audit, SequenceTheorems, FiniteSetTheorems, WellFoundedInduction, TLAPS

(***************************************************************************)
(* The i-th record names the one before it of its run, which is the one    *)
(* before it in the day: runs follow each other.                           *)
(***************************************************************************)
Linked ==
    \A k \in DOMAIN written :
        /\ written[k].id = k
        /\ written[k].interval = every[written[k].run]
        /\ written[k].status = Classify(written[k].interval, written[k].prev = 0, written[k].actual)
        /\ written[k].prev = 0 => \A j \in 1..(k - 1) : written[j].run # written[k].run
        /\ written[k].prev # 0 =>
              /\ written[k].prev = k - 1
              /\ written[k - 1].run = written[k].run
              /\ written[k].at = written[k - 1].at + written[k].actual

\* What the controller of the run in progress remembers.
Cursor ==
    /\ running => run # 0 /\ every[run] \in Intervals
    /\ \A k \in DOMAIN written : written[k].run <= run
    /\ prev = 0 => \A k \in DOMAIN written : written[k].run # run
    /\ prev # 0 => /\ prev = Len(written)
                   /\ written[prev].run = run /\ written[prev].at = clock

\* Damage puts nothing into the file that was not written.
FromRuns ==
    /\ \A i \in Lines : \E k \in DOMAIN written : file[i] = written[k]
    /\ Undamaged => file = written

IInv == TypeOK /\ Linked /\ Cursor /\ FromRuns

-----------------------------------------------------------------------------
(***************************************************************************)
(* Every non-empty set of numbers has a least element.                     *)
(***************************************************************************)
LEMMA NumbersWellFounded == IsWellFoundedOn({p \in Nat \X Nat : p[1] < p[2]}, Nat)
  BY NatLessThanWellFounded DEF OpToRel

LEMMA LeastNumber ==
    ASSUME NEW T, T \subseteq Nat, T # {}
    PROVE  \E m \in T : \A k \in T : m <= k
<1> DEFINE R == {p \in Nat \X Nat : p[1] < p[2]}
<1>1. PICK m \in T : \A k \in T : <<k, m>> \notin R
  BY NumbersWellFounded, WFMin
<1>2. \A k \in T : ~(k < m)
  BY <1>1
<1> QED
  BY <1>1, <1>2, SMT

-----------------------------------------------------------------------------
(***************************************************************************)
(* The invariant.                                                          *)
(***************************************************************************)
LEMMA InitIInv == Init => IInv
<1> SUFFICES ASSUME Init PROVE IInv
  OBVIOUS
<1>1. /\ 0 \in 0..MaxRuns /\ 0 \in 0..MaxTicks /\ 0 \in 0..MaxFaults /\ 0 \in Int
      /\ <<>> \in Seq(Records) /\ <<>> \in Seq(Records \union {Garbled}) /\ DOMAIN <<>> = {}
  BY AuditAssumption, SMT
<1>2. TypeOK
  BY <1>1 DEF Init, TypeOK, Missing
<1>3. Linked /\ Cursor /\ FromRuns
  BY <1>1 DEF Init, Linked, Cursor, FromRuns, Lines
<1> QED
  BY <1>2, <1>3 DEF IInv

LEMMA WrittenTyped ==
    ASSUME IInv
    PROVE  /\ Len(written) \in Nat /\ DOMAIN written = 1..Len(written)
           /\ \A k \in DOMAIN written :
                 /\ written[k] \in Records /\ written[k] # Garbled
                 /\ written[k].id = k /\ k \in 1..MaxTicks
           /\ Len(written) <= MaxTicks
<1>1. Len(written) \in Nat /\ DOMAIN written = 1..Len(written)
  BY LenProperties DEF IInv, TypeOK
<1>2. \A k \in DOMAIN written : written[k] \in Records /\ written[k].id = k
  BY <1>1, ElementOfSeq DEF IInv, TypeOK, Linked
<1>3. ASSUME NEW k \in DOMAIN written PROVE written[k] # Garbled /\ k \in 1..MaxTicks
  <2>1. written[k].id \in 1..MaxTicks
    BY <1>2 DEF Records
  <2>2. Garbled.id = 0 /\ 0 \notin 1..MaxTicks
    BY SMT DEF Garbled
  <2> QED
    BY <1>2, <2>1, <2>2
<1>4. MaxTicks \in Nat
  BY AuditAssumption
<1>5. Len(written) <= MaxTicks
  <2>1. CASE Len(written) = 0
    BY <1>4, <2>1, SMT
  <2>2. CASE Len(written) # 0
    <3>1. Len(written) \in DOMAIN written
      BY <1>1, <2>2, SMT
    <3> QED
      BY <1>3, <1>4, <3>1, SMT
  <2> QED
    BY <2>1, <2>2
<1> QED
  BY <1>1, <1>2, <1>3, <1>5

\* A run has at most as many records as the day.
LEMMA TicksOfNat ==
    ASSUME IInv, NEW r
    PROVE  /\ IsFiniteSet({i \in DOMAIN written : written[i].run = r})
           /\ TicksOf(r) \in 0..MaxTicks
<1> DEFINE T == {i \in DOMAIN written : written[i].run = r}
<1>1. DOMAIN written = 1..Len(written) /\ Len(written) \in Nat /\ Len(written) <= MaxTicks
  BY WrittenTyped
<1>2. /\ IsFiniteSet(DOMAIN written)
      /\ Cardinality(DOMAIN written) = Len(written)
  <2>1. 1 \in Int /\ Len(written) \in Int
    BY <1>1
  <2>2. /\ IsFiniteSet(1..Len(written))
        /\ Cardinality(1..Len(written)) = IF 1 > Len(written) THEN 0 ELSE Len(written) - 1 + 1
    BY <2>1, FS_Interval
  <2> QED
    BY <1>1, <2>2, SMT
<1>3. IsFiniteSet(T) /\ Cardinality(T) <= Cardinality(DOMAIN written)
  <2>1. T \in SUBSET DOMAIN written
    OBVIOUS
  <2> QED
    BY <1>2, <2>1, FS_Subset
<1>4. Cardinality(T) \in Nat
  BY <1>3, FS_CardinalityType
<1>5. MaxTicks \in Nat
  BY AuditAssumption
<1> HIDE DEF T
<1>6. Cardinality(T) \in 0..MaxTicks
  BY <1>1, <1>2, <1>3, <1>4, <1>5, SMT
<1> QED
  BY <1>3, <1>6 DEF T, TicksOf

\* Cutting, repeating and replacing lines leaves a sequence of the same lines.
LEMMA DamagedLines ==
    ASSUME NEW S, NEW s \in Seq(S), NEW i \in DOMAIN s
    PROVE  /\ RemoveAt(s, i) \in Seq(S)
           /\ InsertAt(s, i, s[i]) \in Seq(S)
<1>1. Len(s) \in Nat /\ DOMAIN s = 1..Len(s) /\ i \in 1..Len(s) /\ \A j \in DOMAIN s : s[j] \in S
  BY LenProperties, ElementOfSeq
<1> DEFINE front == SubSeq(s, 1, i - 1)
           back  == SubSeq(s, i, Len(s))
           after == SubSeq(s, i + 1, Len(s))
<1>2. front \in Seq(S) /\ back \in Seq(S) /\ after \in Seq(S)
  <2>1. /\ \A j \in 1..(i - 1) : s[j] \in S
        /\ \A j \in i..Len(s) : s[j] \in S
        /\ \A j \in (i + 1)..Len(s) : s[j] \in S
    BY <1>1, SMT
  <2>2. 1 \in Int /\ i - 1 \in Int /\ i \in Int /\ i + 1 \in Int /\ Len(s) \in Int
    BY <1>1, SMT
  <2> QED
    BY <2>1, <2>2, SubSeqProperties
<1>3. <<s[i]>> \in Seq(S)
  BY <1>1
<1>4. front \o after \in Seq(S) /\ front \o <<s[i]>> \in Seq(S)
  BY <1>2, <1>3, ConcatProperties
<1>5. (front \o <<s[i]>>) \o back \in Seq(S)
  BY <1>2, <1>4, ConcatProperties
<1> QED
  BY <1>4, <1>5 DEF RemoveAt, InsertAt

\* Whatever a write leaves of a manifest, it keeps its type, and so do the others.
LEMMA ManifestTyped ==
    ASSUME IInv, NEW r \in Runs, NEW status \in {"none", "running", "completed"},
           NEW total \in 0..MaxTicks \union {NoTotal},
           WriteManifest(r, [status |-> status, total |-> total])
    PROVE  manifest' \in [Runs -> [status : {"none", "running", "completed"},
                                   total : 0..MaxTicks \union {NoTotal}]]
<1> DEFINE M == [status : {"none", "running", "completed"}, total : 0..MaxTicks \union {NoTotal}]
<1>1. manifest \in [Runs -> M]
  BY DEF IInv, TypeOK
<1>2. [status |-> status, total |-> total] \in M /\ Missing \in M
  BY DEF Missing
<1>3. PICK left \in M : manifest' = [manifest EXCEPT ![r] = left]
  BY <1>1, <1>2 DEF WriteManifest
<1> QED
  BY <1>1, <1>3

LEMMA StartRunKeeps ==
    ASSUME IInv, StartRun
    PROVE  IInv'
<1>1. run \in 0..MaxRuns /\ run < MaxRuns /\ MaxRuns \in Nat /\ run' = run + 1 /\ prev' = 0
  BY AuditAssumption DEF StartRun, IInv, TypeOK
<1>2. run' \in 0..MaxRuns /\ run < run' /\ 0 \in 0..MaxTicks /\ run' \in Runs /\ run' # 0
  BY <1>1, AuditAssumption, SMT DEF Runs
<1>3. PICK interval \in Intervals : every' = [every EXCEPT ![run'] = interval]
  BY <1>1 DEF StartRun
<1>4. TypeOK'
  <2>1. WriteManifest(run', [status |-> "running", total |-> NoTotal])
    BY <1>1 DEF StartRun
  <2>2. manifest' \in [Runs -> [status : {"none", "running", "completed"},
                                total : 0..MaxTicks \union {NoTotal}]]
    BY <1>2, <2>1, ManifestTyped
  <2> QED
    BY <1>1, <1>2, <1>3, <2>2 DEF StartRun, IInv, TypeOK
<1>5. ASSUME NEW k \in DOMAIN written
      PROVE  written[k].run <= run' /\ written[k].run # run' /\ written[k].run \in Runs
  <2>1. written[k].run \in Runs
    BY WrittenTyped DEF Records
  <2>2. written[k].run \in Nat /\ written[k].run <= run
    BY <2>1, AuditAssumption DEF IInv, Cursor, Runs
  <2>3. run \in Nat
    BY <1>1
  <2> QED
    BY <1>1, <2>1, <2>2, <2>3, SMT
<1>6. \A k \in DOMAIN written : every'[written[k].run] = every[written[k].run]
  BY <1>3, <1>5 DEF IInv, TypeOK
<1>7. UNCHANGED <<written, clock, file, faults>>
  BY DEF StartRun
<1>8. Linked'
  BY <1>6, <1>7 DEF IInv, Linked
<1>9. FromRuns'
  BY <1>7 DEF IInv, FromRuns, Lines, Undamaged
<1>10. Cursor'
  <2>1. every'[run'] = interval
    BY <1>2, <1>3 DEF IInv, TypeOK
  <2> QED
    BY <1>1, <1>2, <1>5, <1>7, <2>1 DEF Cursor
<1> QED
  BY <1>4, <1>8, <1>9, <1>10 DEF IInv

LEMMA EndRunKeeps ==
    ASSUME IInv, EndRun
    PROVE  IInv'
<1>1. PICK counted \in {TicksOf(run), Max({0, TicksOf(run) - 1})} :
         WriteManifest(run, [status |-> "completed", total |-> counted])
  BY DEF EndRun
<1>2. counted \in 0..MaxTicks
  <2>1. PICK n \in 0..MaxTicks : n = TicksOf(run)
    BY TicksOfNat
  <2>2. Max({0, n - 1}) \in 0..MaxTicks
    BY <2>1, AuditAssumption, SMT DEF Max
  <2> QED
    BY <1>1, <2>1, <2>2
<1>3. TypeOK'
  <2>1. manifest' \in [Runs -> [status : {"none", "running", "completed"},
                                total : 0..MaxTicks \union {NoTotal}]]
    <3>1. run \in Runs
      BY AuditAssumption, SMT DEF EndRun, IInv, TypeOK, Cursor, Runs
    <3> QED
      BY <1>1, <1>2, <3>1, ManifestTyped
  <2> QED
    BY <2>1 DEF EndRun, IInv, TypeOK
<1> QED
  BY <1>3 DEF EndRun, IInv, Linked, Cursor, FromRuns, Lines, Undamaged

LEMMA TickKeeps ==
    ASSUME IInv, NEW gap \in Gaps, Tick(gap)
    PROVE  IInv'
<1> DEFINE now == IF prev = 0 THEN clock ELSE clock + gap
           rec == [id |-> Len(written) + 1, run |-> run, at |-> now, prev |-> prev,
                   interval |-> every[run],
                   status |-> Classify(every[run], prev = 0, now - clock),
                   actual |-> now - clock]
<1>1. /\ faults = 0 /\ running /\ Len(written) < MaxTicks
      /\ written' = Append(written, rec) /\ file' = Append(file, rec)
      /\ clock' = now /\ prev' = rec.id
      /\ UNCHANGED <<run, running, every, manifest, faults>>
  BY DEF Tick
<1>2. /\ Len(written) \in Nat /\ DOMAIN written = 1..Len(written)
      /\ \A k \in DOMAIN written : written[k] \in Records
  BY WrittenTyped
<1>3. clock \in Int /\ gap \in Int /\ prev \in 0..MaxTicks /\ MaxTicks \in Nat
  BY AuditAssumption DEF IInv, TypeOK
<1>4. now \in Int /\ now - clock \in Int
  BY <1>3, SMT
<1>5. run \in Runs /\ every[run] \in Intervals
  <2>1. run \in 0..MaxRuns /\ run # 0 /\ every[run] \in Intervals
    BY <1>1 DEF IInv, TypeOK, Cursor
  <2> QED
    BY <2>1, AuditAssumption, SMT DEF Runs
<1>6. Len(written) + 1 \in 1..MaxTicks /\ Len(written) + 1 # 0
  BY <1>1, <1>2, <1>3, SMT
<1>7. Classify(every[run], prev = 0, now - clock) \in Statuses
  BY DEF Classify, Statuses
<1> HIDE DEF now
<1>8. rec \in Records
  BY <1>3, <1>4, <1>5, <1>6, <1>7 DEF Records
<1>9. PICK new \in Records : new = rec
  BY <1>8
<1>10. /\ new.id = Len(written) + 1 /\ new.run = run /\ new.at = now /\ new.prev = prev
       /\ new.interval = every[run]
       /\ new.status = Classify(every[run], prev = 0, now - clock) /\ new.actual = now - clock
       /\ written' = Append(written, new) /\ file' = Append(file, new)
       /\ prev' = Len(written) + 1
  BY <1>1, <1>9
<1> HIDE DEF rec
<1>11. /\ Len(written') = Len(written) + 1
       /\ DOMAIN written' = 1..(Len(written) + 1)
       /\ \A k \in 1..Len(written) : written'[k] = written[k]
       /\ written'[Len(written) + 1] = new
       /\ written' \in Seq(Records)
  <2>1. written \in Seq(Records)
    BY DEF IInv, TypeOK
  <2> QED
    BY <1>10, <2>1, AppendProperties, LenProperties
<1>12. file = written
  BY <1>1 DEF IInv, FromRuns, Undamaged
<1>13. TypeOK'
  <2>1. file' \in Seq(Records \union {Garbled})
    BY <1>10, AppendProperties DEF IInv, TypeOK
  <2> QED
    BY <1>1, <1>4, <1>6, <1>10, <1>11, <2>1 DEF IInv, TypeOK
<1>14. Linked'
  <2> SUFFICES ASSUME NEW k \in 1..(Len(written) + 1)
               PROVE  /\ written'[k].id = k
                      /\ written'[k].interval = every'[written'[k].run]
                      /\ written'[k].status =
                            Classify(written'[k].interval, written'[k].prev = 0, written'[k].actual)
                      /\ written'[k].prev = 0 =>
                            \A j \in 1..(k - 1) : written'[j].run # written'[k].run
                      /\ written'[k].prev # 0 =>
                            /\ written'[k].prev = k - 1
                            /\ written'[k - 1].run = written'[k].run
                            /\ written'[k].at = written'[k - 1].at + written'[k].actual
    BY <1>11 DEF Linked
  <2>1. CASE k \in 1..Len(written)
    <3>1. \A j \in 1..(k - 1) : j \in 1..Len(written)
      BY <1>2, <2>1, SMT
    <3>2. written[k].prev # 0 => k - 1 \in 1..Len(written)
      <4>1. ASSUME written[k].prev # 0 PROVE k - 1 \in 1..Len(written)
        <5>1. k - 1 = written[k].prev /\ written[k].prev \in 0..MaxTicks
          BY <1>2, <2>1, <4>1 DEF IInv, Linked, Records
        <5>2. k - 1 # 0
          BY <4>1, <5>1
        <5> QED
          BY <1>2, <2>1, <5>2, SMT
      <4> QED
        BY <4>1
    <3> QED
      BY <1>1, <1>2, <1>11, <2>1, <3>1, <3>2 DEF IInv, Linked
  <2>2. CASE k = Len(written) + 1
    <3>1. k - 1 = Len(written) /\ 1..(k - 1) = DOMAIN written
      BY <1>2, <2>2, SMT
    <3>2. written'[k] = new
      BY <1>11, <2>2
    <3>3. CASE prev = 0
      BY <1>1, <1>2, <1>10, <1>11, <2>2, <3>1, <3>2, <3>3 DEF IInv, Cursor
    <3>4. CASE prev # 0
      <4>1. prev = Len(written) /\ written[prev].run = run /\ written[prev].at = clock
        BY <3>4 DEF IInv, Cursor
      <4>2. Len(written) \in 1..Len(written)
        BY <1>2, <3>4, <4>1, SMT
      <4>3. written'[k - 1] = written[prev]
        BY <1>11, <3>1, <4>1, <4>2
      <4>4. now = clock + (now - clock)
        BY <1>3, <1>4, SMT
      <4> QED
        BY <1>1, <1>10, <2>2, <3>1, <3>2, <3>4, <4>1, <4>3, <4>4
    <3> QED
      BY <3>3, <3>4
  <2> QED
    BY <1>2, <2>1, <2>2, SMT
<1>15. Cursor'
  <2>1. \A k \in 1..(Len(written) + 1) : k \in 1..Len(written) \/ k = Len(written) + 1
    BY <1>2, SMT
  <2>2. run <= run
    BY <1>5, AuditAssumption DEF Runs
  <2>3. \A k \in 1..(Len(written) + 1) : written'[k].run <= run
    BY <1>2, <1>10, <1>11, <2>1, <2>2 DEF IInv, Cursor
  <2> QED
    BY <1>1, <1>6, <1>10, <1>11, <2>3 DEF IInv, Cursor
<1>16. FromRuns'
  BY <1>10, <1>12 DEF FromRuns, Lines
<1> QED
  BY <1>13, <1>14, <1>15, <1>16 DEF IInv

LEMMA DamageKeeps ==
    ASSUME IInv, NEW i \in DOMAIN file, Garble(i) \/ Cut(i) \/ Repeat(i)
    PROVE  IInv'
<1> DEFINE S == {file[j] : j \in DOMAIN file} \union {Garbled}
<1>1. /\ faults < MaxFaults /\ faults' = faults + 1
      /\ UNCHANGED <<written, clock, run, running, every, prev, manifest>>
      /\ file' \in {ReplaceAt(file, i, Garbled), RemoveAt(file, i), InsertAt(file, i, file[i])}
  BY DEF Garble, Cut, Repeat, Damage
<1>2. faults' \in 0..MaxFaults /\ faults' # 0
  BY <1>1, AuditAssumption, SMT DEF IInv, TypeOK
<1>3. file \in Seq(S)
  <2>1. file \in Seq(Records \union {Garbled})
    BY DEF IInv, TypeOK
  <2>2. Len(file) \in Nat /\ DOMAIN file = 1..Len(file) /\ file = [j \in 1..Len(file) |-> file[j]]
    BY <2>1, LenProperties
  <2> QED
    BY <2>2, IsASeq
<1> HIDE DEF S
<1>4. file' \in Seq(S)
  <2>1. ReplaceAt(file, i, Garbled) \in Seq(S)
    <3>1. Garbled \in S
      BY DEF S
    <3> QED
      BY <1>3, <3>1, ExceptSeq DEF ReplaceAt
  <2> QED
    BY <1>1, <1>3, <2>1, DamagedLines
<1>5. S \subseteq Records \union {Garbled}
  BY ElementOfSeq, LenProperties DEF S, IInv, TypeOK
<1>6. Seq(S) \subseteq Seq(Records \union {Garbled})
  BY <1>5, SMT
<1>7. TypeOK'
  BY <1>1, <1>2, <1>4, <1>6 DEF IInv, TypeOK
<1>8. \A j \in DOMAIN file' : file'[j] \in S
  BY <1>4, LenProperties, ElementOfSeq
<1>9. FromRuns'
  BY <1>1, <1>2, <1>8 DEF IInv, FromRuns, Undamaged, Lines, S
<1> QED
  BY <1>1, <1>7, <1>9 DEF IInv, Linked, Cursor

LEMMA StepIInv == IInv /\ [Next]_vars => IInv'
<1> SUFFICES ASSUME IInv, [Next]_vars PROVE IInv'
  OBVIOUS
<1>1. CASE UNCHANGED vars
  <2>1. TypeOK' /\ Cursor'
    BY <1>1 DEF vars, IInv, TypeOK, Cursor
  <2>2. Linked'
    BY <1>1 DEF vars, IInv, Linked
  <2>3. FromRuns'
    BY <1>1 DEF vars, IInv, FromRuns, Lines, Undamaged
  <2> QED
    BY <2>1, <2>2, <2>3 DEF IInv
<1> QED
  BY <1>1, StartRunKeeps, EndRunKeeps, TickKeeps, DamageKeeps DEF Next

\* The invariant, for any number of records, runs and damaged lines.
THEOREM Invariance == Spec => []IInv
  BY InitIInv, StepIInv, PTL DEF Spec

(***************************************************************************)
(* Records, lines and manifests keep their types: no clock, however it is  *)
(* set, gives a record a status that is none (controller.py:496-529).      *)
(***************************************************************************)
THEOREM TypeCorrect == Spec => []TypeOK
  BY Invariance, PTL DEF IInv

-----------------------------------------------------------------------------
(***************************************************************************)
(* In a finite set, the number of elements before one tells its place.     *)
(***************************************************************************)
StrictOrder(S, R) ==
    /\ \A s \in S : <<s, s>> \notin R
    /\ \A s, t \in S : s # t => <<s, t>> \in R \/ <<t, s>> \in R
    /\ \A s, t, u \in S : <<s, t>> \in R /\ <<t, u>> \in R => <<s, u>> \in R

Under(S, R, s) == {t \in S : <<t, s>> \in R}

LEMMA UnderCounts ==
    ASSUME NEW S, IsFiniteSet(S), NEW R, StrictOrder(S, R), NEW s \in S
    PROVE  /\ IsFiniteSet(Under(S, R, s))
           /\ Cardinality(Under(S, R, s)) \in 0..(Cardinality(S) - 1)
<1>1. Cardinality(S) \in Nat
  BY FS_CardinalityType
<1>2. Under(S, R, s) \in SUBSET (S \ {s})
  BY DEF Under, StrictOrder
<1>3. IsFiniteSet(S \ {s}) /\ Cardinality(S \ {s}) = Cardinality(S) - 1
  BY FS_RemoveElement
<1>4. IsFiniteSet(Under(S, R, s)) /\ Cardinality(Under(S, R, s)) <= Cardinality(S \ {s})
  BY <1>2, <1>3, FS_Subset
<1>5. Cardinality(Under(S, R, s)) \in Nat
  BY <1>4, FS_CardinalityType
<1> QED
  BY <1>1, <1>3, <1>4, <1>5, SMT

LEMMA UnderGrows ==
    ASSUME NEW S, IsFiniteSet(S), NEW R, StrictOrder(S, R), NEW s \in S, NEW t \in S,
           <<s, t>> \in R
    PROVE  Cardinality(Under(S, R, s)) < Cardinality(Under(S, R, t))
<1>1. /\ Under(S, R, s) \union {s} \in SUBSET Under(S, R, t)
      /\ s \notin Under(S, R, s)
  BY DEF Under, StrictOrder
<1>2. /\ IsFiniteSet(Under(S, R, s)) /\ IsFiniteSet(Under(S, R, t))
      /\ Cardinality(Under(S, R, s)) \in Nat /\ Cardinality(Under(S, R, t)) \in Nat
  BY UnderCounts, FS_CardinalityType
<1>3. Cardinality(Under(S, R, s) \union {s}) = Cardinality(Under(S, R, s)) + 1
  BY <1>1, <1>2, FS_AddElement
<1>4. Cardinality(Under(S, R, s) \union {s}) <= Cardinality(Under(S, R, t))
  BY <1>1, <1>2, FS_Subset
<1> QED
  BY <1>2, <1>3, <1>4, SMT

LEMMA UnderTaken ==
    ASSUME NEW S, IsFiniteSet(S), NEW R, StrictOrder(S, R), NEW i \in 1..Cardinality(S)
    PROVE  \E s \in S : Cardinality(Under(S, R, s)) = i - 1
<1> DEFINE n == Cardinality(S)
           count == [s \in S |-> Cardinality(Under(S, R, s))]
<1>1. n \in Nat
  BY FS_CardinalityType
<1>2. count \in [S -> 0..(n - 1)]
  BY UnderCounts
<1>3. \A s, t \in S : s # t => count[s] # count[t]
  <2> SUFFICES ASSUME NEW s \in S, NEW t \in S, s # t PROVE count[s] # count[t]
    OBVIOUS
  <2>1. <<s, t>> \in R \/ <<t, s>> \in R
    BY DEF StrictOrder
  <2>2. count[s] \in Int /\ count[t] \in Int
    BY <1>1, <1>2, SMT
  <2>3. count[s] < count[t] \/ count[t] < count[s]
    BY <2>1, UnderGrows
  <2> QED
    BY <2>2, <2>3, SMT
<1>4. IsFiniteSet(0..(n - 1)) /\ Cardinality(0..(n - 1)) = n
  <2>1. 0 \in Int /\ n - 1 \in Int
    BY <1>1, SMT
  <2>2. /\ IsFiniteSet(0..(n - 1))
        /\ Cardinality(0..(n - 1)) = IF 0 > n - 1 THEN 0 ELSE (n - 1) - 0 + 1
    BY <2>1, FS_Interval
  <2> QED
    BY <1>1, <2>2, SMT
<1> HIDE DEF count, n
<1>5. count \in Injection(S, 0..(n - 1))
  BY <1>2, <1>3 DEF Injection, IsInjective
<1>6. count \in Surjection(S, 0..(n - 1))
  <2>1. Cardinality(S) = Cardinality(0..(n - 1))
    BY <1>4 DEF n
  <2> QED
    BY <1>4, <1>5, <2>1, FS_Injection
<1>7. i - 1 \in 0..(n - 1)
  BY <1>1, SMT DEF n
<1>8. PICK s \in S : count[s] = i - 1
  BY <1>6, <1>7 DEF Surjection
<1> QED
  BY <1>8 DEF count

-----------------------------------------------------------------------------
(***************************************************************************)
(* What sort_by_time makes of a session.                                   *)
(***************************************************************************)
Earlier(j, i) == file[j].at < file[i].at \/ (file[j].at = file[i].at /\ j < i)

\* A line that parses is a record some run wrote.
LEMMA LineWritten ==
    ASSUME IInv, NEW i \in Lines
    PROVE  /\ i \in Nat \ {0} /\ file[i] \in Records
           /\ file[i].id \in DOMAIN written /\ file[i] = written[file[i].id]
<1>1. PICK k \in DOMAIN written : file[i] = written[k]
  BY DEF IInv, FromRuns
<1>2. i \in Nat \ {0}
  BY LenProperties DEF Lines, IInv, TypeOK
<1> QED
  BY <1>1, <1>2, WrittenTyped

\* Earlier orders the lines of a session.
LEMMA EarlierOrders ==
    ASSUME IInv, NEW r
    PROVE  /\ IsFiniteSet(Of(r))
           /\ \A i, j \in Of(r) : i # j => Earlier(i, j) \/ Earlier(j, i)
           /\ StrictOrder(Of(r), {p \in Of(r) \X Of(r) : Earlier(p[1], p[2])})
           /\ \A i \in Of(r) :
                 Before(r, i) = Under(Of(r), {p \in Of(r) \X Of(r) : Earlier(p[1], p[2])}, i)
<1> DEFINE R == {p \in Of(r) \X Of(r) : Earlier(p[1], p[2])}
<1>1. \A i \in Of(r) : i \in Nat /\ file[i].at \in Int
  BY LineWritten DEF Of, Records
<1>2. IsFiniteSet(Of(r))
  <2>1. DOMAIN file = 1..Len(file) /\ Len(file) \in Nat
    BY LenProperties DEF IInv, TypeOK
  <2>2. IsFiniteSet(1..Len(file))
    BY <2>1, FS_Interval
  <2>3. Of(r) \in SUBSET (1..Len(file))
    BY <2>1 DEF Of, Lines
  <2> QED
    BY <2>2, <2>3, FS_Subset
<1>3. \A i, j \in Of(r) : <<i, j>> \in R <=> Earlier(i, j)
  OBVIOUS
<1> HIDE DEF R
<1>4. \A i \in Of(r) : ~Earlier(i, i)
  BY <1>1, SMT DEF Earlier
<1>5. \A i, j \in Of(r) : i # j => Earlier(i, j) \/ Earlier(j, i)
  BY <1>1, SMT DEF Earlier
<1>6. \A i, j, k \in Of(r) : Earlier(i, j) /\ Earlier(j, k) => Earlier(i, k)
  BY <1>1, SMT DEF Earlier
<1>7. StrictOrder(Of(r), R)
  BY <1>3, <1>4, <1>5, <1>6 DEF StrictOrder
<1>8. \A i \in Of(r) : Before(r, i) = Under(Of(r), R, i)
  BY <1>3 DEF Before, Under, Earlier
<1> QED
  BY <1>2, <1>5, <1>7, <1>8 DEF R

\* Each line of a session has its place, by time, and neighbours have none between.
LEMMA Places ==
    ASSUME IInv, NEW r
    PROVE  LET n == Cardinality(Of(r))
           IN  /\ n \in Nat /\ IsFiniteSet(Of(r))
               /\ \A k \in 1..n : Place(r, k) \in Of(r)
               /\ \A i \in Of(r) : \E k \in 1..n : Place(r, k) = i
               /\ \A k, m \in 1..n : k < m => Earlier(Place(r, k), Place(r, m))
               /\ \A k \in 2..n, j \in Of(r) :
                     ~(Earlier(Place(r, k - 1), j) /\ Earlier(j, Place(r, k)))
<1> DEFINE n == Cardinality(Of(r))
           R == {p \in Of(r) \X Of(r) : Earlier(p[1], p[2])}
           count(i) == Cardinality(Before(r, i))
<1>1. /\ IsFiniteSet(Of(r)) /\ n \in Nat
      /\ StrictOrder(Of(r), R)
      /\ \A i, j \in Of(r) : i # j => Earlier(i, j) \/ Earlier(j, i)
      /\ \A i \in Of(r) : Before(r, i) = Under(Of(r), R, i)
  BY EarlierOrders, FS_CardinalityType
<1>2. \A i \in Of(r) : count(i) \in 0..(n - 1)
  BY <1>1, UnderCounts
<1>3. ASSUME NEW i \in Of(r), NEW j \in Of(r), Earlier(i, j) PROVE count(i) < count(j)
  <2>1. <<i, j>> \in R
    BY <1>3
  <2> QED
    BY <1>1, <2>1, UnderGrows
<1>4. ASSUME NEW k \in 1..n PROVE Place(r, k) \in Of(r) /\ count(Place(r, k)) = k - 1
  <2>1. \E i \in Of(r) : count(i) = k - 1
    BY <1>1, UnderTaken
  <2> QED
    BY <2>1 DEF Place
<1> HIDE DEF n, R, count
<1>5. \A i, j \in Of(r) : count(i) = count(j) => i = j
  <2> SUFFICES ASSUME NEW i \in Of(r), NEW j \in Of(r), count(i) = count(j), i # j PROVE FALSE
    OBVIOUS
  <2>1. count(i) < count(j) \/ count(j) < count(i)
    BY <1>1, <1>3
  <2>2. count(i) \in Int /\ count(j) \in Int
    BY <1>1, <1>2
  <2> QED
    BY <2>1, <2>2, SMT
<1>6. ASSUME NEW i \in Of(r) PROVE \E k \in 1..n : Place(r, k) = i
  <2>1. PICK c \in 0..(n - 1) : c = count(i)
    BY <1>2
  <2>2. c + 1 \in 1..n /\ (c + 1) - 1 = c
    BY <1>1, SMT
  <2>3. Place(r, c + 1) \in Of(r) /\ count(Place(r, c + 1)) = count(i)
    BY <1>4, <2>1, <2>2
  <2> QED
    BY <1>5, <2>2, <2>3
<1>7. ASSUME NEW k \in 1..n, NEW m \in 1..n, k < m
      PROVE  Earlier(Place(r, k), Place(r, m))
  <2>1. /\ Place(r, k) \in Of(r) /\ count(Place(r, k)) = k - 1
        /\ Place(r, m) \in Of(r) /\ count(Place(r, m)) = m - 1
    BY <1>4
  <2>2. ~(m - 1 < k - 1) /\ k - 1 # m - 1
    BY <1>1, <1>7, SMT
  <2> QED
    BY <1>1, <1>3, <2>1, <2>2
<1>8. ASSUME NEW k \in 2..n, NEW j \in Of(r),
             Earlier(Place(r, k - 1), j), Earlier(j, Place(r, k))
      PROVE  FALSE
  <2>1. k \in 1..n /\ k - 1 \in 1..n
    BY <1>1, SMT
  <2>2. (k - 1) - 1 < count(j) /\ count(j) < k - 1
    BY <1>3, <1>4, <1>8, <2>1
  <2>3. PICK c \in Int : c = count(j)
    BY <1>1, <1>2
  <2>4. (k - 1) - 1 < c /\ c < k - 1 /\ k \in Int
    BY <2>1, <2>2, <2>3
  <2> QED
    BY <2>4, SMT
<1> QED
  BY <1>1, <1>4, <1>6, <1>7, <1>8 DEF n

LEMMA OrderedIs ==
    ASSUME IInv, NEW r
    PROVE  LET n == Cardinality(Of(r))
           IN  /\ n \in Nat /\ Ordered(r) \in Seq(Records)
               /\ Len(Ordered(r)) = n /\ DOMAIN Ordered(r) = 1..n
               /\ \A k \in 1..n : /\ Ordered(r)[k] = file[Place(r, k)]
                                  /\ Place(r, k) \in Of(r)
                                  /\ Ordered(r)[k] \in Records
                                  /\ Ordered(r)[k].id \in DOMAIN written
                                  /\ Ordered(r)[k] = written[Ordered(r)[k].id]
                                  /\ Ordered(r)[k].run = r
<1> DEFINE n == Cardinality(Of(r))
<1>1. n \in Nat /\ \A k \in 1..n : Place(r, k) \in Of(r)
  BY Places
<1> HIDE DEF n
<1>2. Ordered(r) = [k \in 1..n |-> file[Place(r, k)]]
  BY DEF Ordered, n
<1>3. \A k \in 1..n : /\ file[Place(r, k)] \in Records
                      /\ file[Place(r, k)].id \in DOMAIN written
                      /\ file[Place(r, k)] = written[file[Place(r, k)].id]
                      /\ file[Place(r, k)].run = r
  BY <1>1, LineWritten DEF Of
<1>4. Ordered(r) \in Seq(Records)
  BY <1>1, <1>2, <1>3, IsASeq
<1>5. DOMAIN Ordered(r) = 1..n /\ \A k \in 1..n : Ordered(r)[k] = file[Place(r, k)]
  BY <1>2
<1>6. Len(Ordered(r)) = n
  BY <1>1, <1>2, SMT
<1> QED
  BY <1>1, <1>3, <1>4, <1>5, <1>6 DEF n

\* The first record of a run, and only it, is classified as one.
LEMMA FirstOfRun ==
    ASSUME IInv, NEW k \in DOMAIN written
    PROVE  written[k].status = "FIRST" <=> written[k].prev = 0
  BY DEF IInv, Linked, Classify

-----------------------------------------------------------------------------
(***************************************************************************)
(* A session without a broken link that starts with a first record holds,  *)
(* with each of its records, the one before it.                            *)
(***************************************************************************)
LEMMA IssueOfLine ==
    ASSUME IInv, NEW r
    PROVE  /\ Ordered(r)[1].status # "FIRST" =>
                 \E issue \in ContinuityIssues(r) : issue.what = "mid-run"
           /\ \A k \in 2..Cardinality(Of(r)) : Ordered(r)[k].prev # Ordered(r)[k - 1].id =>
                 \E issue \in ContinuityIssues(r) : issue.what = "broken" /\ issue.severity = "ERROR"
<1> DEFINE recs == Ordered(r)
<1>1. Len(recs) = Cardinality(Of(r))
  BY OrderedIs
<1> HIDE DEF recs
<1>2. ASSUME recs[1].status # "FIRST"
      PROVE  \E issue \in ContinuityIssues(r) : issue.what = "mid-run"
  <2>1. Warn("mid-run", recs[1].id) \in ContinuityIssues(r)
    BY <1>2 DEF ContinuityIssues, recs
  <2> QED
    BY <2>1 DEF Warn
<1>3. ASSUME NEW k \in 2..Len(recs), recs[k].prev # recs[k - 1].id
      PROVE  \E issue \in ContinuityIssues(r) : issue.what = "broken" /\ issue.severity = "ERROR"
  <2>1. Error("broken", recs[k].id) \in ContinuityIssues(r)
    BY <1>3 DEF ContinuityIssues, recs
  <2> QED
    BY <2>1 DEF Error
<1> QED
  BY <1>1, <1>2, <1>3 DEF recs

LEMMA PreviousPresent ==
    ASSUME IInv, NEW r, NEW k \in DOMAIN written, written[k].run = r,
           Present(written[k]), written[k].prev # 0,
           \A issue \in ContinuityIssues(r) : issue.what \notin {"broken", "mid-run"}
    PROVE  /\ k - 1 \in DOMAIN written /\ written[k - 1].run = r
           /\ Present(written[k - 1])
<1> DEFINE n == Cardinality(Of(r))
<1>1. PICK i \in Lines : file[i].id = k
  BY WrittenTyped DEF Present
<1>2. file[i] = written[k] /\ i \in Of(r)
  BY <1>1, LineWritten DEF Of
<1>3. PICK m \in 1..n : Place(r, m) = i
  BY <1>2, Places
<1>4. Ordered(r)[m] = written[k] /\ n \in Nat
  BY <1>2, <1>3, OrderedIs
<1>5. m # 1
  BY <1>4, FirstOfRun, IssueOfLine
<1>6. m \in 2..n /\ m - 1 \in 1..n
  BY <1>4, <1>5, SMT
<1>7. Ordered(r)[m - 1].id = written[k].prev
  BY <1>4, <1>6, IssueOfLine
<1>8. /\ Ordered(r)[m - 1] = file[Place(r, m - 1)] /\ Place(r, m - 1) \in Lines
      /\ Ordered(r)[m - 1].id \in DOMAIN written
  BY <1>6, OrderedIs DEF Of
<1>9. written[k].prev = k - 1 /\ written[k - 1].run = r
  BY DEF IInv, Linked
<1>10. file[Place(r, m - 1)].id = written[k - 1].id
  BY <1>7, <1>8, <1>9, WrittenTyped
<1> QED
  BY <1>7, <1>8, <1>9, <1>10 DEF Present

\* So if a later record of the run is there, a record before it is.
LEMMA EarlierPresent ==
    ASSUME IInv, NEW i \in DOMAIN written, NEW j \in DOMAIN written, i < j,
           written[i].run = written[j].run, Present(written[j]),
           \A issue \in ContinuityIssues(written[i].run) :
              issue.what \notin {"broken", "mid-run"}
    PROVE  Present(written[i])
<1> DEFINE T == {k \in DOMAIN written : i < k /\ written[k].run = written[i].run
                                          /\ Present(written[k])}
<1>1. Len(written) \in Nat /\ DOMAIN written = 1..Len(written)
  BY WrittenTyped
<1>2. PICK m \in T : \A k \in T : m <= k
  <2>1. T \subseteq Nat /\ T # {}
    BY <1>1
  <2> HIDE DEF T
  <2> QED
    BY <2>1, LeastNumber
<1>3. written[m].prev # 0
  <2>1. i \in 1..(m - 1)
    BY <1>1, SMT
  <2> QED
    BY <2>1 DEF IInv, Linked
<1>4. /\ m - 1 \in DOMAIN written /\ written[m - 1].run = written[i].run
      /\ Present(written[m - 1])
  BY <1>3, PreviousPresent
<1>5. m - 1 \notin T
  BY <1>1, <1>2, SMT
<1>6. m - 1 = i
  <2>1. ~(i < m - 1)
    BY <1>4, <1>5
  <2> QED
    BY <1>1, <2>1, SMT
<1> QED
  BY <1>4, <1>6

-----------------------------------------------------------------------------
(***************************************************************************)
(* A manifest with the right count tells what the links cannot: fewer      *)
(* different records than were written, or one of them twice.              *)
(***************************************************************************)
LEMMA DuplicateIssue ==
    ASSUME IInv, Ok, NEW i \in Lines, NEW j \in Lines, file[i].id = file[j].id
    PROVE  i = j
<1> SUFFICES ASSUME i # j PROVE FALSE
  OBVIOUS
<1>1. i \in Repeated(Lines, LAMBDA rec : rec.id)
  BY DEF Repeated
<1>2. Error("poll_id", file[i].id) \in Issues
  BY <1>1 DEF Issues, DuplicateIssues
<1> QED
  BY <1>2 DEF Ok, Error

LEMMA CountIssue ==
    ASSUME IInv, Ok, NEW r \in Sessions
    PROVE  /\ manifest[r].status # "none"
           /\ manifest[r].total \in {NoTotal, Cardinality(Of(r))}
<1>1. ASSUME NEW issue \in ManifestIssues(r) PROVE issue.severity # "ERROR"
  <2> DEFINE of(q) == ContinuityIssues(q) \union ManifestIssues(q)
  <2>1. issue \in of(r)
    BY <1>1
  <2> HIDE DEF of
  <2>2. issue \in UNION {of(q) : q \in Sessions}
    BY <2>1
  <2>3. issue \in Issues
    BY <2>2 DEF Issues, of
  <2> QED
    BY <2>3 DEF Ok
<1>2. Error("missing", r) \notin ManifestIssues(r) /\ Error("total", r) \notin ManifestIssues(r)
  BY <1>1 DEF Error
<1> QED
  BY <1>2 DEF ManifestIssues

LEMMA LossMiscounted ==
    ASSUME IInv, Ok, NEW i \in DOMAIN written, ~Present(written[i])
    PROVE  Cardinality(Of(written[i].run)) < TicksOf(written[i].run)
<1> DEFINE r == written[i].run
           T == {k \in DOMAIN written : written[k].run = r}
           id == [x \in Of(r) |-> file[x].id]
<1>1. IsFiniteSet(T) /\ TicksOf(r) = Cardinality(T) /\ TicksOf(r) \in Nat
  <2>1. IsFiniteSet(T) /\ TicksOf(r) \in 0..MaxTicks
    BY TicksOfNat
  <2> QED
    BY <2>1, FS_CardinalityType DEF TicksOf
<1>2. i \in T
  OBVIOUS
<1>3. IsFiniteSet(T \ {i}) /\ Cardinality(T \ {i}) = Cardinality(T) - 1
  BY <1>1, <1>2, FS_RemoveElement
<1>4. ASSUME NEW x \in Of(r) PROVE file[x].id \in T \ {i}
  <2>1. x \in Lines /\ file[x].run = r
    BY DEF Of
  <2>2. file[x].id \in DOMAIN written /\ file[x] = written[file[x].id]
    BY <2>1, LineWritten
  <2>3. file[x].id # i
    BY <2>1, WrittenTyped DEF Present
  <2> QED
    BY <2>1, <2>2, <2>3
<1>5. \A x, y \in Of(r) : file[x].id = file[y].id => x = y
  BY DuplicateIssue DEF Of
<1> HIDE DEF T, r
<1>6. id \in Injection(Of(r), T \ {i})
  BY <1>4, <1>5 DEF Injection, IsInjective
<1> HIDE DEF id
<1>7. IsFiniteSet(Of(r)) /\ Cardinality(Of(r)) <= Cardinality(T \ {i})
  BY <1>3, <1>6, FS_Injection
<1>8. Cardinality(Of(r)) \in Nat
  BY <1>7, FS_CardinalityType
<1>9. Cardinality(Of(r)) < TicksOf(r)
  BY <1>1, <1>3, <1>7, <1>8, SMT
<1> QED
  BY <1>9 DEF r

(***************************************************************************)
(* No record of a run disappears behind a later one unnoticed, however     *)
(* many lines of the day are garbled, cut out or repeated, in whatever     *)
(* order the clock puts the others; and if the manifest has the right      *)
(* count, no record of a run that left any in the file does                *)
(* (validate_day.py:109-184, 202-238).                                     *)
(***************************************************************************)
THEOREM LossesReported == Spec => []LossReported
<1>1. IInv => LossReported
  <2> SUFFICES ASSUME IInv, NEW i \in DOMAIN written, NEW j \in DOMAIN written,
                      written[i].run = written[j].run,
                      ~Present(written[i]), Present(written[j])
               PROVE  LET r == written[i].run
                      IN  /\ i < j => \E issue \in ContinuityIssues(r) :
                                         issue.what \in {"broken", "mid-run"}
                          /\ Counted(r) => ~Ok
    BY DEF LossReported
  <2> DEFINE r == written[i].run
  <2>1. ASSUME i < j PROVE \E issue \in ContinuityIssues(r) : issue.what \in {"broken", "mid-run"}
    BY <2>1, EarlierPresent
  <2>2. ASSUME Counted(r), Ok PROVE FALSE
    <3>1. PICK x \in Lines : file[x].id = written[j].id
      BY DEF Present
    <3>2. r \in Sessions
      BY <3>1, LineWritten, WrittenTyped DEF Sessions
    <3>3. manifest[r].total = TicksOf(r) /\ TicksOf(r) \in 0..MaxTicks
      BY <2>2, TicksOfNat DEF Counted
    <3>4. NoTotal \notin 0..MaxTicks
      BY SMT DEF NoTotal
    <3>5. TicksOf(r) = Cardinality(Of(r))
      BY <2>2, <3>2, <3>3, <3>4, CountIssue
    <3>6. Cardinality(Of(r)) < TicksOf(r)
      BY <2>2, LossMiscounted
    <3>7. \A c \in 0..MaxTicks : ~(c < c)
      BY AuditAssumption, SMT
    <3> QED
      BY <3>3, <3>5, <3>6, <3>7
  <2> QED
    BY <2>1, <2>2
<1> QED
  BY <1>1, Invariance, PTL

-----------------------------------------------------------------------------
(***************************************************************************)
(* An undamaged file.  By the time of a clock that was never set back the  *)
(* records of a run are in the order they were written.                    *)
(***************************************************************************)
LEMMA LinesWritten ==
    ASSUME IInv, Undamaged
    PROVE  /\ file = written /\ Lines = DOMAIN written
           /\ \A r : Of(r) = {i \in DOMAIN written : written[i].run = r}
           /\ \A i \in DOMAIN written : /\ i \in Nat \ {0} /\ written[i].id = i
                                        /\ written[i].at \in Int /\ written[i].actual \in Int
<1>1. file = written
  BY DEF IInv, FromRuns
<1>2. Lines = DOMAIN written
  BY <1>1, WrittenTyped DEF Lines
<1>3. \A i \in DOMAIN written : /\ i \in Nat \ {0} /\ written[i].id = i
                                /\ written[i].at \in Int /\ written[i].actual \in Int
  <2>1. \A i \in 1..MaxTicks : i \in Nat \ {0}
    BY AuditAssumption, SMT
  <2> QED
    BY <2>1, WrittenTyped DEF Records
<1> QED
  BY <1>1, <1>2, <1>3 DEF Of

\* A record that is not the first of its run follows the one it names.
LEMMA NamesThePrevious ==
    ASSUME IInv, Undamaged, NEW r, NEW i \in Of(r), written[i].prev # 0
    PROVE  /\ i - 1 \in Of(r) /\ written[i].prev = i - 1
           /\ written[i].at = written[i - 1].at + written[i].actual
<1>1. i \in DOMAIN written /\ written[i].run = r
  BY LinesWritten
<1>2. /\ written[i].prev = i - 1 /\ written[i - 1].run = r
      /\ written[i].at = written[i - 1].at + written[i].actual
  BY <1>1 DEF IInv, Linked
<1>3. i - 1 \in DOMAIN written
  <2>1. DOMAIN written = 1..Len(written) /\ Len(written) \in Nat
    BY WrittenTyped
  <2>2. i - 1 # 0
    BY <1>2
  <2> QED
    BY <1>1, <2>1, <2>2, SMT
<1> QED
  BY <1>2, <1>3, LinesWritten

LEMMA ByPosition ==
    ASSUME IInv, Undamaged, Monotone, NEW r, NEW i \in Of(r), NEW j \in Of(r)
    PROVE  Earlier(i, j) <=> i < j
<1>1. /\ file = written
      /\ i \in DOMAIN written /\ written[i].run = r /\ i \in Nat /\ written[i].at \in Int
      /\ j \in DOMAIN written /\ written[j].run = r /\ j \in Nat /\ written[j].at \in Int
  BY LinesWritten
<1>2. /\ i < j => written[i].at <= written[j].at
      /\ j < i => written[j].at <= written[i].at
  BY <1>1 DEF Monotone
<1>3. Earlier(i, j) <=> written[i].at < written[j].at \/ (written[i].at = written[j].at /\ i < j)
  BY <1>1 DEF Earlier
<1> PICK m \in Nat, n \in Nat, x \in Int, y \in Int :
       m = i /\ n = j /\ x = written[i].at /\ y = written[j].at
  BY <1>1
<1>4. (m < n => x <= y) /\ (n < m => y <= x)
  BY <1>2
<1>5. (m = n => x = y)
  OBVIOUS
<1>6. (x < y \/ (x = y /\ m < n)) <=> m < n
  BY <1>4, <1>5, SMT
<1> QED
  BY <1>3, <1>6

\* The first of a session is the first of its run; each other names its neighbour.
LEMMA Neighbours ==
    ASSUME IInv, Undamaged, Monotone, NEW r
    PROVE  /\ Of(r) # {} => Ordered(r)[1].prev = 0
           /\ \A k \in 2..Cardinality(Of(r)) :
                 /\ Ordered(r)[k].prev # 0
                 /\ Ordered(r)[k].prev = Ordered(r)[k - 1].id
                 /\ Ordered(r)[k].at = Ordered(r)[k - 1].at + Ordered(r)[k].actual
<1> DEFINE n == Cardinality(Of(r))
<1>1. /\ n \in Nat
      /\ \A k \in 1..n : Place(r, k) \in Of(r) /\ Place(r, k) \in Nat
                         /\ Ordered(r)[k] = written[Place(r, k)]
  BY Places, OrderedIs, LinesWritten
<1>2. \A k, m \in 1..n : k < m => Place(r, k) < Place(r, m)
  BY <1>1, Places, ByPosition
<1>3. \A k \in 2..n, j \in Of(r) : ~(Place(r, k - 1) < j /\ j < Place(r, k))
  <2>1. \A k \in 2..n : k \in 1..n /\ k - 1 \in 1..n
    BY <1>1, SMT
  <2> QED
    BY <1>1, <2>1, Places, ByPosition
<1>4. \A i \in Of(r) : \E k \in 1..n : Place(r, k) = i
  BY Places
<1> HIDE DEF n
<1>5. ASSUME Of(r) # {} PROVE Ordered(r)[1].prev = 0
  <2>1. 1 \in 1..n
    BY <1>1, <1>4, <1>5, SMT
  <2>2. PICK i \in Of(r) : i = Place(r, 1) /\ i \in Nat /\ Ordered(r)[1] = written[i]
    BY <1>1, <2>1
  <2>3. ASSUME written[i].prev # 0 PROVE FALSE
    <3>1. i - 1 \in Of(r)
      BY <2>3, NamesThePrevious
    <3>2. PICK k \in 1..n : Place(r, k) = i - 1
      BY <1>4, <3>1
    <3>3. k # 1
      BY <2>2, <3>2
    <3>4. 1 < k
      BY <1>1, <3>3, SMT
    <3>5. i < i - 1
      BY <1>2, <2>1, <2>2, <3>2, <3>4
    <3> QED
      BY <2>2, <3>5, SMT
  <2> QED
    BY <2>2, <2>3
<1>6. ASSUME NEW k \in 2..n
      PROVE  /\ Ordered(r)[k].prev # 0
             /\ Ordered(r)[k].prev = Ordered(r)[k - 1].id
             /\ Ordered(r)[k].at = Ordered(r)[k - 1].at + Ordered(r)[k].actual
  <2>1. k \in 1..n /\ k - 1 \in 1..n /\ k - 1 < k
    BY <1>1, SMT
  <2>2. PICK a \in Of(r), b \in Of(r) :
           /\ a = Place(r, k - 1) /\ b = Place(r, k) /\ a \in Nat /\ b \in Nat /\ a < b
           /\ Ordered(r)[k - 1] = written[a] /\ Ordered(r)[k] = written[b]
    BY <1>1, <1>2, <2>1
  <2>3. a \in DOMAIN written /\ b \in DOMAIN written /\ written[a].run = written[b].run
        /\ a \in Nat \ {0}
    BY LinesWritten
  <2>4. a \in 1..(b - 1)
    BY <2>2, <2>3, SMT
  <2>5. written[b].prev # 0
    BY <2>3, <2>4 DEF IInv, Linked
  <2>6. /\ b - 1 \in Of(r) /\ written[b].prev = b - 1
        /\ written[b].at = written[b - 1].at + written[b].actual
    BY <2>5, NamesThePrevious
  <2>7. ~(a < b - 1 /\ b - 1 < b)
    BY <1>3, <2>2, <2>6
  <2>8. a = b - 1
    BY <2>2, <2>7, SMT
  <2> QED
    BY <2>2, <2>3, <2>5, <2>6, <2>8, LinesWritten
<1> QED
  BY <1>5, <1>6 DEF n

-----------------------------------------------------------------------------
(***************************************************************************)
(* Conversely, unbroken links mean that no clock was set back.             *)
(***************************************************************************)
LEMMA LinkIssue ==
    ASSUME IInv, Ok, NEW r \in Sessions, NEW k \in 2..Cardinality(Of(r))
    PROVE  Ordered(r)[k].prev = Ordered(r)[k - 1].id
<1> SUFFICES ASSUME Ordered(r)[k].prev # Ordered(r)[k - 1].id PROVE FALSE
  OBVIOUS
<1>1. PICK issue \in ContinuityIssues(r) : issue.severity = "ERROR"
  BY IssueOfLine
<1>2. issue \in Issues
  <2> DEFINE of(q) == ContinuityIssues(q) \union ManifestIssues(q)
  <2>1. issue \in of(r)
    OBVIOUS
  <2> HIDE DEF of
  <2>2. issue \in UNION {of(q) : q \in Sessions}
    BY <2>1
  <2> QED
    BY <2>2 DEF Issues, of
<1> QED
  BY <1>1, <1>2 DEF Ok

LEMMA NeverBack ==
    ASSUME IInv, Undamaged, Ok, NEW i \in DOMAIN written, written[i].prev # 0
    PROVE  written[i - 1].at <= written[i].at
<1> DEFINE r == written[i].run
           n == Cardinality(Of(r))
<1>1. i \in Of(r) /\ i - 1 \in Of(r) /\ written[i].prev = i - 1 /\ r \in Sessions
  <2>1. i \in Of(r)
    BY LinesWritten
  <2> QED
    BY <2>1, NamesThePrevious DEF Of, Sessions
<1>2. /\ n \in Nat
      /\ \A k \in 1..n : /\ Place(r, k) \in Of(r)
                         /\ Ordered(r)[k] = written[Place(r, k)]
                         /\ Ordered(r)[k].id = Place(r, k)
                         /\ Place(r, k) # 0
      /\ \A j \in Of(r) : \E k \in 1..n : Place(r, k) = j
      /\ \A k, m \in 1..n : k < m => Earlier(Place(r, k), Place(r, m))
  BY Places, OrderedIs, LinesWritten
<1>3. \A k \in 2..n : Ordered(r)[k].prev = Ordered(r)[k - 1].id
  BY <1>1, LinkIssue
<1>4. \A k \in 1..n : k = 1 \/ (k \in 2..n /\ k - 1 \in 1..n /\ k - 1 < k)
  BY <1>2, SMT
<1> HIDE DEF n
<1>5. PICK f \in Of(r) : \A j \in Of(r) : f <= j
  <2>1. Of(r) \subseteq Nat /\ Of(r) # {}
    BY <1>1, LinesWritten
  <2> QED
    BY <2>1, LeastNumber
<1>6. written[f].prev = 0
  <2> SUFFICES ASSUME written[f].prev # 0 PROVE FALSE
    OBVIOUS
  <2>1. f - 1 \in Of(r) /\ f \in Nat
    BY NamesThePrevious, LinesWritten
  <2>2. f <= f - 1
    BY <1>5, <2>1
  <2> QED
    BY <2>1, <2>2, SMT
<1>7. Place(r, 1) = f
  <2>1. PICK k \in 1..n : Place(r, k) = f
    BY <1>2
  <2>2. ASSUME k # 1 PROVE FALSE
    <3>1. k \in 2..n /\ k - 1 \in 1..n
      BY <1>4, <2>2
    <3>2. Ordered(r)[k].prev = Ordered(r)[k - 1].id
      BY <1>3, <3>1
    <3> QED
      BY <1>2, <1>6, <2>1, <3>1, <3>2
  <2> QED
    BY <2>1, <2>2
<1>8. PICK k \in 1..n : Place(r, k) = i
  BY <1>1, <1>2
<1>9. k \in 2..n /\ k - 1 \in 1..n /\ k - 1 < k
  BY <1>4, <1>6, <1>7, <1>8
<1>10. Place(r, k - 1) = i - 1
  BY <1>1, <1>2, <1>3, <1>8, <1>9
<1>11. Earlier(i - 1, i)
  BY <1>2, <1>8, <1>9, <1>10
<1>12. /\ file = written /\ i \in DOMAIN written /\ i - 1 \in DOMAIN written
       /\ written[i].at \in Int /\ written[i - 1].at \in Int
  BY <1>1, LinesWritten
<1>13. written[i - 1].at < written[i].at \/ written[i - 1].at = written[i].at
  BY <1>11, <1>12 DEF Earlier
<1> QED
  BY <1>12, <1>13, SMT

LEMMA UnbrokenMonotone ==
    ASSUME IInv, Undamaged, Ok
    PROVE  Monotone
<1> SUFFICES ASSUME NEW i \in DOMAIN written, NEW j \in DOMAIN written, i < j,
                    written[i].run = written[j].run, ~(written[i].at <= written[j].at)
             PROVE  FALSE
  BY DEF Monotone
<1> DEFINE T == {k \in DOMAIN written : /\ i < k /\ written[k].run = written[i].run
                                        /\ ~(written[i].at <= written[k].at)}
<1>1. PICK m \in T : \A k \in T : m <= k
  <2>1. T \subseteq Nat /\ T # {}
    BY LinesWritten
  <2> HIDE DEF T
  <2> QED
    BY <2>1, LeastNumber
<1>2. i \in Nat \ {0} /\ m \in Nat \ {0} /\ i < m /\ m \in DOMAIN written
  BY LinesWritten
<1>3. written[m].prev # 0
  <2>1. i \in 1..(m - 1)
    BY <1>2, SMT
  <2> QED
    BY <2>1 DEF IInv, Linked
<1>4. /\ m - 1 \in DOMAIN written /\ written[m - 1].run = written[i].run
      /\ written[m - 1].at <= written[m].at
  <2>1. m \in Of(written[i].run)
    BY LinesWritten
  <2>2. m - 1 \in Of(written[i].run)
    BY <1>3, <2>1, NamesThePrevious
  <2> QED
    BY <1>3, <2>2, NeverBack, LinesWritten
<1>5. m - 1 \notin T
  <2>1. ~(m <= m - 1)
    BY <1>2, SMT
  <2> QED
    BY <1>1, <2>1
<1>6. m - 1 = i \/ i < m - 1
  BY <1>2, SMT
<1>7. m - 1 = i \/ written[i].at <= written[m - 1].at
  BY <1>4, <1>5, <1>6
<1>8. PICK x \in Int, y \in Int, z \in Int :
         x = written[i].at /\ y = written[m - 1].at /\ z = written[m].at
  BY <1>2, <1>4, LinesWritten
<1>9. x <= y /\ y <= z /\ ~(x <= z)
  <2>1. x = y \/ x <= y
    BY <1>7, <1>8
  <2>2. x <= y
    BY <2>1, SMT
  <2> QED
    BY <1>4, <1>8, <2>2
<1> QED
  BY <1>9, SMT

-----------------------------------------------------------------------------
LEMMA NoErrors ==
    ASSUME IInv, Undamaged, Monotone,
           \A r \in Sessions : /\ manifest[r].status # "none"
                               /\ Counted(r) \/ manifest[r].total = NoTotal
    PROVE  Ok
<1>1. \A issue \in IntegrityIssues : FALSE
  BY LinesWritten DEF IntegrityIssues
<1>2. ASSUME NEW issue \in DuplicateIssues PROVE issue.severity # "ERROR"
  <2>1. \A i, j \in Lines : file[i].id = file[j].id => i = j
    BY LinesWritten
  <2>2. Repeated(Lines, LAMBDA rec : rec.id) = {}
    BY <2>1 DEF Repeated
  <2>3. \E r \in Sessions, i \in DOMAIN file : issue = Warn("timestamp", file[i].at)
    BY <2>2 DEF DuplicateIssues, Repeated, Of, Lines
  <2> QED
    BY <2>3 DEF Warn
<1>3. ASSUME NEW r \in Sessions, NEW issue \in ContinuityIssues(r)
      PROVE  issue.severity # "ERROR"
  <2>1. Len(Ordered(r)) = Cardinality(Of(r))
    BY OrderedIs
  <2>2. \A k \in 2..Len(Ordered(r)) : Ordered(r)[k].prev = Ordered(r)[k - 1].id
    BY <2>1, Neighbours
  <2>3. \/ issue = Warn("mid-run", Ordered(r)[1].id)
        \/ \E k \in 2..Len(Ordered(r)) : \/ issue = Warn("gap", Ordered(r)[k].id)
                                         \/ issue = Warn("interval", Ordered(r)[k].id)
    BY <2>2 DEF ContinuityIssues
  <2> QED
    BY <2>3 DEF Warn
<1>4. ASSUME NEW r \in Sessions, NEW issue \in ManifestIssues(r)
      PROVE  issue.severity # "ERROR"
  <2>1. Cardinality(Of(r)) = TicksOf(r)
    BY LinesWritten DEF TicksOf
  <2>2. manifest[r].total \in {NoTotal, Cardinality(Of(r))}
    BY <2>1 DEF Counted
  <2>3. issue = Warn("running", r)
    <3>1. manifest[r].status # "none"
      OBVIOUS
    <3> QED
      BY <2>2, <3>1 DEF ManifestIssues
  <2> QED
    BY <2>3 DEF Warn
<1>5. ASSUME NEW issue \in Issues PROVE issue.severity # "ERROR"
  <2>1. \/ issue \in IntegrityIssues \/ issue \in DuplicateIssues
        \/ \E r \in Sessions : issue \in ContinuityIssues(r) \/ issue \in ManifestIssues(r)
        \/ issue = Warn("missing", EstimateMissing)
    <3> DEFINE of(q) == ContinuityIssues(q) \union ManifestIssues(q)
    <3>1. \A q : issue \in of(q) => issue \in ContinuityIssues(q) \/ issue \in ManifestIssues(q)
      OBVIOUS
    <3>2. Issues = (IntegrityIssues \union DuplicateIssues \union (UNION {of(q) : q \in Sessions}))
                      \union (IF EstimateMissing > 0 THEN {Warn("missing", EstimateMissing)} ELSE {})
      BY DEF Issues
    <3> HIDE DEF of
    <3>3. \/ issue \in IntegrityIssues \/ issue \in DuplicateIssues
          \/ \E q \in Sessions : issue \in of(q)
          \/ issue = Warn("missing", EstimateMissing)
      BY <3>2
    <3> QED
      BY <3>1, <3>3
  <2>2. Warn("missing", EstimateMissing).severity # "ERROR"
    BY DEF Warn
  <2> QED
    BY <1>1, <1>2, <1>3, <1>4, <2>1, <2>2
<1> QED
  BY <1>5 DEF Ok

(***************************************************************************)
(* An undamaged file passes exactly if no clock was set back during a run, *)
(* every run that has records has a manifest that can be read, and no      *)
(* manifest has a count that is not its run's, for any number of records   *)
(* and runs: equal times, gaps, restarts and kills never make an error     *)
(* (validate_day.py:109-184, 202-277).                                     *)
(***************************************************************************)
THEOREM UndamagedPasses == Spec => []PassesWhatRunsWrite
<1>1. IInv => PassesWhatRunsWrite
  <2> SUFFICES ASSUME IInv, Undamaged
               PROVE  Ok <=> /\ Monotone
                             /\ \A r \in Sessions : /\ manifest[r].status # "none"
                                                    /\ Counted(r) \/ manifest[r].total = NoTotal
    BY DEF PassesWhatRunsWrite
  <2>1. ASSUME Ok, NEW r \in Sessions
        PROVE  manifest[r].status # "none" /\ (Counted(r) \/ manifest[r].total = NoTotal)
    <3>1. Cardinality(Of(r)) = TicksOf(r)
      BY LinesWritten DEF TicksOf
    <3> QED
      BY <2>1, <3>1, CountIssue DEF Counted
  <2> QED
    BY <2>1, UnbrokenMonotone, NoErrors
<1> QED
  BY <1>1, Invariance, PTL

-----------------------------------------------------------------------------
(***************************************************************************)
(* A sum of natural numbers f[x] over a finite set is the size of a set    *)
(* with f[x] elements for each x: that set satisfies the recursion of the  *)
(* fold, and only one function does.                                       *)
(***************************************************************************)
Units(S, f) == {p \in S \X Nat : p[2] \in 1..f[p[1]]}

Adds(g, S, f) ==
    g = [s \in SUBSET S |-> IF s = {} THEN 0
                            ELSE f[CHOOSE x \in s : TRUE] + g[s \ {CHOOSE x \in s : TRUE}]]

LEMMA SumUnfold ==
    ASSUME NEW f
    PROVE  SumFunction(f) = (CHOOSE g : Adds(g, DOMAIN f, f))[DOMAIN f]
  BY DEF SumFunction, SumFunctionOnSet, FoldFunctionOnSet, MapThenFoldSet, Adds

LEMMA UnitsAdd ==
    ASSUME NEW S, NEW f \in [S -> Nat], NEW T \in SUBSET S, NEW x \in T,
           IsFiniteSet(Units(T \ {x}, f))
    PROVE  /\ IsFiniteSet(Units(T, f))
           /\ Cardinality(Units(T, f)) = f[x] + Cardinality(Units(T \ {x}, f))
<1> DEFINE column == {x} \X (1..f[x])
<1>1. Units(T, f) = Units(T \ {x}, f) \union column
  BY DEF Units
<1>2. Units(T \ {x}, f) \intersect column = {}
  BY DEF Units
<1>3. PICK n \in Nat : n = f[x]
  OBVIOUS
<1>4. IsFiniteSet(1..n) /\ Cardinality(1..n) = n
  <2>1. 1 \in Int /\ n \in Int
    OBVIOUS
  <2>2. IsFiniteSet(1..n) /\ Cardinality(1..n) = IF 1 > n THEN 0 ELSE n - 1 + 1
    BY <2>1, FS_Interval
  <2> QED
    BY <2>2, SMT
<1>5. IsFiniteSet(column) /\ Cardinality(column) = n
  <2>1. IsFiniteSet({x}) /\ Cardinality({x}) = 1
    BY FS_Singleton
  <2>2. /\ IsFiniteSet({x} \X (1..n))
        /\ Cardinality({x} \X (1..n)) = Cardinality({x}) * Cardinality(1..n)
    BY <1>4, <2>1, FS_Product
  <2>3. 1 * n = n
    BY SMT
  <2> QED
    BY <1>3, <1>4, <2>1, <2>2, <2>3
<1> HIDE DEF column
<1>6. /\ IsFiniteSet(Units(T, f))
      /\ Cardinality(Units(T, f)) = Cardinality(Units(T \ {x}, f)) + Cardinality(column)
                                      - Cardinality(Units(T \ {x}, f) \intersect column)
  BY <1>1, <1>5, FS_Union
<1>7. Cardinality({}) = 0 /\ Cardinality(Units(T \ {x}, f)) \in Nat
  BY FS_EmptySet, FS_CardinalityType
<1>8. PICK m \in Nat : m = Cardinality(Units(T \ {x}, f))
  BY <1>7
<1>9. Cardinality(Units(T, f)) = m + n - 0
  BY <1>2, <1>5, <1>6, <1>7, <1>8
<1>10. m + n - 0 = n + m
  BY SMT
<1> QED
  BY <1>3, <1>6, <1>8, <1>9, <1>10

\* The set is finite, and its size the only function that adds up.
LEMMA UnitsFinite ==
    ASSUME NEW S, IsFiniteSet(S), NEW f \in [S -> Nat], NEW T \in SUBSET S
    PROVE  IsFiniteSet(Units(T, f))
<1> DEFINE Bad == {U \in SUBSET S : ~IsFiniteSet(Units(U, f))}
           sizes == {Cardinality(U) : U \in Bad}
<1>1. \A U \in SUBSET S : IsFiniteSet(U) /\ Cardinality(U) \in Nat
  BY FS_Subset, FS_CardinalityType
<1> SUFFICES ASSUME T \in Bad PROVE FALSE
  OBVIOUS
<1>2. PICK U \in Bad : \A V \in Bad : Cardinality(U) <= Cardinality(V)
  <2>1. sizes \subseteq Nat /\ sizes # {}
    BY <1>1
  <2>2. PICK c \in sizes : \A d \in sizes : c <= d
    <3> HIDE DEF sizes
    <3> QED
      BY <2>1, LeastNumber
  <2> QED
    BY <2>2
<1>3. U # {}
  <2>1. Units({}, f) = {}
    BY DEF Units
  <2> QED
    BY <2>1, FS_EmptySet
<1>4. PICK x \in U : TRUE
  BY <1>3
<1>5. Cardinality(U \ {x}) = Cardinality(U) - 1 /\ Cardinality(U) \in Nat
  BY <1>1, FS_RemoveElement
<1>6. ~(Cardinality(U) <= Cardinality(U \ {x}))
  BY <1>5, SMT
<1>7. U \ {x} \in SUBSET S /\ U \ {x} \notin Bad
  BY <1>2, <1>6
<1> QED
  BY <1>7, UnitsAdd

LEMMA AddsUnique ==
    ASSUME NEW S, IsFiniteSet(S), NEW f \in [S -> Nat], NEW g, Adds(g, S, f),
           NEW T \in SUBSET S
    PROVE  g[T] = Cardinality(Units(T, f))
<1> DEFINE Bad == {U \in SUBSET S : g[U] # Cardinality(Units(U, f))}
           sizes == {Cardinality(U) : U \in Bad}
<1>1. \A U \in SUBSET S : IsFiniteSet(U) /\ Cardinality(U) \in Nat
  BY FS_Subset, FS_CardinalityType
<1> SUFFICES ASSUME T \in Bad PROVE FALSE
  OBVIOUS
<1>2. PICK U \in Bad : \A V \in Bad : Cardinality(U) <= Cardinality(V)
  <2>1. sizes \subseteq Nat /\ sizes # {}
    BY <1>1
  <2>2. PICK c \in sizes : \A d \in sizes : c <= d
    <3> HIDE DEF sizes
    <3> QED
      BY <2>1, LeastNumber
  <2> QED
    BY <2>2
<1>3. U # {}
  <2>1. Units({}, f) = {} /\ g[{}] = 0
    BY DEF Units, Adds
  <2> QED
    BY <2>1, FS_EmptySet
<1>4. PICK x \in U : x = CHOOSE y \in U : TRUE
  BY <1>3
<1>5. Cardinality(U \ {x}) = Cardinality(U) - 1 /\ Cardinality(U) \in Nat
  BY <1>1, FS_RemoveElement
<1>6. ~(Cardinality(U) <= Cardinality(U \ {x}))
  BY <1>5, SMT
<1>7. U \ {x} \in SUBSET S /\ g[U \ {x}] = Cardinality(Units(U \ {x}, f))
  BY <1>2, <1>6
<1>8. g[U] = f[x] + g[U \ {x}]
  BY <1>3, <1>4 DEF Adds
<1>9. Cardinality(Units(U, f)) = f[x] + Cardinality(Units(U \ {x}, f))
  BY <1>7, UnitsFinite, UnitsAdd
<1> QED
  BY <1>7, <1>8, <1>9

LEMMA SumIsSize ==
    ASSUME NEW S, IsFiniteSet(S), NEW f \in [S -> Nat]
    PROVE  /\ IsFiniteSet(Units(S, f))
           /\ SumFunction(f) = Cardinality(Units(S, f))
           /\ SumFunction(f) \in Nat
<1> DEFINE h == [s \in SUBSET S |-> Cardinality(Units(s, f))]
<1>1. Adds(h, S, f)
  <2> SUFFICES ASSUME NEW s \in SUBSET S
               PROVE  h[s] = IF s = {} THEN 0
                             ELSE f[CHOOSE x \in s : TRUE] + h[s \ {CHOOSE x \in s : TRUE}]
    BY DEF Adds
  <2>1. CASE s = {}
    <3>1. Units({}, f) = {}
      BY DEF Units
    <3> QED
      BY <2>1, <3>1, FS_EmptySet
  <2>2. CASE s # {}
    <3>1. PICK x \in s : x = CHOOSE y \in s : TRUE
      BY <2>2
    <3>2. s \ {x} \in SUBSET S
      OBVIOUS
    <3>3. Cardinality(Units(s, f)) = f[x] + Cardinality(Units(s \ {x}, f))
      BY <3>2, UnitsFinite, UnitsAdd
    <3> QED
      BY <2>2, <3>1, <3>2, <3>3
  <2> QED
    BY <2>1, <2>2
<1> HIDE DEF h
<1>2. Adds(CHOOSE g : Adds(g, S, f), S, f)
  BY <1>1
<1>3. DOMAIN f = S /\ S \in SUBSET S
  OBVIOUS
<1>4. SumFunction(f) = Cardinality(Units(S, f))
  BY <1>2, <1>3, SumUnfold, AddsUnique
<1> QED
  BY <1>3, <1>4, UnitsFinite, FS_CardinalityType

-----------------------------------------------------------------------------
(***************************************************************************)
(* Rounding: the number of polls is within half an interval of the time,   *)
(* so that a longer interval never gives more of them.                     *)
(***************************************************************************)
LEMMA MaxIs ==
    ASSUME NEW n \in Int
    PROVE  Max({0, n}) = IF n > 0 THEN n ELSE 0
  BY SMT DEF Max

LEMMA PollsBounds ==
    ASSUME NEW t \in Nat, NEW i \in Nat \ {0}
    PROVE  /\ Polls(t, i) \in Nat /\ Skipped(t, i) \in Nat
           /\ i * (2 * Polls(t, i) - 1) <= 2 * t /\ 2 * t <= i * (2 * Polls(t, i) + 1)
<1>1. /\ t \div i \in Nat /\ t % i \in 0..(i - 1)
      /\ t = i * (t \div i) + (t % i)
  BY SMT
<1> PICK q \in Nat, rest \in Nat : q = t \div i /\ rest = t % i
  BY <1>1, SMT
<1>2. Polls(t, i) \in {q, q + 1} /\ (Polls(t, i) = q => 2 * rest <= i)
      /\ (Polls(t, i) = q + 1 => 2 * rest >= i) /\ rest <= i
  BY <1>1, SMT DEF Polls
<1> PICK p \in Nat : p = Polls(t, i)
  BY <1>2, SMT
<1>3. PICK m \in Nat : m = i * q
  BY SMT
<1>4. t = m + rest
  BY <1>1, <1>3
<1>5. Skipped(t, i) \in Nat
  <2>1. Max({0, p - 1}) \in Nat
    BY MaxIs, SMT
  <2> QED
    BY <2>1 DEF Skipped
<1>6. CASE p = q
  <2>1. i * (2 * p - 1) = 2 * m - i /\ i * (2 * p + 1) = 2 * m + i
    BY <1>3, <1>6, SMT
  <2>2. 2 * rest <= i /\ i * (2 * p - 1) <= 2 * t /\ 2 * t <= i * (2 * p + 1)
    BY <1>2, <1>4, <1>6, <2>1, SMT
  <2> QED
    BY <1>5, <2>2
<1>7. CASE p = q + 1
  <2>1. i * (2 * p - 1) = 2 * m + i /\ i * (2 * p + 1) = 2 * m + 3 * i
    BY <1>3, <1>7, SMT
  <2>2. 2 * rest >= i /\ i * (2 * p - 1) <= 2 * t /\ 2 * t <= i * (2 * p + 1)
    BY <1>2, <1>4, <1>7, <2>1, SMT
  <2> QED
    BY <1>5, <2>2
<1> QED
  BY <1>2, <1>6, <1>7

LEMMA LongerSkipsLess ==
    ASSUME NEW t \in Nat, NEW i \in Nat \ {0}, NEW j \in Nat \ {0}, i <= j
    PROVE  Skipped(t, j) <= Skipped(t, i)
<1>1. CASE i = j
  BY <1>1, PollsBounds, SMT
<1>2. CASE i # j
  <2> PICK p \in Nat, s \in Nat : p = Polls(t, i) /\ s = Polls(t, j)
    BY PollsBounds
  <2>1. 2 * t <= i * (2 * p + 1) /\ j * (2 * s - 1) <= 2 * t
    BY PollsBounds
  <2>2. s <= p
    <3> SUFFICES ASSUME p < s PROVE FALSE
      BY SMT
    <3>1. PICK m \in Nat : m = 2 * s - 1 /\ 2 * p + 1 <= m /\ m >= 1
      BY SMT
    <3>2. i * (2 * p + 1) <= i * m
      BY <3>1, SMT
    <3>3. i * m < j * m
      BY <1>2, <3>1, SMT
    <3> QED
      BY <2>1, <3>1, <3>2, <3>3, SMT
  <2> QED
    BY <2>2, SMT DEF Skipped, Max
<1> QED
  BY <1>1, <1>2

\* A sum grows with its terms.
LEMMA SumGrows ==
    ASSUME NEW S, IsFiniteSet(S), NEW f \in [S -> Nat], NEW g \in [S -> Nat],
           \A x \in S : f[x] <= g[x]
    PROVE  SumFunction(f) <= SumFunction(g)
<1>1. Units(S, f) \in SUBSET Units(S, g)
  <2> SUFFICES ASSUME NEW x \in S, NEW k \in 1..f[x] PROVE k \in 1..g[x]
    BY DEF Units
  <2> PICK a \in Nat, b \in Nat : a = f[x] /\ b = g[x] /\ a <= b
    OBVIOUS
  <2> QED
    BY SMT
<1>2. /\ IsFiniteSet(Units(S, g))
      /\ SumFunction(f) = Cardinality(Units(S, f)) /\ SumFunction(g) = Cardinality(Units(S, g))
  BY SumIsSize
<1> QED
  BY <1>1, <1>2, FS_Subset

\* The modal interval is that of a record.
LEMMA ModalIs ==
    ASSUME IInv, NEW r \in Sessions
    PROVE  ModalInterval \in Nat \ {0}
<1> DEFINE freq(i) == Frequency(file[i].interval)
           below == {Cardinality(Lines) - freq(i) : i \in Lines}
<1>1. Lines \subseteq Nat /\ Lines # {} /\ IsFiniteSet(Lines)
  <2>1. DOMAIN file = 1..Len(file) /\ Len(file) \in Nat /\ IsFiniteSet(1..Len(file))
    BY LenProperties, FS_Interval DEF IInv, TypeOK
  <2>2. Lines \in SUBSET (1..Len(file))
    BY <2>1 DEF Lines
  <2> QED
    BY <2>1, <2>2, FS_Subset, LineWritten DEF Sessions
<1>2. \A i \in Lines : freq(i) \in Nat /\ freq(i) <= Cardinality(Lines)
  <2> SUFFICES ASSUME NEW i \in Lines
               PROVE  freq(i) \in Nat /\ freq(i) <= Cardinality(Lines)
    OBVIOUS
  <2>1. {k \in Lines : file[k].interval = file[i].interval} \in SUBSET Lines
    OBVIOUS
  <2> QED
    BY <1>1, <2>1, FS_Subset, FS_CardinalityType DEF Frequency
<1>3. PICK c \in Nat : c = Cardinality(Lines)
  BY <1>1, FS_CardinalityType
<1> HIDE DEF freq
<1>4. PICK i \in Lines : \A j \in Lines : c - freq(i) <= c - freq(j)
  <2>1. below \subseteq Nat /\ below # {}
    <3>1. ASSUME NEW k \in Lines PROVE Cardinality(Lines) - freq(k) \in Nat
      BY <1>2, <1>3, SMT
    <3> QED
      BY <1>1, <3>1
  <2>2. PICK b \in below : \A d \in below : b <= d
    <3> HIDE DEF below
    <3> QED
      BY <2>1, LeastNumber
  <2> QED
    BY <1>3, <2>2
<1>5. i \in MostFrequent
  <2>1. \A j \in Lines : freq(j) <= freq(i)
    BY <1>2, <1>3, <1>4, SMT
  <2> QED
    BY <2>1 DEF MostFrequent, freq
<1>6. \E k \in MostFrequent : \A j \in MostFrequent : k <= j
  <2>1. MostFrequent \subseteq Nat /\ MostFrequent # {}
    BY <1>1, <1>5 DEF MostFrequent
  <2> QED
    BY <2>1, LeastNumber
<1>7. PICK k \in MostFrequent : ModalInterval = file[k].interval
  BY <1>6 DEF ModalInterval
<1>8. file[k].interval \in Intervals
  BY LineWritten DEF MostFrequent, Records
<1> QED
  BY <1>7, <1>8, AuditAssumption

\* The records of a run have its interval.
LEMMA OwnInterval ==
    ASSUME IInv, NEW r \in Sessions
    PROVE  /\ every[r] \in Nat \ {0}
           /\ \A k \in 1..Cardinality(Of(r)) : Ordered(r)[k].interval = every[r]
<1>1. \A k \in DOMAIN written : written[k].interval = every[written[k].run]
                                 /\ written[k].interval \in Intervals
  BY WrittenTyped DEF IInv, Linked, Records
<1>2. PICK i \in Lines : file[i].run = r
  BY DEF Sessions
<1>3. every[r] \in Intervals
  BY <1>1, <1>2, LineWritten
<1>4. ASSUME NEW k \in 1..Cardinality(Of(r)) PROVE Ordered(r)[k].interval = every[r]
  <2>1. /\ Ordered(r)[k].id \in DOMAIN written /\ Ordered(r)[k] = written[Ordered(r)[k].id]
        /\ Ordered(r)[k].run = r
    BY OrderedIs
  <2> QED
    BY <1>1, <2>1
<1> QED
  BY <1>3, <1>4, AuditAssumption

-----------------------------------------------------------------------------
(***************************************************************************)
(* The gaps coverage measures are those the records name, counted in       *)
(* another interval.                                                       *)
(***************************************************************************)
LEMMA GapsMeasured ==
    ASSUME IInv, Undamaged, Monotone, NEW r \in Sessions
    PROVE  LET recs == Ordered(r)
               gaps == {k \in DOMAIN recs : recs[k].status = "GAP"}
           IN  /\ IsFiniteSet(gaps) /\ \A k \in gaps : recs[k].actual \in Nat
               /\ Estimated(r) = SumFunction([k \in gaps |-> Skipped(recs[k].actual, every[r])])
               /\ GapsCovered(r) = SumFunction([k \in gaps |-> Skipped(recs[k].actual, ModalInterval)])
<1> DEFINE recs == Ordered(r)
           n == Cardinality(Of(r))
<1>1. /\ n \in Nat /\ Len(recs) = n /\ DOMAIN recs = 1..n
      /\ \A k \in 1..n : recs[k] \in Records /\ recs[k].interval = every[r]
  BY OrderedIs, OwnInterval
<1>2. \A k \in 2..n : recs[k].at = recs[k - 1].at + recs[k].actual
  BY Neighbours
<1>3. 1 \in 1..n => recs[1].status # "GAP"
  <2> SUFFICES ASSUME 1 \in 1..n PROVE recs[1].status # "GAP"
    OBVIOUS
  <2>1. recs[1].prev = 0
    <3>1. Place(r, 1) \in Of(r)
      BY Places
    <3> QED
      BY <3>1, Neighbours
  <2>2. recs[1] = written[recs[1].id] /\ recs[1].id \in DOMAIN written
    BY OrderedIs
  <2> QED
    BY <2>1, <2>2, FirstOfRun
<1>4. \A k \in 2..n : recs[k - 1].at <= recs[k].at
  <2> SUFFICES ASSUME NEW k \in 2..n PROVE recs[k - 1].at <= recs[k].at
    OBVIOUS
  <2>1. k \in 1..n /\ k - 1 \in 1..n /\ k - 1 < k
    BY <1>1, SMT
  <2>2. Earlier(Place(r, k - 1), Place(r, k))
    BY <2>1, Places
  <2>3. /\ recs[k - 1] = file[Place(r, k - 1)] /\ recs[k] = file[Place(r, k)]
        /\ recs[k - 1].at \in Int /\ recs[k].at \in Int
    BY <2>1, OrderedIs DEF Records
  <2> QED
    BY <2>2, <2>3, SMT DEF Earlier
<1> HIDE DEF recs, n
<1>5. {k \in 1..n : recs[k].status = "GAP"} = {k \in 2..n : recs[k].status = "GAP"}
  <2>1. \A k \in 1..n : k = 1 \/ k \in 2..n
    BY <1>1, SMT
  <2>2. \A k \in 2..n : k \in 1..n
    BY <1>1, SMT
  <2> QED
    BY <1>3, <2>1, <2>2
<1>6. ASSUME NEW k \in 2..n
      PROVE  recs[k].at - recs[k - 1].at = recs[k].actual /\ recs[k].actual \in Nat
  <2>1. k \in 1..n /\ k - 1 \in 1..n
    BY <1>1, SMT
  <2>2. recs[k].at \in Int /\ recs[k - 1].at \in Int /\ recs[k].actual \in Int
    BY <1>1, <2>1 DEF Records
  <2> PICK a \in Int, b \in Int, c \in Int :
         a = recs[k].at /\ b = recs[k - 1].at /\ c = recs[k].actual
    BY <2>2
  <2>3. a = b + c /\ b <= a
    BY <1>2, <1>4
  <2> QED
    BY <2>3, SMT
<1> DEFINE gaps == {k \in 1..n : recs[k].status = "GAP"}
<1>7. IsFiniteSet(gaps)
  <2>1. IsFiniteSet(1..n) /\ gaps \in SUBSET (1..n)
    BY <1>1, FS_Interval
  <2> QED
    BY <2>1, FS_Subset
<1>8. [k \in {i \in 2..n : recs[i].status = "GAP"} |->
            Skipped(recs[k].at - recs[k - 1].at, ModalInterval)]
        = [k \in gaps |-> Skipped(recs[k].actual, ModalInterval)]
  BY <1>5, <1>6
<1>9. GapsCovered(r) = SumFunction([k \in gaps |-> Skipped(recs[k].actual, ModalInterval)])
  BY <1>1, <1>8 DEF GapsCovered, recs
<1>10. [k \in gaps |-> Skipped(recs[k].actual, recs[k].interval)]
         = [k \in gaps |-> Skipped(recs[k].actual, every[r])]
  BY <1>1
<1>11. Estimated(r) = SumFunction([k \in gaps |-> Skipped(recs[k].actual, every[r])])
  BY <1>1, <1>10 DEF Estimated, recs
<1>12. \A k \in gaps : recs[k].actual \in Nat
  BY <1>5, <1>6
<1> HIDE DEF gaps
<1> QED
  BY <1>1, <1>7, <1>9, <1>11, <1>12 DEF recs, gaps

LEMMA GapsCompared ==
    ASSUME IInv, Undamaged, Monotone, NEW r \in Sessions
    PROVE  /\ ModalInterval <= every[r] => GapsCovered(r) >= Estimated(r)
           /\ every[r] <= ModalInterval => GapsCovered(r) <= Estimated(r)
<1> DEFINE recs == Ordered(r)
           gaps == {k \in DOMAIN recs : recs[k].status = "GAP"}
           own == [k \in gaps |-> Skipped(recs[k].actual, every[r])]
           modal == [k \in gaps |-> Skipped(recs[k].actual, ModalInterval)]
<1>1. /\ IsFiniteSet(gaps) /\ \A k \in gaps : recs[k].actual \in Nat
      /\ Estimated(r) = SumFunction(own) /\ GapsCovered(r) = SumFunction(modal)
  BY GapsMeasured
<1>2. every[r] \in Nat \ {0} /\ ModalInterval \in Nat \ {0}
  BY OwnInterval, ModalIs
<1> HIDE DEF recs, gaps
<1>3. own \in [gaps -> Nat] /\ modal \in [gaps -> Nat]
  BY <1>1, <1>2, PollsBounds
<1>4. /\ ModalInterval <= every[r] => \A k \in gaps : own[k] <= modal[k]
      /\ every[r] <= ModalInterval => \A k \in gaps : modal[k] <= own[k]
  BY <1>1, <1>2, LongerSkipsLess
<1> HIDE DEF own, modal
<1>5. SumFunction(own) \in Nat /\ SumFunction(modal) \in Nat
  BY <1>1, <1>3, SumIsSize
<1>6. ASSUME ModalInterval <= every[r] PROVE SumFunction(own) <= SumFunction(modal)
  BY <1>1, <1>3, <1>4, <1>6, SumGrows
<1>7. ASSUME every[r] <= ModalInterval PROVE SumFunction(modal) <= SumFunction(own)
  BY <1>1, <1>3, <1>4, <1>7, SumGrows
<1>8. \A a, b \in Nat : a <= b => b >= a
  BY SMT
<1> QED
  BY <1>1, <1>5, <1>6, <1>7, <1>8

-----------------------------------------------------------------------------
\* Whole intervals: rounding takes nothing, and all but one of a gap are skipped.
LEMMA WholePolls ==
    ASSUME NEW i \in Nat \ {0}, NEW q \in Nat
    PROVE  /\ Polls(i * q, i) = q
           /\ q > 0 => Skipped(i * q, i) = q - 1
<1>1. (i * q) \div i = q /\ (i * q) % i = 0
  BY SMT
<1>2. Polls(i * q, i) = q
  BY <1>1, SMT DEF Polls
<1>3. q > 0 => Max({0, q - 1}) = q - 1
  BY SMT DEF Max
<1> QED
  BY <1>2, <1>3 DEF Skipped

\* A record on the grid comes a whole number of intervals after the one before.
LEMMA OnGridIs ==
    ASSUME NEW i \in Nat \ {0}, NEW t \in Int, t > 0, t % i = 0
    PROVE  \E q \in Nat : /\ t = i * q /\ q > 0
                          /\ Within(i, t) => q = 1
<1>1. t = i * (t \div i) + (t % i) /\ t \div i \in Int
  BY SMT
<1> PICK q \in Int : q = t \div i
  BY <1>1
<1>2. t = i * q
  BY <1>1, SMT
<1>3. q > 0
  BY <1>2, SMT
<1>4. ASSUME Within(i, t) PROVE q = 1
  <2>1. 2 * (i * q) <= 3 * i
    BY <1>2, <1>4 DEF Within
  <2>2. ~(q >= 2)
    <3> SUFFICES ASSUME q >= 2 PROVE FALSE
      OBVIOUS
    <3>1. i * q >= i * 2
      BY SMT
    <3> QED
      BY <2>1, <3>1, SMT
  <2> QED
    BY <1>3, <2>2, SMT
<1> QED
  BY <1>2, <1>3, <1>4

\* Along a session on the grid, what is missing is what its gaps skipped.
LEMMA MissingAlong ==
    ASSUME IInv, Undamaged, Monotone, NEW r \in Sessions, OnGrid(r),
           NEW k \in 1..Cardinality(Of(r))
    PROVE  LET recs == Ordered(r)
               gaps == {i \in DOMAIN recs : recs[i].status = "GAP"}
               f == [i \in gaps |-> Skipped(recs[i].actual, recs[i].interval)]
           IN  /\ IsFiniteSet(gaps) /\ f \in [gaps -> Nat]
               /\ \E q \in Nat : /\ recs[k].at - recs[1].at = every[r] * q
                                 /\ q + 1 - k = Cardinality(Units({i \in gaps : i <= k}, f))
<1> DEFINE recs == Ordered(r)
           n == Cardinality(Of(r))
           gaps == {i \in DOMAIN recs : recs[i].status = "GAP"}
           f == [i \in gaps |-> Skipped(recs[i].actual, recs[i].interval)]
           upto(m) == {i \in gaps : i <= m}
           missing(m) == Cardinality(Units(upto(m), f))
           Claim(m) == \E q \in Nat : /\ recs[m].at - recs[1].at = every[r] * q
                                      /\ q + 1 - m = missing(m)
<1>0. every[r] \in Nat \ {0}
  BY OwnInterval
<1>1. /\ n \in Nat /\ DOMAIN recs = 1..n
      /\ \A m \in 1..n : /\ recs[m].at \in Int /\ recs[m].actual \in Int
                         /\ recs[m].id \in DOMAIN written /\ recs[m] = written[recs[m].id]
                         /\ recs[m].interval = every[r] /\ recs[m].run = r
  <2>1. \A m \in 1..n : recs[m].interval = every[r]
    BY OwnInterval
  <2>2. \A m \in 1..n : recs[m] \in Records
    BY OrderedIs
  <2>3. \A m \in 1..n : recs[m].at \in Int /\ recs[m].actual \in Int
    BY <2>2 DEF Records
  <2> QED
    BY <2>1, <2>3, OrderedIs
<1>2. IsFiniteSet(gaps)
  <2>1. IsFiniteSet(1..n) /\ gaps \in SUBSET (1..n)
    BY <1>1, FS_Interval
  <2> QED
    BY <2>1, FS_Subset
<1>3. recs[1].status # "GAP"
  <2>1. recs[1].prev = 0
    BY Neighbours, Places
  <2>2. 1 \in 1..n
    BY <1>1, SMT
  <2> QED
    BY <1>1, <2>1, <2>2, FirstOfRun
<1>4. ASSUME NEW m \in 2..n
      PROVE  /\ m \in 1..n /\ m - 1 \in 1..n
             /\ recs[m].at = recs[m - 1].at + recs[m].actual
             /\ \E q \in Nat : /\ recs[m].actual = every[r] * q /\ q > 0
                               /\ recs[m].status # "GAP" => q = 1
  <2>1. m \in 1..n /\ m - 1 \in 1..n
    BY <1>1, SMT
  <2>2. recs[m].prev # 0 /\ recs[m].at = recs[m - 1].at + recs[m].actual
    BY Neighbours
  <2>3. recs[m].actual > 0 /\ recs[m].actual % every[r] = 0 /\ recs[m].actual \in Int
    BY <1>1, <2>1, <2>2 DEF OnGrid
  <2>4. PICK q \in Nat : /\ recs[m].actual = every[r] * q /\ q > 0
                         /\ Within(every[r], recs[m].actual) => q = 1
    BY <1>0, <2>3, OnGridIs
  <2>5. recs[m].status # "GAP" => Within(every[r], recs[m].actual)
    BY <1>1, <2>1, <2>2 DEF IInv, Linked, Classify
  <2> QED
    BY <2>1, <2>2, <2>4, <2>5
<1>5. \A i \in gaps : i \in 2..n
  <2>1. \A i \in 1..n : i = 1 \/ i \in 2..n
    BY <1>1, SMT
  <2> QED
    BY <1>1, <1>3, <2>1
<1>6. f \in [gaps -> Nat]
  <2>1. ASSUME NEW i \in gaps PROVE Skipped(recs[i].actual, recs[i].interval) \in Nat
    <3>1. PICK q \in Nat : recs[i].actual = every[r] * q /\ q > 0
      BY <1>4, <1>5
    <3>2. Skipped(every[r] * q, every[r]) = q - 1
      BY <1>0, <3>1, WholePolls
    <3>3. recs[i].interval = every[r]
      BY <1>1
    <3>4. q - 1 \in Nat
      BY <3>1, SMT
    <3> QED
      BY <3>1, <3>2, <3>3, <3>4
  <2> QED
    BY <2>1
<1> HIDE DEF n, recs, gaps, f
<1>7. Claim(1)
  <2>1. upto(1) = {}
    BY <1>1, <1>5, SMT DEF gaps
  <2>2. Units({}, f) = {}
    BY DEF Units
  <2>3. missing(1) = 0
    BY <2>1, <2>2, FS_EmptySet
  <2>4. 1 \in 1..n
    BY <1>1, SMT DEF n
  <2>5. recs[1].at - recs[1].at = every[r] * 0
    BY <1>1, <2>4, <1>0, SMT
  <2>6. 0 \in Nat /\ 0 + 1 - 1 = 0
    BY SMT
  <2> HIDE DEF missing
  <2> QED
    BY <2>3, <2>5, <2>6
<1>8. ASSUME NEW m \in 2..n, Claim(m - 1) PROVE Claim(m)
  <2>1. PICK p \in Nat : /\ recs[m - 1].at - recs[1].at = every[r] * p
                         /\ p + 1 - (m - 1) = missing(m - 1)
    BY <1>8
  <2>2. PICK q \in Nat : /\ recs[m].actual = every[r] * q /\ q > 0
                         /\ recs[m].status # "GAP" => q = 1
    BY <1>4
  <2>3. /\ m \in 1..n /\ m - 1 \in 1..n /\ 1 \in 1..n /\ m \in Int
        /\ recs[m].at = recs[m - 1].at + recs[m].actual
    BY <1>1, <1>4, SMT
  <2>4. recs[m].at - recs[1].at = every[r] * (p + q)
    <3> PICK a \in Int, b \in Int, c \in Int, d \in Int :
           a = recs[m].at /\ b = recs[m - 1].at /\ c = recs[1].at /\ d = recs[m].actual
      BY <1>1, <2>3
    <3>1. b - c = every[r] * p /\ d = every[r] * q /\ a = b + d
      BY <2>1, <2>2, <2>3
    <3>2. every[r] * (p + q) = every[r] * p + every[r] * q /\ every[r] * p \in Int
          /\ every[r] * q \in Int
      BY <1>0, SMT
    <3>3. a - c = every[r] * p + every[r] * q
      BY <3>1, <3>2, SMT
    <3> QED
      BY <3>2, <3>3
  <2>5. missing(m) = missing(m - 1) + (q - 1)
    <3>1. CASE recs[m].status = "GAP"
      <4>1. m \in upto(m) /\ upto(m) \in SUBSET gaps /\ upto(m - 1) \in SUBSET gaps
        BY <1>1, <2>3, <3>1 DEF gaps
      <4>2. upto(m) \ {m} = upto(m - 1)
        <5>1. \A i \in 1..n : i <= m - 1 <=> (i <= m /\ i # m)
          BY <1>1, <2>3, SMT
        <5> QED
          BY <1>1, <5>1 DEF gaps
      <4>3. f[m] = q - 1
        <5>1. Skipped(every[r] * q, every[r]) = q - 1
          BY <1>0, <2>2, WholePolls
        <5>2. recs[m].interval = every[r]
          BY <1>1, <2>3
        <5> QED
          BY <2>2, <4>1, <5>1, <5>2 DEF f
      <4>4. IsFiniteSet(Units(upto(m - 1), f))
        BY <1>2, <1>6, <4>1, UnitsFinite
      <4>5. missing(m) = f[m] + missing(m - 1)
        <5> PICK T, U : T = upto(m) /\ U = upto(m - 1)
          OBVIOUS
        <5> HIDE DEF upto
        <5> QED
          BY <1>6, <4>1, <4>2, <4>4, UnitsAdd
      <4>6. PICK x \in Nat : x = missing(m - 1)
        BY <4>4, FS_CardinalityType
      <4> HIDE DEF missing
      <4> QED
        BY <4>3, <4>5, <4>6, SMT
    <3>2. CASE recs[m].status # "GAP"
      <4>1. upto(m) = upto(m - 1)
        <5>1. \A i \in 1..n : i <= m - 1 <=> (i <= m /\ i # m)
          BY <1>1, <2>3, SMT
        <5> QED
          BY <1>1, <3>2, <5>1 DEF gaps
      <4>2. q - 1 = 0
        BY <2>2, <3>2, SMT
      <4>3. upto(m - 1) \in SUBSET gaps
        OBVIOUS
      <4>4. PICK x \in Nat : x = missing(m - 1)
        BY <1>2, <1>6, <4>3, UnitsFinite, FS_CardinalityType
      <4>5. missing(m) = x
        BY <4>1, <4>4
      <4> HIDE DEF missing
      <4> QED
        BY <4>2, <4>4, <4>5, SMT
    <3> QED
      BY <3>1, <3>2
  <2>6. (p + q) + 1 - m = missing(m)
    <3> HIDE DEF missing
    <3> PICK x : x = missing(m - 1)
      OBVIOUS
    <3>1. p + 1 - (m - 1) = x /\ missing(m) = x + (q - 1)
      BY <2>1, <2>5
    <3>2. x + (q - 1) = (p + q) + 1 - m
      BY <2>3, <3>1, SMT
    <3> QED
      BY <3>1, <3>2
  <2>7. p + q \in Nat
    BY SMT
  <2> HIDE DEF missing
  <2> QED
    BY <2>4, <2>6, <2>7
<1>9. Claim(k)
  <2> DEFINE T == {m \in 1..n : ~Claim(m)}
  <2> HIDE DEF Claim
  <2> SUFFICES ASSUME ~Claim(k) PROVE FALSE
    OBVIOUS
  <2>1. T \subseteq Nat /\ T # {}
    BY <1>1 DEF n
  <2>2. PICK m \in T : \A l \in T : m <= l
    BY <2>1, LeastNumber
  <2>3. m \in 1..n /\ m # 1
    BY <1>7, <2>2
  <2>4. m \in 2..n /\ m - 1 \in 1..n /\ ~(m <= m - 1)
    BY <1>1, <2>3, SMT
  <2>5. Claim(m - 1)
    BY <2>2, <2>4
  <2> QED
    BY <1>8, <2>2, <2>4, <2>5
<1> QED
  BY <1>2, <1>6, <1>9 DEF recs, gaps, f

\* Over a whole session, coverage expects what the gaps skipped on top of the records.
LEMMA MissingOfSession ==
    ASSUME IInv, Undamaged, Monotone, NEW r \in Sessions, OnGrid(r), every[r] = ModalInterval
    PROVE  Estimated(r) \in Nat /\ Expected(r) - Cardinality(Of(r)) = Estimated(r)
<1> DEFINE recs == Ordered(r)
           n == Cardinality(Of(r))
           gaps == {i \in DOMAIN recs : recs[i].status = "GAP"}
           f == [i \in gaps |-> Skipped(recs[i].actual, recs[i].interval)]
<1>1. /\ n \in Nat /\ Len(recs) = n /\ DOMAIN recs = 1..n
  BY OrderedIs
<1>2. n \in 1..n
  <2>1. PICK i \in Of(r) : TRUE
    BY DEF Sessions, Of
  <2>2. PICK k \in 1..n : Place(r, k) = i
    BY Places
  <2> QED
    BY <1>1, <2>2, SMT
<1>3. /\ IsFiniteSet(gaps) /\ f \in [gaps -> Nat]
      /\ \E q \in Nat : /\ recs[n].at - recs[1].at = every[r] * q
                        /\ q + 1 - n = Cardinality(Units({i \in gaps : i <= n}, f))
  BY <1>2, MissingAlong
<1>4. PICK q \in Nat : /\ recs[n].at - recs[1].at = every[r] * q
                       /\ q + 1 - n = Cardinality(Units({i \in gaps : i <= n}, f))
  BY <1>3
<1>5. {i \in gaps : i <= n} = gaps
  BY <1>1, SMT
<1>6. Estimated(r) = SumFunction(f)
  BY DEF Estimated
<1>7. Expected(r) = q + 1
  <2>1. Polls(every[r] * q, every[r]) = q
    BY WholePolls, OwnInterval
  <2> QED
    BY <1>1, <1>4, <2>1 DEF Expected
<1> HIDE DEF recs, gaps, f, n
<1>8. SumFunction(f) = Cardinality(Units(gaps, f)) /\ SumFunction(f) \in Nat
  BY <1>3, SumIsSize
<1>9. q + 1 - n = SumFunction(f)
  BY <1>4, <1>5, <1>8
<1>10. (q + 1) - n = q + 1 - n
  BY <1>1, SMT
<1>11. Expected(r) - n = Estimated(r)
  BY <1>6, <1>7, <1>9, <1>10
<1> QED
  BY <1>6, <1>8, <1>11 DEF n

LEMMA SessionsFinite ==
    ASSUME IInv
    PROVE  IsFiniteSet(Sessions)
<1>1. Sessions \in SUBSET (1..MaxRuns)
  BY LineWritten DEF Sessions, Records, Runs
<1>2. IsFiniteSet(1..MaxRuns)
  BY AuditAssumption, FS_Interval
<1> QED
  BY <1>1, <1>2, FS_Subset

(***************************************************************************)
(* The two tools count alike wherever they use the same interval, for any  *)
(* number of records, runs, gaps and intervals: for each run, what         *)
(* coverage measures between neighbours is what validate_day reads from    *)
(* the records, or errs to the side its interval is off to; and on the     *)
(* grid of one interval it is also what is missing over the whole of the   *)
(* sessions (coverage.py:46, 60, 76-108 against validate_day.py:188-199).  *)
(***************************************************************************)
THEOREM ToolsAgree == Spec => []EstimatesAgree
<1>1. IInv => EstimatesAgree
  <2> SUFFICES ASSUME IInv, Undamaged, Monotone,
                      \A r \in Sessions : every[r] = ModalInterval /\ OnGrid(r)
               PROVE  TotalMissing = EstimateMissing
    BY GapsCompared DEF EstimatesAgree
  <2> DEFINE missing == [r \in Sessions |-> Estimated(r)]
  <2>1. [r \in Sessions |-> Expected(r) - Cardinality(Of(r))] = missing
    BY MissingOfSession
  <2>2. missing \in [Sessions -> Nat]
    BY MissingOfSession
  <2>3. EstimateMissing = SumFunction(missing)
    BY DEF EstimateMissing
  <2>4. TotalMissing = Max({0, SumFunction(missing)})
    BY <2>1 DEF TotalMissing
  <2> HIDE DEF missing
  <2>5. PICK total \in Nat : total = SumFunction(missing)
    BY <2>2, SessionsFinite, SumIsSize
  <2>6. Max({0, total}) = total
    BY SMT DEF Max
  <2> QED
    BY <2>3, <2>4, <2>5, <2>6
<1> QED
  BY <1>1, Invariance, PTL
=============================================================================
