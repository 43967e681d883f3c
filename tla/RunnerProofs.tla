---------------------------- MODULE RunnerProofs ----------------------------
(***************************************************************************)
(* Proofs about a day of the service, for any number of runs and records.  *)
(* What a manifest says of its run has to be true at whatever step the     *)
(* process is killed: IInv says, for each step of main(), what the         *)
(* manifest of the run in progress can be and what is known of its         *)
(* records.                                                                *)
(***************************************************************************)
EXTENDS Runner, SequenceTheorems, TLAPS

\* What run() returned is true of the records, but for one the end overtook.
ResultTruthful ==
    /\ result.total <= Cardinality(RecordsOf(run))
    /\ Cardinality(RecordsOf(run)) <= result.total + 1
    /\ result.successful <= Cardinality(SuccessfulOf(run))

Starting   == {"setup", "announce", "announcing"}
Unfinished == Starting \union {"loop", "finalize", "finalizing"}
Outcomes   == {"completed", "aborted"}

\* The run in progress, by the step it is at.
Progress ==
    /\ pc # "none" => unit = "active" /\ run \in Runs /\ exit[run] = "none"
    /\ pc \in Starting => RecordsOf(run) = {}
    /\ pc \in Unfinished => manifest[run].status \notin Outcomes
    /\ pc \in {"loop", "finalize"} => manifest[run].status = "running" \/ run \in failed
    /\ pc \in {"finalize", "finalizing", "report"} => ResultTruthful
    /\ pc = "report" =>
          /\ manifest[run].status \notin {"absent", "torn"} \/ run \in failed
          /\ manifest[run].status = "aborted" => result.early
          /\ manifest[run].status = "completed" => ~result.early

\* The runs to come have left no trace.
ToCome == \A r \in Runs : r > run =>
             manifest[r] = Absent /\ RecordsOf(r) = {} /\ exit[r] = "none"

\* An outcome is true of the records of its run, and agrees with its end.
Truthful(r) ==
    manifest[r].status \in Outcomes =>
        /\ manifest[r].total # NoCount
        /\ manifest[r].total <= Cardinality(RecordsOf(r))
        /\ Cardinality(RecordsOf(r)) <= manifest[r].total + 1
        /\ manifest[r].successful <= Cardinality(SuccessfulOf(r))
        /\ 0 <= manifest[r].successful
        /\ exit[r] # (IF manifest[r].status = "aborted" THEN "0" ELSE "1")

Explained(r) ==
    RecordsOf(r) # {} /\ manifest[r].status \in {"absent", "torn"} =>
        r \in failed \/ (r = run /\ pc = "finalizing") \/ exit[r] \in {"signal", "killed"}

IInv == /\ TypeOK /\ Progress /\ ToCome
        /\ \A r \in Runs : Truthful(r) /\ Explained(r)

-----------------------------------------------------------------------------
LEMMA ManifestsTyped ==
    /\ Absent \in Manifests /\ Torn \in Manifests
    /\ Manifest("running", NoCount, NoCount) \in Manifests
    /\ Absent.status = "absent" /\ Torn.status = "torn"
    /\ Manifest("running", NoCount, NoCount).status = "running"
  BY DEF Absent, Torn, Manifest, Manifests, Counts

LEMMA TerminalTyped ==
    ASSUME TypeOK
    PROVE  /\ Terminal \in Manifests
           /\ Terminal.total = result.total /\ Terminal.successful = result.successful
           /\ Terminal.status = IF result.early THEN "aborted" ELSE "completed"
           /\ Terminal.total # NoCount
           /\ Terminal.successful \in 0..MaxTicks
<1>1. result.total \in 0..MaxTicks /\ result.successful \in 0..MaxTicks
  BY DEF TypeOK, Results
<1>2. result.total # NoCount
  BY <1>1, RunnerAssumption, SMT DEF NoCount
<1> QED
  BY <1>1, <1>2 DEF Terminal, Manifest, Manifests, Counts

LEMMA InitIInv == Init => IInv
<1> SUFFICES ASSUME Init PROVE IInv
  OBVIOUS
<1>1. DOMAIN records = {} /\ records \in Seq([run : Runs, ok : BOOLEAN])
  BY EmptySeq, SMT DEF Init
<1>2. NoResult \in Results
  BY RunnerAssumption, SMT DEF NoResult, Results
<1>3. TypeOK
  BY <1>1, <1>2, ManifestsTyped DEF Init, TypeOK
<1>4. \A r \in Runs : RecordsOf(r) = {} /\ manifest[r] = Absent /\ exit[r] = "none"
  BY <1>1 DEF Init, RecordsOf
<1> QED
  BY <1>3, <1>4, ManifestsTyped
     DEF Init, IInv, Progress, ToCome, Truthful, Explained, Starting, Unfinished, Outcomes

\* Records that stay are the same records of each run.
LEMMA RecordsStay ==
    ASSUME UNCHANGED records, NEW r
    PROVE  RecordsOf(r)' = RecordsOf(r) /\ SuccessfulOf(r)' = SuccessfulOf(r)
  BY DEF RecordsOf, SuccessfulOf

LEMMA CountsStay ==
    ASSUME UNCHANGED records, NEW r
    PROVE  /\ Cardinality(RecordsOf(r))' = Cardinality(RecordsOf(r))
           /\ Cardinality(SuccessfulOf(r))' = Cardinality(SuccessfulOf(r))
  BY RecordsStay

Ended == {"none", "0", "1", "signal", "killed"}

\* A step of the current run on its manifest and its end leaves the others as they are.
LEMMA OthersStay ==
    ASSUME IInv, run \in Runs, UNCHANGED <<run, records>>,
           NEW m \in Manifests, manifest' = [manifest EXCEPT ![run] = m],
           NEW how \in Ended, exit' = [exit EXCEPT ![run] = how],
           failed \subseteq failed'
    PROVE  /\ manifest' \in [Runs -> Manifests] /\ manifest'[run] = m
           /\ exit' \in [Runs -> Ended] /\ exit'[run] = how
           /\ ToCome'
           /\ \A r \in Runs : r # run => Truthful(r)' /\ Explained(r)'
<1>1. manifest \in [Runs -> Manifests] /\ exit \in [Runs -> Ended]
  BY DEF IInv, TypeOK, Ended
<1>2. /\ manifest' \in [Runs -> Manifests] /\ manifest'[run] = m
      /\ exit' \in [Runs -> Ended] /\ exit'[run] = how
  BY <1>1
<1>3. \A r \in Runs : r # run => manifest'[r] = manifest[r] /\ exit'[r] = exit[r]
  BY <1>1
<1>4. \A r \in Runs : RecordsOf(r)' = RecordsOf(r)
  BY RecordsStay
<1>5. ToCome'
  <2>1. \A r \in Runs : r > run' => r # run /\ r > run
    BY SMT DEF Runs
  <2> QED
    BY <1>3, <1>4, <2>1 DEF IInv, ToCome
<1>6. ASSUME NEW r \in Runs, r # run
      PROVE  Truthful(r)' /\ Explained(r)'
  <2>1. /\ Cardinality(RecordsOf(r))' = Cardinality(RecordsOf(r))
        /\ Cardinality(SuccessfulOf(r))' = Cardinality(SuccessfulOf(r))
    BY CountsStay
  <2>2. Truthful(r)'
    BY <1>3, <1>6, <2>1 DEF IInv, Truthful
  <2>3. Explained(r)'
    BY <1>3, <1>4, <1>6 DEF IInv, Explained
  <2> QED
    BY <2>2, <2>3
<1> QED
  BY <1>2, <1>5, <1>6

\* A step that writes no manifest and ends nothing is the special case of itself.
LEMMA Unwritten ==
    ASSUME TypeOK, run \in Runs
    PROVE  /\ manifest[run] \in Manifests /\ manifest = [manifest EXCEPT ![run] = manifest[run]]
           /\ exit[run] \in Ended /\ exit = [exit EXCEPT ![run] = exit[run]]
  BY DEF TypeOK, Ended

\* A process begins: its run is one of those to come.
LEMMA LaunchKeeps ==
    ASSUME IInv, Launch, pc = "none"
    PROVE  IInv'
<1>1. run' = run + 1 /\ run' \in Runs /\ run' > run /\ run \in Int
  BY RunnerAssumption, SMT DEF IInv, TypeOK, Launch, Runs, NoRun
<1>2. \A r \in Runs : RecordsOf(r)' = RecordsOf(r)
  BY RecordsStay DEF Launch
<1>3. RecordsOf(run)' = {} /\ manifest'[run'] = Absent /\ exit'[run'] = "none"
  <2>1. RecordsOf(run') = {} /\ manifest[run'] = Absent /\ exit[run'] = "none"
    BY <1>1 DEF IInv, ToCome
  <2> QED
    BY <2>1 DEF RecordsOf, Launch
<1>4. TypeOK'
  <2>1. NoResult \in Results
    BY RunnerAssumption, SMT DEF NoResult, Results
  <2> QED
    BY <1>1, <2>1 DEF IInv, TypeOK, Launch
<1>5. Progress'
  <2>1. pc' = "setup" /\ unit' = "active"
    BY DEF Launch
  <2> HIDE DEF Absent
  <2> QED
    BY <1>1, <1>3, <2>1, ManifestsTyped DEF Progress, Starting, Unfinished, Outcomes
<1>6. ToCome'
  <2>1. \A r \in Runs : r > run' => r > run
    BY <1>1, SMT DEF Runs
  <2> QED
    BY <1>2, <2>1 DEF IInv, ToCome, Launch
<1>7. ASSUME NEW r \in Runs
      PROVE  Truthful(r)' /\ Explained(r)'
  <2>1. /\ Cardinality(RecordsOf(r))' = Cardinality(RecordsOf(r))
        /\ Cardinality(SuccessfulOf(r))' = Cardinality(SuccessfulOf(r))
    BY CountsStay DEF Launch
  <2>2. Truthful(r)'
    BY <2>1 DEF IInv, Truthful, Launch
  <2>3. Explained(r)'
    BY <1>2 DEF IInv, Explained, Launch
  <2> QED
    BY <2>2, <2>3
<1> QED
  BY <1>4, <1>5, <1>6, <1>7 DEF IInv

\* A record is added to its own run and to no other.
LEMMA ArchiveAdds ==
    ASSUME IInv, Archive
    PROVE  /\ run \in Runs /\ records' \in Seq([run : Runs, ok : BOOLEAN])
           /\ \A r \in Runs : r # run =>
                 RecordsOf(r)' = RecordsOf(r) /\ SuccessfulOf(r)' = SuccessfulOf(r)
<1>1. run \in Runs
  BY DEF IInv, Archive, Progress
<1>2. PICK ok \in BOOLEAN : records' = Append(records, [run |-> run, ok |-> ok])
  BY DEF Archive
<1>3. /\ records' \in Seq([run : Runs, ok : BOOLEAN])
      /\ Len(records') = Len(records) + 1 /\ Len(records) \in Nat
      /\ DOMAIN records = 1..Len(records) /\ DOMAIN records' = 1..Len(records')
      /\ \A i \in DOMAIN records : records'[i] = records[i]
      /\ records'[Len(records')].run = run
  <2>1. records \in Seq([run : Runs, ok : BOOLEAN]) /\ [run |-> run, ok |-> ok] \in [run : Runs, ok : BOOLEAN]
    BY <1>1 DEF IInv, TypeOK
  <2> QED
    BY <1>2, <2>1, AppendProperties, LenProperties, SMT
<1>4. \A i \in DOMAIN records' : i \in DOMAIN records \/ i = Len(records')
  BY <1>3, SMT
<1>5. DOMAIN records \subseteq DOMAIN records'
  BY <1>3, SMT
<1>6. ASSUME NEW r \in Runs, r # run
      PROVE  RecordsOf(r)' = RecordsOf(r) /\ SuccessfulOf(r)' = SuccessfulOf(r)
  <2>1. RecordsOf(r)' = RecordsOf(r)
    BY <1>3, <1>4, <1>5, <1>6 DEF RecordsOf
  <2>2. SuccessfulOf(r)' = SuccessfulOf(r)
    BY <1>3, <2>1 DEF SuccessfulOf, RecordsOf
  <2> QED
    BY <2>1, <2>2
<1> QED
  BY <1>1, <1>3, <1>6

\* Only the current run gets records, and it has no outcome yet.
LEMMA ArchiveKeeps ==
    ASSUME IInv, Archive
    PROVE  IInv'
<1> USE DEF IInv
<1>1. run \in Runs /\ exit[run] = "none" /\ manifest[run].status \notin Outcomes
  BY DEF Archive, Progress, Unfinished
<1>2. records' \in Seq([run : Runs, ok : BOOLEAN])
  BY ArchiveAdds
<1>3. ASSUME NEW r \in Runs, r # run
      PROVE  /\ RecordsOf(r)' = RecordsOf(r)
             /\ Cardinality(RecordsOf(r))' = Cardinality(RecordsOf(r))
             /\ Cardinality(SuccessfulOf(r))' = Cardinality(SuccessfulOf(r))
  BY <1>3, ArchiveAdds
<1>4. UNCHANGED <<unit, run, pc, result, manifest, failed, exit>> /\ pc = "loop"
  BY DEF Archive
<1>5. TypeOK'
  BY <1>2, <1>4 DEF TypeOK
<1>6. Progress'
  BY <1>4 DEF Progress, Starting, Unfinished
<1>7. ToCome'
  <2>1. \A r \in Runs : r > run => r # run
    BY <1>1, SMT DEF Runs
  <2> QED
    BY <1>3, <1>4, <2>1 DEF ToCome
<1>8. ASSUME NEW r \in Runs
       PROVE  Truthful(r)' /\ Explained(r)'
  <2>1. CASE r # run
    BY <1>3, <1>4, <2>1 DEF Truthful, Explained
  <2>2. CASE r = run
    <3>1. Truthful(r)'
      BY <1>1, <1>4, <2>2 DEF Truthful
    <3>2. Explained(r)'
      BY <1>4, <2>2 DEF Explained, Progress
    <3> QED
      BY <3>1, <3>2
  <2> QED
    BY <2>1, <2>2
<1> QED
  BY <1>5, <1>6, <1>7, <1>8

LEMMA CurrentStays ==
    ASSUME UNCHANGED <<run, records>>
    PROVE  /\ RecordsOf(run)' = RecordsOf(run)
           /\ Cardinality(RecordsOf(run))' = Cardinality(RecordsOf(run))
           /\ Cardinality(SuccessfulOf(run))' = Cardinality(SuccessfulOf(run))
           /\ UNCHANGED result => (ResultTruthful => ResultTruthful')
  BY DEF RecordsOf, SuccessfulOf, ResultTruthful

\* The counts of manifest m are true of the current run.
Fits(m) ==
    /\ m.total # NoCount
    /\ m.total <= Cardinality(RecordsOf(run))
    /\ Cardinality(RecordsOf(run)) <= m.total + 1
    /\ m.successful <= Cardinality(SuccessfulOf(run))
    /\ 0 <= m.successful

\* What a step of the current run has to show.
LEMMA RunStep ==
    ASSUME IInv, run \in Runs, UNCHANGED <<run, records>>,
           NEW m \in Manifests, manifest' = [manifest EXCEPT ![run] = m],
           NEW how \in Ended, exit' = [exit EXCEPT ![run] = how],
           failed' \in {failed, failed \union {run}},
           unit' \in {"inactive", "active", "restarting"}, result' \in Results,
           pc' \in {"none", "setup", "announce", "announcing", "loop", "finalize",
                    "finalizing", "report"},
           m.status \in Outcomes => Fits(m) /\ how # (IF m.status = "aborted" THEN "0" ELSE "1"),
           RecordsOf(run) # {} /\ m.status \in {"absent", "torn"} =>
              run \in failed' \/ pc' = "finalizing" \/ how \in {"signal", "killed"},
           manifest'[run] = m /\ exit'[run] = how => Progress'
    PROVE  IInv'
<1>1. /\ manifest' \in [Runs -> Manifests] /\ manifest'[run] = m
      /\ exit' \in [Runs -> Ended] /\ exit'[run] = how
      /\ ToCome'
      /\ \A r \in Runs : r # run => Truthful(r)' /\ Explained(r)'
  BY OthersStay
<1>2. TypeOK'
  BY <1>1 DEF IInv, TypeOK, Ended
<1>3. Progress'
  BY <1>1
<1>4. ASSUME NEW r \in Runs, r = run
      PROVE  Truthful(r)' /\ Explained(r)'
  <2>1. /\ RecordsOf(r)' = RecordsOf(r)
        /\ Cardinality(RecordsOf(r))' = Cardinality(RecordsOf(r))
        /\ Cardinality(SuccessfulOf(r))' = Cardinality(SuccessfulOf(r))
    BY RecordsStay, CountsStay
  <2>2. Truthful(r)'
    BY <1>1, <1>4, <2>1 DEF Truthful, Fits
  <2>3. Explained(r)'
    BY <1>1, <1>4, <2>1 DEF Explained
  <2> QED
    BY <2>2, <2>3
<1> QED
  BY <1>1, <1>2, <1>3, <1>4 DEF IInv

LEMMA TerminalFits ==
    ASSUME TypeOK, ResultTruthful
    PROVE  Fits(Terminal)
<1>1. Terminal.successful \in 0..MaxTicks /\ 0 <= Terminal.successful
  <2>1. Terminal.successful \in 0..MaxTicks
    BY TerminalTyped
  <2> QED
    BY <2>1, RunnerAssumption, SMT
<1> QED
  BY <1>1, TerminalTyped DEF ResultTruthful, Fits

LEMMA StandingFits ==
    ASSUME IInv, run \in Runs, manifest[run].status \in Outcomes
    PROVE  Fits(manifest[run])
  BY DEF IInv, Truthful, Fits

\* The process ends, leaving manifest m.
LEMMA EndsKeeps ==
    ASSUME IInv, pc # "none", UNCHANGED failed,
           NEW how \in {"0", "1", "signal", "killed"}, Ends(how),
           NEW m \in Manifests, manifest' = [manifest EXCEPT ![run] = m],
           m.status \in Outcomes => Fits(m) /\ how # (IF m.status = "aborted" THEN "0" ELSE "1"),
           RecordsOf(run) # {} /\ m.status \in {"absent", "torn"} =>
              run \in failed \/ how \in {"signal", "killed"}
    PROVE  IInv'
<1>1. run \in Runs /\ result \in Results
  BY DEF IInv, Progress, TypeOK
<1>2. /\ UNCHANGED <<run, records, result>> /\ pc' = "none"
      /\ unit' \in {"inactive", "active", "restarting"}
      /\ exit' = [exit EXCEPT ![run] = how]
  BY DEF Ends
<1>3. Progress'
  BY <1>2 DEF Progress, Starting, Unfinished
<1>4. how \in Ended
  BY DEF Ended
<1> QED
  BY <1>1, <1>2, <1>3, <1>4, RunStep

\* The process goes on, leaving manifest m.
LEMMA GoesOn ==
    ASSUME IInv, pc # "none", UNCHANGED <<unit, run, records, exit>>, result' \in Results,
           pc' \in {"announce", "announcing", "loop", "finalize", "finalizing", "report"},
           failed' \in {failed, failed \union {run}},
           NEW m \in Manifests, manifest' = [manifest EXCEPT ![run] = m],
           m.status \in Outcomes => Fits(m),
           RecordsOf(run) # {} /\ m.status \in {"absent", "torn"} =>
              run \in failed' \/ pc' = "finalizing",
           pc' \in Starting => RecordsOf(run) = {},
           pc' \in Unfinished => m.status \notin Outcomes,
           pc' \in {"loop", "finalize"} => m.status = "running" \/ run \in failed',
           pc' \in {"finalize", "finalizing", "report"} => ResultTruthful',
           pc' = "report" =>
              /\ m.status \notin {"absent", "torn"} \/ run \in failed'
              /\ m.status = "aborted" => result'.early
              /\ m.status = "completed" => ~result'.early
    PROVE  IInv'
<1>1. run \in Runs /\ unit = "active" /\ exit[run] = "none"
  BY DEF IInv, Progress
<1>2. "none" \in Ended /\ exit' = [exit EXCEPT ![run] = "none"]
  BY <1>1 DEF IInv, TypeOK, Ended
<1>3. RecordsOf(run)' = RecordsOf(run)
  BY CurrentStays
<1>4. manifest'[run] = m /\ exit'[run] = "none" => Progress'
  BY <1>1, <1>3 DEF Progress
<1>5. "none" # "0" /\ "none" # "1"
  OBVIOUS
<1> QED
  BY <1>1, <1>2, <1>4, <1>5, RunStep

-----------------------------------------------------------------------------
LEMMA SetupKeeps ==
    ASSUME IInv, Setup
    PROVE  IInv'
<1>1. /\ run \in Runs /\ RecordsOf(run) = {} /\ manifest[run].status \notin Outcomes
      /\ pc # "none" /\ UNCHANGED <<manifest, failed>>
  BY DEF Setup, IInv, Progress, Starting, Unfinished
<1>2. manifest[run] \in Manifests /\ manifest' = [manifest EXCEPT ![run] = manifest[run]]
  BY <1>1, Unwritten DEF IInv
<1>3. CASE pc' = "announce" /\ UNCHANGED <<unit, run, records, result, exit>>
  <2>1. result' \in Results
    BY <1>3 DEF IInv, TypeOK
  <2> QED
    BY <1>1, <1>2, <1>3, <2>1, GoesOn
<1>4. CASE Ends("1")
  BY <1>1, <1>2, <1>4, EndsKeeps
<1> QED
  BY <1>3, <1>4 DEF Setup

LEMMA AnnounceKeeps ==
    ASSUME IInv, Announce
    PROVE  IInv'
<1> DEFINE first == Manifest("running", NoCount, NoCount)
<1>1. /\ run \in Runs /\ RecordsOf(run) = {} /\ manifest[run].status \notin Outcomes
      /\ pc # "none" /\ UNCHANGED <<unit, run, records, result, exit>> /\ result' \in Results
  BY DEF Announce, OpenManifest, WriteManifest, IInv, Progress, TypeOK, Starting, Unfinished
<1>2. manifest[run] \in Manifests /\ manifest = [manifest EXCEPT ![run] = manifest[run]]
  BY <1>1, Unwritten DEF IInv
<1>3. CASE pc' = "announcing" /\ SetManifest(Torn) /\ UNCHANGED failed
  <2>1. manifest' = [manifest EXCEPT ![run] = Torn] /\ Torn.status \notin Outcomes
    BY <1>3, ManifestsTyped DEF SetManifest, Outcomes
  <2> QED
    BY <1>1, <1>3, <2>1, ManifestsTyped, GoesOn
<1>4. CASE pc' = "loop" /\ failed' = failed \union {run} /\ UNCHANGED manifest
  BY <1>1, <1>2, <1>4, GoesOn DEF Starting
<1>5. CASE pc' = "loop" /\ SetManifest(first) /\ UNCHANGED failed
  <2>1. /\ manifest' = [manifest EXCEPT ![run] = first] /\ first \in Manifests
        /\ first.status = "running" /\ "running" \notin Outcomes
    BY <1>5, ManifestsTyped DEF SetManifest, Outcomes
  <2> HIDE DEF first
  <2> QED
    BY <1>1, <1>5, <2>1, GoesOn DEF Starting
<1>6. CASE /\ pc' = "loop" /\ failed' = failed \union {run}
           /\ manifest' = [manifest EXCEPT ![run] = first]
  <2>1. first \in Manifests /\ first.status = "running" /\ "running" \notin Outcomes
    BY ManifestsTyped DEF Outcomes
  <2> HIDE DEF first
  <2> QED
    BY <1>1, <1>6, <2>1, GoesOn DEF Starting
<1> QED
  BY <1>3, <1>4, <1>5, <1>6 DEF Announce, OpenManifest, WriteManifest

LEMMA ReturnKeeps ==
    ASSUME IInv, RunReturns
    PROVE  IInv'
<1>1. /\ run \in Runs /\ manifest[run].status \notin Outcomes
      /\ manifest[run].status = "running" \/ run \in failed
      /\ pc # "none" /\ pc' = "finalize" /\ UNCHANGED <<unit, run, records, manifest, failed, exit>>
  BY DEF RunReturns, IInv, Progress, Unfinished
<1>2. manifest[run] \in Manifests /\ manifest' = [manifest EXCEPT ![run] = manifest[run]]
  BY <1>1, Unwritten DEF IInv
<1>3. PICK r \in Results :
         /\ result' = r
         /\ r.total <= Cardinality(RecordsOf(run))
         /\ Cardinality(RecordsOf(run)) <= r.total + 1
         /\ r.successful <= Cardinality(SuccessfulOf(run))
  <2>1. PICK r \in Results :
           /\ result' = r
           /\ \/ /\ r.total = Cardinality(RecordsOf(run))
                 /\ r.successful = Cardinality(SuccessfulOf(run))
              \/ /\ r.total <= Cardinality(RecordsOf(run))
                 /\ Cardinality(RecordsOf(run)) <= r.total + 1
                 /\ r.successful <= Cardinality(SuccessfulOf(run))
    BY DEF RunReturns
  <2>2. r.total \in Nat /\ r.successful \in Nat
    BY RunnerAssumption, SMT DEF Results
  <2>3. CASE /\ r.total = Cardinality(RecordsOf(run))
             /\ r.successful = Cardinality(SuccessfulOf(run))
    BY <2>1, <2>2, <2>3, SMT
  <2> QED
    BY <2>1, <2>3
<1>4. ResultTruthful'
  BY <1>1, <1>3, CurrentStays DEF ResultTruthful
<1>5. "running" \notin {"absent", "torn"}
  OBVIOUS
<1> QED
  BY <1>1, <1>2, <1>3, <1>4, <1>5, GoesOn DEF Starting

LEMMA RaiseKeeps ==
    ASSUME IInv, RunRaises
    PROVE  IInv'
<1>1. /\ run \in Runs /\ manifest[run].status \notin Outcomes
      /\ manifest[run].status = "running" \/ run \in failed
      /\ pc # "none" /\ Ends("1") /\ UNCHANGED <<manifest, failed>>
  BY DEF RunRaises, IInv, Progress, Unfinished
<1>2. manifest[run] \in Manifests /\ manifest' = [manifest EXCEPT ![run] = manifest[run]]
  BY <1>1, Unwritten DEF IInv
<1> QED
  BY <1>1, <1>2, EndsKeeps

LEMMA FinalizeKeeps ==
    ASSUME IInv, Finalize
    PROVE  IInv'
<1>1. /\ run \in Runs /\ manifest[run].status \notin Outcomes /\ pc # "none"
      /\ UNCHANGED <<unit, run, records, result, exit>> /\ result' \in Results
      /\ ResultTruthful
      /\ pc = "finalize" => manifest[run].status = "running" \/ run \in failed
  BY DEF Finalize, OpenManifest, WriteManifest, IInv, Progress, TypeOK, Unfinished
<1>2. manifest[run] \in Manifests /\ manifest = [manifest EXCEPT ![run] = manifest[run]]
  BY <1>1, Unwritten DEF IInv
<1>3. ResultTruthful'
  BY <1>1, CurrentStays
<1>4. CASE pc' = "finalizing" /\ SetManifest(Torn) /\ UNCHANGED failed
  <2>1. manifest' = [manifest EXCEPT ![run] = Torn] /\ Torn.status \notin Outcomes
    BY <1>4, ManifestsTyped DEF SetManifest, Outcomes
  <2> QED
    BY <1>1, <1>3, <1>4, <2>1, ManifestsTyped, GoesOn DEF Starting
<1>5. CASE pc' = "report" /\ failed' = failed \union {run} /\ manifest' = manifest
  BY <1>1, <1>2, <1>3, <1>5, GoesOn DEF Starting, Unfinished, Outcomes
<1>6. CASE /\ pc' = "report" /\ failed' \in {failed, failed \union {run}}
           /\ manifest' = [manifest EXCEPT ![run] = Terminal]
  <2>1. /\ Terminal \in Manifests /\ Fits(Terminal)
        /\ Terminal.status = IF result'.early THEN "aborted" ELSE "completed"
    BY <1>1, TerminalTyped, TerminalFits DEF IInv
  <2> HIDE DEF Terminal
  <2> QED
    BY <1>1, <1>3, <1>6, <2>1, GoesOn DEF Starting, Unfinished
<1> QED
  BY <1>4, <1>5, <1>6 DEF Finalize, OpenManifest, WriteManifest, SetManifest

LEMMA ReportKeeps ==
    ASSUME IInv, Report
    PROVE  IInv'
<1> DEFINE how == IF result.early THEN "1" ELSE "0"
<1>1. /\ run \in Runs /\ pc # "none" /\ UNCHANGED <<manifest, failed>> /\ Ends(how)
      /\ manifest[run].status \notin {"absent", "torn"} \/ run \in failed
      /\ manifest[run].status = "aborted" => result.early
      /\ manifest[run].status = "completed" => ~result.early
  BY DEF Report, IInv, Progress
<1>2. manifest[run] \in Manifests /\ manifest' = [manifest EXCEPT ![run] = manifest[run]]
  BY <1>1, Unwritten DEF IInv
<1>3. manifest[run].status \in Outcomes => Fits(manifest[run])
  BY <1>1, StandingFits
<1>4. manifest[run].status \in Outcomes =>
         how # (IF manifest[run].status = "aborted" THEN "0" ELSE "1")
  BY <1>1 DEF Outcomes
<1>5. how \in {"0", "1", "signal", "killed"}
  OBVIOUS
<1> HIDE DEF how
<1> QED
  BY <1>1, <1>2, <1>3, <1>4, <1>5, EndsKeeps

\* A signal or a kill, whatever it cuts short.
LEMMA CutKeeps ==
    ASSUME IInv, NEW how \in {"signal", "killed"}, pc # "none", Ends(how), CutShort,
           UNCHANGED failed
    PROVE  IInv'
<1>1. run \in Runs
  BY DEF IInv, Progress
<1>2. manifest[run] \in Manifests /\ manifest = [manifest EXCEPT ![run] = manifest[run]]
  BY <1>1, Unwritten DEF IInv
<1>3. how \in {"0", "1", "signal", "killed"} /\ how # "0" /\ how # "1"
  OBVIOUS
<1>4. CASE manifest' = manifest
  BY <1>1, <1>2, <1>3, <1>4, StandingFits, EndsKeeps
<1>5. CASE pc = "announcing"
           /\ manifest' = [manifest EXCEPT ![run] = Manifest("running", NoCount, NoCount)]
  <2> DEFINE first == Manifest("running", NoCount, NoCount)
  <2>1. first \in Manifests /\ first.status \notin Outcomes
    BY ManifestsTyped DEF Outcomes
  <2>2. manifest' = [manifest EXCEPT ![run] = first]
    BY <1>5
  <2> HIDE DEF first
  <2> QED
    BY <1>3, <2>1, <2>2, EndsKeeps
<1>6. CASE pc = "finalizing" /\ manifest' = [manifest EXCEPT ![run] = Terminal]
  <2>1. Terminal \in Manifests /\ Fits(Terminal)
    BY <1>6, TerminalTyped, TerminalFits DEF IInv, Progress
  <2> HIDE DEF Terminal
  <2> QED
    BY <1>3, <1>6, <2>1, EndsKeeps
<1> QED
  BY <1>4, <1>5, <1>6 DEF CutShort

LEMMA StepIInv == IInv /\ [Next]_vars => IInv'
<1> SUFFICES ASSUME IInv, [Next]_vars PROVE IInv'
  OBVIOUS
<1>1. CASE Start \/ Restart
  <2>1. pc = "none" /\ Launch
    BY <1>1 DEF Start, Restart, IInv, Progress
  <2> QED
    BY <2>1, LaunchKeeps
<1>2. CASE CancelRestart
  <2>1. pc = "none" /\ unit' = "inactive" /\ UNCHANGED <<run, pc, records, result, manifest, failed, exit>>
    BY <1>2 DEF CancelRestart, IInv, Progress
  <2>2. TypeOK' /\ Progress' /\ ToCome'
    BY <2>1 DEF IInv, TypeOK, Progress, ToCome, RecordsOf, Starting, Unfinished
  <2>3. \A r \in Runs : Truthful(r)' /\ Explained(r)'
    BY <2>1 DEF IInv, Truthful, Explained, RecordsOf, SuccessfulOf
  <2> QED
    BY <2>2, <2>3 DEF IInv
<1>3. CASE Setup
  BY <1>3, SetupKeeps
<1>4. CASE Announce
  BY <1>4, AnnounceKeeps
<1>5. CASE Archive
  BY <1>5, ArchiveKeeps
<1>6. CASE RunReturns
  BY <1>6, ReturnKeeps
<1>7. CASE RunRaises
  BY <1>7, RaiseKeeps
<1>8. CASE Finalize
  BY <1>8, FinalizeKeeps
<1>9. CASE Report
  BY <1>9, ReportKeeps
<1>10. CASE Interrupted \/ Killed
  BY <1>10, CutKeeps DEF Interrupted, Killed
<1>11. CASE UNCHANGED vars
  <2>1. TypeOK' /\ Progress' /\ ToCome'
    BY <1>11 DEF vars, IInv, TypeOK, Progress, ToCome, ResultTruthful, RecordsOf, SuccessfulOf
  <2>2. \A r \in Runs : Truthful(r)' /\ Explained(r)'
    BY <1>11 DEF vars, IInv, Truthful, Explained, RecordsOf, SuccessfulOf
  <2> QED
    BY <2>1, <2>2 DEF IInv
<1> QED
  BY <1>1, <1>2, <1>3, <1>4, <1>5, <1>6, <1>7, <1>8, <1>9, <1>10, <1>11 DEF Next

LEMMA Invariance == Spec => []IInv
  BY InitIInv, StepIInv, PTL DEF Spec

(***************************************************************************)
(* The variables of the day keep their types; in particular a manifest     *)
(* never counts more than a run can archive (manifest.py:35-74).           *)
(***************************************************************************)
THEOREM TypeCorrect == Spec => []TypeOK
<1>1. IInv => TypeOK
  BY DEF IInv
<1> QED
  BY <1>1, Invariance, PTL

(***************************************************************************)
(* A manifest's outcome is true of the records of its run and agrees with  *)
(* the exit status, wherever the process is killed                         *)
(* (discovery_run.py:358-403).                                             *)
(***************************************************************************)
THEOREM OutcomeTrue == Spec => []OutcomeTruthful
<1>1. IInv => OutcomeTruthful
  BY DEF IInv, Truthful, OutcomeTruthful, Outcomes
<1> QED
  BY <1>1, Invariance, PTL

(***************************************************************************)
(* Records without a manifest are of a run whose manifest write failed, or *)
(* which was cut short (discovery_run.py:337, manifest.py:129-136).        *)
(***************************************************************************)
THEOREM OrphansKnown == Spec => []OrphansExplained
<1>1. IInv => OrphansExplained
  BY DEF IInv, Explained, OrphansExplained
<1> QED
  BY <1>1, Invariance, PTL

(***************************************************************************)
(* The validator's silence means a finished run, every record of which its *)
(* manifest counts (validate_day.py:200-248).                              *)
(***************************************************************************)
THEOREM SilenceIsTrue == Spec => []SilenceMeansFinished
<1>1. IInv => SilenceMeansFinished
  <2> SUFFICES ASSUME IInv, NEW r \in Runs, Issues(r) = {}
               PROVE  /\ manifest[r].status \in Outcomes
                      /\ manifest[r].total = Cardinality(RecordsOf(r))
                      /\ exit[r] = "1" => manifest[r].status = "aborted"
    BY DEF SilenceMeansFinished, Outcomes
  <2>1. manifest[r].status \notin {"absent", "torn", "running"}
    BY DEF Issues
  <2>2. manifest[r].status \in Outcomes
    BY <2>1 DEF IInv, TypeOK, Manifests, Outcomes
  <2>3. manifest[r].total \in {NoCount, Cardinality(RecordsOf(r))}
    BY <2>1 DEF Issues
  <2> QED
    BY <2>2, <2>3 DEF IInv, Truthful, Outcomes
<1> QED
  BY <1>1, Invariance, PTL

\* A manifest is written by the current run alone.
LEMMA OwnManifest ==
    ASSUME IInv, Next, NEW r \in Runs, exit[r] # "none"
    PROVE  manifest'[r] = manifest[r]
<1>1. ~ (Start \/ Restart \/ CancelRestart) => pc # "none"
  BY DEF Next, Setup, Announce, Archive, RunReturns, RunRaises, Finalize, Report,
         Interrupted, Killed, OpenManifest, WriteManifest
<1>2. pc # "none" => r # run
  BY DEF IInv, Progress
<1>3. manifest' = manifest \/ \E m : manifest' = [manifest EXCEPT ![run] = m]
  BY DEF Next, Start, Restart, Launch, CancelRestart, Setup, Announce, Archive, RunReturns,
         RunRaises, Finalize, Report, Interrupted, Killed, OpenManifest, WriteManifest,
         SetManifest, CutShort
<1>4. CASE Start \/ Restart \/ CancelRestart
  BY <1>4 DEF Start, Restart, Launch, CancelRestart
<1>5. CASE ~ (Start \/ Restart \/ CancelRestart)
  BY <1>1, <1>2, <1>3, <1>5 DEF IInv, TypeOK
<1> QED
  BY <1>4, <1>5

\* A record is added by the current run alone.
LEMMA OwnRecords ==
    ASSUME IInv, Next, NEW r \in Runs, exit[r] # "none"
    PROVE  RecordsOf(r)' = RecordsOf(r)
<1>1. CASE Archive
  <2>1. r # run
    BY <1>1 DEF Archive, IInv, Progress
  <2> QED
    BY <1>1, <2>1, ArchiveAdds
<1>2. CASE ~Archive
  <2>1. UNCHANGED records
    BY <1>2 DEF Next, Start, Restart, Launch, CancelRestart, Setup, Announce, RunReturns,
           RunRaises, Finalize, Report, Interrupted, Killed, OpenManifest, WriteManifest, Ends
  <2> QED
    BY <2>1, RecordsStay
<1> QED
  BY <1>1, <1>2

(***************************************************************************)
(* No later process touches what an ended run has archived, nor its        *)
(* manifest, though all write to one file of the day                       *)
(* (discovery_run.py:247).                                                 *)
(***************************************************************************)
THEOREM PastIsFrozen == Spec => PastRunsFrozen
<1>1. IInv /\ [Next]_vars =>
        [\A r \in Runs : exit[r] # "none" =>
            /\ manifest'[r] = manifest[r]
            /\ RecordsOf(r)' = RecordsOf(r)]_<<manifest, records>>
  BY OwnManifest, OwnRecords DEF vars
<1> QED
  BY <1>1, Invariance, PTL DEF Spec, PastRunsFrozen
=============================================================================
