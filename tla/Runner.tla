------------------------------- MODULE Runner -------------------------------
(***************************************************************************)
(* A day of the service: systemd starting and restarting                   *)
(* scripts/discovery_run.py, whose main() writes a manifest before the     *)
(* poll loop and again after it (lib/discovery/manifest.py), and the day   *)
(* validator (tools/data_quality/validate_day.py) joining the manifests to *)
(* the records.                                                            *)
(*                                                                         *)
(* DiscoveryController.run is what module Controller shows of it: it       *)
(* archives records, and then returns a result that agrees with them (the  *)
(* invariant CountsAgree there), raises, or lets KeyboardInterrupt out.    *)
(* The process may be killed, or the host stop, between any two steps.     *)
(***************************************************************************)
EXTENDS Integers, Sequences, FiniteSets

CONSTANTS MaxRuns,      \* bound: processes started in the day
          MaxTicks      \* bound: records of one run

ASSUME RunnerAssumption == MaxRuns \in Nat /\ MaxTicks \in Nat

Runs  == 1..MaxRuns
NoRun == 0

\* Counts of a manifest; NoCount for None.
NoCount == -1
Counts  == 0..MaxTicks \union {NoCount}

\* A manifest file.  "torn" is any content that is not the whole JSON text.
Manifests == [status : {"absent", "torn", "running", "completed", "aborted"},
              total : Counts, successful : Counts]
Manifest(status, total, successful) ==
    [status |-> status, total |-> total, successful |-> successful]
Absent == Manifest("absent", NoCount, NoCount)
Torn   == Manifest("torn", NoCount, NoCount)

VARIABLES
    unit,      \* systemd's view: "inactive", "active", "restarting"
    run,       \* the run of the current process, the last one started
    pc,        \* the next step of main()
    records,   \* the day's file: for each record its run and whether a chain was fetched
    result,    \* what run() returned, NoResult before
    manifest,  \* [Runs -> Manifests]
    failed,    \* runs one of whose manifest writes raised
    exit       \* [Runs -> how the process ended]

vars == <<unit, run, pc, records, result, manifest, failed, exit>>

Results  == [total : 0..MaxTicks, successful : 0..MaxTicks, early : BOOLEAN]
NoResult == [total |-> 0, successful |-> 0, early |-> FALSE]

TypeOK ==
    /\ unit \in {"inactive", "active", "restarting"}
    /\ run \in Runs \union {NoRun}
    /\ pc \in {"none", "setup", "announce", "announcing", "loop", "finalize",
               "finalizing", "report"}
    /\ records  \in Seq([run : Runs, ok : BOOLEAN])
    /\ result   \in Results
    /\ manifest \in [Runs -> Manifests]
    /\ failed   \subseteq Runs
    /\ exit     \in [Runs -> {"none", "0", "1", "signal", "killed"}]

Init ==
    /\ unit = "inactive" /\ run = NoRun /\ pc = "none"
    /\ records = <<>> /\ result = NoResult
    /\ manifest = [r \in Runs |-> Absent] /\ failed = {}
    /\ exit = [r \in Runs |-> "none"]

-----------------------------------------------------------------------------
RecordsOf(r)    == {i \in DOMAIN records : records[i].run = r}
SuccessfulOf(r) == {i \in RecordsOf(r) : records[i].ok}

(***************************************************************************)
(* systemd.  Restart=on-failure: an exit status of 1 or a kill is a        *)
(* failure, SIGTERM and SIGINT are clean.  `systemctl stop' sends SIGTERM, *)
(* and SIGKILL after TimeoutStopSec; other kills come by themselves.       *)
(***************************************************************************)
Launch ==
    /\ run < MaxRuns
    /\ unit' = "active" /\ run' = run + 1 /\ pc' = "setup"
    /\ result' = NoResult
    /\ UNCHANGED <<records, manifest, failed, exit>>

Start   == unit = "inactive" /\ Launch
Restart == unit = "restarting" /\ Launch

Ends(how) ==
    /\ pc' = "none" /\ exit' = [exit EXCEPT ![run] = how]
    /\ unit' = IF how \in {"1", "killed"} THEN "restarting" ELSE "inactive"
    /\ UNCHANGED <<run, records, result>>

\* systemctl stop before the restart is due.
CancelRestart ==
    /\ unit = "restarting" /\ unit' = "inactive"
    /\ UNCHANGED <<run, pc, records, result, manifest, failed, exit>>

-----------------------------------------------------------------------------
SetManifest(m) == manifest' = [manifest EXCEPT ![run] = m]

\* Steps 1 to 6: configuration, paths and the assembly of the components.
Setup ==
    /\ pc = "setup"
    /\ \/ /\ pc' = "announce"
          /\ UNCHANGED <<unit, run, records, result, exit>>
       \/ Ends("1")
    /\ UNCHANGED <<manifest, failed>>

(***************************************************************************)
(* write_manifest, first half: mkdir, and open(..., "w"), which empties    *)
(* the file before anything is written to it.  An OSError becomes an       *)
(* ArchiverError, which _write_manifest_safe logs.                         *)
(***************************************************************************)
OpenManifest(from, writing, next) ==
    /\ pc = from
    /\ \/ pc' = writing /\ SetManifest(Torn) /\ UNCHANGED failed
       \/ pc' = next /\ failed' = failed \union {run} /\ UNCHANGED manifest
    /\ UNCHANGED <<unit, run, records, result, exit>>

\* Second half: write, flush and fsync, any of which may fail.
WriteManifest(writing, next, m) ==
    /\ pc = writing /\ pc' = next
    /\ \/ SetManifest(m) /\ UNCHANGED failed
       \/ failed' = failed \union {run} /\ manifest' \in {manifest, [manifest EXCEPT ![run] = m]}
    /\ UNCHANGED <<unit, run, records, result, exit>>

\* Mutant: no manifest before the poll loop.
AnnounceNothing ==
    /\ pc = "announce" /\ pc' = "loop"
    /\ UNCHANGED <<unit, run, records, result, manifest, failed, exit>>

Announce ==
    \/ OpenManifest("announce", "announcing", "loop")
    \/ WriteManifest("announcing", "loop", Manifest("running", NoCount, NoCount))

\* Mutant: the run archives under the identity of the run before it.
ArchiveStaleId ==
    /\ pc = "loop" /\ Cardinality(RecordsOf(run)) < MaxTicks
    /\ \E ok \in BOOLEAN :
         records' = Append(records, [run |-> IF run = 1 THEN 1 ELSE run - 1, ok |-> ok])
    /\ UNCHANGED <<unit, run, pc, result, manifest, failed, exit>>

\* A tick of run(): one record, under the run's own id.
Archive ==
    /\ pc = "loop" /\ Cardinality(RecordsOf(run)) < MaxTicks
    /\ \E ok \in BOOLEAN : records' = Append(records, [run |-> run, ok |-> ok])
    /\ UNCHANGED <<unit, run, pc, result, manifest, failed, exit>>

(***************************************************************************)
(* run() returns.  Ended by itself, its counts are exact.  Ended early by  *)
(* a fatal error or by SIGTERM, the record of the tick in progress may be  *)
(* archived and not counted, or counted in total_ticks alone.              *)
(***************************************************************************)
RunReturns ==
    /\ pc = "loop" /\ pc' = "finalize"
    /\ \E r \in Results :
         /\ result' = r
         /\ \/ /\ ~r.early
               /\ r.total = Cardinality(RecordsOf(run))
               /\ r.successful = Cardinality(SuccessfulOf(run))
            \/ /\ r.total <= Cardinality(RecordsOf(run))
               /\ Cardinality(RecordsOf(run)) <= r.total + 1
               /\ r.successful <= r.total
               /\ r.successful <= Cardinality(SuccessfulOf(run))
               /\ Cardinality(SuccessfulOf(run)) <= r.successful + 1
    /\ UNCHANGED <<unit, run, records, manifest, failed, exit>>

\* Mutant: an unhandled error is recorded in the manifest like any other end.
RunRaisesRecorded ==
    /\ pc = "loop" /\ Ends("1")
    /\ SetManifest(Manifest("aborted", NoCount, NoCount))
    /\ UNCHANGED failed

\* run() raises: exit status 1, and the manifest is left as it is.
RunRaises ==
    /\ pc = "loop" /\ Ends("1")
    /\ UNCHANGED <<manifest, failed>>

\* Mutant: every completed tick is taken for a successful poll.
TerminalAllSuccessful ==
    Manifest(IF result.early THEN "aborted" ELSE "completed", result.total, result.total)

Terminal ==
    Manifest(IF result.early THEN "aborted" ELSE "completed", result.total, result.successful)

Finalize ==
    \/ OpenManifest("finalize", "finalizing", "report")
    \/ WriteManifest("finalizing", "report", Terminal)

\* Step 8: an early end raises PhaseAbortedError.
Report ==
    /\ pc = "report"
    /\ Ends(IF result.early THEN "1" ELSE "0")
    /\ UNCHANGED <<manifest, failed>>

\* What a manifest write cut short leaves: everything or not.
CutShort ==
    CASE pc = "announcing" ->
           manifest' \in {manifest, [manifest EXCEPT ![run] = Manifest("running", NoCount, NoCount)]}
      [] pc = "finalizing" -> manifest' \in {manifest, [manifest EXCEPT ![run] = Terminal]}
      [] OTHER -> UNCHANGED manifest

(***************************************************************************)
(* SIGTERM outside run(), or a second one inside it: KeyboardInterrupt     *)
(* leaves main().                                                          *)
(***************************************************************************)
Interrupted ==
    /\ pc # "none" /\ Ends("signal")
    /\ CutShort /\ UNCHANGED failed

\* SIGKILL, out of memory, or the host: nothing of the process runs any more.
Killed ==
    /\ pc # "none" /\ Ends("killed")
    /\ CutShort /\ UNCHANGED failed

Next ==
    \/ Start \/ Restart \/ CancelRestart
    \/ Setup \/ Announce \/ Archive \/ RunReturns \/ RunRaises \/ Finalize \/ Report
    \/ Interrupted \/ Killed

Spec == Init /\ [][Next]_vars

-----------------------------------------------------------------------------
(***************************************************************************)
(* check_manifest_consistency on the records of run r.  load_manifests     *)
(* skips a file that does not parse.                                       *)
(***************************************************************************)
Issues(r) ==
    LET m == manifest[r]
    IN  IF m.status \in {"absent", "torn"} THEN {"no manifest"}
        ELSE (IF m.status = "running" THEN {"running"} ELSE {})
             \union (IF m.total \notin {NoCount, Cardinality(RecordsOf(r))}
                       THEN {"total_ticks"} ELSE {})
             \union (IF m.successful \notin {NoCount, Cardinality(SuccessfulOf(r))}
                       THEN {"successful_polls"} ELSE {})

(***************************************************************************)
(* A manifest with an outcome is about the run it names: it is written     *)
(* only after run() returned, and claims at most what the day's file holds *)
(* of that run, less at most the one record the end overtook.  It agrees   *)
(* with the exit status systemd acts on, which is decided apart            *)
(* (discovery_run.py:358-403, controller.py:249-256).                      *)
(***************************************************************************)
OutcomeTruthful ==
    \A r \in Runs :
        manifest[r].status \in {"completed", "aborted"} =>
            /\ manifest[r].total <= Cardinality(RecordsOf(r))
            /\ Cardinality(RecordsOf(r)) <= manifest[r].total + 1
            /\ manifest[r].successful <= Cardinality(SuccessfulOf(r))
            /\ 0 <= manifest[r].successful
            /\ exit[r] # (IF manifest[r].status = "aborted" THEN "0" ELSE "1")

(***************************************************************************)
(* The validator is not silent on a run that did not finish: when it       *)
(* raises no issue for the records of a run, that run reached the end of   *)
(* run() and its manifest counts every one of them                         *)
(* (validate_day.py:200-248, manifest.py:51-56).                           *)
(***************************************************************************)
SilenceMeansFinished ==
    \A r \in Runs : RecordsOf(r) # {} /\ Issues(r) = {} =>
        /\ manifest[r].status \in {"completed", "aborted"}
        /\ manifest[r].total = Cardinality(RecordsOf(r))
        /\ exit[r] = "1" => manifest[r].status = "aborted"

(***************************************************************************)
(* Records without a manifest to join them to belong to a run one of whose *)
(* manifest writes failed, or which a signal, a kill or the host cut       *)
(* short; every run whose run() was left by an error or by a return, and   *)
(* every one still polling, is joinable (discovery_run.py:337).            *)
(***************************************************************************)
OrphansExplained ==
    \A r \in Runs :
        RecordsOf(r) # {} /\ manifest[r].status \in {"absent", "torn"} =>
            r \in failed \/ (r = run /\ pc = "finalizing") \/ exit[r] \in {"signal", "killed"}

(***************************************************************************)
(* What a run has archived belongs to it alone: no later process adds to   *)
(* it or changes its manifest, although all write to the same file of the  *)
(* day (run_uid, discovery_run.py:247).                                    *)
(***************************************************************************)
PastRunsFrozen ==
    [][\A r \in Runs : exit[r] # "none" =>
          /\ manifest'[r] = manifest[r]
          /\ RecordsOf(r)' = RecordsOf(r)]_<<manifest, records>>

(***************************************************************************)
(* "A run killed between the two writes leaves a status="running" manifest *)
(* that is still joinable to the records it produced [...] never an        *)
(* orphan" (docs/PHASE1_FREEZE.md:51-53).  The second write empties the    *)
(* file first: a run killed inside it leaves no manifest.                  *)
(***************************************************************************)
KilledRunJoinable ==
    \A r \in Runs : exit[r] = "killed" /\ r \notin failed /\ RecordsOf(r) # {} =>
        manifest[r].status \notin {"absent", "torn"}
=============================================================================
