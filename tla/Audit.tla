------------------------------- MODULE Audit --------------------------------
(***************************************************************************)
(* A day's file of records, written by one run after another, and the two  *)
(* tools that judge it (tools/data_quality/): validate_day, which looks    *)
(* for what went wrong, and coverage, which counts what is missing.        *)
(*                                                                         *)
(* The runs write what Controller and Derivation show they write, each at  *)
(* a poll interval of its own; they go on when a manifest cannot be        *)
(* written (scripts/discovery_run.py).  Once the day is over the file may  *)
(* be damaged: a line garbled (a torn write, a bad block), cut out, or     *)
(* repeated (a copy resumed at the wrong place).                           *)
(***************************************************************************)
EXTENDS Continuity, SequencesExt

CONSTANTS Intervals,  \* the poll intervals a run may have
          Tolerance,  \* _INTERVAL_MISMATCH_TOL
          Gaps,       \* what the wall clock advances by between two ticks
          MaxTicks,   \* bound: records of the day
          MaxRuns,    \* bound: runs of the day
          MaxFaults   \* bound: lines damaged

ASSUME AuditAssumption == /\ Gaps \subseteq Int /\ Intervals \subseteq Nat \ {0}
                          /\ {Tolerance, MaxTicks, MaxRuns, MaxFaults} \subseteq Nat

Runs    == 1..MaxRuns
Records == [id : 1..MaxTicks, run : Runs, at : Int, prev : 0..MaxTicks,
            interval : Intervals, status : Statuses, actual : Int]

\* A line that load_jsonl reports as a LineError.
Garbled == [id |-> 0]

VARIABLES
    written,    \* every record of the day, in order: the i-th has id i
    clock,      \* the wall clock
    run,        \* the run in progress or the last one, 0 before the first
    running,    \* it is in progress, or was killed
    every,      \* [Runs -> the poll interval of the run], 0 before its start
    prev,       \* its last record, 0 before its first
    manifest,   \* [Runs -> what load_manifests reads of the run's manifest]
    file,       \* the lines of the file
    faults      \* lines damaged; the day is over when there is one

vars == <<written, clock, run, running, every, prev, manifest, file, faults>>

\* A manifest is missing when its file is not there or is not JSON; a run that
\* ended early is as good as "completed" here.
NoTotal == -1
Missing == [status |-> "none", total |-> NoTotal]

Init ==
    /\ written = <<>> /\ file = <<>> /\ faults = 0
    /\ clock = 0 /\ run = 0 /\ running = FALSE /\ prev = 0
    /\ every = [r \in Runs |-> 0] /\ manifest = [r \in Runs |-> Missing]

-----------------------------------------------------------------------------
\* write_manifest; one that fails leaves the file as it was, truncated and so unreadable,
\* or, when it is the fsync that fails, whole.  The failure is logged, and the run goes on.
WriteManifest(r, m) ==
    \E left \in {manifest[r], Missing, m} : manifest' = [manifest EXCEPT ![r] = left]

\* A process starts, after a run that ended or was killed: a new session, and a
\* manifest without counts.
StartRun ==
    /\ faults = 0 /\ run < MaxRuns
    /\ run' = run + 1 /\ running' = TRUE /\ prev' = 0
    /\ \E interval \in Intervals : every' = [every EXCEPT ![run + 1] = interval]
    /\ WriteManifest(run + 1, [status |-> "running", total |-> NoTotal])
    /\ UNCHANGED <<written, clock, file, faults>>

TicksOf(r) == Cardinality({i \in DOMAIN written : written[i].run = r})

\* The run ends, with the count of its result: that of the archive, or one less when a
\* signal fell between a write and its counting, or the last write failed after its line
\* had landed (Controller, CountsAgree).
EndRun ==
    /\ faults = 0 /\ running /\ running' = FALSE
    /\ \E counted \in {TicksOf(run), Max({0, TicksOf(run) - 1})} :
          WriteManifest(run, [status |-> "completed", total |-> counted])
    /\ UNCHANGED <<written, clock, run, every, prev, file, faults>>

\* A tick: the snapshot names the one before it in its run.
Tick(gap) ==
    LET now == IF prev = 0 THEN clock ELSE clock + gap
        rec == [id |-> Len(written) + 1, run |-> run, at |-> now, prev |-> prev,
                interval |-> every[run],
                status |-> Classify(every[run], prev = 0, now - clock), actual |-> now - clock]
    IN  /\ faults = 0 /\ running /\ Len(written) < MaxTicks
        /\ written' = Append(written, rec) /\ file' = Append(file, rec)
        /\ clock' = now /\ prev' = rec.id
        /\ UNCHANGED <<run, running, every, manifest, faults>>

Damage(lines) ==
    /\ faults < MaxFaults /\ faults' = faults + 1
    /\ file' = lines
    /\ UNCHANGED <<written, clock, run, running, every, prev, manifest>>

Garble(i) == Damage(ReplaceAt(file, i, Garbled))
Cut(i)    == Damage(RemoveAt(file, i))
Repeat(i) == Damage(InsertAt(file, i, file[i]))

Next ==
    \/ StartRun \/ EndRun
    \/ \E gap \in Gaps : Tick(gap)
    \/ \E i \in DOMAIN file : Garble(i) \/ Cut(i) \/ Repeat(i)

Spec == Init /\ [][Next]_vars

-----------------------------------------------------------------------------
(***************************************************************************)
(* The readers.  load_jsonl and group_by_session: the lines that parse,    *)
(* the runs they are of, and those of each run.                            *)
(***************************************************************************)
Lines == {i \in DOMAIN file : file[i] # Garbled}

Sessions == {file[i].run : i \in Lines}

Of(r) == {i \in Lines : file[i].run = r}

\* Mutant: equal times in the opposite order.
BeforeUnstable(r, i) ==
    {j \in Of(r) : file[j].at < file[i].at \/ (file[j].at = file[i].at /\ i < j)}

\* sort_by_time: by time, equal times as they stand in the file.
Before(r, i) ==
    {j \in Of(r) : file[j].at < file[i].at \/ (file[j].at = file[i].at /\ j < i)}

\* The line with k - 1 of its session before it, and the session's records.
Place(r, k) == CHOOSE i \in Of(r) : Cardinality(Before(r, i)) = k - 1
Ordered(r)  == [k \in 1..Cardinality(Of(r)) |-> file[Place(r, k)]]

(***************************************************************************)
(* validate_day: what each check reports, as errors and warnings.          *)
(***************************************************************************)
Error(what, where) == [severity |-> "ERROR", what |-> what, where |-> where]
Warn(what, where)  == [severity |-> "WARN", what |-> what, where |-> where]

IntegrityIssues == {Error("line", i) : i \in DOMAIN file \ Lines}

Repeated(S, key(_)) == {i \in S : \E j \in S : i # j /\ key(file[i]) = key(file[j])}

DuplicateIssues ==
    {Error("poll_id", file[i].id) : i \in Repeated(Lines, LAMBDA rec : rec.id)}
      \union UNION {{Warn("timestamp", file[i].at) : i \in Repeated(Of(r), LAMBDA rec : rec.at)}
                      : r \in Sessions}

\* Mutant: links are compared between contiguous snapshots only.
ContinuityContiguous(r) ==
    LET recs == Ordered(r)
    IN  {Error("broken", recs[i].id) : i \in {k \in 2..Len(recs) :
              recs[k].status = "CONTIGUOUS" /\ recs[k].prev # recs[k - 1].id}}
          \union {Warn("mid-run", r) : i \in {k \in {1} : recs[k].status # "FIRST"}}

\* The link, the gap and the interval of each record but the first.
ContinuityIssues(r) ==
    LET recs  == Ordered(r)
        later == 2..Len(recs)
    IN  (IF recs[1].status # "FIRST" THEN {Warn("mid-run", recs[1].id)} ELSE {})
          \union {Error("broken", recs[k].id) : k \in {i \in later : recs[i].prev # recs[i - 1].id}}
          \union {Warn("gap", recs[k].id) : k \in {i \in later : recs[i].status = "GAP"}}
          \union {Warn("interval", recs[k].id) : k \in
                    {i \in later : /\ recs[i].status # "FIRST"
                                   /\ (recs[i].at - recs[i - 1].at) - recs[i].actual
                                        \notin -Tolerance..Tolerance}}

\* Of a run that has records.
ManifestIssues(r) ==
    (IF manifest[r].status = "none" THEN {Error("missing", r)} ELSE {})
      \union (IF manifest[r].status = "running" THEN {Warn("running", r)} ELSE {})
      \union (IF manifest[r].total \notin {NoTotal, Cardinality(Of(r))}
                 THEN {Error("total", r)} ELSE {})

(***************************************************************************)
(* estimate_missing, from the intervals embedded in the records, in polls  *)
(* of the record's own interval: round() takes a half to the even          *)
(* neighbour.                                                              *)
(***************************************************************************)
Polls(t, interval) ==
    LET q == t \div interval
        rest == t % interval
    IN  IF 2 * rest < interval \/ (2 * rest = interval /\ q % 2 = 0) THEN q ELSE q + 1

Skipped(t, interval) == Max({0, Polls(t, interval) - 1})

Estimated(r) ==
    LET recs == Ordered(r)
    IN  SumFunction([k \in {i \in DOMAIN recs : recs[i].status = "GAP"} |->
                        Skipped(recs[k].actual, recs[k].interval)])

EstimateMissing == SumFunction([r \in Sessions |-> Estimated(r)])

Issues ==
    IntegrityIssues \union DuplicateIssues
      \union (UNION {ContinuityIssues(r) \union ManifestIssues(r) : r \in Sessions})
      \union (IF EstimateMissing > 0 THEN {Warn("missing", EstimateMissing)} ELSE {})

Ok == \A i \in Issues : i.severity # "ERROR"

(***************************************************************************)
(* coverage, from the times of the records: the gaps between neighbours,   *)
(* and the polls expected between a session's first and last record, in    *)
(* polls of the one interval that most records of the day have, of several *)
(* the one that comes first in the file.                                   *)
(***************************************************************************)
Frequency(interval) == Cardinality({i \in Lines : file[i].interval = interval})

MostFrequent == {i \in Lines : \A j \in Lines :
                    Frequency(file[j].interval) <= Frequency(file[i].interval)}

ModalInterval == file[CHOOSE i \in MostFrequent : \A j \in MostFrequent : i <= j].interval

GapsCovered(r) ==
    LET recs == Ordered(r)
    IN  SumFunction([k \in {i \in 2..Len(recs) : recs[i].status = "GAP"} |->
                        Skipped(recs[k].at - recs[k - 1].at, ModalInterval)])

Expected(r) ==
    LET recs == Ordered(r) IN Polls(recs[Len(recs)].at - recs[1].at, ModalInterval) + 1

\* Mutant: the poll at the first record is not expected.
TotalMissingExclusive ==
    Max({0, SumFunction([r \in Sessions |-> Expected(r) - 1 - Cardinality(Of(r))])})

TotalMissing ==
    Max({0, SumFunction([r \in Sessions |-> Expected(r) - Cardinality(Of(r))])})

-----------------------------------------------------------------------------
TypeOK ==
    /\ written \in Seq(Records) /\ file \in Seq(Records \union {Garbled})
    /\ run \in 0..MaxRuns /\ running \in BOOLEAN /\ clock \in Int /\ prev \in 0..MaxTicks
    /\ every \in [Runs -> Intervals \union {0}]
    /\ manifest \in [Runs -> [status : {"none", "running", "completed"},
                              total : 0..MaxTicks \union {NoTotal}]]
    /\ faults \in 0..MaxFaults

Undamaged == faults = 0

Counted(r) == manifest[r].total = TicksOf(r)

\* The clock was never set back within a run.
Monotone ==
    \A i, j \in DOMAIN written :
        i < j /\ written[i].run = written[j].run => written[i].at <= written[j].at

(***************************************************************************)
(* The validator passes an undamaged file, whatever its runs were, except  *)
(* for three things that are no damage: the wall clock was set back during *)
(* a run, which it reports as a broken chain, since it sorts by time what  *)
(* a run wrote in order; a run whose manifest could not be written has     *)
(* records without one; or the last record of a run was not counted, for a *)
(* signal or a failing fsync between its line and its counting             *)
(* (check_continuity and check_manifest_consistency against                *)
(* controller.py:250 and 404-410, discovery_run.py:294-298).               *)
(***************************************************************************)
PassesWhatRunsWrite ==
    Undamaged =>
        (Ok <=> /\ Monotone
                /\ \A r \in Sessions : /\ manifest[r].status # "none"
                                       /\ Counted(r) \/ manifest[r].total = NoTotal)

(***************************************************************************)
(* No record disappears unnoticed: when one is lost while a later one of   *)
(* its run is still there, its session shows a broken chain or a start in  *)
(* mid-run; and when anything of a run is lost but not all, its manifest,  *)
(* if it has the right count, makes it an error.  The end of a run that    *)
(* was killed, and a run that vanished whole, these checks cannot tell.    *)
(***************************************************************************)
Present(rec) == \E i \in Lines : file[i].id = rec.id

LossReported ==
    \A i, j \in DOMAIN written :
        written[i].run = written[j].run /\ ~Present(written[i]) /\ Present(written[j]) =>
            LET r == written[i].run
            IN  /\ i < j => \E issue \in ContinuityIssues(r) : issue.what \in {"broken", "mid-run"}
                /\ Counted(r) => ~Ok

(***************************************************************************)
(* The two tools count alike where they use the same interval: coverage    *)
(* has one for the day, validate_day that of each record.  On an undamaged *)
(* file of a clock never set back, coverage's gaps add up to validate_day's*)
(* estimate for the runs of the modal interval, to no less for those of a  *)
(* longer and to no more for those of a shorter one; and when the whole    *)
(* day has one interval and its ticks fell on the grid, both are what      *)
(* coverage finds missing over the whole sessions (coverage.py:46, 60, 76, *)
(* 82 against validate_day.py:188-199).                                    *)
(***************************************************************************)
OnGrid(r) == \A i \in DOMAIN written :
                written[i].run = r /\ written[i].prev # 0
                   => written[i].actual > 0 /\ written[i].actual % every[r] = 0

EstimatesAgree ==
    Undamaged /\ Monotone =>
        /\ \A r \in Sessions :
              /\ ModalInterval <= every[r] => GapsCovered(r) >= Estimated(r)
              /\ every[r] <= ModalInterval => GapsCovered(r) <= Estimated(r)
        /\ (\A r \in Sessions : every[r] = ModalInterval /\ OnGrid(r))
              => TotalMissing = EstimateMissing
=============================================================================
