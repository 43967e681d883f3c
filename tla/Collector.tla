----------------------------- MODULE Collector ------------------------------
(***************************************************************************)
(* The archiver under its clients.  The raw archive is used by one run of  *)
(* DiscoveryController after another (lib/discovery/controller.py): each   *)
(* opens the archiver, writes a record a tick, and takes any exception of  *)
(* the archiver as the end, after which it closes it and the process is    *)
(* over; the next process appends to the same file of the day.  The        *)
(* "free" client, like one who logs a failed write of the quality stream   *)
(* and goes on, makes any call at any time.                                *)
(***************************************************************************)
EXTENDS Archiver

CONSTANT Clients   \* the clients considered

ASSUME CollectorAssumption == Clients \subseteq {"free", "run"}

VARIABLES
    client,   \* who uses the archiver
    over,     \* the run of this process has closed the archiver
    history   \* the acknowledgements of the runs, in order: record and process

runVars == <<client, over, history>>

CollectorInit == Init /\ client \in Clients /\ over = FALSE /\ history = <<>>

-----------------------------------------------------------------------------
\* _startup: the archiver is opened once.
RunOpens == curDate = NoDay /\ Open

\* Mutant: the run goes on after a failed write.
RunWritesOn(r) == handle = "open" /\ Write(r)

\* _persist: the tick's record, unless the archiver has raised before.
RunWrites(r) == handle = "open" /\ raised = "none" /\ Write(r)

\* The finally clause, after an exception of the archiver's or of another
\* component, a signal or the end of the loop; what close() raises is swallowed.
RunCloses ==
    /\ pc = "idle" /\ over' = TRUE
    /\ Close \/ (handle = "none" /\ UNCHANGED vars)
    /\ UNCHANGED <<client, history>>

ClientCalls ==
    /\ \/ client = "free" /\ (Open \/ Close \/ \E r \in Records : Write(r))
       \/ client = "run" /\ ~over /\ (RunOpens \/ \E r \in Records : RunWrites(r))
    /\ UNCHANGED runVars

ArchiverWorks ==
    /\ RotateClose \/ RotateOpen \/ Flush \/ FlushFails \/ WriteRefused \/ SyncFails
    /\ UNCHANGED runVars

\* Each process is known by the number of stops before it.
ArchiverSyncs ==
    /\ Sync
    /\ history' = IF client = "run" THEN Append(history, [rec |-> rec, process |-> stops])
                  ELSE history
    /\ UNCHANGED <<client, over>>

\* A process is killed, or started again after one that ended.
Restarts == (Kill \/ HostStop) /\ over' = FALSE /\ UNCHANGED <<client, history>>

CollectorNext ==
    \/ ClientCalls \/ (client = "run" /\ ~over /\ RunCloses)
    \/ ArchiverWorks \/ ArchiverSyncs \/ Restarts
    \/ Midnight /\ UNCHANGED runVars

CollectorSpec == CollectorInit /\ [][CollectorNext]_<<vars, runVars>>

-----------------------------------------------------------------------------
(***************************************************************************)
(* A run loses at most its first record: an acknowledged record that       *)
(* cannot be read back is the first one its process wrote, and nothing of  *)
(* another acknowledged record is on its line.  What an earlier process    *)
(* left torn costs one record, and a run that meets an exception in a      *)
(* write writes no more (controller.py:274 and 313, archiver.py:186).      *)
(***************************************************************************)
Unreadable == {a \in acked : a.rec \notin Readable(a.day)}

LosesFirstOnly ==
    client = "run" =>
        \A a \in Unreadable :
            /\ \A i, j \in DOMAIN history :
                  i < j /\ history[j].rec = a.rec => history[i].process # history[j].process
            /\ \A line \in Lines(file[a.day]) :
                  <<a.rec, "head">> \in {line[i] : i \in DOMAIN line}
                    => \A b \in acked \ {a} : <<b.rec, "head">> \notin {line[i] : i \in DOMAIN line}
=============================================================================
