----------------------------- MODULE Controller -----------------------------
(***************************************************************************)
(* DiscoveryController.run (lib/discovery/controller.py): one collection   *)
(* phase, from startup through the poll loop to shutdown.  `pc' names the  *)
(* statement of run() about to execute.  Every statement may end in the    *)
(* exceptions the code lets out of it, and SIGTERM, which discovery_run.py *)
(* turns into KeyboardInterrupt, may arrive before any statement, inside   *)
(* the try block or after it.                                              *)
(*                                                                         *)
(* A snapshot is known by its tick number, which stands for its poll_id    *)
(* too: both are new at each tick of a run.                                *)
(***************************************************************************)
EXTENDS Integers, Sequences, FiniteSets

CONSTANTS MaxTicks,     \* bound: ticks the scheduler yields in one run
          MaxSignals    \* bound: signals delivered to the process

ASSUME ControllerAssumption == MaxTicks \in Nat /\ MaxSignals \in Nat

Ticks  == 1..MaxTicks
NoTick == 0

\* The optional collaborators: InstrumentRegistry, ValidationEngine with its
\* quality archiver, analysis store.
Wirings == [registry : BOOLEAN, validator : BOOLEAN, store : BOOLEAN]

\* A snapshot, as archived: its tick, the snapshot its continuity names as the
\* previous one, and whether a chain was fetched.
Snapshots == [id : Ticks, prev : Ticks \union {NoTick}, ok : BOOLEAN]

VARIABLES
    wiring,    \* the collaborators this controller was built with
    state,     \* _state
    pc,        \* the next statement of run()
    pending,   \* the exception run() is dealing with, by the clause that takes it
    tick,      \* tick_number
    completed, succeeded, failed,   \* completed_ticks, successful_polls, failed_polls
    cursor,    \* _prev_snapshot_id
    record,    \* the snapshot being built
    archiver,  \* the raw archiver: "new", "open", "closed"
    archive,   \* the snapshots whose archiver.write took effect, in order
    verdicts, rows,   \* ticks with a line in the quality stream, a row in the store
    result,    \* the PhaseResult, NoResult until run() returns
    signals    \* signals delivered so far

progress == <<tick, completed, succeeded, failed>>
outputs  == <<archive, verdicts, rows>>
vars     == <<wiring, state, pc, pending, progress, cursor, record, archiver,
              outputs, result, signals>>

NoRecord == [id |-> NoTick, prev |-> NoTick, ok |-> FALSE]
NoResult == [ticks |-> 0, succeeded |-> 0, failed |-> 0, early |-> FALSE, returned |-> FALSE]

Startup  == {"open", "connect", "build", "running"}
Body     == {"next", "refresh", "link", "fetch", "write", "quality", "store",
             "count", "tally"}
TryBlock == Startup \union Body \union {"stop"}
Exits    == {"done", "raised", "escaped"}

TypeOK ==
    /\ wiring    \in Wirings
    /\ state     \in {"idle", "starting", "running", "stopping", "stopped", "aborted"}
    /\ pc        \in TryBlock \union {"idle", "finally", "return"} \union Exits
    /\ pending   \in {"none", "fatal", "interrupt", "other"}
    /\ tick      \in Ticks \union {0}
    /\ completed \in Nat /\ succeeded \in Nat /\ failed \in Nat
    /\ cursor    \in Ticks \union {NoTick}
    /\ record    \in Snapshots \union {NoRecord}
    /\ archiver  \in {"new", "open", "closed"}
    /\ archive   \in Seq(Snapshots)
    /\ verdicts  \subseteq Ticks /\ rows \subseteq Ticks
    /\ result    \in [ticks : Nat, succeeded : Nat, failed : Nat,
                      early : BOOLEAN, returned : BOOLEAN]
    /\ signals   \in 0..MaxSignals

Init ==
    /\ wiring \in Wirings
    /\ state = "idle" /\ pc = "idle" /\ pending = "none"
    /\ tick = 0 /\ completed = 0 /\ succeeded = 0 /\ failed = 0
    /\ cursor = NoTick /\ record = NoRecord
    /\ archiver = "new" /\ archive = <<>> /\ verdicts = {} /\ rows = {}
    /\ result = NoResult /\ signals = 0

-----------------------------------------------------------------------------
Goto(from, to) == pc = from /\ pc' = to

\* Mutant: an interrupt is treated like a fatal error, with no reason recorded.
RaiseAborting(kind) ==
    /\ pc' = "finally" /\ pending' = kind
    /\ state' = IF kind = "other" THEN state ELSE "aborted"

(***************************************************************************)
(* The except clauses of run().  A fatal error aborts, an interrupt stops; *)
(* for any other exception the state is left as it is.                     *)
(***************************************************************************)
Raise(kind) ==
    /\ pc' = "finally" /\ pending' = kind
    /\ state' = CASE kind = "fatal"     -> "aborted"
                  [] kind = "interrupt" -> "stopping"
                  [] OTHER              -> state

Run ==
    /\ Goto("idle", "open") /\ state' = "starting"
    /\ UNCHANGED <<wiring, pending, progress, cursor, record, archiver, outputs,
                   result, signals>>

(***************************************************************************)
(* _startup: archiver.open, session.connect, and with a registry build and *)
(* injection.  open may raise ArchiverError or, from mkdir, OSError;       *)
(* connect SessionAcquireError or what the SDK's reply makes it raise;     *)
(* build RegistryBuildError.                                               *)
(***************************************************************************)
OpenArchiver ==
    /\ pc = "open"
    /\ \/ pc' = "connect" /\ archiver' = "open" /\ UNCHANGED <<state, pending>>
       \/ \E kind \in {"fatal", "other"} : Raise(kind) /\ UNCHANGED archiver
    /\ UNCHANGED <<wiring, progress, cursor, record, outputs, result, signals>>

Connect ==
    /\ pc = "connect"
    /\ \/ /\ pc' = IF wiring.registry THEN "build" ELSE "running"
          /\ UNCHANGED <<state, pending>>
       \/ \E kind \in {"fatal", "other"} : Raise(kind)
    /\ UNCHANGED <<wiring, progress, cursor, record, archiver, outputs, result, signals>>

BuildRegistry ==
    /\ pc = "build"
    /\ \/ pc' = "running" /\ UNCHANGED <<state, pending>>
       \/ Raise("fatal")
    /\ UNCHANGED <<wiring, progress, cursor, record, archiver, outputs, result, signals>>

EnterLoop ==
    /\ Goto("running", "next") /\ state' = "running"
    /\ UNCHANGED <<wiring, pending, progress, cursor, record, archiver, outputs,
                   result, signals>>

(***************************************************************************)
(* The for statement: the scheduler yields a tick, or the loop ends, by    *)
(* itself or by max_duration.                                              *)
(***************************************************************************)
NextTick ==
    /\ tick < MaxTicks
    /\ Goto("next", "refresh") /\ tick' = tick + 1
    /\ UNCHANGED <<wiring, state, pending, completed, succeeded, failed, cursor, record,
                   archiver, outputs, result, signals>>

LoopEnds ==
    /\ Goto("next", "stop")
    /\ UNCHANGED <<wiring, state, pending, progress, cursor, record, archiver, outputs,
                   result, signals>>

Stop ==
    /\ Goto("stop", "finally") /\ state' = "stopping"
    /\ UNCHANGED <<wiring, pending, progress, cursor, record, archiver, outputs,
                   result, signals>>

Refresh ==
    /\ pc = "refresh"
    /\ \/ pc' = "link" /\ UNCHANGED <<state, pending>>
       \/ \E kind \in {"fatal", "other"} : Raise(kind)
    /\ UNCHANGED <<wiring, progress, cursor, record, archiver, outputs, result, signals>>

\* Mutant: the cursor moves for some snapshots only (not when spot fails).
LinkSometimes ==
    /\ Goto("link", "fetch")
    /\ record' = [id |-> tick, prev |-> cursor, ok |-> FALSE]
    /\ cursor' \in {cursor, tick}
    /\ UNCHANGED <<wiring, state, pending, progress, archiver, outputs, result, signals>>

(***************************************************************************)
(* _poll_once begins: the snapshot is linked to the previous one and the   *)
(* cursor moves to it at once, before the fetches and the archive.         *)
(***************************************************************************)
Link ==
    /\ Goto("link", "fetch")
    /\ record' = [id |-> tick, prev |-> cursor, ok |-> FALSE]
    /\ cursor' = tick
    /\ UNCHANGED <<wiring, state, pending, progress, archiver, outputs, result, signals>>

\* Mutant: the quality stream is written before the raw archive.
FetchThenQuality ==
    /\ Goto("fetch", IF wiring.validator THEN "quality" ELSE "write")
    /\ \E ok \in BOOLEAN : record' = [record EXCEPT !.ok = ok]
    /\ UNCHANGED <<wiring, state, pending, progress, cursor, archiver, outputs, result, signals>>

\* The fetches: some chain or none succeeds, or a reply makes one raise.
Fetch ==
    /\ pc = "fetch"
    /\ \/ pc' = "write" /\ UNCHANGED <<state, pending>>
          /\ \E ok \in BOOLEAN : record' = [record EXCEPT !.ok = ok]
       \/ Raise("other") /\ UNCHANGED record
    /\ UNCHANGED <<wiring, progress, cursor, archiver, outputs, result, signals>>

\* Mutant: an error of the raw archive is logged and the tick goes on.
WriteRawSwallowing ==
    /\ Goto("write", "store")
    /\ archive' \in {archive, Append(archive, record)}
    /\ UNCHANGED <<wiring, state, pending, progress, cursor, record, archiver, verdicts,
                   rows, result, signals>>

(***************************************************************************)
(* _persist: validation, which raises nothing, then the raw archive.  The  *)
(* record of a write that raises may be in the file all the same.          *)
(***************************************************************************)
WriteRaw ==
    /\ pc = "write"
    /\ \/ /\ archive' = Append(archive, record)
          /\ pc' = IF wiring.validator THEN "quality" ELSE "store"
          /\ UNCHANGED <<state, pending>>
       \/ \E kind \in {"fatal", "other"} : Raise(kind)
          /\ archive' \in {archive, Append(archive, record)}
    /\ UNCHANGED <<wiring, progress, cursor, record, archiver, verdicts, rows, result, signals>>

\* _persist_quality: an ArchiverError is logged, an OSError gets out.
WriteQuality ==
    /\ pc = "quality"
    /\ \/ pc' = "store" /\ UNCHANGED <<state, pending>>
          /\ verdicts' \in {verdicts, verdicts \union {record.id}}
       \/ Raise("other") /\ UNCHANGED verdicts
    /\ UNCHANGED <<wiring, progress, cursor, record, archiver, archive, rows, result, signals>>

\* store.insert: a StoreError is logged, another exception gets out.
InsertRow ==
    /\ pc = "store"
    /\ \/ pc' = "count" /\ UNCHANGED <<state, pending>>
          /\ IF wiring.store THEN rows' \in {rows, rows \union {record.id}}
                             ELSE UNCHANGED rows
       \/ wiring.store /\ Raise("other") /\ UNCHANGED rows
    /\ UNCHANGED <<wiring, progress, cursor, record, archiver, archive, verdicts, result, signals>>

\* The counters are three statements: the total first, then one of the other two.
Count ==
    /\ Goto("count", "tally") /\ completed' = completed + 1
    /\ UNCHANGED <<wiring, state, pending, tick, succeeded, failed, cursor, record,
                   archiver, outputs, result, signals>>

\* Mutant: a tick without a chain is counted as a successful poll.
TallyBlind ==
    /\ Goto("tally", "next")
    /\ succeeded' = succeeded + 1
    /\ UNCHANGED <<wiring, state, pending, tick, completed, failed, cursor, record,
                   archiver, outputs, result, signals>>

Tally ==
    /\ Goto("tally", "next")
    /\ IF record.ok THEN succeeded' = succeeded + 1 /\ UNCHANGED failed
                    ELSE failed' = failed + 1 /\ UNCHANGED succeeded
    /\ UNCHANGED <<wiring, state, pending, tick, completed, cursor, record, archiver,
                   outputs, result, signals>>

\* KeyboardInterrupt inside the try block.
Interrupt ==
    /\ pc \in TryBlock /\ signals < MaxSignals
    /\ signals' = signals + 1
    /\ Raise("interrupt")
    /\ UNCHANGED <<wiring, progress, cursor, record, archiver, outputs, result>>

\* Mutant: an unhandled exception leaves run() before the archiver is closed.
FinallySkipped ==
    /\ pc = "finally"
    /\ archiver' = IF pending = "other" THEN archiver ELSE "closed"
    /\ pc' = IF pending = "other" THEN "raised" ELSE "return"
    /\ UNCHANGED <<wiring, state, pending, progress, cursor, record, outputs, result, signals>>

\* finally: archiver.close, whose exceptions are dropped.
Finally ==
    /\ pc = "finally"
    /\ archiver' = "closed"
    /\ pc' = IF pending = "other" THEN "raised" ELSE "return"
    /\ UNCHANGED <<wiring, state, pending, progress, cursor, record, outputs, result, signals>>

Return ==
    /\ Goto("return", "done")
    /\ state' = IF pending = "fatal" THEN "aborted" ELSE "stopped"
    /\ result' = [ticks |-> completed, succeeded |-> succeeded, failed |-> failed,
                  early |-> pending = "fatal", returned |-> TRUE]
    /\ UNCHANGED <<wiring, pending, progress, cursor, record, archiver, outputs, signals>>

\* KeyboardInterrupt outside the try block leaves run(); the close may be skipped.
Escape ==
    /\ pc \in {"idle", "finally", "return"} /\ signals < MaxSignals
    /\ signals' = signals + 1
    /\ pc' = "escaped"
    /\ archiver' \in {archiver, IF pc = "finally" THEN "closed" ELSE archiver}
    /\ UNCHANGED <<wiring, state, pending, progress, cursor, record, outputs, result>>

Next ==
    \/ Run \/ OpenArchiver \/ Connect \/ BuildRegistry \/ EnterLoop
    \/ NextTick \/ LoopEnds \/ Stop \/ Refresh \/ Link \/ Fetch
    \/ WriteRaw \/ WriteQuality \/ InsertRow \/ Count \/ Tally
    \/ Interrupt \/ Finally \/ Return \/ Escape

Spec == Init /\ [][Next]_vars

(***************************************************************************)
(* The program goes on until run() is left: every call it makes returns or *)
(* raises.  No signal has to arrive and run() need not be called.          *)
(***************************************************************************)
Program ==
    \/ OpenArchiver \/ Connect \/ BuildRegistry \/ EnterLoop
    \/ NextTick \/ LoopEnds \/ Stop \/ Refresh \/ Link \/ Fetch
    \/ WriteRaw \/ WriteQuality \/ InsertRow \/ Count \/ Tally \/ Finally \/ Return

FairSpec == Spec /\ WF_vars(Program)

-----------------------------------------------------------------------------
(***************************************************************************)
(* The archive of a run has no hole: its snapshots are ticks 1, 2, 3... in *)
(* order, and every tick begun before the current one is there, whatever   *)
(* failed in between (the order of refresh, poll, persist in run(), and    *)
(* every failure of the raw archive being fatal).                          *)
(***************************************************************************)
NoHoles ==
    /\ \A i \in 1..Len(archive) : archive[i].id = i
    /\ Len(archive) <= tick /\ tick <= Len(archive) + 1

(***************************************************************************)
(* Each archived snapshot names as its predecessor the one archived before *)
(* it: the cursor is moved before the snapshot is persisted, yet no        *)
(* snapshot is ever linked to one the archive does not hold                *)
(* (controller.py:404-410).                                                *)
(***************************************************************************)
ChainUnbroken ==
    \A i \in 1..Len(archive) :
        archive[i].prev = IF i = 1 THEN NoTick ELSE archive[i - 1].id

(***************************************************************************)
(* The PhaseResult claims no tick the archive does not hold, and misses at *)
(* most one, whose record was written when a signal or an error ended the  *)
(* run.  The two poll counts may lag the total by one in the same way.  A  *)
(* run that nothing ended early counts exactly what it archived            *)
(* (controller.py:249-256).                                                *)
(***************************************************************************)
Fetched == {i \in 1..Len(archive) : archive[i].ok}

CountsAgree ==
    result.returned =>
        /\ result.ticks <= Len(archive) /\ Len(archive) <= result.ticks + 1
        /\ result.succeeded + result.failed <= result.ticks
        /\ result.ticks <= result.succeeded + result.failed + 1
        /\ result.succeeded <= Cardinality(Fetched)
        /\ pending = "none" =>
              /\ result.ticks = Len(archive)
              /\ result.ticks = result.succeeded + result.failed
              /\ result.succeeded = Cardinality(Fetched)

(***************************************************************************)
(* The quality stream and the store only ever describe snapshots that are  *)
(* in the raw archive ("archiver.write() always runs first").              *)
(***************************************************************************)
SecondaryAfterRaw ==
    \A t \in verdicts \union rows : \E i \in 1..Len(archive) : archive[i].id = t

(***************************************************************************)
(* The state machine of the module's docstring (controller.py:7-10), with  *)
(* the final assignment of run(): STOPPED is reached through STOPPING and  *)
(* ABORTED only from STARTING or RUNNING.                                  *)
(***************************************************************************)
Transitions == {<<"idle", "starting">>, <<"starting", "running">>,
                <<"starting", "stopping">>, <<"running", "stopping">>,
                <<"starting", "aborted">>, <<"running", "aborted">>,
                <<"stopping", "stopped">>}

Lifecycle == [][(<<state, state'>> \in Transitions)]_state

(***************************************************************************)
(* Once started, run() is left, and the archiver is closed then, on every  *)
(* path but one: a second signal while the first is being dealt with       *)
(* (controller.py:312-316).                                                *)
(***************************************************************************)
EndsClosed ==
    pc = "open" ~> /\ pc \in Exits
                   /\ archiver = "closed" \/ pc = "escaped"

(***************************************************************************)
(* "The SIGTERM handler in discovery_run.py raises KeyboardInterrupt,      *)
(* which causes the controller to complete the in-progress tick before     *)
(* shutting down" (ops/systemd/banknifty-observatory.service:53).  The     *)
(* exception leaves the for loop wherever it is: the tick is abandoned.    *)
(***************************************************************************)
SigtermCompletesTick ==
    result.returned /\ pending = "interrupt" => Len(archive) = tick
=============================================================================
