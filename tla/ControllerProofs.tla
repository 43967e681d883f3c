-------------------------- MODULE ControllerProofs --------------------------
(***************************************************************************)
(* Proofs about DiscoveryController.run, for any number of ticks and of    *)
(* signals.  NoHoles, ChainUnbroken, SecondaryAfterRaw and CountsAgree are *)
(* not inductive: whether a step keeps them depends on how far the current *)
(* tick has come.  IInv says so: for each place in run(), what `tick', the *)
(* cursor, the record and the counters are, compared with the archive.     *)
(***************************************************************************)
EXTENDS Controller, FiniteSetTheorems, TLAPS

Before    == Startup \union {"idle"}
Begun     == {"refresh", "link"}
Built     == {"fetch", "write"}
Persisted == {"quality", "store", "count", "tally"}
Between   == {"next", "stop"}
Ended     == {"finally", "return"} \union Exits

\* The current tick against the archive.
Position ==
    /\ pc \in Before => tick = 0 /\ Len(archive) = 0 /\ verdicts = {} /\ rows = {}
    /\ pc \in Begun \union Built => tick = Len(archive) + 1
    /\ pc \in Persisted \union Between => tick = Len(archive)

\* The cursor is on the last snapshot archived until the next one is linked.
CursorPlace ==
    /\ pc \in Before \union Begun \union Between => cursor = Len(archive)
    /\ pc \in Built \union Persisted =>
          cursor = tick /\ record \in Snapshots /\ record.id = tick
    /\ pc \in Built => record.prev = Len(archive)
    /\ pc \in Persisted => record = archive[tick]

\* The records of the archive, by their place in it.
Places == \A i \in 1..Len(archive) : archive[i].id = i /\ archive[i].prev = i - 1

\* What the secondary streams hold is in the archive.
Described == \A t \in verdicts \union rows : t <= Len(archive)

\* The state follows the place in run(), and then the exception it is left with.
StateOf ==
    /\ pc = "idle" => state = "idle"
    /\ pc \in Startup => state = "starting"
    /\ pc \in Body \union {"stop"} => state = "running"
    /\ pc \in TryBlock \union {"idle"} => pending = "none"
    /\ pc \in {"finally", "return"} =>
          /\ pending = "fatal" => state = "aborted"
          /\ pending \in {"none", "interrupt"} => state = "stopping"
    /\ pc = "return" => pending # "other"

Distance == Len(archive) <= tick /\ tick <= Len(archive) + 1

IInv == TypeOK /\ Position /\ CursorPlace /\ Places /\ Described /\ StateOf /\ Distance

-----------------------------------------------------------------------------
(***************************************************************************)
(* IInv is inductive, one step per statement of run().                     *)
(***************************************************************************)
LEMMA InitIInv == Init => IInv
  BY ControllerAssumption, SMT
     DEF Init, IInv, TypeOK, Position, CursorPlace, Places, Described, StateOf,
         Distance, Before, Begun, Built, Persisted, Between, Startup, Body, TryBlock,
         Exits, Wirings, Snapshots, Ticks, NoTick, NoRecord, NoResult

\* Each statement of run(), and each exception out of it, preserves IInv.
LEMMA StepIInv == IInv /\ [Next]_vars => IInv'
<1> SUFFICES ASSUME IInv, [Next]_vars PROVE IInv'
  OBVIOUS
<1> USE ControllerAssumption
    DEF IInv, TypeOK, Position, CursorPlace, Places, Described, StateOf, Distance,
        Before, Begun, Built, Persisted, Between, Startup, Body, TryBlock, Exits,
        Wirings, Snapshots, Ticks, NoTick, NoRecord, NoResult, progress, outputs,
        Goto, Raise
<1>1. CASE Run
  BY <1>1, SMTT(60) DEF Run
<1>2. CASE OpenArchiver
  BY <1>2, SMTT(60) DEF OpenArchiver
<1>3. CASE Connect
  BY <1>3, SMTT(60) DEF Connect
<1>4. CASE BuildRegistry
  BY <1>4, SMTT(60) DEF BuildRegistry
<1>5. CASE EnterLoop
  BY <1>5, SMTT(60) DEF EnterLoop
<1>6. CASE NextTick
  BY <1>6, SMTT(60) DEF NextTick
<1>7. CASE LoopEnds
  BY <1>7, SMTT(60) DEF LoopEnds
<1>8. CASE Stop
  BY <1>8, SMTT(60) DEF Stop
<1>9. CASE Refresh
  BY <1>9, SMTT(60) DEF Refresh
<1>10. CASE Link
  BY <1>10, SMTT(60) DEF Link
<1>11. CASE Fetch
  BY <1>11, SMTT(60) DEF Fetch
<1>12. CASE WriteRaw
  <2>1. record \in Snapshots /\ record.id = Len(archive) + 1 /\ record.prev = Len(archive)
    BY <1>12, SMT DEF WriteRaw
  <2>2. CASE archive' = archive
    BY <1>12, <2>2, SMTT(60) DEF WriteRaw
  <2>3. CASE archive' = Append(archive, record)
    <3>1. /\ archive' \in Seq(Snapshots) /\ Len(archive') = Len(archive) + 1
          /\ \A i \in 1..Len(archive) : archive'[i] = archive[i]
          /\ archive'[Len(archive')] = record
      BY <2>1, <2>3, SMT
    <3>2. Places'
      <4> SUFFICES ASSUME NEW i \in 1..Len(archive')
                   PROVE  archive'[i].id = i /\ archive'[i].prev = i - 1
        BY DEF Places
      <4>1. CASE i = Len(archive')
        BY <2>1, <3>1, <4>1
      <4>2. CASE i \in 1..Len(archive)
        BY <3>1, <4>2
      <4> QED
        BY <3>1, <4>1, <4>2, SMT
    <3>3. TypeOK' /\ StateOf'
      BY <1>12, <3>1, SMTT(60) DEF WriteRaw
    <3>4. Position' /\ CursorPlace' /\ Described' /\ Distance'
      BY <1>12, <2>1, <3>1, SMTT(60) DEF WriteRaw
    <3> QED
      BY <3>2, <3>3, <3>4
  <2> QED
    BY <1>12, <2>2, <2>3 DEF WriteRaw
<1>13. CASE WriteQuality
  BY <1>13, SMTT(60) DEF WriteQuality
<1>14. CASE InsertRow
  BY <1>14, SMTT(60) DEF InsertRow
<1>15. CASE Count
  BY <1>15, SMTT(60) DEF Count
<1>16. CASE Tally
  BY <1>16, SMTT(60) DEF Tally
<1>17. CASE Interrupt
  BY <1>17, SMTT(60) DEF Interrupt
<1>18. CASE Finally
  BY <1>18, SMTT(60) DEF Finally
<1>19. CASE Return
  BY <1>19, SMTT(60) DEF Return
<1>20. CASE Escape
  BY <1>20, SMTT(60) DEF Escape
<1>21. CASE UNCHANGED vars
  BY <1>21, SMTT(60) DEF vars
<1> QED
  BY <1>1, <1>2, <1>3, <1>4, <1>5, <1>6, <1>7, <1>8, <1>9, <1>10, <1>11, <1>12, <1>13, <1>14, <1>15, <1>16, <1>17, <1>18, <1>19, <1>20, <1>21 DEF Next

-----------------------------------------------------------------------------
(***************************************************************************)
(* The counters.  succeeded + failed is the number of ticks tallied, and   *)
(* succeeded counts the chains among that many snapshots of the archive.   *)
(***************************************************************************)
OkUpTo(snapshots, n) == {i \in 1..n : snapshots[i].ok}

Tallied == succeeded = Cardinality(OkUpTo(archive, succeeded + failed))

Counters ==
    /\ completed <= Len(archive) /\ Len(archive) <= completed + 1
    /\ succeeded + failed <= completed /\ completed <= succeeded + failed + 1
    /\ pc \in Before \union Between \union Begun \union Built =>
          completed = Len(archive) /\ succeeded + failed = completed
    /\ pc \in {"quality", "store", "count"} =>
          completed = Len(archive) - 1 /\ succeeded + failed = completed
    /\ pc = "tally" => completed = Len(archive) /\ succeeded + failed = completed - 1
    /\ pc \in {"finally", "return", "done"} /\ pending = "none" =>
          completed = Len(archive) /\ succeeded + failed = completed
    /\ result.returned => /\ pc = "done" /\ result.ticks = completed
                          /\ result.succeeded = succeeded /\ result.failed = failed

\* The chains counted are finitely many.
LEMMA OkUpToFinite ==
    ASSUME NEW snapshots, NEW n \in Nat
    PROVE  /\ IsFiniteSet(OkUpTo(snapshots, n))
           /\ Cardinality(OkUpTo(snapshots, n)) \in Nat
<1>1. IsFiniteSet(1..n) /\ OkUpTo(snapshots, n) \subseteq 1..n
  BY FS_Interval, SMT DEF OkUpTo
<1> QED
  BY <1>1, FS_Subset, FS_CardinalityType

\* The chains among one snapshot more.
LEMMA OkUpToNext ==
    ASSUME NEW snapshots, NEW n \in Nat
    PROVE  Cardinality(OkUpTo(snapshots, n + 1)) =
              IF snapshots[n + 1].ok THEN Cardinality(OkUpTo(snapshots, n)) + 1
                                     ELSE Cardinality(OkUpTo(snapshots, n))
<1>1. 1..(n + 1) = 1..n \union {n + 1} /\ n + 1 \notin 1..n
  BY SMT
<1>2. n + 1 \notin OkUpTo(snapshots, n)
  BY <1>1 DEF OkUpTo
<1>3. CASE snapshots[n + 1].ok
  <2>1. OkUpTo(snapshots, n + 1) = OkUpTo(snapshots, n) \union {n + 1}
    BY <1>1, <1>3 DEF OkUpTo
  <2> QED
    BY <1>2, <1>3, <2>1, OkUpToFinite, FS_AddElement
<1>4. CASE ~snapshots[n + 1].ok
  BY <1>1, <1>4 DEF OkUpTo
<1> QED
  BY <1>3, <1>4

\* A controller starts with nothing counted.
LEMMA InitCounters == Init => Counters /\ Tallied
<1> SUFFICES ASSUME Init PROVE Counters /\ Tallied
  OBVIOUS
<1>1. Counters
  BY SMT DEF Init, Counters, Before, Startup, Begun, Built, Between, NoResult
<1>2. OkUpTo(archive, 0) = {}
  BY SMT DEF OkUpTo
<1>3. archive = <<>> /\ succeeded = 0 /\ failed = 0
  BY DEF Init
<1>4. Tallied
  <2>1. OkUpTo(archive, succeeded + failed) = {}
    BY <1>2, <1>3, SMT
  <2> QED
    BY <1>3, <2>1, FS_EmptySet DEF Tallied
<1> QED
  BY <1>1, <1>4

\* Each statement of run() keeps the counters in step with the archive.
LEMMA StepCounters == IInv /\ Counters /\ [Next]_vars => Counters'
<1> SUFFICES ASSUME IInv, Counters, [Next]_vars PROVE Counters'
  OBVIOUS
<1> USE DEF Counters, IInv, TypeOK, Position, CursorPlace, Distance, StateOf,
            Before, Begun, Built, Persisted, Between, Startup, Body, TryBlock, Exits,
            NoTick, NoRecord, NoResult, progress, outputs, Goto, Raise
<1>1. CASE Run
  BY <1>1, SMTT(60) DEF Run
<1>2. CASE OpenArchiver
  BY <1>2, SMTT(60) DEF OpenArchiver
<1>3. CASE Connect
  BY <1>3, SMTT(60) DEF Connect
<1>4. CASE BuildRegistry
  BY <1>4, SMTT(60) DEF BuildRegistry
<1>5. CASE EnterLoop
  BY <1>5, SMTT(60) DEF EnterLoop
<1>6. CASE NextTick
  BY <1>6, SMTT(60) DEF NextTick
<1>7. CASE LoopEnds
  BY <1>7, SMTT(60) DEF LoopEnds
<1>8. CASE Stop
  BY <1>8, SMTT(60) DEF Stop
<1>9. CASE Refresh
  BY <1>9, SMTT(60) DEF Refresh
<1>10. CASE Link
  BY <1>10, SMTT(60) DEF Link
<1>11. CASE Fetch
  BY <1>11, SMTT(60) DEF Fetch
<1>12. CASE WriteRaw
  BY <1>12, SMTT(60) DEF WriteRaw
<1>13. CASE WriteQuality
  BY <1>13, SMTT(60) DEF WriteQuality
<1>14. CASE InsertRow
  BY <1>14, SMTT(60) DEF InsertRow
<1>15. CASE Count
  BY <1>15, SMTT(60) DEF Count
<1>16. CASE Tally
  BY <1>16, SMTT(60) DEF Tally
<1>17. CASE Interrupt
  BY <1>17, SMTT(60) DEF Interrupt
<1>18. CASE Finally
  BY <1>18, SMTT(60) DEF Finally
<1>19. CASE Return
  BY <1>19, SMTT(60) DEF Return
<1>20. CASE Escape
  BY <1>20, SMTT(60) DEF Escape
<1>21. CASE UNCHANGED vars
  BY <1>21, SMTT(60) DEF vars
<1> QED
  BY <1>1, <1>2, <1>3, <1>4, <1>5, <1>6, <1>7, <1>8, <1>9, <1>10, <1>11, <1>12, <1>13, <1>14, <1>15, <1>16, <1>17, <1>18, <1>19, <1>20, <1>21 DEF Next

\* Only WriteRaw and Tally disturb what has been tallied.
LEMMA StepTallied == IInv /\ Counters /\ Tallied /\ [Next]_vars => Tallied'
<1> SUFFICES ASSUME IInv, Counters, Tallied, [Next]_vars PROVE Tallied'
  OBVIOUS
<1>1. succeeded \in Nat /\ failed \in Nat /\ succeeded + failed <= Len(archive)
  BY SMT DEF IInv, TypeOK, Counters
<1>2. CASE WriteRaw
  <2>1. archive \in Seq(Snapshots) /\ record \in Snapshots
    BY <1>2 DEF IInv, TypeOK, CursorPlace, WriteRaw, Built
  <2>2. archive' = archive \/ archive' = Append(archive, record)
    BY <1>2 DEF WriteRaw
  <2>3. \A i \in 1..(succeeded + failed) : archive'[i] = archive[i]
    BY <1>1, <2>1, <2>2, SMT
  <2>4. OkUpTo(archive', succeeded + failed) = OkUpTo(archive, succeeded + failed)
    BY <2>3 DEF OkUpTo
  <2>5. UNCHANGED <<succeeded, failed>>
    BY <1>2 DEF WriteRaw, progress
  <2> QED
    BY <2>4, <2>5 DEF Tallied
<1>3. CASE Tally
  <2>1. archive[succeeded + failed + 1] = record
    BY <1>1, <1>3, SMT DEF Tally, Counters, IInv, CursorPlace, Position, Persisted, Goto, TypeOK
  <2>2. CASE record.ok
    <3>1. succeeded' + failed' = (succeeded + failed) + 1 /\ succeeded' = succeeded + 1
      BY <1>1, <1>3, <2>2, SMT DEF Tally
    <3>2. archive' = archive
      BY <1>3 DEF Tally, outputs
    <3> QED
      BY <1>1, <2>1, <2>2, <3>1, <3>2, OkUpToNext DEF Tallied
  <2>3. CASE ~record.ok
    <3>1. succeeded' + failed' = (succeeded + failed) + 1 /\ succeeded' = succeeded
      BY <1>1, <1>3, <2>3, SMT DEF Tally
    <3>2. archive' = archive
      BY <1>3 DEF Tally, outputs
    <3> QED
      BY <1>1, <2>1, <2>3, <3>1, <3>2, OkUpToNext DEF Tallied
  <2> QED
    BY <2>2, <2>3
<1>4. CASE UNCHANGED <<archive, succeeded, failed>>
  BY <1>4 DEF Tallied
<1> QED
  BY <1>2, <1>3, <1>4
     DEF Next, vars, progress, outputs, Run, OpenArchiver, Connect, BuildRegistry, EnterLoop, NextTick, LoopEnds, Stop, Refresh,
         Link, Fetch, WriteQuality, InsertRow, Count, Interrupt, Finally, Return, Escape

-----------------------------------------------------------------------------
\* Every reachable state satisfies the inductive invariant and the counters' one.
THEOREM Invariance == Spec => [](IInv /\ Counters /\ Tallied)
<1>1. Init => IInv /\ Counters /\ Tallied
  BY InitIInv, InitCounters
<1>2. (IInv /\ Counters /\ Tallied) /\ [Next]_vars => (IInv /\ Counters /\ Tallied)'
  BY StepIInv, StepCounters, StepTallied
<1> QED
  BY <1>1, <1>2, PTL DEF Spec

(***************************************************************************)
(* The variables of run() keep their types; among them, a record that is   *)
(* archived is always one built by the current tick, never the empty one.  *)
(***************************************************************************)
THEOREM TypeCorrect == Spec => []TypeOK
<1>1. IInv => TypeOK
  BY DEF IInv
<1> QED
  BY <1>1, Invariance, PTL

(***************************************************************************)
(* Whatever fails and whenever a signal arrives, the archive of a run is   *)
(* an unbroken sequence of ticks, at most the current one missing          *)
(* (controller.py:239-270, 685-706).                                       *)
(***************************************************************************)
THEOREM ArchiveHasNoHoles == Spec => []NoHoles
<1>1. IInv => NoHoles
  BY SMT DEF IInv, TypeOK, Places, Distance, NoHoles
<1> QED
  BY <1>1, Invariance, PTL

(***************************************************************************)
(* No archived snapshot is linked to one the archive does not hold,        *)
(* although the cursor moves before the archive is written                 *)
(* (controller.py:404-410).                                                *)
(***************************************************************************)
THEOREM ArchiveIsChained == Spec => []ChainUnbroken
<1>1. IInv => ChainUnbroken
  <2> SUFFICES ASSUME IInv, NEW i \in 1..Len(archive)
               PROVE  archive[i].prev = IF i = 1 THEN NoTick ELSE archive[i - 1].id
    BY DEF ChainUnbroken
  <2>1. archive[i].prev = i - 1
    BY DEF IInv, Places
  <2>2. CASE i = 1
    BY <2>1, <2>2, SMT DEF NoTick
  <2>3. CASE i # 1
    <3>1. i - 1 \in 1..Len(archive)
      BY <2>3, SMT DEF IInv, TypeOK
    <3> QED
      BY <2>1, <2>3, <3>1 DEF IInv, Places
  <2> QED
    BY <2>2, <2>3
<1> QED
  BY <1>1, Invariance, PTL

(***************************************************************************)
(* The quality stream and the store never describe a snapshot the raw      *)
(* archive does not hold (controller.py:676-722).                          *)
(***************************************************************************)
THEOREM RawIsFirst == Spec => []SecondaryAfterRaw
<1>1. IInv => SecondaryAfterRaw
  <2> SUFFICES ASSUME IInv, NEW t \in verdicts \union rows
               PROVE  \E i \in 1..Len(archive) : archive[i].id = t
    BY DEF SecondaryAfterRaw
  <2>1. t \in 1..Len(archive)
    BY ControllerAssumption, SMT DEF IInv, TypeOK, Described, Ticks
  <2> QED
    BY <2>1 DEF IInv, Places
<1> QED
  BY <1>1, Invariance, PTL

(***************************************************************************)
(* The PhaseResult never claims a tick the archive does not hold, misses   *)
(* at most the one being written when the run ended, and is exact for a    *)
(* run nothing ended early (controller.py:249-256, 318-351).               *)
(***************************************************************************)
THEOREM ResultAgrees == Spec => []CountsAgree
<1>1. IInv /\ Counters /\ Tallied => CountsAgree
  <2> SUFFICES ASSUME IInv, Counters, Tallied, result.returned
               PROVE  CountsAgree
    BY DEF CountsAgree
  <2> DEFINE n == succeeded + failed
  <2>1. n \in 0..Len(archive)
    BY SMT DEF IInv, TypeOK, Counters
  <2>2. Fetched = OkUpTo(archive, Len(archive))
    BY DEF Fetched, OkUpTo
  <2>3. OkUpTo(archive, n) \subseteq Fetched
    BY <2>1, SMT DEF OkUpTo, Fetched
  <2>4. IsFiniteSet(Fetched) /\ Cardinality(Fetched) \in Nat
    BY <2>2, OkUpToFinite DEF IInv, TypeOK
  <2>5. succeeded <= Cardinality(Fetched)
    BY <2>3, <2>4, FS_Subset DEF Tallied
  <2> QED
    BY <2>1, <2>2, <2>5, SMT DEF IInv, TypeOK, Counters, Tallied, CountsAgree
<1> QED
  BY <1>1, Invariance, PTL

(***************************************************************************)
(* The state only takes the transitions of the state machine: no failure   *)
(* or signal, wherever it strikes, leads from a final state back or skips  *)
(* STOPPING (controller.py:7-10, 274-351).                                 *)
(***************************************************************************)
THEOREM FollowsLifecycle == Spec => Lifecycle
<1>1. IInv /\ [Next]_vars => [(<<state, state'>> \in Transitions)]_state
  <2> SUFFICES ASSUME IInv, [Next]_vars, state' # state
               PROVE  <<state, state'>> \in Transitions
    OBVIOUS
  <2> USE DEF IInv, TypeOK, StateOf, Startup, Body, TryBlock, Goto, Raise, Transitions
  <2>1. CASE Run \/ EnterLoop \/ Stop
    BY <2>1, SMT DEF Run, EnterLoop, Stop
  <2>2. CASE OpenArchiver \/ Connect \/ BuildRegistry
    BY <2>2, SMT DEF OpenArchiver, Connect, BuildRegistry
  <2>3. CASE Refresh \/ Fetch \/ WriteRaw \/ WriteQuality \/ InsertRow
    BY <2>3, SMT DEF Refresh, Fetch, WriteRaw, WriteQuality, InsertRow
  <2>4. CASE Interrupt
    BY <2>4, SMT DEF Interrupt
  <2>5. CASE Return
    BY <2>5, SMT DEF Return
  <2>6. CASE UNCHANGED state
    BY <2>6
  <2> QED
    BY <2>1, <2>2, <2>3, <2>4, <2>5, <2>6, SMT
       DEF Next, vars, NextTick, LoopEnds, Link, Count, Tally, Finally, Escape
<1> QED
  BY <1>1, Invariance, PTL DEF Spec, Lifecycle
=============================================================================
