--------------------------- MODULE ArchiverProofs ---------------------------
(***************************************************************************)
(* Proofs about JSONLArchiver, and about it under its clients (Collector), *)
(* for any records, number of days and number of stops.                    *)
(*                                                                         *)
(* That an acknowledged record is on stable storage whole is not           *)
(* inductive: the step that acknowledges it, Sync, has to find its line at *)
(* the end of the file, of the day the call began on or a later one.  IInv *)
(* says so of every step of a call (InCall); what keeps it true afterwards *)
(* is that no step at all changes bytes that are stable (Kept).  What      *)
(* cannot be read, and that the files are a log, needs that no byte of a   *)
(* record is in them twice (Once); how little of it a run loses, how a     *)
(* file ends between the writes of a run (RInv).                           *)
(***************************************************************************)
EXTENDS Collector, SequenceTheorems, TLAPS

\* The line of r is the end of s.
EndsWith(s, r) == /\ Len(s) >= 3
                  /\ \A i \in 1..3 : s[Len(s) - 3 + i] = Payload(r)[i]

\* What the steps of a call rely on.
InCall ==
    /\ handle # "none" => curDate \in Days
    /\ curDate <= today /\ called <= today
    /\ pc = "close" => rec \in Records
    /\ pc \in {"write", "sync"} => rec \in Records /\ called <= curDate
    /\ pc = "sync" => handle = "open" /\ EndsWith(file[curDate], rec)

StableInFile == \A d \in Days : synced[d] <= Len(file[d])

IInv == TypeOK /\ InCall /\ StableInFile /\ AckedDurable /\ FiledUnderItsDay

\* What a step does to the file of a day.
Kept(d) ==
    /\ synced'[d] \in Nat /\ file'[d] \in Seq(Bytes)
    /\ synced[d] <= synced'[d] /\ synced'[d] <= Len(file'[d])
    /\ \A i \in 1..synced[d] : file'[d][i] = file[d][i]

Disk == /\ file' \in [Days -> Seq(Bytes)] /\ synced' \in [Days -> Nat]
        /\ \A d \in Days : Kept(d)

-----------------------------------------------------------------------------
\* The first k bytes of a sequence, and what is after them.
LEMMA FrontRest ==
    ASSUME NEW S, NEW s \in Seq(S), NEW k \in 0..Len(s)
    PROVE  /\ Front(s, k) \in Seq(S) /\ Len(Front(s, k)) = k
           /\ \A i \in 1..k : Front(s, k)[i] = s[i]
           /\ Rest(s, k) \in Seq(S)
  BY SMT DEF Front, Rest

\* A line is three bytes.
LEMMA PayloadBytes ==
    ASSUME NEW r \in Records
    PROVE  Payload(r) \in Seq(Bytes) /\ Len(Payload(r)) = 3
  BY SMT DEF Payload, Bytes

\* What is appended to a sequence is the end of it.
LEMMA ConcatEnd ==
    ASSUME NEW s \in Seq(Bytes), NEW t \in Seq(Bytes), NEW i \in 1..Len(t)
    PROVE  /\ s \o t \in Seq(Bytes) /\ Len(s \o t) = Len(s) + Len(t)
           /\ (s \o t)[Len(s) + i] = t[i]
  BY SMT

\* A line written after the bytes that were left is at the end of the file.
LEMMA LineAtEnd ==
    ASSUME NEW s \in Seq(Bytes), NEW b \in Seq(Bytes), NEW r \in Records
    PROVE  EndsWith(s \o (b \o Payload(r)), r)
<1>1. Payload(r) \in Seq(Bytes) /\ Len(Payload(r)) = 3
  BY PayloadBytes
<1>2. Len(s) \in Nat /\ Len(b) \in Nat
  BY LenProperties
<1>3. ASSUME NEW line \in Seq(Bytes), Len(line) = 3, NEW i \in 1..3
      PROVE  LET part == b \o line
             IN  /\ Len(s \o part) = Len(s) + (Len(b) + 3)
                 /\ (s \o part)[Len(s) + (Len(b) + i)] = line[i]
  <2>1. i \in 1..Len(line)
    BY <1>3
  <2>2. /\ b \o line \in Seq(Bytes) /\ Len(b \o line) = Len(b) + Len(line)
        /\ (b \o line)[Len(b) + i] = line[i]
    BY <2>1, ConcatEnd
  <2>3. PICK part \in Seq(Bytes) :
           part = b \o line /\ Len(part) = Len(b) + 3 /\ part[Len(b) + i] = line[i]
    BY <1>3, <2>2
  <2>4. Len(b) + i \in 1..Len(part)
    BY <1>2, <2>3, SMT
  <2>5. /\ Len(s \o part) = Len(s) + Len(part)
        /\ (s \o part)[Len(s) + (Len(b) + i)] = part[Len(b) + i]
    BY <2>4, ConcatEnd
  <2> QED
    BY <2>3, <2>5
<1>4. PICK whole : whole = s \o (b \o Payload(r))
  OBVIOUS
<1>5. ASSUME NEW i \in 1..3
      PROVE  /\ Len(whole) = Len(s) + (Len(b) + 3)
             /\ whole[Len(s) + (Len(b) + i)] = Payload(r)[i]
  BY <1>1, <1>3, <1>4
<1>6. Len(whole) = Len(s) + (Len(b) + 3)
  BY <1>5, 1 \in 1..3
<1>7. ASSUME NEW i \in 1..3 PROVE whole[Len(whole) - 3 + i] = Payload(r)[i]
  <2>1. Len(whole) - 3 + i = Len(s) + (Len(b) + i)
    BY <1>2, <1>6, SMT
  <2> QED
    BY <1>5, <2>1
<1>8. Len(whole) >= 3
  BY <1>2, <1>6, SMT
<1> QED
  BY <1>4, <1>7, <1>8 DEF EndsWith

\* Appending to a day's file changes no byte of it.
LEMMA ExtendKeeps ==
    ASSUME TypeOK, StableInFile, NEW d \in Days, NEW s \in Seq(Bytes), Extend(d, s),
           UNCHANGED synced
    PROVE  Disk
<1>1. file' \in [Days -> Seq(Bytes)]
  BY SMT DEF TypeOK, Extend
<1>2. ASSUME NEW e \in Days PROVE Kept(e)
  <2>1. CASE e = d
    <3>1. file'[e] = file[e] \o s
      BY <2>1 DEF TypeOK, Extend
    <3>2. file[e] \in Seq(Bytes) /\ synced[e] \in Nat /\ synced[e] <= Len(file[e])
      BY DEF TypeOK, StableInFile
    <3>3. /\ file'[e] \in Seq(Bytes) /\ Len(file'[e]) = Len(file[e]) + Len(s)
          /\ \A i \in 1..Len(file[e]) : file'[e][i] = file[e][i]
      BY <3>1, <3>2, ConcatProperties, SMT
    <3> QED
      BY <3>2, <3>3, SMT DEF Kept
  <2>2. CASE e # d
    BY <1>1, <2>2, SMT DEF TypeOK, Kept, StableInFile, Extend
  <2> QED
    BY <2>1, <2>2
<1> QED
  BY <1>1, <1>2 DEF Disk, TypeOK

\* A step that does not touch the disk keeps it.
LEMMA UnchangedKeeps ==
    ASSUME TypeOK, StableInFile, UNCHANGED file, UNCHANGED synced
    PROVE  Disk
  BY SMT DEF TypeOK, StableInFile, Disk, Kept

\* So does an fsync.
LEMMA SyncKeeps ==
    ASSUME TypeOK, StableInFile, NEW d \in Days, UNCHANGED file,
           synced' = [synced EXCEPT ![d] = Len(file[d])]
    PROVE  Disk
  BY SMT DEF TypeOK, StableInFile, Disk, Kept

\* And a host stop, which cuts no file below what is stable.
LEMMA HostStopKeeps ==
    ASSUME TypeOK, StableInFile, HostStop
    PROVE  Disk
<1>1. PICK cut \in [Days -> UNION {0..Len(file[d]) : d \in Days}] :
         /\ \A d \in Days : synced[d] <= cut[d] /\ cut[d] <= Len(file[d])
         /\ file' = [d \in Days |-> Front(file[d], cut[d])]
         /\ synced' = cut
  BY DEF HostStop
<1>2. \A d \in Days : cut[d] \in Nat
  BY SMT DEF TypeOK
<1>3. ASSUME NEW d \in Days
      PROVE  Front(file[d], cut[d]) \in Seq(Bytes) /\ Kept(d)
  <2>1. cut[d] \in 0..Len(file[d]) /\ file[d] \in Seq(Bytes)
    BY <1>1, <1>2, SMT DEF TypeOK
  <2>2. /\ file'[d] = Front(file[d], cut[d])
        /\ file'[d] \in Seq(Bytes) /\ Len(file'[d]) = cut[d]
        /\ \A i \in 1..cut[d] : file'[d][i] = file[d][i]
    BY <1>1, <2>1, FrontRest
  <2>3. /\ synced'[d] = cut[d] /\ cut[d] \in Nat
        /\ synced[d] <= cut[d] /\ synced[d] \in Nat
    BY <1>1, <1>2 DEF TypeOK
  <2>4. Kept(d)
    BY <2>2, <2>3, SMT DEF Kept
  <2> QED
    BY <2>1, <2>4, FrontRest
<1>4. file' \in [Days -> Seq(Bytes)]
  BY <1>1, <1>3
<1>5. synced' \in [Days -> Nat]
  BY <1>1, <1>2
<1> QED
  BY <1>3, <1>4, <1>5 DEF Disk

\* Bytes that stay where they are hold the records that are in them.
LEMMA KeptHolds ==
    ASSUME TypeOK, AckedDurable, Disk, NEW a \in acked
    PROVE  Holds(a)'
<1>1. a.day \in Days /\ a.at \in Nat \ {0}
  BY DEF TypeOK
<1>2. /\ a.at + 2 <= synced[a.day] /\ synced[a.day] \in Nat
      /\ \A i \in 1..3 : file[a.day][a.at + i - 1] = Payload(a.rec)[i]
  BY <1>1 DEF AckedDurable, Holds, TypeOK
<1>3. /\ synced[a.day] <= synced'[a.day] /\ synced'[a.day] <= Len(file'[a.day])
      /\ synced'[a.day] \in Nat
      /\ \A i \in 1..synced[a.day] : file'[a.day][i] = file[a.day][i]
  BY <1>1 DEF Disk, Kept
<1>4. a.at + 2 <= synced'[a.day]
  BY <1>1, <1>2, <1>3, SMT
<1>5. ASSUME NEW i \in 1..3
      PROVE  file'[a.day][a.at + i - 1] = Payload(a.rec)[i]
  <2>1. a.at + i - 1 \in 1..synced[a.day]
    BY <1>1, <1>2, SMT
  <2> QED
    BY <1>2, <1>3, <2>1
<1> QED
  BY <1>3, <1>4, <1>5 DEF Holds

\* A step that acknowledges nothing keeps what was acknowledged, and where.
LEMMA KeptAcked ==
    ASSUME TypeOK, AckedDurable, FiledUnderItsDay, Disk, UNCHANGED acked,
           today' \in Days, today <= today'
    PROVE  AckedDurable' /\ FiledUnderItsDay' /\ StableInFile'
<1>1. AckedDurable'
  BY KeptHolds DEF AckedDurable
<1>2. FiledUnderItsDay'
  BY SMT DEF TypeOK, FiledUnderItsDay, Days
<1>3. StableInFile'
  BY DEF StableInFile, Disk, Kept
<1> QED
  BY <1>1, <1>2, <1>3

-----------------------------------------------------------------------------
(***************************************************************************)
(* No step of the archiver, no failure and no stop changes stable bytes.   *)
(***************************************************************************)
LEMMA StepDisk == IInv /\ [Next]_vars => Disk
<1> SUFFICES ASSUME IInv, [Next]_vars PROVE Disk
  OBVIOUS
<1> USE DEF IInv, disk, object
<1>1. CASE UNCHANGED disk
  BY <1>1, UnchangedKeeps
<1>2. CASE handle = "open" /\ CloseStream /\ UNCHANGED synced
  <2>1. Extend(curDate, buf)
    BY <1>2 DEF CloseStream
  <2>2. curDate \in Days /\ buf \in Seq(Bytes)
    BY <1>2 DEF TypeOK, InCall
  <2> QED
    BY <1>2, <2>1, <2>2, ExtendKeeps
<1>3. CASE CloseStreamFails /\ UNCHANGED synced
  <2>1. PICK k \in 0..Len(buf) : Extend(curDate, Front(buf, k))
    BY <1>3 DEF CloseStreamFails
  <2>2. curDate \in Days /\ Front(buf, k) \in Seq(Bytes)
    BY <1>3, FrontRest DEF TypeOK, InCall, CloseStreamFails
  <2> QED
    BY <1>3, <2>1, <2>2, ExtendKeeps
<1>4. CASE Close
  BY <1>1, <1>2, <1>3, <1>4 DEF Close, CloseStream
<1>5. CASE RotateClose
  BY <1>1, <1>2, <1>3, <1>5 DEF RotateClose, CloseStream
<1>6. pc = "write" /\ handle = "open" =>
         curDate \in Days /\ Pending \in Seq(Bytes)
  BY PayloadBytes, ConcatProperties DEF TypeOK, InCall, Pending
<1>7. CASE Flush
  BY <1>6, <1>7, ExtendKeeps DEF Flush
<1>8. ASSUME pc = "write", handle = "open", UNCHANGED synced,
             NEW k \in 0..Len(Pending), Extend(curDate, Front(Pending, k))
      PROVE  Disk
  <2>1. Front(Pending, k) \in Seq(Bytes)
    BY <1>6, <1>8, FrontRest
  <2> QED
    BY <1>6, <1>8, <2>1, ExtendKeeps
<1>9. CASE FlushFails
  BY <1>8, <1>9 DEF FlushFails
<1>10. CASE Kill
  BY <1>1, <1>8, <1>10 DEF Kill
<1>11. CASE Sync \/ SyncFails
  <2>1. curDate \in Days
    BY <1>11 DEF Sync, SyncFails, InCall
  <2>2. \/ UNCHANGED disk
        \/ UNCHANGED file /\ synced' = [synced EXCEPT ![curDate] = Len(file[curDate])]
    BY <1>11 DEF Sync, SyncFails
  <2> QED
    BY <1>1, <2>1, <2>2, SyncKeeps
<1>12. CASE HostStop
  BY <1>12, HostStopKeeps
<1>13. CASE Open \/ RotateOpen \/ WriteRefused \/ Midnight
  BY <1>1, <1>13 DEF Open, RotateOpen, WriteRefused, Midnight
<1>14. ASSUME NEW r \in Records, Write(r) PROVE Disk
  BY <1>1, <1>14 DEF Write
<1>15. CASE UNCHANGED vars
  BY <1>1, <1>15 DEF vars
<1> QED
  BY <1>4, <1>5, <1>7, <1>9, <1>10, <1>11, <1>12, <1>13, <1>14, <1>15 DEF Next

(***************************************************************************)
(* IInv is inductive, one step per step of the archiver.                   *)
(***************************************************************************)
LEMMA InitIInv == Init => IInv
  BY ArchiverAssumption, SMT
     DEF Init, IInv, TypeOK, InCall, StableInFile, AckedDurable, FiledUnderItsDay,
         Days, NoDay, Bytes

\* What a call has reached at each of its steps.
LEMMA StepInCall == IInv /\ [Next]_vars => InCall'
<1> SUFFICES ASSUME IInv, [Next]_vars PROVE InCall'
  OBVIOUS
<1> USE ArchiverAssumption DEF IInv, TypeOK, InCall, disk, object, call, Days, NoDay, Return
<1>1. CASE Open
  BY <1>1, SMT DEF Open
<1>2. CASE Close
  BY <1>2, SMT DEF Close, CloseStream, CloseStreamFails
<1>3. CASE RotateClose
  <2>1. /\ pc' \in {"reopen", "idle"} /\ UNCHANGED <<curDate, today, called>>
        /\ handle' # "none" => handle # "none"
    BY <1>3 DEF RotateClose, CloseStream, CloseStreamFails
  <2> QED
    BY <2>1, SMT
<1>4. CASE RotateOpen
  BY <1>4, SMT DEF RotateOpen
<1>5. ASSUME NEW r \in Records, Write(r) PROVE InCall'
  BY <1>5, SMT DEF Write
<1>6. CASE Flush
  <2>1. curDate \in Days /\ rec \in Records /\ handle = "open"
    BY <1>6 DEF Flush
  <2>2. EndsWith(file[curDate] \o (buf \o Payload(rec)), rec)
    BY <2>1, LineAtEnd
  <2>3. file'[curDate] = file[curDate] \o (buf \o Payload(rec))
    BY <1>6, <2>1 DEF Flush, Extend, Pending
  <2> QED
    BY <1>6, <2>1, <2>2, <2>3 DEF Flush
<1>7. CASE FlushFails
  BY <1>7, SMT DEF FlushFails
<1>8. CASE WriteRefused
  BY <1>8, SMT DEF WriteRefused
<1>9. CASE Sync
  <2>1. pc' = "idle" /\ UNCHANGED <<handle, curDate, today, called>>
    BY <1>9 DEF Sync
  <2> QED
    BY <2>1
<1>10. CASE SyncFails
  <2>1. pc' = "idle" /\ UNCHANGED <<handle, curDate, today, called>>
    BY <1>10 DEF SyncFails
  <2> QED
    BY <2>1
<1>11. CASE Kill \/ HostStop
  <2>1. pc' = "idle" /\ handle' = "none" /\ curDate' = 0 /\ UNCHANGED <<today, called>>
    BY <1>11 DEF Kill, HostStop, NewProcess
  <2> QED
    BY <2>1, SMT
<1>12. CASE Midnight
  <2>1. today' = today + 1 /\ UNCHANGED <<file, synced, handle, curDate, buf, pc, rec, called>>
    BY <1>12 DEF Midnight
  <2>2. curDate <= today /\ called <= today /\ today \in Nat /\ curDate \in Nat /\ called \in Nat
    BY SMT
  <2>3. curDate <= today + 1 /\ called <= today + 1
    BY <2>2, SMT
  <2> QED
    BY <2>1, <2>3 DEF EndsWith
<1>13. CASE UNCHANGED vars
  BY <1>13 DEF vars, EndsWith
<1> QED
  BY <1>1, <1>2, <1>3, <1>4, <1>5, <1>6, <1>7, <1>8, <1>9, <1>10, <1>11, <1>12, <1>13
     DEF Next

\* A file that ends with a line has a place where the line begins.
LEMMA LinePosition == \A n \in Nat : n >= 3 => n - 2 \in Nat \ {0}
  BY SMT

\* The variables keep their types; those of the disk by StepDisk.
LEMMA StepTypeOK == IInv /\ [Next]_vars => TypeOK'
<1> SUFFICES ASSUME IInv, [Next]_vars PROVE TypeOK'
  OBVIOUS
<1>1. file' \in [Days -> Seq(Bytes)] /\ synced' \in [Days -> Nat]
  BY StepDisk DEF Disk
<1> USE <1>1, ArchiverAssumption DEF IInv, TypeOK, disk, object, call, Return
<1>2. NoRec \in Records \union {NoRec} /\ NoDay \in Days \union {NoDay}
  OBVIOUS
<1>3. CASE Open
  BY <1>3 DEF Open
<1>4. CASE Close
  BY <1>4, EmptySeq DEF Close, CloseStream, CloseStreamFails
<1>5. CASE RotateClose
  BY <1>5, EmptySeq DEF RotateClose, CloseStream, CloseStreamFails
<1>6. CASE RotateOpen
  BY <1>6 DEF RotateOpen
<1>7. ASSUME NEW r \in Records, Write(r) PROVE TypeOK'
  BY <1>7 DEF Write
<1>8. CASE Flush
  BY <1>8, EmptySeq DEF Flush
<1>9. CASE FlushFails
  <2>1. Pending \in Seq(Bytes)
    BY <1>9, PayloadBytes, ConcatProperties DEF FlushFails, InCall, Pending
  <2>2. buf' \in Seq(Bytes)
    BY <1>9, <2>1, FrontRest, EmptySeq DEF FlushFails
  <2> QED
    BY <1>9, <2>2 DEF FlushFails
<1>10. CASE WriteRefused
  BY <1>10 DEF WriteRefused
<1>11. CASE Sync
  <2>1. rec \in Records /\ curDate \in Days /\ EndsWith(file[curDate], rec)
    BY <1>11 DEF Sync, InCall
  <2>2. Len(file[curDate]) \in Nat /\ Len(file[curDate]) >= 3
    BY <2>1, LenProperties DEF EndsWith
  <2>3. Len(file[curDate]) - 2 \in Nat \ {0}
    BY <2>2, LinePosition
  <2>4. lines' \in Nat
    BY <1>11, SMT DEF Sync
  <2>5. acked' \subseteq [rec : Records, day : Days, at : Nat \ {0}, from : Days]
    <3>1. PICK new : new = [rec |-> rec, day |-> curDate,
                            at |-> Len(file[curDate]) - 2, from |-> called]
      OBVIOUS
    <3>2. acked' = acked \union {new}
      BY <1>11, <3>1 DEF Sync, Acknowledge
    <3>3. new \in [rec : Records, day : Days, at : Nat \ {0}, from : Days]
      BY <2>1, <2>3, <3>1
    <3> QED
      BY <3>2, <3>3
  <2> QED
    BY <1>11, <2>4, <2>5 DEF Sync
<1>12. CASE SyncFails
  BY <1>12 DEF SyncFails
<1>13. CASE Kill \/ HostStop
  <2>3. stops < MaxStops /\ stops' = stops + 1 /\ lines' = 0
    BY <1>13 DEF Kill, HostStop, NewProcess
  <2>4. stops \in 0..MaxStops /\ MaxStops \in Nat
    BY ArchiverAssumption DEF TypeOK
  <2>1. stops' \in 0..MaxStops
    BY <2>3, <2>4, SMT
  <2>2. lines' \in Nat
    BY <2>3
  <2> QED
    BY <1>13, <2>1, <2>2, EmptySeq DEF Kill, HostStop, NewProcess
<1>14. CASE Midnight
  <2>1. today' \in Days
    BY <1>14, SMT DEF Midnight, Days
  <2> QED
    BY <1>14, <2>1 DEF Midnight
<1>15. CASE UNCHANGED vars
  BY <1>15 DEF vars
<1> QED
  BY <1>3, <1>4, <1>5, <1>6, <1>7, <1>8, <1>9, <1>10, <1>11, <1>12, <1>13, <1>14, <1>15
     DEF Next

\* Only Sync acknowledges, and time never goes back.
LEMMA StepHistory ==
    IInv /\ [Next]_vars =>
        /\ Sync \/ UNCHANGED acked
        /\ today <= today'
<1> SUFFICES ASSUME IInv, [Next]_vars
             PROVE  (Sync \/ UNCHANGED acked) /\ today <= today'
  OBVIOUS
<1>1. today \in Nat
  BY SMT DEF IInv, TypeOK, Days
<1>2. Sync \/ UNCHANGED acked
  BY DEF Next, Open, Close, RotateClose, RotateOpen, Write, Flush, FlushFails,
         WriteRefused, SyncFails, Kill, HostStop, NewProcess, Midnight, vars
<1>3. Midnight \/ UNCHANGED today
  BY DEF Next, Open, Close, RotateClose, RotateOpen, Write, Flush, FlushFails,
         WriteRefused, Sync, SyncFails, Kill, HostStop, NewProcess, vars
<1>4. today <= today'
  BY <1>1, <1>3, SMT DEF Midnight
<1> QED
  BY <1>2, <1>4

\* A record acknowledged is at the end of the file, all of it stable.
LEMMA StepIInv == IInv /\ [Next]_vars => IInv'
<1> SUFFICES ASSUME IInv, [Next]_vars PROVE IInv'
  OBVIOUS
<1>1. TypeOK' /\ InCall' /\ Disk
  BY StepTypeOK, StepInCall, StepDisk
<1>2. (Sync \/ UNCHANGED acked) /\ today <= today'
  BY StepHistory
<1>3. CASE UNCHANGED acked
  BY <1>1, <1>2, <1>3, KeptAcked DEF IInv, TypeOK
<1>4. CASE Sync
  <2> PICK new : new = [rec |-> rec, day |-> curDate,
                        at |-> Len(file[curDate]) - 2, from |-> called]
    OBVIOUS
  <2>1. /\ acked' = acked \union {new} /\ UNCHANGED <<file, today>>
        /\ synced' = [synced EXCEPT ![curDate] = Len(file[curDate])]
    BY <1>4 DEF Sync, Acknowledge
  <2>2. /\ curDate \in Days /\ rec \in Records /\ EndsWith(file[curDate], rec)
        /\ called <= curDate /\ curDate <= today
    BY <1>4 DEF Sync, IInv, InCall
  <2>3. /\ synced'[curDate] = Len(file[curDate]) /\ file'[curDate] = file[curDate]
        /\ Len(file[curDate]) \in Nat
    BY <2>1, <2>2, LenProperties DEF IInv, TypeOK
  <2>4. Holds(new)'
    <3>1. new.at + 2 = Len(file[curDate]) /\ new.day = curDate /\ new.rec = rec
      BY <2>3, SMT
    <3>2. ASSUME NEW i \in 1..3
          PROVE  file[curDate][new.at + i - 1] = Payload(rec)[i]
      <4>1. new.at + i - 1 = Len(file[curDate]) - 3 + i
        BY <2>3, SMT
      <4> QED
        BY <2>2, <4>1 DEF EndsWith
    <3> QED
      BY <2>3, <3>1, <3>2, SMT DEF Holds
  <2>5. AckedDurable'
    BY <1>1, <2>1, <2>4, KeptHolds DEF AckedDurable, IInv
  <2>6. FiledUnderItsDay'
    <3> SUFFICES ASSUME NEW a \in acked' PROVE a.from <= a.day /\ a.day <= today
      BY <2>1 DEF FiledUnderItsDay
    <3>1. CASE a \in acked
      BY <3>1 DEF IInv, FiledUnderItsDay
    <3>2. CASE a = new
      BY <2>2, <3>2
    <3> QED
      BY <2>1, <3>1, <3>2
  <2> QED
    BY <1>1, <2>5, <2>6 DEF IInv, StableInFile, Disk, Kept
<1> QED
  BY <1>1, <1>2, <1>3, <1>4 DEF IInv

\* IInv holds of every state the archiver and the disk reach.
THEOREM Invariance == Spec => []IInv
  BY InitIInv, StepIInv, PTL DEF Spec

-----------------------------------------------------------------------------
(***************************************************************************)
(* The variables of the archiver and the disk keep their types; a record   *)
(* acknowledged is a record, on a day, at a position of its file.          *)
(***************************************************************************)
THEOREM TypeCorrect == Spec => []TypeOK
<1>1. IInv => TypeOK
  BY DEF IInv
<1> QED
  BY <1>1, Invariance, PTL

(***************************************************************************)
(* An acknowledged record is on stable storage, whole, after any number of *)
(* failed writes, rotations, kills and host stops.                         *)
(***************************************************************************)
THEOREM AcknowledgedIsDurable == Spec => []AckedDurable
<1>1. IInv => AckedDurable
  BY DEF IInv
<1> QED
  BY <1>1, Invariance, PTL

(***************************************************************************)
(* A record is filed under the date on which its write() began, or a later *)
(* one that had come when write() ran.                                     *)
(***************************************************************************)
THEOREM FiledByDate == Spec => []FiledUnderItsDay
<1>1. IInv => FiledUnderItsDay
  BY DEF IInv
<1> QED
  BY <1>1, Invariance, PTL

(***************************************************************************)
(* No step changes bytes that are on stable storage.                       *)
(***************************************************************************)
THEOREM CorpusAppendOnly == Spec => AppendOnly
<1>1. IInv /\ [Next]_vars =>
        [\A d \in Days :
           /\ synced[d] <= synced'[d] /\ synced'[d] <= Len(file'[d])
           /\ \A i \in 1..synced[d] : file'[d][i] = file[d][i]]_disk
  BY StepDisk DEF Disk, Kept
<1> QED
  BY <1>1, Invariance, PTL DEF Spec, AppendOnly

-----------------------------------------------------------------------------
(***************************************************************************)
(* Why an acknowledged record has one line and one place: no byte of a     *)
(* record is in the files twice, what the stream object still holds is     *)
(* nowhere in them, and no record is acknowledged twice.                   *)
(***************************************************************************)
OneCopy ==
    \A d, e \in Days : \A i \in DOMAIN file[d], j \in DOMAIN file[e] :
        file[d][i] = file[e][j] => d = e /\ i = j

\* No byte of s is in s twice, none of them is in a file.
Distinct(s)  == \A i, j \in DOMAIN s : s[i] = s[j] => i = j
Elsewhere(s) == \A d \in Days : \A i \in DOMAIN file[d], j \in DOMAIN s : file[d][i] # s[j]

\* The bytes in the files and in the stream.
Stored == (UNION {{file[d][i] : i \in DOMAIN file[d]} : d \in Days})
            \union {buf[i] : i \in DOMAIN buf}

\* They, and the acknowledgements, are of records that were handed over.
Offered == /\ \A b \in Stored : b[1] \in offered
           /\ \A a \in acked : a.rec \in offered

\* The record of the call in progress: until "sync" no byte of it is anywhere.
Unsaid ==
    rec # NoRec => /\ rec \in offered
                   /\ \A a \in acked : a.rec # rec
                   /\ pc # "sync" => \A b \in Stored : b[1] # rec

SaidOnce == \A a, b \in acked : a.rec = b.rec => a = b

Once == OneCopy /\ Distinct(buf) /\ Elsewhere(buf) /\ Offered /\ Unsaid /\ SaidOnce

\* The bytes of a line are three different ones, all of its record.
LEMMA PayloadOnce ==
    ASSUME NEW r \in Records
    PROVE  /\ Payload(r)[1] = <<r, "head">> /\ Payload(r)[2] = <<r, "rest">>
           /\ Payload(r)[3] = <<r, "nl">>
           /\ Distinct(Payload(r))
           /\ \A i \in DOMAIN Payload(r) : Payload(r)[i][1] = r
<1>1. /\ DOMAIN Payload(r) = 1..3
      /\ Payload(r)[1] = <<r, "head">> /\ Payload(r)[2] = <<r, "rest">>
      /\ Payload(r)[3] = <<r, "nl">>
  BY DEF Payload
<1>2. 1..3 = {1, 2, 3}
  BY SMT
<1> QED
  BY <1>1, <1>2 DEF Distinct

\* The elements of what is cut off, and of two sequences put together.
LEMMA RestElement ==
    ASSUME NEW S, NEW s \in Seq(S), NEW k \in 0..Len(s), NEW i \in DOMAIN Rest(s, k)
    PROVE  k + i \in DOMAIN s /\ k + i \notin 1..k /\ Rest(s, k)[i] = s[k + i] /\ i \in Nat
  BY SMT DEF Rest

LEMMA ConcatElement ==
    ASSUME NEW S, NEW s \in Seq(S), NEW t \in Seq(S), NEW i \in DOMAIN (s \o t)
    PROVE  /\ i \in Nat /\ Len(s) \in Nat
           /\ \/ i \in DOMAIN s /\ (s \o t)[i] = s[i]
              \/ i - Len(s) \in DOMAIN t /\ (s \o t)[i] = t[i - Len(s)]
  BY SMT

(***************************************************************************)
(* Bytes that are nowhere and among themselves different are written: a    *)
(* first part to the end of a file, and the stream keeps the others or     *)
(* drops them.                                                             *)
(***************************************************************************)
LEMMA Written ==
    ASSUME file \in [Days -> Seq(Bytes)], OneCopy, NEW d \in Days, NEW p \in Seq(Bytes),
           Distinct(p), Elsewhere(p), NEW k \in 0..Len(p), Extend(d, Front(p, k)),
           buf' \in {<<>>, Rest(p, k)}
    PROVE  /\ OneCopy' /\ Distinct(buf)' /\ Elsewhere(buf)'
           /\ \A e \in Days : \A i \in DOMAIN file'[e] :
                 \/ \E j \in DOMAIN file[e] : file'[e][i] = file[e][j]
                 \/ \E j \in DOMAIN p : file'[e][i] = p[j]
           /\ \A i \in DOMAIN buf' : \E j \in DOMAIN p : buf'[i] = p[j]
<1> DEFINE n == Len(file[d])
<1>1. /\ DOMAIN Front(p, k) = 1..k /\ 1..k \subseteq DOMAIN p
      /\ \A i \in 1..k : Front(p, k)[i] = p[i]
      /\ Front(p, k) \in Seq(Bytes)
  <2>1. 1..k \subseteq DOMAIN p /\ k \in Nat
    BY SMT
  <2> QED
    BY <2>1, FrontRest, LenProperties
<1>2. /\ file' = [file EXCEPT ![d] = file[d] \o Front(p, k)]
      /\ \A e \in Days : e # d => file'[e] = file[e]
      /\ file'[d] = file[d] \o Front(p, k)
  BY DEF Extend
<1>3. ASSUME NEW e \in Days, NEW i \in DOMAIN file'[e]
      PROVE  \/ i \in DOMAIN file[e] /\ file'[e][i] = file[e][i]
             \/ /\ e = d /\ i \in Nat /\ n \in Nat
                /\ i - n \in 1..k /\ file'[e][i] = p[i - n]
  <2>1. CASE e # d
    BY <1>2, <2>1
  <2>2. CASE e = d
    <3>1. file[d] \in Seq(Bytes)
      OBVIOUS
    <3>2. i \in DOMAIN (file[d] \o Front(p, k))
      BY <1>2, <2>2
    <3>3. /\ i \in Nat /\ n \in Nat
          /\ \/ i \in DOMAIN file[d] /\ (file[d] \o Front(p, k))[i] = file[d][i]
             \/ /\ i - n \in DOMAIN Front(p, k)
                /\ (file[d] \o Front(p, k))[i] = Front(p, k)[i - n]
      BY <1>1, <3>1, <3>2, ConcatElement
    <3> QED
      BY <1>1, <1>2, <2>2, <3>3
  <2> QED
    BY <2>1, <2>2
<1>4. ASSUME NEW i \in DOMAIN buf'
      PROVE  k + i \in DOMAIN p /\ k + i \notin 1..k /\ buf'[i] = p[k + i] /\ i \in Nat
  <2>1. buf' # <<>>
    BY <1>4, EmptySeq
  <2> QED
    BY <2>1, RestElement
<1> HIDE DEF n
<1>5. OneCopy'
  <2> SUFFICES ASSUME NEW e \in Days, NEW f \in Days, NEW i \in DOMAIN file'[e],
                      NEW j \in DOMAIN file'[f], file'[e][i] = file'[f][j]
               PROVE  e = f /\ i = j
    BY DEF OneCopy
  <2>1. CASE i \in DOMAIN file[e] /\ file'[e][i] = file[e][i]
    <3>1. CASE j \in DOMAIN file[f] /\ file'[f][j] = file[f][j]
      <4>1. file[e][i] = file[f][j]
        BY <2>1, <3>1
      <4> QED
        BY <2>1, <3>1, <4>1 DEF OneCopy
    <3>2. CASE j - n \in 1..k /\ file'[f][j] = p[j - n]
      <4>1. j - n \in DOMAIN p /\ file[e][i] = p[j - n]
        BY <1>1, <2>1, <3>2
      <4> QED
        BY <2>1, <4>1 DEF Elsewhere
    <3> QED
      BY <1>3, <3>1, <3>2
  <2>2. CASE e = d /\ i \in Nat /\ n \in Nat /\ i - n \in 1..k /\ file'[e][i] = p[i - n]
    <3>1. CASE j \in DOMAIN file[f] /\ file'[f][j] = file[f][j]
      BY <1>1, <2>2, <3>1 DEF Elsewhere
    <3>2. CASE f = d /\ j \in Nat /\ j - n \in 1..k /\ file'[f][j] = p[j - n]
      <4>1. i - n = j - n
        BY <1>1, <2>2, <3>2 DEF Distinct
      <4>2. i = j
        BY <2>2, <3>2, <4>1, SMT
      <4> QED
        BY <2>2, <3>2, <4>2
    <3> QED
      BY <1>3, <3>1, <3>2
  <2> QED
    BY <1>3, <2>1, <2>2
<1>6. Distinct(buf)'
  <2> SUFFICES ASSUME NEW i \in DOMAIN buf', NEW j \in DOMAIN buf', buf'[i] = buf'[j]
               PROVE  i = j
    BY DEF Distinct
  <2>1. k + i = k + j /\ i \in Nat /\ j \in Nat
    BY <1>4 DEF Distinct
  <2> QED
    BY <2>1, SMT
<1>7. Elsewhere(buf)'
  <2> SUFFICES ASSUME NEW e \in Days, NEW i \in DOMAIN file'[e], NEW j \in DOMAIN buf',
                      file'[e][i] = buf'[j]
               PROVE  FALSE
    BY DEF Elsewhere
  <2>1. k + j \in DOMAIN p /\ k + j \notin 1..k /\ buf'[j] = p[k + j]
    BY <1>4
  <2>2. CASE i \in DOMAIN file[e] /\ file'[e][i] = file[e][i]
    BY <2>1, <2>2 DEF Elsewhere
  <2>3. CASE i - n \in 1..k /\ file'[e][i] = p[i - n]
    BY <1>1, <2>1, <2>3 DEF Distinct
  <2> QED
    BY <1>3, <2>2, <2>3
<1> QED
  BY <1>1, <1>3, <1>4, <1>5, <1>6, <1>7

\* Where a byte that is stored is.
LEMMA StoredIs ==
    ASSUME NEW b
    PROVE  b \in Stored <=> \/ \E d \in Days : \E i \in DOMAIN file[d] : file[d][i] = b
                            \/ \E i \in DOMAIN buf : buf[i] = b
  BY DEF Stored

\* The elements of the first k.
LEMMA FrontElements ==
    ASSUME NEW S, NEW s \in Seq(S), NEW k \in 0..Len(s)
    PROVE  /\ DOMAIN Front(s, k) = 1..k /\ 1..k \subseteq DOMAIN s
           /\ \A j \in 1..k : Front(s, k)[j] = s[j]
<1>1. 1..k \subseteq DOMAIN s /\ k \in Nat
  BY SMT
<1>2. Front(s, k) \in Seq(S) /\ Len(Front(s, k)) = k /\ \A j \in 1..k : Front(s, k)[j] = s[j]
  BY FrontRest
<1> QED
  BY <1>1, <1>2, LenProperties

\* All of a sequence is a first part of it.
LEMMA FrontWhole ==
    ASSUME NEW S, NEW s \in Seq(S)
    PROVE  Front(s, Len(s)) = s /\ Len(s) \in 0..Len(s)
<1>1. Len(s) \in 0..Len(s)
  BY SMT
<1>2. Front(s, Len(s)) \in Seq(S) /\ Len(Front(s, Len(s))) = Len(s)
  BY <1>1, FrontRest
<1>3. \A i \in 1..Len(s) : Front(s, Len(s))[i] = s[i]
  BY <1>1, FrontRest
<1> QED
  BY <1>1, <1>2, <1>3, SeqEqual

\* What the next flush passes on is nowhere yet.
LEMMA PendingOnce ==
    ASSUME IInv, Once, pc = "write", handle = "open"
    PROVE  /\ rec \in Records /\ curDate \in Days /\ Pending \in Seq(Bytes)
           /\ Distinct(Pending) /\ Elsewhere(Pending)
           /\ \A i \in DOMAIN Pending : Pending[i] \in Stored \/ Pending[i][1] = rec
<1>1. /\ rec \in Records /\ rec # NoRec /\ buf \in Seq(Bytes)
      /\ \A b \in Stored : b[1] # rec
  BY ArchiverAssumption DEF IInv, InCall, TypeOK, Once, Unsaid
<1>2. /\ Payload(rec) \in Seq(Bytes) /\ Pending \in Seq(Bytes)
      /\ Distinct(Payload(rec)) /\ \A i \in DOMAIN Payload(rec) : Payload(rec)[i][1] = rec
  BY <1>1, PayloadBytes, PayloadOnce, ConcatProperties DEF Pending
<1>3. ASSUME NEW i \in DOMAIN Pending
      PROVE  /\ i \in Nat /\ Len(buf) \in Nat
             /\ \/ i \in DOMAIN buf /\ Pending[i] = buf[i] /\ Pending[i] \in Stored
                \/ /\ i - Len(buf) \in DOMAIN Payload(rec) /\ Pending[i][1] = rec
                   /\ Pending[i] = Payload(rec)[i - Len(buf)]
  <2>1. /\ i \in Nat /\ Len(buf) \in Nat
        /\ \/ i \in DOMAIN buf /\ Pending[i] = buf[i]
           \/ i - Len(buf) \in DOMAIN Payload(rec) /\ Pending[i] = Payload(rec)[i - Len(buf)]
    BY <1>1, <1>2, <1>3, ConcatElement DEF Pending
  <2> QED
    BY <1>2, <2>1, StoredIs
<1>4. Distinct(Pending)
  <2> SUFFICES ASSUME NEW i \in DOMAIN Pending, NEW j \in DOMAIN Pending,
                      Pending[i] = Pending[j]
               PROVE  i = j
    BY DEF Distinct
  <2>1. CASE Pending[i] \in Stored
    BY <1>1, <1>3, <2>1 DEF Once, Distinct
  <2>2. CASE Pending[i] \notin Stored
    <3>1. i - Len(buf) = j - Len(buf)
      BY <1>2, <1>3, <2>2 DEF Distinct
    <3> QED
      BY <1>3, <3>1, SMT
  <2> QED
    BY <2>1, <2>2
<1>5. Elsewhere(Pending)
  <2> SUFFICES ASSUME NEW d \in Days, NEW i \in DOMAIN file[d], NEW j \in DOMAIN Pending,
                      file[d][i] = Pending[j]
               PROVE  FALSE
    BY DEF Elsewhere
  <2>1. file[d][i] \in Stored
    BY StoredIs
  <2> QED
    BY <1>1, <1>3, <2>1 DEF Once, Elsewhere
<1>6. curDate \in Days
  BY ArchiverAssumption DEF IInv, InCall, TypeOK
<1> QED
  BY <1>1, <1>2, <1>3, <1>4, <1>5, <1>6

(***************************************************************************)
(* A step stores nothing twice, and nothing but what was stored and what   *)
(* is pending, whose record it then gives up or leaves to "sync".          *)
(***************************************************************************)
StoredNext ==
    /\ OneCopy' /\ Distinct(buf)' /\ Elsewhere(buf)'
    /\ \A b \in Stored' : \/ b \in Stored
                          \/ /\ pc = "write" /\ b[1] = rec /\ rec \in Records
                             /\ (pc' = "sync" /\ rec' = rec) \/ rec' = NoRec

\* The bytes of p are written in part, and no other.
LEMMA WrittenStored ==
    ASSUME IInv, Once, NEW d \in Days, NEW p \in Seq(Bytes), NEW k \in 0..Len(p),
           Distinct(p), Elsewhere(p), Extend(d, Front(p, k)), buf' \in {<<>>, Rest(p, k)}
    PROVE  /\ OneCopy' /\ Distinct(buf)' /\ Elsewhere(buf)'
           /\ \A b \in Stored' : b \in Stored \/ \E i \in DOMAIN p : b = p[i]
<1>1. /\ OneCopy' /\ Distinct(buf)' /\ Elsewhere(buf)'
      /\ \A e \in Days : \A i \in DOMAIN file'[e] :
            \/ \E j \in DOMAIN file[e] : file'[e][i] = file[e][j]
            \/ \E j \in DOMAIN p : file'[e][i] = p[j]
      /\ \A i \in DOMAIN buf' : \E j \in DOMAIN p : buf'[i] = p[j]
  BY Written DEF IInv, TypeOK, Once
<1>2. ASSUME NEW b \in Stored' PROVE b \in Stored \/ \E i \in DOMAIN p : b = p[i]
  <2>1. \/ \E e \in Days : \E i \in DOMAIN file'[e] : file'[e][i] = b
        \/ \E i \in DOMAIN buf' : buf'[i] = b
    BY <1>2 DEF Stored
  <2>2. ASSUME NEW e \in Days, NEW j \in DOMAIN file[e], file[e][j] = b PROVE b \in Stored
    BY <2>2, StoredIs
  <2> QED
    BY <1>1, <2>1, <2>2
<1> QED
  BY <1>1, <1>2

\* What the stream held is written, when it is closed, as far as it could be.
LEMMA ClosedStored ==
    ASSUME IInv, Once, handle = "open", NEW k \in 0..Len(buf), buf' = <<>>,
           Extend(curDate, Front(buf, k))
    PROVE  StoredNext
<1>1. curDate \in Days /\ buf \in Seq(Bytes) /\ Distinct(buf) /\ Elsewhere(buf)
  BY DEF IInv, InCall, TypeOK, Once
<1>2. /\ OneCopy' /\ Distinct(buf)' /\ Elsewhere(buf)'
      /\ \A b \in Stored' : b \in Stored \/ \E i \in DOMAIN buf : b = buf[i]
  BY <1>1, WrittenStored
<1> QED
  BY <1>2, StoredIs DEF StoredNext

\* So is what is pending.
LEMMA FlushedStored ==
    ASSUME IInv, Once, pc = "write", handle = "open", NEW k \in 0..Len(Pending),
           Extend(curDate, Front(Pending, k)), buf' \in {<<>>, Rest(Pending, k)},
           (pc' = "sync" /\ rec' = rec) \/ rec' = NoRec
    PROVE  StoredNext
<1>1. /\ rec \in Records /\ curDate \in Days /\ Pending \in Seq(Bytes)
      /\ Distinct(Pending) /\ Elsewhere(Pending)
      /\ \A i \in DOMAIN Pending : Pending[i] \in Stored \/ Pending[i][1] = rec
  BY PendingOnce
<1>2. /\ OneCopy' /\ Distinct(buf)' /\ Elsewhere(buf)'
      /\ \A b \in Stored' : b \in Stored \/ \E i \in DOMAIN Pending : b = Pending[i]
  BY <1>1, WrittenStored
<1> QED
  BY <1>1, <1>2 DEF StoredNext

\* A stop loses bytes, of the files and of the stream, and adds none.
LEMMA LostStored ==
    ASSUME IInv, Once, buf' = <<>>,
           \A d \in Days : \A i \in DOMAIN file'[d] :
              i \in DOMAIN file[d] /\ file'[d][i] = file[d][i]
    PROVE  StoredNext
<1>1. DOMAIN buf' = {}
  BY EmptySeq
<1>2. OneCopy' /\ Distinct(buf)' /\ Elsewhere(buf)'
  BY <1>1 DEF Once, OneCopy, Distinct, Elsewhere
<1>3. ASSUME NEW b \in Stored' PROVE b \in Stored
  <2>1. \E d \in Days : \E i \in DOMAIN file'[d] : file'[d][i] = b
    BY <1>1, <1>3 DEF Stored
  <2> QED
    BY <2>1, StoredIs
<1> QED
  BY <1>2, <1>3 DEF StoredNext

LEMMA SameStored ==
    ASSUME Once, UNCHANGED <<file, buf>>
    PROVE  StoredNext /\ Stored' = Stored
<1>1. Stored' = Stored /\ OneCopy' /\ Distinct(buf)' /\ Elsewhere(buf)'
  BY DEF Stored, Once, OneCopy, Distinct, Elsewhere
<1> QED
  BY <1>1 DEF StoredNext

LEMMA StepStored == IInv /\ Once /\ [Next]_vars => StoredNext
<1> SUFFICES ASSUME IInv, Once, [Next]_vars PROVE StoredNext
  OBVIOUS
<1>1. CASE UNCHANGED <<file, buf>>
  BY <1>1, SameStored
<1>2. CASE CloseStream
  <2>1. CASE handle = "open"
    <3>1. Extend(curDate, buf) /\ buf' = <<>>
      BY <1>2, <2>1 DEF CloseStream
    <3>2. Front(buf, Len(buf)) = buf /\ Len(buf) \in 0..Len(buf)
      BY FrontWhole DEF IInv, TypeOK
    <3> QED
      BY <2>1, <3>1, <3>2, ClosedStored
  <2>2. CASE handle # "open"
    <3>1. UNCHANGED file /\ buf' = <<>>
      BY <1>2, <2>2 DEF CloseStream
    <3> QED
      BY <3>1, LostStored
  <2> QED
    BY <2>1, <2>2
<1>3. CASE CloseStreamFails
  BY <1>3, ClosedStored DEF CloseStreamFails
<1>4. CASE Close \/ RotateClose
  BY <1>1, <1>2, <1>3, <1>4 DEF Close, RotateClose
<1>5. CASE Flush
  <2>1. Front(Pending, Len(Pending)) = Pending /\ Len(Pending) \in 0..Len(Pending)
    BY <1>5, PendingOnce, FrontWhole DEF Flush
  <2>2. Extend(curDate, Front(Pending, Len(Pending)))
    BY <1>5, <2>1 DEF Flush
  <2> QED
    BY <1>5, <2>1, <2>2, FlushedStored DEF Flush
<1>6. CASE FlushFails
  BY <1>6, FlushedStored DEF FlushFails, Return
<1>7. CASE Kill
  <2>1. buf' = <<>> /\ rec' = NoRec
    BY <1>7 DEF Kill, NewProcess, Return
  <2>2. CASE pc = "write" /\ handle = "open"
    BY <1>7, <2>1, <2>2, FlushedStored DEF Kill
  <2>3. CASE UNCHANGED file
    BY <2>1, <2>3, LostStored
  <2> QED
    BY <1>7, <2>2, <2>3 DEF Kill
<1>8. CASE HostStop
  <2>1. PICK cut \in [Days -> UNION {0..Len(file[d]) : d \in Days}] :
           /\ \A d \in Days : synced[d] <= cut[d] /\ cut[d] <= Len(file[d])
           /\ file' = [d \in Days |-> Front(file[d], cut[d])]
    BY <1>8 DEF HostStop
  <2>2. ASSUME NEW d \in Days, NEW i \in DOMAIN file'[d]
        PROVE  i \in DOMAIN file[d] /\ file'[d][i] = file[d][i]
    <3>1. cut[d] \in Nat
      BY SMT DEF IInv, TypeOK
    <3>2. file[d] \in Seq(Bytes) /\ cut[d] \in 0..Len(file[d])
      BY <2>1, <3>1, SMT DEF IInv, TypeOK
    <3>3. /\ DOMAIN Front(file[d], cut[d]) = 1..cut[d] /\ 1..cut[d] \subseteq DOMAIN file[d]
          /\ \A j \in 1..cut[d] : Front(file[d], cut[d])[j] = file[d][j]
      BY <3>2, FrontElements
    <3> QED
      BY <2>1, <2>2, <3>3
  <2>3. buf' = <<>>
    BY <1>8 DEF HostStop, NewProcess
  <2> QED
    BY <2>2, <2>3, LostStored
<1>9. CASE Open \/ RotateOpen \/ WriteRefused \/ Sync \/ SyncFails \/ Midnight
  BY <1>1, <1>9 DEF Open, RotateOpen, WriteRefused, Sync, SyncFails, Midnight, disk, object
<1>10. ASSUME NEW r \in Records, Write(r) PROVE StoredNext
  BY <1>1, <1>10 DEF Write, disk, object
<1>11. CASE UNCHANGED vars
  BY <1>1, <1>11 DEF vars, disk, object
<1> QED
  BY <1>4, <1>5, <1>6, <1>7, <1>8, <1>9, <1>10, <1>11 DEF Next

\* A call ends, begins, or goes on with its record.
LEMMA StepRec ==
    [Next]_vars =>
        /\ offered \subseteq offered'
        /\ \/ rec' = NoRec
           \/ \E r \in Records : Write(r) /\ rec' = r
           \/ rec' = rec /\ UNCHANGED acked /\ (pc = "sync" => pc' = "sync")
<1> SUFFICES ASSUME [Next]_vars
             PROVE  /\ offered \subseteq offered'
                    /\ \/ rec' = NoRec
                       \/ \E r \in Records : Write(r) /\ rec' = r
                       \/ rec' = rec /\ UNCHANGED acked /\ (pc = "sync" => pc' = "sync")
  OBVIOUS
<1> USE DEF Return, call
<1>1. CASE Open \/ Close \/ Sync \/ SyncFails \/ FlushFails \/ WriteRefused
  BY <1>1 DEF Open, Close, Sync, SyncFails, FlushFails, WriteRefused
<1>2. CASE Kill \/ HostStop
  BY <1>2 DEF Kill, HostStop, NewProcess
<1>3. CASE RotateClose \/ RotateOpen \/ Flush \/ Midnight \/ UNCHANGED vars
  BY <1>3 DEF RotateClose, RotateOpen, Flush, Midnight, vars
<1>4. ASSUME NEW r \in Records, Write(r)
      PROVE  offered \subseteq offered' /\ (rec' = NoRec \/ rec' = r)
  BY <1>4 DEF Write
<1> QED
  BY <1>1, <1>2, <1>3, <1>4 DEF Next

LEMMA InitOnce == Init => Once
<1> SUFFICES ASSUME Init PROVE Once
  OBVIOUS
<1>1. buf = <<>> /\ acked = {} /\ rec = NoRec /\ \A d \in Days : file[d] = <<>>
  BY DEF Init
<1>2. DOMAIN buf = {} /\ \A d \in Days : DOMAIN file[d] = {}
  BY <1>1, EmptySeq
<1>3. Stored = {}
  BY <1>2, StoredIs
<1> QED
  BY <1>1, <1>2, <1>3 DEF Once, OneCopy, Distinct, Elsewhere, Offered, Unsaid, SaidOnce

LEMMA StepOnce == IInv /\ Once /\ [Next]_vars => Once'
<1> SUFFICES ASSUME IInv, Once, [Next]_vars PROVE Once'
  OBVIOUS
<1>1. /\ OneCopy' /\ Distinct(buf)' /\ Elsewhere(buf)'
      /\ \A b \in Stored' : \/ b \in Stored
                            \/ /\ b[1] = rec /\ rec \in Records
                               /\ (pc' = "sync" /\ rec' = rec) \/ rec' = NoRec
  BY StepStored DEF StoredNext
<1>2. /\ \A b \in Stored : b[1] \in offered
      /\ \A a \in acked : a.rec \in offered
      /\ rec \in Records => rec \in offered /\ \A a \in acked : a.rec # rec
  BY ArchiverAssumption DEF Once, Offered, Unsaid
<1>3. Offered'
  <2>1. \A b \in Stored' : b[1] \in offered'
    BY <1>1, <1>2, StepRec
  <2>2. \A a \in acked' : a.rec \in offered'
    <3>1. CASE UNCHANGED acked
      BY <1>2, <3>1, StepRec
    <3>2. CASE Sync
      <4>1. rec \in Records
        BY <3>2 DEF Sync, IInv, InCall
      <4>2. \A a \in acked' : a \in acked \/ a.rec = rec
        BY <3>2 DEF Sync, Acknowledge
      <4> QED
        BY <1>2, <4>1, <4>2, StepRec
    <3> QED
      BY <3>1, <3>2, StepHistory
  <2> QED
    BY <2>1, <2>2 DEF Offered
<1>4. Unsaid'
  <2> SUFFICES ASSUME rec' # NoRec
               PROVE  /\ rec' \in offered' /\ \A a \in acked' : a.rec # rec'
                      /\ pc' # "sync" => \A b \in Stored' : b[1] # rec'
    BY DEF Unsaid
  <2>1. ASSUME NEW r \in Records, Write(r), rec' = r
        PROVE  /\ rec' \in offered' /\ \A a \in acked' : a.rec # rec'
               /\ pc' # "sync" => \A b \in Stored' : b[1] # rec'
    <3>1. /\ r \notin offered /\ r \in offered' /\ UNCHANGED <<file, buf, acked>>
      BY <2>1 DEF Write, disk, object
    <3>2. Stored' = Stored
      BY <3>1, SameStored
    <3> QED
      BY <1>2, <2>1, <3>1, <3>2
  <2>2. CASE rec' = rec /\ UNCHANGED acked /\ (pc = "sync" => pc' = "sync")
    <3>1. /\ rec \in offered /\ \A a \in acked : a.rec # rec
          /\ pc # "sync" => \A b \in Stored : b[1] # rec
      BY <2>2 DEF Once, Unsaid
    <3>2. offered \subseteq offered'
      BY StepRec
    <3> QED
      BY <1>1, <2>2, <3>1, <3>2
  <2> QED
    BY <2>1, <2>2, StepRec
<1>5. SaidOnce'
  <2>1. CASE UNCHANGED acked
    BY <2>1 DEF Once, SaidOnce
  <2>2. CASE Sync
    <3>1. rec \in Records
      BY <2>2 DEF Sync, IInv, InCall
    <3> PICK new : new = [rec |-> rec, day |-> curDate,
                          at |-> Len(file[curDate]) - 2, from |-> called]
      OBVIOUS
    <3>2. acked' = acked \union {new} /\ new.rec = rec
      BY <2>2 DEF Sync, Acknowledge
    <3> QED
      BY <1>2, <3>1, <3>2 DEF Once, SaidOnce
  <2> QED
    BY <2>1, <2>2, StepHistory
<1> QED
  BY <1>1, <1>3, <1>4, <1>5 DEF Once

(***************************************************************************)
(* No record, and no part of one, is ever in the corpus twice: a failed or *)
(* interrupted write whose bytes the stream still holds is not written     *)
(* again by the close or by the next write (archiver.py:186-190).          *)
(***************************************************************************)
THEOREM WrittenOnce == Spec => []Once
  BY InitOnce, StepOnce, Invariance, PTL DEF Spec

-----------------------------------------------------------------------------
\* Where an acknowledged record is.
LEMMA AckedBytes ==
    ASSUME IInv, NEW a \in acked
    PROVE  /\ a.rec \in Records /\ a.day \in Days /\ a.at \in Nat \ {0}
           /\ file[a.day] \in Seq(Bytes) /\ Len(file[a.day]) \in Nat
           /\ a.at + 2 <= Len(file[a.day])
           /\ {a.at, a.at + 1, a.at + 2} \subseteq DOMAIN file[a.day]
           /\ file[a.day][a.at] = <<a.rec, "head">>
           /\ file[a.day][a.at + 1] = <<a.rec, "rest">>
           /\ file[a.day][a.at + 2] = <<a.rec, "nl">>
<1>1. /\ a.rec \in Records /\ a.day \in Days /\ a.at \in Nat \ {0}
      /\ file[a.day] \in Seq(Bytes) /\ synced[a.day] \in Nat
  BY DEF IInv, TypeOK
<1>2. /\ a.at + 2 <= synced[a.day] /\ synced[a.day] <= Len(file[a.day])
      /\ \A i \in 1..3 : file[a.day][a.at + i - 1] = Payload(a.rec)[i]
  BY DEF IInv, AckedDurable, Holds
<1>3. Len(file[a.day]) \in Nat /\ DOMAIN file[a.day] = 1..Len(file[a.day])
  BY <1>1, LenProperties
<1>4. a.at + 2 <= Len(file[a.day])
  BY <1>1, <1>2, <1>3, SMT
<1>5. {a.at, a.at + 1, a.at + 2} \subseteq DOMAIN file[a.day]
  BY <1>1, <1>3, <1>4, SMT
<1>6. /\ 1 \in 1..3 /\ 2 \in 1..3 /\ 3 \in 1..3
      /\ a.at + 1 - 1 = a.at /\ a.at + 2 - 1 = a.at + 1 /\ a.at + 3 - 1 = a.at + 2
  BY <1>1, SMT
<1>7. /\ file[a.day][a.at] = Payload(a.rec)[1]
      /\ file[a.day][a.at + 1] = Payload(a.rec)[2]
      /\ file[a.day][a.at + 2] = Payload(a.rec)[3]
  BY <1>2, <1>6
<1> QED
  BY <1>1, <1>3, <1>4, <1>5, <1>7, PayloadOnce

LEMMA TwoElements ==
    ASSUME NEW S, NEW s \in Seq(S), NEW p \in Nat \ {0}, p + 1 \in DOMAIN s
    PROVE  SubSeq(s, p, p + 1) = <<s[p], s[p + 1]>>
<1>1. /\ Len(s) \in Nat /\ DOMAIN s = 1..Len(s)
  BY LenProperties
<1>2. p + 1 \in Nat /\ p + 1 <= Len(s) /\ p \in 1..Len(s) /\ p + 1 \in 1..Len(s)
  BY <1>1, SMT
<1>3. s[p] \in S /\ s[p + 1] \in S
  BY <1>2, ElementOfSeq
<1>4. SubSeq(s, p, p + 1) = [i \in 1..((p + 1) - p + 1) |-> s[p + i - 1]]
  BY DEF SubSeq
<1>5. (p + 1) - p + 1 = 2
  BY SMT
<1>6. \A i \in 1..2 : [j \in 1..2 |-> s[p + j - 1]][i] = <<s[p], s[p + 1]>>[i]
  <2>1. \A i \in 1..2 : i = 1 \/ i = 2
    BY SMT
  <2>2. p + 1 - 1 = p /\ p + 2 - 1 = p + 1
    BY SMT
  <2> QED
    BY <2>1, <2>2
<1>7. SubSeq(s, p, p + 1) = [i \in 1..2 |-> s[p + i - 1]]
  BY <1>4, <1>5
<1>8. /\ SubSeq(s, p, p + 1) \in Seq(S) /\ Len(SubSeq(s, p, p + 1)) = 2
      /\ <<s[p], s[p + 1]>> \in Seq(S) /\ Len(<<s[p], s[p + 1]>>) = 2
  BY <1>2, <1>3, SMT
<1>9. PICK u \in Seq(S), v \in Seq(S) :
         /\ u = SubSeq(s, p, p + 1) /\ v = <<s[p], s[p + 1]>>
         /\ Len(u) = 2 /\ Len(v) = 2
  BY <1>8
<1>10. \A i \in 1..2 : u[i] = v[i]
  BY <1>6, <1>7, <1>9
<1>11. u = v
  BY <1>9, <1>10, SeqEqual
<1> QED
  BY <1>9, <1>11

(***************************************************************************)
(* A line that starts the file or follows a newline is read back.          *)
(***************************************************************************)
LEMMA LineReadable ==
    ASSUME IInv, NEW a \in acked, a.at = 1 \/ IsNewline(file[a.day][a.at - 1])
    PROVE  a.rec \in Readable(a.day)
<1> DEFINE s == file[a.day]
           p == a.at
<1>1. /\ a.rec \in Records /\ p \in Nat \ {0} /\ s \in Seq(Bytes) /\ Len(s) \in Nat
      /\ p + 2 <= Len(s) /\ p \in DOMAIN s /\ p + 1 \in DOMAIN s
      /\ s[p] = <<a.rec, "head">> /\ s[p + 1] = <<a.rec, "rest">>
      /\ s[p + 2] = <<a.rec, "nl">>
  BY AckedBytes
<1>2. p = 1 \/ IsNewline(s[p - 1])
  OBVIOUS
<1> HIDE DEF s, p
<1>3. IsNewline(s[(p + 1) + 1])
  <2>1. (p + 1) + 1 = p + 2
    BY <1>1, SMT
  <2> QED
    BY <1>1, <2>1 DEF IsNewline
<1>4. \A i \in p..(p + 1) : ~IsNewline(s[i])
  <2>1. \A i \in p..(p + 1) : i = p \/ i = p + 1
    BY <1>1, SMT
  <2> QED
    BY <1>1, <2>1 DEF IsNewline
<1>5. SubSeq(s, p, p + 1) = << <<a.rec, "head">>, <<a.rec, "rest">> >>
  BY <1>1, TwoElements
<1>6. SubSeq(s, p, p + 1) \in Lines(s)
  <2>1. PICK q : q = <<p, p + 1>>
    OBVIOUS
  <2>2. q \in (DOMAIN s) \X (DOMAIN s) /\ q[1] = p /\ q[2] = p + 1
    BY <1>1, <2>1
  <2>3. /\ q[1] = 1 \/ IsNewline(s[q[1] - 1])
        /\ IsNewline(s[q[2] + 1])
        /\ \A i \in q[1]..q[2] : ~IsNewline(s[i])
    BY <1>2, <1>3, <1>4, <2>2
  <2>4. SubSeq(s, q[1], q[2]) \in Lines(s)
    BY <2>2, <2>3 DEF Lines
  <2> QED
    BY <2>2, <2>4
<1> QED
  BY <1>1, <1>5, <1>6 DEF Readable, s

\* What is at two places is at one.
LEMMA SamePlace ==
    ASSUME Once, NEW d \in Days, NEW e \in Days, NEW i \in DOMAIN file[d],
           NEW j \in DOMAIN file[e], file[d][i] = file[e][j]
    PROVE  d = e /\ i = j
  BY DEF Once, OneCopy

(***************************************************************************)
(* An acknowledged record that cannot be read back stands behind bytes of  *)
(* a record that was never acknowledged, however many writes were torn.    *)
(***************************************************************************)
THEOREM TearsCostOneRecord == Spec => []LossOnlyBehindTear
<1>1. IInv /\ Once => LossOnlyBehindTear
  <2> SUFFICES ASSUME IInv, Once, NEW a \in acked, a.rec \notin Readable(a.day)
               PROVE  /\ a.at > 1
                      /\ ~IsNewline(file[a.day][a.at - 1])
                      /\ \A b \in acked : b.rec # file[a.day][a.at - 1][1]
    BY DEF LossOnlyBehindTear
  <2>1. /\ a.at # 1 /\ ~IsNewline(file[a.day][a.at - 1])
    BY LineReadable
  <2>2. /\ a.day \in Days /\ a.at \in Nat \ {0} /\ file[a.day] \in Seq(Bytes)
        /\ Len(file[a.day]) \in Nat /\ a.at + 2 <= Len(file[a.day])
        /\ file[a.day][a.at] = <<a.rec, "head">>
    BY AckedBytes
  <2>3. /\ a.at > 1 /\ a.at - 1 \in 1..Len(file[a.day]) /\ (a.at - 1) + 1 = a.at
    BY <2>1, <2>2, SMT
  <2>4. /\ a.at - 1 \in DOMAIN file[a.day]
        /\ file[a.day][a.at - 1] \in Bytes
    BY <2>2, <2>3, LenProperties, ElementOfSeq
  <2>5. ASSUME NEW b \in acked, b.rec = file[a.day][a.at - 1][1]
        PROVE  FALSE
    <3>1. /\ b.day \in Days /\ b.at \in Nat
          /\ {b.at, b.at + 1, b.at + 2} \subseteq DOMAIN file[b.day]
          /\ file[b.day][b.at] = <<b.rec, "head">>
          /\ file[b.day][b.at + 1] = <<b.rec, "rest">>
          /\ file[b.day][b.at + 2] = <<b.rec, "nl">>
      BY AckedBytes
    <3>2. \/ file[a.day][a.at - 1] = <<b.rec, "head">>
          \/ file[a.day][a.at - 1] = <<b.rec, "rest">>
      BY <2>1, <2>4, <2>5 DEF Bytes, IsNewline
    <3>3. CASE file[a.day][a.at - 1] = <<b.rec, "head">>
      <4>1. a.day = b.day /\ a.at - 1 = b.at
        <5>1. PICK d \in Days, e \in Days : d = a.day /\ e = b.day
          BY <2>2, <3>1
        <5>2. PICK i \in DOMAIN file[d], j \in DOMAIN file[e] :
                 i = a.at - 1 /\ j = b.at /\ file[d][i] = file[e][j]
          BY <2>4, <3>1, <3>3, <5>1
        <5>3. d = e /\ i = j
          BY <5>2, SamePlace
        <5> QED
          BY <5>1, <5>2, <5>3
      <4>2. a.at = b.at + 1
        BY <2>3, <4>1
      <4> QED
        BY <2>2, <3>1, <4>1, <4>2
    <3>4. CASE file[a.day][a.at - 1] = <<b.rec, "rest">>
      <4>1. a.day = b.day /\ a.at - 1 = b.at + 1
        <5>1. PICK d \in Days, e \in Days : d = a.day /\ e = b.day
          BY <2>2, <3>1
        <5>2. PICK i \in DOMAIN file[d], j \in DOMAIN file[e] :
                 i = a.at - 1 /\ j = b.at + 1 /\ file[d][i] = file[e][j]
          BY <2>4, <3>1, <3>4, <5>1
        <5>3. d = e /\ i = j
          BY <5>2, SamePlace
        <5> QED
          BY <5>1, <5>2, <5>3
      <4>2. a.at = b.at + 2
        <5> PICK x \in Nat, y \in Nat : x = a.at /\ y = b.at
          BY <2>2, <3>1
        <5>1. x - 1 = y + 1
          BY <4>1
        <5>2. x = y + 2
          BY <5>1, SMT
        <5> QED
          BY <5>2
      <4> QED
        BY <2>2, <3>1, <4>1, <4>2
    <3> QED
      BY <3>2, <3>3, <3>4
  <2> QED
    BY <2>1, <2>3, <2>5
<1> QED
  BY <1>1, Invariance, WrittenOnce, PTL

-----------------------------------------------------------------------------
\* An acknowledgement is one entry of the log, which has no other.
EntryOf(a) == [at |-> a.at + 2, rec |-> a.rec]

LogAcked ==
    \A d \in Days : LogOf(d) = {EntryOf(a) : a \in {b \in acked : b.day = d}}

LEMMA LogIsAcked == IInv /\ Once => LogAcked
<1> SUFFICES ASSUME IInv, Once, NEW d \in Days
             PROVE  LogOf(d) = {EntryOf(a) : a \in {b \in acked : b.day = d}}
  BY DEF LogAcked
<1>1. ASSUME NEW a \in acked, a.day = d PROVE EntryOf(a) \in LogOf(d)
  <2>1. a.at + 2 \in DOMAIN file[d] /\ file[d][a.at + 2] = <<a.rec, "nl">>
    BY <1>1, AckedBytes
  <2>2. IsNewline(file[d][a.at + 2]) /\ file[d][a.at + 2][1] = a.rec
    BY <2>1 DEF IsNewline
  <2> QED
    BY <2>1, <2>2 DEF EntryOf, LogOf
<1>2. ASSUME NEW e \in LogOf(d)
      PROVE  \E a \in acked : a.day = d /\ e = EntryOf(a)
  <2>1. PICK i \in DOMAIN file[d], a \in acked :
           /\ e = [at |-> i, rec |-> file[d][i][1]]
           /\ IsNewline(file[d][i]) /\ a.rec = file[d][i][1]
    BY <1>2 DEF LogOf
  <2>2. /\ a.day \in Days /\ a.at + 2 \in DOMAIN file[a.day]
        /\ file[a.day][a.at + 2] = <<a.rec, "nl">>
    BY AckedBytes
  <2>3. file[d][i] \in Bytes
    <3>1. file[d] \in Seq(Bytes)
      BY DEF IInv, TypeOK
    <3> QED
      BY <3>1, LenProperties, ElementOfSeq
  <2>4. file[d][i] = <<a.rec, "nl">>
    BY <2>1, <2>3 DEF Bytes, IsNewline
  <2>5. a.day = d /\ a.at + 2 = i
    BY <2>2, <2>4 DEF Once, OneCopy
  <2> QED
    BY <2>1, <2>5 DEF EntryOf
<1> QED
  BY <1>1, <1>2

LEMMA InitLog == IInv /\ Once /\ acked = {} => Log!Init
  BY LogIsAcked DEF LogAcked, Log!Init

\* What the log becomes, said of the acknowledgements of the next state.
LEMMA LogNext ==
    ASSUME IInv', Once', NEW d \in Days
    PROVE  LogOf(d)' = {EntryOf(a) : a \in {b \in acked' : b.day = d}}
<1>1. IInv' /\ Once' => LogAcked'
  BY LogIsAcked, PTL
<1> QED
  BY <1>1 DEF LogAcked, EntryOf

LEMMA SyncAccepts ==
    ASSUME IInv, Once, IInv', Once', Sync
    PROVE  Log!Accept(rec, curDate)
<1> DEFINE last == Len(file[curDate])
           new == [rec |-> rec, day |-> curDate, at |-> last - 2, from |-> called]
           entry == EntryOf(new)
<1>1. /\ rec \in Records /\ rec # NoRec /\ curDate \in Days /\ EndsWith(file[curDate], rec)
      /\ acked' = acked \union {new} /\ last \in Nat
  BY ArchiverAssumption, LenProperties DEF Sync, Acknowledge, IInv, InCall, TypeOK
<1>2. entry.rec = rec /\ entry.at = last
  BY <1>1, SMT DEF EntryOf
<1>3. new.day = curDate
  OBVIOUS
<1>4. \A a \in acked : a.rec # rec
  BY <1>1 DEF Once, Unsaid
<1> HIDE DEF new, last
<1>5. ASSUME NEW d \in Days
      PROVE  LogOf(d)' = IF d = curDate THEN LogOf(d) \union {entry} ELSE LogOf(d)
  <2>1. /\ LogOf(d) = {EntryOf(a) : a \in {b \in acked : b.day = d}}
        /\ LogOf(d)' = {EntryOf(a) : a \in {b \in acked \union {new} : b.day = d}}
    BY <1>1, LogIsAcked, LogNext DEF LogAcked
  <2> QED
    BY <1>3, <2>1
<1>6. \A d \in Days : \A e \in LogOf(d) : e.rec # rec
  BY <1>4, LogIsAcked DEF LogAcked, EntryOf
<1>7. ASSUME NEW earlier \in LogOf(curDate) PROVE earlier.at < entry.at
  <2>1. PICK a \in acked : a.day = curDate /\ earlier = EntryOf(a)
    BY <1>1, <1>7, LogIsAcked DEF LogAcked
  <2>2. /\ a.at \in Nat /\ a.at + 2 <= last /\ file[curDate][a.at + 2] = <<a.rec, "nl">>
    BY <2>1, AckedBytes DEF last
  <2>3. a.at + 2 # last
    <3>1. file[curDate][last] = <<rec, "nl">>
      <4>1. 3 \in 1..3 /\ last - 3 + 3 = last
        BY <1>1, SMT
      <4> QED
        BY <1>1, <4>1, PayloadOnce DEF EndsWith, last
    <3> QED
      BY <1>4, <2>2, <3>1
  <2>4. earlier.at = a.at + 2
    BY <2>1 DEF EntryOf
  <2> QED
    BY <1>1, <1>2, <2>2, <2>3, <2>4, SMT
<1>8. rec \notin Log!Logged
  BY <1>6 DEF Log!Logged
<1>9. [d \in Days |-> LogOf(d)]' = [[d \in Days |-> LogOf(d)] EXCEPT ![curDate] = @ \union {entry}]
  BY <1>1, <1>5
<1>10. entry \in [d \in Days |-> LogOf(d)]'[curDate]
  BY <1>1, <1>5
<1> QED
  BY <1>1, <1>2, <1>7, <1>8, <1>9, <1>10 DEF Log!Accept

(***************************************************************************)
(* The archiver implements the durable log: what is read in the files at   *)
(* the newlines of the acknowledged records grows by one entry, at the     *)
(* end, when a write is acknowledged, and no other step changes it.        *)
(***************************************************************************)
THEOREM ImplementsDurableLog == Spec => RefinesDurableLog
<1>1. Init => acked = {}
  BY DEF Init
<1>2. IInv /\ Once /\ IInv' /\ Once' /\ [Next]_vars => [Log!Next]_([d \in Days |-> LogOf(d)])
  <2> SUFFICES ASSUME IInv, Once, IInv', Once', [Next]_vars
               PROVE  Log!Next \/ UNCHANGED [d \in Days |-> LogOf(d)]
    OBVIOUS
  <2>1. CASE Sync
    <3>1. rec \in Records /\ curDate \in Days
      BY <2>1 DEF Sync, IInv, InCall
    <3> QED
      BY <2>1, <3>1, SyncAccepts DEF Log!Next
  <2>2. CASE UNCHANGED acked
    <3>1. \A d \in Days : LogOf(d)' = LogOf(d)
      BY <2>2, LogIsAcked, LogNext DEF LogAcked
    <3> QED
      BY <3>1
  <2> QED
    BY <2>1, <2>2, StepHistory
<1> QED
  BY <1>1, <1>2, InitLog, InitIInv, InitOnce, Invariance, WrittenOnce, PTL
     DEF Spec, RefinesDurableLog, Log!Spec

-----------------------------------------------------------------------------
(***************************************************************************)
(* The collector: every step of a run, of a client that calls at will, of  *)
(* a restart or of a host stop is a step of the archiver, or leaves it     *)
(* alone, so that what is proved of the archiver holds under its clients.  *)
(***************************************************************************)
LEMMA StepRefines == [CollectorNext]_<<vars, runVars>> => [Next]_vars
<1> SUFFICES ASSUME [CollectorNext]_<<vars, runVars>> PROVE [Next]_vars
  OBVIOUS
<1>1. CASE ClientCalls
  <2>1. Open \/ Close \/ \E r \in Records : Write(r)
    BY <1>1 DEF ClientCalls, RunOpens, RunWrites
  <2> QED
    BY <2>1 DEF Next
<1>2. CASE RunCloses
  BY <1>2 DEF RunCloses, Next
<1>3. CASE ArchiverWorks
  BY <1>3 DEF ArchiverWorks, Next
<1>4. CASE ArchiverSyncs
  BY <1>4 DEF ArchiverSyncs, Next
<1>5. CASE Restarts
  BY <1>5 DEF Restarts, Next
<1>6. CASE Midnight
  BY <1>6 DEF Next
<1>7. CASE UNCHANGED <<vars, runVars>>
  BY <1>7
<1> QED
  BY <1>1, <1>2, <1>3, <1>4, <1>5, <1>6, <1>7 DEF CollectorNext

(***************************************************************************)
(* The collector implements the archiver: its runs and clients make no     *)
(* step on the archiver and the disk that module Archiver does not have    *)
(* (controller.py:355, 685 and 313 as the callers of archiver.py).         *)
(***************************************************************************)
THEOREM UsesArchiver == CollectorSpec => Spec
<1>1. CollectorInit => Init
  BY DEF CollectorInit
<1> QED
  BY <1>1, StepRefines, PTL DEF CollectorSpec, Spec

(***************************************************************************)
(* A record a run was told is written is on stable storage, whole, and     *)
(* stays there through the failures, signals and stops of that run and of  *)
(* every later one.                                                        *)
(***************************************************************************)
THEOREM RunsLoseNothing == CollectorSpec => []AckedDurable
  BY UsesArchiver, AcknowledgedIsDurable

(***************************************************************************)
(* Every record a run was told is written is in the file of the day on     *)
(* which its write() ran.                                                  *)
(***************************************************************************)
THEOREM RunsFileByDate == CollectorSpec => []FiledUnderItsDay
  BY UsesArchiver, FiledByDate

(***************************************************************************)
(* No run, failure or restart changes bytes of the corpus that are on      *)
(* stable storage.                                                         *)
(***************************************************************************)
THEOREM RunsAppendOnly == CollectorSpec => AppendOnly
  BY UsesArchiver, CorpusAppendOnly

(***************************************************************************)
(* Whatever runs and restarts there were, an acknowledged record that      *)
(* cannot be read stands behind a torn write (archiver.py:186 appends to   *)
(* the file as the process before left it).                                *)
(***************************************************************************)
THEOREM RunsTearOneRecord == CollectorSpec => []LossOnlyBehindTear
  BY UsesArchiver, TearsCostOneRecord

(***************************************************************************)
(* The corpus of all runs is a log that only grows, by one entry at its    *)
(* end for each write a run was told is done (controller.py:685).          *)
(***************************************************************************)
THEOREM RunsImplementDurableLog == CollectorSpec => RefinesDurableLog
  BY UsesArchiver, ImplementsDurableLog

-----------------------------------------------------------------------------
(***************************************************************************)
(* Why a run loses at most its first record: once a record of the run is   *)
(* acknowledged, the file it writes ends with a newline whenever the next  *)
(* write begins.  A rotation keeps that true, because no process has ever  *)
(* written to the file of a later day than its own (Ahead).                *)
(***************************************************************************)
\* What the stream holds, and which file is open, whoever the client is.
Streaming ==
    /\ handle # "open" \/ pc = "sync" => buf = <<>>
    /\ pc = "reopen" => handle = "none"
    /\ pc \in {"close", "reopen"} /\ rec # NoRec => curDate # NoDay /\ curDate < today

Ahead == \A d \in Days : d > today \/ (curDate # NoDay /\ d > curDate) => file[d] = <<>>

\* The run of the current process has had a record acknowledged.
Begun == \E i \in DOMAIN history : history[i].process = stops

Opening == /\ curDate = NoDay => ~Begun
           /\ pc = "reopen" /\ rec = NoRec => curDate = NoDay

\* Nothing but the end of a line is before position n + 1 of the day's file.
Clean(d, n) == n = 0 \/ IsNewline(file[d][n])

Tidy == /\ (pc = "write" \/ (pc = "idle" /\ raised = "none")) /\ handle = "open"
             => buf = <<>> /\ Clean(curDate, Len(file[curDate]))
        /\ pc = "sync" => Clean(curDate, Len(file[curDate]) - 3)

Chronicle == history \in Seq([rec : Records, process : 0..stops])

Later(j) == \E i \in DOMAIN history : i < j /\ history[i].process = history[j].process

Behind ==
    \A j \in DOMAIN history :
        Later(j) => \E a \in acked : a.rec = history[j].rec /\ Clean(a.day, a.at - 1)

RInv == /\ client \in {"free", "run"} /\ Streaming /\ Ahead
        /\ client = "run" =>
              Chronicle /\ Opening /\ (Begun => Tidy) /\ Behind

LEMMA InitRInv == CollectorInit => RInv
<1> SUFFICES ASSUME CollectorInit PROVE RInv
  OBVIOUS
<1>1. /\ buf = <<>> /\ pc = "idle" /\ handle = "none" /\ history = <<>>
      /\ \A d \in Days : file[d] = <<>>
      /\ client \in {"free", "run"}
  BY CollectorAssumption DEF CollectorInit, Init
<1>2. DOMAIN history = {} /\ history \in Seq([rec : Records, process : 0..stops])
  BY <1>1, EmptySeq
<1> QED
  BY <1>1, <1>2
     DEF RInv, Streaming, Ahead, Begun, Opening, Tidy, Chronicle, Behind

\* The day of the open file and today, as numbers.
LEMMA Dates ==
    IInv => /\ today \in Nat \ {0} /\ curDate \in Nat /\ NoDay = 0 /\ curDate <= today
            /\ Days \subseteq Nat \ {0} /\ (curDate # NoDay => curDate \in Days)
            /\ (handle # "none" \/ pc = "sync" => curDate \in Days)
<1> SUFFICES ASSUME IInv PROVE /\ today \in Nat \ {0} /\ curDate \in Nat /\ NoDay = 0
                               /\ Days \subseteq Nat \ {0}
  BY DEF IInv, InCall, TypeOK
<1>1. Days \subseteq Nat \ {0}
  BY ArchiverAssumption, SMT DEF Days
<1> QED
  BY <1>1 DEF IInv, TypeOK, NoDay

LEMMA StepStreaming == IInv /\ Streaming /\ [Next]_vars => Streaming'
<1> SUFFICES ASSUME IInv, Streaming, [Next]_vars PROVE Streaming'
  OBVIOUS
<1>1. today \in Nat \ {0} /\ curDate \in Nat /\ curDate <= today
  BY Dates
<1> USE DEF Streaming, Return, disk, object, call
<1>2. CASE Open
  BY <1>2 DEF Open
<1>3. CASE Close
  BY <1>3 DEF Close, CloseStream, CloseStreamFails
<1>4. CASE RotateClose
  BY <1>4 DEF RotateClose, CloseStream, CloseStreamFails
<1>5. CASE RotateOpen
  BY <1>5 DEF RotateOpen
<1>6. ASSUME NEW r \in Records, Write(r) PROVE Streaming'
  <2>1. CASE handle = "none"
    BY <1>6, <2>1 DEF Write
  <2>2. CASE handle # "none"
    <3>1. curDate # NoDay /\ (today # curDate => curDate < today)
      <4>1. curDate \in Days /\ Days \subseteq Nat \ {0} /\ NoDay = 0
        BY <2>2, Dates
      <4>2. today # curDate => curDate < today
        BY <1>1, SMT
      <4> QED
        BY <4>1, <4>2
    <3> QED
      BY <1>6, <2>2, <3>1 DEF Write
  <2> QED
    BY <2>1, <2>2
<1>7. CASE Flush
  BY <1>7 DEF Flush
<1>8. CASE FlushFails \/ WriteRefused \/ Sync \/ SyncFails
  BY <1>8 DEF FlushFails, WriteRefused, Sync, SyncFails
<1>9. CASE Kill \/ HostStop
  BY <1>9 DEF Kill, HostStop, NewProcess
<1>10. CASE Midnight
  <2>1. UNCHANGED <<object, call>> /\ today' = today + 1
    BY <1>10 DEF Midnight
  <2>2. curDate < today => curDate < today'
    BY <1>1, <2>1, SMT
  <2> QED
    BY <2>1, <2>2
<1>11. CASE UNCHANGED vars
  BY <1>11 DEF vars
<1> QED
  BY <1>2, <1>3, <1>4, <1>5, <1>6, <1>7, <1>8, <1>9, <1>10, <1>11 DEF Next

\* An empty file is written to on its own day only.
LEMMA StaysEmpty ==
    IInv /\ [Next]_vars =>
        /\ \A d \in Days : d # curDate /\ file[d] = <<>> => file'[d] = <<>>
        /\ curDate' \in {curDate, today', NoDay}
<1> SUFFICES ASSUME IInv, [Next]_vars
             PROVE  /\ \A d \in Days : d # curDate /\ file[d] = <<>> => file'[d] = <<>>
                    /\ curDate' \in {curDate, today', NoDay}
  OBVIOUS
<1>1. ASSUME NEW s, Extend(curDate, s), NEW d \in Days, d # curDate, file[d] = <<>>
      PROVE  file'[d] = <<>>
  BY <1>1 DEF Extend, IInv, TypeOK
<1>2. ASSUME HostStop, NEW d \in Days, file[d] = <<>> PROVE file'[d] = <<>>
  <2>1. PICK cut \in [Days -> UNION {0..Len(file[e]) : e \in Days}] :
           /\ \A e \in Days : synced[e] <= cut[e] /\ cut[e] <= Len(file[e])
           /\ file' = [e \in Days |-> Front(file[e], cut[e])]
    BY <1>2 DEF HostStop
  <2>2. cut[d] \in Nat /\ cut[d] <= 0
    <3>1. cut[d] \in Nat
      BY SMT DEF IInv, TypeOK
    <3> QED
      BY <1>2, <2>1, <3>1, EmptySeq
  <2>3. cut[d] = 0
    BY <2>2, SMT
  <2>4. file'[d] = Front(<<>>, 0)
    BY <1>2, <2>1, <2>3
  <2> QED
    BY <2>4, EmptySeq DEF Front
<1> USE DEF disk, object
<1>3. CASE Close \/ RotateClose
  BY <1>1, <1>3 DEF Close, RotateClose, CloseStream, CloseStreamFails
<1>4. CASE Flush \/ FlushFails
  BY <1>1, <1>4 DEF Flush, FlushFails
<1>5. CASE Kill \/ HostStop
  BY <1>1, <1>2, <1>5 DEF Kill, HostStop, NewProcess
<1>6. CASE Open \/ WriteRefused \/ Sync \/ SyncFails \/ Midnight \/ UNCHANGED vars
  BY <1>6 DEF Open, WriteRefused, Sync, SyncFails, Midnight, vars
<1>7. CASE RotateOpen
  BY <1>7 DEF RotateOpen
<1>8. ASSUME NEW r \in Records, Write(r)
      PROVE  UNCHANGED <<file, curDate>>
  BY <1>8 DEF Write
<1> QED
  BY <1>3, <1>4, <1>5, <1>6, <1>7, <1>8 DEF Next

LEMMA StepAhead == IInv /\ Ahead /\ [Next]_vars => Ahead'
<1> SUFFICES ASSUME IInv, Ahead, [Next]_vars, NEW d \in Days,
                    d > today' \/ (curDate' # NoDay /\ d > curDate')
             PROVE  file'[d] = <<>>
  BY DEF Ahead
<1>1. today \in Nat /\ curDate \in Nat /\ d \in Nat /\ NoDay = 0 /\ curDate <= today
  BY Dates
<1>2. today' \in Nat /\ today <= today' /\ curDate' \in {curDate, today', NoDay}
  BY StepHistory, StepIInv, StaysEmpty, Dates DEF IInv, TypeOK
<1>3. d # curDate /\ (d > today \/ (curDate # NoDay /\ d > curDate))
  BY <1>1, <1>2, SMT
<1> QED
  BY <1>3, StaysEmpty DEF Ahead

-----------------------------------------------------------------------------
\* A step of the run, of the archiver under it, or the start of the next one.
RunStep == IInv /\ RInv /\ [CollectorNext]_<<vars, runVars>> /\ client = "run"

\* The elements of a sequence may be seen as those of another set.
LEMMA OtherSet ==
    ASSUME NEW S, NEW T, NEW s \in Seq(S), \A i \in DOMAIN s : s[i] \in T
    PROVE  s \in Seq(T)
<1>1. Len(s) \in Nat /\ s \in [1..Len(s) -> T]
  BY LenProperties
<1> QED
  BY <1>1, SeqDef

\* The acknowledgements of the past, and which process has begun.
LEMMA StepBegun ==
    RunStep => /\ Chronicle'
               /\ Begun' => Begun \/ (ArchiverSyncs /\ UNCHANGED stops)
               /\ Restarts => ~Begun'
<1> SUFFICES ASSUME RunStep
             PROVE  /\ Chronicle'
                    /\ Begun' => Begun \/ (ArchiverSyncs /\ UNCHANGED stops)
                    /\ Restarts => ~Begun'
  OBVIOUS
<1>1. /\ history \in Seq([rec : Records, process : 0..stops]) /\ stops \in Nat
  BY ArchiverAssumption, SMT DEF RunStep, RInv, Chronicle, IInv, TypeOK
<1>2. \A i \in DOMAIN history : history[i] \in [rec : Records, process : 0..stops]
  BY <1>1, LenProperties, ElementOfSeq
<1>3. CASE UNCHANGED <<history, stops>>
  <2>1. ~Restarts
    BY <1>1, <1>3, SMT DEF Restarts, Kill, HostStop, NewProcess
  <2> QED
    BY <1>1, <1>3, <2>1 DEF Chronicle, Begun
<1>4. CASE Restarts
  <2>1. stops' = stops + 1 /\ UNCHANGED history
    BY <1>4 DEF Restarts, Kill, HostStop, NewProcess
  <2>2. 0..stops \subseteq 0..stops' /\ stops' \notin 0..stops
    BY <1>1, <2>1, SMT
  <2>3. Chronicle'
    <3>1. [rec : Records, process : 0..stops] \subseteq [rec : Records, process : 0..stops']
      BY <2>2
    <3>2. \A i \in DOMAIN history : history[i] \in [rec : Records, process : 0..stops']
      BY <1>2, <3>1
    <3>3. history \in Seq([rec : Records, process : 0..stops'])
      BY <1>1, <3>2, OtherSet
    <3> QED
      BY <2>1, <3>3 DEF Chronicle
  <2>4. ~Begun'
    BY <1>2, <2>1, <2>2 DEF Begun
  <2> QED
    BY <2>3, <2>4
<1>5. CASE ArchiverSyncs
  <2>1. /\ history' = Append(history, [rec |-> rec, process |-> stops])
        /\ UNCHANGED stops /\ rec \in Records
    BY <1>5 DEF ArchiverSyncs, Sync, RunStep, IInv, InCall
  <2>2. [rec |-> rec, process |-> stops] \in [rec : Records, process : 0..stops]
    BY <1>1, <2>1, SMT
  <2>3. Chronicle'
    BY <1>1, <2>1, <2>2, AppendProperties DEF Chronicle
  <2>4. ~Restarts
    BY <1>1, <2>1, SMT DEF Restarts, Kill, HostStop, NewProcess
  <2> QED
    BY <1>5, <2>1, <2>3, <2>4
<1>6. UNCHANGED <<history, stops>> \/ Restarts \/ ArchiverSyncs
  <2>1. CASE ClientCalls
    BY <2>1 DEF ClientCalls, RunOpens, RunWrites, Open, Close, Write, runVars
  <2>2. CASE RunCloses
    BY <2>2 DEF RunCloses, Close, vars
  <2>3. CASE ArchiverWorks
    BY <2>3 DEF ArchiverWorks, RotateClose, RotateOpen, Flush, FlushFails, WriteRefused,
                SyncFails, runVars
  <2>4. CASE Midnight /\ UNCHANGED runVars
    BY <2>4 DEF Midnight, runVars
  <2>5. CASE UNCHANGED <<vars, runVars>>
    BY <2>5 DEF vars, runVars
  <2> QED
    BY <2>1, <2>2, <2>3, <2>4, <2>5 DEF RunStep, CollectorNext
<1> QED
  BY <1>3, <1>4, <1>5, <1>6

LEMMA StepOpening == RunStep => Opening'
<1> SUFFICES ASSUME RunStep PROVE Opening'
  OBVIOUS
<1>1. Opening
  BY DEF RunStep, RInv
<1>2. /\ today \in Nat \ {0} /\ NoDay = 0 /\ today # NoDay
      /\ pc = "sync" => curDate # NoDay
  BY Dates DEF RunStep
<1> USE DEF Opening, Return, object, call
<1>3. CASE Restarts
  BY <1>3, StepBegun DEF Restarts, Kill, HostStop, NewProcess
<1>4. CASE ArchiverSyncs
  BY <1>1, <1>2, <1>4 DEF ArchiverSyncs, Sync
<1>5. ASSUME ~Restarts, ~ArchiverSyncs
      PROVE  Opening'
  <2>1. Begun' => Begun
    BY <1>5, StepBegun
  <2>2. CASE ClientCalls
    BY <1>1, <2>1, <2>2 DEF ClientCalls, RunOpens, RunWrites, Open, Write, RunStep, NoDay
  <2>3. CASE RunCloses
    BY <1>1, <2>1, <2>3 DEF RunCloses, Close, vars
  <2>4. CASE ArchiverWorks
    <3>1. CASE RotateClose
      BY <1>1, <2>1, <3>1, ArchiverAssumption DEF RotateClose, RunStep, IInv, InCall
    <3>2. CASE RotateOpen
      BY <1>1, <1>2, <2>1, <3>2 DEF RotateOpen
    <3>3. CASE Flush \/ FlushFails \/ WriteRefused \/ SyncFails
      BY <1>1, <2>1, <3>3 DEF Flush, FlushFails, WriteRefused, SyncFails
    <3> QED
      BY <2>4, <3>1, <3>2, <3>3 DEF ArchiverWorks
  <2>5. CASE Midnight \/ UNCHANGED <<vars, runVars>>
    BY <1>1, <2>1, <2>5 DEF Midnight, vars
  <2> QED
    BY <1>5, <2>2, <2>3, <2>4, <2>5 DEF RunStep, CollectorNext
<1> QED
  BY <1>3, <1>4, <1>5

\* An open file that is written to, before and after.
LEMMA FlushFile ==
    ASSUME IInv, Flush, buf = <<>>
    PROVE  /\ Len(file'[curDate]) - 3 = Len(file[curDate])
           /\ \A n \in 1..Len(file[curDate]) : file'[curDate][n] = file[curDate][n]
           /\ Len(file[curDate]) \in Nat
<1>1. /\ curDate \in Days /\ rec \in Records /\ file[curDate] \in Seq(Bytes)
      /\ Payload(rec) \in Seq(Bytes) /\ Len(Payload(rec)) = 3
  BY PayloadBytes DEF Flush, IInv, InCall, TypeOK
<1>2. Pending = Payload(rec)
  BY <1>1, ConcatEmptySeq DEF Pending
<1>3. file'[curDate] = file[curDate] \o Payload(rec)
  BY <1>1, <1>2 DEF Flush, Extend, IInv, TypeOK
<1>4. /\ Len(file'[curDate]) = Len(file[curDate]) + 3
      /\ \A n \in 1..Len(file[curDate]) : file'[curDate][n] = file[curDate][n]
      /\ Len(file[curDate]) \in Nat
  <2>1. PICK s \in Seq(Bytes), line \in Seq(Bytes) :
           s = file[curDate] /\ line = Payload(rec) /\ Len(line) = 3
    BY <1>1
  <2>2. /\ Len(s \o line) = Len(s) + 3 /\ Len(s) \in Nat
        /\ \A n \in 1..Len(s) : (s \o line)[n] = s[n]
    <3>1. /\ Len(s \o line) = Len(s) + Len(line) /\ Len(s) \in Nat
          /\ \A n \in 1..Len(s) : (s \o line)[n] = s[n]
      BY SMT
    <3> QED
      BY <2>1, <3>1
  <2>3. file'[curDate] = s \o line /\ file[curDate] = s
    BY <1>3, <2>1
  <2> QED
    BY <2>2, <2>3
<1> QED
  BY <1>4, SMT

LEMMA StepTidy == RunStep /\ Begun' => Tidy'
<1> SUFFICES ASSUME RunStep, Begun' PROVE Tidy'
  OBVIOUS
<1>1. IInv /\ Streaming /\ Ahead /\ Opening /\ client = "run"
  BY DEF RunStep, RInv
<1> USE DEF Return, object, call, disk
<1>2. CASE ArchiverSyncs
  <2>1. /\ curDate \in Days /\ rec \in Records /\ EndsWith(file[curDate], rec) /\ buf = <<>>
        /\ UNCHANGED <<file, curDate, buf>> /\ pc' = "idle"
    BY <1>1, <1>2 DEF ArchiverSyncs, Sync, Streaming, IInv, InCall
  <2>2. Len(file[curDate]) \in Nat
    BY <1>1, <2>1, LenProperties DEF IInv, TypeOK
  <2>3. file[curDate][Len(file[curDate])] = <<rec, "nl">>
    <3>1. 3 \in 1..3 /\ Len(file[curDate]) - 3 + 3 = Len(file[curDate])
      BY <2>2, SMT
    <3> QED
      BY <2>1, <3>1, PayloadOnce DEF EndsWith
  <2> QED
    BY <2>1, <2>3 DEF Tidy, Clean, IsNewline
<1>3. ASSUME ~ArchiverSyncs PROVE Begun /\ Tidy /\ ~Restarts /\ curDate # NoDay
  <2>1. Begun /\ ~Restarts
    BY <1>3, StepBegun
  <2> QED
    BY <1>1, <2>1 DEF RunStep, RInv, Opening
<1>4. ASSUME UNCHANGED <<file, curDate, buf>>, UNCHANGED <<pc, raised, handle>>, ~ArchiverSyncs
      PROVE  Tidy'
  BY <1>3, <1>4 DEF Tidy, Clean
<1>5. ASSUME handle' # "open", pc' # "sync" PROVE Tidy'
  BY <1>5 DEF Tidy
<1>6. ASSUME pc' = "idle", raised' # "none" PROVE Tidy'
  BY <1>6 DEF Tidy
<1>7. ASSUME pc' \notin {"idle", "write", "sync"} PROVE Tidy'
  BY <1>7 DEF Tidy
<1>8. CASE ClientCalls /\ ~ArchiverSyncs
  <2>1. ~RunOpens
    BY <1>3, <1>8 DEF RunOpens
  <2>2. PICK r \in Records : RunWrites(r)
    BY <1>1, <1>8, <2>1 DEF ClientCalls
  <2>3. /\ pc = "idle" /\ raised = "none" /\ handle = "open" /\ pc' \in {"close", "write"}
        /\ UNCHANGED <<file, curDate, buf, handle>>
    BY <2>2 DEF RunWrites, Write
  <2> QED
    BY <1>3, <1>8, <2>3 DEF Tidy, Clean
<1>9. CASE RunCloses /\ ~ArchiverSyncs
  <2>1. CASE Close
    BY <1>5, <2>1 DEF Close, CloseStream, CloseStreamFails
  <2>2. CASE UNCHANGED vars
    BY <1>4, <1>9, <2>2 DEF vars
  <2> QED
    BY <1>9, <2>1, <2>2 DEF RunCloses
<1>10. CASE RotateClose
  BY <1>6, <1>7, <1>10 DEF RotateClose
<1>11. CASE RotateOpen /\ ~ArchiverSyncs
  <2>1. rec # NoRec
    BY <1>1, <1>3, <1>11 DEF Opening, RotateOpen
  <2>2. CASE handle' = "open" /\ pc' = "write"
    <3>1. curDate < today /\ curDate # NoDay /\ buf = <<>> /\ today \in Days
      BY <1>1, <1>11, <2>1 DEF Streaming, RotateOpen, IInv, TypeOK
    <3>2. today > curDate
      BY <1>1, <3>1, Dates, SMT
    <3>3. file[today] = <<>>
      BY <1>1, <3>1, <3>2 DEF Ahead
    <3>4. UNCHANGED <<file, buf>> /\ curDate' = today
      BY <1>11 DEF RotateOpen
    <3>5. Len(file'[curDate']) = 0
      BY <3>3, <3>4, EmptySeq
    <3> QED
      BY <2>2, <3>1, <3>4, <3>5 DEF Tidy, Clean
  <2>3. CASE pc' = "idle" /\ raised' # "none"
    BY <1>6, <2>3
  <2> QED
    BY <1>11, <2>1, <2>2, <2>3 DEF RotateOpen
<1>12. CASE Flush /\ ~ArchiverSyncs
  <2>1. /\ buf = <<>> /\ Clean(curDate, Len(file[curDate]))
    BY <1>3, <1>12 DEF Flush, Tidy
  <2>2. /\ Len(file'[curDate]) - 3 = Len(file[curDate])
        /\ \A n \in 1..Len(file[curDate]) : file'[curDate][n] = file[curDate][n]
        /\ Len(file[curDate]) \in Nat
    BY <1>1, <1>12, <2>1, FlushFile
  <2>3. Len(file[curDate]) # 0 => Len(file[curDate]) \in 1..Len(file[curDate])
    BY <2>2, SMT
  <2>4. pc' = "sync" /\ curDate' = curDate
    BY <1>12 DEF Flush
  <2>5. Len(file'[curDate']) - 3 = Len(file[curDate])
    BY <2>2, <2>4
  <2>6. \/ Len(file[curDate]) = 0
        \/ IsNewline(file'[curDate'][Len(file[curDate])])
    BY <2>1, <2>2, <2>3, <2>4 DEF Clean
  <2> QED
    BY <2>4, <2>5, <2>6 DEF Tidy, Clean
<1>13. CASE FlushFails \/ WriteRefused \/ SyncFails
  BY <1>6, <1>13 DEF FlushFails, WriteRefused, SyncFails
<1>14. CASE (Midnight \/ UNCHANGED <<vars, runVars>>) /\ ~ArchiverSyncs
  BY <1>4, <1>14 DEF Midnight, vars
<1> QED
  BY <1>2, <1>3, <1>8, <1>9, <1>10, <1>11, <1>12, <1>13, <1>14
     DEF RunStep, CollectorNext, ArchiverWorks

\* What is before an acknowledged record is stable, and stays.
LEMMA StaysClean ==
    ASSUME IInv, Disk, NEW a \in acked, Clean(a.day, a.at - 1)
    PROVE  a.at - 1 = 0 \/ IsNewline(file'[a.day][a.at - 1])
<1>1. /\ a.day \in Days /\ a.at \in Nat \ {0} /\ synced[a.day] \in Nat
      /\ a.at + 2 <= synced[a.day]
  BY DEF IInv, TypeOK, AckedDurable, Holds
<1>2. a.at - 1 = 0 \/ a.at - 1 \in 1..synced[a.day]
  BY <1>1, SMT
<1>3. \A i \in 1..synced[a.day] : file'[a.day][i] = file[a.day][i]
  BY <1>1 DEF Disk, Kept
<1> QED
  BY <1>2, <1>3 DEF Clean

LEMMA StepBehind == RunStep /\ Disk => Behind'
<1> SUFFICES ASSUME RunStep, Disk PROVE Behind'
  OBVIOUS
<1>1. IInv /\ Chronicle /\ Behind /\ (Begun => Tidy)
  BY DEF RunStep, RInv
<1>2. ASSUME NEW j \in DOMAIN history, Later(j)
      PROVE  \E a \in acked : /\ a.rec = history[j].rec
                              /\ a.at - 1 = 0 \/ IsNewline(file'[a.day][a.at - 1])
  BY <1>1, <1>2, StaysClean DEF Behind
<1>3. CASE ArchiverSyncs
  <2> DEFINE last == Len(file[curDate])
             line == [rec |-> rec, process |-> stops]
  <2> PICK new : new = [rec |-> rec, day |-> curDate, at |-> last - 2, from |-> called]
    OBVIOUS
  <2>1. /\ history' = Append(history, line) /\ acked' = acked \union {new}
        /\ UNCHANGED file /\ pc = "sync"
        /\ new.rec = rec /\ new.day = curDate /\ new.at = last - 2
        /\ curDate \in Days
    BY <1>1, <1>3 DEF ArchiverSyncs, Sync, Acknowledge, RunStep, IInv, InCall
  <2>2. line.rec = rec /\ line.process = stops
    OBVIOUS
  <2>3. last \in Nat /\ (last - 2) - 1 = last - 3
    <3>1. last \in Nat
      BY <1>1, <2>1, LenProperties DEF IInv, TypeOK
    <3> QED
      BY <3>1, SMT
  <2> HIDE DEF line, last
  <2>4. /\ DOMAIN history = 1..Len(history) /\ Len(history) \in Nat
        /\ DOMAIN history' = 1..(Len(history) + 1)
        /\ \A i \in 1..Len(history) : history'[i] = history[i]
        /\ history'[Len(history) + 1] = line
    <3>1. PICK T : history \in Seq(T) /\ line \in T
      <4>1. history \in Seq([rec : Records, process : 0..stops] \union {line})
        <5>1. history \in Seq([rec : Records, process : 0..stops])
          BY <1>1 DEF Chronicle
        <5>2. \A i \in DOMAIN history :
                 history[i] \in [rec : Records, process : 0..stops] \union {line}
          BY <5>1, LenProperties, ElementOfSeq
        <5> QED
          BY <5>1, <5>2, OtherSet
      <4> QED
        BY <4>1
    <3> QED
      BY <2>1, <3>1, AppendProperties, LenProperties
  <2>5. ASSUME NEW j \in DOMAIN history', Later(j)'
        PROVE  \E a \in acked' : a.rec = history'[j].rec /\ Clean(a.day, a.at - 1)'
    <3>1. PICK i \in DOMAIN history' : i < j /\ history'[i].process = history'[j].process
      BY <2>5 DEF Later
    <3>2. /\ i \in 1..Len(history)
          /\ j \in 1..Len(history) \/ j = Len(history) + 1
      BY <2>4, <3>1, SMT
    <3>3. CASE j \in 1..Len(history)
      <4>1. Later(j) /\ history'[j] = history[j]
        BY <2>4, <3>1, <3>2, <3>3 DEF Later
      <4>2. PICK a \in acked : /\ a.rec = history[j].rec
                               /\ a.at - 1 = 0 \/ IsNewline(file'[a.day][a.at - 1])
        BY <1>2, <2>4, <3>3, <4>1
      <4> QED
        BY <2>1, <4>1, <4>2 DEF Clean
    <3>4. CASE j = Len(history) + 1
      <4>1. history[i].process = stops /\ history'[j].rec = rec
        BY <2>2, <2>4, <3>1, <3>2, <3>4
      <4>2. Begun
        BY <2>4, <3>2, <4>1 DEF Begun
      <4>3. Clean(curDate, last - 3)
        BY <1>1, <2>1, <4>2 DEF Tidy, last
      <4>4. new \in acked' /\ new.rec = history'[j].rec
        BY <2>1, <4>1
      <4>5. Clean(new.day, new.at - 1)'
        BY <2>1, <2>3, <4>3 DEF Clean
      <4> QED
        BY <4>4, <4>5
    <3> QED
      BY <3>2, <3>3, <3>4
  <2> QED
    BY <2>5 DEF Behind
<1>4. CASE UNCHANGED history
  <2>1. acked \subseteq acked'
    BY <1>1, StepRefines, StepHistory DEF RunStep, Sync, Acknowledge
  <2> QED
    BY <1>2, <1>4, <2>1 DEF Behind, Later, Clean
<1>5. UNCHANGED history \/ ArchiverSyncs
  BY DEF RunStep, CollectorNext, ClientCalls, RunCloses, ArchiverWorks, Restarts, vars, runVars
<1> QED
  BY <1>3, <1>4, <1>5

LEMMA StepRInv == IInv /\ RInv /\ [CollectorNext]_<<vars, runVars>> => RInv'
<1> SUFFICES ASSUME IInv, RInv, [CollectorNext]_<<vars, runVars>> PROVE RInv'
  OBVIOUS
<1>1. [Next]_vars /\ Disk
  BY StepRefines, StepDisk
<1>2. Streaming' /\ Ahead'
  BY <1>1, StepStreaming, StepAhead DEF RInv
<1>3. client' = client
  BY DEF CollectorNext, ClientCalls, RunCloses, ArchiverWorks, ArchiverSyncs, Restarts, runVars
<1>4. ASSUME client = "run" PROVE Chronicle' /\ Opening' /\ (Begun' => Tidy') /\ Behind'
  <2>1. RunStep
    BY <1>4 DEF RunStep
  <2> QED
    BY <1>1, <2>1, StepBegun, StepOpening, StepTidy, StepBehind
<1> QED
  BY <1>2, <1>3, <1>4 DEF RInv

(***************************************************************************)
(* IInv, Once and RInv hold of every state of the collector: in particular *)
(* a run that has had a record acknowledged writes the next one to a file  *)
(* that ends with a newline, in the same file or, after a rotation, in a   *)
(* new one (archiver.py:175, 186 and 199).                                 *)
(***************************************************************************)
THEOREM RunInvariance == CollectorSpec => [](IInv /\ Once /\ RInv)
<1>1. CollectorSpec => [](IInv /\ Once)
  BY UsesArchiver, Invariance, WrittenOnce, PTL
<1> QED
  BY <1>1, InitRInv, StepRInv, PTL DEF CollectorSpec

LEMMA SliceIs ==
    ASSUME NEW S, NEW s \in Seq(S), NEW m \in Nat, NEW n \in Nat
    PROVE  SubSeq(s, m, n) = [i \in 1..(n - m + 1) |-> s[m + i - 1]]
  BY DEF SubSeq

\* A line holds one acknowledged record, as its last.
LEMMA OneHead ==
    ASSUME IInv, Once, NEW a \in acked, NEW b \in acked, NEW line \in Lines(file[a.day]),
           <<a.rec, "head">> \in {line[i] : i \in DOMAIN line},
           <<b.rec, "head">> \in {line[i] : i \in DOMAIN line}
    PROVE  a.rec = b.rec
<1> DEFINE s == file[a.day]
<1>1. /\ a.day \in Days /\ a.at \in Nat /\ s \in Seq(Bytes) /\ a.rec \in Records
      /\ a.at \in DOMAIN s /\ a.at + 2 \in DOMAIN s
      /\ s[a.at] = <<a.rec, "head">> /\ s[a.at + 2] = <<a.rec, "nl">>
  BY AckedBytes
<1>2. /\ b.day \in Days /\ b.at \in Nat /\ b.at \in DOMAIN file[b.day]
      /\ b.at + 1 \in DOMAIN file[b.day] /\ b.at + 2 \in DOMAIN file[b.day]
      /\ file[b.day][b.at] = <<b.rec, "head">>
      /\ file[b.day][b.at + 1] = <<b.rec, "rest">> /\ file[b.day][b.at + 2] = <<b.rec, "nl">>
  BY AckedBytes
<1>3. PICK first \in DOMAIN s, last \in DOMAIN s :
         /\ line = SubSeq(s, first, last)
         /\ \A i \in first..last : ~IsNewline(s[i])
  <2>1. line \in {SubSeq(s, p[1], p[2]) :
                    p \in {q \in (DOMAIN s) \X (DOMAIN s) :
                            /\ q[1] = 1 \/ IsNewline(s[q[1] - 1])
                            /\ q[2] = Len(s) \/ IsNewline(s[q[2] + 1])
                            /\ \A i \in q[1]..q[2] : ~IsNewline(s[i])}}
    BY DEF Lines
  <2> QED
    BY <2>1
<1>4. first \in Nat /\ last \in Nat /\ 1 <= first /\ last <= Len(s) /\ Len(s) \in Nat
  <2>1. DOMAIN s = 1..Len(s) /\ Len(s) \in Nat
    BY <1>1, LenProperties
  <2> QED
    BY <2>1, SMT
<1> HIDE DEF s
<1>5. ASSUME NEW i \in DOMAIN line
      PROVE  \E j \in first..last : j \in DOMAIN s /\ line[i] = s[j]
  <2>1. line = [j \in 1..(last - first + 1) |-> s[first + j - 1]]
    BY <1>1, <1>3, <1>4, SliceIs
  <2>2. i \in 1..(last - first + 1)
    BY <1>5, <2>1
  <2>3. first + i - 1 \in first..last /\ first + i - 1 \in 1..Len(s)
    BY <1>4, <2>2, SMT
  <2>4. line[i] = s[first + i - 1]
    BY <2>1, <2>2
  <2> QED
    BY <1>1, <2>3, <2>4, LenProperties
<1>6. ASSUME NEW c \in acked, <<c.rec, "head">> \in {line[i] : i \in DOMAIN line}
      PROVE  c.day = a.day /\ first <= c.at /\ c.at <= last /\ c.at \in Nat
  <2>1. PICK j \in first..last : j \in DOMAIN s /\ <<c.rec, "head">> = s[j]
    BY <1>5, <1>6
  <2>2. /\ c.day \in Days /\ c.at \in Nat /\ c.at \in DOMAIN file[c.day]
        /\ file[c.day][c.at] = <<c.rec, "head">>
    BY AckedBytes
  <2>3. file[a.day][j] = file[c.day][c.at] /\ j \in DOMAIN file[a.day]
    BY <2>1, <2>2 DEF s
  <2>4. c.day = a.day /\ c.at = j
    <3>1. PICK x \in DOMAIN file[a.day], y \in DOMAIN file[c.day] :
             x = j /\ y = c.at /\ file[a.day][x] = file[c.day][y]
      BY <2>2, <2>3
    <3>2. a.day = c.day /\ x = y
      BY <1>1, <2>2, <3>1, SamePlace
    <3> QED
      BY <3>1, <3>2
  <2> QED
    BY <1>4, <2>1, <2>2, <2>4, SMT
<1>7. b.day = a.day /\ first <= a.at /\ a.at <= last /\ first <= b.at /\ b.at <= last
  BY <1>6
<1>8. a.at + 2 \notin first..last /\ b.at + 2 \notin first..last
  <2>1. IsNewline(s[a.at + 2])
    BY <1>1 DEF IsNewline
  <2>2. IsNewline(s[b.at + 2])
    BY <1>2, <1>7 DEF IsNewline, s
  <2> QED
    BY <1>3, <2>1, <2>2
<1>9. \/ a.at = b.at \/ a.at = b.at + 1 \/ b.at = a.at + 1
  <2>1. PICK i \in Nat, j \in Nat : i = a.at /\ j = b.at
    BY <1>1, <1>2
  <2>2. /\ first <= i /\ i <= last /\ i + 2 \notin first..last
        /\ first <= j /\ j <= last /\ j + 2 \notin first..last
    BY <1>7, <1>8, <2>1
  <2>3. i = j \/ i = j + 1 \/ j = i + 1
    BY <1>4, <2>2, SMT
  <2> QED
    BY <2>1, <2>3
<1>10. CASE a.at = b.at
  BY <1>1, <1>2, <1>7, <1>10 DEF s
<1>11. CASE a.at = b.at + 1
  BY <1>1, <1>2, <1>7, <1>11 DEF s
<1>12. CASE b.at = a.at + 1
  <2>1. s[a.at + 1] = <<a.rec, "rest">>
    BY AckedBytes DEF s
  <2> QED
    BY <1>2, <1>7, <1>12, <2>1 DEF s
<1> QED
  BY <1>9, <1>10, <1>11, <1>12

(***************************************************************************)
(* A run loses at most its first record: what an earlier process left torn *)
(* costs the next run's first record, and no exception, signal or midnight *)
(* after that costs another (controller.py:274 and 313).                   *)
(***************************************************************************)
THEOREM RunsLoseFirstOnly == CollectorSpec => []LosesFirstOnly
<1>1. IInv /\ Once /\ RInv => LosesFirstOnly
  <2> SUFFICES ASSUME IInv, Once, RInv, client = "run", NEW a \in Unreadable
               PROVE  /\ \A i, j \in DOMAIN history :
                            i < j /\ history[j].rec = a.rec
                               => history[i].process # history[j].process
                      /\ \A line \in Lines(file[a.day]) :
                            <<a.rec, "head">> \in {line[i] : i \in DOMAIN line}
                              => \A b \in acked \ {a} :
                                    <<b.rec, "head">> \notin {line[i] : i \in DOMAIN line}
    BY DEF LosesFirstOnly
  <2>1. a \in acked /\ a.rec \notin Readable(a.day)
    BY DEF Unreadable
  <2>2. ASSUME NEW i \in DOMAIN history, NEW j \in DOMAIN history, i < j,
               history[j].rec = a.rec, history[i].process = history[j].process
        PROVE  FALSE
    <3>1. PICK b \in acked : b.rec = a.rec /\ Clean(b.day, b.at - 1)
      BY <2>2 DEF RInv, Behind, Later
    <3>2. b.day = a.day /\ b.at = a.at
      BY <2>1, <3>1 DEF Once, SaidOnce
    <3>3. a.at = 1 \/ IsNewline(file[a.day][a.at - 1])
      <4>1. a.at \in Nat
        BY <2>1, AckedBytes
      <4>2. a.at - 1 = 0 => a.at = 1
        BY <4>1, SMT
      <4> QED
        BY <3>1, <3>2, <4>2 DEF Clean
    <3> QED
      BY <2>1, <3>3, LineReadable
  <2>3. \A b \in acked : a.rec = b.rec => a = b
    BY <2>1 DEF Once, SaidOnce
  <2> QED
    BY <2>1, <2>2, <2>3, OneHead
<1> QED
  BY <1>1, RunInvariance, PTL
=============================================================================
