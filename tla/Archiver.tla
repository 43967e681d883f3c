------------------------------ MODULE Archiver ------------------------------
(***************************************************************************)
(* JSONLArchiver (lib/discovery/archiver.py): an append-only file of       *)
(* records per IST calendar day, written by one process after another.     *)
(*                                                                         *)
(* A record's line is three segments of bytes: the first part of its JSON  *)
(* text, the remainder, and the newline.  A write that fails, is           *)
(* interrupted or is cut by a kill may leave any prefix of the line in the *)
(* file; the part the stream object still holds may be written later, when *)
(* the file is closed, or be lost.  `file' is what a reader of the file    *)
(* sees, `synced' the length of it that fsync has made stable: a host stop *)
(* keeps at least that much of every file.                                 *)
(*                                                                         *)
(* The client calls open, write and close in any order, on records that    *)
(* are all different (each holds its own poll_id).  A call is several      *)
(* steps, and the process or the host may stop between any two.            *)
(***************************************************************************)
EXTENDS Integers, Sequences

CONSTANTS Records,      \* the records clients hand to write()
          NoRec,        \* no write in progress
          LastDay,      \* bound: the IST calendar days are 1..LastDay
          MaxStops      \* bound: process kills and host stops together

ASSUME ArchiverAssumption == /\ NoRec \notin Records
                             /\ LastDay \in Nat \ {0}
                             /\ MaxStops \in Nat

Days  == 1..LastDay
NoDay == 0

\* Mutant: the record is written without its newline.
PayloadNoNewline(r) == << <<r, "head">>, <<r, "rest">> >>

Payload(r) == << <<r, "head">>, <<r, "rest">>, <<r, "nl">> >>
Bytes      == Records \X {"head", "rest", "nl"}

VARIABLES
    \* the disk
    file,      \* [Days -> Seq(Bytes)]: the content of each day's file
    synced,    \* [Days -> Nat]: the length of it known to be on stable storage
    \* the archiver object of the running process
    handle,    \* _file: "none", "open", or "dead" (an object whose close failed)
    curDate,   \* _current_date
    buf,       \* bytes the stream object accepted and has not passed on
    lines,     \* _line_count
    \* the call in progress
    pc,        \* the next step of it, "idle" between calls
    rec,       \* the record write() was given, NoRec in open()
    raised,    \* how the last call ended: "none" or the exception's type
    \* the environment and the history
    today,     \* the IST date
    offered,   \* the records given to write() so far
    acked,     \* the writes that returned: record, day, position, day of call
    called,    \* the date on which the call in progress began
    stops      \* kills and host stops so far

disk   == <<file, synced>>
object == <<handle, curDate, buf, lines>>
call   == <<pc, rec, raised, called>>
vars   == <<disk, object, call, today, offered, acked, stops>>

TypeOK ==
    /\ file    \in [Days -> Seq(Bytes)]
    /\ synced  \in [Days -> Nat]
    /\ handle  \in {"none", "open", "dead"}
    /\ curDate \in Days \union {NoDay}
    /\ buf     \in Seq(Bytes)
    /\ lines   \in Nat
    /\ pc      \in {"idle", "close", "reopen", "write", "sync"}
    /\ rec     \in Records \union {NoRec}
    /\ raised  \in {"none", "ArchiverError", "OSError", "ValueError", "KeyboardInterrupt"}
    /\ today   \in Days
    /\ offered \subseteq Records
    /\ acked   \subseteq [rec : Records, day : Days, at : Nat \ {0}, from : Days]
    /\ called  \in Days
    /\ stops   \in 0..MaxStops

Init ==
    /\ file = [d \in Days |-> <<>>] /\ synced = [d \in Days |-> 0]
    /\ handle = "none" /\ curDate = NoDay /\ buf = <<>> /\ lines = 0
    /\ pc = "idle" /\ rec = NoRec /\ raised = "none" /\ called = 1
    /\ today = 1 /\ offered = {} /\ acked = {} /\ stops = 0

-----------------------------------------------------------------------------
Return(exc) == pc' = "idle" /\ rec' = NoRec /\ raised' = exc /\ UNCHANGED called

\* The first k bytes of s, and the bytes after them.
Front(s, k) == SubSeq(s, 1, k)
Rest(s, k)  == SubSeq(s, k + 1, Len(s))
Extend(d, s) == file' = [file EXCEPT ![d] = @ \o s]

(***************************************************************************)
(* open(): nothing when a file is open, _rotate() otherwise.               *)
(***************************************************************************)
Open ==
    /\ pc = "idle" /\ handle = "none"
    /\ pc' = "reopen" /\ rec' = NoRec /\ raised' = "none" /\ called' = today
    /\ UNCHANGED <<disk, object, today, offered, acked, stops>>

(***************************************************************************)
(* Closing the stream passes its buffered bytes on.  When that fails, a    *)
(* prefix of them is in the file, the rest is gone and the object is dead. *)
(* Closing a dead object does nothing.  `_file' is reset on success only.  *)
(***************************************************************************)
CloseStream ==
    /\ handle' = "none" /\ buf' = <<>>
    /\ IF handle = "open" THEN Extend(curDate, buf) ELSE UNCHANGED file

CloseStreamFails ==
    /\ handle = "open"
    /\ \E k \in 0..Len(buf) : Extend(curDate, Front(buf, k))
    /\ handle' = "dead" /\ buf' = <<>>

\* close(): idempotent; a failure to pass the bytes on leaves as a raw OSError.
Close ==
    /\ pc = "idle" /\ handle # "none"
    /\ \/ CloseStream /\ Return("none")
       \/ CloseStreamFails /\ Return("OSError")
    /\ UNCHANGED <<synced, curDate, lines, today, offered, acked, stops>>

\* Mutant: write() never compares the date.
WriteNoRotation(r) ==
    /\ pc = "idle" /\ r \notin offered /\ handle # "none"
    /\ offered' = offered \union {r}
    /\ called' = today
    /\ pc' = "write" /\ rec' = r /\ raised' = "none"
    /\ UNCHANGED <<disk, object, today, acked, stops>>

\* write(), up to its comparison of _today() with the date of the open file.
Write(r) ==
    /\ pc = "idle" /\ r \notin offered
    /\ offered' = offered \union {r}
    /\ called' = today
    /\ IF handle = "none"
         THEN pc' = "idle" /\ rec' = NoRec /\ raised' = "ArchiverError"
         ELSE /\ pc' = IF today # curDate THEN "close" ELSE "write"
              /\ rec' = r /\ raised' = "none"
    /\ UNCHANGED <<disk, object, today, acked, stops>>

\* _rotate(), first half: close the current file; a signal handler may raise first.
RotateClose ==
    /\ pc = "close"
    /\ \/ CloseStream /\ pc' = "reopen" /\ UNCHANGED <<rec, raised, called>>
       \/ CloseStreamFails /\ Return("OSError")
       \/ Return("KeyboardInterrupt") /\ UNCHANGED <<file, handle, buf>>
    /\ UNCHANGED <<synced, curDate, lines, today, offered, acked, stops>>

\* Mutant: the file is opened for writing, not for appending.
RotateOpenTruncating ==
    /\ pc = "reopen"
    /\ curDate' = today /\ handle' = "open"
    /\ file' = [file EXCEPT ![today] = <<>>]
    /\ pc' = IF rec = NoRec THEN "idle" ELSE "write"
    /\ UNCHANGED <<rec, raised, called>>
    /\ UNCHANGED <<synced, buf, lines, today, offered, acked, stops>>

(***************************************************************************)
(* _rotate(), second half: the date is set before anything can fail, mkdir *)
(* may raise OSError, which nothing wraps, and open may, which becomes     *)
(* ArchiverError.  write() goes on with the new file.                      *)
(***************************************************************************)
RotateOpen ==
    /\ pc = "reopen"
    /\ curDate' = today
    /\ \/ /\ handle' = "open"
          /\ pc' = IF rec = NoRec THEN "idle" ELSE "write"
          /\ UNCHANGED <<rec, raised, called>>
       \/ \E exc \in {"OSError", "ArchiverError", "KeyboardInterrupt"} :
            Return(exc) /\ UNCHANGED handle
    /\ UNCHANGED <<disk, buf, lines, today, offered, acked, stops>>

\* The bytes the next flush passes on: those of a failed write come first.
Pending == buf \o Payload(rec)

\* write() and flush(): the line reaches the file.
Flush ==
    /\ pc = "write" /\ handle = "open"
    /\ Extend(curDate, Pending) /\ buf' = <<>>
    /\ pc' = "sync"
    /\ UNCHANGED <<synced, handle, curDate, lines, rec, raised, called,
                   today, offered, acked, stops>>

(***************************************************************************)
(* write() or flush() fails, or a signal handler raises inside it: some    *)
(* prefix is in the file, the stream keeps the rest or has dropped it.     *)
(***************************************************************************)
FlushFails ==
    /\ pc = "write" /\ handle = "open"
    /\ \E k \in 0..Len(Pending), exc \in {"ArchiverError", "KeyboardInterrupt"} :
         /\ exc = "ArchiverError" => k < Len(Pending)
         /\ Extend(curDate, Front(Pending, k))
         /\ buf' \in {<<>>, Rest(Pending, k)}
         /\ Return(exc)
    /\ UNCHANGED <<synced, handle, curDate, lines, today, offered, acked, stops>>

\* json.dumps refuses the record, or the stream object is dead: nothing written.
WriteRefused ==
    /\ pc = "write"
    /\ \/ Return("ArchiverError")
       \/ handle = "dead" /\ Return("ValueError")
    /\ UNCHANGED <<disk, object, today, offered, acked, stops>>

\* The record in progress is acknowledged, at the end of the file.
Acknowledge ==
    acked' = acked \union {[rec |-> rec, day |-> curDate,
                            at |-> Len(file[curDate]) - 2, from |-> called]}

\* Mutant: no fsync.
SyncWithoutFsync ==
    /\ pc = "sync"
    /\ lines' = lines + 1
    /\ Acknowledge /\ Return("none")
    /\ UNCHANGED <<disk, handle, curDate, buf, today, offered, stops>>

\* os.fsync, the counts and the return: the record is acknowledged.
Sync ==
    /\ pc = "sync"
    /\ synced' = [synced EXCEPT ![curDate] = Len(file[curDate])]
    /\ lines' = lines + 1
    /\ Acknowledge /\ Return("none")
    /\ UNCHANGED <<file, handle, curDate, buf, today, offered, stops>>

\* Mutant: an fsync error is swallowed.
SyncFailsSilently ==
    /\ pc = "sync"
    /\ lines' = lines + 1
    /\ Acknowledge /\ Return("none")
    /\ UNCHANGED <<disk, handle, curDate, buf, today, offered, stops>>

\* fsync raises, or a signal handler does before or after it.
SyncFails ==
    /\ pc = "sync"
    /\ \/ Return("ArchiverError") /\ UNCHANGED synced
       \/ /\ Return("KeyboardInterrupt")
          /\ \/ UNCHANGED synced
             \/ synced' = [synced EXCEPT ![curDate] = Len(file[curDate])]
    /\ UNCHANGED <<file, object, today, offered, acked, stops>>

-----------------------------------------------------------------------------
\* A new process starts with a new archiver object.
NewProcess ==
    /\ stops < MaxStops /\ stops' = stops + 1
    /\ handle' = "none" /\ curDate' = NoDay /\ buf' = <<>> /\ lines' = 0
    /\ Return("none")
    /\ UNCHANGED <<today, offered, acked>>

\* The process is killed: a write(2) in progress may have taken any prefix.
Kill ==
    /\ NewProcess
    /\ IF pc = "write" /\ handle = "open"
         THEN \E k \in 0..Len(Pending) : Extend(curDate, Front(Pending, k))
         ELSE UNCHANGED file
    /\ UNCHANGED synced

\* The host stops: what was not fsynced is lost, from any point on.
HostStop ==
    /\ NewProcess
    /\ \E cut \in [Days -> UNION {0..Len(file[d]) : d \in Days}] :
         /\ \A d \in Days : synced[d] <= cut[d] /\ cut[d] <= Len(file[d])
         /\ file' = [d \in Days |-> Front(file[d], cut[d])]
         /\ synced' = cut

\* Midnight, at any point of a call.
Midnight ==
    /\ today < LastDay /\ today' = today + 1
    /\ UNCHANGED <<disk, object, call, offered, acked, stops>>

Next ==
    \/ Open \/ Close \/ RotateClose \/ RotateOpen
    \/ \E r \in Records : Write(r)
    \/ Flush \/ FlushFails \/ WriteRefused \/ Sync \/ SyncFails
    \/ Kill \/ HostStop \/ Midnight

Spec == Init /\ [][Next]_vars

-----------------------------------------------------------------------------
(***************************************************************************)
(* What a reader of the file recovers (load_jsonl, tools/data_quality):    *)
(* the lines are the maximal runs between newlines, and a line parses when *)
(* it is the whole JSON text of one record and nothing else.               *)
(***************************************************************************)
IsNewline(b) == b[2] = "nl"

Lines(s) ==
    LET Starts(i) == i = 1 \/ IsNewline(s[i - 1])
        Ends(j)   == j = Len(s) \/ IsNewline(s[j + 1])
    IN  {SubSeq(s, p[1], p[2]) :
           p \in {q \in (DOMAIN s) \X (DOMAIN s) :
                    /\ Starts(q[1]) /\ Ends(q[2])
                    /\ \A i \in q[1]..q[2] : ~IsNewline(s[i])}}

Readable(d) ==
    {r \in Records : << <<r, "head">>, <<r, "rest">> >> \in Lines(file[d])}

-----------------------------------------------------------------------------
(***************************************************************************)
(* An acknowledged record is on stable storage, whole: no kill, host stop, *)
(* failed write or rotation loses or splits its bytes (archiver.py:13).    *)
(***************************************************************************)
Holds(a) ==
    /\ a.at + 2 <= synced[a.day]
    /\ synced[a.day] <= Len(file[a.day])
    /\ \A i \in 1..3 : file[a.day][a.at + i - 1] = Payload(a.rec)[i]

AckedDurable == \A a \in acked : Holds(a)

(***************************************************************************)
(* A record is filed under the IST date on which its write() ran, never    *)
(* under an earlier one, however long the archiver has been open           *)
(* (write's comparison with _today, archiver.py:173).                      *)
(***************************************************************************)
FiledUnderItsDay == \A a \in acked : a.from <= a.day /\ a.day <= today

(***************************************************************************)
(* An acknowledged record can be unreadable only because its line begins   *)
(* with bytes of a record that was never acknowledged: every torn write    *)
(* costs at most the one record written next to it (archiver.py:186).      *)
(***************************************************************************)
LossOnlyBehindTear ==
    \A a \in acked :
        \/ a.rec \in Readable(a.day)
        \/ /\ a.at > 1
           /\ LET before == file[a.day][a.at - 1]
              IN  ~IsNewline(before) /\ \A b \in acked : b.rec # before[1]

(***************************************************************************)
(* No step changes bytes that are on stable storage: the corpus is append  *)
(* only, across rotations, restarts and failures (open(..., "a")).         *)
(***************************************************************************)
AppendOnly ==
    [][\A d \in Days :
          /\ synced[d] <= synced'[d] /\ synced'[d] <= Len(file'[d])
          /\ \A i \in 1..synced[d] : file'[d][i] = file[d][i]]_disk

(***************************************************************************)
(* Every acknowledged record can be read back as a line of its file: "one  *)
(* JSON line per record" (archiver.py:4) and an unclean stop loses none    *)
(* (archiver.py:14).  The code does not ensure it: a torn tail left by a   *)
(* failed or killed write is never closed with a newline, and the next     *)
(* record, acknowledged, is appended to the same line.                     *)
(***************************************************************************)
AckedReadable == \A a \in acked : a.rec \in Readable(a.day)

(***************************************************************************)
(* The archiver implements a durable log: the newlines of the acknowledged *)
(* records in a day's file are its entries, to which an acknowledged write *)
(* adds one at the end, and which nothing else adds to, removes or moves.  *)
(***************************************************************************)
LogOf(d) ==
    LET Entry(i) == /\ IsNewline(file[d][i])
                    /\ \E a \in acked : a.rec = file[d][i][1]
    IN  {[at |-> i, rec |-> file[d][i][1]] : i \in {j \in DOMAIN file[d] : Entry(j)}}

Log == INSTANCE DurableLog WITH log <- [d \in Days |-> LogOf(d)]

RefinesDurableLog == Log!Spec
=============================================================================
