------------------------------- MODULE SyncLog -------------------------------
(***************************************************************************)
(* SyncLog and the LogAppender behind it (Common/SyncLog.cpp and           *)
(* LogAppender.cpp).  A line is written by safeAppend() under the          *)
(* FairMutex, which also rolls over to a new file, and flushed by the      *)
(* caller after the mutex is released.                                     *)
(*                                                                         *)
(* Files are numbered in the order they are opened; rollFile() deletes the *)
(* BaseLogAppender of the old one, so every number below the current one   *)
(* is a dangling pointer.  A line is on disk when its file was flushed or  *)
(* closed after it was written.                                            *)
(***************************************************************************)
EXTENDS FairMutex

CONSTANTS
    RollLines,      \* rollSize_ in lines
    MaxLogged       \* bound: lines per thread

ASSUME SyncAssumption == RollLines \in Nat /\ MaxLogged \in Nat

VARIABLES
    pc,             \* each thread's place in SyncLog::append
    ptr,            \* the BaseLogAppender* a thread works with
    file,           \* baseLogFile_
    writtenBytes,   \* BaseLogAppender::writtenBytes_, in lines
    buffered,       \* lines in the stdio buffer of the current file
    disk,           \* lines on disk
    logged,         \* lines each thread has started to log
    crash,          \* none, or the call that used a deleted BaseLogAppender
    spurious        \* history: a wait of the mutex has ended spuriously

fileVars == <<ptr, file, writtenBytes, buffered, disk, crash>>
syncVars == <<mutexVars, fileVars, pc, logged, spurious>>

Line(t) == <<t, logged[t]>>

SyncInit ==
    /\ MutexInit
    /\ pc = [t \in Threads |-> "idle"]
    /\ ptr = [t \in Threads |-> 0]
    /\ file = 1
    /\ writtenBytes = 0
    /\ buffered = {}
    /\ disk = {}
    /\ logged = [t \in Threads |-> 0]
    /\ crash = "none"
    /\ spurious = FALSE

Goto(t, l) == pc' = [pc EXCEPT ![t] = l]

-----------------------------------------------------------------------------
(* SyncLog::append calls safeAppend, which locks the mutex.                *)
append(t) ==
    /\ pc[t] = "idle" /\ logged[t] < MaxLogged
    /\ logged' = [logged EXCEPT ![t] = @ + 1]
    /\ lock(t)
    /\ Goto(t, "locked")
    /\ UNCHANGED <<fileVars, spurious>>

LockReturns(t) ==
    /\ pc[t] = "locked"
    /\ \/ WaitEnds(t) /\ UNCHANGED spurious
       \/ WaitEndsSpuriously(t) /\ spurious' = TRUE
    /\ UNCHANGED <<fileVars, pc, logged>>

(* The dereference of baseLogFile_, the write, and the count.  The branch  *)
(* for a negative fileno() is not reached: fopen() succeeded, or the       *)
(* constructor of the file object ended the program.                       *)
LoadFile(t) ==
    /\ pc[t] = "locked" /\ at[t] = "in"
    /\ ptr' = [ptr EXCEPT ![t] = file]
    /\ Goto(t, "write")
    /\ UNCHANGED <<mutexVars, file, writtenBytes, buffered, disk, crash, logged, spurious>>

WriteLine(t) ==
    /\ pc[t] = "write"
    /\ IF ptr[t] = file
       THEN /\ buffered' = buffered \cup {Line(t)}
            /\ writtenBytes' = writtenBytes + 1
            /\ UNCHANGED crash
       ELSE crash' = "append" /\ UNCHANGED <<buffered, writtenBytes>>
    /\ Goto(t, "size")
    /\ UNCHANGED <<mutexVars, ptr, file, disk, logged, spurious>>

Flushed == disk' = disk \cup buffered /\ buffered' = {}

(* Mutant of rollFile: the old file is not closed, its buffer is lost.     *)
rollFileUnclosed ==
    /\ file' = file + 1
    /\ writtenBytes' = 0
    /\ buffered' = {}
    /\ UNCHANGED disk

(* rollFile(): the new file is opened, the old one closed and deleted.     *)
rollFile ==
    /\ file' = file + 1
    /\ writtenBytes' = 0
    /\ Flushed

(* Timeflush(): at most flushes the current file, by a clock and a counter *)
(* that are left out.                                                      *)
Timeflush ==
    /\ Flushed \/ UNCHANGED <<buffered, disk>>
    /\ UNCHANGED <<file, writtenBytes>>

(* Two threads that roll at the same time may delete the same file twice.  *)
RollOrFlush(t) ==
    /\ pc[t] = "size"
    /\ IF writtenBytes > RollLines THEN rollFile ELSE Timeflush
    /\ \/ UNCHANGED crash
       \/ /\ writtenBytes > RollLines
          /\ \E u \in Threads \ {t} : pc[u] = "size"
          /\ crash' = "append"
    /\ Goto(t, "unlock")
    /\ UNCHANGED <<mutexVars, ptr, logged, spurious>>

ReleaseMutex(t) ==
    /\ pc[t] = "unlock"
    /\ unlock(t)
    /\ Goto(t, "flush")
    /\ UNCHANGED <<fileVars, logged, spurious>>

(* The caller's flush(), outside the mutex: the pointer is read, then used. *)
LoadFileToFlush(t) ==
    /\ pc[t] = "flush"
    /\ ptr' = [ptr EXCEPT ![t] = file]
    /\ Goto(t, "fflush")
    /\ UNCHANGED <<mutexVars, file, writtenBytes, buffered, disk, crash, logged, spurious>>

flush(t) ==
    /\ pc[t] = "fflush"
    /\ IF ptr[t] = file THEN Flushed /\ UNCHANGED crash
                        ELSE crash' = "flush" /\ UNCHANGED <<buffered, disk>>
    /\ Goto(t, "idle")
    /\ UNCHANGED <<mutexVars, ptr, file, writtenBytes, logged, spurious>>

SyncStep(t) ==
    \/ append(t) \/ LockReturns(t) \/ LoadFile(t) \/ WriteLine(t)
    \/ RollOrFlush(t) \/ ReleaseMutex(t) \/ LoadFileToFlush(t) \/ flush(t)

SyncNext == crash = "none" /\ \E t \in Threads : SyncStep(t)
SyncSpec == SyncInit /\ [][SyncNext]_syncVars

-----------------------------------------------------------------------------
(* When SyncLog::append has returned, the line is on disk, whoever rolled  *)
(* the file over in between; a deleted file is written only after a        *)
(* spurious wakeup.  What remains is the flush outside the mutex, which    *)
(* may use a file that another thread has deleted.                         *)
AppendsDurable ==
    /\ crash = "append" => spurious
    /\ crash = "none" =>
          \A t \in Threads :
             /\ \A n \in 1..(logged[t] - 1) : <<t, n>> \in disk
             /\ pc[t] = "idle" /\ logged[t] > 0 => Line(t) \in disk
=============================================================================
