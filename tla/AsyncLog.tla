------------------------------ MODULE AsyncLog ------------------------------
(***************************************************************************)
(* AsyncLog (Common/AsyncLog.cpp): callers put lines into the bounded      *)
(* Receptionbuffer_; full buffers go to BackstageBuffers_, whose contents  *)
(* a background thread writes to the appender.  BackstageLock_ guards only *)
(* the list: Receptionbuffer_ and SpareBuffer_ are plain unique_ptrs that  *)
(* the callers and the background thread both test, move and assign.       *)
(*                                                                         *)
(* Buffers are numbered in the order they are allocated, Null is the null  *)
(* pointer.  A critical section of BackstageLock_ is one step.  The        *)
(* program stops its logging threads before the destructor runs.           *)
(***************************************************************************)
EXTENDS Integers, Sequences, FiniteSets, SequencesExt

CONSTANTS
    Callers,        \* threads that log
    BufferSize_,    \* AsyncLog::BufferSize_
    MaxLines        \* bound: lines logged altogether

ASSUME AsyncAssumption == BufferSize_ \in Nat \ {0} /\ MaxLines \in Nat

VARIABLES
    Receptionbuffer_, SpareBuffer_,    \* buffer numbers, or Null
    BackstageBuffers_, WriteBuffer,    \* sequences of buffers
    SecondaryBuffer_,                  \* lines that found no room
    content,        \* the lines in each buffer
    deleted,        \* buffers that were deleted
    written,        \* lines given to the appender
    isRunning_,     \* AsyncLog::isRunning_
    place,          \* each caller's place in append()
    hand,           \* the buffer a caller works with
    line,           \* the line a caller logs
    begun,          \* lines begun so far
    back,           \* the background thread's place in loop()
    dtor,           \* no, joining or done
    fault,          \* none, or the way the program died
    appended,       \* history: the lines, in the order they were put in a buffer
    raced,          \* history: two append() overlapped, or loop() tested
                    \* Receptionbuffer_ between its move and its refill
    early           \* history: the destructor ran before loop() began

Null == 0
Buffers == DOMAIN content

(* The places of append() between the move of Receptionbuffer_ and its     *)
(* refill.                                                                 *)
Refilling == {"spare", "read", "release", "refill"}

bufferVars == <<Receptionbuffer_, SpareBuffer_, BackstageBuffers_, SecondaryBuffer_,
                content, deleted>>
callerVars == <<place, hand, line, begun, appended>>
loopVars   == <<WriteBuffer, written, back>>
asyncVars  == <<bufferVars, callerVars, loopVars, isRunning_, dtor, fault, raced, early>>

AsyncTypeOK ==
    /\ {Receptionbuffer_, SpareBuffer_} \subseteq Buffers \cup {Null}
    /\ BackstageBuffers_ \in Seq(Buffers \cup {Null})
    /\ \A b \in Buffers : Len(content[b]) <= BufferSize_
    /\ place \in [Callers -> {"idle", "test", "move", "get", "put"} \cup Refilling]
    /\ back \in {"start", "swap", "spare", "fill", "reception", "refill", "write", "clear",
                 "secondary", "end"}
    /\ fault \in {"none", "null", "assert", "freed"}

(* The constructor: two buffers, and the thread is started.                *)
AsyncInit ==
    /\ Receptionbuffer_ = 1 /\ SpareBuffer_ = 2
    /\ content = <<<<>>, <<>>>> /\ deleted = {}
    /\ BackstageBuffers_ = <<>> /\ WriteBuffer = <<>> /\ SecondaryBuffer_ = <<>>
    /\ written = <<>> /\ appended = <<>> /\ begun = 0
    /\ isRunning_ = FALSE /\ back = "start" /\ dtor = "no"
    /\ place = [c \in Callers |-> "idle"]
    /\ hand = [c \in Callers |-> Null]
    /\ line = [c \in Callers |-> 0]
    /\ fault = "none" /\ raced = FALSE /\ early = FALSE

(* make_unique<Buffer>(BufferSize_), and assignment to a unique_ptr, which *)
(* deletes what it pointed to.                                             *)
NewBuffer == Len(content) + 1
Allocated == content' = Append(content, <<>>)
Deletes(b) == deleted' = deleted \cup ({b} \ {Null})

-----------------------------------------------------------------------------
Move(c, from, to) == place[c] = from /\ place' = [place EXCEPT ![c] = to]
Dies(how) == fault' = how

(* append() is called by a logging thread.                                 *)
AppendCalled(c) ==
    /\ Move(c, "idle", "test")
    /\ begun < MaxLines /\ dtor = "no"
    /\ begun' = begun + 1
    /\ line' = [line EXCEPT ![c] = begun + 1]
    /\ raced' = (raced \/ \E d \in Callers \ {c} : place[d] # "idle")
    /\ UNCHANGED <<bufferVars, hand, appended, fault>>

(* Receptionbuffer_->full(), on a null pointer or a deleted buffer too.    *)
TestFull(c) ==
    /\ place[c] = "test"
    /\ IF Receptionbuffer_ \in Buffers \ deleted
       THEN /\ Move(c, "test", IF Len(content[Receptionbuffer_]) = BufferSize_
                               THEN "move" ELSE "get")
            /\ UNCHANGED fault
       ELSE /\ Dies(IF Receptionbuffer_ = Null THEN "null" ELSE "freed")
            /\ UNCHANGED place
    /\ UNCHANGED <<bufferVars, hand, line, begun, appended, raced>>

(* The buffer, or the null pointer that another caller has left, moves to  *)
(* BackstageBuffers_ under the lock.                                       *)
MoveToBackstage(c) ==
    /\ Move(c, "move", "spare")
    /\ BackstageBuffers_' = Append(BackstageBuffers_, Receptionbuffer_)
    /\ Receptionbuffer_' = Null
    /\ UNCHANGED <<SpareBuffer_, SecondaryBuffer_, content, deleted, hand, line, begun,
                   appended, fault, raced>>

(* if(SpareBuffer_): without one, a new buffer is allocated ...            *)
TakeSpare(c) ==
    /\ IF SpareBuffer_ # Null
       THEN Move(c, "spare", "read") /\ UNCHANGED <<hand, content>>
       ELSE /\ Move(c, "spare", "refill")
            /\ hand' = [hand EXCEPT ![c] = NewBuffer] /\ Allocated
    /\ UNCHANGED <<Receptionbuffer_, SpareBuffer_, BackstageBuffers_, SecondaryBuffer_,
                   deleted, line, begun, appended, fault, raced>>

(* ... and else the move reads the pointer, which another caller may have  *)
(* taken since the test, ...                                               *)
ReadSpare(c) ==
    /\ Move(c, "read", "release")
    /\ hand' = [hand EXCEPT ![c] = SpareBuffer_]
    /\ UNCHANGED <<bufferVars, line, begun, appended, fault, raced>>

(* ... clears it ...                                                       *)
ReleaseSpare(c) ==
    /\ Move(c, "release", "refill")
    /\ SpareBuffer_' = Null
    /\ UNCHANGED <<Receptionbuffer_, BackstageBuffers_, SecondaryBuffer_, content, deleted,
                   hand, line, begun, appended, fault, raced>>

(* ... and assigns it to Receptionbuffer_.  What Receptionbuffer_ held is  *)
(* deleted, even when two callers have read the same spare buffer.         *)
Refill(c) ==
    /\ Move(c, "refill", "get")
    /\ Deletes(Receptionbuffer_)
    /\ Receptionbuffer_' = hand[c]
    /\ UNCHANGED <<SpareBuffer_, BackstageBuffers_, SecondaryBuffer_, content, hand, line,
                   begun, appended, fault, raced>>

(* The assertion, and the dereference of Receptionbuffer_.                 *)
GetReception(c) ==
    /\ place[c] = "get"
    /\ IF Receptionbuffer_ = Null
       THEN Dies("assert") /\ UNCHANGED <<place, hand>>
       ELSE /\ Move(c, "get", "put")
            /\ hand' = [hand EXCEPT ![c] = Receptionbuffer_]
            /\ UNCHANGED fault
    /\ UNCHANGED <<bufferVars, line, begun, appended, raced>>

(* RingBuffer::append, or SecondaryBuffer_ when it refuses.                *)
PutLine(c) ==
    /\ place[c] = "put"
    /\ IF hand[c] \in deleted
       THEN Dies("freed") /\ UNCHANGED <<content, SecondaryBuffer_, appended, place>>
       ELSE /\ IF Len(content[hand[c]]) < BufferSize_
               THEN /\ content' = [content EXCEPT ![hand[c]] = Append(@, line[c])]
                    /\ UNCHANGED SecondaryBuffer_
               ELSE /\ SecondaryBuffer_' = Append(SecondaryBuffer_, line[c])
                    /\ UNCHANGED content
            /\ appended' = Append(appended, line[c])
            /\ Move(c, "put", "idle")
            /\ UNCHANGED fault
    /\ UNCHANGED <<Receptionbuffer_, SpareBuffer_, BackstageBuffers_, deleted, hand, line,
                   begun, raced>>

CallerStep(c) ==
    /\ \/ AppendCalled(c) \/ TestFull(c) \/ MoveToBackstage(c) \/ TakeSpare(c)
       \/ ReadSpare(c) \/ ReleaseSpare(c) \/ Refill(c) \/ GetReception(c) \/ PutLine(c)
    /\ UNCHANGED <<loopVars, isRunning_, dtor, early>>

-----------------------------------------------------------------------------
At(from, to) == back = from /\ back' = to

(* loop() begins by declaring itself running, whatever the destructor did. *)
LoopBegins ==
    /\ At("start", "swap")
    /\ isRunning_' = TRUE
    /\ UNCHANGED <<bufferVars, WriteBuffer, written, fault, raced>>

(* The condition of the while loop, then the swap under the lock.          *)
SwapOrEnd ==
    /\ \/ /\ isRunning_ /\ At("swap", "spare")
          /\ IF BackstageBuffers_ # <<>>
             THEN /\ WriteBuffer' = BackstageBuffers_
                  /\ BackstageBuffers_' = WriteBuffer
             ELSE UNCHANGED <<WriteBuffer, BackstageBuffers_>>
       \/ ~isRunning_ /\ At("swap", "end") /\ UNCHANGED <<WriteBuffer, BackstageBuffers_>>
    /\ UNCHANGED <<Receptionbuffer_, SpareBuffer_, SecondaryBuffer_, content, deleted,
                   isRunning_, written, fault, raced>>

(* if(!SpareBuffer_), then the assignment in a step of its own.            *)
TestSpare ==
    /\ At("spare", IF SpareBuffer_ = Null THEN "fill" ELSE "reception")
    /\ UNCHANGED <<bufferVars, isRunning_, WriteBuffer, written, fault, raced>>

RefillSpare ==
    /\ At("fill", "reception")
    /\ Deletes(SpareBuffer_)
    /\ SpareBuffer_' = NewBuffer /\ Allocated
    /\ UNCHANGED <<Receptionbuffer_, BackstageBuffers_, SecondaryBuffer_, isRunning_,
                   WriteBuffer, written, fault, raced>>

(* Mutant of TestReception: the buffer is replaced whether null or not.    *)
TestReceptionNot ==
    /\ At("reception", "refill")
    /\ raced' = (raced \/ \E c \in Callers : place[c] \in Refilling)
    /\ UNCHANGED <<bufferVars, isRunning_, WriteBuffer, written, fault>>

(* if(!Receptionbuffer_), and the assignment likewise.                     *)
TestReception ==
    /\ At("reception", IF Receptionbuffer_ = Null THEN "refill" ELSE "write")
    /\ raced' = (raced \/ \E c \in Callers : place[c] \in Refilling)
    /\ UNCHANGED <<bufferVars, isRunning_, WriteBuffer, written, fault>>

RefillReception ==
    /\ At("refill", "write")
    /\ Deletes(Receptionbuffer_)
    /\ Receptionbuffer_' = NewBuffer /\ Allocated
    /\ UNCHANGED <<SpareBuffer_, BackstageBuffers_, SecondaryBuffer_, isRunning_,
                   WriteBuffer, written, fault, raced>>

Lines(bs) == FlattenSeq([i \in DOMAIN bs |-> IF bs[i] = Null THEN <<>> ELSE content[bs[i]]])

(* The buffers are emptied into the appender, then deleted by clear().     *)
WriteLines ==
    /\ At("write", "clear")
    /\ IF ToSet(WriteBuffer) \cap deleted # {}
       THEN Dies("freed") /\ UNCHANGED <<written, content>>
       ELSE /\ written' = written \o Lines(WriteBuffer)
            /\ content' = [b \in Buffers |-> IF b \in ToSet(WriteBuffer) THEN <<>>
                                                                       ELSE content[b]]
            /\ UNCHANGED fault
    /\ UNCHANGED <<Receptionbuffer_, SpareBuffer_, BackstageBuffers_, SecondaryBuffer_,
                   deleted, isRunning_, WriteBuffer, raced>>

ClearWriteBuffer ==
    /\ At("clear", "secondary")
    /\ deleted' = deleted \cup (ToSet(WriteBuffer) \ {Null})
    /\ WriteBuffer' = <<>>
    /\ UNCHANGED <<Receptionbuffer_, SpareBuffer_, BackstageBuffers_, SecondaryBuffer_,
                   content, isRunning_, written, fault, raced>>

(* SecondaryBuffer_.getAndClear(), written as well.                        *)
WriteSecondary ==
    /\ At("secondary", "swap")
    /\ written' = written \o SecondaryBuffer_
    /\ SecondaryBuffer_' = <<>>
    /\ UNCHANGED <<Receptionbuffer_, SpareBuffer_, BackstageBuffers_, content, deleted,
                   isRunning_, WriteBuffer, fault, raced>>

LoopStep ==
    /\ \/ LoopBegins \/ SwapOrEnd \/ TestSpare \/ RefillSpare \/ TestReception
       \/ RefillReception \/ WriteLines \/ ClearWriteBuffer \/ WriteSecondary
    /\ UNCHANGED <<callerVars, dtor, early>>

(* Mutant of Destroy: the destructor only joins.                           *)
DestroyJoins ==
    /\ dtor = "no" /\ \A c \in Callers : place[c] = "idle"
    /\ dtor' = "joining"
    /\ early' = (back = "start")
    /\ UNCHANGED <<bufferVars, callerVars, loopVars, isRunning_, fault, raced>>

(* ~AsyncLog(): isRunning_ is cleared, then the thread joined.             *)
Destroy ==
    /\ dtor = "no" /\ \A c \in Callers : place[c] = "idle"
    /\ dtor' = "joining"
    /\ isRunning_' = FALSE
    /\ early' = (back = "start")
    /\ UNCHANGED <<bufferVars, callerVars, loopVars, fault, raced>>

JoinReturns ==
    /\ dtor = "joining" /\ back = "end"
    /\ dtor' = "done"
    /\ UNCHANGED <<bufferVars, callerVars, loopVars, isRunning_, fault, raced, early>>

AsyncNext ==
    /\ fault = "none"
    /\ (\E c \in Callers : CallerStep(c)) \/ LoopStep \/ Destroy \/ JoinReturns

AsyncSpec == AsyncInit /\ [][AsyncNext]_asyncVars

-----------------------------------------------------------------------------
(* Everything logged, from the file to the newest buffer.                  *)
Stream == written \o Lines(WriteBuffer) \o Lines(BackstageBuffers_)
             \o Lines(<<Receptionbuffer_>>)

(* As long as the calls of append() do not overlap and loop() does not     *)
(* find Receptionbuffer_ null between its move and its refill, every line  *)
(* stays in the log, once, in the order of the calls, and nothing dies.    *)
LinesInOrder == raced \/ (fault = "none" /\ Stream = appended)

(* The destructor returns, unless it ran before loop() had begun.          *)
DestructorReturns == dtor = "joining" ~> (dtor = "done" \/ early \/ fault # "none")
=============================================================================
