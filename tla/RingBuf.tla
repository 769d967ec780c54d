------------------------------ MODULE RingBuf ------------------------------
(***************************************************************************)
(* The ring buffer between two audio elements (audio_pipeline/ringbuf.c):  *)
(* one task reads, one task writes, and any task may abort, unblock or     *)
(* reset.  A step is what happens between two points where another task    *)
(* can be seen: taking the mutex, one load of an unlocked flag, giving or  *)
(* taking a binary semaphore.  Work done under the mutex on state that     *)
(* only its holder touches is one step.                                    *)
(***************************************************************************)
EXTENDS Integers, Sequences

CONSTANTS Size,         \* rb->size, block_size * n_blocks
          ReadLens,     \* buf_len of the rb_read calls
          WriteLens,    \* buf_len of the rb_write calls
          MaxBytes,     \* bound: no rb_write starts that could store more
          Timed         \* sides whose ticks_to_wait is finite, not portMAX_DELAY

\* Reads round down to whole 32-bit words (the I2S noise workaround).
Word == 4

\* A buffer of less than a word could be full and unreadable at once.
ASSUME SizeAssumption == Size \in Nat /\ Size >= Word
ASSUME LensAssumption == /\ ReadLens \subseteq Nat \ {0}
                         /\ WriteLens \subseteq Nat \ {0}
ASSUME BoundAssumption == MaxBytes \in Nat /\ Timed \subseteq {"reader", "writer"}

RB_DONE == -2
RB_ABORT == -3
RB_TIMEOUT == -4

Sides == {"reader", "writer"}
Other(s) == IF s = "reader" THEN "writer" ELSE "reader"

VARIABLES
  mem,              \* the bytes at p_o[0 .. Size-1]
  p_r, p_w,         \* the pointers, as offsets from p_o
  fill_cnt,
  sem,              \* sem[s]: the semaphore s sleeps on (can_read, can_write)
  lock,             \* holder of the mutex, or "free"
  abort,            \* abort_read and abort_write
  is_done_write, unblock_reader,
  task,             \* task[s]: where s is in its call, and the call's locals
  ctl,              \* what the control call in progress does next
  put               \* ghost: how many bytes were ever stored (byte k is k)

ring == <<mem, p_r, p_w, fill_cnt, put>>
flags == <<abort, is_done_write, unblock_reader>>
vars == <<ring, sem, lock, flags, task, ctl>>

Idle == [pc |-> "idle", left |-> 0, data |-> <<>>, ret |-> 0]

Init == /\ mem = [i \in 0..Size-1 |-> 0]
        /\ p_r = 0 /\ p_w = 0 /\ fill_cnt = 0 /\ put = 0
        /\ sem = [s \in Sides |-> FALSE]
        /\ lock = "free"
        /\ abort = [s \in Sides |-> FALSE]
        /\ is_done_write = FALSE /\ unblock_reader = FALSE
        /\ task = [s \in Sides |-> Idle]
        /\ ctl = "none"

Goto(s, from, to) == /\ task[s].pc = from
                     /\ task' = [task EXCEPT ![s].pc = to]
-----------------------------------------------------------------------------
\* Plausible bugs, for the mutation runs.
ReadSizeAllOrNothing ==
  IF fill_cnt >= task["reader"].left THEN task["reader"].left ELSE 0
-----------------------------------------------------------------------------
\* Copies wrap at the end of the storage.  A pointer moves to the end itself,
\* not back to the start, when a copy ends exactly there.
Cell(p, i) == IF p + i >= Size THEN p + i - Size ELSE p + i
Advance(p, n) == IF p + n > Size THEN p + n - Size ELSE p + n

\* How much rb_read takes now: all it wants, or whole words, or the last bytes
\* of a finished stream.
ReadSize ==
  IF fill_cnt >= task["reader"].left THEN task["reader"].left
  ELSE LET words == fill_cnt - (fill_cnt % Word)
       IN IF words = 0 /\ is_done_write THEN fill_cnt ELSE words

\* rb_bytes_available, capped by what rb_write still has to store.
WriteSize == IF task["writer"].left < Size - fill_cnt
             THEN task["writer"].left ELSE Size - fill_cnt

Amount(s) == IF s = "reader" THEN ReadSize ELSE WriteSize

\* The storage after the next n bytes are copied in at p_w, in two pieces when
\* they wrap.
StoredRestart(n) ==  \* mutant: the second piece starts over in the source
  [c \in 0..Size-1 |-> IF \E i \in 0..n-1 : c = Cell(p_w, i)
                       THEN put + (IF c >= p_w THEN c - p_w ELSE c)
                       ELSE mem[c]]
Stored(n) ==
  [c \in 0..Size-1 |-> IF \E i \in 0..n-1 : c = Cell(p_w, i)
                       THEN put + (IF c >= p_w THEN c - p_w ELSE c - p_w + Size)
                       ELSE mem[c]]
-----------------------------------------------------------------------------
\* rb_read and rb_write

Call(s, len) ==
  /\ task[s].pc = "idle"
  /\ s = "writer" => put + len <= MaxBytes
  /\ task' = [task EXCEPT ![s].pc = "lock", ![s].left = len]
  /\ UNCHANGED <<ring, sem, lock, flags, ctl>>

TakeLock(s) ==
  /\ lock = "free" /\ lock' = s
  /\ Goto(s, "lock", "size")
  /\ UNCHANGED <<ring, sem, flags, ctl>>

\* The locals after n bytes were copied: leave the loop when nothing is left.
Moved(s, n, bytes) ==
  [task EXCEPT ![s].pc = IF task[s].left = n THEN "exit" ELSE "lock",
               ![s].left = @ - n,
               ![s].data = @ \o bytes]

ReadTransfer ==
  /\ task["reader"].pc = "size" /\ ReadSize > 0
  /\ p_r' = Advance(p_r, ReadSize)
  /\ fill_cnt' = fill_cnt - ReadSize
  /\ task' = Moved("reader", ReadSize,
                   [i \in 1..ReadSize |-> mem[Cell(p_r, i - 1)]])
  /\ lock' = "free"
  /\ UNCHANGED <<mem, p_w, put, sem, flags, ctl>>

WriteTransfer ==
  /\ task["writer"].pc = "size" /\ WriteSize > 0
  /\ mem' = Stored(WriteSize)
  /\ p_w' = Advance(p_w, WriteSize)
  /\ fill_cnt' = fill_cnt + WriteSize
  /\ put' = put + WriteSize
  /\ task' = Moved("writer", WriteSize, [i \in 1..WriteSize |-> put + i - 1])
  /\ lock' = "free"
  /\ UNCHANGED <<p_r, sem, flags, ctl>>

FindNothing(s) ==
  /\ Amount(s) = 0
  /\ Goto(s, "size", "done")
  /\ UNCHANGED <<ring, sem, lock, flags, ctl>>

\* One flag test under the mutex: leave with `code`, or go on to the next.
Test(s, pc, flag, code, next) ==
  /\ task[s].pc = pc
  /\ task' = [task EXCEPT ![s].pc = IF flag THEN "exit" ELSE next,
                          ![s].ret = IF flag THEN code ELSE @]
  /\ lock' = IF flag \/ next = "give" THEN "free" ELSE lock
  /\ UNCHANGED <<ring, sem, flags, ctl>>

\* mutant: the flag is not looked at
TestDoneUnseen(s) == Test(s, "done", FALSE, RB_DONE, "abort")

TestDone(s) == Test(s, "done", is_done_write, RB_DONE, "abort")
TestAbort(s) == Test(s, "abort", abort[s], RB_ABORT,
                     IF s = "reader" THEN "unblock" ELSE "give")
TestUnblock == Test("reader", "unblock", unblock_reader, RB_TIMEOUT, "give")

\* Wake the other side before going to sleep.
GiveForgotten(s) == 
  Goto(s, "give", "wait") /\ UNCHANGED <<ring, sem, lock, flags, ctl>>
Give(s) ==
  /\ Goto(s, "give", "wait")
  /\ sem' = [sem EXCEPT ![Other(s)] = TRUE]
  /\ UNCHANGED <<ring, lock, flags, ctl>>

Wake(s) ==
  /\ sem[s] /\ sem' = [sem EXCEPT ![s] = FALSE]
  /\ Goto(s, "wait", "lock")
  /\ UNCHANGED <<ring, lock, flags, ctl>>

Timeout(s) ==
  /\ s \in Timed /\ ~sem[s]
  /\ task[s].pc = "wait"
  /\ task' = [task EXCEPT ![s].pc = "exit", ![s].ret = RB_TIMEOUT]
  /\ UNCHANGED <<ring, sem, lock, flags, ctl>>

\* read_err, write_err: wake the other side if anything was moved.
ExitSilent(s) ==  \* mutant
  Goto(s, "exit", "return") /\ UNCHANGED <<ring, sem, lock, flags, ctl>>
Exit(s) ==
  /\ Goto(s, "exit", "return")
  /\ sem' = [sem EXCEPT ![Other(s)] = @ \/ task[s].data # <<>>]
  /\ UNCHANGED <<ring, lock, flags, ctl>>

\* What the call returns: RB_ABORT hides the bytes already moved.
Result(s) == IF task[s].ret = RB_ABORT \/ task[s].data = <<>>
             THEN task[s].ret ELSE Len(task[s].data)

\* rb_read clears the unblock request on its way out, without the mutex.
Return(s) ==
  /\ task[s].pc = "return"
  /\ task' = [task EXCEPT ![s] = Idle]
  /\ unblock_reader' = (unblock_reader /\ s # "reader")
  /\ UNCHANGED <<ring, sem, lock, abort, is_done_write, ctl>>

\* rb_done_write, called by the writing element's own task
\* (audio_element_set_ringbuf_done): the flag, then the give.
DoneWrite ==
  /\ Goto("writer", "idle", "done_give")
  /\ is_done_write' = TRUE
  /\ UNCHANGED <<ring, sem, lock, abort, unblock_reader, ctl>>

DoneWriteGive ==
  /\ Goto("writer", "done_give", "idle")
  /\ sem' = [sem EXCEPT !["reader"] = TRUE]
  /\ UNCHANGED <<ring, lock, flags, ctl>>
-----------------------------------------------------------------------------
\* Calls any other task makes, one at a time.

GiveToForgotten(s, from, to) ==  \* mutant
  ctl = from /\ ctl' = to /\ UNCHANGED <<ring, sem, lock, flags, task>>
GiveTo(s, from, to) ==
  /\ ctl = from /\ ctl' = to
  /\ sem' = [sem EXCEPT ![s] = TRUE]
  /\ UNCHANGED <<ring, lock, flags, task>>

SetAbort(s, from, to) ==
  /\ ctl = from /\ ctl' = to
  /\ abort' = [abort EXCEPT ![s] = TRUE]
  /\ UNCHANGED <<ring, sem, lock, is_done_write, unblock_reader, task>>

\* rb_abort: flag and give for the reader, then for the writer.
AbortRead == SetAbort("reader", "none", "abort_read_give")
AbortReadGive == GiveTo("reader", "abort_read_give", "abort_write")
AbortWrite == SetAbort("writer", "abort_write", "abort_write_give")
AbortWriteGive == GiveTo("writer", "abort_write_give", "none")

UnblockReader ==
  /\ ctl = "none" /\ ctl' = "unblock_give"
  /\ unblock_reader' = TRUE
  /\ UNCHANGED <<ring, sem, lock, abort, is_done_write, task>>

UnblockReaderGive == GiveTo("reader", "unblock_give", "none")

\* rb_reset takes no lock, so its callers must not let it meet a copy: the
\* resuming writer resets its own output, the pipeline resets stopped elements.
Quiet == /\ ctl = "none"
         /\ task["writer"].pc = "idle" /\ task["reader"].pc \in {"idle", "wait"}

ResetKeepsFill ==  \* mutant: the fill counter is forgotten
  /\ Quiet
  /\ p_r' = 0 /\ p_w' = 0
  /\ abort' = [s \in Sides |-> FALSE]
  /\ is_done_write' = FALSE /\ unblock_reader' = FALSE
  /\ UNCHANGED <<mem, fill_cnt, put, sem, lock, task, ctl>>
Reset ==
  /\ Quiet
  /\ p_r' = 0 /\ p_w' = 0 /\ fill_cnt' = 0
  /\ abort' = [s \in Sides |-> FALSE]
  /\ is_done_write' = FALSE /\ unblock_reader' = FALSE
  /\ UNCHANGED <<mem, put, sem, lock, task, ctl>>

ResetIsDoneWrite ==
  /\ Quiet
  /\ is_done_write' = FALSE
  /\ UNCHANGED <<ring, sem, lock, abort, unblock_reader, task, ctl>>
-----------------------------------------------------------------------------
Step(s) == \/ TakeLock(s) \/ FindNothing(s)
           \/ TestDone(s) \/ TestAbort(s)
           \/ Give(s) \/ Wake(s) \/ Timeout(s) \/ Exit(s) \/ Return(s)

ReadStep == Step("reader") \/ ReadTransfer \/ TestUnblock
WriteStep == Step("writer") \/ WriteTransfer \/ DoneWriteGive
ControlStep == AbortReadGive \/ AbortWrite \/ AbortWriteGive \/ UnblockReaderGive

Next == \/ \E len \in ReadLens : Call("reader", len)
        \/ \E len \in WriteLens : Call("writer", len)
        \/ ReadStep
        \/ WriteStep
        \/ DoneWrite
        \/ AbortRead \/ UnblockReader \/ ControlStep
        \/ Reset \/ ResetIsDoneWrite

Spec == Init /\ [][Next]_vars

(***************************************************************************)
(* Scheduling.  FreeRTOS runs both tasks and the controller; a call that   *)
(* began keeps running.  A mutex that is released again and again is at    *)
(* last taken by a task that waits for it (the kernel queues the waiter).  *)
(* Nobody is obliged to make another call.                                 *)
(***************************************************************************)
FairCalls == /\ WF_vars(ReadStep) /\ SF_vars(TakeLock("reader"))
             /\ WF_vars(WriteStep) /\ SF_vars(TakeLock("writer"))
             /\ WF_vars(ControlStep)

FairSpec == Spec /\ FairCalls
=============================================================================
