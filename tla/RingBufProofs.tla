--------------------------- MODULE RingBufProofs ---------------------------
(***************************************************************************)
(* Proofs about the ring buffer for every size of at least a word, every   *)
(* request length and any number of bytes.                                 *)
(***************************************************************************)
EXTENDS RingBufProps, SequenceTheorems, TLAPS

Critical == {"size", "done", "abort", "unblock"}
Looping == Critical \cup {"lock", "give", "wait"}

\* The mutex is held exactly by the task inside its critical section.
LockOwner == \A s \in Sides : lock = s <=> task[s].pc \in Critical

\* A task in the loop of its call still has bytes to move.
LeftInLoop == \A s \in Sides : task[s].pc \in Looping => task[s].left > 0

\* Nothing that the reader can take now; nowhere the writer can store.
Starved == fill_cnt < Word /\ fill_cnt < rd.left
Full == fill_cnt = Size

\* What a task found under the mutex stays so while it tests the flags, and
\* after it released the mutex a change comes with a wakeup.
ReaderWakes ==
  /\ rd.pc \in {"done", "abort", "unblock"} => Starved
  /\ rd.pc \in {"give", "wait"} => Starved \/ sem["reader"] \/ GiveOwed("reader")
  /\ rd.pc \in {"abort", "unblock", "give", "wait"} /\ is_done_write =>
       sem["reader"] \/ wr.pc = "done_give"
  /\ rd.pc \in {"unblock", "give", "wait"} /\ abort["reader"] =>
       sem["reader"] \/ ctl = "abort_read_give"
  /\ rd.pc \in {"give", "wait"} /\ unblock_reader =>
       sem["reader"] \/ ctl = "unblock_give"

WriterWakes ==
  /\ wr.pc \in {"done", "abort", "unblock"} => Full
  /\ wr.pc \in {"give", "wait"} => Full \/ sem["writer"] \/ GiveOwed("writer")
  /\ wr.pc \in {"give", "wait"} /\ abort["writer"] =>
       sem["writer"] \/ ctl = "abort_write_give"

IInv == /\ TypeOK /\ LockOwner /\ LeftInLoop
        /\ PointersAgree /\ Fifo
        /\ ReaderWakes /\ WriterWakes
-----------------------------------------------------------------------------
\* rb_read never takes more than is stored or wanted, rb_write never stores more
\* than fits or is left.
LEMMA Amounts ==
  ASSUME TypeOK
  PROVE /\ ReadSize \in 0..fill_cnt /\ ReadSize <= rd.left
        /\ WriteSize \in 0..(Size - fill_cnt) /\ WriteSize <= wr.left
<1>1. /\ rd.left \in Nat /\ wr.left \in Nat
      /\ fill_cnt \in Nat /\ fill_cnt <= Size /\ Size \in Nat
  BY SizeAssumption DEF TypeOK, rd, wr, Sides
<1>2. fill_cnt - (fill_cnt % Word) \in 0..fill_cnt
  BY <1>1 DEF Word
<1>3. ReadSize \in 0..fill_cnt /\ ReadSize <= rd.left
  BY <1>1, <1>2 DEF ReadSize, rd
<1>4. WriteSize \in 0..(Size - fill_cnt) /\ WriteSize <= wr.left
  BY <1>1 DEF WriteSize, wr
<1> QED BY <1>3, <1>4

\* When a task finds nothing to do, the reader's ring holds less than a word and
\* less than it wants, and the writer's is full.
LEMMA NothingFound ==
  ASSUME TypeOK
  PROVE /\ rd.left > 0 /\ ReadSize = 0 => Starved
        /\ wr.left > 0 /\ WriteSize = 0 => Full
<1>1. /\ rd.left \in Nat /\ wr.left \in Nat
      /\ fill_cnt \in Nat /\ fill_cnt <= Size /\ Size \in Nat
  BY SizeAssumption DEF TypeOK, rd, wr, Sides
<1>2. fill_cnt - (fill_cnt % Word) = 0 => fill_cnt < Word
  BY <1>1 DEF Word
<1> QED BY <1>1, <1>2 DEF ReadSize, WriteSize, Starved, Full, rd, wr, Word

\* A position inside the storage stays inside it.
LEMMA CellInside ==
  ASSUME NEW p \in 0..Size, NEW i \in 0..Size-1
  PROVE Cell(p, i) \in 0..Size-1
BY SizeAssumption DEF Cell

LEMMA AdvanceInside ==
  ASSUME NEW p \in 0..Size, NEW n \in 0..Size
  PROVE Advance(p, n) \in 0..Size
BY SizeAssumption DEF Advance

\* Taking n bytes leaves a FIFO of the others.
LEMMA TakeKeepsFifo ==
  ASSUME TypeOK, PointersAgree, Fifo, NEW n \in 0..fill_cnt,
         p_r' = Advance(p_r, n), fill_cnt' = fill_cnt - n,
         UNCHANGED <<mem, p_w, put>>
  PROVE PointersAgree' /\ Fifo'
<1>1. /\ p_r \in Nat /\ p_r <= Size /\ p_w \in Nat /\ p_w <= Size
      /\ fill_cnt \in Nat /\ fill_cnt <= Size /\ Size \in Nat /\ Size > 0
      /\ n \in Nat /\ n <= fill_cnt /\ put \in Nat
  BY SizeAssumption DEF TypeOK, Word
<1>2. PointersAgree'
  BY <1>1 DEF PointersAgree, Advance
<1>3. ASSUME NEW i \in 0..(fill_cnt - n) - 1
      PROVE mem[Cell(Advance(p_r, n), i)] = put - (fill_cnt - n) + i
  <2>1. Cell(Advance(p_r, n), i) = Cell(p_r, n + i)
    BY <1>1 DEF Cell, Advance
  <2>2. n + i \in 0..fill_cnt-1
    BY <1>1
  <2>3. mem[Cell(p_r, n + i)] = put - fill_cnt + (n + i)
    BY <2>2 DEF Fifo
  <2> QED BY <1>1, <2>1, <2>3
<1>4. Fifo'
  BY <1>3 DEF Fifo
<1> QED BY <1>2, <1>4

\* Storing n bytes that fit appends them behind the others.
LEMMA StoreKeepsFifo ==
  ASSUME TypeOK, PointersAgree, Fifo, NEW n \in 0..(Size - fill_cnt),
         mem' = Stored(n), p_w' = Advance(p_w, n),
         fill_cnt' = fill_cnt + n, put' = put + n, UNCHANGED p_r
  PROVE PointersAgree' /\ Fifo'
<1>1. /\ p_r \in Nat /\ p_r <= Size /\ p_w \in Nat /\ p_w <= Size
      /\ fill_cnt \in Nat /\ fill_cnt <= Size /\ Size \in Nat /\ Size > 0
      /\ n \in Nat /\ n <= Size - fill_cnt /\ put \in Nat
  BY SizeAssumption DEF TypeOK, Word
<1>2. PointersAgree'
  BY <1>1 DEF PointersAgree, Advance
<1>3. ASSUME NEW i \in 0..(fill_cnt + n) - 1
      PROVE Stored(n)[Cell(p_r, i)] = (put + n) - (fill_cnt + n) + i
  <2> DEFINE c == Cell(p_r, i)
  <2>1. i \in 0..Size-1 /\ c \in 0..Size-1
    BY <1>1, CellInside
  <2>2. CASE i < fill_cnt
    <3>1. ~ \E j \in 0..n-1 : c = Cell(p_w, j)
      BY <1>1, <2>1, <2>2 DEF Cell, PointersAgree
    <3>2. Stored(n)[c] = mem[c]
      BY <2>1, <3>1 DEF Stored
    <3>3. mem[c] = put - fill_cnt + i
      BY <1>1, <2>1, <2>2 DEF Fifo
    <3> QED BY <1>1, <2>1, <3>2, <3>3
  <2>3. CASE i >= fill_cnt
    <3>1. i - fill_cnt \in 0..n-1
      BY <1>1, <2>1, <2>3
    <3>2. c = Cell(p_w, i - fill_cnt)
      BY <1>1, <2>1, <2>3 DEF Cell, PointersAgree
    <3>3. Stored(n)[c] = put + (IF c >= p_w THEN c - p_w ELSE c - p_w + Size)
      BY <2>1, <3>1, <3>2 DEF Stored
    <3>4. (IF c >= p_w THEN c - p_w ELSE c - p_w + Size) = i - fill_cnt
      BY <1>1, <2>1, <3>1, <3>2 DEF Cell
    <3> QED BY <1>1, <2>1, <3>3, <3>4
  <2> QED BY <1>1, <2>1, <2>2, <2>3
<1>4. Fifo'
  BY <1>3 DEF Fifo
<1> QED BY <1>2, <1>4
-----------------------------------------------------------------------------
\* After a copy the locals are still well typed.
Task == [pc : PCs, left : Nat, data : Seq(Nat), ret : Codes]

LEMMA MovedType ==
  ASSUME NEW s \in Sides, task \in [Sides -> Task],
         NEW n \in 0..task[s].left, NEW bytes \in Seq(Nat)
  PROVE Moved(s, n, bytes) \in [Sides -> Task]
<1>1. ASSUME NEW pc \in PCs, NEW l \in Nat, NEW d \in Seq(Nat)
      PROVE [task EXCEPT ![s].pc = pc, ![s].left = l, ![s].data = d]
              \in [Sides -> Task]
  BY DEF Task
<1>2. task[s].left \in Nat /\ task[s].data \in Seq(Nat)
  BY DEF Task
<1>3. task[s].left - n \in Nat
  BY <1>2
<1>4. task[s].data \o bytes \in Seq(Nat)
  BY <1>2
<1>5. (IF task[s].left = n THEN "exit" ELSE "lock") \in PCs
  BY DEF PCs
<1> QED BY <1>1, <1>3, <1>4, <1>5 DEF Moved

LEMMA GotoType ==
  ASSUME TypeOK, NEW s \in Sides, NEW from, NEW to \in PCs, Goto(s, from, to)
  PROVE task' \in [Sides -> Task]
BY DEF TypeOK, Goto, Task

LEMMA TestType ==
  ASSUME TypeOK, NEW s \in Sides, NEW pc, NEW flag \in BOOLEAN,
         NEW code \in Codes, NEW next \in PCs, Test(s, pc, flag, code, next)
  PROVE /\ task' \in [Sides -> Task]
        /\ lock' \in Sides \cup {"free"}
        /\ UNCHANGED <<ring, sem, flags, ctl>>
<1>1. PICK t \in PCs : t = IF flag THEN "exit" ELSE next
  BY DEF PCs
<1>2. PICK r \in Codes : r = IF flag THEN code ELSE task[s].ret
  BY DEF TypeOK, Task
<1>3. task' = [task EXCEPT ![s].pc = t, ![s].ret = r]
  BY <1>1, <1>2 DEF Test
<1>4. task' \in [Sides -> Task]
  BY <1>3 DEF TypeOK, Task
<1> QED BY <1>4 DEF Test, TypeOK

\* Type correctness of every step, with the fill level and both pointers in
\* range.
LEMMA TypeStep ==
  ASSUME TypeOK, [Next]_vars
  PROVE TypeOK'
<1> USE DEF TypeOK
<1>1. ASSUME NEW s \in Sides, NEW len \in Nat, Call(s, len)
      PROVE TypeOK'
  BY ZenonT(30), <1>1 DEF Call, ring, flags, Sides, PCs
<1>2. ASSUME NEW s \in Sides, TakeLock(s) PROVE TypeOK'
  <2>1. task' \in [Sides -> Task]
    BY <1>2, GotoType DEF TakeLock, PCs
  <2> QED BY <1>2, <2>1 DEF TakeLock, ring, flags, Task, Sides, Other
<1>3. ASSUME NEW s \in Sides, FindNothing(s) PROVE TypeOK'
  <2>1. task' \in [Sides -> Task]
    BY <1>3, GotoType DEF FindNothing, PCs
  <2> QED BY <1>3, <2>1 DEF FindNothing, ring, flags, Task, Sides, Other
<1>4. ASSUME NEW s \in Sides, TestDone(s) PROVE TypeOK'
  <2>1. /\ task' \in [Sides -> Task] /\ lock' \in Sides \cup {"free"}
        /\ UNCHANGED <<ring, sem, flags, ctl>>
    BY <1>4, TestType DEF TestDone, PCs, Codes, Sides
  <2> QED BY <2>1 DEF ring, flags, Task
<1>5. ASSUME NEW s \in Sides, TestAbort(s) PROVE TypeOK'
  <2>1. /\ task' \in [Sides -> Task] /\ lock' \in Sides \cup {"free"}
        /\ UNCHANGED <<ring, sem, flags, ctl>>
    BY <1>5, TestType DEF TestAbort, PCs, Codes, Sides
  <2> QED BY <2>1 DEF ring, flags, Task
<1>6. ASSUME TestUnblock PROVE TypeOK'
  <2>1. /\ task' \in [Sides -> Task] /\ lock' \in Sides \cup {"free"}
        /\ UNCHANGED <<ring, sem, flags, ctl>>
    BY <1>6, TestType DEF TestUnblock, PCs, Codes, Sides
  <2> QED BY <2>1 DEF ring, flags, Task
<1>7. ASSUME NEW s \in Sides, Give(s) PROVE TypeOK'
  <2>1. task' \in [Sides -> Task]
    BY <1>7, GotoType DEF Give, PCs
  <2> QED BY <1>7, <2>1 DEF Give, ring, flags, Task, Sides, Other
<1>8. ASSUME NEW s \in Sides, Wake(s) PROVE TypeOK'
  <2>1. task' \in [Sides -> Task]
    BY <1>8, GotoType DEF Wake, PCs
  <2> QED BY <1>8, <2>1 DEF Wake, ring, flags, Task, Sides, Other
<1>9. ASSUME NEW s \in Sides, Timeout(s) PROVE TypeOK'
  <2>1. "exit" \in PCs /\ RB_TIMEOUT \in Codes
    BY DEF PCs, Codes
  <2>2. task' \in [Sides -> Task]
    BY ZenonT(30), <1>9, <2>1 DEF Timeout, Task
  <2> QED BY <1>9, <2>2 DEF Timeout, ring, flags, Task
<1>10. ASSUME NEW s \in Sides, Exit(s) PROVE TypeOK'
  <2>1. task' \in [Sides -> Task]
    BY <1>10, GotoType DEF Exit, PCs
  <2> QED BY <1>10, <2>1 DEF Exit, ring, flags, Task, Sides, Other
<1>11. ASSUME NEW s \in Sides, Return(s) PROVE TypeOK'
  BY <1>11 DEF Return, Idle, ring, flags, Sides, Other, PCs, Codes
<1>12. ASSUME ReadTransfer PROVE TypeOK'
  <2> DEFINE n == ReadSize
             bytes == [i \in 1..n |-> mem[Cell(p_r, i - 1)]]
  <2>1. n \in 0..fill_cnt /\ n <= rd.left
    BY Amounts
  <2>2. bytes \in Seq(Nat)
    <3>1. ASSUME NEW i \in 1..n PROVE mem[Cell(p_r, i - 1)] \in Nat
      <4>1. i - 1 \in 0..Size-1
        BY <2>1, SizeAssumption
      <4> QED BY <4>1, CellInside
    <3> QED BY <2>1, <3>1
  <2>4. task' \in [Sides -> Task]
    <3>1. n \in 0..task["reader"].left
      BY <2>1, SizeAssumption DEF rd, Sides
    <3>2. task' = Moved("reader", n, bytes)
      BY <1>12 DEF ReadTransfer
    <3>3. task \in [Sides -> Task] /\ "reader" \in Sides
      BY DEF Task, Sides
    <3> HIDE DEF n, bytes
    <3> QED BY <2>2, <3>1, <3>2, <3>3, MovedType
  <2>5. p_r' \in 0..Size /\ fill_cnt' \in 0..Size
    BY <1>12, <2>1, AdvanceInside, SizeAssumption DEF ReadTransfer
  <2> QED BY <1>12, <2>4, <2>5 DEF ReadTransfer, flags, Task
<1>13. ASSUME WriteTransfer PROVE TypeOK'
  <2> DEFINE n == WriteSize
             bytes == [i \in 1..n |-> put + i - 1]
  <2>1. n \in 0..(Size - fill_cnt) /\ n <= wr.left
    BY Amounts
  <2>2. bytes \in Seq(Nat)
    <3>1. \A i \in 1..n : put + i - 1 \in Nat
      BY <2>1, SizeAssumption
    <3> QED BY <2>1, <3>1, SizeAssumption
  <2>4. task' \in [Sides -> Task]
    <3>1. n \in 0..task["writer"].left
      BY <2>1, SizeAssumption DEF wr, Sides
    <3>2. task' = Moved("writer", n, bytes)
      BY <1>13 DEF WriteTransfer
    <3>3. task \in [Sides -> Task] /\ "writer" \in Sides
      BY DEF Task, Sides
    <3> HIDE DEF n, bytes
    <3> QED BY <2>2, <3>1, <3>2, <3>3, MovedType
  <2>5. p_w' \in 0..Size
    BY <1>13, <2>1, AdvanceInside, SizeAssumption DEF WriteTransfer
  <2>7. fill_cnt' \in 0..Size /\ put' \in Nat
    BY <1>13, <2>1, SizeAssumption DEF WriteTransfer
  <2>6. Stored(n) \in [0..Size-1 -> Nat]
    BY SizeAssumption DEF Stored
  <2> QED BY <1>13, <2>4, <2>5, <2>6, <2>7 DEF WriteTransfer, flags, Task
<1>14. ASSUME DoneWrite PROVE TypeOK'
  BY <1>14 DEF DoneWrite, Goto, ring, Sides, PCs
<1>20. ASSUME DoneWriteGive PROVE TypeOK'
  BY <1>20 DEF DoneWriteGive, Goto, ring, flags, Sides, PCs
<1>15. ASSUME AbortRead \/ AbortWrite PROVE TypeOK'
  BY <1>15 DEF AbortRead, AbortWrite, SetAbort, ring, flags, Sides, Controls
<1>16. ASSUME AbortReadGive \/ AbortWriteGive \/ UnblockReaderGive PROVE TypeOK'
  BY <1>16 DEF AbortReadGive, AbortWriteGive, UnblockReaderGive, GiveTo,
               ring, flags, Sides, Controls
<1>17. ASSUME UnblockReader PROVE TypeOK'
  BY <1>17 DEF UnblockReader, ring, Controls
<1>18. ASSUME Reset PROVE TypeOK'
  <2>1. p_r' \in 0..Size /\ p_w' \in 0..Size /\ fill_cnt' \in 0..Size
    BY <1>18, SizeAssumption DEF Reset
  <2>2. /\ abort' \in [Sides -> BOOLEAN]
        /\ is_done_write' \in BOOLEAN /\ unblock_reader' \in BOOLEAN
    BY <1>18 DEF Reset
  <2> QED BY <1>18, <2>1, <2>2 DEF Reset
<1>21. ASSUME ResetIsDoneWrite PROVE TypeOK'
  BY <1>21 DEF ResetIsDoneWrite, ring
<1>19. CASE UNCHANGED vars
  BY <1>19 DEF vars, ring, flags
<1> QED
  BY <1>1, <1>2, <1>3, <1>4, <1>5, <1>6, <1>7, <1>8, <1>9, <1>10, <1>11, <1>12,
     <1>13, <1>14, <1>15, <1>16, <1>17, <1>18, <1>19, <1>20, <1>21, LensAssumption
     DEF Next, ReadStep, WriteStep, ControlStep, Step, Sides
-----------------------------------------------------------------------------
\* Only a copy or a reset touches the stored bytes, and both keep their order.
LEMMA FifoStep ==
  ASSUME TypeOK, PointersAgree, Fifo, [Next]_vars
  PROVE PointersAgree' /\ Fifo'
<1>1. CASE ReadTransfer
  <2>1. ReadSize \in 0..fill_cnt
    BY Amounts
  <2> QED BY <1>1, <2>1, TakeKeepsFifo DEF ReadTransfer
<1>2. CASE WriteTransfer
  <2>1. WriteSize \in 0..(Size - fill_cnt)
    BY Amounts
  <2> QED BY <1>2, <2>1, StoreKeepsFifo DEF WriteTransfer
<1>3. CASE Reset
  BY <1>3, SizeAssumption DEF Reset, PointersAgree, Fifo
<1>4. CASE UNCHANGED ring
  BY <1>4 DEF ring, PointersAgree, Fifo
<1>5. ReadTransfer \/ WriteTransfer \/ Reset \/ UNCHANGED ring
  BY DEF Next, ReadStep, WriteStep, ControlStep, Step, Call, TakeLock,
         FindNothing, TestDone, TestAbort, TestUnblock, Test, Give, Wake,
         Timeout, Exit, Return, DoneWrite, DoneWriteGive, AbortRead,
         AbortReadGive, AbortWrite, AbortWriteGive, SetAbort, GiveTo,
         UnblockReader, UnblockReaderGive, ResetIsDoneWrite, vars
<1> QED BY <1>1, <1>2, <1>3, <1>4, <1>5
-----------------------------------------------------------------------------
\* Copying at least one byte leaves the call with something moved.
LEMMA AppendNonEmpty ==
  ASSUME NEW S, NEW d \in Seq(Nat), NEW n \in Nat \ {0},
         NEW f \in [1..n -> S]
  PROVE d \o f # <<>>
<1>1. f \in Seq(S) /\ Len(f) = n
  OBVIOUS
<1>2. Len(d) \in Nat /\ Len(d \o f) = Len(d) + n
  BY <1>1
<1> QED BY <1>2

Wakes == LockOwner /\ LeftInLoop /\ ReaderWakes /\ WriterWakes

\* Every step keeps the bookkeeping of who may be asleep.
LEMMA WakeStep ==
  ASSUME TypeOK, Wakes, [Next]_vars
  PROVE Wakes'
<1> USE DEF Wakes, LockOwner, LeftInLoop, ReaderWakes, WriterWakes, Starved,
            Full, GiveOwed, Other, Sides, Critical, Looping, rd, wr, Word
<1>1. ASSUME NEW s \in Sides, NEW len \in Nat \ {0}, Call(s, len) PROVE Wakes'
  <2>1. /\ task'[s].pc = "lock" /\ task'[s].left = len
        /\ task'[Other(s)] = task[Other(s)] /\ task[s].pc = "idle"
        /\ task'[s].data = task[s].data
    BY <1>1 DEF Call, TypeOK
  <2>2. UNCHANGED <<fill_cnt, sem, lock, abort, is_done_write, unblock_reader, ctl>>
    BY <1>1 DEF Call, ring, flags
  <2>3. CASE s = "reader"
    BY <2>1, <2>2, <2>3
  <2>4. CASE s = "writer"
    BY <2>1, <2>2, <2>4
  <2> QED BY <2>3, <2>4
<1>2. ASSUME NEW s \in Sides, TakeLock(s) PROVE Wakes'
  BY <1>2 DEF TakeLock, Goto, ring, flags, TypeOK
<1>3. ASSUME NEW s \in Sides, FindNothing(s) PROVE Wakes'
  <2>1. task[s].left > 0
    BY <1>3 DEF FindNothing, Goto
  <2>2. IF s = "reader" THEN Starved ELSE Full
    BY <1>3, <2>1, NothingFound DEF FindNothing, Amount
  <2>3. CASE s = "reader"
    BY <1>3, <2>2, <2>3 DEF FindNothing, Goto, ring, flags, TypeOK
  <2>4. CASE s = "writer"
    BY <1>3, <2>2, <2>4 DEF FindNothing, Goto, ring, flags, TypeOK
  <2> QED BY <2>3, <2>4
<1>4. ASSUME NEW s \in Sides, TestDone(s) PROVE Wakes'
  <2>1. /\ task[s].pc = "done"
        /\ task'[s].pc = IF is_done_write THEN "exit" ELSE "abort"
        /\ task'[s].left = task[s].left /\ task'[s].data = task[s].data
        /\ task'[Other(s)] = task[Other(s)]
    BY <1>4 DEF TestDone, Test, TypeOK
  <2>2. lock' = IF is_done_write \/ "abort" = "give" THEN "free" ELSE lock
    BY <1>4 DEF TestDone, Test
  <2>3. UNCHANGED <<fill_cnt, sem, abort, is_done_write, unblock_reader, ctl>>
    BY <1>4 DEF TestDone, Test, ring, flags
  <2>4. CASE s = "reader"
    BY <2>1, <2>2, <2>3, <2>4
  <2>5. CASE s = "writer"
    BY <2>1, <2>2, <2>3, <2>5
  <2> QED BY <2>4, <2>5
<1>5. ASSUME NEW s \in Sides, TestAbort(s) PROVE Wakes'
  <2>1. /\ task[s].pc = "abort"
        /\ task'[s].pc = IF abort[s] THEN "exit" ELSE (IF s = "reader" THEN "unblock" ELSE "give")
        /\ task'[s].left = task[s].left /\ task'[s].data = task[s].data
        /\ task'[Other(s)] = task[Other(s)]
    BY <1>5 DEF TestAbort, Test, TypeOK
  <2>2. lock' = IF abort[s] \/ (IF s = "reader" THEN "unblock" ELSE "give") = "give" THEN "free" ELSE lock
    BY <1>5 DEF TestAbort, Test
  <2>3. UNCHANGED <<fill_cnt, sem, abort, is_done_write, unblock_reader, ctl>>
    BY <1>5 DEF TestAbort, Test, ring, flags
  <2>4. CASE s = "reader"
    BY <2>1, <2>2, <2>3, <2>4
  <2>5. CASE s = "writer"
    BY <2>1, <2>2, <2>3, <2>5
  <2> QED BY <2>4, <2>5
<1>6. ASSUME TestUnblock PROVE Wakes'
  BY ZenonT(30), <1>6 DEF TestUnblock, Test, ring, flags, TypeOK
<1>7. ASSUME NEW s \in Sides, Give(s) PROVE Wakes'
  BY SMTT(30), <1>7 DEF Give, Goto, ring, flags, TypeOK
<1>8. ASSUME NEW s \in Sides, Wake(s) PROVE Wakes'
  BY <1>8 DEF Wake, Goto, ring, flags, TypeOK
<1>9. ASSUME NEW s \in Sides, Timeout(s) PROVE Wakes'
  <2>1. /\ task[s].pc = "wait" /\ task'[s].pc = "exit"
        /\ task'[s].left = task[s].left /\ task'[s].data = task[s].data
        /\ task'[Other(s)] = task[Other(s)]
    BY <1>9 DEF Timeout, TypeOK
  <2>2. UNCHANGED <<fill_cnt, sem, lock, abort, is_done_write, unblock_reader, ctl>>
    BY <1>9 DEF Timeout, ring, flags
  <2>3. CASE s = "reader"
    BY <2>1, <2>2, <2>3
  <2>4. CASE s = "writer"
    BY <2>1, <2>2, <2>4
  <2> QED BY <2>3, <2>4
<1>10. ASSUME NEW s \in Sides, Exit(s) PROVE Wakes'
  <2>1. /\ task[s].pc = "exit" /\ task'[s].pc = "return"
        /\ task'[s].left = task[s].left /\ task'[s].data = task[s].data
        /\ task'[Other(s)] = task[Other(s)]
        /\ sem'[Other(s)] = (sem[Other(s)] \/ task[s].data # <<>>)
        /\ sem'[s] = sem[s]
    BY <1>10 DEF Exit, Goto, TypeOK
  <2>2. UNCHANGED <<fill_cnt, lock, abort, is_done_write, unblock_reader, ctl>>
    BY <1>10 DEF Exit, ring, flags
  <2>3. CASE s = "reader"
    BY <2>1, <2>2, <2>3
  <2>4. CASE s = "writer"
    BY <2>1, <2>2, <2>4
  <2> QED BY <2>3, <2>4
<1>11. ASSUME NEW s \in Sides, Return(s) PROVE Wakes'
  BY <1>11 DEF Return, Idle, ring, flags, TypeOK
<1>12. ASSUME ReadTransfer PROVE Wakes'
  <2> DEFINE n == ReadSize
             bytes == [i \in 1..n |-> mem[Cell(p_r, i - 1)]]
  <2>1. n \in 1..Size /\ n <= task["reader"].left /\ task["reader"].left \in Nat
    <3>1. task["reader"].left \in Nat /\ fill_cnt \in 0..Size
      BY DEF TypeOK
    <3>2. n > 0
      BY <1>12 DEF ReadTransfer
    <3> HIDE DEF n
    <3> QED BY <3>1, <3>2, Amounts, SizeAssumption DEF n
  <2>2. task["reader"].data \o bytes # <<>>
    <3>1. bytes \in [1..n -> {bytes[i] : i \in 1..n}]
      OBVIOUS
    <3>2. task["reader"].data \in Seq(Nat)
      BY DEF TypeOK
    <3>3. n \in Nat \ {0}
      BY <2>1, SizeAssumption
    <3> HIDE DEF n, bytes
    <3> QED BY <3>1, <3>2, <3>3, AppendNonEmpty
  <2>3. /\ task'["reader"].pc = IF task["reader"].left = n THEN "exit" ELSE "lock"
        /\ task'["reader"].left = task["reader"].left - n
        /\ task'["reader"].data = task["reader"].data \o bytes
        /\ task'["writer"] = task["writer"]
    BY <1>12 DEF ReadTransfer, Moved, TypeOK
  <2>4. task["reader"].pc = "size" /\ lock = "reader" /\ lock' = "free"
    BY <1>12 DEF ReadTransfer
  <2>5. UNCHANGED <<sem, abort, is_done_write, unblock_reader, ctl>>
    BY <1>12 DEF ReadTransfer, flags
  <2> HIDE DEF n, bytes
  <2> QED BY <2>1, <2>2, <2>3, <2>4, <2>5, SizeAssumption
<1>13. ASSUME WriteTransfer PROVE Wakes'
  <2> DEFINE n == WriteSize
             bytes == [i \in 1..n |-> put + i - 1]
  <2>1. n \in 1..Size /\ n <= task["writer"].left /\ task["writer"].left \in Nat
    <3>1. task["writer"].left \in Nat /\ fill_cnt \in 0..Size
      BY DEF TypeOK
    <3>2. n > 0
      BY <1>13 DEF WriteTransfer
    <3> HIDE DEF n
    <3> QED BY <3>1, <3>2, Amounts, SizeAssumption DEF n
  <2>2. task["writer"].data \o bytes # <<>>
    <3>1. bytes \in [1..n -> {bytes[i] : i \in 1..n}]
      OBVIOUS
    <3>2. task["writer"].data \in Seq(Nat)
      BY DEF TypeOK
    <3>3. n \in Nat \ {0}
      BY <2>1, SizeAssumption
    <3> HIDE DEF n, bytes
    <3> QED BY <3>1, <3>2, <3>3, AppendNonEmpty
  <2>3. /\ task'["writer"].pc = IF task["writer"].left = n THEN "exit" ELSE "lock"
        /\ task'["writer"].left = task["writer"].left - n
        /\ task'["writer"].data = task["writer"].data \o bytes
        /\ task'["reader"] = task["reader"]
    BY <1>13 DEF WriteTransfer, Moved, TypeOK
  <2>4. task["writer"].pc = "size" /\ lock = "writer" /\ lock' = "free"
    BY <1>13 DEF WriteTransfer
  <2>5. UNCHANGED <<sem, abort, is_done_write, unblock_reader, ctl>>
    BY <1>13 DEF WriteTransfer, flags
  <2> HIDE DEF n, bytes
  <2> QED BY <2>1, <2>2, <2>3, <2>4, <2>5, SizeAssumption
<1>14. ASSUME DoneWrite PROVE Wakes'
  BY <1>14 DEF DoneWrite, Goto, ring, flags, TypeOK
<1>15. ASSUME DoneWriteGive PROVE Wakes'
  BY <1>15 DEF DoneWriteGive, Goto, ring, flags, TypeOK
<1>16. ASSUME AbortRead PROVE Wakes'
  BY <1>16 DEF AbortRead, SetAbort, ring, flags, TypeOK
<1>17. ASSUME AbortWrite PROVE Wakes'
  BY <1>17 DEF AbortWrite, SetAbort, ring, flags, TypeOK
<1>18. ASSUME AbortReadGive PROVE Wakes'
  BY <1>18 DEF AbortReadGive, GiveTo, ring, flags, TypeOK
<1>19. ASSUME AbortWriteGive PROVE Wakes'
  BY <1>19 DEF AbortWriteGive, GiveTo, ring, flags, TypeOK
<1>20. ASSUME UnblockReaderGive PROVE Wakes'
  BY <1>20 DEF UnblockReaderGive, GiveTo, ring, flags, TypeOK
<1>21. ASSUME UnblockReader PROVE Wakes'
  BY <1>21 DEF UnblockReader, ring, flags, TypeOK
<1>22. ASSUME Reset PROVE Wakes'
  BY <1>22 DEF Reset, Quiet, ring, flags, TypeOK
<1>23. ASSUME ResetIsDoneWrite PROVE Wakes'
  BY <1>23 DEF ResetIsDoneWrite, Quiet, ring, flags, TypeOK
<1>24. ASSUME UNCHANGED vars PROVE Wakes'
  BY <1>24 DEF vars, ring, flags, TypeOK
<1> QED
  BY <1>1, <1>2, <1>3, <1>4, <1>5, <1>6, <1>7, <1>8, <1>9, <1>10, <1>11, <1>12, <1>13, <1>14, <1>15, <1>16, <1>17, <1>18, <1>19, <1>20, <1>21, <1>22, <1>23, <1>24, LensAssumption
     DEF Next, ReadStep, WriteStep, ControlStep, Step
-----------------------------------------------------------------------------
LEMMA InitIInv == Init => IInv
<1> SUFFICES ASSUME Init PROVE IInv
  OBVIOUS
<1>1. TypeOK
  <2>1. Idle \in Task
    BY DEF Idle, Task, PCs, Codes
  <2>2. task \in [Sides -> Task]
    BY <2>1 DEF Init
  <2>3. mem \in [0..Size-1 -> Nat]
    BY DEF Init
  <2>4. /\ sem \in [Sides -> BOOLEAN] /\ abort \in [Sides -> BOOLEAN]
        /\ is_done_write \in BOOLEAN /\ unblock_reader \in BOOLEAN
    BY DEF Init
  <2>5. /\ p_r \in 0..Size /\ p_w \in 0..Size /\ fill_cnt \in 0..Size /\ put \in Nat
        /\ lock \in Sides \cup {"free"} /\ ctl \in Controls
    BY SizeAssumption DEF Init, Controls
  <2> QED BY <2>2, <2>3, <2>4, <2>5 DEF TypeOK, Task
<1>2. PointersAgree /\ Fifo
  BY DEF Init, PointersAgree, Fifo
<1>3. \A s \in Sides : task[s].pc = "idle" /\ lock # s
  BY DEF Init, Idle, Sides
<1>4. LockOwner /\ LeftInLoop
  BY <1>3 DEF LockOwner, LeftInLoop, Critical, Looping
<1>5. ReaderWakes /\ WriterWakes
  BY <1>3 DEF ReaderWakes, WriterWakes, rd, wr, Sides
<1> QED BY <1>1, <1>2, <1>4, <1>5 DEF IInv

LEMMA StepIInv == IInv /\ [Next]_vars => IInv'
<1> SUFFICES ASSUME IInv, [Next]_vars PROVE IInv'
  OBVIOUS
<1>1. TypeOK'
  BY TypeStep DEF IInv
<1>2. PointersAgree' /\ Fifo'
  BY FifoStep DEF IInv
<1>3. Wakes'
  BY WakeStep DEF IInv, Wakes
<1> QED BY <1>1, <1>2, <1>3 DEF IInv, Wakes

LEMMA AlwaysIInv == Spec => []IInv
BY InitIInv, StepIInv, PTL DEF Spec

\* Every variable of the ring buffer stays in its range: the counter that both
\* tasks update never leaves 0..size.
THEOREM TypeCorrect == Spec => []TypeOK
<1>1. IInv => TypeOK
  BY DEF IInv
<1> QED BY <1>1, AlwaysIInv, PTL

\* Counter and pointers agree, and the stored bytes are in the order written,
\* through every wrap, timeout, abort and reset.
THEOREM FifoCorrect == Spec => [](PointersAgree /\ Fifo)
<1>1. IInv => PointersAgree /\ Fifo
  BY DEF IInv
<1> QED BY <1>1, AlwaysIInv, PTL

\* No wakeup of rb_read is lost on can_read.
THEOREM ReaderNeverForgotten == Spec => []ReaderNotForgotten
<1>1. IInv => ReaderNotForgotten
  BY DEF IInv, ReaderWakes, ReaderNotForgotten, Asleep, GiveOwed, Starved, rd, wr,
         Other
<1> QED BY <1>1, AlwaysIInv, PTL

\* No wakeup of rb_write is lost on can_write.
THEOREM WriterNeverForgotten == Spec => []WriterNotForgotten
<1>1. IInv => WriterNotForgotten
  BY DEF IInv, WriterWakes, WriterNotForgotten, Asleep, GiveOwed, Full, rd, wr,
         Other
<1> QED BY <1>1, AlwaysIInv, PTL

\* The reader and the writer are never asleep on each other: a full ring holds
\* at least a word, and a ring with less than a word has room.
THEOREM NeverBothAsleep == Spec => []NoMutualSleep
<1>1. ReaderNotForgotten /\ WriterNotForgotten => NoMutualSleep
  BY SizeAssumption DEF ReaderNotForgotten, WriterNotForgotten, NoMutualSleep, Word
<1> QED BY <1>1, ReaderNeverForgotten, WriterNeverForgotten, PTL

\* rb_read reports RB_DONE with less than a word left in the ring.
THEOREM DoneLeavesLittle == Spec => DoneLeavesPartialWord
<1>1. ASSUME IInv, [Next]_vars, rd'.ret = RB_DONE, rd.ret # RB_DONE
      PROVE fill_cnt < Word
  <2> SUFFICES ASSUME ~(fill_cnt < Word) PROVE FALSE
    OBVIOUS
  <2>1. rd.pc # "done"
    BY <1>1 DEF IInv, ReaderWakes, Starved
  <2>2. TypeOK
    BY <1>1 DEF IInv
  <2> DEFINE Same == rd'.ret = rd.ret
  <2>3. ASSUME NEW s \in Sides, NEW len \in Nat, Call(s, len) PROVE Same
    BY <2>2, <2>3 DEF Call, TypeOK, Sides, rd
  <2>4. ASSUME NEW s \in Sides, NEW from, NEW to, Goto(s, from, to) PROVE Same
    BY <2>2, <2>4 DEF Goto, TypeOK, Sides, rd
  <2>5. ASSUME NEW s \in Sides, TestDone(s) PROVE Same \/ rd.pc = "done"
    BY <2>2, <2>5 DEF TestDone, Test, TypeOK, Sides, rd
  <2>6. ASSUME NEW s \in Sides, TestAbort(s) PROVE Same \/ rd'.ret = RB_ABORT
    BY <2>2, <2>6 DEF TestAbort, Test, TypeOK, Sides, rd
  <2>7. ASSUME TestUnblock PROVE Same \/ rd'.ret = RB_TIMEOUT
    BY <2>2, <2>7 DEF TestUnblock, Test, TypeOK, Sides, rd
  <2>8. ASSUME NEW s \in Sides, Timeout(s) PROVE Same \/ rd'.ret = RB_TIMEOUT
    BY <2>2, <2>8 DEF Timeout, TypeOK, Sides, rd
  <2>9. ASSUME NEW s \in Sides, Return(s) PROVE Same \/ rd'.ret = 0
    BY <2>2, <2>9 DEF Return, Idle, TypeOK, Sides, rd
  <2>10. ASSUME NEW s \in Sides, NEW n, NEW bytes, task' = Moved(s, n, bytes) PROVE Same
    BY <2>2, <2>10 DEF Moved, TypeOK, Sides, rd
  <2>11. ASSUME UNCHANGED task PROVE Same
    BY <2>11 DEF rd
  <2> HIDE DEF Same
  <2>12. Same \/ rd.pc = "done" \/ rd'.ret \in {RB_ABORT, RB_TIMEOUT, 0}
    BY <1>1, <2>3, <2>4, <2>5, <2>6, <2>7, <2>8, <2>9, <2>10, <2>11, LensAssumption
       DEF Next, ReadStep, WriteStep, ControlStep, Step, TakeLock,
         FindNothing, Give, Wake, Exit, DoneWrite, DoneWriteGive, AbortRead,
         AbortReadGive, AbortWrite, AbortWriteGive, SetAbort, GiveTo,
         UnblockReader, UnblockReaderGive, Reset, ResetIsDoneWrite, vars,
         ReadTransfer, WriteTransfer, Sides
  <2> QED BY <1>1, <2>1, <2>12 DEF Same, RB_DONE, RB_ABORT, RB_TIMEOUT
<1>2. IInv /\ [Next]_vars => [rd'.ret = RB_DONE /\ rd.ret # RB_DONE => fill_cnt < Word]_vars
  BY <1>1
<1> QED BY <1>2, AlwaysIInv, PTL DEF Spec, DoneLeavesPartialWord
-----------------------------------------------------------------------------
(***************************************************************************)
(* The ring buffer implements the bounded FIFO queue of ByteQueue.  By     *)
(* Fifo the abstract queue is a run of consecutive byte numbers, so the    *)
(* copies split and join runs.                                             *)
(***************************************************************************)
Run(a, n) == [i \in 1..n |-> a + i - 1]

LEMMA RunJoin ==
  ASSUME NEW a \in Int, NEW m \in Nat, NEW n \in Nat
  PROVE Run(a, m) \o Run(a + m, n) = Run(a, m + n)
<1>1. Run(a, m) \in Seq(Int) /\ Len(Run(a, m)) = m
  BY DEF Run
<1>2. Run(a + m, n) \in Seq(Int) /\ Len(Run(a + m, n)) = n
  BY DEF Run
<1>3. Run(a, m + n) \in Seq(Int) /\ Len(Run(a, m + n)) = m + n
  BY DEF Run
<1> DEFINE c == Run(a, m) \o Run(a + m, n)
<1>4. c \in Seq(Int) /\ Len(c) = m + n
  BY <1>1, <1>2, ConcatProperties
<1>5. ASSUME NEW i \in 1..(m + n) PROVE c[i] = Run(a, m + n)[i]
  <2>1. CASE i <= m
    <3>1. c[i] = Run(a, m)[i]
      BY <1>1, <1>2, <2>1, ConcatProperties
    <3> QED BY <2>1, <3>1 DEF Run
  <2>2. CASE i > m
    <3>1. c[i] = Run(a + m, n)[i - m]
      BY <1>1, <1>2, <2>2, ConcatProperties
    <3> QED BY <2>2, <3>1 DEF Run
  <2>3. i <= m \/ i > m
    OBVIOUS
  <2> QED BY <2>1, <2>2, <2>3
<1>6. c = Run(a, m + n)
  <2> HIDE DEF c
  <2> QED BY <1>3, <1>4, <1>5, SeqEqual
<1> QED BY <1>6

LEMMA RunPart ==
  ASSUME NEW a \in Int, NEW m \in Nat, NEW n \in 0..m
  PROVE SubSeq(Run(a, m), n + 1, m) = Run(a + n, m - n)
BY DEF Run


LEMMA UnreadIsRun ==
  TypeOK /\ Fifo => Unread = Run(put - fill_cnt, fill_cnt)
<1> SUFFICES ASSUME TypeOK, Fifo
             PROVE Unread = Run(put - fill_cnt, fill_cnt)
  OBVIOUS
<1> DEFINE a == put - fill_cnt
<1>1. /\ fill_cnt \in 0..Size /\ p_r \in 0..Size /\ a \in Int
      /\ \A i \in 0..fill_cnt-1 : mem[Cell(p_r, i)] = a + i
  BY SizeAssumption DEF TypeOK, Fifo
<1> HIDE DEF a
<1>2. Unread = Run(a, fill_cnt)
  BY <1>1, SizeAssumption DEF Unread, Run
<1> QED BY <1>2 DEF a

LEMMA UnreadIsRunNext ==
  (TypeOK /\ Fifo)' => Unread' = Run(put' - fill_cnt', fill_cnt')
<1>1. (TypeOK /\ Fifo => Unread = Run(put - fill_cnt, fill_cnt))'
  BY UnreadIsRun, PTL
<1> QED BY <1>1 DEF Run

\* One step of the ring buffer is one step of the queue, or none.
LEMMA QueueStep ==
  ASSUME IInv, [Next]_vars
  PROVE [Queue!Next]_Queue!vars
<1>1. /\ TypeOK /\ Fifo /\ PointersAgree
      /\ TypeOK' /\ Fifo'
  BY TypeStep, FifoStep DEF IInv
<1>2. /\ fill_cnt \in 0..Size /\ put \in Nat /\ Size \in Nat
      /\ fill_cnt' \in 0..Size /\ put' \in Nat
      /\ p_r \in 0..Size
  BY <1>1, SizeAssumption DEF TypeOK
<1>3. Unread = Run(put - fill_cnt, fill_cnt)
  BY <1>1, UnreadIsRun
<1>4. Unread' = Run(put' - fill_cnt', fill_cnt')
  BY <1>1, UnreadIsRunNext
<1>5. Unread \in Seq(Int) /\ Len(Unread) = fill_cnt
  BY <1>2, <1>3 DEF Run
<1>6. CASE WriteTransfer
  <2> WriteSize \in 1..Size
    BY <1>1, <1>2, <1>6, Amounts DEF WriteTransfer
  <2>1. PICK n \in 1..Size : n = WriteSize
    OBVIOUS
  <2>2. n <= Size - fill_cnt
    BY <1>1, <2>1, Amounts, SizeAssumption
  <2>3. fill_cnt' = fill_cnt + n /\ put' = put + n
    BY <1>6, <2>1 DEF WriteTransfer
  <2>4. rd'.data = rd.data
    BY <1>1, <1>6 DEF WriteTransfer, Moved, rd, TypeOK, Sides
  <2>5. Unread' = Unread \o Run(put, n)
    <3> n \in Nat /\ fill_cnt \in Nat
      BY <1>2, <2>1
    <3>1. PICK a \in Int : a = put - fill_cnt
      BY <1>2
    <3>2. Run(a, fill_cnt) \o Run(a + fill_cnt, n) = Run(a, fill_cnt + n)
      BY RunJoin
    <3>3. a + fill_cnt = put /\ put' - fill_cnt' = a
      BY <1>2, <2>1, <2>3, <3>1
    <3> QED BY <1>3, <1>4, <2>3, <3>1, <3>2, <3>3
  <2>6. Run(put, n) = Queue!Fresh(n)
    BY DEF Run, Queue!Fresh
  <2>7. fill_cnt + n <= Size
    BY <1>2, <2>1, <2>2
  <2>8. Queue!Put(n)
    BY <1>5, <2>3, <2>4, <2>5, <2>6, <2>7 DEF Queue!Put
  <2> QED BY <2>1, <2>8 DEF Queue!Next
<1>7. CASE ReadTransfer
  <2> ReadSize \in 1..Size
    BY <1>1, <1>2, <1>7, Amounts DEF ReadTransfer
  <2>1. PICK n \in 1..Size : n = ReadSize
    OBVIOUS
  <2>2. n <= fill_cnt
    BY <1>1, <2>1, Amounts, SizeAssumption
  <2>3. fill_cnt' = fill_cnt - n /\ put' = put
    BY <1>7, <2>1 DEF ReadTransfer
  <2>4. rd'.data = rd.data \o [i \in 1..n |-> mem[Cell(p_r, i - 1)]]
    BY <1>1, <1>7, <2>1 DEF ReadTransfer, Moved, rd, TypeOK, Sides
  <2>5. [i \in 1..n |-> mem[Cell(p_r, i - 1)]] = SubSeq(Unread, 1, n)
    BY <1>2, <2>1, <2>2 DEF Unread
  <2>6. Unread' = SubSeq(Unread, n + 1, fill_cnt)
    <3> n \in 0..fill_cnt /\ fill_cnt \in Nat
      BY <1>2, <2>1, <2>2
    <3>1. PICK a \in Int : a = put - fill_cnt
      BY <1>2
    <3>2. SubSeq(Run(a, fill_cnt), n + 1, fill_cnt) = Run(a + n, fill_cnt - n)
      BY RunPart
    <3>3. put' - fill_cnt' = a + n
      BY <1>2, <2>1, <2>3, <3>1
    <3> QED BY <1>3, <1>4, <2>3, <3>1, <3>2, <3>3
  <2>7. Queue!Get(n)
    BY <1>5, <2>2, <2>3, <2>4, <2>5, <2>6 DEF Queue!Get
  <2> QED BY <2>1, <2>7 DEF Queue!Next
<1>8. CASE Reset
  <2>1. Unread' = <<>> /\ put' = put /\ rd'.data = rd.data
    BY <1>8 DEF Reset, Unread, rd
  <2> QED BY <2>1 DEF Queue!Next, Queue!Flush
<1>9. CASE Return("reader")
  <2>1. UNCHANGED <<Unread, put>> /\ rd'.data = <<>>
    BY <1>1, <1>9 DEF Return, ring, Unread, rd, Idle, TypeOK, Sides, Cell
  <2> QED BY <2>1 DEF Queue!Next, Queue!Return
<1>10. CASE UNCHANGED <<mem, p_r, fill_cnt, put>> /\ rd'.data = rd.data
  <2>1. UNCHANGED Unread
    BY <1>10 DEF Unread, Cell
  <2> QED BY <1>10, <2>1 DEF Queue!vars
<1>11. \/ WriteTransfer \/ ReadTransfer \/ Reset \/ Return("reader")
       \/ UNCHANGED <<mem, p_r, fill_cnt, put>> /\ rd'.data = rd.data
  <2> DEFINE Same == UNCHANGED <<mem, p_r, fill_cnt, put>> /\ rd'.data = rd.data
  <2>1. ASSUME NEW s \in Sides, NEW len \in Nat, Call(s, len) PROVE Same
    BY <1>1, <2>1 DEF Call, TypeOK, Sides, rd, ring
  <2>2. ASSUME UNCHANGED ring, NEW s \in Sides, NEW from, NEW to, Goto(s, from, to)
        PROVE Same
    BY <1>1, <2>2 DEF Goto, TypeOK, Sides, rd, ring
  <2>3. ASSUME NEW s \in Sides, TestDone(s) \/ TestAbort(s) PROVE Same
    BY <1>1, <2>3 DEF TestDone, TestAbort, Test, TypeOK, Sides, rd, ring
  <2>4. ASSUME TestUnblock PROVE Same
    BY <1>1, <2>4 DEF TestUnblock, Test, TypeOK, Sides, rd, ring
  <2>5. ASSUME NEW s \in Sides, Timeout(s) PROVE Same
    BY <1>1, <2>5 DEF Timeout, TypeOK, Sides, rd, ring
  <2>6. ASSUME Return("writer") PROVE Same
    BY <1>1, <2>6 DEF Return, TypeOK, Sides, rd, ring
  <2>7. ASSUME UNCHANGED <<ring, task>> PROVE Same
    BY <2>7 DEF rd, ring
  <2> HIDE DEF Same
  <2>8. \/ WriteTransfer \/ ReadTransfer \/ Reset \/ Return("reader") \/ Same
    BY <2>1, <2>2, <2>3, <2>4, <2>5, <2>6, <2>7, LensAssumption
       DEF Next, ReadStep, WriteStep, ControlStep, Step, TakeLock, FindNothing,
         Give, Wake, Exit, DoneWrite, DoneWriteGive, AbortRead, AbortReadGive,
         AbortWrite, AbortWriteGive, SetAbort, GiveTo, UnblockReader,
         UnblockReaderGive, ResetIsDoneWrite, vars, Sides
  <2> QED BY <2>8 DEF Same
<1> QED BY <1>6, <1>7, <1>8, <1>9, <1>10, <1>11

\* The ring buffer is a bounded FIFO queue of bytes, for every size and every
\* request length, whatever either task is interrupted by: rb_read and rb_write
\* as they run implement Put and Get, and rb_reset implements Flush.
THEOREM RingIsQueue == Spec => ImplementsQueue
<1>1. Init => Queue!Init
  BY SizeAssumption DEF Init, Queue!Init, Unread, rd, Idle, Sides
<1>2. IInv /\ [Next]_vars => [Queue!Next]_Queue!vars
  BY QueueStep
<1> QED BY <1>1, <1>2, AlwaysIInv, PTL DEF Spec, ImplementsQueue, Queue!Spec
=============================================================================
