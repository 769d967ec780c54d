---------------------------- MODULE RingBufProps ----------------------------
(***************************************************************************)
(* What the ring buffer must guarantee, beyond single calls: agreement of  *)
(* the counter with the pointers, order of the bytes, no lost wakeup, and  *)
(* progress of both tasks.                                                 *)
(***************************************************************************)
EXTENDS RingBuf

rd == task["reader"]
wr == task["writer"]

PCs == {"idle", "lock", "size", "done", "abort", "unblock", "give", "wait",
        "exit", "return", "done_give"}
Controls == {"none", "abort_read_give", "abort_write", "abort_write_give",
             "unblock_give"}
Codes == {0, RB_DONE, RB_ABORT, RB_TIMEOUT}

\* Type invariant: in particular the fill level never leaves 0..size, in the C
\* code an unsigned counter that both tasks update.
TypeOK ==
  /\ mem \in [0..Size-1 -> Nat]
  /\ p_r \in 0..Size /\ p_w \in 0..Size /\ fill_cnt \in 0..Size /\ put \in Nat
  /\ sem \in [Sides -> BOOLEAN]
  /\ lock \in Sides \cup {"free"}
  /\ abort \in [Sides -> BOOLEAN]
  /\ is_done_write \in BOOLEAN /\ unblock_reader \in BOOLEAN
  /\ task \in [Sides -> [pc : PCs, left : Nat, data : Seq(Nat), ret : Codes]]
  /\ ctl \in Controls

\* The fill counter and the two pointers, which rb_read and rb_write advance
\* separately, always describe the same stretch of storage.
PointersAgree == p_w = p_r + fill_cnt \/ p_w + Size = p_r + fill_cnt

\* The stretch between the pointers holds exactly the bytes stored and not yet
\* read, oldest first, whatever copies wrapped (the memcpy pairs of rb_read and
\* rb_write).
Fifo == \A i \in 0..fill_cnt-1 : mem[Cell(p_r, i)] = put - fill_cnt + i

\* A give that some task in the middle of a call still owes to s.
GiveOwed(s) ==
  LET o == Other(s)
  IN \/ task[o].pc \in {"give", "done_give"}
     \/ task[o].pc \notin {"idle", "wait", "return"} /\ task[o].data # <<>>
     \/ s = "reader" /\ ctl \in {"abort_read_give", "unblock_give"}
     \/ s = "writer" /\ ctl = "abort_write_give"

Asleep(s) == task[s].pc = "wait" /\ ~sem[s] /\ ~GiveOwed(s)

\* A reader asleep on can_read, with no token there and none on its way, really
\* has nothing to read and no reason to leave: rb_read lost no wakeup between
\* its tests under the mutex and its wait after releasing it.
ReaderNotForgotten ==
  Asleep("reader") => /\ fill_cnt < Word /\ fill_cnt < rd.left
                      /\ ~is_done_write /\ ~abort["reader"] /\ ~unblock_reader

\* The same for a writer asleep on can_write in rb_write: the ring is full.
WriterNotForgotten ==
  Asleep("writer") => fill_cnt = Size /\ ~abort["writer"]

\* rb_read and rb_write are never asleep on each other.
NoMutualSleep == ~(Asleep("reader") /\ Asleep("writer"))

\* rb_read reports the end of the stream with at most a partial word unread.
DoneLeavesPartialWord ==
  [][rd'.ret = RB_DONE /\ rd.ret # RB_DONE => fill_cnt < Word]_vars

\* The pointers, counter, mutex and semaphores implement a bounded FIFO queue.
Unread == [i \in 1..fill_cnt |-> mem[Cell(p_r, i - 1)]]
Queue == INSTANCE ByteQueue WITH queue <- Unread, taken <- rd.data
ImplementsQueue == Queue!Spec

\* rb_abort makes a task in rb_read, and one in rb_write, return, however long
\* the other side is away.
AbortFrees ==
  \A s \in Sides :
    abort[s] /\ task[s].pc # "idle" ~> task[s].pc = "idle" \/ ~abort[s]

\* An element task calls rb_read again as soon as it has processed a block, but
\* nothing obliges it to: what follows is promised to a writer whose reader does.
KeepsReading == WF_vars(\E len \in ReadLens : Call("reader", len))

\* After rb_done_write a task that keeps calling rb_read is told so.
DoneIsReported ==
  KeepsReading => (is_done_write ~> rd.ret = RB_DONE \/ ~is_done_write)

\* While the other task keeps calling rb_read, every rb_write comes to an end.
WritesComplete == KeepsReading => (wr.pc = "lock" ~> wr.pc = "idle")
=============================================================================
