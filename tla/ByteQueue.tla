----------------------------- MODULE ByteQueue -----------------------------
(***************************************************************************)
(* What a ring buffer promises its two tasks, without pointers, locks or   *)
(* semaphores: a bounded first-in first-out queue of bytes.  Byte number k *)
(* is the k-th byte the writer ever stored, so order, loss and duplication *)
(* are all visible in the values.  `taken` is the caller's buffer of the   *)
(* rb_read in progress.                                                    *)
(***************************************************************************)
EXTENDS Naturals, Sequences

CONSTANT Size      \* capacity in bytes

VARIABLES queue,   \* the bytes stored and not yet read, oldest first
          put,     \* how many bytes were ever stored
          taken    \* the bytes the current rb_read has taken

vars == <<queue, put, taken>>

Init == queue = <<>> /\ put = 0 /\ taken = <<>>

\* The n bytes the writer stores next.
Fresh(n) == [i \in 1..n |-> put + i - 1]

Put(n) == /\ Len(queue) + n <= Size
          /\ queue' = queue \o Fresh(n)
          /\ put' = put + n
          /\ UNCHANGED taken

Get(n) == /\ n <= Len(queue)
          /\ taken' = taken \o SubSeq(queue, 1, n)
          /\ queue' = SubSeq(queue, n + 1, Len(queue))
          /\ UNCHANGED put

\* A read returns to its caller; the next one starts with an empty buffer.
Return == taken' = <<>> /\ UNCHANGED <<queue, put>>

\* rb_reset throws the stored bytes away and nothing else.
Flush == queue' = <<>> /\ UNCHANGED <<put, taken>>

Next == \/ \E n \in 1..Size : Put(n) \/ Get(n)
        \/ Return
        \/ Flush

Spec == Init /\ [][Next]_vars
=============================================================================
