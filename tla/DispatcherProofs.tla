-------------------------- MODULE DispatcherProofs --------------------------
(***************************************************************************)
(* Proofs about esp_dispatcher.c for any number of calls, any indexes and  *)
(* any size of exe_que, up to a call that it cannot stand (Crossed).       *)
(*                                                                         *)
(* Why a result that names nobody reaches the right caller: a call that    *)
(* waits keeps the mutex from before it is queued until it has its result, *)
(* so nothing is queued behind it, and when its result is posted the task  *)
(* has nothing else to run.  IInv says where a call that was accepted and  *)
(* not yet answered can be: queued, running or posted, in one place only.  *)
(* Calls with a callback may go on beside esp_dispatcher_destroy; those    *)
(* accepted before it began are in the queue before its message, so the    *)
(* task answers them before it leaves.                                     *)
(***************************************************************************)
EXTENDS DispatcherProps, SequenceTheorems, TLAPS

Critical == {"send", "wait", "unlock"}
Active == task \in {"run", "ran", "unsupported"}

\* c was accepted and has heard nothing yet.
Owed(c) == /\ c \in Calls
           /\ told[c] = << >>
           /\ \/ Waits(c) /\ pc[c] = "wait"
              \/ HasCallback(c) /\ pc[c] \in {"unlock", "done"}

MutexInv == \A c \in Calls : pc[c] \in Critical <=> mutex = c

QueueInv == /\ \A i \in 1..Len(exe_que) : exe_que[i] # Quit => Owed(exe_que[i])
            /\ \A i, j \in 1..Len(exe_que) : exe_que[i] = exe_que[j] => i = j
            /\ \A i \in 1..Len(exe_que) : exe_que[i] # Quit /\ Waits(exe_que[i]) => i = Len(exe_que)

TaskInv == Active => /\ Owed(msg)
                     /\ \A i \in 1..Len(exe_que) : exe_que[i] # msg
                     /\ Waits(msg) => exe_que = << >>

ResultInv ==
    \/ result_que = << >>
    \/ /\ \E r \in Result : /\ result_que = <<r>>
                            /\ Owed(r.of) /\ Waits(r.of) /\ r.err # "timeout"
       /\ exe_que = << >> /\ task = "receive"
    \/ result_que = <<QuitResult>> /\ task = "gone" /\ owner = "wait"

HeardOwn(c) == \E e \in Errs : told[c] = <<[of |-> c, err |-> e]>>

ToldInv == \A c \in Calls :
    /\ \/ told[c] = << >> /\ (pc[c] \in {"unlock", "done"} => HasCallback(c))
       \/ pc[c] \in {"unlock", "done"} /\ HeardOwn(c)
    /\ pc[c] = "wait" => Waits(c)

NoQuit == \A i \in 1..Len(exe_que) : exe_que[i] # Quit

OwnerInv ==
    /\ owner \in {"idle", "send"} => NoQuit /\ task \notin {"leave", "gone"}
    /\ owner = "wait" =>
         \/ ~NoQuit /\ task \notin {"leave", "gone"}
         \/ NoQuit /\ task = "leave" /\ result_que = << >>
         \/ NoQuit /\ task = "gone" /\ result_que = <<QuitResult>>
    /\ owner = "freed" => NoQuit /\ result_que = << >> /\ task = "gone"

\* What was accepted before esp_dispatcher_destroy began runs or is queued before
\* its message.
OwedInv == \A c \in Calls \ met : Owed(c) /\ HasCallback(c) =>
    \/ Active /\ msg = c
    \/ /\ task \notin {"leave", "gone"}
       /\ \E i \in 1..Len(exe_que) : exe_que[i] = c /\ \A j \in 1..i : exe_que[j] # Quit

\* What is true of the calls while none has crossed the dispatcher.
CalmInv ==
    /\ \A c \in Calls : kind[c] # "silent" /\ pc[c] # "crash"
    /\ owner # "idle" => \A c \in Calls : Waits(c) => pc[c] \in Outside

IInv == CalmInv /\ MutexInv /\ QueueInv /\ TaskInv /\ ResultInv /\ ToldInv /\ OwnerInv /\ OwedInv

\* What is true in any case.
BaseInv ==
    /\ owner # "idle" => \A c \in Calls : pc[c] \notin Outside => c \in met
    /\ \A c \in Calls : pc[c] = "crash" => kind[c] = "silent"
    /\ \A c \in Calls : pc[c] = "idle" => kind[c] = "sync" /\ c \notin met
    /\ Active => msg \in Calls
-----------------------------------------------------------------------------
(* Type correctness *)

\* What a caller hears is appended to what it heard.
LEMMA Hearing ==
  ASSUME TypeOK, NEW c \in Calls, NEW r \in Result, Hear(c, r)
  PROVE /\ told' \in [Calls -> Seq(Result)]
        /\ told'[c] = Append(told[c], r)
        /\ \A d \in Calls \ {c} : told'[d] = told[d]
<1>1. told \in [Calls -> Seq(Result)] /\ told[c] \in Seq(Result)
  BY DEF TypeOK
<1>2. Append(told[c], r) \in Seq(Result)
  BY <1>1, AppendProperties
<1> QED BY <1>1, <1>2 DEF Hear

\* The next message, and the queue without it.
LEMMA Taking ==
  ASSUME TypeOK, exe_que # << >>
  PROVE /\ Head(exe_que) = exe_que[1]
        /\ Tail(exe_que) \in Seq(Calls \cup {Quit})
        /\ Len(exe_que) \in Nat \ {0} /\ Len(Tail(exe_que)) = Len(exe_que) - 1
        /\ \A i \in 1..Len(Tail(exe_que)) : Tail(exe_que)[i] = exe_que[i + 1]
        /\ exe_que[1] \in Calls \cup {Quit}
BY HeadTailProperties, EmptySeq DEF TypeOK

\* The queue with one message more.
LEMMA Putting ==
  ASSUME TypeOK, NEW m \in Calls \cup {Quit}
  PROVE /\ Append(exe_que, m) \in Seq(Calls \cup {Quit})
        /\ Append(exe_que, m) # << >>
        /\ Len(exe_que) \in Nat /\ Len(Append(exe_que, m)) = Len(exe_que) + 1
        /\ \A i \in 1..Len(exe_que) : Append(exe_que, m)[i] = exe_que[i]
        /\ Append(exe_que, m)[Len(exe_que) + 1] = m
<1>1. exe_que \in Seq(Calls \cup {Quit})
  BY DEF TypeOK
<1> QED BY <1>1, AppendProperties, LenProperties

\* A queue of one result gives it up and is empty.
LEMMA One ==
  ASSUME NEW r \in Result
  PROVE Head(<<r>>) = r /\ Tail(<<r>>) = << >> /\ <<r>> \in Seq(Result) /\ Len(<<r>>) = 1
OBVIOUS

\* Results are of calls, or of the message to quit.
LEMMA Results ==
  /\ QuitResult \in Result
  /\ \A c \in Calls \cup {Quit}, e \in Errs : [of |-> c, err |-> e] \in Result
  /\ \A r \in Result : r.of \in Calls \cup {Quit} /\ r.err \in Errs
                       /\ r = [of |-> r.of, err |-> r.err]
BY DEF Result, Errs, QuitResult

\* The places a call goes through.
LEMMA Going ==
  ASSUME TypeOK, NEW c \in Calls, NEW p, GoTo(c, p)
  PROVE pc'[c] = p /\ \A d \in Calls \ {c} : pc'[d] = pc[d]
BY DEF TypeOK, GoTo

\* Every step keeps the types.
LEMMA TypeStep ==
  ASSUME TypeOK, BaseInv, [Next]_vars
  PROVE TypeOK'
<1> USE CallsAssumption, IndexesAssumption DEF TypeOK
<1>1. ASSUME NEW c \in Calls, Begin(c) PROVE TypeOK'
  <2>1. kind' \in [Calls -> Kinds] /\ met' \subseteq Calls
    BY <1>1 DEF Begin, Kinds
  <2>2. pc' \in [Calls -> {"idle", "lock", "send", "wait", "unlock", "done", "crash"}] /\ told' = told
    BY <1>1 DEF Begin, GoTo
  <2>3. CASE Alive
    BY <1>1, <2>1, <2>2, <2>3 DEF Begin, queVars, taskVars
  <2>4. CASE ~Alive
    <3>1. << >> \in Seq(Calls \cup {Quit}) /\ << >> \in Seq(Result)
      BY EmptySeq
    <3> QED BY <1>1, <2>1, <2>2, <2>4, <3>1 DEF Begin, Create
  <2> QED BY <2>3, <2>4
<1>2. ASSUME NEW c \in Calls, Lock(c) PROVE TypeOK'
  BY <1>2 DEF Lock, GoTo, queVars, taskVars
<1>3. ASSUME NEW c \in Calls, Send(c) PROVE TypeOK'
  BY <1>3, Putting DEF Send, GoTo, taskVars
<1>4. ASSUME NEW c \in Calls, SendTimesOut(c) PROVE TypeOK'
  <2>1. told' \in [Calls -> Seq(Result)]
    BY <1>4, Results, Hearing DEF SendTimesOut, Errs
  <2> QED BY <1>4, <2>1 DEF SendTimesOut, GoTo, queVars, taskVars
<1>5. ASSUME NEW c \in Calls, Receive(c) PROVE TypeOK'
  <2>1. Head(result_que) \in Result /\ Tail(result_que) \in Seq(Result)
    BY <1>5, HeadTailProperties DEF Receive
  <2>2. told' \in [Calls -> Seq(Result)]
    BY <1>5, <2>1, Hearing DEF Receive
  <2> QED BY <1>5, <2>1, <2>2 DEF Receive, GoTo, taskVars
<1>6. ASSUME NEW c \in Calls, Unlock(c) PROVE TypeOK'
  BY <1>6 DEF Unlock, GoTo, queVars, taskVars
<1>7. ASSUME NEW i \in Indexes, Register(i) PROVE TypeOK'
  BY <1>7 DEF Register, callVars, queVars, taskVars
<1>8. CASE Take
  <2>1. exe_que # << >>
    BY <1>8 DEF Take
  <2> QED BY <1>8, <2>1, Taking DEF Take, callVars
<1>9. CASE Run
  BY <1>9 DEF Run, callVars, queVars
<1>10. CASE Reply
  <2> DEFINE r == [of |-> msg, err |-> IF task = "ran" THEN "done" ELSE "unsupported"]
  <2>1. msg \in Calls
    BY <1>10 DEF Reply, BaseInv, Active
  <2>2. r \in Result
    BY <2>1, Results DEF Errs
  <2>3. (Hear(msg, r) /\ result_que' = result_que) \/ (told' = told /\ result_que' \in {<<r>>, result_que})
    BY <1>10 DEF Reply
  <2>4. <<r>> \in Seq(Result)
    BY <2>2, One
  <2>5. told' \in [Calls -> Seq(Result)] /\ result_que' \in Seq(Result)
    <3> HIDE DEF r
    <3> QED BY <2>1, <2>2, <2>3, <2>4, Hearing
  <2> QED BY <1>10, <2>5 DEF Reply, callVars
<1>11. CASE Leave
  <2>1. result_que' \in Seq(Result)
    BY <1>11, Results, One DEF Leave
  <2> QED BY <1>11, <2>1 DEF Leave, callVars
<1>12. CASE Destroy
  BY <1>12 DEF Destroy, callVars, queVars, taskVars
<1>13. CASE DestroySend
  BY <1>13, Putting DEF DestroySend, callVars, taskVars
<1>14. CASE DestroyReceive
  <2>1. Tail(result_que) \in Seq(Result)
    BY <1>14, HeadTailProperties DEF DestroyReceive
  <2> QED BY <1>14, <2>1 DEF DestroyReceive, callVars, taskVars
<1>15. CASE UNCHANGED vars
  BY <1>15 DEF vars, callVars, queVars, taskVars
<1> QED
  BY <1>1, <1>2, <1>3, <1>4, <1>5, <1>6, <1>7, <1>8, <1>9, <1>10, <1>11, <1>12,
     <1>13, <1>14, <1>15
     DEF Next, Step, Work, Ending

\* Who is in a call while the dispatcher is destroyed is among those it met.
LEMMA BaseStep ==
  ASSUME TypeOK, BaseInv, [Next]_vars
  PROVE BaseInv'
<1> USE CallsAssumption DEF TypeOK, BaseInv
<1>1. ASSUME NEW c \in Calls, Begin(c) PROVE BaseInv'
  <2>1. /\ pc[c] = "idle" /\ pc'[c] = "lock" /\ \A d \in Calls \ {c} : pc'[d] = pc[d]
        /\ \A d \in Calls \ {c} : kind'[d] = kind[d]
        /\ met' = IF owner \in {"send", "wait"} THEN met \cup {c} ELSE met
    BY <1>1, Going DEF Begin
  <2>2. CASE Alive
    <3>1. owner \in {"idle", "send", "wait"} /\ UNCHANGED <<owner, task, msg>>
      BY <1>1, <2>2 DEF Begin, Alive, taskVars
    <3> QED BY <2>1, <3>1 DEF Active, Outside
  <2>3. CASE ~Alive
    BY <1>1, <2>1, <2>3 DEF Begin, Create, Active
  <2> QED BY <2>2, <2>3
<1>2. ASSUME NEW c \in Calls, Step(c) PROVE BaseInv'
  <2>1. /\ pc[c] \in {"lock", "send", "wait", "unlock"}
        /\ UNCHANGED <<kind, owner, met, task, msg>>
        /\ \A d \in Calls \ {c} : pc'[d] = pc[d]
        /\ pc'[c] # "idle" /\ (pc'[c] = "crash" => kind[c] = "silent")
    BY <1>2 DEF Step, Lock, Send, SendTimesOut, Receive, Unlock, GoTo, taskVars
  <2> QED BY <2>1 DEF Active, Outside
<1>3. CASE Take
  <2>1. exe_que # << >> /\ UNCHANGED <<pc, kind, owner, met>>
    BY <1>3 DEF Take, callVars
  <2>2. (task' = "leave" /\ msg' = msg) \/ (task' = "run" /\ msg' \in Calls)
    BY <1>3, <2>1, Taking DEF Take
  <2> QED BY <2>1, <2>2 DEF Active
<1>4. CASE Run \/ Reply \/ Leave
  BY <1>4 DEF Run, Reply, Leave, callVars, Active
<1>5. CASE Destroy
  BY <1>5 DEF Destroy, callVars, taskVars, Active, Outside
<1>6. CASE DestroySend \/ DestroyReceive
  BY <1>6 DEF DestroySend, DestroyReceive, callVars, taskVars, Active
<1>7. CASE UNCHANGED <<pc, kind, owner, met, task, msg>>
  BY <1>7 DEF Active
<1> QED
  BY <1>1, <1>2, <1>3, <1>4, <1>5, <1>6, <1>7
     DEF Next, Work, Ending, Register, vars, callVars, taskVars

\* What has crossed the dispatcher stays so.
LEMMA CrossedStays ==
  ASSUME TypeOK, BaseInv, [Next]_vars, Crossed
  PROVE Crossed'
<1>1. PICK c \in Calls : kind[c] = "silent" \/ (kind[c] = "sync" /\ c \in met)
  BY DEF Crossed
<1>2. pc[c] # "idle"
  BY <1>1 DEF BaseInv
<1>3. ASSUME NEW d \in Calls, Begin(d) PROVE kind'[c] = kind[c] /\ met \subseteq met'
  BY <1>2, <1>3 DEF Begin, TypeOK
<1>4. ASSUME NEW d \in Calls, Step(d) PROVE kind'[c] = kind[c] /\ met \subseteq met'
  BY <1>4 DEF Step, Lock, Send, SendTimesOut, Receive, Unlock
<1>5. UNCHANGED <<kind, met>> => kind'[c] = kind[c] /\ met \subseteq met'
  OBVIOUS
<1>6. Destroy => kind'[c] = kind[c] /\ met \subseteq met'
  BY DEF Destroy, callVars
<1>7. kind'[c] = kind[c] /\ met \subseteq met'
  BY <1>3, <1>4, <1>5, <1>6
     DEF Next, Work, Take, Run, Reply, Leave, Ending, DestroySend, DestroyReceive, Register, vars, callVars
<1> QED BY <1>1, <1>7 DEF Crossed

LEMMA CalmNext == TypeOK' /\ BaseInv' /\ ~Crossed' => CalmInv'
<1>1. TypeOK /\ BaseInv /\ ~Crossed => CalmInv
  BY DEF BaseInv, Crossed, CalmInv, Waits, TypeOK
<1> QED BY <1>1, PTL

\* A call waits or has a callback.
LEMMA TwoKinds ==
  ASSUME TypeOK, CalmInv, NEW c \in Calls
  PROVE HasCallback(c) <=> ~Waits(c)
BY DEF TypeOK, CalmInv, Kinds, HasCallback, Waits
-----------------------------------------------------------------------------
(* The inductive invariant *)

\* Nothing a call relies on changes: its place, its kind, what it heard.
Same == UNCHANGED <<pc, kind, told>>

LEMMA OwedSame ==
  ASSUME Same, NEW c
  PROVE /\ Owed(c) => Owed(c)'
        /\ Waits(c) = Waits(c)' /\ HasCallback(c) = HasCallback(c)'
BY DEF Same, Owed, Waits, HasCallback

\* A step of one call leaves what is owed to the others as it was.
LEMMA OwedOthers ==
  ASSUME NEW c \in Calls, kind' = kind, NEW d, d # c,
         pc'[d] = pc[d], told'[d] = told[d]
  PROVE /\ Owed(d) => Owed(d)'
        /\ Waits(d) = Waits(d)' /\ HasCallback(d) = HasCallback(d)'
BY DEF Owed, Waits, HasCallback

LEMMA MutexStep ==
  ASSUME TypeOK, IInv, CalmInv', [Next]_vars
  PROVE MutexInv'
<1> USE CallsAssumption DEF TypeOK, IInv, MutexInv, Critical
<1>1. ASSUME NEW c \in Calls, Begin(c) PROVE MutexInv'
  <2>1. CASE Alive
    BY <1>1, <2>1 DEF Begin, GoTo
  <2>2. CASE ~Alive
    <3>1. \A d \in Calls : pc[d] \in Outside
      BY <1>1, <2>2 DEF Begin, Alive
    <3> QED BY <1>1, <2>2, <3>1 DEF Begin, GoTo, Create, Outside
  <2> QED BY <2>1, <2>2
<1>2. ASSUME NEW c \in Calls, Lock(c) PROVE MutexInv'
  BY <1>2 DEF Lock, GoTo
<1>3. ASSUME NEW c \in Calls, Send(c) PROVE MutexInv'
  BY <1>3 DEF Send, GoTo
<1>4. ASSUME NEW c \in Calls, SendTimesOut(c) PROVE MutexInv'
  BY <1>4 DEF SendTimesOut, GoTo, CalmInv
<1>5. ASSUME NEW c \in Calls, Receive(c) PROVE MutexInv'
  BY <1>5 DEF Receive, GoTo
<1>6. ASSUME NEW c \in Calls, Unlock(c) PROVE MutexInv'
  BY <1>6 DEF Unlock, GoTo
<1>7. CASE UNCHANGED <<pc, mutex>>
  BY <1>7
<1> QED
  BY <1>1, <1>2, <1>3, <1>4, <1>5, <1>6, <1>7
     DEF Next, Step, Work, Ending, Register, Take, Run, Reply, Leave, Destroy,
         DestroySend, DestroyReceive, vars, callVars

\* A call that may not have been accepted yet owes nothing and is owed nothing.
LEMMA NotYet ==
  ASSUME TypeOK, IInv, NEW c \in Calls, pc[c] \notin {"wait", "unlock", "done"}
  PROVE /\ ~Owed(c)
        /\ \A i \in 1..Len(exe_que) : exe_que[i] # c
        /\ Active => msg # c
        /\ told[c] = << >>
BY CallsAssumption DEF TypeOK, IInv, QueueInv, TaskInv, ToldInv, Owed

\* While a call waits, what is queued or running is either before it or its own.
LEMMA WaiterLast ==
  ASSUME TypeOK, IInv, NEW c \in Calls, NEW d \in Calls,
         pc[c] = "wait", Owed(d), Waits(d)
  PROVE d = c
BY CallsAssumption DEF TypeOK, IInv, MutexInv, Critical, Owed, Waits, HasCallback

\* What Receive finds is its own, and there is nothing else under way.
LEMMA Receiving ==
  ASSUME TypeOK, IInv, NEW c \in Calls, Receive(c)
  PROVE /\ \E r \in Result : result_que = <<r>> /\ r.of = c /\ r.err # "timeout"
        /\ exe_que = << >> /\ task = "receive" /\ owner = "idle"
<1>1. pc[c] = "wait" /\ result_que # << >> /\ owner = "idle"
  BY DEF Receive, IInv, ToldInv, CalmInv, Outside
<1>2. PICK r \in Result : result_que = <<r>> /\ Owed(r.of) /\ Waits(r.of) /\ r.err # "timeout"
  BY <1>1 DEF IInv, ResultInv
<1>3. exe_que = << >> /\ task = "receive"
  BY <1>1 DEF IInv, ResultInv
<1>4. r.of = c
  BY <1>1, <1>2, WaiterLast DEF Owed
<1> QED BY <1>1, <1>2, <1>3, <1>4

\* Steps that change what is owed to one call at most, and that call is not
\* in the queue.
LEMMA QueueKept ==
  ASSUME TypeOK, QueueInv, NEW c \in Calls, exe_que' = exe_que, kind' = kind,
         \A d \in Calls \ {c} : pc'[d] = pc[d] /\ told'[d] = told[d],
         Owed(c) => Owed(c)' \/ \A i \in 1..Len(exe_que) : exe_que[i] # c
  PROVE QueueInv'
<1>1. \A i \in 1..Len(exe_que) : exe_que[i] # Quit => Owed(exe_que[i])'
  BY DEF QueueInv, Owed, Waits, HasCallback
<1> QED BY <1>1 DEF QueueInv, Waits

LEMMA QueueStep ==
  ASSUME TypeOK, IInv, CalmInv', [Next]_vars
  PROVE QueueInv'
<1>1. ASSUME NEW c \in Calls, Begin(c) PROVE QueueInv'
  <2>1. CASE Alive
    <3>1. /\ pc'[c] = "lock" /\ \A d \in Calls \ {c} : pc'[d] = pc[d] /\ kind'[d] = kind[d]
          /\ told' = told /\ exe_que' = exe_que
      BY <1>1, <2>1, Going DEF Begin, queVars, TypeOK
    <3>2. \A i \in 1..Len(exe_que) : exe_que[i] # c
      BY <1>1, NotYet DEF Begin
    <3>3. \A i \in 1..Len(exe_que) : exe_que[i] # Quit =>
             Owed(exe_que[i])' /\ Waits(exe_que[i])' = Waits(exe_que[i])
      BY <3>1, <3>2 DEF IInv, QueueInv, Owed, Waits, HasCallback
    <3> QED BY <3>1, <3>3 DEF IInv, QueueInv
  <2>2. CASE ~Alive
    <3>1. exe_que' = << >>
      BY <1>1, <2>2 DEF Begin, Create
    <3> QED BY <3>1 DEF QueueInv
  <2> QED BY <2>1, <2>2
<1>2. ASSUME NEW c \in Calls, Lock(c) \/ SendTimesOut(c) PROVE QueueInv'
  <2>1. \A i \in 1..Len(exe_que) : exe_que[i] # c
    BY <1>2, NotYet DEF Lock, SendTimesOut
  <2>2. \A d \in Calls \ {c} : pc'[d] = pc[d] /\ told'[d] = told[d]
    BY <1>2 DEF Lock, SendTimesOut, GoTo, Hear, TypeOK
  <2> QED BY <1>2, <2>1, <2>2, QueueKept DEF Lock, SendTimesOut, IInv, queVars
<1>3. ASSUME NEW c \in Calls, Send(c) PROVE QueueInv'
  <2>1. /\ exe_que' = Append(exe_que, c) /\ kind' = kind /\ told' = told
        /\ pc'[c] = IF Waits(c) THEN "wait" ELSE "unlock"
        /\ \A d \in Calls \ {c} : pc'[d] = pc[d]
    BY <1>3, Going DEF Send
  <2>2. told[c] = << >> /\ \A i \in 1..Len(exe_que) : exe_que[i] # c
    BY <1>3, NotYet DEF Send
  <2>3. Owed(c)'
    BY <2>1, <2>2, TwoKinds DEF Owed, Waits, HasCallback, IInv
  <2>4. \A i \in 1..Len(exe_que) : exe_que[i] # Quit => Owed(exe_que[i])' /\ ~Waits(exe_que[i])'
    <3>1. mutex = c
      BY <1>3 DEF Send, IInv, MutexInv, Critical
    <3> QED BY <2>1, <2>2, <3>1 DEF IInv, QueueInv, MutexInv, Critical, Owed, Waits, HasCallback
  <2>5. /\ Len(exe_que) \in Nat /\ Len(exe_que') = Len(exe_que) + 1
        /\ \A i \in 1..Len(exe_que) : exe_que'[i] = exe_que[i]
        /\ exe_que'[Len(exe_que) + 1] = c
    BY <2>1, Putting
  <2> QED BY <2>2, <2>3, <2>4, <2>5 DEF IInv, QueueInv
<1>4. ASSUME NEW c \in Calls, Receive(c) PROVE QueueInv'
  BY <1>4, Receiving DEF Receive, QueueInv
<1>5. ASSUME NEW c \in Calls, Unlock(c) PROVE QueueInv'
  <2>1. \A d \in Calls \ {c} : pc'[d] = pc[d] /\ told'[d] = told[d]
    BY <1>5 DEF Unlock, GoTo, TypeOK
  <2>2. Owed(c) => Owed(c)'
    BY <1>5 DEF Unlock, GoTo, Owed, Waits, HasCallback, TypeOK
  <2> QED BY <1>5, <2>1, <2>2, QueueKept DEF Unlock, IInv, queVars
<1>6. CASE Take
  <2>1. /\ Len(exe_que) \in Nat \ {0} /\ Len(exe_que') = Len(exe_que) - 1
        /\ \A i \in 1..Len(exe_que') : exe_que'[i] = exe_que[i + 1]
    BY <1>6, Taking DEF Take
  <2>2. \A d : Owed(d)' = Owed(d) /\ Waits(d)' = Waits(d)
    BY <1>6 DEF Take, callVars, Owed, Waits, HasCallback
  <2> QED BY SMTT(30), <2>1, <2>2 DEF IInv, QueueInv
<1>7. CASE Reply
  <2>1. msg \in Calls /\ \A i \in 1..Len(exe_que) : exe_que[i] # msg
    BY <1>7 DEF Reply, IInv, TaskInv, Active, Owed
  <2>2. \A d \in Calls \ {msg} : pc'[d] = pc[d] /\ told'[d] = told[d]
    BY <1>7, <2>1 DEF Reply, Hear, callVars, TypeOK
  <2> QED BY <1>7, <2>1, <2>2, QueueKept DEF Reply, IInv, callVars
<1>8. CASE DestroySend
  <2>1. exe_que' = Append(exe_que, Quit) /\ UNCHANGED <<pc, kind, told>>
    BY <1>8 DEF DestroySend, callVars
  <2>2. NoQuit /\ \A i \in 1..Len(exe_que) : Owed(exe_que[i]) /\ ~Waits(exe_que[i])
    BY <1>8 DEF DestroySend, IInv, CalmInv, OwnerInv, Outside, QueueInv, NoQuit, Owed, Waits, HasCallback
  <2>3. /\ Len(exe_que) \in Nat /\ Len(exe_que') = Len(exe_que) + 1
        /\ \A i \in 1..Len(exe_que) : exe_que'[i] = exe_que[i]
        /\ exe_que'[Len(exe_que) + 1] = Quit
    BY <2>1, Putting
  <2>4. \A i \in 1..Len(exe_que) : Owed(exe_que[i])' /\ ~Waits(exe_que[i])'
    BY <2>1, <2>2 DEF Owed, Waits, HasCallback
  <2> QED BY <2>2, <2>3, <2>4 DEF IInv, QueueInv, NoQuit
<1>9. CASE UNCHANGED <<pc, kind, told, exe_que>>
  BY <1>9 DEF IInv, QueueInv, Owed, Waits, HasCallback
<1> QED
  BY <1>1, <1>2, <1>3, <1>4, <1>5, <1>6, <1>7, <1>8, <1>9
     DEF Next, Step, Work, Ending, Register, Run, Leave, Destroy,
         DestroyReceive, vars, callVars, queVars

\* Steps that change what is owed to one call at most, and that call is not
\* the one that runs.
LEMMA TaskKept ==
  ASSUME TaskInv, NEW c \in Calls, UNCHANGED <<exe_que, msg, kind>>,
         Active' => Active,
         \A d \in Calls \ {c} : pc'[d] = pc[d] /\ told'[d] = told[d],
         Active /\ Owed(c) => Owed(c)' \/ msg # c
  PROVE TaskInv'
<1>1. Active => Owed(msg)'
  BY DEF TaskInv, Owed, Waits, HasCallback
<1>2. Active => Waits(msg)' = Waits(msg)
  BY DEF Waits
<1> QED BY <1>1, <1>2 DEF TaskInv

LEMMA TaskStep ==
  ASSUME TypeOK, IInv, CalmInv', [Next]_vars
  PROVE TaskInv'
<1>1. ASSUME NEW c \in Calls, Begin(c) PROVE TaskInv'
  <2>1. CASE Alive
    <3>1. /\ \A d \in Calls \ {c} : pc'[d] = pc[d] /\ kind'[d] = kind[d]
          /\ told' = told /\ exe_que' = exe_que /\ task' = task /\ msg' = msg
      BY <1>1, <2>1, Going DEF Begin, queVars, taskVars, TypeOK
    <3>2. Active => msg # c
      BY <1>1, NotYet DEF Begin
    <3>3. Active => Owed(msg)' /\ Waits(msg)' = Waits(msg)
      BY <3>1, <3>2 DEF IInv, TaskInv, Owed, Waits, HasCallback
    <3> QED BY <3>1, <3>3 DEF IInv, TaskInv, Active
  <2>2. CASE ~Alive
    BY <1>1, <2>2 DEF Begin, Create, TaskInv, Active
  <2> QED BY <2>1, <2>2
<1>2. ASSUME NEW c \in Calls, Lock(c) \/ SendTimesOut(c) PROVE TaskInv'
  <2>1. Active => msg # c
    BY <1>2, NotYet DEF Lock, SendTimesOut
  <2>2. \A d \in Calls \ {c} : pc'[d] = pc[d] /\ told'[d] = told[d]
    BY <1>2 DEF Lock, SendTimesOut, GoTo, Hear, TypeOK
  <2> QED BY <1>2, <2>1, <2>2, TaskKept DEF Lock, SendTimesOut, IInv, queVars, taskVars, Active
<1>3. ASSUME NEW c \in Calls, Send(c) PROVE TaskInv'
  <2>1. /\ exe_que' = Append(exe_que, c) /\ kind' = kind /\ told' = told /\ msg' = msg
        /\ task' = task
        /\ \A d \in Calls \ {c} : pc'[d] = pc[d]
    BY <1>3, Going DEF Send, taskVars
  <2>2. Active => msg # c
    BY <1>3, NotYet DEF Send
  <2>3. Active => Owed(msg)' /\ ~Waits(msg)'
    <3>1. mutex = c
      BY <1>3 DEF Send, IInv, MutexInv, Critical
    <3> QED BY <2>1, <2>2, <3>1 DEF IInv, TaskInv, MutexInv, Critical, Owed, Waits, HasCallback
  <2>4. /\ Len(exe_que) \in Nat /\ Len(exe_que') = Len(exe_que) + 1
        /\ \A i \in 1..Len(exe_que) : exe_que'[i] = exe_que[i]
        /\ exe_que'[Len(exe_que) + 1] = c
    BY <2>1, Putting
  <2> QED BY <2>1, <2>2, <2>3, <2>4 DEF IInv, TaskInv, Active
<1>4. ASSUME NEW c \in Calls, Receive(c) PROVE TaskInv'
  BY <1>4, Receiving DEF Receive, TaskInv, Active, taskVars
<1>5. ASSUME NEW c \in Calls, Unlock(c) PROVE TaskInv'
  <2>1. \A d \in Calls \ {c} : pc'[d] = pc[d] /\ told'[d] = told[d]
    BY <1>5 DEF Unlock, GoTo, TypeOK
  <2>2. Owed(c) => Owed(c)'
    BY <1>5 DEF Unlock, GoTo, Owed, Waits, HasCallback, TypeOK
  <2> QED BY <1>5, <2>1, <2>2, TaskKept DEF Unlock, IInv, queVars, taskVars, Active
<1>6. CASE Take
  <2>1. /\ Len(exe_que) \in Nat \ {0} /\ Len(exe_que') = Len(exe_que) - 1
        /\ \A i \in 1..Len(exe_que') : exe_que'[i] = exe_que[i + 1]
        /\ exe_que' \in Seq(Calls \cup {Quit})
        /\ \/ exe_que[1] = Quit /\ ~Active'
           \/ exe_que[1] # Quit /\ msg' = exe_que[1]
    BY <1>6, Taking DEF Take, Active
  <2>2. \A d : Owed(d)' = Owed(d) /\ Waits(d)' = Waits(d)
    BY <1>6 DEF Take, callVars, Owed, Waits, HasCallback
  <2>3. exe_que[1] # Quit => /\ Owed(exe_que[1])
                             /\ \A i \in 1..Len(exe_que') : exe_que[i + 1] # exe_que[1]
                             /\ Waits(exe_que[1]) => Len(exe_que) = 1
    BY <2>1 DEF IInv, QueueInv
  <2>4. Len(exe_que') = 0 => exe_que' = << >>
    BY <2>1, EmptySeq
  <2> QED BY <2>1, <2>2, <2>3, <2>4 DEF TaskInv
<1>7. CASE Run
  BY <1>7 DEF Run, IInv, TaskInv, Active, callVars, queVars, Owed, Waits, HasCallback
<1>8. CASE Reply \/ Leave
  BY <1>8 DEF Reply, Leave, TaskInv, Active
<1>9. CASE DestroySend
  <2>1. exe_que' = Append(exe_que, Quit) /\ UNCHANGED <<pc, kind, told, task, msg>>
    BY <1>9 DEF DestroySend, callVars, taskVars
  <2>2. Active => ~Waits(msg) /\ msg # Quit
    BY <1>9, CallsAssumption DEF DestroySend, IInv, CalmInv, Outside, TaskInv, Owed, Waits, HasCallback
  <2>3. /\ Len(exe_que) \in Nat /\ Len(exe_que') = Len(exe_que) + 1
        /\ \A i \in 1..Len(exe_que) : exe_que'[i] = exe_que[i]
        /\ exe_que'[Len(exe_que) + 1] = Quit
    BY <2>1, Putting
  <2> QED BY <2>1, <2>2, <2>3 DEF IInv, TaskInv, Active, Owed, Waits, HasCallback
<1>10. CASE UNCHANGED <<pc, kind, told, exe_que, task, msg>>
  BY <1>10 DEF IInv, TaskInv, Active, Owed, Waits, HasCallback
<1> QED
  BY <1>1, <1>2, <1>3, <1>4, <1>5, <1>6, <1>7, <1>8, <1>9, <1>10
     DEF Next, Step, Work, Ending, Register, Destroy,
         DestroyReceive, vars, callVars, queVars, taskVars

LEMMA ToldStep ==
  ASSUME TypeOK, IInv, CalmInv', [Next]_vars
  PROVE ToldInv'
<1>1. ASSUME NEW c \in Calls, Begin(c) PROVE ToldInv'
  <2>1. /\ pc'[c] = "lock" /\ told' = told
        /\ \A d \in Calls \ {c} : pc'[d] = pc[d] /\ kind'[d] = kind[d]
    BY <1>1, Going DEF Begin, TypeOK
  <2>2. told[c] = << >>
    BY <1>1, NotYet DEF Begin
  <2> QED BY <2>1, <2>2 DEF IInv, ToldInv, HeardOwn, Waits, HasCallback
<1>2. ASSUME NEW c \in Calls, Lock(c) \/ Unlock(c) PROVE ToldInv'
  <2>1. UNCHANGED <<told, kind>>
    BY <1>2 DEF Lock, Unlock
  <2>2. CASE Lock(c)
    <3>1. told[c] = << >> /\ GoTo(c, "send")
      BY <2>2, NotYet DEF Lock
    <3>2. pc'[c] = "send" /\ \A d \in Calls \ {c} : pc'[d] = pc[d]
      BY <3>1, Going
    <3> QED BY <2>1, <3>1, <3>2 DEF IInv, ToldInv, HeardOwn, Waits, HasCallback
  <2>3. CASE Unlock(c)
    <3>1. pc[c] = "unlock" /\ GoTo(c, "done")
      BY <2>3 DEF Unlock
    <3>2. pc'[c] = "done" /\ \A d \in Calls \ {c} : pc'[d] = pc[d]
      BY <3>1, Going
    <3> QED BY <2>1, <3>1, <3>2 DEF IInv, ToldInv, HeardOwn, Waits, HasCallback
  <2> QED BY <1>2, <2>2, <2>3
<1>3. ASSUME NEW c \in Calls, Send(c) PROVE ToldInv'
  <2>1. /\ UNCHANGED <<told, kind>>
        /\ pc'[c] = IF Waits(c) THEN "wait" ELSE "unlock"
        /\ \A d \in Calls \ {c} : pc'[d] = pc[d]
    BY <1>3, Going DEF Send
  <2>2. told[c] = << >>
    BY <1>3, NotYet DEF Send
  <2>3. HasCallback(c) <=> ~Waits(c)
    BY TwoKinds DEF IInv
  <2> QED BY <2>1, <2>2, <2>3 DEF IInv, ToldInv, HeardOwn, Waits, HasCallback
<1>4. ASSUME NEW c \in Calls, SendTimesOut(c) PROVE ToldInv'
  <2>1. /\ kind' = kind /\ pc'[c] = "unlock"
        /\ Hear(c, [of |-> c, err |-> "timeout"])
        /\ \A d \in Calls \ {c} : pc'[d] = pc[d]
    BY <1>4, Going DEF SendTimesOut, IInv, CalmInv
  <2>2. told[c] = << >>
    BY <1>4, NotYet DEF SendTimesOut
  <2>3. /\ told'[c] = Append(told[c], [of |-> c, err |-> "timeout"])
        /\ \A d \in Calls \ {c} : told'[d] = told[d]
    BY <2>1, Hearing, Results DEF Errs
  <2>4. told'[c] = <<[of |-> c, err |-> "timeout"]>>
    BY <2>2, <2>3
  <2>5. HeardOwn(c)'
    BY <2>4 DEF HeardOwn, Errs
  <2> QED BY <2>1, <2>3, <2>5 DEF IInv, ToldInv, HeardOwn, Waits, HasCallback
<1>5. ASSUME NEW c \in Calls, Receive(c) PROVE ToldInv'
  <2>1. /\ kind' = kind /\ pc'[c] = "unlock" /\ pc[c] = "wait"
        /\ \A d \in Calls \ {c} : pc'[d] = pc[d]
    BY <1>5, Going DEF Receive
  <2>2. told[c] = << >>
    BY <1>5 DEF Receive, IInv, ToldInv
  <2>3. PICK r \in Result : result_que = <<r>> /\ r.of = c
    BY <1>5, Receiving
  <2>4. told'[c] = Append(told[c], r) /\ \A d \in Calls \ {c} : told'[d] = told[d]
    BY <1>5, <2>3, One, Hearing DEF Receive
  <2>5. told'[c] = <<[of |-> c, err |-> r.err]>>
    BY <2>2, <2>3, <2>4, Results
  <2>6. HeardOwn(c)'
    BY <2>5, Results DEF HeardOwn
  <2> QED BY <2>1, <2>4, <2>6 DEF IInv, ToldInv, HeardOwn, Waits, HasCallback
<1>6. CASE Reply
  <2>1. Owed(msg) /\ UNCHANGED <<pc, kind>>
    BY <1>6 DEF Reply, IInv, TaskInv, Active, callVars
  <2>2. PICK c \in Calls : c = msg
    BY <2>1 DEF Owed
  <2>3. PICK e \in Errs : e = IF task = "ran" THEN "done" ELSE "unsupported"
    BY DEF Errs
  <2>4. CASE HasCallback(c)
    <3>1. Hear(c, [of |-> c, err |-> e])
      BY <1>6, <2>2, <2>3, <2>4 DEF Reply
    <3>2. /\ told'[c] = Append(told[c], [of |-> c, err |-> e])
          /\ \A d \in Calls \ {c} : told'[d] = told[d]
      BY <3>1, Results, Hearing
    <3>3. told'[c] = <<[of |-> c, err |-> e]>>
      BY <2>1, <2>2, <3>2 DEF Owed
    <3>4. HeardOwn(c)'
      BY <3>3 DEF HeardOwn
    <3>5. pc[c] \in {"unlock", "done"}
      BY <2>1, <2>2, <2>4 DEF Owed, Waits, HasCallback
    <3> QED BY <2>1, <3>2, <3>4, <3>5 DEF IInv, ToldInv, HeardOwn, Waits, HasCallback
  <2>5. CASE ~HasCallback(c)
    BY <1>6, <2>1, <2>2, <2>5 DEF Reply, IInv, ToldInv, HeardOwn, Waits, HasCallback
  <2> QED BY <2>4, <2>5
<1>7. CASE UNCHANGED <<pc, kind, told>>
  BY <1>7 DEF IInv, ToldInv, HeardOwn, Waits, HasCallback
<1> QED
  BY <1>1, <1>2, <1>3, <1>4, <1>5, <1>6, <1>7
     DEF Next, Step, Work, Ending, Register, Take, Run, Leave, Destroy,
         DestroySend, DestroyReceive, vars, callVars

\* While a result waits for its caller, nothing else moves but the caller.
LEMMA ResultStep ==
  ASSUME TypeOK, IInv, CalmInv', [Next]_vars
  PROVE ResultInv'
<1>1. ASSUME NEW c \in Calls, Begin(c) PROVE ResultInv'
  <2>1. CASE Alive
    <3>1. /\ \A d \in Calls \ {c} : pc'[d] = pc[d] /\ kind'[d] = kind[d]
          /\ UNCHANGED <<told, exe_que, result_que, task, owner>>
      BY <1>1, <2>1, Going DEF Begin, queVars, taskVars, TypeOK
    <3>2. ~Owed(c)
      BY <1>1, NotYet DEF Begin
    <3>3. \A d : Owed(d) => Owed(d)' /\ Waits(d)' = Waits(d)
      BY <3>1, <3>2 DEF Owed, Waits, HasCallback
    <3> QED BY <3>1, <3>3 DEF IInv, ResultInv
  <2>2. CASE ~Alive
    BY <1>1, <2>2 DEF Begin, Create, ResultInv
  <2> QED BY <2>1, <2>2
<1>2. ASSUME NEW c \in Calls, Lock(c) \/ SendTimesOut(c) \/ Unlock(c) PROVE ResultInv'
  <2>1. pc[c] # "wait" /\ UNCHANGED <<kind, exe_que, result_que, task, owner>>
    BY <1>2 DEF Lock, SendTimesOut, Unlock, queVars, taskVars
  <2>2. \A d \in Calls \ {c} : pc'[d] = pc[d] /\ told'[d] = told[d]
    BY <1>2 DEF Lock, SendTimesOut, Unlock, GoTo, Hear, TypeOK
  <2>3. \A d : Owed(d) /\ Waits(d) => Owed(d)' /\ Waits(d)'
    BY <2>1, <2>2 DEF Owed, Waits, HasCallback
  <2> QED BY <2>1, <2>3 DEF IInv, ResultInv
<1>3. ASSUME NEW c \in Calls, Send(c) PROVE ResultInv'
  <2>1. pc[c] = "send" /\ mutex = c /\ UNCHANGED <<result_que, task, owner>>
    BY <1>3 DEF Send, IInv, MutexInv, Critical, taskVars
  <2>2. \A d \in Calls : ~(Owed(d) /\ Waits(d))
    BY <2>1 DEF IInv, MutexInv, Critical, Owed, Waits, HasCallback
  <2>3. result_que = << >> \/ (result_que = <<QuitResult>> /\ task = "gone" /\ owner = "wait")
    BY <2>1, <2>2 DEF IInv, ResultInv, Owed
  <2> QED BY <2>1, <2>3 DEF ResultInv
<1>4. ASSUME NEW c \in Calls, Receive(c) PROVE ResultInv'
  <2>1. PICK r \in Result : result_que = <<r>>
    BY <1>4, Receiving
  <2>2. result_que' = << >>
    BY <1>4, <2>1, One DEF Receive
  <2> QED BY <2>2 DEF ResultInv
<1>5. CASE Take
  <2>1. result_que = << >>
    BY <1>5 DEF Take, IInv, ResultInv
  <2> QED BY <1>5, <2>1 DEF Take, ResultInv
<1>6. CASE Run
  <2>1. result_que = << >>
    BY <1>6 DEF Run, IInv, ResultInv
  <2> QED BY <1>6, <2>1 DEF Run, ResultInv, queVars
<1>7. CASE Reply
  <2>1. Owed(msg) /\ (Waits(msg) => exe_que = << >>) /\ UNCHANGED <<pc, kind, exe_que>>
    BY <1>7 DEF Reply, IInv, TaskInv, Active, callVars
  <2>2. result_que = << >>
    BY <1>7 DEF Reply, IInv, ResultInv
  <2>3. PICK c \in Calls : c = msg
    BY <2>1 DEF Owed
  <2>4. PICK e \in {"done", "unsupported"} : e = IF task = "ran" THEN "done" ELSE "unsupported"
    OBVIOUS
  <2>5. CASE HasCallback(c)
    BY <1>7, <2>2, <2>3, <2>5 DEF Reply, ResultInv
  <2>6. CASE ~HasCallback(c)
    <3>1. result_que' = <<[of |-> c, err |-> e]>> /\ told' = told /\ task' = "receive"
      BY <1>7, <2>2, <2>3, <2>4, <2>6 DEF Reply
    <3>2. PICK r \in Result : r = [of |-> c, err |-> e]
      BY Results DEF Errs
    <3>3. r.of = c /\ r.err # "timeout"
      BY <3>2
    <3>4. Waits(c)
      BY <2>1, <2>3, <2>6 DEF Owed, Waits
    <3>5. Owed(c)' /\ Waits(c)'
      BY <2>1, <2>3, <3>1, <3>4 DEF Owed, Waits, HasCallback
    <3>6. exe_que' = << >>
      BY <2>1, <2>3, <3>4
    <3> QED BY <3>1, <3>2, <3>3, <3>5, <3>6 DEF ResultInv
  <2> QED BY <2>5, <2>6
<1>8. CASE Leave
  <2>1. result_que = << >> /\ owner = "wait"
    BY <1>8 DEF Leave, IInv, ResultInv, OwnerInv, TypeOK
  <2> QED BY <1>8, <2>1 DEF Leave, ResultInv
<1>9. CASE Destroy \/ DestroySend
  <2>1. /\ owner \in {"idle", "send"} /\ owner' # "idle" /\ UNCHANGED <<pc, kind, result_que>>
    BY <1>9 DEF Destroy, DestroySend, callVars, queVars
  <2>2. \A d \in Calls : ~(Owed(d) /\ Waits(d))
    BY <2>1 DEF CalmInv, Outside, Owed, Waits, HasCallback
  <2>3. result_que = << >>
    BY <2>1, <2>2 DEF IInv, ResultInv, Owed
  <2> QED BY <2>1, <2>3 DEF ResultInv
<1>10. CASE DestroyReceive
  <2>1. PICK r \in Result : result_que = <<r>>
    BY <1>10, Results DEF DestroyReceive, IInv, ResultInv
  <2>2. result_que' = << >>
    BY <1>10, <2>1, One DEF DestroyReceive
  <2> QED BY <2>2 DEF ResultInv
<1>11. CASE UNCHANGED <<pc, kind, told, exe_que, result_que, task, owner>>
  BY <1>11 DEF IInv, ResultInv, Owed, Waits, HasCallback
<1> QED
  BY <1>1, <1>2, <1>3, <1>4, <1>5, <1>6, <1>7, <1>8, <1>9, <1>10, <1>11
     DEF Next, Step, Work, Ending, Register, vars, callVars, queVars, taskVars

LEMMA OwnerStep ==
  ASSUME TypeOK, IInv, CalmInv', [Next]_vars
  PROVE OwnerInv'
<1>1. ASSUME NEW c \in Calls, Begin(c) PROVE OwnerInv'
  <2>1. CASE Alive
    BY <1>1, <2>1 DEF Begin, Alive, IInv, OwnerInv, queVars, taskVars, NoQuit
  <2>2. CASE ~Alive
    BY <1>1, <2>2 DEF Begin, Create, OwnerInv, NoQuit
  <2> QED BY <2>1, <2>2
<1>2. ASSUME NEW c \in Calls, Send(c) PROVE OwnerInv'
  <2>1. exe_que' = Append(exe_que, c) /\ UNCHANGED <<owner, task, result_que>>
    BY <1>2 DEF Send, taskVars
  <2>2. /\ Len(exe_que) \in Nat /\ Len(exe_que') = Len(exe_que) + 1
        /\ \A i \in 1..Len(exe_que) : exe_que'[i] = exe_que[i]
        /\ exe_que'[Len(exe_que) + 1] = c
    BY <2>1, Putting
  <2>3. NoQuit' <=> NoQuit
    BY <2>2, CallsAssumption DEF NoQuit
  <2> QED BY <2>1, <2>3 DEF IInv, OwnerInv
<1>3. ASSUME NEW c \in Calls, Receive(c) PROVE OwnerInv'
  BY <1>3, Receiving DEF Receive, IInv, OwnerInv, NoQuit, taskVars
<1>4. CASE Take
  <2>1. /\ Len(exe_que) \in Nat \ {0} /\ Len(exe_que') = Len(exe_que) - 1
        /\ \A i \in 1..Len(exe_que') : exe_que'[i] = exe_que[i + 1]
        /\ \/ exe_que[1] = Quit /\ task' = "leave"
           \/ exe_que[1] # Quit /\ task' = "run"
        /\ task = "receive" /\ exe_que # << >> /\ owner # "freed"
        /\ UNCHANGED <<owner, result_que>>
    BY <1>4, Taking DEF Take, Alive
  <2>2. result_que = << >>
    BY <2>1 DEF IInv, ResultInv
  <2>3. exe_que[1] # Quit => (NoQuit' <=> NoQuit)
    <3>1. ASSUME exe_que[1] # Quit, NEW i \in 1..Len(exe_que), exe_que[i] = Quit
          PROVE i - 1 \in 1..Len(exe_que') /\ exe_que'[i - 1] = Quit
      BY <2>1, <3>1
    <3>2. \A i \in 1..Len(exe_que') : i + 1 \in 1..Len(exe_que) /\ exe_que'[i] = exe_que[i + 1]
      BY <2>1
    <3> QED BY <3>1, <3>2 DEF NoQuit
  <2>4. exe_que[1] = Quit => NoQuit' /\ ~NoQuit
    BY SMTT(30), <2>1 DEF NoQuit, IInv, QueueInv
  <2> QED BY <2>1, <2>2, <2>3, <2>4 DEF IInv, OwnerInv, TypeOK
<1>5. CASE Run \/ Reply
  <2>1. /\ task \in {"run", "ran", "unsupported"} /\ task' \notin {"leave", "gone"}
        /\ owner # "freed" /\ UNCHANGED <<owner, exe_que>>
    BY <1>5 DEF Run, Reply, callVars, queVars, Alive
  <2> QED BY <2>1 DEF IInv, OwnerInv, NoQuit
<1>6. CASE Leave
  <2>1. owner = "wait" /\ NoQuit /\ result_que = << >>
    BY <1>6 DEF Leave, Alive, IInv, OwnerInv, TypeOK
  <2> QED BY <1>6, <2>1 DEF Leave, IInv, OwnerInv, NoQuit
<1>7. CASE Destroy
  BY <1>7 DEF Destroy, IInv, OwnerInv, NoQuit, queVars, taskVars
<1>8. CASE DestroySend
  <2>1. exe_que' = Append(exe_que, Quit) /\ owner = "send" /\ owner' = "wait" /\ task' = task
    BY <1>8 DEF DestroySend, taskVars
  <2>2. ~NoQuit'
    <3>1. Len(exe_que') \in 1..Len(exe_que') /\ exe_que'[Len(exe_que')] = Quit
      BY <2>1, Putting
    <3> QED BY <3>1 DEF NoQuit
  <2> QED BY <2>1, <2>2 DEF IInv, OwnerInv
<1>9. CASE DestroyReceive
  <2>1. NoQuit /\ task = "gone" /\ result_que = <<QuitResult>>
    <3>1. owner = "wait" /\ result_que # << >>
      BY <1>9 DEF DestroyReceive
    <3>2. exe_que = << >> => NoQuit
      BY DEF NoQuit
    <3> QED BY <3>1, <3>2 DEF IInv, OwnerInv, ResultInv
  <2>2. result_que' = << >>
    BY <1>9, <2>1, Results, One DEF DestroyReceive
  <2> QED BY <1>9, <2>1, <2>2 DEF DestroyReceive, OwnerInv, NoQuit, taskVars
<1>10. CASE UNCHANGED <<exe_que, result_que, task, owner>>
  BY <1>10 DEF IInv, OwnerInv, NoQuit
<1> QED
  BY <1>1, <1>2, <1>3, <1>4, <1>5, <1>6, <1>7, <1>8, <1>9, <1>10
     DEF Next, Step, Work, Ending, Register, Lock, SendTimesOut, Unlock, vars, callVars, queVars, taskVars

\* What was accepted before the owner began is not lost.
LEMMA OwedStep ==
  ASSUME TypeOK, BaseInv, IInv, CalmInv', [Next]_vars
  PROVE OwedInv'
<1> SUFFICES ASSUME NEW c \in Calls \ met', Owed(c)', HasCallback(c)'
             PROVE \/ Active' /\ msg' = c
                   \/ /\ task' \notin {"leave", "gone"}
                      /\ \E i \in 1..Len(exe_que') : exe_que'[i] = c /\ \A j \in 1..i : exe_que'[j] # Quit
  BY DEF OwedInv
<1> DEFINE Place == \/ Active /\ msg = c
                    \/ /\ task \notin {"leave", "gone"}
                       /\ \E i \in 1..Len(exe_que) : exe_que[i] = c /\ \A j \in 1..i : exe_que[j] # Quit
<1>1. told'[c] = << >> /\ kind'[c] = "async" /\ pc'[c] \in {"unlock", "done"}
  BY DEF Owed, HasCallback, Waits
<1>2. met \subseteq met'
  BY DEF Next, Begin, Step, Lock, Send, SendTimesOut, Receive, Unlock, Register, Work, Take, Run,
         Reply, Leave, Destroy, Ending, DestroySend, DestroyReceive, vars
<1>3. told[c] = << >> /\ kind[c] = "async" /\ pc[c] \in {"unlock", "done"} => Place
  BY <1>2 DEF IInv, OwedInv, Owed, HasCallback, Waits
<1>4. ASSUME NEW d \in Calls, Begin(d) PROVE Place'
  <2>1. told' = told /\ pc'[d] = "lock" /\ \A e \in Calls \ {d} : pc'[e] = pc[e] /\ kind'[e] = kind[e]
    BY <1>4, Going DEF Begin, TypeOK
  <2>2. Place
    BY <1>1, <1>3, <2>1
  <2>3. CASE Alive
    BY <1>4, <2>2, <2>3 DEF Begin, queVars, taskVars, Active
  <2>4. CASE ~Alive
    BY <1>4, <2>2, <2>4 DEF Begin, Alive, Active
  <2> QED BY <2>3, <2>4
<1>5. ASSUME NEW d \in Calls, Lock(d) \/ SendTimesOut(d) \/ Unlock(d) PROVE Place'
  <2>1. UNCHANGED <<kind, exe_que, task, msg>>
    BY <1>5 DEF Lock, SendTimesOut, Unlock, queVars, taskVars
  <2>2. Place
    <3>1. CASE Lock(d) \/ Unlock(d)
      BY <1>1, <1>3, <3>1 DEF Lock, Unlock, GoTo, TypeOK
    <3>2. CASE SendTimesOut(d)
      <4>1. Hear(d, [of |-> d, err |-> "timeout"]) /\ pc' = [pc EXCEPT ![d] = "unlock"]
        BY <3>2 DEF SendTimesOut, IInv, CalmInv, GoTo
      <4>2. told'[d] = Append(told[d], [of |-> d, err |-> "timeout"]) /\ \A e \in Calls \ {d} : told'[e] = told[e]
        BY <4>1, Hearing, Results DEF Errs
      <4>3. Append(told[d], [of |-> d, err |-> "timeout"]) # << >>
        <5>1. told[d] \in Seq(Result) /\ [of |-> d, err |-> "timeout"] \in Result
          BY Results DEF TypeOK, Errs
        <5> HIDE DEF Result
        <5> QED BY <5>1, AppendProperties
      <4> QED BY <1>1, <1>3, <2>1, <4>1, <4>2, <4>3 DEF TypeOK
    <3> QED BY <1>5, <3>1, <3>2
  <2> QED BY <2>1, <2>2 DEF Active
<1>6. ASSUME NEW d \in Calls, Send(d) PROVE Place'
  <2>1. /\ exe_que' = Append(exe_que, d) /\ UNCHANGED <<kind, told, owner, met, task, msg>> /\ pc[d] = "send"
        /\ \A e \in Calls \ {d} : pc'[e] = pc[e]
    BY <1>6, Going DEF Send, taskVars
  <2>2. /\ Len(exe_que) \in Nat /\ Len(exe_que') = Len(exe_que) + 1
        /\ \A i \in 1..Len(exe_que) : exe_que'[i] = exe_que[i]
        /\ exe_que'[Len(exe_que) + 1] = d
    BY <2>1, Putting
  <2>3. CASE c # d
    <3>1. Place
      BY <1>1, <1>3, <2>1, <2>3
    <3> QED BY <2>1, <2>2, <3>1 DEF Active
  <2>4. CASE c = d
    <3>1. owner = "idle"
      BY <2>1, <2>4 DEF BaseInv, Outside
    <3>2. NoQuit /\ task \notin {"leave", "gone"}
      BY <3>1 DEF IInv, OwnerInv
    <3>3. \A j \in 1..(Len(exe_que) + 1) : exe_que'[j] # Quit
      BY <2>2, <3>2, CallsAssumption DEF NoQuit
    <3> QED BY <2>1, <2>2, <2>4, <3>2, <3>3
  <2> QED BY <2>3, <2>4
<1>7. ASSUME NEW d \in Calls, Receive(d) PROVE Place'
  <2>1. kind' = kind /\ exe_que = << >> /\ task = "receive" /\ pc[d] = "wait"
    BY <1>7, Receiving DEF Receive
  <2>2. kind[d] = "sync"
    BY <2>1 DEF IInv, ToldInv, Waits
  <2>3. pc'[c] = pc[c] /\ told'[c] = told[c]
    BY <1>1, <1>7, <2>1, <2>2 DEF Receive, GoTo, Hear, TypeOK
  <2> QED BY <1>1, <1>3, <2>1, <2>3 DEF Active
<1>8. CASE Take
  <2>1. /\ Len(exe_que) \in Nat \ {0} /\ Len(exe_que') = Len(exe_que) - 1
        /\ \A i \in 1..Len(exe_que') : exe_que'[i] = exe_que[i + 1]
        /\ exe_que[1] # Quit => task' = "run" /\ msg' = exe_que[1]
        /\ task = "receive" /\ UNCHANGED <<pc, kind, told>>
    BY <1>8, Taking DEF Take, callVars
  <2>2. PICK i \in 1..Len(exe_que) : exe_que[i] = c /\ \A j \in 1..i : exe_que[j] # Quit
    BY <1>1, <1>3, <2>1 DEF Active
  <2>3. task' = "run" /\ msg' = exe_que[1]
    BY <2>1, <2>2
  <2>4. CASE i = 1
    BY <2>2, <2>3, <2>4 DEF Active
  <2>5. CASE i # 1
    <3>1. i - 1 \in 1..Len(exe_que') /\ exe_que'[i - 1] = c
      BY <2>1, <2>2, <2>5
    <3>2. \A j \in 1..(i - 1) : exe_que'[j] # Quit
      <4>1. \A j \in 1..(i - 1) : j \in 1..Len(exe_que') /\ j + 1 \in 1..i
        BY <2>1
      <4> QED BY <2>1, <2>2, <4>1
    <3> QED BY <2>3, <3>1, <3>2
  <2> QED BY <2>4, <2>5
<1>9. CASE Reply
  <2>1. task' = "receive" /\ UNCHANGED <<pc, kind, exe_que, msg>> /\ Owed(msg)
    BY <1>9 DEF Reply, callVars, IInv, TaskInv, Active
  <2>2. PICK r \in Result : r = [of |-> msg, err |-> IF task = "ran" THEN "done" ELSE "unsupported"]
    BY <2>1, Results DEF Owed, Errs
  <2>3. CASE kind[msg] = "async"
    <3>1. Hear(msg, r) /\ msg \in Calls
      BY <1>9, <2>1, <2>2, <2>3 DEF Reply, HasCallback, Owed
    <3>2. told'[msg] = Append(told[msg], r) /\ \A e \in Calls \ {msg} : told'[e] = told[e]
      BY <3>1, Hearing
    <3>3. told'[msg] # << >>
      BY <3>1, <3>2, AppendProperties DEF TypeOK
    <3>4. c # msg /\ told[c] = << >>
      BY <1>1, <3>2, <3>3
    <3>5. Place
      BY <1>1, <1>3, <2>1, <3>4
    <3> QED BY <2>1, <3>4, <3>5
  <2>4. CASE kind[msg] # "async"
    <3>1. told' = told
      BY <1>9, <2>4 DEF Reply, HasCallback
    <3>2. Place /\ c # msg
      BY <1>1, <1>3, <2>1, <2>4, <3>1
    <3> QED BY <2>1, <3>2
  <2> QED BY <2>3, <2>4
<1>10. CASE Run \/ Leave
  BY <1>1, <1>3, <1>10 DEF Run, Leave, callVars, queVars, Active
<1>11. CASE DestroySend
  <2>1. exe_que' = Append(exe_que, Quit) /\ UNCHANGED <<pc, kind, told, task, msg>>
    BY <1>11 DEF DestroySend, callVars, taskVars
  <2>2. /\ Len(exe_que) \in Nat /\ Len(exe_que') = Len(exe_que) + 1
        /\ \A i \in 1..Len(exe_que) : exe_que'[i] = exe_que[i]
    BY <2>1, Putting
  <2>3. Place
    BY <1>1, <1>3, <2>1
  <2> QED BY <2>1, <2>2, <2>3 DEF Active
<1>12. CASE UNCHANGED <<pc, kind, told, exe_que, task, msg>>
  BY <1>1, <1>3, <1>12 DEF Active
<1> QED
  BY <1>4, <1>5, <1>6, <1>7, <1>8, <1>9, <1>10, <1>11, <1>12
     DEF Next, Step, Work, Ending, Register, Destroy, DestroyReceive, vars, callVars, queVars, taskVars
-----------------------------------------------------------------------------
(* Theorems *)

LEMMA Initially == Init => TypeOK /\ BaseInv /\ IInv
<1> SUFFICES ASSUME Init PROVE TypeOK /\ BaseInv /\ IInv
  OBVIOUS
<1>1. TypeOK /\ BaseInv /\ CalmInv
  BY EmptySeq DEF Init, TypeOK, Kinds, BaseInv, CalmInv, Active, Outside
<1>2. Len(exe_que) = 0 /\ exe_que = << >> /\ result_que = << >>
  BY DEF Init
<1>3. MutexInv /\ QueueInv /\ TaskInv /\ ResultInv
  BY <1>2, CallsAssumption DEF Init, MutexInv, Critical, QueueInv, TaskInv, Active, ResultInv
<1>4. ToldInv /\ OwnerInv /\ OwedInv
  BY <1>2 DEF Init, ToldInv, OwnerInv, NoQuit, OwedInv, Owed
<1> QED BY <1>1, <1>3, <1>4 DEF IInv

\* IInv holds until a call crosses the dispatcher, and what has been crossed stays so.
LEMMA Inductive == Spec => [](TypeOK /\ BaseInv /\ (~Crossed => IInv))
<1>1. TypeOK /\ BaseInv /\ [Next]_vars => TypeOK' /\ BaseInv'
  BY TypeStep, BaseStep
<1>2. TypeOK /\ BaseInv /\ [Next]_vars /\ ~Crossed' => ~Crossed /\ CalmInv'
  BY <1>1, CrossedStays, CalmNext
<1>3. TypeOK /\ BaseInv /\ IInv /\ CalmInv' /\ [Next]_vars => IInv'
  BY MutexStep, QueueStep, TaskStep, ResultStep, ToldStep, OwnerStep, OwedStep DEF IInv
<1>4. TypeOK /\ BaseInv /\ (~Crossed => IInv) /\ [Next]_vars => (TypeOK /\ BaseInv /\ (~Crossed => IInv))'
  BY <1>1, <1>2, <1>3
<1> QED BY Initially, <1>4, PTL DEF Spec

\* The variables of the dispatcher keep their types, crossed or not.
THEOREM TypeCorrect == Spec => []TypeOK
BY Inductive, PTL

\* A caller hears once, and of its own function (esp_dispatcher_execute and the
\* three functions like it), until a call crosses the dispatcher.
THEOREM HearsOwn == Spec => []OwnResult
<1>1. TypeOK /\ (~Crossed => IInv) => OwnResult
  BY DEF IInv, ToldInv, HeardOwn, OwnResult
<1> QED BY <1>1, Inductive, PTL

\* esp_dispatcher_destroy frees when the task has answered all who were accepted
\* before it began, and has left, although calls go on beside it.
THEOREM DrainsBeforeFree == Spec => []DestroyDrains
<1>1. TypeOK /\ (~Crossed => IInv) => DestroyDrains
  <2> SUFFICES ASSUME TypeOK, IInv, owner = "freed" PROVE
        task = "gone" /\ \A c \in Calls \ met : pc[c] = "done" => told[c] # << >>
    BY DEF DestroyDrains
  <2>1. task = "gone"
    BY DEF IInv, OwnerInv
  <2>2. ASSUME NEW c \in Calls \ met, pc[c] = "done", told[c] = << >> PROVE FALSE
    <3>1. HasCallback(c)
      <4>1. \A r : <<r>> # << >>
        OBVIOUS
      <4> QED BY <2>2, <4>1 DEF IInv, ToldInv, HeardOwn
    <3>2. Owed(c)
      BY <2>2, <3>1 DEF Owed
    <3> QED BY <2>1, <2>2, <3>1, <3>2 DEF IInv, OwedInv, Active
  <2> QED BY <2>1, <2>2
<1> QED BY <1>1, Inductive, PTL
-----------------------------------------------------------------------------
(* The refinement *)

\* Waiting is exe_que up to the message to quit, as long as the task takes from it.
WaitingOK ==
    /\ Waiting \in Seq(Calls)
    /\ Len(Waiting) \in Nat /\ Len(exe_que) \in Nat /\ Len(Waiting) <= Len(exe_que)
    /\ \A i \in 1..Len(Waiting) : Waiting[i] \in Calls /\ Waiting[i] = exe_que[i]
    /\ task \in {"leave", "gone"} => Waiting = << >>
    /\ task \notin {"leave", "gone"} =>
          Len(Waiting) = Len(exe_que) \/ exe_que[Len(Waiting) + 1] = Quit

LEMMA WaitingFacts ==
  ASSUME TypeOK, IInv
  PROVE WaitingOK
<1>1. /\ exe_que \in Seq(Calls \cup {Quit}) /\ Len(exe_que) \in Nat
      /\ \A i \in 1..Len(exe_que) : exe_que[i] \in Calls \cup {Quit}
  BY ElementOfSeq, LenProperties DEF TypeOK
<1>2. CASE task \in {"leave", "gone"}
  <2>1. Waiting = << >>
    BY <1>2 DEF Waiting
  <2>2. << >> \in Seq(Calls) /\ Len(<< >>) = 0
    OBVIOUS
  <2> QED BY <1>1, <1>2, <2>1, <2>2 DEF WaitingOK
<1>3. CASE task \notin {"leave", "gone"}
  <2> DEFINE n == QuitAt - 1
             w == SubSeq(exe_que, 1, n)
  <2>1. /\ n \in Nat /\ n <= Len(exe_que)
        /\ n = Len(exe_que) \/ exe_que[n + 1] = Quit
        /\ \A i \in 1..n : exe_que[i] # Quit
    <3>1. CASE \E i \in 1..Len(exe_que) : exe_que[i] = Quit
      <4>1. QuitAt \in 1..Len(exe_que) /\ exe_que[QuitAt] = Quit
        BY <3>1 DEF QuitAt
      <4>2. \A i \in 1..Len(exe_que) : exe_que[i] = exe_que[QuitAt] => i = QuitAt
        BY <4>1 DEF IInv, QueueInv
      <4> QED BY <1>1, <4>1, <4>2
    <3>2. CASE \A i \in 1..Len(exe_que) : exe_que[i] # Quit
      BY <1>1, <3>2 DEF QuitAt
    <3> QED BY <3>1, <3>2
  <2>2. \A i \in 1..n : exe_que[i] \in Calls
    BY <1>1, <2>1
  <2>3. w \in Seq(Calls) /\ Len(w) = n /\ \A i \in 1..n : w[i] = exe_que[i]
    <3>1. w \in Seq(Calls) /\ Len(w) = (IF 1 <= n THEN n - 1 + 1 ELSE 0)
          /\ \A i \in 1..(n - 1 + 1) : w[i] = exe_que[1 + i - 1]
      <4> HIDE DEF n
      <4> QED BY <1>1, <2>1, <2>2, SubSeqProperties
    <3> HIDE DEF n, w
    <3> QED BY <2>1, <3>1
  <2>4. Waiting = w
    BY <1>3 DEF Waiting
  <2> HIDE DEF n, w
  <2> QED BY <1>1, <1>3, <2>1, <2>2, <2>3, <2>4 DEF WaitingOK
<1> QED BY <1>2, <1>3

\* The line is what runs and then what waits.
LEMMA LineFacts ==
  ASSUME TypeOK, IInv
  PROVE /\ lineBar \in Seq(Calls)
        /\ task # "run" => lineBar = Waiting
        /\ task = "run" => /\ lineBar = <<msg>> \o Waiting
                           /\ Len(lineBar) = 1 + Len(Waiting) /\ lineBar[1] = msg
                           /\ \A i \in 1..Len(Waiting) : lineBar[i + 1] = Waiting[i]
                           /\ lineBar # << >> /\ Head(lineBar) = msg /\ Tail(lineBar) = Waiting
<1>1. Waiting \in Seq(Calls) /\ Len(Waiting) \in Nat
  BY WaitingFacts DEF WaitingOK
<1>2. CASE task # "run"
  BY <1>1, <1>2 DEF lineBar
<1>3. CASE task = "run"
  <2>1. msg \in Calls
    BY <1>3 DEF IInv, TaskInv, Active, Owed
  <2>2. <<msg>> \in Seq(Calls) /\ Len(<<msg>>) = 1
    BY <2>1
  <2>3. lineBar = <<msg>> \o Waiting
    BY <1>3 DEF lineBar
  <2>4. /\ lineBar \in Seq(Calls) /\ Len(lineBar) = 1 + Len(Waiting)
        /\ \A i \in 1..(1 + Len(Waiting)) : lineBar[i] = IF i <= 1 THEN <<msg>>[i] ELSE Waiting[i - 1]
    BY <1>1, <2>2, <2>3, ConcatProperties
  <2>5. lineBar[1] = msg /\ \A i \in 1..Len(Waiting) : lineBar[i + 1] = Waiting[i]
    BY <1>1, <2>4
  <2>6. lineBar # << >>
    BY <1>1, <2>4, EmptySeq
  <2>7. /\ Tail(lineBar) \in Seq(Calls) /\ Len(Tail(lineBar)) = Len(lineBar) - 1
        /\ \A i \in 1..Len(Tail(lineBar)) : Tail(lineBar)[i] = lineBar[i + 1]
    BY <2>4, <2>6, HeadTailProperties
  <2>8. Tail(lineBar) = Waiting
    <3>1. Len(Tail(lineBar)) = Len(Waiting) /\ \A i \in 1..Len(Waiting) : Tail(lineBar)[i] = Waiting[i]
      BY <1>1, <2>4, <2>5, <2>7
    <3> QED BY <1>1, <2>7, <3>1, SeqEqual
  <2>9. Head(lineBar) = msg
    BY <2>4, <2>5, <2>6
  <2> QED BY <1>3, <2>3, <2>4, <2>5, <2>6, <2>8, <2>9
<1> QED BY <1>2, <1>3

\* The same of the next state.
LineOK ==
    /\ lineBar \in Seq(Calls)
    /\ task = "run" => /\ Len(lineBar) = 1 + Len(Waiting) /\ lineBar[1] = msg
                       /\ \A i \in 1..Len(Waiting) : lineBar[i + 1] = Waiting[i]

LEMMA LineNext == TypeOK' /\ IInv' => WaitingOK' /\ LineOK'
<1>1. TypeOK /\ IInv => WaitingOK /\ LineOK
  BY WaitingFacts, LineFacts DEF LineOK
<1> QED BY <1>1, PTL

\* What is added to the queue behind the message to quit, or is that message, waits
\* for nothing.
LEMMA WaitingSame ==
  ASSUME TypeOK, IInv, TypeOK', IInv',
         task \in {"leave", "gone"} <=> task' \in {"leave", "gone"},
         Len(exe_que) <= Len(exe_que'),
         \A i \in 1..Len(exe_que) : exe_que'[i] = exe_que[i],
         \/ Len(Waiting) < Len(exe_que)
         \/ Len(exe_que') = Len(exe_que)
         \/ exe_que'[Len(exe_que) + 1] = Quit
  PROVE Waiting' = Waiting
<1>1. WaitingOK /\ WaitingOK'
  BY WaitingFacts, LineNext
<1>2. CASE task \in {"leave", "gone"}
  BY <1>1, <1>2 DEF WaitingOK
<1>3. CASE task \notin {"leave", "gone"}
  <2>1. ~(Len(Waiting') < Len(Waiting))
    <3> SUFFICES ASSUME Len(Waiting') < Len(Waiting) PROVE FALSE
      OBVIOUS
    <3>1. Len(Waiting') + 1 \in 1..Len(Waiting) /\ Len(Waiting') + 1 \in 1..Len(exe_que)
          /\ Len(Waiting') # Len(exe_que')
      BY <1>1 DEF WaitingOK
    <3>2. exe_que'[Len(Waiting') + 1] = Quit
      BY <1>1, <1>3, <3>1 DEF WaitingOK
    <3>3. exe_que[Len(Waiting') + 1] \in Calls
      BY <1>1, <3>1 DEF WaitingOK
    <3> QED BY <3>1, <3>2, <3>3, CallsAssumption
  <2>2. ~(Len(Waiting) < Len(Waiting'))
    <3> SUFFICES ASSUME Len(Waiting) < Len(Waiting') PROVE FALSE
      OBVIOUS
    <3>1. Len(Waiting) + 1 \in 1..Len(Waiting') /\ Len(Waiting) < Len(exe_que')
      BY <1>1 DEF WaitingOK
    <3>2. exe_que'[Len(Waiting) + 1] \in Calls
      BY <1>1, <3>1 DEF WaitingOK
    <3>3. CASE Len(Waiting) < Len(exe_que)
      <4>1. Len(Waiting) + 1 \in 1..Len(exe_que) /\ exe_que[Len(Waiting) + 1] = Quit
        BY <1>1, <1>3, <3>3 DEF WaitingOK
      <4> QED BY <3>2, <4>1, CallsAssumption
    <3>4. CASE Len(Waiting) = Len(exe_que)
      BY <1>1, <3>1, <3>2, <3>4, CallsAssumption DEF WaitingOK
    <3> QED BY <1>1, <3>3, <3>4 DEF WaitingOK
  <2>3. Len(Waiting') = Len(Waiting)
    BY <1>1, <2>1, <2>2 DEF WaitingOK
  <2>4. \A i \in 1..Len(Waiting) : Waiting'[i] = Waiting[i]
    <3>1. \A i \in 1..Len(Waiting) : i \in 1..Len(exe_que)
      BY <1>1 DEF WaitingOK
    <3> QED BY <1>1, <2>3, <3>1 DEF WaitingOK
  <2> QED BY <1>1, <2>3, <2>4, SeqEqual DEF WaitingOK
<1> QED BY <1>2, <1>3

\* What phase a call is in depends on three things.
LEMMA PhaseSame ==
  ASSUME NEW c, told'[c] = told[c], Ran(c)' = Ran(c), Accepted(c)' = Accepted(c)
  PROVE PhaseOf(c)' = PhaseOf(c)
BY DEF PhaseOf

\* The phase of what is queued, running or posted.
LEMMA PhaseFacts ==
  ASSUME TypeOK, IInv, NEW c \in Calls
  PROVE /\ Accepted(c) => Owed(c) /\ ~Ran(c)
        /\ Ran(c) => Owed(c)
        /\ ~Owed(c) /\ told[c] = << >> => PhaseOf(c) = "new"
<1>1. \A i \in 1..Len(Waiting) : /\ i \in 1..Len(exe_que) /\ Waiting[i] = exe_que[i]
                                /\ Waiting[i] \in Calls /\ task \notin {"leave", "gone"}
  BY WaitingFacts, EmptySeq DEF WaitingOK
<1>2. ASSUME NEW i \in 1..Len(Waiting), Waiting[i] = c
      PROVE /\ Owed(c) /\ exe_que # << >> /\ task \notin {"leave", "gone"}
            /\ Active => msg # c
  <2>1. i \in 1..Len(exe_que) /\ exe_que[i] = c /\ task \notin {"leave", "gone"}
    BY <1>1, <1>2
  <2> QED BY <2>1, CallsAssumption, EmptySeq DEF IInv, QueueInv, TaskInv
<1>3. CASE result_que = << >>
  <2>1. Ran(c) <=> task \in {"ran", "unsupported"} /\ msg = c
    BY <1>3, EmptySeq DEF Ran
  <2> QED BY <1>2, <2>1 DEF Accepted, IInv, TaskInv, Active, PhaseOf
<1>4. CASE result_que # << >>
  <2>1. PICK r \in Result : result_que = <<r>> /\ Len(result_que) = 1 /\ result_que[1] = r
    BY <1>4, Results, One DEF IInv, ResultInv
  <2>2. \/ Owed(r.of) /\ exe_que = << >> /\ task = "receive"
        \/ r = QuitResult /\ task = "gone"
    BY <1>4, <2>1 DEF IInv, ResultInv
  <2>3. Ran(c) <=> r.of = c
    BY <2>1, <2>2 DEF Ran
  <2>4. ~Accepted(c)
    BY <1>2, <2>2 DEF Accepted
  <2> QED BY <2>2, <2>3, <2>4, CallsAssumption DEF PhaseOf, QuitResult
<1> QED BY <1>3, <1>4

\* A step that changes neither what was told nor what is under way.
LEMMA Unseen ==
  ASSUME told' = told, lineBar' = lineBar,
         \A c \in Calls : Ran(c)' = Ran(c) /\ Accepted(c)' = Accepted(c)
  PROVE UNCHANGED E!absVars
<1>1. \A c \in Calls : PhaseOf(c)' = PhaseOf(c)
  BY PhaseSame
<1>2. phaseBar' = phaseBar
  BY <1>1, Zenon DEF phaseBar
<1> QED BY <1>2 DEF E!absVars

LEMMA UnseenSame ==
  ASSUME UNCHANGED <<told, queVars, taskVars>>
  PROVE UNCHANGED E!absVars
BY Unseen DEF lineBar, Waiting, QuitAt, Ran, Accepted, queVars, taskVars

\* A step that changes the phase of c only.
LEMMA PhaseMoves ==
  ASSUME NEW c \in Calls, NEW p, PhaseOf(c)' = p,
         \A d \in Calls \ {c} : PhaseOf(d)' = PhaseOf(d)
  PROVE phaseBar' = [phaseBar EXCEPT ![c] = p]
BY DEF phaseBar

LEMMA PhaseOthers ==
  ASSUME NEW c \in Calls,
         \A d \in Calls \ {c} : told'[d] = told[d] /\ Ran(d)' = Ran(d) /\ Accepted(d)' = Accepted(d)
  PROVE \A d \in Calls \ {c} : PhaseOf(d)' = PhaseOf(d)
BY PhaseSame

\* Whoever hears leaves "ran" for "answered".
LEMMA Answering ==
  ASSUME TypeOK, IInv, NEW c \in Calls, NEW e \in {"done", "unsupported"},
         Ran(c), Hear(c, [of |-> c, err |-> e]), lineBar' = lineBar,
         \A d \in Calls \ {c} : Ran(d)' = Ran(d) /\ Accepted(d)' = Accepted(d)
  PROVE E!Answer(c)
<1> DEFINE r == [of |-> c, err |-> e]
<1>1. told[c] = << >> /\ told \in [Calls -> Seq(Result)]
  BY PhaseFacts DEF Owed, TypeOK
<1>2. /\ told'[c] = Append(told[c], r) /\ \A d \in Calls \ {c} : told'[d] = told[d]
      /\ told' \in [Calls -> Seq(Result)]
  BY Hearing, Results DEF Errs
<1>3. told'[c] = <<r>>
  BY <1>1, <1>2
<1>4. told' = [told EXCEPT ![c] = <<r>>]
  <2> HIDE DEF r
  <2> QED BY <1>1, <1>2, <1>3
<1>5. PhaseOf(c) = "ran"
  BY <1>1 DEF PhaseOf
<1>6. PhaseOf(c)' = "answered"
  BY <1>3 DEF PhaseOf
<1>7. phaseBar' = [phaseBar EXCEPT ![c] = "answered"]
  BY <1>2, <1>6, PhaseOthers, PhaseMoves
<1>8. phaseBar[c] = "ran"
  BY <1>5 DEF phaseBar
<1> QED BY <1>4, <1>7, <1>8 DEF E!Answer

\* What is put into the queue before the message to quit is accepted; what comes
\* behind it is of no account.
LEMMA SendRefines ==
  ASSUME TypeOK, IInv, NEW c \in Calls, Send(c), TypeOK', IInv'
  PROVE E!Accept(c) \/ UNCHANGED E!absVars
<1>1. /\ exe_que' = Append(exe_que, c)
      /\ UNCHANGED <<told, task, msg, result_que, owner>>
  BY DEF Send, taskVars
<1>2. /\ Len(exe_que) \in Nat /\ Len(exe_que') = Len(exe_que) + 1
      /\ \A i \in 1..Len(exe_que) : exe_que'[i] = exe_que[i]
      /\ exe_que'[Len(exe_que) + 1] = c
  BY <1>1, Putting
<1>3. WaitingOK /\ WaitingOK'
  BY WaitingFacts, LineNext
<1>4. \A d \in Calls : Ran(d)' = Ran(d)
  BY <1>1 DEF Ran
<1>5. CASE Waiting' = Waiting
  <2>1. lineBar' = lineBar /\ \A d \in Calls : Accepted(d)' = Accepted(d)
    BY <1>1, <1>5 DEF lineBar, Accepted
  <2> QED BY <1>1, <1>4, <2>1, Unseen
<1>6. CASE Waiting' # Waiting
  <2>1. Len(Waiting) = Len(exe_que) /\ task \notin {"leave", "gone"}
    BY <1>1, <1>2, <1>3, <1>6, WaitingSame DEF WaitingOK
  <2>2. Len(Waiting') = Len(exe_que')
    <3>1. ASSUME Len(Waiting') < Len(exe_que') PROVE FALSE
      <4>1. exe_que'[Len(Waiting') + 1] = Quit
        BY <1>1, <1>3, <2>1, <3>1 DEF WaitingOK
      <4>2. Len(Waiting') + 1 # Len(exe_que) + 1
        BY <1>2, <4>1, CallsAssumption
      <4>3. Len(Waiting') + 1 \in 1..Len(Waiting)
        BY <1>2, <1>3, <2>1, <3>1, <4>2 DEF WaitingOK
      <4>4. exe_que[Len(Waiting') + 1] \in Calls
        BY <1>3, <4>3 DEF WaitingOK
      <4> QED BY <1>2, <2>1, <4>1, <4>3, <4>4, CallsAssumption
    <3> QED BY <1>3, <3>1 DEF WaitingOK
  <2>3. /\ Append(Waiting, c) \in Seq(Calls) /\ Len(Append(Waiting, c)) = Len(Waiting) + 1
        /\ \A i \in 1..Len(Waiting) : Append(Waiting, c)[i] = Waiting[i]
        /\ Append(Waiting, c)[Len(Waiting) + 1] = c
    BY <1>3, AppendProperties DEF WaitingOK
  <2>4. \A i \in 1..Len(Waiting') : Waiting'[i] = Append(Waiting, c)[i]
    BY <1>2, <1>3, <2>1, <2>2, <2>3 DEF WaitingOK
  <2>5. Waiting' = Append(Waiting, c)
    BY <1>2, <1>3, <2>1, <2>2, <2>3, <2>4, SeqEqual DEF WaitingOK
  <2>6. lineBar' = Append(lineBar, c)
    <3>1. CASE task = "run"
      <4>1. msg \in Calls /\ Waiting \in Seq(Calls)
        BY <1>3, <3>1 DEF WaitingOK, IInv, TaskInv, Active, Owed
      <4>2. <<msg>> \o Append(Waiting, c) = Append(<<msg>> \o Waiting, c)
        BY <4>1
      <4> QED BY <1>1, <2>5, <3>1, <4>2 DEF lineBar
    <3>2. CASE task # "run"
      BY <1>1, <2>5, <3>2 DEF lineBar
    <3> QED BY <3>1, <3>2
  <2>7. ~Owed(c) /\ told[c] = << >>
    BY NotYet DEF Send
  <2>8. PhaseOf(c) = "new"
    BY <2>7, PhaseFacts
  <2>9. Accepted(c)'
    BY <1>2, <2>1, <2>2, <2>3, <2>5 DEF Accepted
  <2>10. PhaseOf(c)' = "accepted"
    <3>1. ~Ran(c)'
      BY <1>4, <2>7, PhaseFacts
    <3> QED BY <1>1, <2>7, <2>9, <3>1 DEF PhaseOf
  <2>11. \A d \in Calls \ {c} : Accepted(d)' = Accepted(d)
    <3>1. \A d \in Calls \ {c} : (\E i \in 1..Len(Waiting') : Waiting'[i] = d)
                                 <=> (\E i \in 1..Len(Waiting) : Waiting[i] = d)
      BY <1>2, <2>1, <2>2, <2>3, <2>5
    <3> QED BY <1>1, <3>1 DEF Accepted
  <2>12. \A d \in Calls \ {c} : PhaseOf(d)' = PhaseOf(d)
    BY <1>1, <1>4, <2>11, PhaseOthers
  <2>13. phaseBar[c] = "new" /\ phaseBar' = [phaseBar EXCEPT ![c] = "accepted"]
    BY <2>8, <2>10, <2>12, PhaseMoves DEF phaseBar
  <2> QED BY <1>1, <2>6, <2>13 DEF E!Accept
<1> QED BY <1>5, <1>6

LEMMA RefuseRefines ==
  ASSUME TypeOK, IInv, NEW c \in Calls, SendTimesOut(c)
  PROVE E!Refuse(c)
<1> DEFINE r == [of |-> c, err |-> "timeout"]
<1>1. ~Owed(c) /\ told[c] = << >> /\ told \in [Calls -> Seq(Result)]
  BY NotYet DEF SendTimesOut, TypeOK
<1>2. Hear(c, r) /\ UNCHANGED <<exe_que, result_que, task, msg>>
  BY DEF SendTimesOut, queVars, taskVars, IInv, CalmInv
<1>3. /\ told'[c] = Append(told[c], r) /\ \A d \in Calls \ {c} : told'[d] = told[d]
      /\ told' \in [Calls -> Seq(Result)]
  BY <1>2, Hearing, Results DEF Errs
<1>4. told'[c] = <<r>>
  BY <1>1, <1>3
<1>5. told' = [told EXCEPT ![c] = <<r>>]
  <2> HIDE DEF r
  <2> QED BY <1>1, <1>3, <1>4
<1>6. PhaseOf(c)' = "refused"
  BY <1>4 DEF PhaseOf
<1>7. \A d \in Calls \ {c} : Ran(d)' = Ran(d) /\ Accepted(d)' = Accepted(d)
  BY <1>2 DEF Ran, Accepted, Waiting, QuitAt
<1>8. phaseBar' = [phaseBar EXCEPT ![c] = "refused"] /\ phaseBar[c] = "new"
  <2>1. \A d \in Calls \ {c} : PhaseOf(d)' = PhaseOf(d)
    BY <1>3, <1>7, PhaseOthers
  <2>2. PhaseOf(c) = "new"
    BY <1>1, PhaseFacts
  <2> QED BY <1>6, <2>1, <2>2, PhaseMoves DEF phaseBar
<1>9. lineBar' = lineBar
  BY <1>2 DEF lineBar, Waiting, QuitAt
<1> QED BY <1>5, <1>8, <1>9 DEF E!Refuse

LEMMA TakeRefines ==
  ASSUME TypeOK, IInv, Take, TypeOK', IInv'
  PROVE UNCHANGED E!absVars
<1>1. /\ Len(exe_que) \in Nat \ {0} /\ Len(exe_que') = Len(exe_que) - 1
      /\ \A i \in 1..Len(exe_que') : exe_que'[i] = exe_que[i + 1]
      /\ \/ exe_que[1] = Quit /\ task' = "leave" /\ msg' = msg
         \/ exe_que[1] # Quit /\ task' = "run" /\ msg' = exe_que[1]
      /\ task = "receive"
      /\ UNCHANGED <<told, result_que>>
  BY Taking DEF Take, callVars
<1>2. lineBar = Waiting
  BY <1>1, LineFacts
<1>3. WaitingOK /\ WaitingOK' /\ LineOK'
  BY WaitingFacts, LineNext
<1>4. \A c \in Calls : Ran(c)' = Ran(c)
  BY <1>1 DEF Ran
<1>5. CASE exe_que[1] = Quit
  <2>1. Waiting = << >>
    <3>1. ~(1 \in 1..Len(Waiting))
      BY <1>3, <1>5, CallsAssumption DEF WaitingOK
    <3> QED BY <1>3, <3>1, EmptySeq DEF WaitingOK
  <2>2. Waiting' = << >> /\ task' = "leave" /\ msg' = msg
    BY <1>1, <1>3, <1>5 DEF WaitingOK
  <2>3. lineBar' = lineBar
    BY <1>2, <2>1, <2>2 DEF lineBar
  <2>4. \A c \in Calls : Accepted(c)' = Accepted(c)
    BY <1>1, <2>1, <2>2 DEF Accepted
  <2> QED BY <1>1, <1>4, <2>3, <2>4, Unseen
<1>6. CASE exe_que[1] # Quit
  <2>1. Len(Waiting) \in Nat \ {0}
    BY <1>1, <1>3, <1>6 DEF WaitingOK
  <2>2. Len(Waiting') = Len(Waiting) - 1
    <3>1. ~(Len(Waiting') < Len(Waiting) - 1)
      <4> SUFFICES ASSUME Len(Waiting') < Len(Waiting) - 1 PROVE FALSE
        OBVIOUS
      <4>1. /\ Len(Waiting') + 2 \in 1..Len(Waiting)
            /\ Len(Waiting') + 1 \in 1..Len(exe_que') /\ Len(Waiting') # Len(exe_que')
        BY <1>1, <1>3 DEF WaitingOK
      <4>2. exe_que'[Len(Waiting') + 1] = Quit
        BY <1>1, <1>3, <1>6, <4>1 DEF WaitingOK
      <4>3. exe_que'[Len(Waiting') + 1] = exe_que[Len(Waiting') + 2]
        <5>1. (Len(Waiting') + 1) + 1 = Len(Waiting') + 2
          BY <1>3 DEF WaitingOK
        <5> QED BY <1>1, <4>1, <5>1
      <4>4. exe_que[Len(Waiting') + 2] \in Calls
        BY <1>3, <4>1 DEF WaitingOK
      <4> QED BY <4>2, <4>3, <4>4, CallsAssumption
    <3>2. ~(Len(Waiting') > Len(Waiting) - 1)
      <4> SUFFICES ASSUME Len(Waiting') > Len(Waiting) - 1 PROVE FALSE
        OBVIOUS
      <4>1. /\ Len(Waiting) \in 1..Len(Waiting') /\ Len(Waiting) \in 1..Len(exe_que')
            /\ Len(Waiting) # Len(exe_que)
        BY <1>1, <1>3, <2>1 DEF WaitingOK
      <4>2. exe_que[Len(Waiting) + 1] = Quit
        BY <1>1, <1>3, <4>1 DEF WaitingOK
      <4>3. exe_que'[Len(Waiting)] = exe_que[Len(Waiting) + 1]
        BY <1>1, <4>1
      <4>4. exe_que'[Len(Waiting)] \in Calls
        BY <1>3, <4>1 DEF WaitingOK
      <4> QED BY <4>2, <4>3, <4>4, CallsAssumption
    <3> QED BY <1>3, <2>1, <3>1, <3>2 DEF WaitingOK
  <2>3. /\ lineBar' \in Seq(Calls)
        /\ Len(lineBar') = 1 + Len(Waiting') /\ lineBar'[1] = msg'
        /\ \A i \in 1..Len(Waiting') : lineBar'[i + 1] = Waiting'[i]
    BY <1>1, <1>3, <1>6 DEF LineOK
  <2>4. \A i \in 1..Len(Waiting) : lineBar'[i] = Waiting[i]
    <3> SUFFICES ASSUME NEW i \in 1..Len(Waiting) PROVE lineBar'[i] = Waiting[i]
      OBVIOUS
    <3>1. CASE i = 1
      BY <1>1, <1>3, <1>6, <2>3, <3>1 DEF WaitingOK
    <3>2. CASE i # 1
      <4>1. PICK j \in 1..Len(Waiting') : i = j + 1
        <5>1. i - 1 \in 1..Len(Waiting') /\ i = (i - 1) + 1
          BY <1>3, <2>2, <3>2 DEF WaitingOK
        <5> QED BY <5>1
      <4>2. lineBar'[i] = Waiting'[j] /\ Waiting'[j] = exe_que'[j]
        BY <1>3, <2>3, <4>1 DEF WaitingOK
      <4>3. j \in 1..Len(exe_que')
        BY <1>1, <1>3, <4>1 DEF WaitingOK
      <4>4. exe_que'[j] = exe_que[j + 1] /\ Waiting[i] = exe_que[i]
        BY <1>1, <1>3, <4>3 DEF WaitingOK
      <4> QED BY <4>1, <4>2, <4>4
    <3> QED BY <3>1, <3>2
  <2>5. lineBar' = lineBar
    BY <1>2, <1>3, <2>1, <2>2, <2>3, <2>4, SeqEqual DEF WaitingOK
  <2>6. \A c \in Calls : Accepted(c)' = Accepted(c)
    <3> SUFFICES ASSUME NEW c \in Calls PROVE Accepted(c)' = Accepted(c)
      OBVIOUS
    <3>1. Accepted(c) <=> \E i \in 1..Len(Waiting) : Waiting[i] = c
      BY <1>1 DEF Accepted
    <3>2. Accepted(c)' <=> (msg' = c \/ \E i \in 1..Len(Waiting') : Waiting'[i] = c)
      BY <1>1, <1>6 DEF Accepted
    <3>3. (\E i \in 1..Len(Waiting) : Waiting[i] = c)
            <=> (msg' = c \/ \E i \in 1..Len(Waiting') : Waiting'[i] = c)
      <4>1. ASSUME NEW i \in 1..Len(Waiting), Waiting[i] = c, i # 1
            PROVE \E j \in 1..Len(Waiting') : Waiting'[j] = c
        <5>1. i - 1 \in 1..Len(Waiting') /\ (i - 1) + 1 = i
          BY <1>3, <2>2, <4>1 DEF WaitingOK
        <5>2. Waiting'[i - 1] = lineBar'[i]
          BY <2>3, <5>1
        <5> QED BY <2>4, <4>1, <5>1, <5>2
      <4>2. 1 \in 1..Len(Waiting) /\ Waiting[1] = msg'
        BY <2>1, <2>3, <2>4
      <4>3. \A j \in 1..Len(Waiting') : j + 1 \in 1..Len(Waiting) /\ Waiting[j + 1] = Waiting'[j]
        BY <1>3, <2>2, <2>3, <2>4 DEF WaitingOK
      <4> QED BY <4>1, <4>2, <4>3
    <3> QED BY <3>1, <3>2, <3>3 DEF Accepted
  <2> QED BY <1>1, <1>4, <2>5, <2>6, Unseen
<1> QED BY <1>1, <1>5, <1>6

LEMMA RunRefines ==
  ASSUME TypeOK, IInv, Run, TypeOK', IInv'
  PROVE E!Run(msg)
<1>1. /\ task = "run" /\ task' \in {"ran", "unsupported"} /\ result_que = << >>
      /\ UNCHANGED <<told, exe_que, result_que, msg>>
  BY DEF Run, callVars, queVars, IInv, ResultInv
<1>2. msg \in Calls /\ told[msg] = << >> /\ \A i \in 1..Len(exe_que) : exe_que[i] # msg
  BY <1>1 DEF IInv, TaskInv, Active, Owed
<1>3. \A d : ~Ran(d)
  BY <1>1, EmptySeq DEF Ran
<1>4. lineBar # << >> /\ Head(lineBar) = msg /\ Tail(lineBar) = Waiting
  BY <1>1, LineFacts
<1>5. lineBar' = Waiting
  BY <1>1 DEF lineBar, Waiting, QuitAt
<1>6. PhaseOf(msg) = "accepted"
  BY <1>1, <1>2, <1>3 DEF PhaseOf, Accepted
<1>7. \A d \in Calls : PhaseOf(d) # "ran"
  BY <1>3 DEF PhaseOf
<1>8. \A d \in Calls \ {msg} : PhaseOf(d)' = PhaseOf(d)
  <2>1. \A d \in Calls \ {msg} : Ran(d)' = Ran(d) /\ Accepted(d)' = Accepted(d)
    BY <1>1 DEF Ran, Accepted, Waiting, QuitAt
  <2> QED BY <1>1, <1>2, <2>1, PhaseOthers
<1>9. PICK c \in Calls : c = msg
  BY <1>2
<1>10. PhaseOf(c)' = "ran"
  BY <1>1, <1>2, <1>9 DEF PhaseOf, Ran
<1>11. phaseBar' = [phaseBar EXCEPT ![c] = "ran"] /\ phaseBar[c] = "accepted"
  BY <1>6, <1>8, <1>9, <1>10, PhaseMoves DEF phaseBar
<1>12. \A d \in Calls : phaseBar[d] # "ran"
  BY <1>7 DEF phaseBar
<1> QED BY <1>1, <1>4, <1>5, <1>9, <1>11, <1>12 DEF E!Run

LEMMA ReplyRefines ==
  ASSUME TypeOK, IInv, Reply, TypeOK', IInv'
  PROVE E!Answer(msg) \/ UNCHANGED E!absVars
<1>1. /\ Owed(msg) /\ task \in {"ran", "unsupported"} /\ task' = "receive" /\ result_que = << >>
      /\ UNCHANGED <<exe_que, msg>>
  BY DEF Reply, IInv, TaskInv, ResultInv, Active
<1>2. PICK c \in Calls : c = msg
  BY <1>1 DEF Owed
<1>3. PICK e \in {"done", "unsupported"} : e = IF task = "ran" THEN "done" ELSE "unsupported"
  OBVIOUS
<1>4. lineBar' = lineBar
  BY <1>1 DEF lineBar, Waiting, QuitAt
<1>5. \A d \in Calls : Accepted(d)' = Accepted(d)
  BY <1>1 DEF Accepted, Waiting, QuitAt
<1>6. \A d : Ran(d) <=> d = msg
  BY <1>1, EmptySeq DEF Ran
<1>7. CASE HasCallback(c)
  <2>1. Hear(c, [of |-> c, err |-> e]) /\ result_que' = result_que
    BY <1>2, <1>3, <1>7 DEF Reply
  <2>2. \A d \in Calls \ {c} : Ran(d)' = Ran(d)
    BY <1>1, <1>2, <2>1, EmptySeq DEF Ran
  <2> QED BY <1>2, <1>4, <1>5, <1>6, <2>1, <2>2, Answering
<1>8. CASE ~HasCallback(c)
  <2>1. told' = told /\ result_que' = <<[of |-> c, err |-> e]>>
    BY <1>1, <1>2, <1>3, <1>8 DEF Reply
  <2>2. \A d \in Calls : Ran(d)' <=> d = c
    BY <1>1, <2>1 DEF Ran
  <2>3. \A d \in Calls : Ran(d)' = Ran(d)
    BY <1>2, <1>6, <2>2 DEF Ran
  <2> QED BY <1>4, <1>5, <2>1, <2>3, Unseen
<1> QED BY <1>7, <1>8

LEMMA ReceiveRefines ==
  ASSUME TypeOK, IInv, NEW c \in Calls, Receive(c)
  PROVE E!Answer(c)
<1>1. /\ exe_que = << >> /\ task = "receive"
      /\ UNCHANGED <<exe_que, task, msg>>
  BY Receiving DEF Receive, taskVars
<1>2. PICK r \in Result : result_que = <<r>> /\ r.of = c /\ r.err # "timeout"
  BY Receiving
<1>3. PICK e \in {"done", "unsupported"} : r = [of |-> c, err |-> e]
  BY <1>2, Results DEF Errs
<1>4. result_que' = << >> /\ Hear(c, [of |-> c, err |-> e])
  BY <1>2, <1>3, One DEF Receive
<1>5. Ran(c) /\ \A d \in Calls \ {c} : ~Ran(d)
  BY <1>1, <1>2, One DEF Ran
<1>6. \A d \in Calls : ~Ran(d)'
  BY <1>1, <1>4, EmptySeq DEF Ran
<1>7. \A d \in Calls \ {c} : Ran(d)' = Ran(d) /\ Accepted(d)' = Accepted(d)
  BY <1>1, <1>5, <1>6 DEF Accepted, Waiting, QuitAt, Ran
<1>8. lineBar' = lineBar
  BY <1>1 DEF lineBar, Waiting, QuitAt
<1> QED BY <1>4, <1>5, <1>7, <1>8, Answering

\* What the owner does concerns nobody.
LEMMA OwnerUnseen ==
  ASSUME TypeOK, IInv, TypeOK', IInv', DestroySend \/ DestroyReceive \/ Leave
  PROVE UNCHANGED E!absVars
<1>1. CASE DestroySend
  <2>1. exe_que' = Append(exe_que, Quit) /\ UNCHANGED <<told, task, msg, result_que>>
    BY <1>1 DEF DestroySend, callVars, taskVars
  <2>2. /\ Len(exe_que) \in Nat /\ Len(exe_que') = Len(exe_que) + 1
        /\ \A i \in 1..Len(exe_que) : exe_que'[i] = exe_que[i]
        /\ exe_que'[Len(exe_que) + 1] = Quit
    BY <2>1, Putting
  <2>3. Waiting' = Waiting
    BY <2>1, <2>2, WaitingSame
  <2>4. lineBar' = lineBar /\ \A c \in Calls : Ran(c)' = Ran(c) /\ Accepted(c)' = Accepted(c)
    BY <2>1, <2>3 DEF lineBar, Ran, Accepted
  <2> QED BY <2>1, <2>4, Unseen
<1>2. CASE DestroyReceive
  <2>1. result_que = <<QuitResult>> /\ task = "gone" /\ result_que' = << >>
    <3>1. owner = "wait" /\ result_que # << >>
      BY <1>2 DEF DestroyReceive
    <3>2. exe_que = << >> => NoQuit
      BY DEF NoQuit
    <3>3. result_que = <<QuitResult>> /\ task = "gone"
      BY <3>1, <3>2 DEF IInv, OwnerInv, ResultInv
    <3> QED BY <1>2, <3>3, Results, One DEF DestroyReceive
  <2>2. UNCHANGED <<told, exe_que, task, msg>>
    BY <1>2 DEF DestroyReceive, callVars, taskVars
  <2>3. \A c \in Calls : ~Ran(c) /\ ~Ran(c)'
    BY <2>1, <2>2, EmptySeq, Results, One, CallsAssumption DEF Ran, QuitResult
  <2>4. lineBar' = lineBar /\ \A c \in Calls : Accepted(c)' = Accepted(c)
    BY <2>2 DEF lineBar, Waiting, QuitAt, Accepted
  <2> QED BY <2>2, <2>3, <2>4, Unseen DEF Ran
<1>3. CASE Leave
  <2>1. /\ result_que = << >> /\ result_que' = <<QuitResult>> /\ task = "leave" /\ task' = "gone"
        /\ UNCHANGED <<told, exe_que, msg>>
    BY <1>3 DEF Leave, callVars, IInv, ResultInv
  <2>2. \A c \in Calls : ~Ran(c) /\ ~Ran(c)'
    BY <2>1, EmptySeq, Results, One, CallsAssumption DEF Ran, QuitResult
  <2>3. Waiting = << >> /\ Waiting' = << >>
    BY <2>1 DEF Waiting
  <2>4. lineBar' = lineBar /\ \A c \in Calls : Accepted(c)' = Accepted(c)
    BY <2>1, <2>3 DEF lineBar, Accepted
  <2> QED BY <2>1, <2>2, <2>4, Unseen DEF Ran
<1> QED BY <1>1, <1>2, <1>3

LEMMA StepRefines ==
  ASSUME TypeOK, IInv, [Next]_vars, TypeOK', IInv'
  PROVE [E!Next]_E!absVars
<1>1. ASSUME NEW c \in Calls, Begin(c) PROVE UNCHANGED E!absVars
  <2>1. CASE Alive
    BY <1>1, <2>1, UnseenSame DEF Begin
  <2>2. CASE ~Alive
    <3>1. /\ result_que = << >> /\ task = "gone"
          /\ exe_que' = << >> /\ result_que' = << >> /\ task' = "receive"
          /\ UNCHANGED <<told, msg>>
      BY <1>1, <2>2 DEF Begin, Create, Alive, IInv, OwnerInv
    <3>2. WaitingOK /\ WaitingOK'
      BY WaitingFacts, LineNext
    <3>3. Waiting = << >>
      BY <3>1, <3>2 DEF WaitingOK
    <3>4. Waiting' = << >>
      BY <3>1, <3>2, EmptySeq DEF WaitingOK
    <3>5. lineBar' = lineBar /\ \A d \in Calls : Ran(d)' = Ran(d) /\ Accepted(d)' = Accepted(d)
      BY <3>1, <3>3, <3>4 DEF lineBar, Ran, Accepted
    <3> QED BY <3>1, <3>5, Unseen
  <2> QED BY <2>1, <2>2
<1>2. ASSUME NEW c \in Calls, Lock(c) \/ Unlock(c) PROVE UNCHANGED E!absVars
  BY <1>2, UnseenSame DEF Lock, Unlock
<1>3. ASSUME NEW i \in Indexes, Register(i) PROVE UNCHANGED E!absVars
  BY <1>3, UnseenSame DEF Register
<1>4. CASE Destroy
  BY <1>4, UnseenSame DEF Destroy
<1>5. CASE UNCHANGED vars
  BY <1>5, UnseenSame DEF vars
<1>6. ASSUME NEW c \in Calls, Send(c) \/ SendTimesOut(c) \/ Receive(c)
      PROVE E!Next \/ UNCHANGED E!absVars
  BY <1>6, SendRefines, RefuseRefines, ReceiveRefines DEF E!Next
<1>7. CASE Run \/ Reply
  <2>1. msg \in Calls
    BY <1>7 DEF Run, Reply, IInv, TaskInv, Active, Owed
  <2> QED BY <1>7, <2>1, RunRefines, ReplyRefines DEF E!Next
<1> QED
  BY <1>1, <1>2, <1>3, <1>4, <1>5, <1>6, <1>7, TakeRefines, OwnerUnseen
     DEF Next, Step, Work, Ending

\* esp_dispatcher and its delegate are an executor until a call crosses them: one
\* function at a time, in the order of acceptance, and every caller hears of its
\* own, through any number of destructions and new dispatchers.
THEOREM Refines == Spec => ImplementsExecutor
<1>1. Init => E!Init
  <2> SUFFICES ASSUME Init PROVE E!Init
    OBVIOUS
  <2>1. exe_que = << >> /\ result_que = << >> /\ task = "receive" /\ told = [c \in Calls |-> << >>]
    BY DEF Init
  <2>2. Waiting = << >>
    <3>1. WaitingOK
      BY Initially, WaitingFacts
    <3> QED BY <2>1, <3>1, EmptySeq DEF WaitingOK
  <2>3. \A c \in Calls : PhaseOf(c) = "new"
    <3>1. (\A i \in 1..Len(result_que) : FALSE) /\ (\A i \in 1..Len(Waiting) : FALSE)
      BY <2>1, <2>2
    <3>2. \A c \in Calls : ~Ran(c)
      BY <2>1, <3>1 DEF Ran
    <3>3. \A c \in Calls : ~Accepted(c)
      BY <2>1, <3>1 DEF Accepted
    <3> QED BY <2>1, <3>2, <3>3 DEF PhaseOf
  <2>4. phaseBar = [c \in Calls |-> "new"]
    BY <2>3 DEF phaseBar
  <2>5. lineBar = << >>
    BY <2>1, <2>2 DEF lineBar
  <2> QED BY <2>1, <2>4, <2>5 DEF E!Init
<1>2. TypeOK /\ BaseInv /\ (~Crossed => IInv) /\ [Next]_vars /\ (TypeOK /\ BaseInv /\ (~Crossed => IInv))'
        => [E!Next \/ Crossed']_E!absVars
  BY StepRefines, CrossedStays
<1> QED BY <1>1, <1>2, Inductive, PTL DEF Spec, ImplementsExecutor

=============================================================================
