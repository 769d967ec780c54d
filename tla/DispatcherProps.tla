-------------------------- MODULE DispatcherProps --------------------------
(***************************************************************************)
(* What the callers of the dispatcher rely on.                             *)
(***************************************************************************)
EXTENDS Dispatcher

\* Types of the variables of esp_dispatcher_t and of the tasks around it.
TypeOK ==
    /\ pc \in [Calls -> {"idle", "lock", "send", "wait", "unlock", "done", "crash"}]
    /\ kind \in [Calls -> Kinds]
    /\ mutex \in Calls \cup {None}
    /\ exe_que \in Seq(Calls \cup {Quit})
    /\ result_que \in Seq(Result)
    /\ task \in {"receive", "run", "ran", "unsupported", "leave", "gone"}
    /\ msg \in Calls \cup {None}
    /\ exe_list \subseteq Indexes
    /\ told \in [Calls -> Seq(Result)]
    /\ owner \in {"idle", "send", "wait", "freed"}
    /\ met \subseteq Calls

\* What the dispatcher cannot stand: an asynchronous call without a callback, which
\* posts a result for nobody (line 140), and a synchronous call while it is
\* destroyed, when two wait for one result (lines 196, 354).
Crossed == \E c \in Calls : kind[c] = "silent" \/ (kind[c] = "sync" /\ c \in met)

\* A caller hears once, of its own function: the one result in result_que is
\* never taken by a caller it was not meant for, although nothing in it says
\* whose it is (esp_dispatcher_execute, line 196).
OwnResult == Crossed \/ \A c \in Calls : told[c] = << >> \/ \E e \in Errs : told[c] = <<[of |-> c, err |-> e]>>

\* The first result that comes lets esp_dispatcher_destroy free everything (line
\* 354).  It is that of its own message: the task has left by then, and has
\* answered all who were done before, although others may go on calling.
DestroyDrains ==
    owner = "freed" /\ ~Crossed =>
        task = "gone" /\ \A c \in Calls \ met : pc[c] = "done" => told[c] # << >>

\* Every call returns, whatever the others do, and when a callback was given
\* it is called; of the calls in progress while the dispatcher is destroyed
\* nothing is said.
CallsReturn ==
    \A c \in Calls : pc[c] = "lock" ~> (pc[c] = "done" \/ c \in met \/ Crossed)
CallbacksCome ==
    \A c \in Calls : (pc[c] = "unlock" /\ HasCallback(c)) ~> (told[c] # << >> \/ c \in met \/ Crossed)

-----------------------------------------------------------------------------
(* The refinement *)

\* exe_que up to the message to quit: what comes behind it never runs.
QuitAt == IF \E i \in 1..Len(exe_que) : exe_que[i] = Quit
          THEN CHOOSE i \in 1..Len(exe_que) : exe_que[i] = Quit
          ELSE Len(exe_que) + 1
Waiting == IF task \in {"leave", "gone"} THEN << >> ELSE SubSeq(exe_que, 1, QuitAt - 1)

Accepted(c) == (\E i \in 1..Len(Waiting) : Waiting[i] = c) \/ (task = "run" /\ msg = c)
Ran(c) == \/ task \in {"ran", "unsupported"} /\ msg = c
          \/ \E i \in 1..Len(result_que) : result_que[i].of = c

PhaseOf(c) == IF told[c] # << >> THEN IF told[c][1].err = "timeout" THEN "refused" ELSE "answered"
              ELSE IF Ran(c) THEN "ran"
              ELSE IF Accepted(c) THEN "accepted"
              ELSE "new"

phaseBar == [c \in Calls |-> PhaseOf(c)]

lineBar == IF task = "run" THEN <<msg>> \o Waiting ELSE Waiting

E == INSTANCE Executor WITH phase <- phaseBar, line <- lineBar

\* Each step of the callers and of dispatcher_event_task is a step of the
\* executor, or none of its business, up to a call that it cannot stand.
ImplementsExecutor == E!Init /\ [][E!Next \/ Crossed']_(E!absVars)

=============================================================================
