----------------------------- MODULE Dispatcher -----------------------------
(***************************************************************************)
(* esp_dispatcher.c and esp_delegate.c: a task that runs functions for     *)
(* others.  A caller takes the mutex, puts its function into exe_que and,  *)
(* if it waits, takes whatever comes out of result_que, a queue of one.    *)
(* Nothing in a result says whose it is.  The dispatcher that components   *)
(* share is made on first use and kept in shared_handle, which is NULL     *)
(* again once the owner has released it.                                   *)
(*                                                                         *)
(* Each member of Calls is one call of one task; a task that calls again   *)
(* is another member that begins later.  The owner may destroy the         *)
(* dispatcher at any time, nothing waits for the calls in progress; the    *)
(* model ends where one of them would use what was freed.                  *)
(***************************************************************************)
EXTENDS Naturals, Sequences

CONSTANTS Calls,      \* the calls made
          Silent,     \* those that give NULL for a callback if they do not wait
          Indexes,    \* the indexes a function can be registered under
          Index,      \* sub_event_index of each call, None for a function pointer
          QueueSize   \* ESP_DISPATCHER_EVENT_SIZE

Kinds == {"sync", "async", "silent"}   \* async: with a callback, silent: NULL
None == "none"    \* no call, no index
Quit == "quit"    \* the message of esp_dispatcher_destroy

ASSUME CallsAssumption == None \notin Calls /\ Quit \notin Calls
ASSUME IndexesAssumption == None \notin Indexes /\ Index \in [Calls -> Indexes \cup {None}]
ASSUME SizeAssumption == QueueSize \in Nat \ {0}

VARIABLES pc,          \* where each call is in the code
          kind,        \* its kind
          mutex,       \* the call that holds impl->mutex
          exe_que,     \* calls, or Quit
          result_que,  \* at most one result
          task,        \* what dispatcher_event_task is doing
          msg,         \* the call it took
          exe_list,    \* the indexes registered
          told,        \* what each caller heard, returned or by its callback
          owner,       \* where esp_dispatcher_destroy is
          met          \* history: the calls that esp_dispatcher_destroy ran beside

callVars == <<pc, kind>>
taskVars == <<task, msg>>
queVars == <<exe_que, result_que>>
vars == <<callVars, mutex, queVars, taskVars, exe_list, told, owner, met>>

Errs == {"done", "unsupported", "timeout"}
Result == [of: Calls \cup {Quit}, err: Errs]
QuitResult == [of |-> Quit, err |-> "done"]

Waits(c) == kind[c] = "sync"
HasCallback(c) == kind[c] = "async"

Outside == {"idle", "done"}
Crashed == \E c \in Calls : pc[c] = "crash"
Alive == owner # "freed" /\ ~Crashed

Init == /\ pc = [c \in Calls |-> "idle"]
        /\ kind = [c \in Calls |-> "sync"]
        /\ mutex = None
        /\ exe_que = << >>
        /\ result_que = << >>
        /\ task = "receive"
        /\ msg = None
        /\ exe_list = {}
        /\ told = [c \in Calls |-> << >>]
        /\ owner = "idle"
        /\ met = {}

GoTo(c, p) == pc' = [pc EXCEPT ![c] = p]
Hear(c, r) == told' = [told EXCEPT ![c] = Append(@, r)]

-----------------------------------------------------------------------------
(* The callers *)

\* esp_dispatcher_create, by who finds shared_handle NULL.
Create == /\ owner' = "idle"
          /\ task' = "receive"
          /\ exe_list' = {}
          /\ exe_que' = << >>
          /\ result_que' = << >>
          /\ mutex' = None
          /\ UNCHANGED msg

\* A task asks for the shared handle and calls through it, also while the owner
\* destroys the dispatcher.  A new one is made after that, unless a call still
\* holds the handle of the old one.
Begin(c) == /\ pc[c] = "idle"
            /\ ~Crashed
            /\ owner = "freed" => task = "gone" /\ \A d \in Calls : pc[d] \in Outside
            /\ \E k \in {"sync", IF c \in Silent THEN "silent" ELSE "async"} :
                 kind' = [kind EXCEPT ![c] = k]
            /\ GoTo(c, "lock")
            /\ IF Alive THEN UNCHANGED <<mutex, queVars, taskVars, exe_list, owner>> ELSE Create
            /\ met' = IF owner \in {"send", "wait"} THEN met \cup {c} ELSE met
            /\ UNCHANGED told

Lock(c) == /\ Alive
           /\ pc[c] = "lock"
           /\ mutex = None
           /\ mutex' = c
           /\ GoTo(c, "send")
           /\ UNCHANGED <<kind, queVars, taskVars, exe_list, told, owner, met>>

\* mutant: the mutex is given back before the result is waited for.
SendUnlocks(c) ==
    /\ Alive
    /\ pc[c] = "send"
    /\ Len(exe_que) < QueueSize
    /\ exe_que' = Append(exe_que, c)
    /\ GoTo(c, IF Waits(c) THEN "wait" ELSE "unlock")
    /\ mutex' = None
    /\ UNCHANGED <<kind, result_que, taskVars, exe_list, told, owner, met>>

Send(c) == /\ Alive
           /\ pc[c] = "send"
           /\ Len(exe_que) < QueueSize
           /\ exe_que' = Append(exe_que, c)
           /\ GoTo(c, IF Waits(c) THEN "wait" ELSE "unlock")
           /\ UNCHANGED <<kind, mutex, result_que, taskVars, exe_list, told, owner, met>>

\* mutant: the callback is forgotten when the queue is full.
SendTimesOutSilently(c) ==
    /\ Alive
    /\ pc[c] = "send"
    /\ Len(exe_que) = QueueSize
    /\ GoTo(c, "unlock")
    /\ UNCHANGED <<kind, mutex, queVars, taskVars, exe_list, told, owner, met>>

\* The queue stays full for five seconds: the caller returns an error, or calls
\* its callback with one, even if it is NULL.
SendTimesOut(c) ==
    /\ Alive
    /\ pc[c] = "send"
    /\ Len(exe_que) = QueueSize
    /\ IF kind[c] = "silent"
       THEN GoTo(c, "crash") /\ UNCHANGED told
       ELSE GoTo(c, "unlock") /\ Hear(c, [of |-> c, err |-> "timeout"])
    /\ UNCHANGED <<kind, mutex, queVars, taskVars, exe_list, owner, met>>

Receive(c) == /\ Alive
              /\ pc[c] = "wait"
              /\ result_que # << >>
              /\ Hear(c, Head(result_que))
              /\ result_que' = Tail(result_que)
              /\ GoTo(c, "unlock")
              /\ UNCHANGED <<kind, mutex, exe_que, taskVars, exe_list, owner, met>>

Unlock(c) == /\ Alive
             /\ pc[c] = "unlock"
             /\ mutex' = None
             /\ GoTo(c, "done")
             /\ UNCHANGED <<kind, queVars, taskVars, exe_list, told, owner, met>>

\* esp_dispatcher_reg_exe_func: an index is registered once.
Register(i) == /\ Alive
               /\ i \notin exe_list
               /\ exe_list' = exe_list \cup {i}
               /\ UNCHANGED <<callVars, mutex, queVars, taskVars, told, owner, met>>

-----------------------------------------------------------------------------
(* dispatcher_event_task *)

Take == /\ Alive
        /\ task = "receive"
        /\ exe_que # << >>
        /\ exe_que' = Tail(exe_que)
        /\ IF Head(exe_que) = Quit
           THEN task' = "leave" /\ UNCHANGED msg
           ELSE task' = "run" /\ msg' = Head(exe_que)
        /\ UNCHANGED <<callVars, mutex, result_que, exe_list, told, owner, met>>

\* The function, found by index or given, runs to its end.
Run == /\ Alive
       /\ task = "run"
       /\ task' = IF Index[msg] \in exe_list \cup {None} THEN "ran" ELSE "unsupported"
       /\ UNCHANGED <<callVars, mutex, queVars, msg, exe_list, told, owner, met>>

\* mutant: a function that is not found sends no result.
ReplyOnlyDone ==
    /\ Alive
    /\ task \in {"ran", "unsupported"}
    /\ LET r == [of |-> msg, err |-> "done"]
       IN  IF HasCallback(msg)
           THEN Hear(msg, r) /\ UNCHANGED result_que
           ELSE /\ result_que' = IF result_que = << >> /\ task = "ran" THEN <<r>> ELSE result_que
                /\ UNCHANGED told
    /\ task' = "receive"
    /\ UNCHANGED <<callVars, mutex, exe_que, msg, exe_list, owner, met>>

\* mutant: the result is sent as well when there is a callback.
ReplyTwice ==
    /\ Alive
    /\ task \in {"ran", "unsupported"}
    /\ LET r == [of |-> msg, err |-> IF task = "ran" THEN "done" ELSE "unsupported"]
       IN  /\ IF HasCallback(msg) THEN Hear(msg, r) ELSE UNCHANGED told
           /\ result_que' = IF result_que = << >> THEN <<r>> ELSE result_que
    /\ task' = "receive"
    /\ UNCHANGED <<callVars, mutex, exe_que, msg, exe_list, owner, met>>

\* The callback, or a result nobody is named in; it is dropped when there is
\* one in the queue already.  Nobody waits for that of a call whose callback is
\* NULL.
Reply == /\ Alive
         /\ task \in {"ran", "unsupported"}
         /\ LET r == [of |-> msg, err |-> IF task = "ran" THEN "done" ELSE "unsupported"]
            IN  IF HasCallback(msg)
                THEN Hear(msg, r) /\ UNCHANGED result_que
                ELSE /\ result_que' = IF result_que = << >> THEN <<r>> ELSE result_que
                     /\ UNCHANGED told
         /\ task' = "receive"
         /\ UNCHANGED <<callVars, mutex, exe_que, msg, exe_list, owner, met>>

Leave == /\ Alive
         /\ task = "leave"
         /\ result_que' = IF result_que = << >> THEN <<QuitResult>> ELSE result_que
         /\ task' = "gone"
         /\ UNCHANGED <<callVars, mutex, exe_que, msg, exe_list, told, owner, met>>

-----------------------------------------------------------------------------
(* The owner *)

\* esp_dispatcher_release_delegate_handle: it takes no mutex and does not ask who
\* is calling.
Destroy == /\ Alive
           /\ owner = "idle"
           /\ owner' = "send"
           /\ met' = met \cup {c \in Calls : pc[c] \notin Outside}
           /\ UNCHANGED <<callVars, mutex, queVars, taskVars, exe_list, told>>

DestroySend == /\ Alive
               /\ owner = "send"
               /\ Len(exe_que) < QueueSize
               /\ exe_que' = Append(exe_que, Quit)
               /\ owner' = "wait"
               /\ UNCHANGED <<callVars, mutex, result_que, taskVars, exe_list, told, met>>

\* mutant: the dispatcher is freed without waiting for its task.
DestroyReceiveNothing ==
    /\ Alive
    /\ owner = "wait"
    /\ owner' = "freed"
    /\ UNCHANGED <<callVars, mutex, queVars, taskVars, exe_list, told, met>>

\* The first result that comes ends the wait; the queues, the mutex and the
\* dispatcher are freed.
DestroyReceive ==
    /\ Alive
    /\ owner = "wait"
    /\ result_que # << >>
    /\ result_que' = Tail(result_que)
    /\ owner' = "freed"
    /\ UNCHANGED <<callVars, mutex, exe_que, taskVars, exe_list, told, met>>

-----------------------------------------------------------------------------
Step(c) == Lock(c) \/ Send(c) \/ SendTimesOut(c) \/ Receive(c) \/ Unlock(c)
Work == Take \/ Run \/ Reply \/ Leave
Ending == DestroySend \/ DestroyReceive

Next == \/ \E c \in Calls : Begin(c) \/ Step(c)
        \/ \E i \in Indexes : Register(i)
        \/ Work
        \/ Destroy \/ Ending

Spec == Init /\ [][Next]_vars

\* Tasks run, functions return.  A mutex is given in the order it was asked
\* for, and each call asks once.
FairSpec == /\ Spec
            /\ \A c \in Calls : WF_vars(Step(c))
            /\ WF_vars(Work)
            /\ WF_vars(Ending)
=============================================================================
