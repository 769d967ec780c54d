----------------------------- MODULE AudioElement -----------------------------
(***************************************************************************)
(* An audio element (audio_pipeline/audio_element.c): its task, which      *)
(* obeys commands from a queue and calls open, process and close, and the  *)
(* thread that controls it with audio_element_run, resume, pause, stop,    *)
(* wait_for_stop, terminate and deinit.  The two share the fields of the   *)
(* element, without a lock, and an event group.  A step is one load or     *)
(* store the other side can see, or several it cannot tell from one.       *)
(*                                                                         *)
(* The element has a task of its own (task_stack > 0), an open callback,   *)
(* and ring buffers on both sides; its status reports go to a listener     *)
(* that does not act on them here.                                         *)
(***************************************************************************)
EXTENDS Integers, Sequences

CONSTANTS QueueSize,    \* internal_queue_size, 5 in audio_element_init
          Oddities      \* which of AllOddities may happen

(***************************************************************************)
(* What may disturb the agreement of the two threads: a wait, named by the *)
(* place in the call, that gives up after two seconds; or a reset of the   *)
(* state under the working task, by process going on with a next track, as *)
(* http_stream does with a playlist, or by a caller told that the element  *)
(* stopped although its stop() had met it still starting.                  *)
(***************************************************************************)
Timeouts == {"resume_wait", "pause_wait", "term_wait", "wait_bit"}
AllOddities == Timeouts \cup {"reset"}

ASSUME QueueAssumption == QueueSize \in Nat \ {0}
ASSUME OddAssumption == Oddities \subseteq AllOddities

VARIABLES
  el,               \* the fields of struct audio_element
  bits,             \* el->state_event
  internal_queue,   \* commands sent and not yet received
  rings,            \* flags of input_rb and output_rb
  task,             \* the element's task: pc and stack of return addresses
  leaving,          \* bits an exited task has still to set, in this order
  ctl,              \* the controlling thread: pc, calls to make next, and two
                    \* ghosts: what stop() saw, what the caller was told
  odd               \* ghost: the oddities that happened so far

vars == <<el, bits, internal_queue, rings, task, leaving, ctl, odd>>

Early == {"INIT", "INITIALIZING"}                        \* < RUNNING
Halted == {"PAUSED", "STOPPED", "FINISHED", "ERROR"}     \* >= PAUSED
Fresh == [in_abort |-> FALSE, out_abort |-> FALSE, out_done |-> FALSE]

Init ==
  /\ el = [state |-> "INIT", is_running |-> FALSE, stopping |-> FALSE,
           is_open |-> FALSE, task_run |-> FALSE, wait_time |-> "forever"]
  /\ bits = {}
  /\ internal_queue = <<>>
  /\ rings = Fresh
  /\ task = [pc |-> "none", stack |-> <<>>]
  /\ leaving = <<>>
  /\ ctl = [pc |-> "idle", rest |-> <<>>, seen |-> "none", told |-> "nothing"]
  /\ odd = {}
-----------------------------------------------------------------------------
\* The task's control flow: audio_element_task and the functions it calls.

Go(from, to) == task.pc = from /\ task' = [task EXCEPT !.pc = to]
Call(from, to, back) ==
  task.pc = from /\ task' = [pc |-> to, stack |-> <<back>> \o task.stack]
Back == task' = [pc |-> Head(task.stack), stack |-> Tail(task.stack)]
Shared == <<bits, internal_queue, rings, leaving, ctl, odd>>

Begin ==
  /\ Go("begin", "boot")
  /\ el' = [el EXCEPT !.task_run = TRUE]
  /\ bits' = bits \cup {"CREATED"}
  /\ UNCHANGED <<internal_queue, rings, leaving, ctl, odd>>

Boot ==
  /\ Go("boot", "boot_clear")
  /\ el' = [el EXCEPT !.state = "INIT", !.wait_time = "forever"]
  /\ UNCHANGED Shared

BootClear ==
  /\ Go("boot_clear", "loop")
  /\ bits' = bits \ {"STOPPED"}
  /\ UNCHANGED <<el, internal_queue, rings, leaving, ctl, odd>>

\* audio_event_iface_waiting_cmd_msg: wait_time is read once, on entry.
Block ==
  /\ el.wait_time = "forever"
  /\ Go("loop", "blocked")
  /\ UNCHANGED <<el, Shared>>

Receive ==
  /\ \/ task.pc = "blocked"
     \/ task.pc = "loop" /\ el.wait_time = "zero"
  /\ internal_queue # <<>>
  /\ Call(task.pc, Head(internal_queue), "process")
  /\ internal_queue' = Tail(internal_queue)
  /\ UNCHANGED <<el, bits, rings, leaving, ctl, odd>>

Poll ==
  /\ el.wait_time = "zero" /\ internal_queue = <<>>
  /\ Go("loop", "process")
  /\ UNCHANGED <<el, Shared>>
-----------------------------------------------------------------------------
\* Coming to rest.  The callbacks open and close are seen by the controller
\* only through the state around them.

Settled(s) == [el EXCEPT !.state = s, !.is_open = FALSE, !.wait_time = "forever"]

OnStop ==
  /\ task.pc = "STOP"
  /\ IF el.state = "STOPPED" /\ ~el.is_running
     THEN Back /\ el' = [el EXCEPT !.stopping = FALSE]
     ELSE /\ Go("STOP", "stop_unrun")
          /\ el' = IF el.state \in {"FINISHED", "STOPPED"}
                   THEN [el EXCEPT !.state = "STOPPED"]
                   ELSE Settled("STOPPED")
  /\ UNCHANGED Shared

\* audio_element_on_cmd_error and audio_element_on_cmd_finish
Rest(from, s, unless) ==
  /\ task.pc = from
  /\ IF el.state \in unless
     THEN Back /\ UNCHANGED el
     ELSE Go(from, "unrun") /\ el' = Settled(s)
  /\ UNCHANGED Shared

OnError == Rest("error", "ERROR", {"STOPPED"})
OnFinish == Rest("finish", "FINISHED", {"ERROR", "STOPPED"})

UnrunForgotten(from, to) == Go(from, to) /\ UNCHANGED <<el, Shared>>  \* mutant
Unrun(from, to) ==
  /\ Go(from, to)
  /\ el' = [el EXCEPT !.is_running = FALSE]
  /\ UNCHANGED Shared

UnstopForgotten == Go("unstop", "stopped") /\ UNCHANGED <<el, Shared>> \* mutant
Unstop ==
  /\ Go("unstop", "stopped")
  /\ el' = [el EXCEPT !.stopping = FALSE]
  /\ UNCHANGED Shared

SetStopped ==
  /\ task.pc = "stopped" /\ Back
  /\ bits' = bits \cup {"STOPPED"}
  /\ UNCHANGED <<el, internal_queue, rings, leaving, ctl, odd>>

\* AEL_MSG_CMD_PAUSE
OnPause ==
  /\ Go("PAUSE", "pause_close")
  /\ el' = [el EXCEPT !.state = "PAUSED"]
  /\ UNCHANGED Shared

PauseClose ==
  /\ Go("pause_close", "pause_unrun")
  /\ el' = Settled(el.state)
  /\ UNCHANGED Shared

SetPaused ==
  /\ task.pc = "paused" /\ Back
  /\ bits' = bits \cup {"PAUSED"}
  /\ UNCHANGED <<el, internal_queue, rings, leaving, ctl, odd>>
-----------------------------------------------------------------------------
\* audio_element_on_cmd_resume and audio_element_process_init

OnResume ==
  /\ IF el.state = "RUNNING" THEN Go("RESUME", "again") ELSE Go("RESUME", "start")
  /\ rings' = IF el.state \in {"INIT", "RUNNING", "PAUSED"} THEN rings
              ELSE [rings EXCEPT !.out_abort = FALSE, !.out_done = FALSE]
  /\ UNCHANGED <<el, bits, internal_queue, leaving, ctl, odd>>

Resumed ==
  /\ IF task.pc = "again" THEN Back ELSE Go("start", "init")
  /\ el' = [el EXCEPT !.is_running = TRUE]
  /\ bits' = bits \cup {"RESUMED"}
  /\ UNCHANGED <<internal_queue, rings, leaving, ctl, odd>>

ProcessInit ==
  /\ Go("init", "opening")
  /\ el' = [el EXCEPT !.is_open = TRUE, !.state = "INITIALIZING"]
  /\ UNCHANGED Shared

OpenDone ==
  /\ Go("opening", "opened")
  /\ el' = [el EXCEPT !.state = "RUNNING"]
  /\ UNCHANGED Shared

OpenAborted ==
  /\ Call("opening", "STOP", "open_failed")
  /\ UNCHANGED <<el, Shared>>

OpenError ==
  /\ Call("opening", "error", "open_failed")
  /\ el' = [el EXCEPT !.state = "ERROR"]
  /\ UNCHANGED Shared

Opened ==
  /\ Go("opened", "start_clear")
  /\ el' = [el EXCEPT !.wait_time = "zero"]
  /\ UNCHANGED Shared

StartClear ==
  /\ task.pc = "start_clear" /\ Back
  /\ bits' = bits \ {"STOPPED"}
  /\ UNCHANGED <<el, internal_queue, rings, leaving, ctl, odd>>

AbortRing(from, to, side) ==
  /\ Go(from, to)
  /\ rings' = [rings EXCEPT ![side] = TRUE]
  /\ UNCHANGED <<el, bits, internal_queue, leaving, ctl, odd>>

\* A failing command sets the bit in the task's loop; process_running ignores
\* the result of the re-open.
CmdFailed ==
  /\ task.pc = "failed" /\ Back
  /\ bits' = IF Head(task.stack) = "process" THEN bits \cup {"STOPPED"} ELSE bits
  /\ UNCHANGED <<el, internal_queue, rings, leaving, ctl, odd>>
-----------------------------------------------------------------------------
\* audio_element_process_running

Process ==
  /\ Go("process", IF el.state \in Early \/ ~el.is_running THEN "loop"
                   ELSE "processing")
  /\ UNCHANGED <<el, Shared>>

\* The process callback moved data, or timed out.
ProcessData == Go("processing", "loop") /\ UNCHANGED <<el, Shared>>

\* It was aborted in a ring buffer (AEL_IO_ABORT).
ProcessAborted ==
  /\ rings.in_abort \/ rings.out_abort
  /\ Call("processing", "STOP", "loop")
  /\ UNCHANGED <<el, Shared>>

ProcessFailed == Call("processing", "error", "loop") /\ UNCHANGED <<el, Shared>>

\* Its input ended (AEL_IO_DONE), or ended with another track to open next,
\* for which it resets the state (http_stream_next_track).
ProcessDone(next_track) ==
  /\ next_track => "reset" \in Oddities
  /\ Go("processing", "done")
  /\ el' = IF next_track THEN [el EXCEPT !.state = "INIT"] ELSE el
  /\ odd' = IF next_track THEN odd \cup {"reset"} ELSE odd
  /\ UNCHANGED <<bits, internal_queue, rings, leaving, ctl>>

Done ==
  /\ IF el.state = "INIT" THEN Call("done", "RESUME", "loop")
                          ELSE Call("done", "finish", "loop")
  /\ rings' = IF el.state = "INIT" THEN rings
              ELSE [rings EXCEPT !.out_done = TRUE]
  /\ UNCHANGED <<el, bits, internal_queue, leaving, ctl, odd>>

\* The end of audio_element_task, after AEL_MSG_CMD_DESTROY broke its loop.
DestroyBit ==
  /\ Go("destroy_bit", "exit")
  /\ bits' = bits \cup {"STOPPED"}
  /\ UNCHANGED <<el, internal_queue, rings, leaving, ctl, odd>>

ExitClose ==
  /\ Go("exit", "exit_flags")
  /\ el' = [el EXCEPT !.state = IF el.is_open THEN "STOPPED" ELSE @,
                      !.is_open = FALSE]
  /\ UNCHANGED Shared

\* The bits it still sets are in leaving: a new task may be created meanwhile.
ExitFlags ==
  /\ task.pc = "exit_flags" /\ leaving = <<>>
  /\ el' = [el EXCEPT !.stopping = FALSE, !.task_run = FALSE]
  /\ task' = [pc |-> "none", stack |-> <<>>]
  /\ leaving' = <<"STOPPED", "RESUMED", "DESTROYED">>
  /\ UNCHANGED <<bits, internal_queue, rings, ctl, odd>>

Leave ==
  /\ leaving # <<>> /\ leaving' = Tail(leaving)
  /\ bits' = bits \cup {Head(leaving)}
  /\ UNCHANGED <<el, internal_queue, rings, task, ctl, odd>>
-----------------------------------------------------------------------------
\* The controlling thread.  `seen` remembers what the last stop() found, and
\* `told` what the last call promised its caller.

At(from) == ctl.pc = from
To(to) == [ctl EXCEPT !.pc = to]

\* Back to the caller, or on to the next call of audio_element_deinit.
Return == IF ctl.rest = <<>> THEN To("idle")
          ELSE [ctl EXCEPT !.pc = Head(ctl.rest), !.rest = Tail(ctl.rest)]

Fields == <<rings, task, leaving, odd>>

\* Where a call goes after one load of the element's fields.
Branch(from, next) ==
  /\ At(from) /\ ctl' = next
  /\ UNCHANGED <<el, bits, internal_queue, Fields>>

Enter(call, rest) ==
  Branch("idle", [ctl EXCEPT
    !.pc = call, !.rest = rest,
    !.seen = IF call = "resume" THEN "none" ELSE @,
    !.told = IF call \in {"wait", "term"} THEN @ ELSE "nothing"])

Clear(from, bit, to) ==
  /\ At(from) /\ ctl' = To(to)
  /\ bits' = bits \ {bit}
  /\ UNCHANGED <<el, internal_queue, Fields>>

\* audio_element_cmd_send: does not wait for room in the queue.
Send(from, cmd, next) ==
  /\ At(from)
  /\ IF Len(internal_queue) < QueueSize
     THEN ctl' = next /\ internal_queue' = Append(internal_queue, cmd)
     ELSE ctl' = Return /\ UNCHANGED internal_queue
  /\ UNCHANGED <<bits, Fields>>

\* A wait for a bit, with a timeout (DEFAULT_MAX_WAIT_TIME, two seconds).
Await(from, bit, next) ==
  /\ At(from)
  /\ \/ bit \in bits /\ ctl' = next /\ odd' = odd
     \/ /\ bit \notin bits /\ from \in Oddities
        /\ ctl' = Return /\ odd' = odd \cup {from}
  /\ UNCHANGED <<el, bits, internal_queue, rings, task, leaving>>

\* audio_element_run.  A created task is taken to begin within the timeout.
Run ==
  /\ At("run")
  /\ IF el.task_run
     THEN ctl' = Return /\ UNCHANGED internal_queue
     ELSE ctl' = To("create") /\ internal_queue' = <<>>
  /\ UNCHANGED <<el, bits, Fields>>

Create ==
  /\ At("create") /\ ctl' = To("created")
  /\ bits' = bits \ {"CREATED"}
  /\ task' = [task EXCEPT !.pc = "begin"]
  /\ UNCHANGED <<el, internal_queue, rings, leaving, odd>>

Created == "CREATED" \in bits /\ Branch("created", Return)

\* audio_element_resume
Resume == Branch("resume",
  IF ~el.task_run \/ el.state \in {"RUNNING", "ERROR", "FINISHED"}
  THEN Return ELSE To("resume_clear"))
ResumeClear == Clear("resume_clear", "RESUMED", "resume_send")
ResumeSend == Send("resume_send", "RESUME", To("resume_wait")) /\ UNCHANGED el
ResumeWait == Await("resume_wait", "RESUMED", Return)

\* audio_element_pause: a halted element is not asked, only relabelled.
Pause == Branch("pause",
  IF ~el.task_run THEN Return
  ELSE To(IF el.state \in Halted THEN "pause_force" ELSE "pause_clear"))
PauseForce ==
  /\ At("pause_force") /\ ctl' = [Return EXCEPT !.told = "relabelled"]
  /\ el' = [el EXCEPT !.state = "PAUSED"]
  /\ UNCHANGED <<bits, internal_queue, Fields>>
PauseClearForgotten == Branch("pause_clear", To("pause_send"))  \* mutant
PauseClear == Clear("pause_clear", "PAUSED", "pause_send")
PauseSend == Send("pause_send", "PAUSE", To("pause_wait")) /\ UNCHANGED el
PauseWait == Await("pause_wait", "PAUSED", [Return EXCEPT !.told = "paused"])

\* audio_element_terminate
Term == Branch("term", IF el.task_run THEN To("term_clear") ELSE Return)
TermClear == Clear("term_clear", "DESTROYED", "term_send")
TermSend == Send("term_send", "DESTROY", To("term_wait")) /\ UNCHANGED el
TermWaitForgotten == At("term_wait") /\ Branch("term_wait", Return)  \* mutant
TermWait == Await("term_wait", "DESTROYED", Return)
-----------------------------------------------------------------------------
\* audio_element_stop

Stop == Branch("stop", IF el.task_run THEN To("stop_paused") ELSE Return)

StopPaused == Branch("stop_paused",
  To(IF el.state = "PAUSED" THEN "stop_poll" ELSE "stop_running"))

StopPoll ==
  /\ At("stop_poll") /\ ctl' = To("stop_running")
  /\ el' = [el EXCEPT !.wait_time = "zero"]
  /\ UNCHANGED <<bits, internal_queue, Fields>>

StopRunning == Branch("stop_running",
  To(IF el.is_running THEN "stop_out" ELSE "stop_idle"))

StopIdle ==
  /\ At("stop_idle") /\ ctl' = [Return EXCEPT !.seen = "idle"]
  /\ bits' = bits \cup {"STOPPED"}
  /\ UNCHANGED <<el, internal_queue, Fields>>

StopAbortForgotten(from, side, to) == Branch(from, To(to))  \* mutant
StopAbort(from, side, to) ==
  /\ At(from) /\ ctl' = To(to)
  /\ rings' = [rings EXCEPT ![side] = TRUE]
  /\ UNCHANGED <<el, bits, internal_queue, task, leaving, odd>>

StopState == Branch("stop_state",
  IF el.state = "RUNNING" THEN [To("stop_clear") EXCEPT !.seen = "running"]
                          ELSE [To("stop_mark") EXCEPT !.seen = "starting"])

StopClearForgotten == Branch("stop_clear", To("stop_mark"))  \* mutant
StopClear == Clear("stop_clear", "STOPPED", "stop_mark")

StopMark ==
  /\ At("stop_mark")
  /\ ctl' = IF el.stopping THEN Return ELSE To("stop_send")
  /\ el' = [el EXCEPT !.stopping = TRUE]
  /\ UNCHANGED <<bits, internal_queue, Fields>>

\* A refused command takes the mark back.
StopSend ==
  /\ Send("stop_send", "STOP", Return)
  /\ el' = [el EXCEPT !.stopping = Len(internal_queue) < QueueSize /\ @]

\* audio_element_wait_for_stop.  What it tells the caller depends on what the
\* stop() before it found, if there was one.
Stopped == [Return EXCEPT !.told =
  IF ctl.seen \in {"idle", "running"} THEN "stopped"
  ELSE IF ctl.seen = "starting" THEN "stopped_early" ELSE @]

WaitForStop == Branch("wait", IF el.is_running THEN To("wait_bit") ELSE Stopped)
WaitForBit == Await("wait_bit", "STOPPED", Stopped)

\* What audio_pipeline_wait_for_stop and audio_pipeline_reset_ringbuffer do to
\* an element that is reported stopped.
MayReset ==
  /\ At("idle")
  /\ \/ ctl.told = "stopped" /\ odd' = odd
     \/ /\ ctl.told = "stopped_early" /\ "reset" \in Oddities
        /\ odd' = odd \cup {"reset"}

ResetState ==
  /\ MayReset
  /\ el' = [el EXCEPT !.state = "INIT"]
  /\ UNCHANGED <<bits, internal_queue, rings, task, leaving, ctl>>

ResetRings ==
  /\ MayReset
  /\ rings' = Fresh
  /\ UNCHANGED <<el, bits, internal_queue, task, leaving, ctl>>
-----------------------------------------------------------------------------
OpenReturns == OpenDone \/ OpenAborted \/ OpenError

TaskStep ==
  \/ Begin \/ Boot \/ BootClear \/ Block \/ Receive \/ Poll
  \/ OnStop \/ Unrun("stop_unrun", "unstop") \/ Unstop \/ SetStopped
  \/ OnError \/ OnFinish \/ Unrun("unrun", "stopped")
  \/ OnPause \/ PauseClose \/ Unrun("pause_unrun", "paused") \/ SetPaused
  \/ OnResume \/ Resumed \/ ProcessInit \/ OpenReturns \/ Opened \/ StartClear
  \/ AbortRing("open_failed", "abort_in", "out_abort")
  \/ AbortRing("abort_in", "fail_unrun", "in_abort")
  \/ Unrun("fail_unrun", "failed") \/ CmdFailed
  \/ Process \/ ProcessAborted \/ Done
  \/ Unrun("DESTROY", "destroy_bit") \/ DestroyBit
  \/ ExitClose \/ ExitFlags \/ Leave

\* What the process callback does while nobody aborts it.
ProcessReturns ==
  ProcessData \/ ProcessFailed \/ \E n \in BOOLEAN : ProcessDone(n)

CallStep ==
  \/ Run \/ Create \/ Created
  \/ Resume \/ ResumeClear \/ ResumeSend \/ ResumeWait
  \/ Pause \/ PauseForce \/ PauseClear \/ PauseSend \/ PauseWait
  \/ Stop \/ StopPaused \/ StopPoll \/ StopRunning \/ StopIdle
  \/ StopAbort("stop_out", "out_abort", "stop_in")
  \/ StopAbort("stop_in", "in_abort", "stop_state")
  \/ StopState \/ StopClear \/ StopMark \/ StopSend
  \/ WaitForStop \/ WaitForBit
  \/ Term \/ TermClear \/ TermSend \/ TermWait

NewCall ==
  \/ \E call \in {"run", "resume", "pause", "stop", "wait", "term"} :
       Enter(call, <<>>)
  \/ Enter("stop", <<"wait", "term", "freed">>)      \* audio_element_deinit
  \/ ResetState \/ ResetRings

\* After audio_element_deinit freed the element nothing is left to do.
Gone == At("freed") /\ UNCHANGED vars

Next == TaskStep \/ ProcessReturns \/ CallStep \/ NewCall \/ Gone

Spec == Init /\ [][Next]_vars

(***************************************************************************)
(* Scheduling.  Both threads run, and the open callback returns.  The      *)
(* process callback is only sure to return once a ring it may sleep on is  *)
(* aborted, as rb_read and rb_write promise.  Nobody has to call, and no   *)
(* wait has to give up: audio_element_wait_for_stop waits for ever.        *)
(***************************************************************************)
FairSpec == Spec /\ WF_vars(TaskStep) /\ WF_vars(CallStep /\ odd' = odd)
=============================================================================
