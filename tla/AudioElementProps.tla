-------------------------- MODULE AudioElementProps --------------------------
(***************************************************************************)
(* What the element promises its controller: when a call says stopped or   *)
(* paused the task is, no stop request is swallowed, nothing touches a     *)
(* freed element, and every wait for a stop ends.                          *)
(***************************************************************************)
EXTENDS AudioElement

Commands == {"STOP", "PAUSE", "RESUME", "DESTROY"}
AllBits == {"STOPPED", "RESUMED", "PAUSED", "CREATED", "DESTROYED"}
TaskPCs == {"none", "begin", "boot", "boot_clear", "loop", "blocked", "process",
            "processing", "done", "stop_unrun", "unstop", "unrun", "stopped",
            "error", "finish", "pause_close", "pause_unrun", "paused", "start",
            "again", "init", "opening", "opened", "start_clear", "open_failed",
            "abort_in", "fail_unrun", "failed", "destroy_bit", "exit",
            "exit_flags"} \cup Commands
CtlPCs == {"idle", "run", "create", "created", "resume", "resume_clear",
           "resume_send", "resume_wait", "pause", "pause_force", "pause_clear",
           "pause_send", "pause_wait", "stop", "stop_paused", "stop_poll",
           "stop_running", "stop_idle", "stop_out", "stop_in", "stop_state",
           "stop_clear", "stop_mark", "stop_send", "wait", "wait_bit", "term",
           "term_clear", "term_send", "term_wait", "freed"}

Elements == [state : Early \cup Halted \cup {"RUNNING"}, is_running : BOOLEAN,
             stopping : BOOLEAN, is_open : BOOLEAN, task_run : BOOLEAN,
             wait_time : {"forever", "zero"}]
Rings == [in_abort : BOOLEAN, out_abort : BOOLEAN, out_done : BOOLEAN]
\* A handler returns to the task's loop, or to process_init called from there.
Frames == {<<"process">>, <<"loop">>}
Nested == {<<"open_failed", "process">>, <<"open_failed", "loop">>}
Tasks == [pc : TaskPCs, stack : {<<>>} \cup Frames \cup Nested]
\* What is left of audio_element_deinit, and of the end of audio_element_task.
Rests == {<<>>, <<"freed">>, <<"term", "freed">>, <<"wait", "term", "freed">>}
Leavings == {<<>>, <<"DESTROYED">>, <<"RESUMED", "DESTROYED">>,
             <<"STOPPED", "RESUMED", "DESTROYED">>}
Controls == [pc : CtlPCs, rest : Rests,
             seen : {"none", "idle", "running", "starting"},
             told : {"nothing", "stopped", "stopped_early", "paused",
                     "relabelled"}]

\* Type invariant: in particular the command queue stays within its bound and
\* the handlers of audio_element.c nest at most two deep.
TypeOK ==
  /\ el \in Elements
  /\ bits \in SUBSET AllBits
  /\ internal_queue \in Seq(Commands) /\ Len(internal_queue) <= QueueSize
  /\ rings \in Rings
  /\ task \in Tasks
  /\ leaving \in Leavings
  /\ ctl \in Controls
  /\ odd \subseteq AllOddities

\* The task is on its way into open or process, or in them.
Working == \/ task.pc \in {"start", "again", "init", "opening", "opened",
                           "start_clear", "processing", "done", "RESUME"}
           \/ \E i \in 1..Len(internal_queue) : internal_queue[i] = "RESUME"

\* When audio_element_wait_for_stop says that a running element stopped, its
\* task does not call open or process again before the next resume, whatever
\* order the state, is_running and STOPPED_BIT were written and read in.  A
\* pause or a wait for a stop that gave up does not change that.
StoppedIsStopped ==
  ctl.told = "stopped" /\ odd \subseteq {"pause_wait", "wait_bit"} => ~Working

\* When audio_element_pause says that the element obeyed, it is closed and its
\* task does not work until it is resumed, whatever else went wrong before,
\* unless an earlier pause gave up and may be the one that was obeyed.
PausedIsPaused ==
  ctl.told = "paused" /\ "pause_wait" \notin odd => ~Working /\ ~el.is_open

\* The stopping mark, which makes audio_element_stop send nothing, stands only
\* as long as a stop command is on its way to audio_element_on_cmd_stop, unless
\* the caller went on without waiting for a task it told to end.
StopMarkIsOwed ==
  el.stopping /\ "term_wait" \notin odd =>
    \/ ctl.pc = "stop_send"
    \/ \E i \in 1..Len(internal_queue) : internal_queue[i] = "STOP"
    \/ task.pc \in {"STOP", "stop_unrun", "unstop"}

\* A task waiting for commands without a timeout is not marked running, so
\* nobody waits in vain for it to stop.
SleepsHalted == task.pc = "blocked" => ~el.is_running

\* The process callback runs only on an open element, although the controller
\* overwrites the state that audio_element_process_running tests.
ProcessesOpen == task.pc = "processing" => el.is_open

\* audio_element_deinit frees the element after its task is gone, down to the
\* last event bit it sets, even if its wait for the stop gave up.
FreedAlone ==
  ctl.pc = "freed" /\ odd \subseteq {"wait_bit"} => task.pc = "none" /\ leaving = <<>>

\* audio_element_wait_for_stop ends after a stop, even if the process callback
\* sleeps on a ring buffer nobody serves.
StopEnds == ctl.pc = "wait_bit" /\ ctl.seen # "none" ~> ctl.pc # "wait_bit"
=============================================================================
