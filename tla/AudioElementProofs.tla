--------------------------- MODULE AudioElementProofs ---------------------------
(***************************************************************************)
(* Proofs about the audio element, for every queue and whatever oddities   *)
(* may happen.  The first part holds whatever has happened: types, and     *)
(* that the task never sleeps while it is marked running nor processes a   *)
(* closed element.  The second is about stopping, pausing and freeing,     *)
(* each until one of the oddities has happened that it does not survive.   *)
(***************************************************************************)
EXTENDS AudioElementProps, SequenceTheorems, TLAPS

\* Where no handler is being called, and what process_init may call.
Unstacked == {"none", "begin", "boot", "boot_clear", "loop", "blocked",
              "process", "processing", "done"}
Handlers == {"STOP", "stop_unrun", "unstop", "stopped", "error", "unrun"}

StackOK == /\ task.pc \in Unstacked => task.stack = <<>>
           /\ task.pc \in Handlers => task.stack \in Frames \cup Nested
           /\ task.pc \notin Unstacked \cup Handlers => task.stack \in Frames

\* Where the task may be marked running although it would sleep, or although the
\* element is closed: on its way to rest, or while it opens.
InTransit == \/ task.pc \in {"stop_unrun", "unrun", "pause_unrun", "init",
                             "opening", "opened", "open_failed", "abort_in",
                             "fail_unrun"}
             \/ task.pc \in {"STOP", "error"} /\ task.stack \in Nested

\* is_running promises that the task polls its queue and has something open.
RunningInv == el.is_running => InTransit \/ (el.wait_time = "zero" /\ el.is_open)
\* So does the state RUNNING, which the task alone writes.
StateInv == el.state = "RUNNING"
              => el.is_open /\ (el.wait_time = "zero" \/ task.pc = "opened")
\* What the task has seen to before it comes to each place.
PlaceInv ==
  /\ task.pc = "again" => el.wait_time = "zero" /\ el.is_open
  /\ task.pc = "pause_close" => el.state # "RUNNING"
  /\ task.pc \in {"opening", "opened"} => el.is_open
  /\ task.pc = "blocked" => ~el.is_running
  /\ task.pc = "processing" => el.is_open
  /\ task.pc \in {"none", "begin", "boot", "boot_clear", "destroy_bit", "exit",
                  "exit_flags"} => ~el.is_running

\* There is one task at a time, and audio_element_run makes the next one.
TaskInv == /\ ctl.pc = "create" => task.pc = "none"
           /\ task.pc = "begin" => ctl.pc = "created" /\ "CREATED" \notin bits
           /\ el.task_run <=> task.pc \notin {"none", "begin"}

WorkInv == RunningInv /\ StateInv /\ PlaceInv
IInv == TypeOK /\ StackOK /\ TaskInv /\ WorkInv
-----------------------------------------------------------------------------
\* Pushing and popping a return address.
LEMMA Push ==
  ASSUME NEW a, NEW b
  PROVE <<a>> \o <<>> = <<a>> /\ <<a>> \o <<b>> = <<a, b>>
<1> DEFINE s == <<a>> \o <<b>>
           t == <<a, b>>
<1>1. <<a>> \o <<>> = <<a>>
  <2>1. <<a>> \in Seq({a})
    OBVIOUS
  <2> QED BY <2>1, ConcatEmptySeq
<1>2. /\ <<a>> \in Seq({a, b}) /\ <<b>> \in Seq({a, b})
      /\ t \in Seq({a, b}) /\ Len(t) = 2 /\ t[1] = a /\ t[2] = b
  OBVIOUS
<1>3. s \in Seq({a, b}) /\ Len(s) = 2 /\ s[1] = a /\ s[2] = b
  BY <1>2
<1> HIDE DEF s, t
<1>4. \A i \in 1..2 : s[i] = t[i]
  BY <1>2, <1>3
<1>5. s = t
  BY <1>2, <1>3, <1>4, SeqEqual
<1> QED BY <1>1, <1>5 DEF s, t

\* A call from the loop and one from process_init are told apart by their stack.
LEMMA FramesApart == Frames \cap Nested = {}
<1>1. \A s \in Frames : Len(s) = 1
  BY DEF Frames
<1>2. \A s \in Nested : Len(s) = 2
  BY DEF Nested
<1> QED BY <1>1, <1>2

\* A handler called from the task's loop, and one called from process_init.
LEMMA Called ==
  ASSUME TypeOK, StackOK,
         NEW from \in {"loop", "blocked", "processing", "done"},
         NEW to \in Commands \cup {"error", "finish"},
         NEW back \in {"process", "loop"}, Call(from, to, back)
  PROVE StackOK' /\ task' \in Tasks
<1>1. task.stack = <<>>
  BY DEF Call, StackOK, Unstacked
<1>2. task' = [pc |-> to, stack |-> <<back>>] /\ <<back>> \in Frames
  BY <1>1, Push DEF Call, Frames
<1>3. to \in TaskPCs \ Unstacked
  BY DEF Commands, TaskPCs, Unstacked
<1> QED BY <1>2, <1>3 DEF StackOK, Tasks, Handlers

\* process_init's open failed: it calls a handler of its own.
LEMMA CalledNested ==
  ASSUME TypeOK, StackOK, NEW to \in {"STOP", "error"},
         Call("opening", to, "open_failed")
  PROVE StackOK' /\ task' \in Tasks /\ task'.pc = to /\ task'.stack \in Nested
<1>1. task.stack \in Frames
  BY DEF Call, StackOK, Unstacked, Handlers
<1>2. PICK b \in {"process", "loop"} : task.stack = <<b>>
  BY <1>1 DEF Frames
<1>3. /\ task' = [pc |-> to, stack |-> <<"open_failed", b>>]
      /\ <<"open_failed", b>> \in Nested
  BY <1>2, Push DEF Call, Nested
<1> QED BY <1>3 DEF StackOK, Tasks, Handlers, Unstacked, TaskPCs, Commands

\* A handler returns to the loop or to process_init.
LEMMA Returned ==
  ASSUME task.stack \in Frames \cup Nested, Back
  PROVE /\ task.stack \in Frames =>
             task' \in [pc : {"process", "loop"}, stack : {<<>>}]
        /\ task.stack \in Nested =>
             task' \in [pc : {"open_failed"}, stack : Frames]
<1>1. ASSUME NEW b \in {"process", "loop"}, task.stack = <<b>>
      PROVE task' = [pc |-> b, stack |-> <<>>]
  BY <1>1 DEF Back
<1>2. ASSUME NEW b \in {"process", "loop"}, task.stack = <<"open_failed", b>>
      PROVE task' = [pc |-> "open_failed", stack |-> <<b>>]
  BY <1>2 DEF Back
<1> QED BY <1>1, <1>2 DEF Frames, Nested

\* The task's handlers call and return in order.
LEMMA TaskStack ==
  ASSUME TypeOK, StackOK, TaskStep \/ ProcessReturns
  PROVE StackOK' /\ task' \in Tasks
<1>1. CASE Begin
  BY <1>1 DEF Begin, Go, StackOK, TypeOK, Tasks, Unstacked, Handlers, TaskPCs
<1>2. CASE Boot
  BY <1>2 DEF Boot, Go, StackOK, TypeOK, Tasks, Unstacked, Handlers, TaskPCs
<1>3. CASE BootClear
  BY <1>3 DEF BootClear, Go, StackOK, TypeOK, Tasks, Unstacked, Handlers, TaskPCs
<1>4. CASE Block
  BY <1>4 DEF Block, Go, StackOK, TypeOK, Tasks, Unstacked, Handlers, TaskPCs
<1>5. CASE Receive
  <2>1. Head(internal_queue) \in Commands
    BY <1>5 DEF Receive, TypeOK
  <2> QED BY <1>5, <2>1, Called DEF Receive
<1>6. CASE Poll
  BY <1>6 DEF Poll, Go, StackOK, TypeOK, Tasks, Unstacked, Handlers, TaskPCs
<1>7. CASE OnStop
  BY <1>7, Returned DEF OnStop, Go, Settled, StackOK, TypeOK, Tasks, Unstacked,
      Handlers, TaskPCs
<1>8. CASE Unrun("stop_unrun", "unstop")
  BY <1>8 DEF Unrun, Go, StackOK, TypeOK, Tasks, Unstacked, Handlers, TaskPCs
<1>9. CASE Unstop
  BY <1>9 DEF Unstop, Go, StackOK, TypeOK, Tasks, Unstacked, Handlers, TaskPCs
<1>10. CASE SetStopped
  BY <1>10, Returned DEF SetStopped, StackOK, TypeOK, Tasks, Unstacked,
      Handlers, TaskPCs
<1>11. CASE OnError
  BY <1>11, Returned DEF OnError, Rest, Go, Settled, StackOK, TypeOK, Tasks,
      Unstacked, Handlers, TaskPCs
<1>12. CASE OnFinish
  BY <1>12, Returned DEF OnFinish, Rest, Go, Settled, StackOK, TypeOK, Tasks,
      Unstacked, Handlers, TaskPCs
<1>13. CASE Unrun("unrun", "stopped")
  BY <1>13 DEF Unrun, Go, StackOK, TypeOK, Tasks, Unstacked, Handlers, TaskPCs
<1>14. CASE OnPause
  BY <1>14 DEF OnPause, Go, StackOK, TypeOK, Tasks, Unstacked, Handlers, TaskPCs
<1>15. CASE PauseClose
  BY <1>15 DEF PauseClose, Go, Settled, StackOK, TypeOK, Tasks, Unstacked,
      Handlers, TaskPCs
<1>16. CASE Unrun("pause_unrun", "paused")
  BY <1>16 DEF Unrun, Go, StackOK, TypeOK, Tasks, Unstacked, Handlers, TaskPCs
<1>17. CASE SetPaused
  BY <1>17, Returned DEF SetPaused, StackOK, TypeOK, Tasks, Unstacked, Handlers,
      TaskPCs
<1>18. CASE OnResume
  BY <1>18 DEF OnResume, Go, StackOK, TypeOK, Tasks, Unstacked, Handlers, TaskPCs
<1>19. CASE Resumed
  BY <1>19, Returned DEF Resumed, Go, StackOK, TypeOK, Tasks, Unstacked,
      Handlers, TaskPCs
<1>20. CASE ProcessInit
  BY <1>20 DEF ProcessInit, Go, StackOK, TypeOK, Tasks, Unstacked, Handlers,
      TaskPCs
<1>21. CASE OpenDone
  BY <1>21 DEF OpenDone, Go, StackOK, TypeOK, Tasks, Unstacked, Handlers, TaskPCs
<1>22. CASE OpenAborted
  BY <1>22, CalledNested DEF OpenAborted
<1>23. CASE OpenError
  BY <1>23, CalledNested DEF OpenError
<1>24. CASE Opened
  BY <1>24 DEF Opened, Go, StackOK, TypeOK, Tasks, Unstacked, Handlers, TaskPCs
<1>25. CASE StartClear
  BY <1>25, Returned DEF StartClear, StackOK, TypeOK, Tasks, Unstacked,
      Handlers, TaskPCs
<1>26. CASE AbortRing("open_failed", "abort_in", "out_abort")
  BY <1>26 DEF AbortRing, Go, StackOK, TypeOK, Tasks, Unstacked, Handlers, TaskPCs
<1>27. CASE AbortRing("abort_in", "fail_unrun", "in_abort")
  BY <1>27 DEF AbortRing, Go, StackOK, TypeOK, Tasks, Unstacked, Handlers, TaskPCs
<1>28. CASE Unrun("fail_unrun", "failed")
  BY <1>28 DEF Unrun, Go, StackOK, TypeOK, Tasks, Unstacked, Handlers, TaskPCs
<1>29. CASE CmdFailed
  BY <1>29, Returned DEF CmdFailed, StackOK, TypeOK, Tasks, Unstacked, Handlers,
      TaskPCs
<1>30. CASE Process
  BY <1>30 DEF Process, Go, StackOK, TypeOK, Tasks, Unstacked, Handlers, TaskPCs
<1>31. CASE ProcessAborted
  BY <1>31, Called DEF ProcessAborted, Commands
<1>32. CASE Done
  BY <1>32, Called DEF Done, Commands
<1>33. CASE Unrun("DESTROY", "destroy_bit")
  BY <1>33 DEF Unrun, Go, StackOK, TypeOK, Tasks, Unstacked, Handlers, TaskPCs
<1>34. CASE DestroyBit
  BY <1>34 DEF DestroyBit, Go, StackOK, TypeOK, Tasks, Unstacked, Handlers,
      TaskPCs
<1>35. CASE ExitClose
  BY <1>35 DEF ExitClose, Go, StackOK, TypeOK, Tasks, Unstacked, Handlers, TaskPCs
<1>36. CASE ExitFlags
  BY <1>36 DEF ExitFlags, StackOK, TypeOK, Tasks, Unstacked, Handlers, TaskPCs
<1>37. CASE Leave
  BY <1>37 DEF Leave, StackOK, TypeOK, Tasks, Unstacked, Handlers, TaskPCs
<1>38. CASE ProcessData
  BY <1>38 DEF ProcessData, Go, StackOK, TypeOK, Tasks, Unstacked, Handlers,
      TaskPCs
<1>39. CASE ProcessFailed
  BY <1>39, Called DEF ProcessFailed, Commands
<1>40. CASE \E n \in BOOLEAN : ProcessDone(n)
  BY <1>40 DEF ProcessDone, Go, StackOK, TypeOK, Tasks, Unstacked, Handlers,
      TaskPCs
<1> QED BY <1>1, <1>2, <1>3, <1>4, <1>5, <1>6, <1>7, <1>8, <1>9, <1>10, <1>11,
    <1>12, <1>13, <1>14, <1>15, <1>16, <1>17, <1>18, <1>19, <1>20, <1>21, <1>22,
    <1>23, <1>24, <1>25, <1>26, <1>27, <1>28, <1>29, <1>30, <1>31, <1>32, <1>33,
    <1>34, <1>35, <1>36, <1>37, <1>38, <1>39, <1>40 DEF TaskStep, OpenReturns,
    ProcessReturns

\* The task keeps every variable in its type.
LEMMA TaskTypes ==
  ASSUME TypeOK, TaskStep \/ ProcessReturns, task' \in Tasks
  PROVE TypeOK'
<1>1. CASE Begin
  BY <1>1 DEF Begin, TypeOK, Elements, Shared, Early, Halted, AllBits, Rings,
      Leavings
<1>2. CASE Boot
  BY <1>2 DEF Boot, TypeOK, Elements, Shared, Early, Halted, AllBits, Rings,
      Leavings
<1>3. CASE BootClear
  BY <1>3 DEF BootClear, TypeOK, Elements, Shared, Early, Halted, AllBits,
      Rings, Leavings
<1>4. CASE Block
  BY <1>4 DEF Block, TypeOK, Elements, Shared, Early, Halted, AllBits, Rings,
      Leavings
<1>5. CASE Receive
  <2>1. /\ internal_queue' = Tail(internal_queue) /\ internal_queue # <<>>
        /\ UNCHANGED <<el, bits, rings, leaving, ctl, odd>>
    BY <1>5 DEF Receive
  <2>2. /\ internal_queue' \in Seq(Commands)
        /\ Len(internal_queue') <= QueueSize
    BY <2>1, QueueAssumption DEF TypeOK
  <2> QED BY <2>1, <2>2 DEF TypeOK
<1>6. CASE Poll
  BY <1>6 DEF Poll, TypeOK, Elements, Shared, Early, Halted, AllBits, Rings,
      Leavings
<1>7. CASE OnStop
  <2>1. el \in Elements
    BY DEF TypeOK
  <2>2. el' \in Elements
    BY <1>7, <2>1 DEF OnStop, Settled, Elements, Early, Halted
  <2> QED BY <1>7, <2>2 DEF OnStop, Settled, Shared, TypeOK
<1>8. CASE Unrun("stop_unrun", "unstop")
  BY <1>8 DEF Unrun, TypeOK, Elements, Shared, Early, Halted, AllBits, Rings,
      Leavings
<1>9. CASE Unstop
  BY <1>9 DEF Unstop, TypeOK, Elements, Shared, Early, Halted, AllBits, Rings,
      Leavings
<1>10. CASE SetStopped
  BY <1>10 DEF SetStopped, TypeOK, Elements, Shared, Early, Halted, AllBits,
      Rings, Leavings
<1>11. CASE OnError
  <2>1. el \in Elements
    BY DEF TypeOK
  <2>2. el' \in Elements
    BY <1>11, <2>1 DEF OnError, Rest, Settled, Elements, Early, Halted
  <2> QED BY <1>11, <2>2 DEF OnError, Rest, Settled, Shared, TypeOK
<1>12. CASE OnFinish
  <2>1. el \in Elements
    BY DEF TypeOK
  <2>2. el' \in Elements
    BY <1>12, <2>1 DEF OnFinish, Rest, Settled, Elements, Early, Halted
  <2> QED BY <1>12, <2>2 DEF OnFinish, Rest, Settled, Shared, TypeOK
<1>13. CASE Unrun("unrun", "stopped")
  BY <1>13 DEF Unrun, TypeOK, Elements, Shared, Early, Halted, AllBits, Rings,
      Leavings
<1>14. CASE OnPause
  BY <1>14 DEF OnPause, TypeOK, Elements, Shared, Early, Halted, AllBits, Rings,
      Leavings
<1>15. CASE PauseClose
  BY <1>15 DEF PauseClose, Settled, TypeOK, Elements, Shared, Early, Halted,
      AllBits, Rings, Leavings
<1>16. CASE Unrun("pause_unrun", "paused")
  BY <1>16 DEF Unrun, TypeOK, Elements, Shared, Early, Halted, AllBits, Rings,
      Leavings
<1>17. CASE SetPaused
  BY <1>17 DEF SetPaused, TypeOK, Elements, Shared, Early, Halted, AllBits,
      Rings, Leavings
<1>18. CASE OnResume
  BY <1>18 DEF OnResume, TypeOK, Elements, Shared, Early, Halted, AllBits,
      Rings, Leavings
<1>19. CASE Resumed
  BY <1>19 DEF Resumed, TypeOK, Elements, Shared, Early, Halted, AllBits, Rings,
      Leavings
<1>20. CASE ProcessInit
  BY <1>20 DEF ProcessInit, TypeOK, Elements, Shared, Early, Halted, AllBits,
      Rings, Leavings
<1>21. CASE OpenDone
  BY <1>21 DEF OpenDone, TypeOK, Elements, Shared, Early, Halted, AllBits,
      Rings, Leavings
<1>22. CASE OpenAborted
  BY <1>22 DEF OpenAborted, TypeOK, Elements, Shared, Early, Halted, AllBits,
      Rings, Leavings
<1>23. CASE OpenError
  BY <1>23 DEF OpenError, TypeOK, Elements, Shared, Early, Halted, AllBits,
      Rings, Leavings
<1>24. CASE Opened
  BY <1>24 DEF Opened, TypeOK, Elements, Shared, Early, Halted, AllBits, Rings,
      Leavings
<1>25. CASE StartClear
  BY <1>25 DEF StartClear, TypeOK, Elements, Shared, Early, Halted, AllBits,
      Rings, Leavings
<1>26. CASE AbortRing("open_failed", "abort_in", "out_abort")
  BY <1>26 DEF AbortRing, TypeOK, Elements, Shared, Early, Halted, AllBits,
      Rings, Leavings
<1>27. CASE AbortRing("abort_in", "fail_unrun", "in_abort")
  BY <1>27 DEF AbortRing, TypeOK, Elements, Shared, Early, Halted, AllBits,
      Rings, Leavings
<1>28. CASE Unrun("fail_unrun", "failed")
  BY <1>28 DEF Unrun, TypeOK, Elements, Shared, Early, Halted, AllBits, Rings,
      Leavings
<1>29. CASE CmdFailed
  BY <1>29 DEF CmdFailed, TypeOK, Elements, Shared, Early, Halted, AllBits,
      Rings, Leavings
<1>30. CASE Process
  BY <1>30 DEF Process, TypeOK, Elements, Shared, Early, Halted, AllBits, Rings,
      Leavings
<1>31. CASE ProcessAborted
  BY <1>31 DEF ProcessAborted, TypeOK, Elements, Shared, Early, Halted, AllBits,
      Rings, Leavings
<1>32. CASE Done
  BY <1>32 DEF Done, TypeOK, Elements, Shared, Early, Halted, AllBits, Rings,
      Leavings
<1>33. CASE Unrun("DESTROY", "destroy_bit")
  BY <1>33 DEF Unrun, TypeOK, Elements, Shared, Early, Halted, AllBits, Rings,
      Leavings
<1>34. CASE DestroyBit
  BY <1>34 DEF DestroyBit, TypeOK, Elements, Shared, Early, Halted, AllBits,
      Rings, Leavings
<1>35. CASE ExitClose
  BY <1>35 DEF ExitClose, TypeOK, Elements, Shared, Early, Halted, AllBits,
      Rings, Leavings
<1>36. CASE ExitFlags
  BY <1>36 DEF ExitFlags, TypeOK, Elements, Shared, Early, Halted, AllBits,
      Rings, Leavings
<1>37. CASE Leave
  <2>1. Head(leaving) \in AllBits /\ Tail(leaving) \in Leavings
    <3>1. CASE leaving = <<"DESTROYED">>
      BY <3>1 DEF AllBits, Leavings
    <3>2. CASE leaving = <<"RESUMED", "DESTROYED">>
      BY <3>2 DEF AllBits, Leavings
    <3>3. CASE leaving = <<"STOPPED", "RESUMED", "DESTROYED">>
      BY <3>3 DEF AllBits, Leavings
    <3> QED BY <1>37, <3>1, <3>2, <3>3 DEF Leave, TypeOK, Leavings
  <2> QED BY <1>37, <2>1 DEF Leave, TypeOK
<1>38. CASE ProcessData
  BY <1>38 DEF ProcessData, TypeOK, Elements, Shared, Early, Halted, AllBits,
      Rings, Leavings
<1>39. CASE ProcessFailed
  BY <1>39 DEF ProcessFailed, TypeOK, Elements, Shared, Early, Halted, AllBits,
      Rings, Leavings
<1>40. CASE \E n \in BOOLEAN : ProcessDone(n)
  <2>1. el \in Elements
    BY DEF TypeOK
  <2>2. el' \in Elements
    BY <1>40, <2>1 DEF ProcessDone, Elements, Early, Halted
  <2>3. odd' \subseteq AllOddities
    BY <1>40 DEF ProcessDone, TypeOK, AllOddities
  <2> QED BY <1>40, <2>2, <2>3 DEF ProcessDone, TypeOK
<1> QED BY <1>1, <1>2, <1>3, <1>4, <1>5, <1>6, <1>7, <1>8, <1>9, <1>10, <1>11,
    <1>12, <1>13, <1>14, <1>15, <1>16, <1>17, <1>18, <1>19, <1>20, <1>21, <1>22,
    <1>23, <1>24, <1>25, <1>26, <1>27, <1>28, <1>29, <1>30, <1>31, <1>32, <1>33,
    <1>34, <1>35, <1>36, <1>37, <1>38, <1>39, <1>40 DEF TaskStep, OpenReturns,
    ProcessReturns

\* A controlling call goes on or returns, to its caller or to
\* audio_element_deinit.
LEMMA ControlTypes ==
  ASSUME NEW c \in Controls, ctl = c
  PROVE /\ Return \in Controls
        /\ \A to \in CtlPCs : To(to) \in Controls
<1> DEFINE Seen == {"none", "idle", "running", "starting"}
           Told == {"nothing", "stopped", "stopped_early", "paused", "relabelled"}
<1>1. PICK p \in CtlPCs, r \in Rests, s \in Seen, t \in Told :
        ctl = [pc |-> p, rest |-> r, seen |-> s, told |-> t] /\ ctl.rest = r
  BY DEF Controls
<1>2. \A to \in CtlPCs : To(to) = [pc |-> to, rest |-> r, seen |-> s, told |-> t]
  BY <1>1 DEF To
<1>3. Return \in Controls
  <2>1. CASE r = <<>>
    BY <1>1, <1>2, <2>1 DEF Return, Controls, CtlPCs
  <2>2. CASE r = <<"freed">>
    <3>1. r # <<>> /\ Head(r) = "freed" /\ Tail(r) = <<>>
      BY <2>2
    <3>2. /\ ctl.rest # <<>>
          /\ Head(ctl.rest) = "freed"
          /\ Tail(ctl.rest) = <<>>
      BY <1>1, <3>1, Zenon
    <3>3. Return = [ctl EXCEPT !.pc = "freed", !.rest = <<>>]
      BY <3>2, Zenon DEF Return
    <3> QED BY <1>1, <3>3 DEF Controls, CtlPCs, Rests
  <2>3. CASE r = <<"term", "freed">>
    <3>1. r # <<>> /\ Head(r) = "term" /\ Tail(r) = <<"freed">>
      BY <2>3
    <3>2. /\ ctl.rest # <<>>
          /\ Head(ctl.rest) = "term"
          /\ Tail(ctl.rest) = <<"freed">>
      BY <1>1, <3>1, Zenon
    <3>3. Return = [ctl EXCEPT !.pc = "term", !.rest = <<"freed">>]
      BY <3>2, Zenon DEF Return
    <3> QED BY <1>1, <3>3 DEF Controls, CtlPCs, Rests
  <2>4. CASE r = <<"wait", "term", "freed">>
    <3>1. r # <<>> /\ Head(r) = "wait" /\ Tail(r) = <<"term", "freed">>
      BY <2>4
    <3>2. /\ ctl.rest # <<>>
          /\ Head(ctl.rest) = "wait"
          /\ Tail(ctl.rest) = <<"term", "freed">>
      BY <1>1, <3>1, Zenon
    <3>3. Return = [ctl EXCEPT !.pc = "wait", !.rest = <<"term", "freed">>]
      BY <3>2, Zenon DEF Return
    <3> QED BY <1>1, <3>3 DEF Controls, CtlPCs, Rests
  <2> QED BY <2>1, <2>2, <2>3, <2>4 DEF Rests
<1>4. \A to \in CtlPCs : To(to) \in Controls
  BY <1>2 DEF Controls
<1> QED BY <1>3, <1>4

\* It also notes what it saw and what it told its caller.
Noted == {"nothing", "stopped", "stopped_early", "paused", "relabelled"}
LEMMA Notes ==
  ASSUME NEW c \in Controls
  PROVE /\ \A t \in Noted : [c EXCEPT !.told = t] \in Controls
        /\ \A s \in {"none", "idle", "running", "starting"} :
             [c EXCEPT !.seen = s] \in Controls
BY DEF Controls, Noted

\* So does the end of audio_element_wait_for_stop.
LEMMA StoppedType == ASSUME ctl \in Controls PROVE Stopped \in Controls
<1> DEFINE t == IF ctl.seen \in {"idle", "running"} THEN "stopped"
                ELSE IF ctl.seen = "starting" THEN "stopped_early"
                ELSE Return.told
<1>1. Return \in Controls
  BY ControlTypes
<1>2. t \in Noted
  BY <1>1 DEF Controls, Noted
<1>3. Stopped = [Return EXCEPT !.told = t]
  BY DEF Stopped
<1> HIDE DEF t
<1> QED BY <1>1, <1>2, <1>3, Notes

\* And the start of a call.
LEMMA EnterType ==
  ASSUME ctl \in Controls, NEW rest \in Rests, NEW call \in CtlPCs,
         Enter(call, rest)
  PROVE ctl' \in Controls /\ ctl'.pc = call /\ ctl.pc = "idle"
<1> DEFINE s == IF call = "resume" THEN "none" ELSE ctl.seen
           t == IF call \in {"wait", "term"} THEN ctl.told ELSE "nothing"
<1>1. ctl' = [pc |-> call, rest |-> rest, seen |-> s, told |-> t]
  BY DEF Enter, Branch, Controls
<1>2. s \in {"none", "idle", "running", "starting"} /\ t \in Noted
  BY DEF Controls, Noted
<1> HIDE DEF s, t
<1> QED BY <1>1, <1>2 DEF Controls, Noted, Enter, Branch, At

\* It goes from one of its places to another.
LEMMA CallControl ==
  ASSUME TypeOK, CallStep \/ NewCall \/ Gone
  PROVE ctl' \in Controls
<1>1. CASE Run
  BY <1>1, ControlTypes DEF Run, TypeOK, CtlPCs
<1>2. CASE Create
  BY <1>2, ControlTypes DEF Create, TypeOK, CtlPCs
<1>3. CASE Created
  BY <1>3, ControlTypes DEF Created, Branch, TypeOK, CtlPCs
<1>4. CASE Resume
  BY <1>4, ControlTypes DEF Resume, Branch, TypeOK, CtlPCs
<1>5. CASE ResumeClear
  BY <1>5, ControlTypes DEF ResumeClear, Clear, TypeOK, CtlPCs
<1>6. CASE ResumeSend
  BY <1>6, ControlTypes DEF ResumeSend, Send, TypeOK, CtlPCs
<1>7. CASE ResumeWait
  BY <1>7, ControlTypes DEF ResumeWait, Await, Branch, TypeOK, CtlPCs
<1>8. CASE Pause
  BY <1>8, ControlTypes DEF Pause, Branch, TypeOK, CtlPCs
<1>9. CASE PauseForce
  <2>1. [Return EXCEPT !.told = "relabelled"] \in Controls
    BY ControlTypes, Notes DEF TypeOK, Noted
  <2> QED BY <1>9, <2>1 DEF PauseForce
<1>10. CASE PauseClear
  BY <1>10, ControlTypes DEF PauseClear, Clear, TypeOK, CtlPCs
<1>11. CASE PauseSend
  BY <1>11, ControlTypes DEF PauseSend, Send, TypeOK, CtlPCs
<1>12. CASE PauseWait
  <2>1. Return \in Controls
    BY ControlTypes DEF TypeOK
  <2>2. [Return EXCEPT !.told = "paused"] \in Controls
    BY <2>1, Notes DEF Noted
  <2> QED BY <1>12, <2>1, <2>2 DEF PauseWait, Await, Branch
<1>13. CASE Stop
  BY <1>13, ControlTypes DEF Stop, Branch, TypeOK, CtlPCs
<1>14. CASE StopPaused
  BY <1>14, ControlTypes DEF StopPaused, Branch, TypeOK, CtlPCs
<1>15. CASE StopPoll
  BY <1>15, ControlTypes DEF StopPoll, TypeOK, CtlPCs
<1>16. CASE StopRunning
  BY <1>16, ControlTypes DEF StopRunning, Branch, TypeOK, CtlPCs
<1>17. CASE StopIdle
  <2>1. [Return EXCEPT !.seen = "idle"] \in Controls
    BY ControlTypes, Notes DEF TypeOK
  <2> QED BY <1>17, <2>1 DEF StopIdle
<1>18. CASE StopAbort("stop_out", "out_abort", "stop_in")
  BY <1>18, ControlTypes DEF StopAbort, TypeOK, CtlPCs
<1>19. CASE StopAbort("stop_in", "in_abort", "stop_state")
  BY <1>19, ControlTypes DEF StopAbort, TypeOK, CtlPCs
<1>20. CASE StopState
  <2>1. To("stop_clear") \in Controls /\ To("stop_mark") \in Controls
    BY ControlTypes DEF TypeOK, CtlPCs
  <2>2. /\ [To("stop_clear") EXCEPT !.seen = "running"] \in Controls
        /\ [To("stop_mark") EXCEPT !.seen = "starting"] \in Controls
    BY <2>1, Notes
  <2> QED BY <1>20, <2>2 DEF StopState, Branch
<1>21. CASE StopClear
  BY <1>21, ControlTypes DEF StopClear, Clear, TypeOK, CtlPCs
<1>22. CASE StopMark
  BY <1>22, ControlTypes DEF StopMark, TypeOK, CtlPCs
<1>23. CASE StopSend
  BY <1>23, ControlTypes DEF StopSend, Send, TypeOK, CtlPCs
<1>24. CASE WaitForStop
  BY <1>24, ControlTypes, StoppedType DEF WaitForStop, Branch, TypeOK, CtlPCs
<1>25. CASE WaitForBit
  BY <1>25, ControlTypes, StoppedType
    DEF WaitForBit, Await, Branch, TypeOK, CtlPCs
<1>26. CASE Term
  BY <1>26, ControlTypes DEF Term, Branch, TypeOK, CtlPCs
<1>27. CASE TermClear
  BY <1>27, ControlTypes DEF TermClear, Clear, TypeOK, CtlPCs
<1>28. CASE TermSend
  BY <1>28, ControlTypes DEF TermSend, Send, TypeOK, CtlPCs
<1>29. CASE TermWait
  BY <1>29, ControlTypes DEF TermWait, Await, Branch, TypeOK, CtlPCs
<1>30. CASE \E call \in {"run", "resume", "pause", "stop", "wait", "term"} :
    Enter(call, <<>>)
  BY <1>30, EnterType DEF TypeOK, CtlPCs, Rests
<1>31. CASE Enter("stop", <<"wait", "term", "freed">>)
  BY <1>31, EnterType DEF TypeOK, CtlPCs, Rests
<1>32. CASE ResetState
  BY <1>32, ControlTypes DEF ResetState, TypeOK, CtlPCs
<1>33. CASE ResetRings
  BY <1>33, ControlTypes DEF ResetRings, TypeOK, CtlPCs
<1>34. CASE Gone
  BY <1>34, ControlTypes DEF Gone, vars, TypeOK, CtlPCs
<1> QED BY <1>1, <1>2, <1>3, <1>4, <1>5, <1>6, <1>7, <1>8, <1>9, <1>10, <1>11,
    <1>12, <1>13, <1>14, <1>15, <1>16, <1>17, <1>18, <1>19, <1>20, <1>21, <1>22,
    <1>23, <1>24, <1>25, <1>26, <1>27, <1>28, <1>29, <1>30, <1>31, <1>32, <1>33,
    <1>34 DEF CallStep, NewCall

\* The controlling thread keeps the element in its type.
LEMMA CallElement ==
  ASSUME TypeOK, CallStep \/ NewCall \/ Gone
  PROVE el' \in Elements
BY DEF CallStep, NewCall, Run, Create, Created, Branch, Resume, ResumeClear,
    Clear, ResumeSend, Send, ResumeWait, Await, Pause, PauseForce, PauseClear,
    PauseSend, PauseWait, Stop, StopPaused, StopPoll, StopRunning, StopIdle,
    StopAbort, StopState, StopClear, StopMark, StopSend, WaitForStop,
    WaitForBit, Term, TermClear, TermSend, TermWait, Enter, ResetState,
    ResetRings, Gone, vars, TypeOK, Fields, Elements, Early, Halted

\* A command is queued only where there is room.
LEMMA CallQueue ==
  ASSUME TypeOK, CallStep \/ NewCall \/ Gone
  PROVE internal_queue' \in Seq(Commands) /\ Len(internal_queue') <= QueueSize
<1>1. CASE Run
  <2>1. <<>> \in Seq(Commands) /\ Len(<<>>) <= QueueSize
    BY QueueAssumption
  <2>2. internal_queue' = <<>> \/ internal_queue' = internal_queue
    BY <1>1 DEF Run
  <2> QED BY <2>1, <2>2, Zenon DEF TypeOK
<1>2. CASE ResumeSend
  <2>1. Append(internal_queue, "RESUME") \in Seq(Commands)
    BY DEF TypeOK, Commands
  <2>2. Len(internal_queue) < QueueSize
          => Len(Append(internal_queue, "RESUME")) <= QueueSize
    BY QueueAssumption DEF TypeOK
  <2> QED BY <1>2, <2>1, <2>2 DEF ResumeSend, Send, TypeOK
<1>3. CASE PauseSend
  <2>1. Append(internal_queue, "PAUSE") \in Seq(Commands)
    BY DEF TypeOK, Commands
  <2>2. Len(internal_queue) < QueueSize
          => Len(Append(internal_queue, "PAUSE")) <= QueueSize
    BY QueueAssumption DEF TypeOK
  <2> QED BY <1>3, <2>1, <2>2 DEF PauseSend, Send, TypeOK
<1>4. CASE StopSend
  <2>1. Append(internal_queue, "STOP") \in Seq(Commands)
    BY DEF TypeOK, Commands
  <2>2. Len(internal_queue) < QueueSize
          => Len(Append(internal_queue, "STOP")) <= QueueSize
    BY QueueAssumption DEF TypeOK
  <2> QED BY <1>4, <2>1, <2>2 DEF StopSend, Send, TypeOK
<1>5. CASE TermSend
  <2>1. Append(internal_queue, "DESTROY") \in Seq(Commands)
    BY DEF TypeOK, Commands
  <2>2. Len(internal_queue) < QueueSize
          => Len(Append(internal_queue, "DESTROY")) <= QueueSize
    BY QueueAssumption DEF TypeOK
  <2> QED BY <1>5, <2>1, <2>2 DEF TermSend, Send, TypeOK
<1>6. CASE ~(Run \/ ResumeSend \/ PauseSend \/ StopSend \/ TermSend)
  BY <1>6 DEF CallStep, NewCall, Create, Created, Branch, Resume, ResumeClear,
      Clear, ResumeWait, Await, Pause, PauseForce, PauseClear, PauseWait, Stop,
      StopPaused, StopPoll, StopRunning, StopIdle, StopAbort, StopState,
      StopClear, StopMark, WaitForStop, WaitForBit, Term, TermClear, TermWait,
      Enter, ResetState, ResetRings, Gone, vars, TypeOK
<1> QED BY <1>1, <1>2, <1>3, <1>4, <1>5, <1>6

\* The bits and the flags of the rings stay in their types.
LEMMA CallBits ==
  ASSUME TypeOK, CallStep \/ NewCall \/ Gone
  PROVE bits' \in SUBSET AllBits /\ rings' \in Rings /\ leaving' \in Leavings
<1>1. bits' \in SUBSET AllBits
  BY DEF CallStep, NewCall, Run, Create, Created, Branch, Resume, ResumeClear,
      Clear, ResumeSend, Send, ResumeWait, Await, Pause, PauseForce, PauseClear,
      PauseSend, PauseWait, Stop, StopPaused, StopPoll, StopRunning, StopIdle,
      StopAbort, StopState, StopClear, StopMark, StopSend, WaitForStop,
      WaitForBit, Term, TermClear, TermSend, TermWait, Enter, ResetState,
      ResetRings, Gone, vars, TypeOK, Fields, AllBits, Rings, Fresh
<1>2. rings' \in Rings
  <2>1. \/ rings' = rings \/ rings' = Fresh
        \/ rings' = [rings EXCEPT !.out_abort = TRUE]
        \/ rings' = [rings EXCEPT !.in_abort = TRUE]
    BY DEF CallStep, NewCall, Run, Create, Created, Branch, Resume, ResumeClear,
        Clear, ResumeSend, Send, ResumeWait, Await, Pause, PauseForce,
        PauseClear, PauseSend, PauseWait, Stop, StopPaused, StopPoll,
        StopRunning, StopIdle, StopAbort, StopState, StopClear, StopMark,
        StopSend, WaitForStop, WaitForBit, Term, TermClear, TermSend, TermWait,
        Enter, ResetState, ResetRings, Gone, vars, Fields
  <2>2. rings \in Rings
    BY DEF TypeOK
  <2>3. Fresh \in Rings
    BY DEF Fresh, Rings
  <2>4. /\ [rings EXCEPT !.out_abort = TRUE] \in Rings
        /\ [rings EXCEPT !.in_abort = TRUE] \in Rings
    BY <2>2 DEF Rings
  <2> QED BY <2>1, <2>2, <2>3, <2>4
<1>3. leaving' \in Leavings
  BY DEF CallStep, NewCall, Run, Create, Created, Branch, Resume, ResumeClear,
      Clear, ResumeSend, Send, ResumeWait, Await, Pause, PauseForce, PauseClear,
      PauseSend, PauseWait, Stop, StopPaused, StopPoll, StopRunning, StopIdle,
      StopAbort, StopState, StopClear, StopMark, StopSend, WaitForStop,
      WaitForBit, Term, TermClear, TermSend, TermWait, Enter, ResetState,
      ResetRings, Gone, vars, TypeOK, Fields, AllBits, Rings, Fresh
<1> QED BY <1>1, <1>2, <1>3

\* What the task does that is odd.
LEMMA TaskOdd ==
  ASSUME TaskStep \/ ProcessReturns
  PROVE odd \subseteq odd'
BY DEF TaskStep, OpenReturns, ProcessReturns, Begin, Boot, BootClear, Block,
    Receive, Poll, OnStop, Unrun, Unstop, SetStopped, OnError, OnFinish, Rest,
    OnPause, PauseClose, SetPaused, OnResume, Resumed, ProcessInit, OpenDone,
    OpenAborted, OpenError, Opened, StartClear, AbortRing, CmdFailed, Process,
    ProcessData, ProcessAborted, ProcessFailed, ProcessDone, Done, DestroyBit,
    ExitClose, ExitFlags, Leave, Shared

\* What the controlling thread does that is odd.
LEMMA CallOdd ==
  ASSUME CallStep \/ NewCall \/ Gone
  PROVE odd' = odd \/ \E o \in AllOddities : odd' = odd \cup {o}
<1>1. CASE ResumeWait \/ PauseWait \/ WaitForBit \/ TermWait
  BY <1>1 DEF ResumeWait, PauseWait, WaitForBit, TermWait, Await, AllOddities,
      Timeouts
<1>2. CASE ResetState \/ ResetRings
  BY <1>2 DEF ResetState, ResetRings, MayReset, AllOddities
<1>3. CASE \/ CallStep /\ ~(ResumeWait \/ PauseWait \/ WaitForBit \/ TermWait)
           \/ NewCall /\ ~(ResetState \/ ResetRings)
           \/ Gone
  BY <1>3 DEF CallStep, NewCall, Run, Create, Created, Branch, Resume,
      ResumeClear, Clear, ResumeSend, Send, Pause, PauseForce, PauseClear,
      PauseSend, Stop, StopPaused, StopPoll, StopRunning, StopIdle, StopAbort,
      StopState, StopClear, StopMark, StopSend, WaitForStop, Term, TermClear,
      TermSend, Enter, Gone, vars, Fields
<1> QED BY <1>1, <1>2, <1>3

\* Only audio_element_run touches the task from outside, and only when there
\* is none.
LEMMA CallTask ==
  ASSUME TypeOK, StackOK, TaskInv, CallStep \/ NewCall \/ Gone
  PROVE \/ Create /\ task.pc = "none" /\ task' = [pc |-> "begin", stack |-> <<>>]
        \/ ~Create /\ task' = task
<1>1. CASE Create
  <2>1. task.pc = "none" /\ task.stack = <<>>
    BY <1>1 DEF Create, At, TaskInv, StackOK, Unstacked
  <2> QED BY <1>1, <2>1 DEF Create, TypeOK, Tasks
<1>2. CASE ~Create
  <2>1. task' = task
    BY <1>2 DEF CallStep, NewCall, Fields, Run, Created, Branch, Resume,
        ResumeClear, Clear, ResumeSend, Send, ResumeWait, Await, Pause,
        PauseForce, PauseClear, PauseSend, PauseWait, Stop, StopPaused,
        StopPoll, StopRunning, StopIdle, StopAbort, StopState, StopClear,
        StopMark, StopSend, WaitForStop, WaitForBit, Term, TermClear, TermSend,
        TermWait, Enter, ResetState, ResetRings, Gone, vars
  <2> QED BY <1>2, <2>1
<1> QED BY <1>1, <1>2

\* The task is marked running, and its state RUNNING, only where it works.
LEMMA TaskWork ==
  ASSUME TypeOK, StackOK, TaskInv, WorkInv, TaskStep \/ ProcessReturns
  PROVE WorkInv'
<1>1. CASE Begin
  BY <1>1 DEF Begin, Go, WorkInv, RunningInv, StateInv, PlaceInv, InTransit,
      TypeOK, Elements, Tasks, Shared, Frames, Nested
<1>2. CASE Boot
  BY <1>2 DEF Boot, Go, WorkInv, RunningInv, StateInv, PlaceInv, InTransit,
      TypeOK, Elements, Tasks, Shared, Frames, Nested
<1>3. CASE BootClear
  BY <1>3 DEF BootClear, Go, WorkInv, RunningInv, StateInv, PlaceInv, InTransit,
      TypeOK, Elements, Tasks, Shared, Frames, Nested
<1>4. CASE Block
  BY <1>4 DEF Block, Go, WorkInv, RunningInv, StateInv, PlaceInv, InTransit,
      TypeOK, Elements, Tasks, Shared, Frames, Nested
<1>5. CASE Receive
  <2>1. Head(internal_queue) \in Commands
    BY <1>5 DEF Receive, TypeOK
  <2> DEFINE cmd == Head(internal_queue)
  <2> HIDE DEF cmd
  <2>2. /\ task.pc \in {"blocked", "loop"} /\ task'.pc \in Commands
        /\ UNCHANGED <<el, bits, ctl>>
    BY <1>5, <2>1 DEF Receive, Call, cmd
  <2> QED BY <2>2 DEF Commands, WorkInv, RunningInv, StateInv, PlaceInv,
      InTransit, TypeOK, Elements, Tasks, Shared, Frames, Nested
<1>6. CASE Poll
  BY <1>6 DEF Poll, Go, WorkInv, RunningInv, StateInv, PlaceInv, InTransit,
      TypeOK, Elements, Tasks, Shared, Frames, Nested
<1>7. CASE OnStop
  <2>1. \/ task.stack \in Frames /\ task.pc \in TaskPCs \ Unstacked
        \/ task.stack \in Nested /\ task.pc \in Handlers
    BY <1>7 DEF StackOK, TypeOK, Tasks, Unstacked, Handlers, OnStop, Go, Settled
  <2>2. Back => \/ task'.pc \in {"process", "loop"} /\ task.stack \in Frames
                \/ task'.pc = "open_failed" /\ task.stack \in Nested
    BY <2>1, Returned
  <2> QED BY <1>7, <2>1, <2>2 DEF OnStop, Go, Settled, WorkInv, RunningInv,
      StateInv, PlaceInv, InTransit, TypeOK, Elements, Tasks, Shared, Frames,
      Nested
<1>8. CASE Unrun("stop_unrun", "unstop")
  BY <1>8 DEF Unrun, Go, WorkInv, RunningInv, StateInv, PlaceInv, InTransit,
      TypeOK, Elements, Tasks, Shared, Frames, Nested
<1>9. CASE Unstop
  BY <1>9 DEF Unstop, Go, WorkInv, RunningInv, StateInv, PlaceInv, InTransit,
      TypeOK, Elements, Tasks, Shared, Frames, Nested
<1>10. CASE SetStopped
  <2>1. \/ task.stack \in Frames /\ task.pc \in TaskPCs \ Unstacked
        \/ task.stack \in Nested /\ task.pc \in Handlers
    BY <1>10 DEF StackOK, TypeOK, Tasks, Unstacked, Handlers, SetStopped
  <2>2. Back => \/ task'.pc \in {"process", "loop"} /\ task.stack \in Frames
                \/ task'.pc = "open_failed" /\ task.stack \in Nested
    BY <2>1, Returned
  <2> QED BY <1>10, <2>1, <2>2 DEF SetStopped, WorkInv, RunningInv, StateInv,
      PlaceInv, InTransit, TypeOK, Elements, Tasks, Shared, Frames, Nested
<1>11. CASE OnError
  <2>1. \/ task.stack \in Frames /\ task.pc \in TaskPCs \ Unstacked
        \/ task.stack \in Nested /\ task.pc \in Handlers
    BY <1>11 DEF StackOK, TypeOK, Tasks, Unstacked, Handlers, OnError, Rest, Go,
        Settled
  <2>2. Back => \/ task'.pc \in {"process", "loop"} /\ task.stack \in Frames
                \/ task'.pc = "open_failed" /\ task.stack \in Nested
    BY <2>1, Returned
  <2>3. CASE task'.pc = "unrun" /\ Go(task.pc, "unrun") /\ el' =
      Settled(el'.state)
              /\ el'.state # "RUNNING" /\ UNCHANGED Shared
    BY <2>3 DEF Go, Settled, WorkInv, RunningInv, StateInv, PlaceInv, InTransit,
        TypeOK, Elements, Tasks, Shared
  <2>4. CASE Back /\ UNCHANGED <<el, Shared>>
    BY <1>11, <2>1, <2>2, <2>4, FramesApart DEF OnError, Rest, WorkInv,
        RunningInv, StateInv, PlaceInv, InTransit, TypeOK, Elements, Tasks,
        Shared
  <2>5. \/ Back /\ UNCHANGED <<el, Shared>>
        \/ /\ task'.pc = "unrun" /\ Go(task.pc, "unrun") /\ el' =
            Settled(el'.state)
           /\ el'.state # "RUNNING" /\ UNCHANGED Shared
    BY <1>11 DEF OnError, Rest, Go, Settled, TypeOK, Elements, Tasks
  <2> QED BY <2>3, <2>4, <2>5
<1>12. CASE OnFinish
  <2>1. \/ task.stack \in Frames /\ task.pc \in TaskPCs \ Unstacked
        \/ task.stack \in Nested /\ task.pc \in Handlers
    BY <1>12 DEF StackOK, TypeOK, Tasks, Unstacked, Handlers, OnFinish, Rest,
        Go, Settled
  <2>2. Back => \/ task'.pc \in {"process", "loop"} /\ task.stack \in Frames
                \/ task'.pc = "open_failed" /\ task.stack \in Nested
    BY <2>1, Returned
  <2>3. CASE task'.pc = "unrun" /\ Go(task.pc, "unrun") /\ el' =
      Settled(el'.state)
              /\ el'.state # "RUNNING" /\ UNCHANGED Shared
    BY <2>3 DEF Go, Settled, WorkInv, RunningInv, StateInv, PlaceInv, InTransit,
        TypeOK, Elements, Tasks, Shared
  <2>4. CASE Back /\ UNCHANGED <<el, Shared>>
    BY <1>12, <2>1, <2>2, <2>4, FramesApart DEF OnFinish, Rest, WorkInv,
        RunningInv, StateInv, PlaceInv, InTransit, TypeOK, Elements, Tasks,
        Shared
  <2>5. \/ Back /\ UNCHANGED <<el, Shared>>
        \/ /\ task'.pc = "unrun" /\ Go(task.pc, "unrun") /\ el' =
            Settled(el'.state)
           /\ el'.state # "RUNNING" /\ UNCHANGED Shared
    BY <1>12 DEF OnFinish, Rest, Go, Settled, TypeOK, Elements, Tasks
  <2> QED BY <2>3, <2>4, <2>5
<1>13. CASE Unrun("unrun", "stopped")
  BY <1>13 DEF Unrun, Go, WorkInv, RunningInv, StateInv, PlaceInv, InTransit,
      TypeOK, Elements, Tasks, Shared, Frames, Nested
<1>14. CASE OnPause
  BY <1>14 DEF OnPause, Go, WorkInv, RunningInv, StateInv, PlaceInv, InTransit,
      TypeOK, Elements, Tasks, Shared, Frames, Nested
<1>15. CASE PauseClose
  BY <1>15 DEF PauseClose, Go, Settled, WorkInv, RunningInv, StateInv, PlaceInv,
      InTransit, TypeOK, Elements, Tasks, Shared, Frames, Nested
<1>16. CASE Unrun("pause_unrun", "paused")
  BY <1>16 DEF Unrun, Go, WorkInv, RunningInv, StateInv, PlaceInv, InTransit,
      TypeOK, Elements, Tasks, Shared, Frames, Nested
<1>17. CASE SetPaused
  <2>1. \/ task.stack \in Frames /\ task.pc \in TaskPCs \ Unstacked
        \/ task.stack \in Nested /\ task.pc \in Handlers
    BY <1>17 DEF StackOK, TypeOK, Tasks, Unstacked, Handlers, SetPaused
  <2>2. Back => \/ task'.pc \in {"process", "loop"} /\ task.stack \in Frames
                \/ task'.pc = "open_failed" /\ task.stack \in Nested
    BY <2>1, Returned
  <2> QED BY <1>17, <2>1, <2>2 DEF SetPaused, WorkInv, RunningInv, StateInv,
      PlaceInv, InTransit, TypeOK, Elements, Tasks, Shared, Frames, Nested
<1>18. CASE OnResume
  BY <1>18 DEF OnResume, Go, WorkInv, RunningInv, StateInv, PlaceInv, InTransit,
      TypeOK, Elements, Tasks, Shared, Frames, Nested
<1>19. CASE Resumed
  <2>1. \/ task.stack \in Frames /\ task.pc \in TaskPCs \ Unstacked
        \/ task.stack \in Nested /\ task.pc \in Handlers
    BY <1>19 DEF StackOK, TypeOK, Tasks, Unstacked, Handlers, Resumed, Go
  <2>2. Back => \/ task'.pc \in {"process", "loop"} /\ task.stack \in Frames
                \/ task'.pc = "open_failed" /\ task.stack \in Nested
    BY <2>1, Returned
  <2> QED BY <1>19, <2>1, <2>2 DEF Resumed, Go, WorkInv, RunningInv, StateInv,
      PlaceInv, InTransit, TypeOK, Elements, Tasks, Shared, Frames, Nested
<1>20. CASE ProcessInit
  BY <1>20 DEF ProcessInit, Go, WorkInv, RunningInv, StateInv, PlaceInv,
      InTransit, TypeOK, Elements, Tasks, Shared, Frames, Nested
<1>21. CASE OpenDone
  BY <1>21 DEF OpenDone, Go, WorkInv, RunningInv, StateInv, PlaceInv, InTransit,
      TypeOK, Elements, Tasks, Shared, Frames, Nested
<1>22. CASE OpenAborted
  <2>1. /\ task.pc = "opening" /\ Call("opening", "STOP", "open_failed")
        /\ el' = el /\ UNCHANGED <<bits, ctl>>
    BY <1>22 DEF OpenAborted, Call, Shared
  <2>2. task'.pc = "STOP" /\ task'.stack \in Nested
    BY <2>1, CalledNested
  <2> QED BY <2>1, <2>2 DEF WorkInv, RunningInv, StateInv, PlaceInv, InTransit,
      TypeOK, Elements, Tasks, Shared
<1>23. CASE OpenError
  <2>1. /\ task.pc = "opening" /\ Call("opening", "error", "open_failed")
        /\ el' = [el EXCEPT !.state = "ERROR"] /\ UNCHANGED <<bits, ctl>>
    BY <1>23 DEF OpenError, Call, Shared
  <2>2. task'.pc = "error" /\ task'.stack \in Nested
    BY <2>1, CalledNested
  <2> QED BY <2>1, <2>2 DEF WorkInv, RunningInv, StateInv, PlaceInv, InTransit,
      TypeOK, Elements, Tasks, Shared
<1>24. CASE Opened
  BY <1>24 DEF Opened, Go, WorkInv, RunningInv, StateInv, PlaceInv, InTransit,
      TypeOK, Elements, Tasks, Shared, Frames, Nested
<1>25. CASE StartClear
  <2>1. \/ task.stack \in Frames /\ task.pc \in TaskPCs \ Unstacked
        \/ task.stack \in Nested /\ task.pc \in Handlers
    BY <1>25 DEF StackOK, TypeOK, Tasks, Unstacked, Handlers, StartClear
  <2>2. Back => \/ task'.pc \in {"process", "loop"} /\ task.stack \in Frames
                \/ task'.pc = "open_failed" /\ task.stack \in Nested
    BY <2>1, Returned
  <2> QED BY <1>25, <2>1, <2>2 DEF StartClear, WorkInv, RunningInv, StateInv,
      PlaceInv, InTransit, TypeOK, Elements, Tasks, Shared, Frames, Nested
<1>26. CASE AbortRing("open_failed", "abort_in", "out_abort")
  BY <1>26 DEF AbortRing, Go, WorkInv, RunningInv, StateInv, PlaceInv,
      InTransit, TypeOK, Elements, Tasks, Shared, Frames, Nested
<1>27. CASE AbortRing("abort_in", "fail_unrun", "in_abort")
  BY <1>27 DEF AbortRing, Go, WorkInv, RunningInv, StateInv, PlaceInv,
      InTransit, TypeOK, Elements, Tasks, Shared, Frames, Nested
<1>28. CASE Unrun("fail_unrun", "failed")
  BY <1>28 DEF Unrun, Go, WorkInv, RunningInv, StateInv, PlaceInv, InTransit,
      TypeOK, Elements, Tasks, Shared, Frames, Nested
<1>29. CASE CmdFailed
  <2>1. \/ task.stack \in Frames /\ task.pc \in TaskPCs \ Unstacked
        \/ task.stack \in Nested /\ task.pc \in Handlers
    BY <1>29 DEF StackOK, TypeOK, Tasks, Unstacked, Handlers, CmdFailed
  <2>2. Back => \/ task'.pc \in {"process", "loop"} /\ task.stack \in Frames
                \/ task'.pc = "open_failed" /\ task.stack \in Nested
    BY <2>1, Returned
  <2> QED BY <1>29, <2>1, <2>2 DEF CmdFailed, WorkInv, RunningInv, StateInv,
      PlaceInv, InTransit, TypeOK, Elements, Tasks, Shared, Frames, Nested
<1>30. CASE Process
  BY <1>30 DEF Process, Go, WorkInv, RunningInv, StateInv, PlaceInv, InTransit,
      TypeOK, Elements, Tasks, Shared, Frames, Nested
<1>31. CASE ProcessAborted
  BY <1>31 DEF ProcessAborted, Call, WorkInv, RunningInv, StateInv, PlaceInv,
      InTransit, TypeOK, Elements, Tasks, Shared, Frames, Nested
<1>32. CASE Done
  BY <1>32 DEF Done, Call, WorkInv, RunningInv, StateInv, PlaceInv, InTransit,
      TypeOK, Elements, Tasks, Shared, Frames, Nested
<1>33. CASE Unrun("DESTROY", "destroy_bit")
  BY <1>33 DEF Unrun, Go, WorkInv, RunningInv, StateInv, PlaceInv, InTransit,
      TypeOK, Elements, Tasks, Shared, Frames, Nested
<1>34. CASE DestroyBit
  BY <1>34 DEF DestroyBit, Go, WorkInv, RunningInv, StateInv, PlaceInv,
      InTransit, TypeOK, Elements, Tasks, Shared, Frames, Nested
<1>35. CASE ExitClose
  BY <1>35 DEF ExitClose, Go, WorkInv, RunningInv, StateInv, PlaceInv,
      InTransit, TypeOK, Elements, Tasks, Shared, Frames, Nested
<1>36. CASE ExitFlags
  BY <1>36 DEF ExitFlags, WorkInv, RunningInv, StateInv, PlaceInv, InTransit,
      TypeOK, Elements, Tasks, Shared, Frames, Nested
<1>37. CASE Leave
  <2>1. Head(leaving) # "CREATED"
    BY <1>37 DEF Leave, TypeOK, Leavings
  <2> QED BY <1>37, <2>1 DEF Leave, WorkInv, RunningInv, StateInv, PlaceInv,
      InTransit, TypeOK, Elements, Tasks, Shared, Frames, Nested
<1>38. CASE ProcessData
  BY <1>38 DEF ProcessData, Go, WorkInv, RunningInv, StateInv, PlaceInv,
      InTransit, TypeOK, Elements, Tasks, Shared, Frames, Nested
<1>39. CASE ProcessFailed
  BY <1>39 DEF ProcessFailed, Call, WorkInv, RunningInv, StateInv, PlaceInv,
      InTransit, TypeOK, Elements, Tasks, Shared, Frames, Nested
<1>40. CASE \E n \in BOOLEAN : ProcessDone(n)
  BY <1>40 DEF ProcessDone, Go, WorkInv, RunningInv, StateInv, PlaceInv,
      InTransit, TypeOK, Elements, Tasks, Shared, Frames, Nested
<1> QED BY <1>1, <1>2, <1>3, <1>4, <1>5, <1>6, <1>7, <1>8, <1>9, <1>10, <1>11,
    <1>12, <1>13, <1>14, <1>15, <1>16, <1>17, <1>18, <1>19, <1>20, <1>21, <1>22,
    <1>23, <1>24, <1>25, <1>26, <1>27, <1>28, <1>29, <1>30, <1>31, <1>32, <1>33,
    <1>34, <1>35, <1>36, <1>37, <1>38, <1>39, <1>40 DEF TaskStep, OpenReturns,
    ProcessReturns

\* A task begins once and leaves once.
LEMMA TaskOnce ==
  ASSUME TypeOK, StackOK, TaskInv, WorkInv, TaskStep \/ ProcessReturns
  PROVE TaskInv'
<1>1. CASE Begin
  BY <1>1 DEF Begin, Go, TaskInv, TypeOK, Elements, Tasks, Shared, Frames,
      Nested
<1>2. CASE Boot
  BY <1>2 DEF Boot, Go, TaskInv, TypeOK, Elements, Tasks, Shared, Frames, Nested
<1>3. CASE BootClear
  BY <1>3 DEF BootClear, Go, TaskInv, TypeOK, Elements, Tasks, Shared, Frames,
      Nested
<1>4. CASE Block
  BY <1>4 DEF Block, Go, TaskInv, TypeOK, Elements, Tasks, Shared, Frames,
      Nested
<1>5. CASE Receive
  <2>1. Head(internal_queue) \in Commands
    BY <1>5 DEF Receive, TypeOK
  <2> DEFINE cmd == Head(internal_queue)
  <2> HIDE DEF cmd
  <2>2. /\ task.pc \in {"blocked", "loop"} /\ task'.pc \in Commands
        /\ UNCHANGED <<el, bits, ctl>>
    BY <1>5, <2>1 DEF Receive, Call, cmd
  <2> QED BY <2>2 DEF Commands, TaskInv, TypeOK, Elements, Tasks, Shared,
      Frames, Nested
<1>6. CASE Poll
  BY <1>6 DEF Poll, Go, TaskInv, TypeOK, Elements, Tasks, Shared, Frames, Nested
<1>7. CASE OnStop
  <2>1. \/ task.stack \in Frames /\ task.pc \in TaskPCs \ Unstacked
        \/ task.stack \in Nested /\ task.pc \in Handlers
    BY <1>7 DEF StackOK, TypeOK, Tasks, Unstacked, Handlers, OnStop, Go, Settled
  <2>2. Back => \/ task'.pc \in {"process", "loop"} /\ task.stack \in Frames
                \/ task'.pc = "open_failed" /\ task.stack \in Nested
    BY <2>1, Returned
  <2> QED BY <1>7, <2>1, <2>2 DEF OnStop, Go, Settled, TaskInv, TypeOK,
      Elements, Tasks, Shared, Frames, Nested
<1>8. CASE Unrun("stop_unrun", "unstop")
  BY <1>8 DEF Unrun, Go, TaskInv, TypeOK, Elements, Tasks, Shared, Frames,
      Nested
<1>9. CASE Unstop
  BY <1>9 DEF Unstop, Go, TaskInv, TypeOK, Elements, Tasks, Shared, Frames,
      Nested
<1>10. CASE SetStopped
  <2>1. \/ task.stack \in Frames /\ task.pc \in TaskPCs \ Unstacked
        \/ task.stack \in Nested /\ task.pc \in Handlers
    BY <1>10 DEF StackOK, TypeOK, Tasks, Unstacked, Handlers, SetStopped
  <2>2. Back => \/ task'.pc \in {"process", "loop"} /\ task.stack \in Frames
                \/ task'.pc = "open_failed" /\ task.stack \in Nested
    BY <2>1, Returned
  <2> QED BY <1>10, <2>1, <2>2 DEF SetStopped, TaskInv, TypeOK, Elements, Tasks,
      Shared, Frames, Nested
<1>11. CASE OnError
  <2>1. \/ task.stack \in Frames /\ task.pc \in TaskPCs \ Unstacked
        \/ task.stack \in Nested /\ task.pc \in Handlers
    BY <1>11 DEF StackOK, TypeOK, Tasks, Unstacked, Handlers, OnError, Rest, Go,
        Settled
  <2>2. Back => \/ task'.pc \in {"process", "loop"} /\ task.stack \in Frames
                \/ task'.pc = "open_failed" /\ task.stack \in Nested
    BY <2>1, Returned
  <2> QED BY <1>11, <2>1, <2>2 DEF OnError, Rest, Go, Settled, TaskInv, TypeOK,
      Elements, Tasks, Shared, Frames, Nested
<1>12. CASE OnFinish
  <2>1. \/ task.stack \in Frames /\ task.pc \in TaskPCs \ Unstacked
        \/ task.stack \in Nested /\ task.pc \in Handlers
    BY <1>12 DEF StackOK, TypeOK, Tasks, Unstacked, Handlers, OnFinish, Rest,
        Go, Settled
  <2>2. Back => \/ task'.pc \in {"process", "loop"} /\ task.stack \in Frames
                \/ task'.pc = "open_failed" /\ task.stack \in Nested
    BY <2>1, Returned
  <2> QED BY <1>12, <2>1, <2>2 DEF OnFinish, Rest, Go, Settled, TaskInv, TypeOK,
      Elements, Tasks, Shared, Frames, Nested
<1>13. CASE Unrun("unrun", "stopped")
  BY <1>13 DEF Unrun, Go, TaskInv, TypeOK, Elements, Tasks, Shared, Frames,
      Nested
<1>14. CASE OnPause
  BY <1>14 DEF OnPause, Go, TaskInv, TypeOK, Elements, Tasks, Shared, Frames,
      Nested
<1>15. CASE PauseClose
  BY <1>15 DEF PauseClose, Go, Settled, TaskInv, TypeOK, Elements, Tasks,
      Shared, Frames, Nested
<1>16. CASE Unrun("pause_unrun", "paused")
  BY <1>16 DEF Unrun, Go, TaskInv, TypeOK, Elements, Tasks, Shared, Frames,
      Nested
<1>17. CASE SetPaused
  <2>1. \/ task.stack \in Frames /\ task.pc \in TaskPCs \ Unstacked
        \/ task.stack \in Nested /\ task.pc \in Handlers
    BY <1>17 DEF StackOK, TypeOK, Tasks, Unstacked, Handlers, SetPaused
  <2>2. Back => \/ task'.pc \in {"process", "loop"} /\ task.stack \in Frames
                \/ task'.pc = "open_failed" /\ task.stack \in Nested
    BY <2>1, Returned
  <2> QED BY <1>17, <2>1, <2>2 DEF SetPaused, TaskInv, TypeOK, Elements, Tasks,
      Shared, Frames, Nested
<1>18. CASE OnResume
  BY <1>18 DEF OnResume, Go, TaskInv, TypeOK, Elements, Tasks, Shared, Frames,
      Nested
<1>19. CASE Resumed
  <2>1. \/ task.stack \in Frames /\ task.pc \in TaskPCs \ Unstacked
        \/ task.stack \in Nested /\ task.pc \in Handlers
    BY <1>19 DEF StackOK, TypeOK, Tasks, Unstacked, Handlers, Resumed, Go
  <2>2. Back => \/ task'.pc \in {"process", "loop"} /\ task.stack \in Frames
                \/ task'.pc = "open_failed" /\ task.stack \in Nested
    BY <2>1, Returned
  <2> QED BY <1>19, <2>1, <2>2 DEF Resumed, Go, TaskInv, TypeOK, Elements,
      Tasks, Shared, Frames, Nested
<1>20. CASE ProcessInit
  BY <1>20 DEF ProcessInit, Go, TaskInv, TypeOK, Elements, Tasks, Shared,
      Frames, Nested
<1>21. CASE OpenDone
  BY <1>21 DEF OpenDone, Go, TaskInv, TypeOK, Elements, Tasks, Shared, Frames,
      Nested
<1>22. CASE OpenAborted
  <2>1. /\ task.pc = "opening" /\ Call("opening", "STOP", "open_failed")
        /\ el' = el /\ UNCHANGED <<bits, ctl>>
    BY <1>22 DEF OpenAborted, Call, Shared
  <2>2. task'.pc = "STOP" /\ task'.stack \in Nested
    BY <2>1, CalledNested
  <2> QED BY <2>1, <2>2 DEF TaskInv, TypeOK, Elements, Tasks, Shared
<1>23. CASE OpenError
  <2>1. /\ task.pc = "opening" /\ Call("opening", "error", "open_failed")
        /\ el' = [el EXCEPT !.state = "ERROR"] /\ UNCHANGED <<bits, ctl>>
    BY <1>23 DEF OpenError, Call, Shared
  <2>2. task'.pc = "error" /\ task'.stack \in Nested
    BY <2>1, CalledNested
  <2> QED BY <2>1, <2>2 DEF TaskInv, TypeOK, Elements, Tasks, Shared
<1>24. CASE Opened
  BY <1>24 DEF Opened, Go, TaskInv, TypeOK, Elements, Tasks, Shared, Frames,
      Nested
<1>25. CASE StartClear
  <2>1. \/ task.stack \in Frames /\ task.pc \in TaskPCs \ Unstacked
        \/ task.stack \in Nested /\ task.pc \in Handlers
    BY <1>25 DEF StackOK, TypeOK, Tasks, Unstacked, Handlers, StartClear
  <2>2. Back => \/ task'.pc \in {"process", "loop"} /\ task.stack \in Frames
                \/ task'.pc = "open_failed" /\ task.stack \in Nested
    BY <2>1, Returned
  <2> QED BY <1>25, <2>1, <2>2 DEF StartClear, TaskInv, TypeOK, Elements, Tasks,
      Shared, Frames, Nested
<1>26. CASE AbortRing("open_failed", "abort_in", "out_abort")
  BY <1>26 DEF AbortRing, Go, TaskInv, TypeOK, Elements, Tasks, Shared, Frames,
      Nested
<1>27. CASE AbortRing("abort_in", "fail_unrun", "in_abort")
  BY <1>27 DEF AbortRing, Go, TaskInv, TypeOK, Elements, Tasks, Shared, Frames,
      Nested
<1>28. CASE Unrun("fail_unrun", "failed")
  BY <1>28 DEF Unrun, Go, TaskInv, TypeOK, Elements, Tasks, Shared, Frames,
      Nested
<1>29. CASE CmdFailed
  <2>1. \/ task.stack \in Frames /\ task.pc \in TaskPCs \ Unstacked
        \/ task.stack \in Nested /\ task.pc \in Handlers
    BY <1>29 DEF StackOK, TypeOK, Tasks, Unstacked, Handlers, CmdFailed
  <2>2. Back => \/ task'.pc \in {"process", "loop"} /\ task.stack \in Frames
                \/ task'.pc = "open_failed" /\ task.stack \in Nested
    BY <2>1, Returned
  <2> QED BY <1>29, <2>1, <2>2 DEF CmdFailed, TaskInv, TypeOK, Elements, Tasks,
      Shared, Frames, Nested
<1>30. CASE Process
  BY <1>30 DEF Process, Go, TaskInv, TypeOK, Elements, Tasks, Shared, Frames,
      Nested
<1>31. CASE ProcessAborted
  BY <1>31 DEF ProcessAborted, Call, TaskInv, TypeOK, Elements, Tasks, Shared,
      Frames, Nested
<1>32. CASE Done
  BY <1>32 DEF Done, Call, TaskInv, TypeOK, Elements, Tasks, Shared, Frames,
      Nested
<1>33. CASE Unrun("DESTROY", "destroy_bit")
  BY <1>33 DEF Unrun, Go, TaskInv, TypeOK, Elements, Tasks, Shared, Frames,
      Nested
<1>34. CASE DestroyBit
  BY <1>34 DEF DestroyBit, Go, TaskInv, TypeOK, Elements, Tasks, Shared, Frames,
      Nested
<1>35. CASE ExitClose
  BY <1>35 DEF ExitClose, Go, TaskInv, TypeOK, Elements, Tasks, Shared, Frames,
      Nested
<1>36. CASE ExitFlags
  BY <1>36 DEF ExitFlags, TaskInv, TypeOK, Elements, Tasks, Shared, Frames,
      Nested
<1>37. CASE Leave
  <2>1. Head(leaving) # "CREATED"
    BY <1>37 DEF Leave, TypeOK, Leavings
  <2> QED BY <1>37, <2>1 DEF Leave, TaskInv, TypeOK, Elements, Tasks, Shared,
      Frames, Nested
<1>38. CASE ProcessData
  BY <1>38 DEF ProcessData, Go, TaskInv, TypeOK, Elements, Tasks, Shared,
      Frames, Nested
<1>39. CASE ProcessFailed
  BY <1>39 DEF ProcessFailed, Call, TaskInv, TypeOK, Elements, Tasks, Shared,
      Frames, Nested
<1>40. CASE \E n \in BOOLEAN : ProcessDone(n)
  BY <1>40 DEF ProcessDone, Go, TaskInv, TypeOK, Elements, Tasks, Shared,
      Frames, Nested
<1> QED BY <1>1, <1>2, <1>3, <1>4, <1>5, <1>6, <1>7, <1>8, <1>9, <1>10, <1>11,
    <1>12, <1>13, <1>14, <1>15, <1>16, <1>17, <1>18, <1>19, <1>20, <1>21, <1>22,
    <1>23, <1>24, <1>25, <1>26, <1>27, <1>28, <1>29, <1>30, <1>31, <1>32, <1>33,
    <1>34, <1>35, <1>36, <1>37, <1>38, <1>39, <1>40 DEF TaskStep, OpenReturns,
    ProcessReturns

\* What the controlling thread writes into the element.
LEMMA CallFields ==
  ASSUME TypeOK, CallStep \/ NewCall \/ Gone
  PROVE /\ el'.state \in {el.state, "PAUSED", "INIT"}
        /\ el'.wait_time \in {el.wait_time, "zero"}
        /\ el'.is_running = el.is_running /\ el'.is_open = el.is_open
        /\ el'.task_run = el.task_run
BY DEF CallStep, NewCall, Run, Create, Created, Branch, Resume, ResumeClear,
    Clear, ResumeSend, Send, ResumeWait, Await, Pause, PauseForce, PauseClear,
    PauseSend, PauseWait, Stop, StopPaused, StopPoll, StopRunning, StopIdle,
    StopAbort, StopState, StopClear, StopMark, StopSend, WaitForStop,
    WaitForBit, Term, TermClear, TermSend, TermWait, Enter, ResetState,
    ResetRings, Gone, vars, TypeOK, Fields, Elements

\* WorkInv survives the calls: they never set is_running or close the element.
LEMMA CallWork ==
  ASSUME TypeOK, StackOK, TaskInv, WorkInv, CallStep \/ NewCall \/ Gone
  PROVE WorkInv'
<1>1. CASE task' = task
  BY <1>1, CallFields DEF WorkInv, RunningInv, StateInv, PlaceInv, InTransit
<1>2. CASE Create /\ task.pc = "none" /\ task' = [pc |-> "begin", stack |-> <<>>]
  BY <1>2 DEF Create, WorkInv, RunningInv, StateInv, PlaceInv, InTransit
<1> QED BY <1>1, <1>2, CallTask

\* Where calls return to.
LEMMA ReturnPlace ==
  ASSUME ctl \in Controls
  PROVE /\ Return.pc \notin {"create", "created"}
        /\ Stopped.pc \notin {"create", "created"}
<1>1. CASE ctl.rest = <<>>
  BY <1>1 DEF Return, Stopped, To, Controls
<1>2. CASE ctl.rest # <<>>
  <2>1. Head(ctl.rest) \in {"freed", "term", "wait"}
    BY <1>2 DEF Controls, Rests
  <2>2. Return = [ctl EXCEPT !.pc = Head(ctl.rest), !.rest = Tail(ctl.rest)]
    BY <1>2, Zenon DEF Return
  <2>3. Return.pc = Head(ctl.rest) /\ Stopped.pc = Return.pc
    <3> DEFINE h == Head(ctl.rest)
               r == Tail(ctl.rest)
    <3> HIDE DEF h, r
    <3>1. Return = [ctl EXCEPT !.pc = h, !.rest = r]
      BY <2>2 DEF h, r
    <3>2. Return = [pc |-> h, rest |-> r, seen |-> ctl.seen, told |-> ctl.told]
      BY <3>1 DEF Controls
    <3> QED BY <3>2 DEF Stopped, h
  <2> QED BY <2>1, <2>3
<1> QED BY <1>1, <1>2

\* Only audio_element_run creates a task, and waits for it.
LEMMA CallPlace ==
  ASSUME TypeOK, CallStep \/ NewCall \/ Gone
  PROVE /\ ctl'.pc = "create" => ~el.task_run
        /\ ctl.pc = "created" => "CREATED" \in bits
        /\ ctl.pc = "create" => Create
<1>1. CASE Run
  BY <1>1, ControlTypes, ReturnPlace DEF Run, To, TypeOK, Controls, At
<1>2. CASE Create
  BY <1>2, ControlTypes, ReturnPlace DEF Create, To, TypeOK, Controls, At
<1>3. CASE Created
  BY <1>3, ControlTypes, ReturnPlace DEF Created, Branch, To, TypeOK, Controls,
      At
<1>4. CASE Resume
  BY <1>4, ControlTypes, ReturnPlace DEF Resume, Branch, To, TypeOK, Controls,
      At
<1>5. CASE ResumeClear
  BY <1>5, ControlTypes, ReturnPlace DEF ResumeClear, Clear, To, TypeOK,
      Controls, At
<1>6. CASE ResumeSend
  BY <1>6, ControlTypes, ReturnPlace DEF ResumeSend, Send, To, TypeOK, Controls,
      At
<1>7. CASE ResumeWait
  BY <1>7, ControlTypes, ReturnPlace DEF ResumeWait, Await, Branch, To, TypeOK,
      Controls, At
<1>8. CASE Pause
  BY <1>8, ControlTypes, ReturnPlace DEF Pause, Branch, To, TypeOK, Controls, At
<1>9. CASE PauseForce
  BY <1>9, ControlTypes, ReturnPlace DEF PauseForce, To, TypeOK, Controls, At
<1>10. CASE PauseClear
  BY <1>10, ControlTypes, ReturnPlace DEF PauseClear, Clear, To, TypeOK,
      Controls, At
<1>11. CASE PauseSend
  BY <1>11, ControlTypes, ReturnPlace DEF PauseSend, Send, To, TypeOK, Controls,
      At
<1>12. CASE PauseWait
  BY <1>12, ControlTypes, ReturnPlace DEF PauseWait, Await, Branch, To, TypeOK,
      Controls, At
<1>13. CASE Stop
  BY <1>13, ControlTypes, ReturnPlace DEF Stop, Branch, To, TypeOK, Controls, At
<1>14. CASE StopPaused
  BY <1>14, ControlTypes, ReturnPlace DEF StopPaused, Branch, To, TypeOK,
      Controls, At
<1>15. CASE StopPoll
  BY <1>15, ControlTypes, ReturnPlace DEF StopPoll, To, TypeOK, Controls, At
<1>16. CASE StopRunning
  BY <1>16, ControlTypes, ReturnPlace DEF StopRunning, Branch, To, TypeOK,
      Controls, At
<1>17. CASE StopIdle
  BY <1>17, ControlTypes, ReturnPlace DEF StopIdle, To, TypeOK, Controls, At
<1>18. CASE StopAbort("stop_out", "out_abort", "stop_in")
  BY <1>18, ControlTypes, ReturnPlace DEF StopAbort, To, TypeOK, Controls, At
<1>19. CASE StopAbort("stop_in", "in_abort", "stop_state")
  BY <1>19, ControlTypes, ReturnPlace DEF StopAbort, To, TypeOK, Controls, At
<1>20. CASE StopState
  BY <1>20, ControlTypes, ReturnPlace DEF StopState, Branch, To, TypeOK,
      Controls, At
<1>21. CASE StopClear
  BY <1>21, ControlTypes, ReturnPlace DEF StopClear, Clear, To, TypeOK,
      Controls, At
<1>22. CASE StopMark
  BY <1>22, ControlTypes, ReturnPlace DEF StopMark, To, TypeOK, Controls, At
<1>23. CASE StopSend
  BY <1>23, ControlTypes, ReturnPlace DEF StopSend, Send, To, TypeOK, Controls,
      At
<1>24. CASE WaitForStop
  BY <1>24, ControlTypes, ReturnPlace DEF WaitForStop, Branch, To, TypeOK,
      Controls, At
<1>25. CASE WaitForBit
  BY <1>25, ControlTypes, ReturnPlace DEF WaitForBit, Await, Branch, To, TypeOK,
      Controls, At
<1>26. CASE Term
  BY <1>26, ControlTypes, ReturnPlace DEF Term, Branch, To, TypeOK, Controls, At
<1>27. CASE TermClear
  BY <1>27, ControlTypes, ReturnPlace DEF TermClear, Clear, To, TypeOK,
      Controls, At
<1>28. CASE TermSend
  BY <1>28, ControlTypes, ReturnPlace DEF TermSend, Send, To, TypeOK, Controls,
      At
<1>29. CASE TermWait
  BY <1>29, ControlTypes, ReturnPlace DEF TermWait, Await, Branch, To, TypeOK,
      Controls, At
<1>30. CASE \E call \in {"run", "resume", "pause", "stop", "wait", "term"} :
    Enter(call, <<>>)
  BY <1>30, EnterType DEF TypeOK, CtlPCs, Rests
<1>31. CASE Enter("stop", <<"wait", "term", "freed">>)
  BY <1>31, EnterType DEF TypeOK, CtlPCs, Rests
<1>32. CASE ResetState
  BY <1>32 DEF ResetState, MayReset, At
<1>33. CASE ResetRings
  BY <1>33 DEF ResetRings, MayReset, At
<1>34. CASE Gone
  BY <1>34, ControlTypes, ReturnPlace DEF Gone, vars, TypeOK, Controls, At, To
<1> QED BY <1>1, <1>2, <1>3, <1>4, <1>5, <1>6, <1>7, <1>8, <1>9, <1>10, <1>11,
    <1>12, <1>13, <1>14, <1>15, <1>16, <1>17, <1>18, <1>19, <1>20, <1>21, <1>22,
    <1>23, <1>24, <1>25, <1>26, <1>27, <1>28, <1>29, <1>30, <1>31, <1>32, <1>33,
    <1>34 DEF CallStep, NewCall

\* The calls make no second task.
LEMMA CallOnce ==
  ASSUME TypeOK, StackOK, TaskInv, CallStep \/ NewCall \/ Gone
  PROVE TaskInv'
<1>1. CASE Create /\ task.pc = "none" /\ task' = [pc |-> "begin", stack |-> <<>>]
  BY <1>1 DEF Create, At, To, TaskInv, TypeOK, Controls, Elements
<1>2. CASE ~Create /\ task' = task
  <2>1. task.pc # "begin" /\ ctl.pc # "create"
    BY <1>2, CallPlace DEF TaskInv
  <2>2. ctl'.pc = "create" => task.pc = "none"
    BY <2>1, CallPlace DEF TaskInv
  <2>3. el'.task_run = el.task_run
    BY CallFields
  <2> QED BY <1>2, <2>1, <2>2, <2>3 DEF TaskInv
<1> QED BY <1>1, <1>2, CallTask

\* The controlling thread keeps every variable in its type.
LEMMA CallTypes ==
  ASSUME TypeOK, StackOK, TaskInv, CallStep \/ NewCall \/ Gone
  PROVE TypeOK' /\ StackOK'
<1>1. task' \in Tasks /\ StackOK'
  <2>1. CASE task' = task
    BY <2>1 DEF TypeOK, StackOK
  <2>2. CASE task' = [pc |-> "begin", stack |-> <<>>]
    BY <2>2 DEF Tasks, TaskPCs, StackOK, Unstacked, Handlers
  <2> QED BY <2>1, <2>2, CallTask
<1>2. odd' \subseteq AllOddities
  BY CallOdd DEF TypeOK
<1> QED BY <1>1, <1>2, CallControl, CallElement, CallQueue, CallBits DEF TypeOK
-----------------------------------------------------------------------------
\* IInv is inductive.
LEMMA InitInv == Init => IInv
<1> SUFFICES ASSUME Init PROVE IInv
  OBVIOUS
<1>1. internal_queue \in Seq(Commands) /\ Len(internal_queue) <= QueueSize
  BY QueueAssumption DEF Init
<1>2. TypeOK
  BY <1>1 DEF Init, TypeOK, Elements, Early, Halted, AllBits, Rings, Fresh, Tasks,
    TaskPCs, Leavings, Controls, CtlPCs, Rests
<1>3. StackOK /\ TaskInv
  BY DEF Init, StackOK, Unstacked, Handlers, TaskInv
<1>4. WorkInv
  BY DEF Init, WorkInv, RunningInv, StateInv, PlaceInv
<1> QED BY <1>2, <1>3, <1>4 DEF IInv

\* Every step of the task and of the calls preserves it.
LEMMA NextInv == IInv /\ [Next]_vars => IInv'
<1> SUFFICES ASSUME IInv, [Next]_vars PROVE IInv'
  OBVIOUS
<1>1. TypeOK /\ StackOK /\ TaskInv /\ WorkInv
  BY DEF IInv
<1>2. CASE TaskStep \/ ProcessReturns
  BY <1>1, <1>2, TaskStack, TaskTypes, TaskWork, TaskOnce DEF IInv
<1>3. CASE CallStep \/ NewCall \/ Gone
  BY <1>1, <1>3, CallTypes, CallWork, CallOnce DEF IInv
<1>4. CASE UNCHANGED vars
  BY <1>1, <1>4 DEF IInv, vars, TypeOK, StackOK, TaskInv, WorkInv, RunningInv,
    StateInv, PlaceInv, InTransit
<1> QED BY <1>2, <1>3, <1>4 DEF Next

\* So it holds always.
LEMMA Invariance == Spec => []IInv
BY InitInv, NextInv, PTL DEF Spec

\* Every field keeps its type, the handlers of audio_element.c nest at most two
\* deep and the command queue never grows beyond internal_queue_size,
\* in any order of calls and commands.
THEOREM ElementTypeCorrect == Spec => []TypeOK
<1>1. IInv => TypeOK
  BY DEF IInv
<1> QED BY <1>1, Invariance, PTL

\* audio_element_task never blocks on its queue while is_running says it works,
\* which is what makes audio_element_wait_for_stop worth waiting.
THEOREM SleepsHaltedAlways == Spec => []SleepsHalted
<1>1. IInv => SleepsHalted
  BY DEF IInv, WorkInv, PlaceInv, SleepsHalted
<1> QED BY <1>1, Invariance, PTL

\* audio_element_process_running never calls process on a closed element,
\* whatever the controlling thread wrote into its state.
THEOREM ProcessesOpenAlways == Spec => []ProcessesOpen
<1>1. IInv => ProcessesOpen
  BY DEF IInv, WorkInv, PlaceInv, ProcessesOpen
<1> QED BY <1>1, Invariance, PTL
-----------------------------------------------------------------------------
(***************************************************************************)
(* Stopping and pausing an element.                                        *)
(*                                                                         *)
(* First, a set stopping mark always has its stop command on the way, so   *)
(* audio_element_stop never swallows a later request.  The mark could be   *)
(* left behind by audio_element_run, which empties the queue, and by the   *)
(* end of the task, which nobody may follow into audio_element_stop: hence *)
(* what is known about DESTROY, as long as nobody gave up waiting for it.  *)
(*                                                                         *)
(* Second, what pause and wait_for_stop tell their caller is true, and     *)
(* stays true until a resume: only resume sets is_running, and what was    *)
(* seen and told is forgotten when one is called.  A resume that gave up   *)
(* may be obeyed after a stop, but not after a pause, which is behind it   *)
(* in the queue.                                                           *)
(***************************************************************************)

\* Command c waits in the queue q, and at most once.
Holds(q, c) == \E i \in 1..Len(q) : q[i] = c
Once(q, c) == \A i, j \in 1..Len(q) : q[i] = c /\ q[j] = c => i = j

\* The task obeys a destroy command, up to its last access to the element.
Exits == {"DESTROY", "destroy_bit", "exit", "exit_flags"}
\* The caller of audio_element_terminate waits for the end of the task.
Ending == ctl.pc = "term_wait" /\ "DESTROYED" \notin bits

\* A destroy command, and the task that obeys it, has somebody waiting for it.
DestroyInv ==
  /\ Holds(internal_queue, "DESTROY")
       => /\ Ending /\ Once(internal_queue, "DESTROY")
          /\ task.pc \notin Exits /\ leaving = <<>>
  /\ task.pc \in Exits
       => Ending /\ leaving = <<>> /\ ~Holds(internal_queue, "DESTROY")
  /\ leaving # <<>> => Ending /\ task.pc = "none"
  /\ ctl.pc = "term_send" => "DESTROYED" \notin bits

\* Inside audio_element_stop, behind its look at task_run.
StopCalls == {"stop_paused", "stop_poll", "stop_running", "stop_idle", "stop_out",
              "stop_in", "stop_state", "stop_clear", "stop_mark", "stop_send"}

\* An element that is being stopped has a task to obey.
AliveInv == ctl.pc \in StopCalls \/ el.stopping => task.pc \notin {"none", "begin"}

\* StopMarkIsOwed in terms of Holds.
OwedInv == el.stopping => \/ ctl.pc = "stop_send"
                          \/ Holds(internal_queue, "STOP")
                          \/ task.pc \in {"STOP", "stop_unrun", "unstop"}

MarkInv == DestroyInv /\ AliveInv /\ OwedInv
-----------------------------------------------------------------------------
\* What waits in the queue after a command is sent.
LEMMA Sent ==
  ASSUME NEW q \in Seq(Commands), NEW d \in Commands, NEW c \in Commands
  PROVE /\ Holds(Append(q, d), c) <=> Holds(q, c) \/ d = c
        /\ ~Holds(q, c) => Once(Append(q, d), c)
<1> DEFINE r == Append(q, d)
           n == Len(q)
<1>1. n \in Nat /\ Len(r) = n + 1 /\ r[n + 1] = d /\ \A i \in 1..n : r[i] = q[i]
  OBVIOUS
<1> HIDE DEF r, n
<1>2. \A i \in 1..(n + 1) : i \in 1..n \/ i = n + 1
  BY <1>1
<1>3. 1..n \subseteq 1..(n + 1) /\ n + 1 \in 1..(n + 1)
  BY <1>1
<1>4. Holds(r, c) <=> Holds(q, c) \/ d = c
  BY <1>1, <1>2, <1>3 DEF Holds, n
<1>5. ~Holds(q, c) => Once(r, c)
  BY <1>1, <1>2 DEF Holds, Once, n
<1> QED BY <1>4, <1>5 DEF r

\* What waits in the queue after a command is received.
LEMMA Taken ==
  ASSUME NEW q \in Seq(Commands), q # <<>>, NEW c \in Commands
  PROVE /\ Holds(Tail(q), c) => Holds(q, c)
        /\ Holds(q, c) => Holds(Tail(q), c) \/ Head(q) = c
        /\ Head(q) = c => Holds(q, c)
        /\ Once(q, c) => Once(Tail(q), c)
        /\ Once(q, c) /\ Head(q) = c => ~Holds(Tail(q), c)
<1> DEFINE r == Tail(q)
           n == Len(r)
<1>1. /\ n \in Nat /\ Len(q) = n + 1 /\ Head(q) = q[1]
      /\ \A i \in 1..n : r[i] = q[i + 1]
  OBVIOUS
<1> HIDE DEF r, n
<1>2. \A i \in 1..n : i + 1 \in 1..(n + 1) /\ i + 1 # 1
  BY <1>1
<1>3. \A i \in 1..(n + 1) : i = 1 \/ (i - 1 \in 1..n /\ i = (i - 1) + 1)
  BY <1>1
<1>4. 1 \in 1..(n + 1)
  BY <1>1
<1>5. Holds(r, c) => Holds(q, c)
  BY <1>1, <1>2 DEF Holds, n
<1>6. Holds(q, c) => Holds(r, c) \/ Head(q) = c
  <2> SUFFICES ASSUME NEW i \in 1..(n + 1), q[i] = c, i # 1
               PROVE \E k \in 1..n : r[k] = c
    BY <1>1 DEF Holds, n
  <2>1. i - 1 \in 1..n /\ r[i - 1] = q[i]
    BY <1>1, <1>3
  <2> QED BY <2>1
<1>7. Head(q) = c => Holds(q, c)
  BY <1>1, <1>4 DEF Holds
<1>8. Once(q, c) => Once(r, c)
  BY SMTT(30), <1>1, <1>2 DEF Once, n
<1>9. Once(q, c) /\ Head(q) = c => ~Holds(r, c)
  BY <1>1, <1>2, <1>4 DEF Once, Holds, n
<1> QED BY <1>5, <1>6, <1>7, <1>8, <1>9 DEF r

\* Nothing waits in an empty queue.
LEMMA HoldsNothing == \A c : ~Holds(<<>>, c)
BY DEF Holds
-----------------------------------------------------------------------------
\* Most steps of the task neither touch the queue nor begin or end a task.
Marked == {"STOP", "stop_unrun", "unstop"}
Quiet ==
  /\ UNCHANGED <<internal_queue, leaving, ctl>>
  /\ "DESTROYED" \in bits' <=> "DESTROYED" \in bits
  /\ el'.stopping => el.stopping
  /\ task.pc # "none" /\ task'.pc \notin {"none", "begin"}
  /\ task'.pc \in Exits <=> task.pc \in Exits
  /\ el'.stopping /\ task.pc \in Marked => task'.pc \in Marked

\* They disturb nothing.
LEMMA QuietKeeps ==
  ASSUME MarkInv, Quiet
  PROVE MarkInv'
<1>1. leaving = <<>>
  BY DEF MarkInv, DestroyInv, Quiet
<1>2. DestroyInv'
  BY <1>1 DEF MarkInv, DestroyInv, Quiet, Ending
<1>3. AliveInv'
  BY DEF AliveInv, Quiet
<1>4. OwedInv'
  BY DEF MarkInv, OwedInv, Quiet, Marked
<1> QED BY <1>2, <1>3, <1>4 DEF MarkInv

\* A handler that returns leads back into the loop or into process_init.
LEMMA ReturnedPlace ==
  ASSUME task.stack \in Frames \cup Nested, Back
  PROVE task'.pc \in {"process", "loop", "open_failed"}
BY Returned

\* All steps of the task but three are quiet.
LEMMA TaskQuiet ==
  ASSUME TypeOK, StackOK, TaskStep \/ ProcessReturns, ~Receive, ~ExitFlags, ~Leave
  PROVE Quiet
<1>1. CASE Begin
  BY <1>1 DEF Begin, Go, Quiet, Exits, Marked, Shared, TypeOK, Elements, Tasks
<1>2. CASE Boot
  BY <1>2 DEF Boot, Go, Quiet, Exits, Marked, Shared, TypeOK, Elements, Tasks
<1>3. CASE BootClear
  BY <1>3 DEF BootClear, Go, Quiet, Exits, Marked, Shared, TypeOK, Elements,
    Tasks
<1>4. CASE Block
  BY <1>4 DEF Block, Go, Quiet, Exits, Marked, Shared, TypeOK, Elements, Tasks
<1>5. CASE Poll
  BY <1>5 DEF Poll, Go, Quiet, Exits, Marked, Shared, TypeOK, Elements, Tasks
<1>6. CASE OnStop
  <2>1. task.stack \in Frames \cup Nested
    BY <1>6 DEF OnStop, StackOK, TypeOK, Tasks, TaskPCs, Commands, Unstacked,
      Handlers
  <2> QED BY <1>6, <2>1, ReturnedPlace DEF OnStop, Go, Settled, Quiet, Exits,
    Marked, Shared, TypeOK, Elements, Tasks
<1>7. CASE Unrun("stop_unrun", "unstop")
  BY <1>7 DEF Unrun, Go, Quiet, Exits, Marked, Shared, TypeOK, Elements, Tasks
<1>8. CASE Unstop
  BY <1>8 DEF Unstop, Go, Quiet, Exits, Marked, Shared, TypeOK, Elements, Tasks
<1>9. CASE SetStopped
  <2>1. task.stack \in Frames \cup Nested
    BY <1>9 DEF SetStopped, StackOK, TypeOK, Tasks, TaskPCs, Commands,
      Unstacked, Handlers
  <2> QED BY <1>9, <2>1, ReturnedPlace DEF SetStopped, Go, Quiet, Exits, Marked,
    Shared, TypeOK, Elements, Tasks
<1>10. CASE OnError
  <2>1. task.stack \in Frames \cup Nested
    BY <1>10 DEF OnError, Rest, StackOK, TypeOK, Tasks, TaskPCs, Commands,
      Unstacked, Handlers
  <2> QED BY <1>10, <2>1, ReturnedPlace DEF OnError, Rest, Go, Settled, Quiet,
    Exits, Marked, Shared, TypeOK, Elements, Tasks
<1>11. CASE OnFinish
  <2>1. task.stack \in Frames \cup Nested
    BY <1>11 DEF OnFinish, Rest, StackOK, TypeOK, Tasks, TaskPCs, Commands,
      Unstacked, Handlers
  <2> QED BY <1>11, <2>1, ReturnedPlace DEF OnFinish, Rest, Go, Settled, Quiet,
    Exits, Marked, Shared, TypeOK, Elements, Tasks
<1>12. CASE Unrun("unrun", "stopped")
  BY <1>12 DEF Unrun, Go, Quiet, Exits, Marked, Shared, TypeOK, Elements, Tasks
<1>13. CASE OnPause
  BY <1>13 DEF OnPause, Go, Quiet, Exits, Marked, Shared, TypeOK, Elements,
    Tasks
<1>14. CASE PauseClose
  BY <1>14 DEF PauseClose, Go, Settled, Quiet, Exits, Marked, Shared, TypeOK,
    Elements, Tasks
<1>15. CASE Unrun("pause_unrun", "paused")
  BY <1>15 DEF Unrun, Go, Quiet, Exits, Marked, Shared, TypeOK, Elements, Tasks
<1>16. CASE SetPaused
  <2>1. task.stack \in Frames \cup Nested
    BY <1>16 DEF SetPaused, StackOK, TypeOK, Tasks, TaskPCs, Commands,
      Unstacked, Handlers
  <2> QED BY <1>16, <2>1, ReturnedPlace DEF SetPaused, Go, Quiet, Exits, Marked,
    Shared, TypeOK, Elements, Tasks
<1>17. CASE OnResume
  BY <1>17 DEF OnResume, Go, Quiet, Exits, Marked, Shared, TypeOK, Elements,
    Tasks
<1>18. CASE Resumed
  <2>1. task.stack \in Frames \cup Nested
    BY <1>18 DEF Resumed, Go, StackOK, TypeOK, Tasks, TaskPCs, Commands,
      Unstacked, Handlers
  <2> QED BY <1>18, <2>1, ReturnedPlace DEF Resumed, Go, Quiet, Exits, Marked,
    Shared, TypeOK, Elements, Tasks
<1>19. CASE ProcessInit
  BY <1>19 DEF ProcessInit, Go, Quiet, Exits, Marked, Shared, TypeOK, Elements,
    Tasks
<1>20. CASE OpenDone
  BY <1>20 DEF OpenDone, Go, Quiet, Exits, Marked, Shared, TypeOK, Elements,
    Tasks
<1>21. CASE OpenAborted
  BY <1>21 DEF OpenAborted, Go, Call, Quiet, Exits, Marked, Shared, TypeOK,
    Elements, Tasks
<1>22. CASE OpenError
  BY <1>22 DEF OpenError, Go, Call, Quiet, Exits, Marked, Shared, TypeOK,
    Elements, Tasks
<1>23. CASE Opened
  BY <1>23 DEF Opened, Go, Quiet, Exits, Marked, Shared, TypeOK, Elements, Tasks
<1>24. CASE StartClear
  <2>1. task.stack \in Frames \cup Nested
    BY <1>24 DEF StartClear, StackOK, TypeOK, Tasks, TaskPCs, Commands,
      Unstacked, Handlers
  <2> QED BY <1>24, <2>1, ReturnedPlace DEF StartClear, Go, Quiet, Exits,
    Marked, Shared, TypeOK, Elements, Tasks
<1>25. CASE AbortRing("open_failed", "abort_in", "out_abort")
  BY <1>25 DEF AbortRing, Go, Quiet, Exits, Marked, Shared, TypeOK, Elements,
    Tasks
<1>26. CASE AbortRing("abort_in", "fail_unrun", "in_abort")
  BY <1>26 DEF AbortRing, Go, Quiet, Exits, Marked, Shared, TypeOK, Elements,
    Tasks
<1>27. CASE Unrun("fail_unrun", "failed")
  BY <1>27 DEF Unrun, Go, Quiet, Exits, Marked, Shared, TypeOK, Elements, Tasks
<1>28. CASE CmdFailed
  <2>1. task.stack \in Frames \cup Nested
    BY <1>28 DEF CmdFailed, StackOK, TypeOK, Tasks, TaskPCs, Commands,
      Unstacked, Handlers
  <2> QED BY <1>28, <2>1, ReturnedPlace DEF CmdFailed, Go, Quiet, Exits, Marked,
    Shared, TypeOK, Elements, Tasks
<1>29. CASE Process
  BY <1>29 DEF Process, Go, Quiet, Exits, Marked, Shared, TypeOK, Elements,
    Tasks
<1>30. CASE ProcessAborted
  BY <1>30 DEF ProcessAborted, Go, Call, Quiet, Exits, Marked, Shared, TypeOK,
    Elements, Tasks
<1>31. CASE Done
  BY <1>31 DEF Done, Go, Call, Quiet, Exits, Marked, Shared, TypeOK, Elements,
    Tasks
<1>32. CASE Unrun("DESTROY", "destroy_bit")
  BY <1>32 DEF Unrun, Go, Quiet, Exits, Marked, Shared, TypeOK, Elements, Tasks
<1>33. CASE DestroyBit
  BY <1>33 DEF DestroyBit, Go, Quiet, Exits, Marked, Shared, TypeOK, Elements,
    Tasks
<1>34. CASE ExitClose
  BY <1>34 DEF ExitClose, Go, Quiet, Exits, Marked, Shared, TypeOK, Elements,
    Tasks
<1>35. CASE ProcessData
  BY <1>35 DEF ProcessData, Go, Quiet, Exits, Marked, Shared, TypeOK, Elements,
    Tasks
<1>36. CASE ProcessFailed
  BY <1>36 DEF ProcessFailed, Go, Call, Quiet, Exits, Marked, Shared, TypeOK,
    Elements, Tasks
<1>37. CASE \E n \in BOOLEAN : ProcessDone(n)
  BY <1>37 DEF ProcessDone, Go, Quiet, Exits, Marked, Shared, TypeOK, Elements,
    Tasks
<1> QED BY <1>1, <1>2, <1>3, <1>4, <1>5, <1>6, <1>7, <1>8, <1>9, <1>10, <1>11,
  <1>12, <1>13, <1>14, <1>15, <1>16, <1>17, <1>18, <1>19, <1>20, <1>21, <1>22,
  <1>23, <1>24, <1>25, <1>26, <1>27, <1>28, <1>29, <1>30, <1>31, <1>32, <1>33,
  <1>34, <1>35, <1>36, <1>37 DEF TaskStep, OpenReturns, ProcessReturns

\* The three others: a command is received, the task ends, and sets its last
\* bits.
LEMMA TaskMark ==
  ASSUME TypeOK, StackOK, MarkInv, TaskStep \/ ProcessReturns
  PROVE MarkInv'
<1>1. CASE Receive
  <2>1. /\ task.pc \in {"loop", "blocked"} /\ internal_queue # <<>>
        /\ task'.pc = Head(internal_queue)
        /\ internal_queue' = Tail(internal_queue)
        /\ UNCHANGED <<el, bits, leaving, ctl>>
    BY <1>1 DEF Receive, Call
  <2>2. internal_queue \in Seq(Commands) /\ Head(internal_queue) \in Commands
    BY <2>1 DEF TypeOK
  <2> DEFINE h == Head(internal_queue)
  <2>3. \A c \in Commands :
          /\ Holds(internal_queue', c) => Holds(internal_queue, c)
          /\ Holds(internal_queue, c) => Holds(internal_queue', c) \/ h = c
          /\ h = c => Holds(internal_queue, c)
          /\ Once(internal_queue, c) => Once(internal_queue', c)
          /\ Once(internal_queue, c) /\ h = c => ~Holds(internal_queue', c)
    BY <2>1, <2>2, Taken
  <2> HIDE DEF h
  <2>4. h \in Commands /\ task'.pc = h
    BY <2>1, <2>2 DEF h
  <2>5. leaving = <<>>
    BY <2>1 DEF MarkInv, DestroyInv
  <2>6. h \in Exits => h = "DESTROY"
    BY <2>4 DEF Commands, Exits
  <2>7. DestroyInv'
    BY <2>1, <2>3, <2>4, <2>5, <2>6 DEF MarkInv, DestroyInv, Ending, Commands, Exits
  <2>8. AliveInv'
    BY <2>4 DEF AliveInv, Commands
  <2>9. OwedInv'
    BY <2>1, <2>3, <2>4 DEF MarkInv, OwedInv, Commands
  <2> QED BY <2>7, <2>8, <2>9 DEF MarkInv
<1>2. CASE ExitFlags
  <2>1. /\ task.pc \in Exits /\ task'.pc = "none" /\ ~el'.stopping
        /\ UNCHANGED <<bits, internal_queue, ctl>>
    BY <1>2 DEF ExitFlags, Exits, TypeOK, Elements
  <2>2. Ending /\ ~Holds(internal_queue, "DESTROY")
    BY <2>1 DEF MarkInv, DestroyInv
  <2>3. DestroyInv'
    BY <2>1, <2>2 DEF DestroyInv, Ending, Exits
  <2>4. AliveInv' /\ OwedInv'
    BY <2>1, <2>2 DEF AliveInv, OwedInv, Ending, StopCalls
  <2> QED BY <2>3, <2>4 DEF MarkInv
<1>3. CASE Leave
  <2>1. /\ leaving # <<>> /\ leaving' = Tail(leaving)
        /\ bits' = bits \cup {Head(leaving)}
        /\ UNCHANGED <<el, internal_queue, task, ctl>>
    BY <1>3 DEF Leave
  <2>2. /\ Ending /\ task.pc = "none" /\ ~Holds(internal_queue, "DESTROY")
    BY <2>1 DEF MarkInv, DestroyInv
  <2>3. leaving' # <<>> => Head(leaving) # "DESTROYED"
    BY SMTT(30), <2>1 DEF TypeOK, Leavings
  <2>4. DestroyInv'
    BY <2>1, <2>2, <2>3 DEF DestroyInv, Ending, Exits
  <2>5. AliveInv' /\ OwedInv'
    BY <2>1 DEF MarkInv, AliveInv, OwedInv
  <2> QED BY <2>4, <2>5 DEF MarkInv
<1>4. CASE ~Receive /\ ~ExitFlags /\ ~Leave
  BY <1>4, TaskQuiet, QuietKeeps
<1> QED BY <1>1, <1>2, <1>3, <1>4
-----------------------------------------------------------------------------
\* Where a call goes on when it returns.
LEMMA ReturnsTo ==
  ASSUME ctl \in Controls
  PROVE /\ Return \in Controls /\ Stopped \in Controls
        /\ Return.pc \in {"idle", "freed", "term", "wait"}
        /\ Return.seen = ctl.seen /\ Return.told = ctl.told
        /\ Stopped.pc = Return.pc /\ Stopped.seen = ctl.seen
        /\ Stopped.told = "stopped"
             => ctl.told = "stopped" \/ ctl.seen \in {"idle", "running"}
        /\ Stopped.told = "paused" => ctl.told = "paused"
<1>1. Return \in Controls /\ Stopped \in Controls
  BY ControlTypes, StoppedType
<1>2. /\ Stopped.pc = Return.pc /\ Stopped.seen = Return.seen
      /\ Stopped.told = "stopped"
           => Return.told = "stopped" \/ ctl.seen \in {"idle", "running"}
      /\ Stopped.told = "paused" => Return.told = "paused"
  BY <1>1 DEF Stopped, Controls
<1>3. CASE ctl.rest = <<>>
  BY <1>1, <1>2, <1>3 DEF Return, To, Controls
<1>4. CASE ctl.rest # <<>>
  <2> DEFINE h == Head(ctl.rest)
             r == Tail(ctl.rest)
  <2>1. h \in {"freed", "term", "wait"}
    BY <1>4 DEF Controls, Rests
  <2>2. Return = [ctl EXCEPT !.pc = h, !.rest = r]
    BY <1>4, Zenon DEF Return
  <2> HIDE DEF h, r
  <2>3. Return.pc = h /\ Return.seen = ctl.seen /\ Return.told = ctl.told
    BY <2>2 DEF Controls
  <2> QED BY <1>1, <1>2, <2>1, <2>3
<1> QED BY <1>3, <1>4

\* What a step of the controlling thread has to do with destroy commands, with
\* the mark and with the queue.
Moves ==
  /\ ctl'.pc \in StopCalls => ctl.pc \in StopCalls \/ el.task_run
  /\ ctl'.pc = "term_send" => TermClear
  /\ ctl'.pc = "term_wait" => TermSend
  /\ ctl.pc = "term_wait" => "DESTROYED" \in bits \/ "term_wait" \in odd'
  /\ ctl.pc = "stop_send" => StopSend
  /\ "DESTROYED" \in bits' => "DESTROYED" \in bits
  /\ el'.stopping => \/ el.stopping
                     \/ ctl.pc = "stop_mark" /\ ctl'.pc = "stop_send"
  /\ \/ internal_queue' = internal_queue
     \/ internal_queue' = <<>> /\ ~el.task_run
     \/ TermSend \/ StopSend
     \/ \E c \in {"RESUME", "PAUSE"} : internal_queue' = Append(internal_queue, c)
  /\ leaving' = leaving

\* Every step of it is of this kind.
LEMMA CallMoves ==
  ASSUME TypeOK, CallStep \/ NewCall \/ Gone
  PROVE Moves
<1>1. CASE Run
  BY <1>1, ReturnsTo DEF Run, At, To, Moves, StopCalls, Fields, TypeOK,
    Controls, Elements
<1>2. CASE Create
  BY <1>2, ReturnsTo DEF Create, At, To, Moves, StopCalls, Fields, TypeOK,
    Controls, Elements
<1>3. CASE Created
  BY <1>3, ReturnsTo DEF Created, Branch, At, To, Moves, StopCalls, Fields,
    TypeOK, Controls, Elements
<1>4. CASE Resume
  BY <1>4, ReturnsTo DEF Resume, Branch, At, To, Moves, StopCalls, Fields,
    TypeOK, Controls, Elements
<1>5. CASE ResumeClear
  BY <1>5, ReturnsTo DEF ResumeClear, Clear, At, To, Moves, StopCalls, Fields,
    TypeOK, Controls, Elements
<1>6. CASE ResumeSend
  BY <1>6, ReturnsTo DEF ResumeSend, Send, At, To, Moves, StopCalls, Fields,
    TypeOK, Controls, Elements
<1>7. CASE ResumeWait
  BY <1>7, ReturnsTo DEF ResumeWait, Await, Branch, At, To, Moves, StopCalls,
    Fields, TypeOK, Controls, Elements
<1>8. CASE Pause
  BY <1>8, ReturnsTo DEF Pause, Branch, At, To, Moves, StopCalls, Fields,
    TypeOK, Controls, Elements
<1>9. CASE PauseForce
  BY <1>9, ReturnsTo DEF PauseForce, At, To, Moves, StopCalls, Fields, TypeOK,
    Controls, Elements
<1>10. CASE PauseClear
  BY <1>10, ReturnsTo DEF PauseClear, Clear, At, To, Moves, StopCalls, Fields,
    TypeOK, Controls, Elements
<1>11. CASE PauseSend
  BY <1>11, ReturnsTo DEF PauseSend, Send, At, To, Moves, StopCalls, Fields,
    TypeOK, Controls, Elements
<1>12. CASE PauseWait
  BY <1>12, ReturnsTo DEF PauseWait, Await, Branch, At, To, Moves, StopCalls,
    Fields, TypeOK, Controls, Elements
<1>13. CASE Stop
  BY <1>13, ReturnsTo DEF Stop, Branch, At, To, Moves, StopCalls, Fields,
    TypeOK, Controls, Elements
<1>14. CASE StopPaused
  BY <1>14, ReturnsTo DEF StopPaused, Branch, At, To, Moves, StopCalls, Fields,
    TypeOK, Controls, Elements
<1>15. CASE StopPoll
  BY <1>15, ReturnsTo DEF StopPoll, At, To, Moves, StopCalls, Fields, TypeOK,
    Controls, Elements
<1>16. CASE StopRunning
  BY <1>16, ReturnsTo DEF StopRunning, Branch, At, To, Moves, StopCalls, Fields,
    TypeOK, Controls, Elements
<1>17. CASE StopIdle
  BY <1>17, ReturnsTo DEF StopIdle, At, To, Moves, StopCalls, Fields, TypeOK,
    Controls, Elements
<1>18. CASE StopAbort("stop_out", "out_abort", "stop_in")
  BY <1>18, ReturnsTo DEF StopAbort, At, To, Moves, StopCalls, Fields, TypeOK,
    Controls, Elements
<1>19. CASE StopAbort("stop_in", "in_abort", "stop_state")
  BY <1>19, ReturnsTo DEF StopAbort, At, To, Moves, StopCalls, Fields, TypeOK,
    Controls, Elements
<1>20. CASE StopState
  BY <1>20, ReturnsTo DEF StopState, Branch, At, To, Moves, StopCalls, Fields,
    TypeOK, Controls, Elements
<1>21. CASE StopClear
  BY <1>21, ReturnsTo DEF StopClear, Clear, At, To, Moves, StopCalls, Fields,
    TypeOK, Controls, Elements
<1>22. CASE StopMark
  BY <1>22, ReturnsTo DEF StopMark, At, To, Moves, StopCalls, Fields, TypeOK,
    Controls, Elements
<1>23. CASE StopSend
  BY <1>23, ReturnsTo DEF StopSend, Send, At, To, Moves, StopCalls, Fields,
    TypeOK, Controls, Elements
<1>24. CASE WaitForStop
  BY <1>24, ReturnsTo DEF WaitForStop, Branch, At, To, Moves, StopCalls, Fields,
    TypeOK, Controls, Elements
<1>25. CASE WaitForBit
  BY <1>25, ReturnsTo DEF WaitForBit, Await, Branch, At, To, Moves, StopCalls,
    Fields, TypeOK, Controls, Elements
<1>26. CASE Term
  BY <1>26, ReturnsTo DEF Term, Branch, At, To, Moves, StopCalls, Fields,
    TypeOK, Controls, Elements
<1>27. CASE TermClear
  BY <1>27, ReturnsTo DEF TermClear, Clear, At, To, Moves, StopCalls, Fields,
    TypeOK, Controls, Elements
<1>28. CASE TermSend
  BY <1>28, ReturnsTo DEF TermSend, Send, At, To, Moves, StopCalls, Fields,
    TypeOK, Controls, Elements
<1>29. CASE TermWait
  BY <1>29, ReturnsTo DEF TermWait, Await, Branch, At, To, Moves, StopCalls,
    Fields, TypeOK, Controls, Elements
<1>30. CASE \E call \in {"run", "resume", "pause", "stop", "wait", "term"} :
  Enter(call, <<>>)
  <2>1. ctl.pc = "idle" /\ ctl'.pc \in {"run", "resume", "pause", "stop", "wait", "term"}
    BY <1>30, EnterType DEF TypeOK, CtlPCs, Rests
  <2>2. UNCHANGED <<el, bits, internal_queue, leaving>>
    BY <1>30 DEF Enter, Branch, Fields
  <2> QED BY <2>1, <2>2 DEF Moves, StopCalls
<1>31. CASE Enter("stop", <<"wait", "term", "freed">>)
  <2>1. ctl.pc = "idle" /\ ctl'.pc \in {"run", "resume", "pause", "stop", "wait", "term"}
    BY <1>31, EnterType DEF TypeOK, CtlPCs, Rests
  <2>2. UNCHANGED <<el, bits, internal_queue, leaving>>
    BY <1>31 DEF Enter, Branch, Fields
  <2> QED BY <2>1, <2>2 DEF Moves, StopCalls
<1>32. CASE ResetState
  BY <1>32, ReturnsTo DEF ResetState, MayReset, At, To, Moves, StopCalls,
    Fields, TypeOK, Controls, Elements
<1>33. CASE ResetRings
  BY <1>33, ReturnsTo DEF ResetRings, MayReset, At, To, Moves, StopCalls,
    Fields, TypeOK, Controls, Elements
<1>34. CASE Gone
  BY <1>34, ReturnsTo DEF Gone, vars, At, To, Moves, StopCalls, Fields, TypeOK,
    Controls, Elements
<1> QED BY <1>1, <1>2, <1>3, <1>4, <1>5, <1>6, <1>7, <1>8, <1>9, <1>10, <1>11,
  <1>12, <1>13, <1>14, <1>15, <1>16, <1>17, <1>18, <1>19, <1>20, <1>21, <1>22,
  <1>23, <1>24, <1>25, <1>26, <1>27, <1>28, <1>29, <1>30, <1>31, <1>32, <1>33,
  <1>34 DEF CallStep, NewCall

\* While somebody waits for the end of the task, nobody calls: so a step of a
\* call finds no destroy command, and none obeyed.
LEMMA CallMark ==
  ASSUME TypeOK, StackOK, TaskInv, MarkInv, "term_wait" \notin odd',
         CallStep \/ NewCall \/ Gone
  PROVE MarkInv'
<1> DEFINE q == internal_queue
<1>1. Moves
  BY CallMoves
<1>2. \/ ctl.pc = "create" /\ task.pc = "none" /\ task'.pc = "begin"
         /\ ctl'.pc = "created"
      \/ task' = task
  BY CallTask DEF Create, At, To, TypeOK, Controls
<1>3. ~Ending
  BY <1>1 DEF Moves, Ending
<1>4. ~Holds(q, "DESTROY") /\ task.pc \notin Exits /\ leaving = <<>>
  BY <1>3 DEF MarkInv, DestroyInv
<1>5. q \in Seq(Commands) /\ {"DESTROY", "STOP", "RESUME", "PAUSE"} \subseteq Commands
  BY DEF TypeOK, Commands
<1>6. TermSend => /\ ctl.pc = "term_send" /\ bits' = bits /\ el' = el
                  /\ \/ q' = Append(q, "DESTROY") /\ ctl'.pc = "term_wait"
                     \/ q' = q
  BY DEF TermSend, Send, At, To, TypeOK, Controls
<1>7. StopSend => /\ ctl.pc = "stop_send"
                  /\ \/ q' = Append(q, "STOP")
                     \/ q' = q /\ ~el'.stopping
  BY DEF StopSend, Send, At, TypeOK, Elements
<1>8. \A d, c \in Commands :
        /\ Holds(Append(q, d), c) <=> Holds(q, c) \/ d = c
        /\ ~Holds(q, c) => Once(Append(q, d), c)
  BY <1>5, Sent
<1> HIDE DEF q
<1>9. \/ q' = q
      \/ q' = <<>> /\ ~el.task_run
      \/ TermSend /\ q' = Append(q, "DESTROY") /\ ctl'.pc = "term_wait"
      \/ \E c \in {"RESUME", "PAUSE", "STOP"} : q' = Append(q, c)
  BY <1>1, <1>6, <1>7 DEF Moves, q
<1>10. Holds(q', "DESTROY")
        => TermSend /\ ctl'.pc = "term_wait" /\ Once(q', "DESTROY")
  <2>1. CASE q' = q
    BY <1>4, <2>1
  <2>2. CASE q' = <<>>
    BY <2>2, HoldsNothing
  <2>3. CASE TermSend /\ q' = Append(q, "DESTROY") /\ ctl'.pc = "term_wait"
    BY <1>4, <1>5, <1>8, <2>3
  <2>4. ASSUME NEW c \in {"RESUME", "PAUSE", "STOP"}, q' = Append(q, c)
        PROVE ~Holds(q', "DESTROY")
    BY <1>4, <1>5, <1>8, <2>4
  <2> QED BY <1>9, <2>1, <2>2, <2>3, <2>4
<1>11. Holds(q, "STOP") => Holds(q', "STOP") \/ ~el.task_run
  <2>1. ASSUME NEW c \in Commands, q' = Append(q, c), Holds(q, "STOP")
        PROVE Holds(q', "STOP")
    BY <1>5, <1>8, <2>1
  <2> QED BY <1>5, <1>9, <2>1
<1>12. task'.pc \notin Exits /\ leaving' = <<>>
  BY <1>1, <1>2, <1>4 DEF Exits, Moves
<1>13. ctl'.pc = "term_send" => "DESTROYED" \notin bits'
  BY <1>1 DEF Moves, TermClear, Clear
<1>14. DestroyInv'
  <2>1. TermSend => "DESTROYED" \notin bits'
    BY <1>6 DEF MarkInv, DestroyInv
  <2> QED BY <1>10, <1>12, <1>13, <2>1 DEF DestroyInv, Ending, q
<1>15. el.task_run => task.pc \notin {"none", "begin"}
  BY DEF TaskInv
<1>16. AliveInv'
  BY <1>1, <1>2, <1>15 DEF MarkInv, AliveInv, Moves, StopCalls
<1>17. OwedInv'
  <2> SUFFICES ASSUME el'.stopping, ctl'.pc # "stop_send"
               PROVE Holds(q', "STOP") \/ task'.pc \in {"STOP", "stop_unrun", "unstop"}
    BY DEF OwedInv, q
  <2>1. el.stopping
    BY <1>1 DEF Moves
  <2>2. el.task_run /\ task' = task
    BY <1>2, <2>1 DEF MarkInv, AliveInv, TaskInv, TypeOK, Tasks
  <2>3. CASE ctl.pc = "stop_send"
    <3>1. q' = Append(q, "STOP")
      BY <1>1, <1>7, <2>3 DEF Moves
    <3> QED BY <1>5, <1>8, <3>1
  <2>4. CASE ctl.pc # "stop_send"
    BY <1>11, <2>1, <2>2, <2>4 DEF MarkInv, OwedInv, q
  <2> QED BY <2>3, <2>4
<1> QED BY <1>14, <1>16, <1>17 DEF MarkInv
-----------------------------------------------------------------------------
\* What happened is never forgotten.
LEMMA OddGrows == ASSUME [Next]_vars PROVE odd \subseteq odd'
<1>1. CASE TaskStep \/ ProcessReturns
  BY <1>1, TaskOdd
<1>2. CASE CallStep \/ NewCall \/ Gone
  BY <1>2, CallOdd
<1>3. CASE UNCHANGED vars
  BY <1>3 DEF vars
<1> QED BY <1>1, <1>2, <1>3 DEF Next

\* So MarkInv is inductive, on top of IInv, until somebody gives up waiting for
\* the end of the task.
MarkSoFar == "term_wait" \notin odd => MarkInv
LEMMA InitMark == Init => MarkSoFar
BY HoldsNothing DEF Init, MarkSoFar, MarkInv, DestroyInv, AliveInv, OwedInv,
    StopCalls, Exits

\* Every step preserves it.
LEMMA NextMark == IInv /\ MarkSoFar /\ [Next]_vars => MarkSoFar'
<1> SUFFICES ASSUME IInv, MarkSoFar, [Next]_vars, "term_wait" \notin odd'
             PROVE MarkInv'
  BY DEF MarkSoFar
<1>1. TypeOK /\ StackOK /\ TaskInv
  BY DEF IInv
<1>2. MarkInv
  BY OddGrows DEF MarkSoFar
<1>3. CASE TaskStep \/ ProcessReturns
  BY <1>1, <1>2, <1>3, TaskMark
<1>4. CASE CallStep \/ NewCall \/ Gone
  BY <1>1, <1>2, <1>4, CallMark
<1>5. CASE UNCHANGED vars
  BY <1>2, <1>5 DEF vars, MarkInv, DestroyInv, AliveInv, OwedInv, Ending
<1> QED BY <1>3, <1>4, <1>5 DEF Next

\* So it holds always.
LEMMA MarkInvariance == Spec => []MarkSoFar
BY InitMark, NextMark, Invariance, PTL DEF Spec

\* The mark that makes audio_element_stop send nothing stands only as long as a
\* stop command is on its way, whatever the length of the queue and whatever the
\* task and its caller do, until a terminate gives up waiting for the task.
THEOREM StopMarkIsOwedAlways == Spec => []StopMarkIsOwed
<1>1. MarkSoFar => StopMarkIsOwed
  BY DEF MarkSoFar, MarkInv, OwedInv, StopMarkIsOwed, Holds
<1> QED BY <1>1, MarkInvariance, PTL
-----------------------------------------------------------------------------
\* Commands that wake the element and commands that put it to rest, in the
\* hands of the task.
Resuming == {"RESUME", "start", "again"}
Pausing == {"PAUSE", "pause_close", "pause_unrun", "paused"}
ResumeCalls == {"resume", "resume_clear", "resume_send", "resume_wait"}

\* An element that works, but for the resume it obeys, is marked running; one
\* that comes to rest is not, and who calls resume forgets what it was told.
AtWork == {"init", "opening", "opened", "start_clear", "processing", "done"}
RunInv ==
  /\ task.pc \in AtWork => el.is_running
  /\ task.pc \in {"unstop", "stopped", "failed", "paused"} => ~el.is_running
  /\ task.pc \in {"pause_unrun", "paused"} => ~el.is_open
  /\ ctl.pc \in ResumeCalls => ctl.seen = "none" /\ ctl.told = "nothing"

\* Nothing is sent behind a pause that is waited for.
Final(q, c) == \A i \in 1..Len(q) : q[i] = c => i = Len(q)
PauseOrder ==
  /\ Holds(internal_queue, "PAUSE")
       => /\ ctl.pc = "pause_wait" /\ "PAUSED" \notin bits
          /\ Final(internal_queue, "PAUSE") /\ task.pc \notin Pausing
  /\ task.pc \in Pausing
       => /\ ctl.pc = "pause_wait" /\ "PAUSED" \notin bits
          /\ internal_queue = <<>>
  /\ ctl.pc = "pause_send" => "PAUSED" \notin bits
\* So once it is obeyed no resume is on its way, not even one that gave up.
PauseTold ==
  ctl.told = "paused" \/ (ctl.pc = "pause_wait" /\ "PAUSED" \in bits)
    => /\ ~el.is_running /\ ~el.is_open
       /\ ~Holds(internal_queue, "RESUME") /\ task.pc \notin Resuming
PauseInv == PauseOrder /\ PauseTold

\* A resume that is waited for is the only one on its way.
OrderInv ==
  /\ Holds(internal_queue, "RESUME")
       => /\ ctl.pc = "resume_wait" /\ "RESUMED" \notin bits
          /\ Once(internal_queue, "RESUME") /\ task.pc \notin Resuming
  /\ task.pc \in Resuming
       => /\ ctl.pc = "resume_wait" /\ "RESUMED" \notin bits
          /\ ~Holds(internal_queue, "RESUME")
  /\ ctl.pc = "resume_send" => "RESUMED" \notin bits

\* Nobody resets the state of an element that works.
StayInv == task.pc \in {"processing", "done"} => el.state # "INIT"

\* What stop() saw and what the caller was told stay true until a resume.
ToldInv ==
  /\ ctl.pc = "stop_idle" \/ ctl.seen = "idle" => ~el.is_running
  /\ ctl.seen = "running" /\ ctl.pc # "stop_clear" /\ "STOPPED" \in bits
       => ~el.is_running
  /\ ctl.told = "stopped" => ~el.is_running

RestInv == OrderInv /\ StayInv /\ ToldInv

\* What a step of the task has to do with all that.
Steady ==
  /\ el'.is_running => el.is_running \/ task.pc \in {"start", "again"}
  /\ el'.is_open => el.is_open \/ task.pc = "init"
  /\ el.stopping => el'.stopping \/ ~el'.is_running
  /\ "STOPPED" \in bits' => "STOPPED" \in bits \/ ~el'.is_running \/ leaving # <<>>
  /\ "PAUSED" \in bits'
       => "PAUSED" \in bits \/ (task.pc = "paused" /\ task'.pc \notin Pausing)
  /\ "RESUMED" \in bits'
       => \/ "RESUMED" \in bits \/ leaving # <<>>
          \/ task.pc \in {"start", "again"} /\ task'.pc \notin Resuming
  /\ task'.pc \in {"processing", "done"} /\ el'.state = "INIT"
       => \/ "reset" \in odd'
          \/ task.pc \in {"processing", "done"} /\ el.state = "INIT"
  /\ \/ Receive
     \/ /\ internal_queue' = internal_queue
        /\ task'.pc \in Resuming
             => task.pc \in Resuming \/ (task.pc = "done" /\ el.state = "INIT")
        /\ task'.pc \in Pausing => task.pc \in Pausing
  /\ ctl' = ctl

\* Every step of the task is of this kind.
LEMMA TaskSteady ==
  ASSUME TypeOK, StackOK, PlaceInv, RunInv, TaskStep \/ ProcessReturns
  PROVE Steady /\ RunInv'
<1>1. CASE Begin
  BY <1>1 DEF Begin, Go, Steady, RunInv, AtWork, Resuming, Pausing, Early,
    PlaceInv, Shared, TypeOK, Elements, Tasks
<1>2. CASE Boot
  BY <1>2 DEF Boot, Go, Steady, RunInv, AtWork, Resuming, Pausing, Early,
    PlaceInv, Shared, TypeOK, Elements, Tasks
<1>3. CASE BootClear
  BY <1>3 DEF BootClear, Go, Steady, RunInv, AtWork, Resuming, Pausing, Early,
    PlaceInv, Shared, TypeOK, Elements, Tasks
<1>4. CASE Block
  BY <1>4 DEF Block, Go, Steady, RunInv, AtWork, Resuming, Pausing, Early,
    PlaceInv, Shared, TypeOK, Elements, Tasks
<1>5. CASE Poll
  BY <1>5 DEF Poll, Go, Steady, RunInv, AtWork, Resuming, Pausing, Early,
    PlaceInv, Shared, TypeOK, Elements, Tasks
<1>6. CASE OnStop
  <2>1. task.stack \in Frames \cup Nested
    BY <1>6 DEF OnStop, StackOK, TypeOK, Tasks, TaskPCs, Commands, Unstacked,
      Handlers
  <2> QED BY ZenonT(30), <1>6, <2>1, ReturnedPlace DEF OnStop, Go, Settled, Steady, RunInv,
    AtWork, Resuming, Pausing, Early, PlaceInv, Shared, TypeOK, Elements, Tasks
<1>7. CASE Unrun("stop_unrun", "unstop")
  BY <1>7 DEF Unrun, Go, Steady, RunInv, AtWork, Resuming, Pausing, Early,
    PlaceInv, Shared, TypeOK, Elements, Tasks
<1>8. CASE Unstop
  BY <1>8 DEF Unstop, Go, Steady, RunInv, AtWork, Resuming, Pausing, Early,
    PlaceInv, Shared, TypeOK, Elements, Tasks
<1>9. CASE SetStopped
  <2>1. task.stack \in Frames \cup Nested
    BY <1>9 DEF SetStopped, StackOK, TypeOK, Tasks, TaskPCs, Commands,
      Unstacked, Handlers
  <2> QED BY <1>9, <2>1, ReturnedPlace DEF SetStopped, Go, Steady, RunInv,
    AtWork, Resuming, Pausing, Early, PlaceInv, Shared, TypeOK, Elements, Tasks
<1>10. CASE OnError
  <2>1. task.stack \in Frames \cup Nested
    BY <1>10 DEF OnError, Rest, StackOK, TypeOK, Tasks, TaskPCs, Commands,
      Unstacked, Handlers
  <2> QED BY ZenonT(30), <1>10, <2>1, ReturnedPlace DEF OnError, Rest, Go, Settled, Steady,
    RunInv, AtWork, Resuming, Pausing, Early, PlaceInv, Shared, TypeOK,
    Elements, Tasks
<1>11. CASE OnFinish
  <2>1. task.stack \in Frames \cup Nested
    BY <1>11 DEF OnFinish, Rest, StackOK, TypeOK, Tasks, TaskPCs, Commands,
      Unstacked, Handlers
  <2> QED BY ZenonT(30), <1>11, <2>1, ReturnedPlace DEF OnFinish, Rest, Go, Settled, Steady,
    RunInv, AtWork, Resuming, Pausing, Early, PlaceInv, Shared, TypeOK,
    Elements, Tasks
<1>12. CASE Unrun("unrun", "stopped")
  BY <1>12 DEF Unrun, Go, Steady, RunInv, AtWork, Resuming, Pausing, Early,
    PlaceInv, Shared, TypeOK, Elements, Tasks
<1>13. CASE OnPause
  BY <1>13 DEF OnPause, Go, Steady, RunInv, AtWork, Resuming, Pausing, Early,
    PlaceInv, Shared, TypeOK, Elements, Tasks
<1>14. CASE PauseClose
  BY <1>14 DEF PauseClose, Go, Settled, Steady, RunInv, AtWork, Resuming,
    Pausing, Early, PlaceInv, Shared, TypeOK, Elements, Tasks
<1>15. CASE Unrun("pause_unrun", "paused")
  BY <1>15 DEF Unrun, Go, Steady, RunInv, AtWork, Resuming, Pausing, Early,
    PlaceInv, Shared, TypeOK, Elements, Tasks
<1>16. CASE SetPaused
  <2>1. task.stack \in Frames \cup Nested
    BY <1>16 DEF SetPaused, StackOK, TypeOK, Tasks, TaskPCs, Commands,
      Unstacked, Handlers
  <2> QED BY <1>16, <2>1, ReturnedPlace DEF SetPaused, Go, Steady, RunInv,
    AtWork, Resuming, Pausing, Early, PlaceInv, Shared, TypeOK, Elements, Tasks
<1>17. CASE OnResume
  BY <1>17 DEF OnResume, Go, Steady, RunInv, AtWork, Resuming, Pausing, Early,
    PlaceInv, Shared, TypeOK, Elements, Tasks
<1>18. CASE Resumed
  <2>1. task.stack \in Frames \cup Nested
    BY <1>18 DEF Resumed, Go, StackOK, TypeOK, Tasks, TaskPCs, Commands,
      Unstacked, Handlers
  <2> QED BY <1>18, <2>1, ReturnedPlace DEF Resumed, Go, Steady, RunInv, AtWork,
    Resuming, Pausing, Early, PlaceInv, Shared, TypeOK, Elements, Tasks
<1>19. CASE ProcessInit
  BY <1>19 DEF ProcessInit, Go, Steady, RunInv, AtWork, Resuming, Pausing,
    Early, PlaceInv, Shared, TypeOK, Elements, Tasks
<1>20. CASE OpenDone
  BY <1>20 DEF OpenDone, Go, Steady, RunInv, AtWork, Resuming, Pausing, Early,
    PlaceInv, Shared, TypeOK, Elements, Tasks
<1>21. CASE OpenAborted
  BY <1>21 DEF OpenAborted, Go, Call, Steady, RunInv, AtWork, Resuming, Pausing,
    Early, PlaceInv, Shared, TypeOK, Elements, Tasks
<1>22. CASE OpenError
  BY <1>22 DEF OpenError, Go, Call, Steady, RunInv, AtWork, Resuming, Pausing,
    Early, PlaceInv, Shared, TypeOK, Elements, Tasks
<1>23. CASE Opened
  BY <1>23 DEF Opened, Go, Steady, RunInv, AtWork, Resuming, Pausing, Early,
    PlaceInv, Shared, TypeOK, Elements, Tasks
<1>24. CASE StartClear
  <2>1. task.stack \in Frames \cup Nested
    BY <1>24 DEF StartClear, StackOK, TypeOK, Tasks, TaskPCs, Commands,
      Unstacked, Handlers
  <2> QED BY <1>24, <2>1, ReturnedPlace DEF StartClear, Go, Steady, RunInv,
    AtWork, Resuming, Pausing, Early, PlaceInv, Shared, TypeOK, Elements, Tasks
<1>25. CASE AbortRing("open_failed", "abort_in", "out_abort")
  BY <1>25 DEF AbortRing, Go, Steady, RunInv, AtWork, Resuming, Pausing, Early,
    PlaceInv, Shared, TypeOK, Elements, Tasks
<1>26. CASE AbortRing("abort_in", "fail_unrun", "in_abort")
  BY <1>26 DEF AbortRing, Go, Steady, RunInv, AtWork, Resuming, Pausing, Early,
    PlaceInv, Shared, TypeOK, Elements, Tasks
<1>27. CASE Unrun("fail_unrun", "failed")
  BY <1>27 DEF Unrun, Go, Steady, RunInv, AtWork, Resuming, Pausing, Early,
    PlaceInv, Shared, TypeOK, Elements, Tasks
<1>28. CASE CmdFailed
  <2>1. task.stack \in Frames \cup Nested
    BY <1>28 DEF CmdFailed, StackOK, TypeOK, Tasks, TaskPCs, Commands,
      Unstacked, Handlers
  <2> QED BY <1>28, <2>1, ReturnedPlace DEF CmdFailed, Go, Steady, RunInv,
    AtWork, Resuming, Pausing, Early, PlaceInv, Shared, TypeOK, Elements, Tasks
<1>29. CASE Process
  BY <1>29 DEF Process, Go, Steady, RunInv, AtWork, Resuming, Pausing, Early,
    PlaceInv, Shared, TypeOK, Elements, Tasks
<1>30. CASE ProcessAborted
  BY <1>30 DEF ProcessAborted, Go, Call, Steady, RunInv, AtWork, Resuming,
    Pausing, Early, PlaceInv, Shared, TypeOK, Elements, Tasks
<1>31. CASE Done
  BY <1>31 DEF Done, Go, Call, Steady, RunInv, AtWork, Resuming, Pausing, Early,
    PlaceInv, Shared, TypeOK, Elements, Tasks
<1>32. CASE Unrun("DESTROY", "destroy_bit")
  BY <1>32 DEF Unrun, Go, Steady, RunInv, AtWork, Resuming, Pausing, Early,
    PlaceInv, Shared, TypeOK, Elements, Tasks
<1>33. CASE DestroyBit
  BY <1>33 DEF DestroyBit, Go, Steady, RunInv, AtWork, Resuming, Pausing, Early,
    PlaceInv, Shared, TypeOK, Elements, Tasks
<1>34. CASE ExitClose
  BY <1>34 DEF ExitClose, Go, Steady, RunInv, AtWork, Resuming, Pausing, Early,
    PlaceInv, Shared, TypeOK, Elements, Tasks
<1>35. CASE ProcessData
  BY <1>35 DEF ProcessData, Go, Steady, RunInv, AtWork, Resuming, Pausing,
    Early, PlaceInv, Shared, TypeOK, Elements, Tasks
<1>36. CASE ProcessFailed
  BY <1>36 DEF ProcessFailed, Go, Call, Steady, RunInv, AtWork, Resuming,
    Pausing, Early, PlaceInv, Shared, TypeOK, Elements, Tasks
<1>37. CASE \E n \in BOOLEAN : ProcessDone(n)
  BY <1>37 DEF ProcessDone, Go, Steady, RunInv, AtWork, Resuming, Pausing,
    Early, PlaceInv, Shared, TypeOK, Elements, Tasks
<1>38. CASE Receive
  <2>1. Head(internal_queue) \in Commands
    BY <1>38 DEF Receive, TypeOK
  <2> QED BY <1>38, <2>1 DEF Receive, Go, Call, Steady, RunInv, AtWork,
    Resuming, Pausing, Early, PlaceInv, Shared, TypeOK, Elements, Tasks,
    Commands
<1>39. CASE ExitFlags
  BY <1>39 DEF ExitFlags, Steady, RunInv, AtWork, Resuming, Pausing, Early,
    PlaceInv, Shared, TypeOK, Elements, Tasks
<1>40. CASE Leave
  <2>1. leaving # <<>> /\ UNCHANGED <<el, internal_queue, task, ctl, odd>>
    BY <1>40 DEF Leave
  <2>2. bits' = bits \cup {Head(leaving)} /\ Head(leaving) # "PAUSED"
    BY <1>40 DEF Leave, TypeOK, Leavings
  <2> QED BY <2>1, <2>2 DEF Steady, RunInv, AtWork, Resuming, Pausing
<1> QED BY <1>1, <1>2, <1>3, <1>4, <1>5, <1>6, <1>7, <1>8, <1>9, <1>10, <1>11,
  <1>12, <1>13, <1>14, <1>15, <1>16, <1>17, <1>18, <1>19, <1>20, <1>21, <1>22,
  <1>23, <1>24, <1>25, <1>26, <1>27, <1>28, <1>29, <1>30, <1>31, <1>32, <1>33,
  <1>34, <1>35, <1>36, <1>37, <1>38, <1>39, <1>40 DEF TaskStep, OpenReturns,
  ProcessReturns

\* What a step of the controlling thread has to do with it.
Tells ==
  /\ ctl'.pc \in ResumeCalls
       => \/ ctl.pc \in ResumeCalls /\ ctl'.seen = ctl.seen /\ ctl'.told = ctl.told
          \/ ctl'.seen = "none" /\ ctl'.told = "nothing"
  /\ ctl'.pc = "resume_send" => "RESUMED" \notin bits'
  /\ ctl'.pc = "pause_send" => "PAUSED" \notin bits'
  /\ ctl.pc = "resume_wait" => "RESUMED" \in bits \/ "resume_wait" \in odd'
  /\ ctl.pc = "pause_wait" => "PAUSED" \in bits \/ "pause_wait" \in odd'
  /\ ctl'.pc = "pause_wait" => ctl.pc = "pause_send" /\ bits' = bits
  /\ ctl'.pc = "stop_idle" => ~el.is_running
  /\ ctl'.seen = "idle" => ctl.seen = "idle" \/ ctl.pc = "stop_idle"
  /\ ctl'.seen = "running"
       => \/ ctl'.pc = "stop_clear"
          \/ ctl.pc = "stop_clear" /\ "STOPPED" \notin bits'
          \/ /\ ctl.seen = "running" /\ ctl.pc # "stop_clear"
             /\ "STOPPED" \in bits' => "STOPPED" \in bits
  /\ ctl'.told = "stopped"
       => \/ ctl.told = "stopped" \/ ~el.is_running
          \/ /\ ctl.pc = "wait_bit" /\ "STOPPED" \in bits
             /\ ctl.seen \in {"idle", "running"}
  /\ ctl'.told = "paused"
       => ctl.told = "paused" \/ (ctl.pc = "pause_wait" /\ "PAUSED" \in bits)
  /\ el'.state = "INIT"
       => el.state = "INIT" \/ ctl.told = "stopped" \/ "reset" \in odd'
  /\ \/ internal_queue' = internal_queue \/ internal_queue' = <<>>
     \/ /\ ctl.pc = "resume_send" /\ ctl'.pc = "resume_wait" /\ bits' = bits
        /\ internal_queue' = Append(internal_queue, "RESUME")
     \/ /\ ctl.pc = "pause_send" /\ ctl'.pc = "pause_wait" /\ bits' = bits
        /\ internal_queue' = Append(internal_queue, "PAUSE")
     \/ \E c \in {"STOP", "DESTROY"} : internal_queue' = Append(internal_queue, c)

\* The start of a call keeps what is known, or forgets it.
LEMMA EnterTells ==
  ASSUME TypeOK, NEW rest \in Rests,
         NEW call \in {"run", "resume", "pause", "stop", "wait", "term"},
         Enter(call, rest)
  PROVE Tells
<1> DEFINE s == IF call = "resume" THEN "none" ELSE ctl.seen
           h == IF call \in {"wait", "term"} THEN ctl.told ELSE "nothing"
<1>1. ctl' = [pc |-> call, rest |-> rest, seen |-> s, told |-> h]
  BY DEF Enter, Branch, TypeOK, Controls
<1>2. /\ s \in {ctl.seen, "none"} /\ h \in {ctl.told, "nothing"}
      /\ call = "resume" => s = "none" /\ h = "nothing"
  OBVIOUS
<1> HIDE DEF s, h
<1>3. ctl'.pc = call /\ ctl'.seen = s /\ ctl'.told = h
  BY <1>1
<1>4. ctl.pc = "idle" /\ UNCHANGED <<el, bits, internal_queue>>
  BY DEF Enter, Branch, At, Fields
<1> QED BY <1>2, <1>3, <1>4 DEF Tells, ResumeCalls

\* So does every other step of it.
LEMMA CallTells ==
  ASSUME TypeOK, CallStep \/ NewCall \/ Gone
  PROVE Tells
<1>1. CASE Run
  BY <1>1, ReturnsTo DEF Run, At, To, Tells, ResumeCalls, Fields, TypeOK,
    Controls, Elements
<1>2. CASE Create
  BY <1>2, ReturnsTo DEF Create, At, To, Tells, ResumeCalls, Fields, TypeOK,
    Controls, Elements
<1>3. CASE Created
  BY <1>3, ReturnsTo DEF Created, Branch, At, To, Tells, ResumeCalls, Fields,
    TypeOK, Controls, Elements
<1>4. CASE Resume
  BY <1>4, ReturnsTo DEF Resume, Branch, At, To, Tells, ResumeCalls, Fields,
    TypeOK, Controls, Elements
<1>5. CASE ResumeClear
  BY <1>5, ReturnsTo DEF ResumeClear, Clear, At, To, Tells, ResumeCalls, Fields,
    TypeOK, Controls, Elements
<1>6. CASE ResumeSend
  BY <1>6, ReturnsTo DEF ResumeSend, Send, At, To, Tells, ResumeCalls, Fields,
    TypeOK, Controls, Elements
<1>7. CASE ResumeWait
  BY <1>7, ReturnsTo DEF ResumeWait, Await, Branch, At, To, Tells, ResumeCalls,
    Fields, TypeOK, Controls, Elements
<1>8. CASE Pause
  BY <1>8, ReturnsTo DEF Pause, Branch, At, To, Tells, ResumeCalls, Fields,
    TypeOK, Controls, Elements
<1>9. CASE PauseForce
  BY <1>9, ReturnsTo DEF PauseForce, At, To, Tells, ResumeCalls, Fields, TypeOK,
    Controls, Elements
<1>10. CASE PauseClear
  BY <1>10, ReturnsTo DEF PauseClear, Clear, At, To, Tells, ResumeCalls, Fields,
    TypeOK, Controls, Elements
<1>11. CASE PauseSend
  BY <1>11, ReturnsTo DEF PauseSend, Send, At, To, Tells, ResumeCalls, Fields,
    TypeOK, Controls, Elements
<1>12. CASE PauseWait
  BY <1>12, ReturnsTo DEF PauseWait, Await, Branch, At, To, Tells, ResumeCalls,
    Fields, TypeOK, Controls, Elements
<1>13. CASE Stop
  BY <1>13, ReturnsTo DEF Stop, Branch, At, To, Tells, ResumeCalls, Fields,
    TypeOK, Controls, Elements
<1>14. CASE StopPaused
  BY <1>14, ReturnsTo DEF StopPaused, Branch, At, To, Tells, ResumeCalls,
    Fields, TypeOK, Controls, Elements
<1>15. CASE StopPoll
  BY <1>15, ReturnsTo DEF StopPoll, At, To, Tells, ResumeCalls, Fields, TypeOK,
    Controls, Elements
<1>16. CASE StopRunning
  BY <1>16, ReturnsTo DEF StopRunning, Branch, At, To, Tells, ResumeCalls,
    Fields, TypeOK, Controls, Elements
<1>17. CASE StopIdle
  BY <1>17, ReturnsTo DEF StopIdle, At, To, Tells, ResumeCalls, Fields, TypeOK,
    Controls, Elements
<1>18. CASE StopAbort("stop_out", "out_abort", "stop_in")
  BY <1>18, ReturnsTo DEF StopAbort, At, To, Tells, ResumeCalls, Fields, TypeOK,
    Controls, Elements
<1>19. CASE StopAbort("stop_in", "in_abort", "stop_state")
  BY <1>19, ReturnsTo DEF StopAbort, At, To, Tells, ResumeCalls, Fields, TypeOK,
    Controls, Elements
<1>20. CASE StopState
  BY <1>20, ReturnsTo DEF StopState, Branch, At, To, Tells, ResumeCalls, Fields,
    TypeOK, Controls, Elements
<1>21. CASE StopClear
  BY <1>21, ReturnsTo DEF StopClear, Clear, At, To, Tells, ResumeCalls, Fields,
    TypeOK, Controls, Elements
<1>22. CASE StopMark
  BY <1>22, ReturnsTo DEF StopMark, At, To, Tells, ResumeCalls, Fields, TypeOK,
    Controls, Elements
<1>23. CASE StopSend
  BY <1>23, ReturnsTo DEF StopSend, Send, At, To, Tells, ResumeCalls, Fields,
    TypeOK, Controls, Elements
<1>24. CASE WaitForStop
  BY <1>24, ReturnsTo DEF WaitForStop, Branch, At, To, Tells, ResumeCalls,
    Fields, TypeOK, Controls, Elements
<1>25. CASE WaitForBit
  BY <1>25, ReturnsTo DEF WaitForBit, Await, Branch, At, To, Tells, ResumeCalls,
    Fields, TypeOK, Controls, Elements
<1>26. CASE Term
  BY <1>26, ReturnsTo DEF Term, Branch, At, To, Tells, ResumeCalls, Fields,
    TypeOK, Controls, Elements
<1>27. CASE TermClear
  BY <1>27, ReturnsTo DEF TermClear, Clear, At, To, Tells, ResumeCalls, Fields,
    TypeOK, Controls, Elements
<1>28. CASE TermSend
  BY <1>28, ReturnsTo DEF TermSend, Send, At, To, Tells, ResumeCalls, Fields,
    TypeOK, Controls, Elements
<1>29. CASE TermWait
  BY <1>29, ReturnsTo DEF TermWait, Await, Branch, At, To, Tells, ResumeCalls,
    Fields, TypeOK, Controls, Elements
<1>30. CASE \E call \in {"run", "resume", "pause", "stop", "wait", "term"} :
  Enter(call, <<>>)
  BY <1>30, EnterTells DEF Rests
<1>31. CASE Enter("stop", <<"wait", "term", "freed">>)
  BY <1>31, EnterTells DEF Rests
<1>32. CASE ResetState
  BY <1>32, ReturnsTo DEF ResetState, MayReset, At, To, Tells, ResumeCalls,
    Fields, TypeOK, Controls, Elements
<1>33. CASE ResetRings
  BY <1>33, ReturnsTo DEF ResetRings, MayReset, At, To, Tells, ResumeCalls,
    Fields, TypeOK, Controls, Elements
<1>34. CASE Gone
  BY <1>34, ReturnsTo DEF Gone, vars, At, To, Tells, ResumeCalls, Fields,
    TypeOK, Controls, Elements
<1> QED BY <1>1, <1>2, <1>3, <1>4, <1>5, <1>6, <1>7, <1>8, <1>9, <1>10, <1>11,
  <1>12, <1>13, <1>14, <1>15, <1>16, <1>17, <1>18, <1>19, <1>20, <1>21, <1>22,
  <1>23, <1>24, <1>25, <1>26, <1>27, <1>28, <1>29, <1>30, <1>31, <1>32, <1>33,
  <1>34 DEF CallStep, NewCall

\* RunInv holds whatever has happened.
LEMMA CallRun ==
  ASSUME TypeOK, StackOK, TaskInv, RunInv, CallStep \/ NewCall \/ Gone
  PROVE RunInv'
<1>1. Tells
  BY CallTells
<1>2. task' = task \/ task'.pc = "begin"
  BY CallTask
<1>3. el'.is_running = el.is_running /\ el'.is_open = el.is_open
  BY CallFields
<1> QED BY <1>1, <1>2, <1>3 DEF RunInv, Tells, AtWork

\* It is inductive, on top of IInv.
LEMMA RunInvariance == Spec => []RunInv
<1>1. Init => RunInv
  BY DEF Init, RunInv, AtWork, ResumeCalls
<1>2. ASSUME IInv, RunInv, [Next]_vars PROVE RunInv'
  <2>1. TypeOK /\ StackOK /\ TaskInv /\ PlaceInv
    BY <1>2 DEF IInv, WorkInv
  <2>2. CASE TaskStep \/ ProcessReturns
    BY <1>2, <2>1, <2>2, TaskSteady
  <2>3. CASE CallStep \/ NewCall \/ Gone
    BY <1>2, <2>1, <2>3, CallRun
  <2>4. CASE UNCHANGED vars
    BY <1>2, <2>4 DEF vars, RunInv
  <2> QED BY <1>2, <2>2, <2>3, <2>4 DEF Next
<1> QED BY <1>1, <1>2, Invariance, PTL DEF Spec
-----------------------------------------------------------------------------
\* The last command in the queue, when one is received and when it is sent.
LEMMA FinalOne ==
  ASSUME NEW q \in Seq(Commands), NEW c \in Commands
  PROVE /\ q # <<>> /\ Final(q, c) => /\ Final(Tail(q), c)
                                      /\ Head(q) = c => Tail(q) = <<>>
        /\ ~Holds(q, c) => Final(Append(q, c), c)
<1>1. ASSUME q # <<>>, Final(q, c)
      PROVE Final(Tail(q), c) /\ (Head(q) = c => Tail(q) = <<>>)
  <2> DEFINE r == Tail(q)
             n == Len(r)
  <2>1. /\ n \in Nat /\ Len(q) = n + 1 /\ Head(q) = q[1] /\ r \in Seq(Commands)
        /\ \A i \in 1..n : r[i] = q[i + 1]
    BY <1>1
  <2>2. n = 0 => r = <<>>
    BY <2>1, EmptySeq
  <2> HIDE DEF r, n
  <2>3. \A i \in 1..n : i + 1 \in 1..(n + 1) /\ (i + 1 = n + 1 => i = n)
    BY <2>1
  <2>4. Final(r, c)
    BY <1>1, <2>1, <2>3 DEF Final, n
  <2>5. Head(q) = c => r = <<>>
    <3>1. 1 \in 1..(n + 1)
      BY <2>1
    <3>2. Head(q) = c => 1 = n + 1
      BY <1>1, <2>1, <3>1 DEF Final
    <3> QED BY <2>1, <2>2, <3>2
  <2> QED BY <2>4, <2>5 DEF r
<1>2. ASSUME ~Holds(q, c) PROVE Final(Append(q, c), c)
  <2> DEFINE r == Append(q, c)
             n == Len(q)
  <2>1. n \in Nat /\ Len(r) = n + 1 /\ \A i \in 1..n : r[i] = q[i]
    OBVIOUS
  <2> HIDE DEF r, n
  <2>2. \A i \in 1..(n + 1) : i \in 1..n \/ i = n + 1
    BY <2>1
  <2>3. Final(r, c)
    BY <1>2, <2>1, <2>2 DEF Final, Holds, n
  <2> QED BY <2>3 DEF r
<1> QED BY <1>1, <1>2

\* The task comes to a pause when everything sent before it is obeyed, and what
\* the caller is told of it stays true.
LEMMA TaskPause ==
  ASSUME TypeOK, StackOK, PlaceInv, RunInv, PauseInv, TaskStep \/ ProcessReturns
  PROVE PauseInv'
<1> DEFINE q == internal_queue
<1>1. Steady /\ RunInv'
  BY TaskSteady
<1>2. q \in Seq(Commands) /\ {"RESUME", "PAUSE"} \subseteq Commands
  BY DEF TypeOK, Commands
<1>3. CASE Receive
  <2>1. /\ q # <<>> /\ task.pc \in {"loop", "blocked"}
        /\ task'.pc = Head(q) /\ q' = Tail(q) /\ UNCHANGED <<el, bits, ctl>>
    BY <1>3 DEF Receive, Call
  <2> DEFINE h == Head(q)
  <2>2. /\ \A c \in {"RESUME", "PAUSE"} : /\ Holds(q', c) => Holds(q, c)
                                          /\ h = c => Holds(q, c)
        /\ Final(q, "PAUSE") => Final(q', "PAUSE") /\ (h = "PAUSE" => q' = <<>>)
    BY <1>2, <2>1, Taken, FinalOne
  <2>3. h \in Commands
    BY <1>2, <2>1
  <2> HIDE DEF h, q
  <2>4. /\ task'.pc \in Resuming <=> h = "RESUME"
        /\ task'.pc \in Pausing <=> h = "PAUSE"
    BY <2>1, <2>3 DEF Commands, Resuming, Pausing, h
  <2>5. Holds(q', "PAUSE") => h # "PAUSE"
    BY <2>2, HoldsNothing DEF PauseInv, PauseOrder, q
  <2>6. PauseOrder'
    BY <2>1, <2>2, <2>4, <2>5 DEF PauseInv, PauseOrder, q
  <2>7. PauseTold'
    BY <2>1, <2>2, <2>4 DEF PauseInv, PauseTold, q
  <2> QED BY <2>6, <2>7 DEF PauseInv
<1>4. CASE ~Receive
  <2>1. /\ q' = q /\ ctl' = ctl
        /\ task'.pc \in Resuming => task.pc \in Resuming \cup {"done"}
        /\ task'.pc \in Pausing => task.pc \in Pausing
    BY <1>1, <1>4 DEF Steady
  <2>2. PauseOrder'
    BY <1>1, <2>1 DEF PauseInv, PauseOrder, Steady, Pausing
  <2>3. PauseTold'
    <3> SUFFICES ASSUME ctl.told = "paused" \/ (ctl.pc = "pause_wait" /\ "PAUSED" \in bits')
                 PROVE /\ ~el'.is_running /\ ~el'.is_open
                       /\ ~Holds(q, "RESUME") /\ task'.pc \notin Resuming
      BY <2>1 DEF PauseTold
    <3>1. CASE ctl.told = "paused" \/ (ctl.pc = "pause_wait" /\ "PAUSED" \in bits)
      <4>1. /\ ~el.is_running /\ ~el.is_open
            /\ ~Holds(q, "RESUME") /\ task.pc \notin Resuming
        BY <3>1 DEF PauseInv, PauseTold
      <4>2. task.pc \notin AtWork
        BY <4>1 DEF RunInv
      <4> QED BY <1>1, <2>1, <4>1, <4>2 DEF Steady, AtWork, Resuming
    <3>2. CASE "PAUSED" \notin bits /\ "PAUSED" \in bits'
      <4>1. task.pc = "paused"
        BY <1>1, <3>2 DEF Steady
      <4>2. q = <<>> /\ ~el.is_running /\ ~el.is_open
        BY <4>1 DEF PauseInv, PauseOrder, Pausing, RunInv
      <4>3. ~Holds(q, "RESUME")
        BY <4>2, HoldsNothing
      <4> QED BY <1>1, <2>1, <4>1, <4>2, <4>3 DEF Steady, Resuming
    <3> QED BY <3>1, <3>2
  <2> QED BY <2>2, <2>3 DEF PauseInv
<1> QED BY <1>3, <1>4

\* So does its caller, who sends nothing while it waits for a pause.
LEMMA CallPause ==
  ASSUME TypeOK, StackOK, TaskInv, RunInv, PauseInv, "pause_wait" \notin odd',
         CallStep \/ NewCall \/ Gone
  PROVE PauseInv'
<1> DEFINE q == internal_queue
<1>1. Tells
  BY CallTells
<1>2. task' = task \/ task'.pc = "begin"
  BY CallTask
<1>3. el'.is_running = el.is_running /\ el'.is_open = el.is_open
  BY CallFields
<1>4. ~Holds(q, "PAUSE") /\ task.pc \notin Pausing
  BY <1>1 DEF PauseInv, PauseOrder, Tells
<1>5. q \in Seq(Commands) /\ {"DESTROY", "STOP", "RESUME", "PAUSE"} \subseteq Commands
  BY DEF TypeOK, Commands
<1>6. \A d, c \in Commands : Holds(Append(q, d), c) <=> Holds(q, c) \/ d = c
  BY <1>5, Sent
<1>7. Final(Append(q, "PAUSE"), "PAUSE")
  BY <1>4, <1>5, FinalOne
<1> HIDE DEF q
<1>8. /\ Holds(q', "RESUME") => Holds(q, "RESUME") \/ ctl'.pc = "resume_wait"
      /\ Holds(q', "PAUSE") => /\ ctl.pc = "pause_send" /\ ctl'.pc = "pause_wait"
                               /\ bits' = bits /\ Final(q', "PAUSE")
  <2>1. CASE q' = q \/ q' = <<>>
    BY <1>4, <2>1, HoldsNothing
  <2>2. CASE /\ ctl.pc = "resume_send" /\ ctl'.pc = "resume_wait"
             /\ bits' = bits /\ q' = Append(q, "RESUME")
    BY <1>4, <1>5, <1>6, <2>2
  <2>3. CASE /\ ctl.pc = "pause_send" /\ ctl'.pc = "pause_wait"
             /\ bits' = bits /\ q' = Append(q, "PAUSE")
    BY <1>5, <1>6, <1>7, <2>3
  <2>4. ASSUME NEW c \in {"STOP", "DESTROY"}, q' = Append(q, c)
        PROVE (Holds(q', "RESUME") => Holds(q, "RESUME")) /\ ~Holds(q', "PAUSE")
    BY <1>4, <1>5, <1>6, <2>4
  <2> QED BY <1>1, <2>1, <2>2, <2>3, <2>4 DEF Tells, q
<1>9. task'.pc \notin Pausing /\ (task'.pc \in Resuming => task.pc \in Resuming)
  BY <1>2, <1>4 DEF Resuming, Pausing
<1>10. PauseOrder'
  BY <1>1, <1>8, <1>9 DEF PauseInv, PauseOrder, Tells, q
<1>11. PauseTold'
  <2> SUFFICES ASSUME ctl'.told = "paused" \/ (ctl'.pc = "pause_wait" /\ "PAUSED" \in bits')
               PROVE /\ ~el'.is_running /\ ~el'.is_open
                     /\ ~Holds(q', "RESUME") /\ task'.pc \notin Resuming
    BY DEF PauseTold, q
  <2>1. ctl'.told = "paused"
    BY <1>1 DEF Tells, PauseInv, PauseOrder
  <2>2. ctl.told = "paused" \/ (ctl.pc = "pause_wait" /\ "PAUSED" \in bits)
    BY <1>1, <2>1 DEF Tells
  <2>3. ctl'.pc # "resume_wait"
    BY <1>1, <2>1 DEF Tells, RunInv, ResumeCalls
  <2> QED BY <1>3, <1>8, <1>9, <2>2, <2>3 DEF PauseInv, PauseTold, q
<1> QED BY <1>10, <1>11 DEF PauseInv

\* So PauseInv is inductive until a pause gives up.
PauseSoFar == "pause_wait" \notin odd => PauseInv
LEMMA PauseInvariance == Spec => []PauseSoFar
<1>1. Init => PauseSoFar
  BY HoldsNothing DEF Init, PauseSoFar, PauseInv, PauseOrder, PauseTold, Pausing
<1>2. ASSUME IInv, RunInv, PauseSoFar, [Next]_vars, "pause_wait" \notin odd'
      PROVE PauseInv'
  <2>1. TypeOK /\ StackOK /\ TaskInv /\ PlaceInv
    BY <1>2 DEF IInv, WorkInv
  <2>2. PauseInv
    BY <1>2, OddGrows DEF PauseSoFar
  <2>3. CASE TaskStep \/ ProcessReturns
    BY <1>2, <2>1, <2>2, <2>3, TaskPause
  <2>4. CASE CallStep \/ NewCall \/ Gone
    BY <1>2, <2>1, <2>2, <2>4, CallPause
  <2>5. CASE UNCHANGED vars
    BY <2>2, <2>5 DEF vars, PauseInv, PauseOrder, PauseTold
  <2> QED BY <1>2, <2>3, <2>4, <2>5 DEF Next
<1>3. IInv /\ RunInv /\ PauseSoFar /\ [Next]_vars => PauseSoFar'
  BY <1>2 DEF PauseSoFar
<1> QED BY <1>1, <1>3, Invariance, RunInvariance, PTL DEF Spec

\* An element that audio_element_pause reports paused is closed and does not work
\* before the next resume, for every length of the queue, whatever process and
\* the caller reset and whatever other call gave up: until a pause itself does.
THEOREM PausedIsPausedAlways == Spec => []PausedIsPaused
<1>1. RunInv /\ PauseSoFar => PausedIsPaused
  BY DEF RunInv, PauseSoFar, PauseInv, PauseTold, PausedIsPaused, Working,
      AtWork, Resuming, Holds
<1> QED BY <1>1, RunInvariance, PauseInvariance, PTL
-----------------------------------------------------------------------------
\* A step of the task keeps what is known after a stop.
LEMMA TaskRest ==
  ASSUME TypeOK, StackOK, WorkInv, RunInv, MarkInv, RestInv, "reset" \notin odd',
         TaskStep \/ ProcessReturns
  PROVE RestInv'
<1> DEFINE q == internal_queue
<1>1. leaving # <<>> => ~el.is_running /\ ctl.pc = "term_wait" /\ task.pc = "none"
  BY DEF MarkInv, DestroyInv, Ending, WorkInv, PlaceInv
<1>2. Steady /\ RunInv'
  BY TaskSteady DEF WorkInv
<1>3. q \in Seq(Commands) /\ "RESUME" \in Commands
  BY DEF TypeOK, Commands
<1>4. StayInv'
  BY <1>2 DEF RestInv, StayInv, Steady
<1>5. /\ el'.is_running => el.is_running \/ ctl.pc = "resume_wait"
      /\ leaving # <<>> => ~el'.is_running
  BY <1>1, <1>2 DEF RestInv, OrderInv, Steady, Resuming
<1>6. ToldInv'
  BY <1>2, <1>5 DEF RestInv, ToldInv, RunInv, Steady, ResumeCalls
<1>7. CASE Receive
  <2>1. /\ q # <<>> /\ task.pc \notin Resuming
        /\ task'.pc = Head(q) /\ q' = Tail(q) /\ UNCHANGED <<bits, ctl>>
    BY <1>7 DEF Receive, Call, Resuming
  <2> DEFINE h == Head(q)
  <2>2. /\ Holds(q', "RESUME") => Holds(q, "RESUME")
        /\ h = "RESUME" => Holds(q, "RESUME")
        /\ Once(q, "RESUME") => Once(q', "RESUME")
        /\ Once(q, "RESUME") /\ h = "RESUME" => ~Holds(q', "RESUME")
    BY <1>3, <2>1, Taken
  <2>3. task'.pc \in Resuming => h = "RESUME"
    BY <1>3, <2>1 DEF Commands, Resuming
  <2> HIDE DEF h, q
  <2>4. OrderInv'
    BY <2>1, <2>2, <2>3 DEF RestInv, OrderInv, q, h, Resuming
  <2> QED BY <1>4, <1>6, <2>4 DEF RestInv
<1>8. CASE ~Receive
  <2>1. task'.pc \in Resuming => task.pc \in Resuming
    BY <1>2, <1>8 DEF Steady, RestInv, StayInv
  <2>2. OrderInv'
    BY <1>1, <1>2, <1>8, <2>1 DEF RestInv, OrderInv, Steady, Resuming
  <2> QED BY <1>4, <1>6, <2>2 DEF RestInv
<1> QED BY <1>7, <1>8

\* So does a step of the controlling thread, which, while it waits for a resume
\* to be obeyed, takes none.
LEMMA CallRest ==
  ASSUME TypeOK, StackOK, TaskInv, RunInv, RestInv,
         "resume_wait" \notin odd', "reset" \notin odd', CallStep \/ NewCall \/ Gone
  PROVE RestInv'
<1> DEFINE q == internal_queue
<1>1. Tells
  BY CallTells
<1>2. task' = task \/ task'.pc = "begin"
  BY CallTask
<1>3. el'.is_running = el.is_running /\ el'.is_open = el.is_open
  BY CallFields
<1>4. ~Holds(q, "RESUME") /\ task.pc \notin Resuming
  BY <1>1 DEF RestInv, OrderInv, Tells
<1>5. q \in Seq(Commands) /\ {"DESTROY", "STOP", "RESUME", "PAUSE"} \subseteq Commands
  BY DEF TypeOK, Commands
<1>6. \A d, c \in Commands :
        /\ Holds(Append(q, d), c) <=> Holds(q, c) \/ d = c
        /\ ~Holds(q, c) => Once(Append(q, d), c)
  BY <1>5, Sent
<1> HIDE DEF q
<1>7. Holds(q', "RESUME") => /\ ctl.pc = "resume_send" /\ ctl'.pc = "resume_wait"
                             /\ bits' = bits /\ Once(q', "RESUME")
  <2>1. CASE q' = q \/ q' = <<>>
    BY <1>4, <2>1, HoldsNothing
  <2>2. CASE /\ ctl.pc = "resume_send" /\ ctl'.pc = "resume_wait"
             /\ bits' = bits /\ q' = Append(q, "RESUME")
    BY <1>4, <1>5, <1>6, <2>2
  <2>3. ASSUME NEW c \in {"STOP", "DESTROY", "PAUSE"}, q' = Append(q, c)
        PROVE ~Holds(q', "RESUME")
    BY <1>4, <1>5, <1>6, <2>3
  <2> QED BY <1>1, <2>1, <2>2, <2>3 DEF Tells, q
<1>8. task'.pc \notin Resuming
  BY <1>2, <1>4 DEF Resuming
<1>9. OrderInv'
  BY <1>1, <1>7, <1>8 DEF RestInv, OrderInv, Tells, q
<1>10. StayInv'
  BY <1>1, <1>2 DEF RestInv, StayInv, RunInv, ToldInv, Tells, AtWork
<1>11. ToldInv'
  BY <1>1, <1>3 DEF RestInv, ToldInv, Tells
<1> QED BY <1>9, <1>10, <1>11 DEF RestInv
-----------------------------------------------------------------------------
\* RestInv is inductive, on top of the others, until a resume or a terminate
\* gives up or somebody resets a working element.
RestSoFar == odd \cap {"resume_wait", "term_wait", "reset"} = {} => RestInv
LEMMA RestInvariance == Spec => []RestSoFar
<1>1. Init => RestSoFar
  BY HoldsNothing DEF Init, RestSoFar, RestInv, OrderInv, StayInv, ToldInv, Resuming
<1>2. ASSUME IInv, RunInv, MarkSoFar, RestSoFar, [Next]_vars,
             odd' \cap {"resume_wait", "term_wait", "reset"} = {}
      PROVE RestInv'
  <2>1. TypeOK /\ StackOK /\ TaskInv /\ WorkInv
    BY <1>2 DEF IInv
  <2>2. MarkInv /\ RestInv
    BY <1>2, OddGrows DEF MarkSoFar, RestSoFar
  <2>3. "resume_wait" \notin odd' /\ "reset" \notin odd'
    BY <1>2
  <2>4. CASE TaskStep \/ ProcessReturns
    BY <1>2, <2>1, <2>2, <2>3, <2>4, TaskRest
  <2>5. CASE CallStep \/ NewCall \/ Gone
    BY <1>2, <2>1, <2>2, <2>3, <2>5, CallRest
  <2>6. CASE UNCHANGED vars
    BY <2>2, <2>6 DEF vars, RestInv, OrderInv, StayInv, ToldInv
  <2> QED BY <1>2, <2>4, <2>5, <2>6 DEF Next
<1>3. IInv /\ RunInv /\ MarkSoFar /\ RestSoFar /\ [Next]_vars => RestSoFar'
  BY <1>2 DEF RestSoFar
<1> QED BY <1>1, <1>3, Invariance, RunInvariance, MarkInvariance, PTL DEF Spec

\* An element reported stopped by audio_element_wait_for_stop does not work
\* before the next resume, for every length of the queue and every order of
\* calls, though pauses and waits for stops may give up: until a resume or a
\* terminate does, or somebody resets the state of a working element.
THEOREM StoppedIsStoppedAlways == Spec => []StoppedIsStopped
<1>1. ASSUME RunInv, RestSoFar, ctl.told = "stopped",
             odd \subseteq {"pause_wait", "wait_bit"}
      PROVE ~Working
  <2>1. RestInv
    BY <1>1 DEF RestSoFar
  <2> QED BY <1>1, <2>1 DEF RestInv, RunInv, OrderInv, ToldInv, Working, AtWork,
      Resuming, ResumeCalls, Holds
<1>2. RunInv /\ RestSoFar => StoppedIsStopped
  BY <1>1 DEF StoppedIsStopped
<1> QED BY <1>2, RunInvariance, RestInvariance, PTL
-----------------------------------------------------------------------------
(***************************************************************************)
(* The third argument: audio_element_deinit frees the element after its    *)
(* task is gone.  The task is gone when it obeyed a destroy command, so    *)
(* that command must find room: audio_element_terminate ignores that it    *)
(* did not.  Commands of other kinds never wait behind one another, since  *)
(* their senders wait for them; what has to be counted is the stops, which *)
(* nobody waits for.  Two can be in the queue, though each is sent under   *)
(* the mark: the task may come to rest by itself and take the mark back    *)
(* while the first has yet to be received.                                 *)
(***************************************************************************)
Waits == {"resume_wait", "pause_wait", "term_wait"}
Asked == IF ctl.pc \in Waits THEN 1 ELSE 0

\* Whoever waits for an answer sent the last command in the queue.
LastInv == ctl.pc \in Waits /\ internal_queue # <<>>
             => internal_queue[Len(internal_queue)] # "STOP"

\* Between the look at is_running in audio_element_stop and its command.
Aborts == {"stop_out", "stop_in", "stop_state", "stop_clear", "stop_mark"}

\* How many commands are in the queue, besides the one that is waited for: two,
\* one while the element runs, none while it runs and has no mark.
RoomInv ==
  /\ Len(internal_queue) <= 2 + Asked
  /\ el.is_running => Len(internal_queue) <= 1 + Asked
  /\ el.is_running /\ ~el.stopping => Len(internal_queue) <= Asked
  /\ ctl.pc \in Aborts => Len(internal_queue) <= 1
  /\ ctl.pc = "stop_send"
       => /\ Len(internal_queue) <= 1
          /\ el.is_running => Len(internal_queue) = 0 /\ el.stopping

\* Which calls of audio_element_deinit are left, by the one it is in.
Part(c) ==
  /\ c.rest = <<"freed">>
       => c.pc \in {"term", "term_clear", "term_send", "term_wait"}
  /\ c.rest = <<"term", "freed">> => c.pc \in {"wait", "wait_bit"}
  /\ c.rest = <<"wait", "term", "freed">> => c.pc \in StopCalls \cup {"stop"}

\* Who terminates an element has sent the command, and it is obeyed or was.
ObeyedInv ==
  ctl.pc = "term_wait" => \/ Holds(internal_queue, "DESTROY")
                          \/ task.pc \in Exits \cup {"none"}

Alone == ctl.pc = "freed" => task.pc = "none" /\ leaving = <<>>

DeinitInv == LastInv /\ RoomInv /\ Part(ctl) /\ ObeyedInv /\ Alone
-----------------------------------------------------------------------------
\* The next call of audio_element_deinit is the one after.
LEMMA ReturnPart ==
  ASSUME ctl \in Controls, Part(ctl)
  PROVE /\ Part(Return) /\ Part(Stopped)
        /\ Return.pc = "freed" => ctl.rest = <<"freed">>
<1>1. Stopped.pc = Return.pc /\ Stopped.rest = Return.rest
  BY ReturnsTo DEF Stopped, Controls
<1>2. CASE ctl.rest = <<>>
  <2>1. Return.pc = "idle" /\ Return.rest = <<>>
    BY <1>2 DEF Return, To, Controls
  <2> QED BY <1>1, <2>1 DEF Part
<1>3. CASE ctl.rest # <<>>
  <2> DEFINE h == Head(ctl.rest)
             r == Tail(ctl.rest)
  <2>1. /\ ctl.rest = <<"freed">> => h = "freed" /\ r = <<>>
        /\ ctl.rest = <<"term", "freed">> => h = "term" /\ r = <<"freed">>
        /\ ctl.rest = <<"wait", "term", "freed">>
             => h = "wait" /\ r = <<"term", "freed">>
    <3>1. ASSUME ctl.rest = <<"freed">> PROVE h = "freed" /\ r = <<>>
      BY <3>1
    <3>2. ASSUME ctl.rest = <<"term", "freed">> PROVE h = "term" /\ r = <<"freed">>
      BY <3>2
    <3>3. ASSUME ctl.rest = <<"wait", "term", "freed">>
          PROVE h = "wait" /\ r = <<"term", "freed">>
      BY <3>3
    <3> QED BY <3>1, <3>2, <3>3
  <2>2. Return = [ctl EXCEPT !.pc = h, !.rest = r]
    BY <1>3, Zenon DEF Return
  <2>3. \/ ctl.rest = <<"freed">> \/ ctl.rest = <<"term", "freed">>
        \/ ctl.rest = <<"wait", "term", "freed">>
    BY <1>3 DEF Controls, Rests
  <2> HIDE DEF h, r
  <2>4. Return.pc = h /\ Return.rest = r
    BY <2>2 DEF Controls
  <2> QED BY <1>1, <2>1, <2>3, <2>4 DEF Part
<1> QED BY <1>2, <1>3

\* What a step of the controlling thread does to the queue, and where it leads.
Fills ==
  /\ \/ ctl'.pc \notin Waits /\ internal_queue' \in {internal_queue, <<>>}
     \/ /\ ctl'.pc \notin Waits \cup Aborts \cup {"stop_send"}
        /\ ctl.pc = "stop_send" /\ internal_queue' = Append(internal_queue, "STOP")
     \/ /\ ctl'.pc \in Waits /\ (ctl'.pc = "term_wait" => TermSend)
        /\ \E c \in {"RESUME", "PAUSE", "DESTROY"} :
             internal_queue' = Append(internal_queue, c)
  /\ ctl'.pc \in Aborts => ctl.pc \in Aborts \/ el.is_running
  /\ ctl'.pc = "stop_send" => /\ ctl.pc = "stop_mark"
                              /\ ~el.stopping /\ el'.stopping
  /\ el.stopping /\ ~el'.stopping
       => ctl.pc = "stop_send" /\ Len(internal_queue) >= QueueSize
  /\ Part(ctl')
  /\ ctl'.pc = "freed" => \/ ctl.pc = "freed"
                          \/ ctl.pc = "term" /\ ~el.task_run
                          \/ TermSend /\ Len(internal_queue) >= QueueSize
                          \/ TermWait

\* A call begins.
LEMMA EnterFills ==
  ASSUME TypeOK,
         NEW call \in {"run", "resume", "pause", "stop", "wait", "term"},
         NEW rest \in {<<>>, <<"wait", "term", "freed">>},
         rest # <<>> => call = "stop", Enter(call, rest)
  PROVE Fills
<1> DEFINE s == IF call = "resume" THEN "none" ELSE ctl.seen
           h == IF call \in {"wait", "term"} THEN ctl.told ELSE "nothing"
<1>1. ctl' = [pc |-> call, rest |-> rest, seen |-> s, told |-> h]
  BY DEF Enter, Branch, TypeOK, Controls
<1> HIDE DEF s, h
<1>2. ctl'.pc = call /\ ctl'.rest = rest
  BY <1>1
<1>3. UNCHANGED <<el, bits, internal_queue>>
  BY DEF Enter, Branch
<1>4. Part(ctl')
  BY <1>2 DEF Part
<1> QED BY <1>2, <1>3, <1>4 DEF Fills, Waits, Aborts

\* So is every other step of it.
LEMMA CallFills ==
  ASSUME TypeOK, Part(ctl), CallStep \/ NewCall \/ Gone
  PROVE Fills
<1>1. CASE Run
  BY <1>1, ReturnsTo, ReturnPart DEF Run, At, To, Fills, Fields, Waits,
    Aborts, Part, StopCalls, TypeOK, Controls, Elements
<1>2. CASE Create
  BY <1>2, ReturnsTo, ReturnPart DEF Create, At, To, Fills, Fields, Waits,
    Aborts, Part, StopCalls, TypeOK, Controls, Elements
<1>3. CASE Created
  BY <1>3, ReturnsTo, ReturnPart DEF Created, Branch, At, To, Fills, Fields,
    Waits, Aborts, Part, StopCalls, TypeOK, Controls, Elements
<1>4. CASE Resume
  BY <1>4, ReturnsTo, ReturnPart DEF Resume, Branch, At, To, Fills, Fields,
    Waits, Aborts, Part, StopCalls, TypeOK, Controls, Elements
<1>5. CASE ResumeClear
  BY <1>5, ReturnsTo, ReturnPart DEF ResumeClear, Clear, At, To, Fills,
    Fields, Waits, Aborts, Part, StopCalls, TypeOK, Controls, Elements
<1>6. CASE ResumeSend
  BY <1>6, ReturnsTo, ReturnPart DEF ResumeSend, Send, At, To, Fills, Fields,
    Waits, Aborts, Part, StopCalls, TypeOK, Controls, Elements
<1>7. CASE ResumeWait
  BY <1>7, ReturnsTo, ReturnPart DEF ResumeWait, Await, Branch, At, To, Fills,
    Fields, Waits, Aborts, Part, StopCalls, TypeOK, Controls, Elements
<1>8. CASE Pause
  BY <1>8, ReturnsTo, ReturnPart DEF Pause, Branch, At, To, Fills, Fields,
    Waits, Aborts, Part, StopCalls, TypeOK, Controls, Elements
<1>9. CASE PauseForce
  BY <1>9, ReturnsTo, ReturnPart DEF PauseForce, At, To, Fills, Fields, Waits,
    Aborts, Part, StopCalls, TypeOK, Controls, Elements
<1>10. CASE PauseClear
  BY <1>10, ReturnsTo, ReturnPart DEF PauseClear, Clear, At, To, Fills,
    Fields, Waits, Aborts, Part, StopCalls, TypeOK, Controls, Elements
<1>11. CASE PauseSend
  BY <1>11, ReturnsTo, ReturnPart DEF PauseSend, Send, At, To, Fills, Fields,
    Waits, Aborts, Part, StopCalls, TypeOK, Controls, Elements
<1>12. CASE PauseWait
  BY <1>12, ReturnsTo, ReturnPart DEF PauseWait, Await, Branch, At, To, Fills,
    Fields, Waits, Aborts, Part, StopCalls, TypeOK, Controls, Elements
<1>13. CASE Stop
  BY <1>13, ReturnsTo, ReturnPart DEF Stop, Branch, At, To, Fills, Fields,
    Waits, Aborts, Part, StopCalls, TypeOK, Controls, Elements
<1>14. CASE StopPaused
  BY <1>14, ReturnsTo, ReturnPart DEF StopPaused, Branch, At, To, Fills,
    Fields, Waits, Aborts, Part, StopCalls, TypeOK, Controls, Elements
<1>15. CASE StopPoll
  BY <1>15, ReturnsTo, ReturnPart DEF StopPoll, At, To, Fills, Fields, Waits,
    Aborts, Part, StopCalls, TypeOK, Controls, Elements
<1>16. CASE StopRunning
  BY <1>16, ReturnsTo, ReturnPart DEF StopRunning, Branch, At, To, Fills,
    Fields, Waits, Aborts, Part, StopCalls, TypeOK, Controls, Elements
<1>17. CASE StopIdle
  BY <1>17, ReturnsTo, ReturnPart DEF StopIdle, At, To, Fills, Fields, Waits,
    Aborts, Part, StopCalls, TypeOK, Controls, Elements
<1>18. CASE StopAbort("stop_out", "out_abort", "stop_in")
  BY <1>18, ReturnsTo, ReturnPart DEF StopAbort, At, To, Fills, Fields, Waits,
    Aborts, Part, StopCalls, TypeOK, Controls, Elements
<1>19. CASE StopAbort("stop_in", "in_abort", "stop_state")
  BY <1>19, ReturnsTo, ReturnPart DEF StopAbort, At, To, Fills, Fields, Waits,
    Aborts, Part, StopCalls, TypeOK, Controls, Elements
<1>20. CASE StopState
  BY <1>20, ReturnsTo, ReturnPart DEF StopState, Branch, At, To, Fills,
    Fields, Waits, Aborts, Part, StopCalls, TypeOK, Controls, Elements
<1>21. CASE StopClear
  BY <1>21, ReturnsTo, ReturnPart DEF StopClear, Clear, At, To, Fills, Fields,
    Waits, Aborts, Part, StopCalls, TypeOK, Controls, Elements
<1>22. CASE StopMark
  BY <1>22, ReturnsTo, ReturnPart DEF StopMark, At, To, Fills, Fields, Waits,
    Aborts, Part, StopCalls, TypeOK, Controls, Elements
<1>23. CASE StopSend
  <2>1. /\ ctl.pc = "stop_send"
        /\ IF Len(internal_queue) < QueueSize
           THEN ctl' = Return /\ internal_queue' = Append(internal_queue, "STOP")
           ELSE ctl' = Return /\ UNCHANGED internal_queue
        /\ el' = [el EXCEPT !.stopping = Len(internal_queue) < QueueSize /\ @]
    BY <1>23 DEF StopSend, Send, At
  <2>2. Len(internal_queue) < QueueSize \/ Len(internal_queue) >= QueueSize
    BY QueueAssumption DEF TypeOK
  <2>3. /\ ctl'.pc \in {"idle", "freed", "term", "wait"} /\ Part(ctl')
        /\ ctl'.pc # "freed"
    BY <2>1, ReturnsTo, ReturnPart DEF TypeOK, Part, StopCalls
  <2>4. el.stopping /\ ~el'.stopping => Len(internal_queue) >= QueueSize
    BY <2>1, <2>2 DEF TypeOK, Elements
  <2> QED BY <2>1, <2>3, <2>4 DEF Fills, Waits, Aborts
<1>24. CASE WaitForStop
  BY <1>24, ReturnsTo, ReturnPart DEF WaitForStop, Branch, At, To, Fills,
    Fields, Waits, Aborts, Part, StopCalls, TypeOK, Controls, Elements
<1>25. CASE WaitForBit
  BY <1>25, ReturnsTo, ReturnPart DEF WaitForBit, Await, Branch, At, To,
    Fills, Fields, Waits, Aborts, Part, StopCalls, TypeOK, Controls, Elements
<1>26. CASE Term
  BY <1>26, ReturnsTo, ReturnPart DEF Term, Branch, At, To, Fills, Fields,
    Waits, Aborts, Part, StopCalls, TypeOK, Controls, Elements
<1>27. CASE TermClear
  BY <1>27, ReturnsTo, ReturnPart DEF TermClear, Clear, At, To, Fills, Fields,
    Waits, Aborts, Part, StopCalls, TypeOK, Controls, Elements
<1>28. CASE TermSend
  <2>1. /\ ctl.pc = "term_send" /\ el' = el
        /\ IF Len(internal_queue) < QueueSize
           THEN /\ ctl' = To("term_wait")
                /\ internal_queue' = Append(internal_queue, "DESTROY")
           ELSE ctl' = Return /\ UNCHANGED internal_queue
    BY <1>28 DEF TermSend, Send, At
  <2>2. Len(internal_queue) < QueueSize \/ Len(internal_queue) >= QueueSize
    BY QueueAssumption DEF TypeOK
  <2>3. CASE Len(internal_queue) < QueueSize
    <3>1. ctl'.pc = "term_wait" /\ ctl'.rest = ctl.rest
      BY <2>1, <2>3 DEF To, TypeOK, Controls
    <3>2. Part(ctl')
      BY <2>1, <3>1 DEF Part, StopCalls
    <3> QED BY <1>28, <2>1, <2>3, <3>1, <3>2 DEF Fills, Waits, Aborts
  <2>4. CASE Len(internal_queue) >= QueueSize
    <3>1. ctl' = Return /\ internal_queue' = internal_queue
      BY <2>1, <2>4, QueueAssumption DEF TypeOK
    <3>2. ctl'.pc \in {"idle", "freed", "term", "wait"} /\ Part(ctl')
      BY <3>1, ReturnsTo, ReturnPart DEF TypeOK
    <3> QED BY <1>28, <2>1, <2>4, <3>1, <3>2 DEF Fills, Waits, Aborts
  <2> QED BY <2>2, <2>3, <2>4
<1>29. CASE TermWait
  BY <1>29, ReturnsTo, ReturnPart DEF TermWait, Await, Branch, At, To, Fills,
    Fields, Waits, Aborts, Part, StopCalls, TypeOK, Controls, Elements
<1>30. CASE \E call \in {"run", "resume", "pause", "stop", "wait", "term"} :
  Enter(call, <<>>)
  BY <1>30, EnterFills
<1>31. CASE Enter("stop", <<"wait", "term", "freed">>)
  BY <1>31, EnterFills
<1>32. CASE ResetState
  BY <1>32, ReturnsTo, ReturnPart DEF ResetState, MayReset, At, To, Fills,
    Fields, Waits, Aborts, Part, StopCalls, TypeOK, Controls, Elements
<1>33. CASE ResetRings
  BY <1>33, ReturnsTo, ReturnPart DEF ResetRings, MayReset, At, To, Fills,
    Fields, Waits, Aborts, Part, StopCalls, TypeOK, Controls, Elements
<1>34. CASE Gone
  BY <1>34, ReturnsTo, ReturnPart DEF Gone, vars, At, To, Fills, Fields,
    Waits, Aborts, Part, StopCalls, TypeOK, Controls, Elements
<1> QED BY <1>1, <1>2, <1>3, <1>4, <1>5, <1>6, <1>7, <1>8, <1>9, <1>10, <1>11,
  <1>12, <1>13, <1>14, <1>15, <1>16, <1>17, <1>18, <1>19, <1>20, <1>21, <1>22,
  <1>23, <1>24, <1>25, <1>26, <1>27, <1>28, <1>29, <1>30, <1>31, <1>32, <1>33,
  <1>34 DEF CallStep, NewCall

\* The last command in the queue, when one is received and when one is sent.
LEMMA LastOne ==
  ASSUME NEW q \in Seq(Commands)
  PROVE /\ q # <<>> => /\ Len(Tail(q)) = Len(q) - 1 /\ Len(q) > 0
                       /\ q[Len(q)] \in Commands /\ Holds(q, q[Len(q)])
                       /\ Tail(q) # <<>> => Tail(q)[Len(Tail(q))] = q[Len(q)]
        /\ \A c \in Commands : /\ Append(q, c) # <<>>
                               /\ Len(Append(q, c)) = Len(q) + 1
                               /\ Append(q, c)[Len(Append(q, c))] = c
        /\ Len(q) = 0 => q = <<>>
<1>1. ASSUME q # <<>>
      PROVE /\ Len(Tail(q)) = Len(q) - 1 /\ Len(q) > 0
            /\ q[Len(q)] \in Commands /\ Holds(q, q[Len(q)])
            /\ Tail(q) # <<>> => Tail(q)[Len(Tail(q))] = q[Len(q)]
  <2>1. Len(q) \in 1..Len(q) /\ Len(q) > 0 /\ Len(Tail(q)) = Len(q) - 1
    BY <1>1
  <2>2. q[Len(q)] \in Commands /\ Holds(q, q[Len(q)])
    BY <2>1 DEF Holds
  <2>3. ASSUME Tail(q) # <<>> PROVE Tail(q)[Len(Tail(q))] = q[Len(q)]
    <3>1. Len(Tail(q)) \in 1..Len(Tail(q))
      BY <1>1, <2>3
    <3>2. Tail(q)[Len(Tail(q))] = q[Len(Tail(q)) + 1]
      BY <1>1, <3>1
    <3>3. Len(Tail(q)) + 1 = Len(q)
      BY <2>1
    <3> QED BY <3>2, <3>3
  <2> QED BY <2>1, <2>2, <2>3
<1>2. \A c \in Commands : /\ Append(q, c) # <<>>
                          /\ Len(Append(q, c)) = Len(q) + 1
                          /\ Append(q, c)[Len(Append(q, c))] = c
  OBVIOUS
<1>3. Len(q) = 0 => q = <<>>
  OBVIOUS
<1> QED BY <1>1, <1>2, <1>3

\* Where nobody's resume, pause or destroy command is in the queue, one who
\* waits finds it empty.
LEMMA NothingElse ==
  ASSUME TypeOK, LastInv, ctl.pc \in Waits,
         \A c \in {"RESUME", "PAUSE", "DESTROY"} : ~Holds(internal_queue, c)
  PROVE internal_queue = <<>>
<1> SUFFICES ASSUME internal_queue # <<>> PROVE FALSE
  OBVIOUS
<1>1. /\ internal_queue[Len(internal_queue)] \in Commands
      /\ Holds(internal_queue, internal_queue[Len(internal_queue)])
  BY LastOne DEF TypeOK
<1> QED BY <1>1 DEF LastInv, Commands

\* A step of the task keeps it: it only makes room, and sets is_running when
\* the queue is empty.
LEMMA TaskDeinit ==
  ASSUME TypeOK, StackOK, WorkInv, RunInv, MarkInv, PauseInv, RestInv, DeinitInv,
         TaskStep \/ ProcessReturns
  PROVE DeinitInv'
<1> DEFINE q == internal_queue
<1>1. /\ leaving # <<>> => task.pc = "none" /\ ctl.pc = "term_wait"
  BY DEF MarkInv, DestroyInv, Ending
<1>2. Steady
  BY TaskSteady DEF WorkInv
<1>3. q \in Seq(Commands) /\ "DESTROY" \in Commands /\ Len(q) \in Nat
  BY DEF TypeOK, Commands
<1>4. task.pc \in {"start", "again"} => q = <<>>
  <2> SUFFICES ASSUME task.pc \in {"start", "again"} PROVE q = <<>>
    OBVIOUS
  <2>1. ctl.pc = "resume_wait" /\ ~Holds(q, "RESUME") /\ ~Holds(q, "PAUSE")
    BY DEF RestInv, OrderInv, PauseInv, PauseOrder, Resuming
  <2>2. ~Holds(q, "DESTROY")
    BY <2>1 DEF MarkInv, DestroyInv, Ending
  <2> QED BY <2>1, <2>2, NothingElse DEF DeinitInv, Waits
<1>5. \/ /\ q # <<>> /\ q' = Tail(q) /\ task'.pc = Head(q) /\ Receive
         /\ UNCHANGED <<el, ctl>>
      \/ ~Receive /\ q' = q /\ ctl' = ctl
  <2>1. CASE Receive
    <3>1. /\ q # <<>> /\ q' = Tail(q) /\ task'.pc = Head(q)
          /\ UNCHANGED <<el, ctl>>
      BY <2>1 DEF Receive, Call
    <3> QED BY <2>1, <3>1
  <2>2. CASE ~Receive
    BY <1>2, <2>2 DEF Steady
  <2> QED BY <2>1, <2>2
<1>6. LastInv'
  BY <1>3, <1>5, LastOne DEF DeinitInv, LastInv
<1>7. RoomInv'
  <2>1. CASE Receive
    <3>1. q # <<>> /\ q' = Tail(q) /\ UNCHANGED <<el, ctl>>
      BY <1>5, <2>1
    <3>2. Len(Tail(q)) = Len(q) - 1 /\ Len(q) > 0
      BY <1>3, <3>1, LastOne
    <3> QED BY <1>3, <3>1, <3>2 DEF DeinitInv, RoomInv, Asked
  <2>2. CASE ~Receive
    <3>1. /\ q' = q /\ ctl' = ctl
          /\ el'.is_running => el.is_running \/ Len(q) = 0
          /\ el'.is_running /\ el.stopping => el'.stopping
          /\ el'.is_running /\ ~el.is_running => ctl.pc = "resume_wait"
      BY <1>2, <1>4, <1>5, <2>2 DEF Steady, RestInv, OrderInv, Resuming
    <3> QED BY <1>3, <3>1 DEF DeinitInv, RoomInv, Asked, Waits
  <2> QED BY <2>1, <2>2
<1>8. ObeyedInv'
  <2>1. CASE Receive
    <3>1. Holds(q, "DESTROY") => Holds(q', "DESTROY") \/ Head(q) = "DESTROY"
      BY <1>3, <1>5, <2>1, Taken
    <3>2. task.pc \in {"loop", "blocked"}
      BY <2>1 DEF Receive
    <3> QED BY <1>5, <2>1, <3>1, <3>2 DEF DeinitInv, ObeyedInv, Exits
  <2>2. CASE ExitFlags
    BY <2>2 DEF ExitFlags, ObeyedInv
  <2>3. CASE Leave
    BY <2>3 DEF Leave, DeinitInv, ObeyedInv
  <2>4. CASE ~Receive /\ ~ExitFlags /\ ~Leave
    <3>1. Quiet
      BY <2>4, TaskQuiet
    <3> QED BY <3>1 DEF Quiet, DeinitInv, ObeyedInv
  <2> QED BY <2>1, <2>2, <2>3, <2>4
<1>9. ctl.pc # "freed"
  <2> SUFFICES ASSUME task.pc = "none", leaving = <<>> PROVE FALSE
    BY DEF DeinitInv, Alone
  <2>1. ~Receive /\ ~ExitFlags /\ ~Leave
    BY DEF Receive, ExitFlags, Leave
  <2> QED BY <2>1, TaskQuiet DEF Quiet
<1>10. Part(ctl') /\ Alone'
  BY <1>5, <1>9 DEF DeinitInv, Alone
<1> QED BY <1>6, <1>7, <1>8, <1>10 DEF DeinitInv

\* So does a step of the controlling thread.
LEMMA CallDeinit ==
  ASSUME TypeOK, StackOK, TaskInv, MarkInv, PauseInv, RestInv, DeinitInv,
         odd' \subseteq {"wait_bit"}, QueueSize >= 3, CallStep \/ NewCall \/ Gone
  PROVE DeinitInv'
<1> DEFINE q == internal_queue
<1>1. Fills /\ Moves /\ Tells
  BY CallFills, CallMoves, CallTells DEF DeinitInv
<1>2. q \in Seq(Commands) /\ Commands = {"STOP", "PAUSE", "RESUME", "DESTROY"}
      /\ Len(q) \in Nat /\ QueueSize \in Nat
  BY QueueAssumption DEF TypeOK, Commands
<1>3. \A c \in {"RESUME", "PAUSE", "DESTROY"} : ~Holds(q, c)
  <2>1. /\ "resume_wait" \notin odd' /\ "pause_wait" \notin odd'
        /\ "term_wait" \notin odd'
    OBVIOUS
  <2> QED BY <1>1, <2>1 DEF Tells, Moves, RestInv, OrderInv, PauseInv,
      PauseOrder, MarkInv, DestroyInv, Ending
<1>4. ctl.pc \in Waits => q = <<>>
  BY <1>3, NothingElse DEF DeinitInv
<1>5. /\ Len(q) <= 2
      /\ el.is_running => Len(q) <= 1
      /\ el.is_running /\ ~el.stopping => Len(q) = 0
  BY <1>2, <1>4 DEF DeinitInv, RoomInv, Asked
<1>6. el.stopping => el'.stopping
  BY <1>1, <1>2 DEF Fills, DeinitInv, RoomInv
<1>7. el'.is_running = el.is_running
  BY CallFields
<1>8. \/ ctl'.pc \notin Waits /\ (q' = q \/ q' = <<>>)
      \/ /\ ctl'.pc \notin Waits \cup Aborts \cup {"stop_send"}
         /\ ctl.pc = "stop_send" /\ q' = Append(q, "STOP")
      \/ ctl'.pc \in Waits /\ \E c \in Commands \ {"STOP"} : q' = Append(q, c)
  BY <1>1, <1>2 DEF Fills
<1>9. LastInv'
  BY <1>2, <1>8, LastOne DEF LastInv
<1>10. RoomInv'
  <2>1. CASE ctl'.pc \notin Waits /\ (q' = q \/ q' = <<>>)
    <3>1. Len(q') <= Len(q) /\ Len(q') \in Nat
      BY <1>2, <2>1
    <3>2. ctl'.pc \in Aborts => Len(q) <= 1
      BY <1>1, <1>5 DEF Fills, DeinitInv, RoomInv
    <3>3. ctl'.pc = "stop_send"
            => /\ Len(q) <= 1
               /\ el.is_running => Len(q) = 0
               /\ el'.stopping
      BY <1>1, <1>5 DEF Fills, DeinitInv, RoomInv, Aborts
    <3> QED BY <1>2, <1>5, <1>6, <1>7, <2>1, <3>1, <3>2, <3>3 DEF RoomInv, Asked
  <2>2. CASE /\ ctl'.pc \notin Waits \cup Aborts \cup {"stop_send"}
             /\ ctl.pc = "stop_send" /\ q' = Append(q, "STOP")
    <3>1. Len(q') = Len(q) + 1
      BY <1>2, <2>2, LastOne
    <3> QED BY <1>2, <1>6, <1>7, <2>2, <3>1 DEF DeinitInv, RoomInv, Asked
  <2>3. CASE ctl'.pc \in Waits /\ \E c \in Commands \ {"STOP"} : q' = Append(q, c)
    <3>1. Len(q') = Len(q) + 1
      BY <1>2, <2>3, LastOne
    <3> QED BY <1>2, <1>5, <1>6, <1>7, <2>3, <3>1 DEF RoomInv, Asked, Waits, Aborts
  <2> QED BY <1>8, <2>1, <2>2, <2>3
<1>11. ObeyedInv'
  <2> SUFFICES ASSUME ctl'.pc = "term_wait" PROVE Holds(q', "DESTROY")
    BY DEF ObeyedInv
  <2>1. TermSend /\ q' # q
    <3>1. ctl'.pc \in Waits
      BY DEF Waits
    <3>2. TermSend
      BY <1>1, <3>1 DEF Fills
    <3>3. PICK c \in {"RESUME", "PAUSE", "DESTROY"} : q' = Append(q, c)
      BY <1>1, <3>1 DEF Fills
    <3>4. Len(q') = Len(q) + 1
      BY <1>2, <3>3, LastOne
    <3> QED BY <1>2, <3>2, <3>4
  <2>2. q' = Append(q, "DESTROY")
    BY <2>1 DEF TermSend, Send
  <2> QED BY <1>2, <2>2, Sent
<1>12. Alone'
  <2> SUFFICES ASSUME ctl'.pc = "freed" PROVE task'.pc = "none" /\ leaving' = <<>>
    BY DEF Alone
  <2>1. leaving' = leaving
    BY <1>1 DEF Moves
  <2>2. task' = task \/ Create
    BY CallTask
  <2>3. task' = task
    BY <2>2 DEF Create, To, TypeOK, Controls
  <2>4. CASE ctl.pc = "freed"
    BY <2>1, <2>3, <2>4 DEF DeinitInv, Alone
  <2>5. CASE ctl.pc = "term" /\ ~el.task_run
    BY <2>1, <2>3, <2>5 DEF TaskInv, MarkInv, DestroyInv, Ending
  <2>6. ~(TermSend /\ Len(q) >= QueueSize)
    BY <1>2, <1>5
  <2>7. CASE TermWait
    <3>1. ctl.pc = "term_wait" /\ ~Ending
      BY <1>1, <2>7 DEF TermWait, Await, Branch, At, Moves, Ending
    <3>2. task.pc = "none" /\ leaving = <<>>
      BY <1>3, <3>1 DEF DeinitInv, ObeyedInv, MarkInv, DestroyInv
    <3> QED BY <2>1, <2>3, <3>2
  <2> QED BY <1>1, <2>4, <2>5, <2>6, <2>7 DEF Fills
<1>13. Part(ctl')
  BY <1>1 DEF Fills
<1> QED BY <1>9, <1>10, <1>11, <1>12, <1>13 DEF DeinitInv
-----------------------------------------------------------------------------
\* DeinitInv is inductive, on top of the others, as long as nothing odd happens
\* but waits for a stop that give up.
DeinitSoFar == odd \subseteq {"wait_bit"} => DeinitInv
LEMMA InitDeinit == Init => DeinitSoFar
BY DEF Init, DeinitSoFar, DeinitInv, LastInv, RoomInv, Asked, Waits, Aborts, Part,
  ObeyedInv, Alone

\* Every step preserves it.
LEMMA NextDeinit ==
  ASSUME QueueSize >= 3, IInv, RunInv, MarkSoFar, PauseSoFar, RestSoFar,
         DeinitSoFar, [Next]_vars, odd' \subseteq {"wait_bit"}
  PROVE DeinitInv'
<1>1. TypeOK /\ StackOK /\ TaskInv /\ WorkInv
  BY DEF IInv
<1>2. odd \subseteq {"wait_bit"}
  BY OddGrows
<1>3. MarkInv /\ PauseInv /\ RestInv /\ DeinitInv
  BY <1>2 DEF MarkSoFar, PauseSoFar, RestSoFar, DeinitSoFar
<1>4. CASE TaskStep \/ ProcessReturns
  BY <1>1, <1>3, <1>4, TaskDeinit
<1>5. CASE CallStep \/ NewCall \/ Gone
  BY <1>1, <1>3, <1>5, CallDeinit
<1>6. CASE UNCHANGED vars
  BY <1>3, <1>6 DEF vars, DeinitInv, LastInv, RoomInv, Asked, Part, ObeyedInv, Alone
<1> QED BY <1>4, <1>5, <1>6 DEF Next

\* With a queue of three or more, as the code's five, audio_element_deinit frees
\* an element only after its task is gone and has set its last bit, even if it
\* gave up waiting for the stop: its destroy command never finds the queue full.
\* That holds until a resume, a pause or a terminate gives up, or somebody resets
\* a working element.
THEOREM FreedAloneAlways ==
  ASSUME QueueSize >= 3
  PROVE Spec => []FreedAlone
<1>1. IInv /\ RunInv /\ MarkSoFar /\ PauseSoFar /\ RestSoFar /\ DeinitSoFar
        /\ [Next]_vars => DeinitSoFar'
  BY NextDeinit DEF DeinitSoFar
<1>2. DeinitSoFar => FreedAlone
  BY DEF DeinitSoFar, DeinitInv, Alone, FreedAlone
<1> QED BY <1>1, <1>2, InitDeinit, Invariance, RunInvariance, MarkInvariance,
    PauseInvariance, RestInvariance, PTL DEF Spec
=============================================================================
