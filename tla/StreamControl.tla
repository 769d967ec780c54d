--------------------------- MODULE StreamControl ---------------------------
(***************************************************************************)
(* The control of playback in src/src/main.c: the loop of app_main and the *)
(* HTTP server's task (set_stream, set_volume and play_sd_file, over HTTP  *)
(* or WebSocket), which share the handles of one audio pipeline.           *)
(*                                                                         *)
(* The requests of a user are left in variables and flags, under           *)
(* stream_control_mutex, for the loop to take.  play_sd_file rebuilds the  *)
(* pipeline by itself, holding the mutex; the loop rebuilds it without.    *)
(*                                                                         *)
(* The code that builds and tears down a pipeline is a straight line of    *)
(* calls on global handles: here a sequence of operations that its task    *)
(* carries out one by one.  The model ends (broken) where the program uses *)
(* freed memory, or both tasks are at the pipeline at once.                *)
(***************************************************************************)
EXTENDS Naturals, SequencesExt

CONSTANTS Urls,        \* streams a user may ask for
          FirstUrl,    \* the sample stream that is set at boot
          Volumes,     \* volumes a user may ask for
          FirstVolume, \* the initial value of current_volume
          MaxPlays,    \* bound: how often a file is played from the SD card
          MaxFailures, \* bound: how often a create or run call fails
          MaxEvents    \* bound: reports of elements waiting in evt

None == "none"
ASSUME RequestsAssumption ==
  /\ None \notin Urls \cup Volumes /\ "file" \notin Urls
  /\ FirstUrl \in Urls /\ FirstVolume \in Volumes
ASSUME BoundsAssumption == {MaxPlays, MaxEvents, MaxFailures} \subseteq Nat

Pipeline == "pipeline"
Elements == {"http", "fatfs", "decoder", "equalizer", "i2s"}
Tasks == {"main", "httpd"}

VARIABLES
  current_stream_url, stream_change_requested,
  current_volume, volume_change_requested,
  mutex,               \* stream_control_mutex: held by httpd, or free
  handles,             \* global handles that are not NULL
  alive,               \* objects that are allocated
  pipe,                \* the pipeline the handles describe
  events,              \* evt: reports of the elements, not yet read
  cooling,             \* last_restart is at most 5000 ms ago
  loop,                \* app_main: where in its loop it is
  held,                \* app_main: new_url, and the volume it is about to set
  code,                \* per task: the operations it has still to carry out
  plays,               \* how often a file was played (bounded)
  failures,            \* how often a start failed (bounded)
  broken               \* the program used freed memory

requests == <<current_stream_url, stream_change_requested, current_volume,
              volume_change_requested>>
heap == <<handles, alive, pipe>>
rest == <<mutex, cooling, loop, held, plays, failures>>
vars == <<requests, heap, events, code, broken, rest>>

Nothing == [url |-> None, volume |-> None]
Unbuilt == [elements |-> {}, uri |-> None, format |-> None,
            volume |-> None, playing |-> "no"]
-----------------------------------------------------------------------------
\* What the functions of main.c do, in order.

Each(op, objects) == [i \in 1..Len(objects) |-> <<op, objects[i]>>]
Chain(source) == <<source, "decoder", "equalizer", "i2s">>

\* The tail of start_audio_pipeline and of start_audio_pipeline_from_sd.
Begin(t) ==
  IF t = "main"
  THEN << <<"link", "http">>, <<"set_uri", "http">>, <<"listen", Pipeline>>,
          <<"run", Pipeline>> >>
  ELSE << <<"link", "fatfs">>, <<"listen", Pipeline>>, <<"set_uri", "fatfs">>,
          <<"set_volume", "i2s">>, <<"run", Pipeline>>, <<"give", "mutex">> >>

Source(t) == IF t = "main" THEN "http" ELSE "fatfs"
Order(t) == <<Pipeline>> \o Chain(Source(t))

Build(t) ==
  Each("create", Order(t))
    \o Each("register", Chain(Source(t))) \o Begin(t)

\* app_main's own teardown, written out for a change of stream (terminate, after
\* detach, only ends tasks that unregister and deinit end anyway).
Teardown ==
  << <<"stop", Pipeline>>, <<"detach", Pipeline>> >>
    \o Each("unregister", Chain("http"))
    \o Each("deinit", Chain("http") \o <<Pipeline>>)

\* stop_audio_pipeline
Free(e) == << <<"unregister", e>>, <<"deinit", e>> >>
StopPipeline ==
  << <<"stop", Pipeline>>, <<"detach", Pipeline>> >>
    \o Free("http") \o Free("fatfs") \o Free("decoder") \o Free("equalizer")
    \o Free("i2s") \o << <<"deinit", Pipeline>> >>

\* mutant: the jump goes one label too far down.
CleanupTooLittle(t, n) ==
  Each("deinit", Reverse(SubSeq(Order(t), 1, n - 1)))
    \o (IF t = "httpd" THEN << <<"give", "mutex">> >> ELSE <<>>)

\* mutant: a failed start returns without the mutex being given back.
CleanupKeepsMutex(t, n) == Each("deinit", Reverse(SubSeq(Order(t), 1, n)))

\* The labels a failed start jumps to: the first n objects, in reverse.
Cleanup(t, n) ==
  Each("deinit", Reverse(SubSeq(Order(t), 1, n)))
    \o (IF t = "httpd" THEN << <<"give", "mutex">> >> ELSE <<>>)
-----------------------------------------------------------------------------
\* The operations.

Doing(t, op, object) == code[t] # <<>> /\ Head(code[t]) = <<op, object>>
Done(t) == code' = [code EXCEPT ![t] = Tail(@)]
Break == broken' = TRUE /\ UNCHANGED <<requests, heap, events, code, rest>>

\* The objects whose memory an operation uses: audio_pipeline calls follow the
\* elements registered in the pipeline, some others first test the handle.
Uses(op, object) ==
  IF object = Pipeline
  THEN IF op = "create" THEN {} ELSE {Pipeline} \cup pipe.elements
  ELSE CASE op \in {"register", "link", "set_uri"} -> {Pipeline, object}
         [] op = "unregister" -> {Pipeline}
         [] op \in {"deinit", "set_volume"} -> {object} \cap handles
         [] OTHER -> {}

\* xxx_init into its global handle.  The decoder's kind is chosen from the URL,
\* which app_main reads a second time, in SetUri.
Url == IF held.url = None THEN current_stream_url ELSE held.url
Asked(t) == IF t = "main" THEN Url ELSE "file"

Create(t, object) ==
  /\ Doing(t, "create", object)
  /\ handles' = handles \cup {object} /\ alive' = alive \cup {object}
  /\ pipe' = CASE object = Pipeline -> Unbuilt
               [] object = "decoder" -> [pipe EXCEPT !.format = Asked(t)]
               [] OTHER -> pipe
  /\ Done(t)
  /\ UNCHANGED <<requests, events, broken, rest>>

Count ==
  /\ failures < MaxFailures /\ failures' = failures + 1
  /\ UNCHANGED <<mutex, cooling, loop, held, plays>>

CreateFails(t, object) ==
  /\ Doing(t, "create", object)
  /\ Count
  /\ handles' = handles \ {object}
  /\ code' = [code EXCEPT ![t] =
                Cleanup(t, (CHOOSE i \in 1..5 : Order(t)[i] = object) - 1)]
  /\ UNCHANGED <<requests, alive, pipe, events, broken>>

Register(t, e) ==
  /\ Doing(t, "register", e)
  /\ pipe' = [pipe EXCEPT !.elements = @ \cup {e}]
  /\ Done(t)
  /\ UNCHANGED <<requests, handles, alive, events, broken, rest>>

\* Which element plays what is settled by its URI.
SetUri(t, e) ==
  /\ Doing(t, "set_uri", e)
  /\ pipe' = [pipe EXCEPT !.uri = Asked(t)]
  /\ Done(t)
  /\ UNCHANGED <<requests, handles, alive, events, broken, rest>>

\* The rings that are made between the elements are in AudioPipeline.
Link(t, e) ==
  /\ Doing(t, "link", e)
  /\ Done(t)
  /\ UNCHANGED <<requests, heap, events, broken, rest>>

\* set_listener and remove_listener throw away what is waiting in the queues.
Listen(t) ==
  /\ Doing(t, "listen", Pipeline) \/ Doing(t, "detach", Pipeline)
  /\ events' = <<>>
  /\ Done(t)
  /\ UNCHANGED <<requests, heap, broken, rest>>

Run(t) ==
  /\ Doing(t, "run", Pipeline) \/ Doing(t, "rerun", Pipeline)
  /\ pipe' = [pipe EXCEPT !.playing = "yes"]
  /\ Done(t)
  /\ UNCHANGED <<requests, handles, alive, events, broken, rest>>

\* Only start_audio_pipeline looks at the result of audio_pipeline_run.
RunFails(t) ==
  /\ Doing(t, "run", Pipeline) \/ Doing(t, "rerun", Pipeline)
  /\ code' = [code EXCEPT ![t] = IF Doing("main", "run", Pipeline)
                                 THEN Cleanup(t, 5) ELSE Tail(@)]
  /\ Count
  /\ UNCHANGED <<requests, heap, events, broken>>

\* audio_event_iface_sendout drops a report when the queue is full.
Send(report) ==
  IF Len(events) < MaxEvents THEN Append(events, report) ELSE events

\* audio_pipeline_stop and wait_for_stop: the elements report that they stopped.
Stop(t) ==
  /\ Doing(t, "stop", Pipeline)
  /\ pipe' = [pipe EXCEPT !.playing = "no"]
  /\ events' = IF pipe.playing = "yes" THEN Send("stopped") ELSE events
  /\ Done(t)
  /\ UNCHANGED <<requests, handles, alive, broken, rest>>

Unregister(t, e) ==
  /\ Doing(t, "unregister", e)
  /\ pipe' = IF e \in handles THEN [pipe EXCEPT !.elements = @ \ {e}] ELSE pipe
  /\ Done(t)
  /\ UNCHANGED <<requests, handles, alive, events, broken, rest>>

\* audio_element_deinit, under a test of the handle, which then becomes NULL.
DeinitElement(t, e) ==
  /\ Doing(t, "deinit", e) /\ e # Pipeline
  /\ alive' = alive \ ({e} \cap handles) /\ handles' = handles \ {e}
  /\ Done(t)
  /\ UNCHANGED <<requests, pipe, events, broken, rest>>

\* audio_pipeline_deinit also frees the elements that are still registered.  Its
\* unlink writes NULL into the elements that host rings, freed or not: this use
\* of freed memory is left out, since it happens in every change of stream.
DeinitPipeline(t) ==
  /\ Doing(t, "deinit", Pipeline)
  /\ alive' = alive \ ({Pipeline} \cup pipe.elements)
  /\ handles' = handles \ {Pipeline}
  /\ pipe' = Unbuilt
  /\ Done(t)
  /\ UNCHANGED <<requests, events, broken, rest>>

\* update_pipeline_volume: with what app_main read before, or what is set now.
SetPipelineVolume(t) ==
  /\ Doing(t, "set_volume", "i2s")
  /\ pipe' = IF "i2s" \in handles
             THEN [pipe EXCEPT !.volume = IF t = "main" THEN held.volume
                                          ELSE current_volume]
             ELSE pipe
  /\ held' = IF t = "main" THEN [held EXCEPT !.volume = None] ELSE held
  /\ Done(t)
  /\ UNCHANGED <<requests, handles, alive, events, broken, mutex, cooling, loop,
                 plays, failures>>

Give(t) ==
  /\ Doing(t, "give", "mutex")
  /\ mutex' = "free"
  /\ Done(t)
  /\ UNCHANGED <<requests, heap, events, broken, cooling, loop, held, plays,
                 failures>>

\* Nothing orders what the two tasks do to the handles and the pipeline, and
\* freed memory may hold anything: the model ends there.
Uncontrolled ==
  code["main"] # <<>> /\ code["httpd"] \notin {<<>>, << <<"give", "mutex">> >>}
Over == broken \/ Uncontrolled

Misuse(t) == ~(Uses(Head(code[t])[1], Head(code[t])[2]) \subseteq alive)

Operation(t) ==
  /\ code[t] # <<>>
  /\ \/ Misuse(t) /\ Break
     \/ /\ ~Misuse(t)
        /\ LET object == Head(code[t])[2]
           IN \/ Create(t, object) \/ CreateFails(t, object)
              \/ Register(t, object) \/ Link(t, object) \/ SetUri(t, object)
              \/ Unregister(t, object) \/ DeinitElement(t, object)
              \/ Listen(t) \/ Run(t) \/ RunFails(t) \/ Stop(t)
              \/ DeinitPipeline(t) \/ SetPipelineVolume(t) \/ Give(t)
-----------------------------------------------------------------------------
\* The loop of app_main.

At(place) == loop = place /\ code["main"] = <<>>
Onward(place, program) ==
  loop' = place /\ code' = [code EXCEPT !["main"] = program]

\* Taking the requests; while httpd rebuilds, the mutex times out.
TakeRequests ==
  /\ At("take")
  /\ mutex = "free"
  /\ held' =
       [url |-> IF stream_change_requested THEN current_stream_url ELSE None,
        volume |-> IF volume_change_requested THEN current_volume ELSE None]
  /\ stream_change_requested' = FALSE /\ volume_change_requested' = FALSE
  /\ Onward("change", IF volume_change_requested
                     THEN << <<"set_volume", "i2s">> >> ELSE <<>>)
  /\ UNCHANGED <<current_stream_url, current_volume, heap, events, broken,
                 mutex, cooling, plays, failures>>

TakeTimesOut ==
  /\ At("take")
  /\ mutex # "free"
  /\ held' = Nothing
  /\ Onward("change", <<>>)
  /\ UNCHANGED <<requests, heap, events, broken, mutex, cooling, plays,
                 failures>>

\* A change rebuilds; without a pipeline the loop starts the current stream.
Rebuild ==
  CASE held.url # None /\ Pipeline \in handles -> Teardown \o Build("main")
    [] Pipeline \notin handles -> Build("main")
    [] OTHER -> <<>>

\* mutant: the flag is cleared where the change is made, not where it is taken.
ChangeClearsFlag ==
  /\ At("change")
  /\ Onward("listen", Rebuild)
  /\ stream_change_requested' = FALSE
  /\ UNCHANGED <<current_stream_url, current_volume, volume_change_requested,
                 heap, events, broken, mutex, cooling, held, plays, failures>>

Change ==
  /\ At("change")
  /\ Onward("listen", Rebuild)
  /\ UNCHANGED <<requests, heap, events, broken, mutex, cooling, held,
                 plays, failures>>

\* The reports main.c handles; a stop restarts the pipeline, unless one was
\* restarted in the last 5 seconds, when the report is dropped.
HandleEvent ==
  /\ At("listen")
  /\ Pipeline \in handles /\ events # <<>>
  /\ events' = Tail(events)
  /\ CASE Head(events) = "info" ->
            /\ held' = [url |-> None, volume |-> current_volume]
            /\ Onward("take", << <<"set_volume", "i2s">> >>)
            /\ UNCHANGED cooling
       [] Head(events) = "stopped" /\ ~cooling ->
            /\ cooling' = TRUE
            /\ held' = Nothing
            /\ Onward("take", << <<"stop", Pipeline>>, <<"rerun", Pipeline>> >>)
       [] OTHER -> /\ held' = Nothing
                   /\ Onward("take", <<>>)
                   /\ UNCHANGED cooling
  /\ UNCHANGED <<requests, heap, broken, mutex, plays, failures>>

NoEvent ==
  /\ At("listen")
  /\ Pipeline \notin handles \/ events = <<>>
  /\ held' = Nothing
  /\ Onward("take", <<>>)
  /\ UNCHANGED <<requests, heap, events, broken, mutex, cooling, plays,
                 failures>>

MainStep == TakeRequests \/ TakeTimesOut \/ Change \/ HandleEvent \/ NoEvent
              \/ Operation("main")
-----------------------------------------------------------------------------
\* The handlers of the HTTP server, one at a time in one task.  app_main holds
\* the mutex only within TakeRequests, so their take does not time out.

Ready == code["httpd"] = <<>>

SetStream ==
  \E u \in Urls :
    /\ Ready
    /\ current_stream_url' = u /\ stream_change_requested' = TRUE
    /\ UNCHANGED <<current_volume, volume_change_requested, heap, events, code,
                   broken, rest>>

\* mutant: only a volume that differs from the pipeline's is flagged.
SetVolumeIfNew ==
  \E v \in Volumes :
    /\ Ready
    /\ current_volume' = v
    /\ volume_change_requested' = (volume_change_requested \/ v # pipe.volume)
    /\ UNCHANGED <<current_stream_url, stream_change_requested, heap, events,
                   code, broken, rest>>

SetVolume ==
  \E v \in Volumes :
    /\ Ready
    /\ current_volume' = v /\ volume_change_requested' = TRUE
    /\ UNCHANGED <<current_stream_url, stream_change_requested, heap, events,
                   code, broken, rest>>

PlaySdFile ==
  /\ Ready /\ plays < MaxPlays
  /\ plays' = plays + 1
  /\ mutex' = "httpd"
  /\ code' = [code EXCEPT !["httpd"] =
                (IF Pipeline \in handles THEN StopPipeline ELSE <<>>)
                  \o Build("httpd")]
  /\ UNCHANGED <<requests, heap, events, broken, cooling, loop, held,
                 failures>>
-----------------------------------------------------------------------------
\* The elements and the clock.

Reports(playing, report) ==
  /\ pipe.playing = "yes"
  /\ pipe' = [pipe EXCEPT !.playing = playing]
  /\ events' = Send(report)
  /\ UNCHANGED <<requests, handles, alive, code, broken, rest>>

\* A source or decoder tells the format, perhaps again; the source ends; or an
\* element fails, which stops those behind it.
MusicInfo == Reports("yes", "info")
Finish == Reports("ended", "finished")
Fail == Reports("failed", "stopped")

Cool ==
  /\ cooling
  /\ cooling' = FALSE
  /\ UNCHANGED <<requests, heap, events, code, broken, mutex, loop, held,
                 plays, failures>>
-----------------------------------------------------------------------------
\* app_main reaches its loop with the first sample stream set and the servers
\* started; it starts that stream because there is no pipeline.
Init ==
  /\ current_stream_url = FirstUrl /\ current_volume = FirstVolume
  /\ stream_change_requested = FALSE /\ volume_change_requested = FALSE
  /\ mutex = "free" /\ handles = {} /\ alive = {} /\ pipe = Unbuilt
  /\ events = <<>> /\ cooling = FALSE /\ loop = "take"
  /\ held = Nothing
  /\ code = [t \in Tasks |-> <<>>]
  /\ plays = 0 /\ failures = 0 /\ broken = FALSE

Next ==
  \/ /\ ~Over
     /\ \/ MainStep \/ Operation("httpd")
        \/ SetStream \/ SetVolume \/ PlaySdFile
        \/ MusicInfo \/ Finish \/ Fail \/ Cool
  \/ Over /\ UNCHANGED vars

Spec == Init /\ [][Next]_vars

\* FreeRTOS runs the loop and a handler that has begun; nobody has to send
\* another request.
FairSpec ==
  Spec /\ WF_vars(~Over /\ MainStep)
       /\ WF_vars(~Over /\ Operation("httpd"))
=============================================================================
