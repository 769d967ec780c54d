------------------------- MODULE StreamControlProps -------------------------
(***************************************************************************)
(* What playback control must guarantee to its users and to the heap.      *)
(***************************************************************************)
EXTENDS StreamControl

\* Both tasks are between two iterations or requests.
Rest == ~Over /\ At("take") /\ Ready

\* Type invariant: in particular the reports waiting stay within their bound.
TypeOK ==
  /\ current_stream_url \in Urls /\ current_volume \in Volumes
  /\ stream_change_requested \in BOOLEAN /\ volume_change_requested \in BOOLEAN
  /\ mutex \in {"free", "httpd"}
  /\ handles \subseteq Elements \cup {Pipeline}
  /\ alive \subseteq Elements \cup {Pipeline}
  /\ pipe.elements \subseteq Elements
  /\ pipe.uri \in Urls \cup {None, "file"}
  /\ pipe.format \in Urls \cup {None, "file"}
  /\ pipe.volume \in Volumes \cup {None}
  /\ pipe.playing \in {"no", "yes", "ended", "failed"}
  /\ Len(events) <= MaxEvents
  /\ held.url \in Urls \cup {None} /\ held.volume \in Volumes \cup {None}
  /\ plays \in 0..MaxPlays /\ failures \in 0..MaxFailures /\ broken \in BOOLEAN

\* No request for a stream is lost between httpd and app_main: at rest the
\* pipeline plays the stream last asked for, with the decoder for that stream,
\* or the request is still flagged, although app_main reads the URL without the
\* mutex, twice, when it starts one by itself.
LastStreamPlays ==
  Rest /\ Pipeline \in handles /\ pipe.uri \in Urls =>
    \/ stream_change_requested
    \/ pipe.uri = current_stream_url /\ pipe.format = current_stream_url

\* No volume is lost: once app_main or httpd has set one on this pipeline, it is
\* the one last asked for, or the request is still flagged.
LastVolumeSet ==
  Rest /\ pipe.volume # None =>
    volume_change_requested \/ pipe.volume = current_volume

\* A start that fails half-way, and a teardown, leave nothing allocated that no
\* handle names, and nothing at all without a pipeline.
NothingLeft ==
  Rest => alive \subseteq handles /\ (Pipeline \notin alive => alive = {})

\* A stream asked for is started in the end, whatever is played from the SD card
\* in between, and although a start may fail, for the loop starts the current
\* stream again while there is no pipeline.  It is given up for another stream, or
\* for a file that is played after a failed start.
StreamIsServed ==
  \A u \in Urls :
    stream_change_requested /\ current_stream_url = u ~>
      \/ pipe.uri = u /\ pipe.playing = "yes"
      \/ current_stream_url # u
      \/ failures > 0 /\ pipe.uri = "file"
      \/ Over

\* pipeline_restarting and stream_control_mutex keep the two tasks from being at
\* the handles and the pipeline at the same time.
OneControls == ~Uncontrolled
=============================================================================
