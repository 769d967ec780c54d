----------------------------- MODULE HttpStream -----------------------------
(***************************************************************************)
(* The HTTP reader of a pipeline (src/component/audio_stream/http_stream.c *)
(* and http_playlist.c): an element whose open callback finds what to      *)
(* play, through a playlist if the URI names one, and whose process        *)
(* callback reads it, goes on to the next track and connects again when    *)
(* the connection breaks.  The hooks are those of the application          *)
(* (_http_stream_event_handle in src/src/main.c): http_stream_next_track   *)
(* at the end of a track, http_stream_fetch_again at the end of a list.    *)
(*                                                                         *)
(* What is read is counted in pieces of one read each; the text of a list  *)
(* is one piece.  The element around the callbacks is AudioElement, of     *)
(* which only the commands and the states that the callbacks see are kept. *)
(*                                                                         *)
(* The server is the environment.  It honours Range for a file and for a   *)
(* segment, and may or may not for a list; its segments stay available (of *)
(* a track connected on the way the code does not look at the status);     *)
(* a live list is a window that moves on.  The end of the data is where    *)
(* the server ends them.  Left out are HLS keys, gzip, PLS lists, requests *)
(* by ranges, redirection, and elements that write.                        *)
(***************************************************************************)
EXTENDS Integers, Sequences, FiniteSets, Functions, Folds, FiniteSetsExt, SequencesExt

CONSTANTS Kinds,        \* what the URI may name: "file", "media" or "master"
          AutoConnect,  \* values of auto_connect_next_track
          FileLen, SegLen,
          Window,       \* segments a live list shows
          MaxSegs,      \* bound: segments the server has
          KeepTracks,   \* MAX_PLAYLIST_KEEP_TRACKS
          MaxTracks,    \* MAX_PLAYLIST_TRACKS
          MaxConnect    \* HTTP_MAX_CONNECT_TIMES

ASSUME HttpStreamAssumption ==
    /\ Kinds \subseteq {"file", "media", "master"}
    /\ AutoConnect \subseteq BOOLEAN
    /\ {FileLen, SegLen, Window, MaxSegs} \subseteq Nat \ {0}
    /\ MaxConnect \in Nat
    /\ Window <= KeepTracks     \* a longer window makes old segments new
    /\ MaxSegs <= MaxTracks     \* a longer list loses its first segments unheard

VARIABLES
    kind, auto,  \* what the URI names; auto_connect_next_track
    list,        \* the server: segments lo .. hi in the list, and its end mark
    cmds,        \* commands in the element's queue
    stopping,    \* the mark of a stop, which the callbacks look at
    state,       \* the element's state
    pc,          \* where its task is
    uri,         \* _http_open: the resource it asks for
    conn,        \* http->client: the resource, and the pieces read of it
    pos,         \* info.byte_pos
    broke,       \* the last read failed with an errno
    http,        \* the fields of http_stream_t
    last,        \* history: the last track begun, and the last piece of it
                 \* handed to the next element
    seen,        \* history: segments listed since the list was last cleared
    again        \* history: the list was to be fetched again, and was not yet

element == <<cmds, stopping, state, pc>>
reader  == <<uri, conn, pos, broke, http>>
history == <<last, seen, again>>
vars    == <<kind, auto, list, element, reader, history>>

-----------------------------------------------------------------------------
(* Resources: the element's own URI, segments 1 .. MaxSegs, and the media   *)
(* list a master list names.                                                *)
Own     == 0
Variant == MaxSegs + 1

IsList(u) == u = Variant \/ (u = Own /\ kind # "file")
Pieces(u) == IF IsList(u) THEN 1 ELSE IF u = Own THEN FileLen ELSE SegLen

\* positions from here on are the same: past the end of everything
Far == Max({FileLen, SegLen})

Nothing   == [of |-> Own, at |-> 0]
Abandoned == -1     \* for last.at: the rest of the track is not wanted
Astray    == -2     \* for last.at: the text of a list was counted in pos

Init ==
    /\ kind \in Kinds /\ auto \in AutoConnect
    /\ \E n \in 1 .. Window \cap 1 .. MaxSegs, e \in BOOLEAN :
           list = [lo |-> 1, hi |-> n, ended |-> e]
    /\ cmds = <<>> /\ stopping = FALSE /\ state = "init" /\ pc = "halt"
    /\ uri = Own /\ conn = Nothing /\ pos = 0 /\ broke = FALSE
    /\ http = [resolved |-> FALSE, tracks |-> <<>>, played |-> 0,
               incomplete |-> FALSE, main |-> FALSE, times |-> 0]
    /\ last = Nothing /\ seen = {} /\ again = FALSE

-----------------------------------------------------------------------------
(* http_playlist.c.  Tracks are played in order, so the is_played marks are *)
(* the number of tracks played.                                             *)
DropHead(h) == [h EXCEPT !.tracks = Tail(@),
                         !.played = IF @ > 0 THEN @ - 1 ELSE 0]

RemovePlayed(h) ==
    IF Len(h.tracks) > KeepTracks /\ h.played > 0 THEN DropHead(h) ELSE h

\* mutant: the search for the URI in the list is forgotten
InsertAgain(h, t) ==
    LET g == IF Len(h.tracks) > MaxTracks THEN DropHead(h) ELSE h
    IN RemovePlayed([g EXCEPT !.tracks = Append(@, t)])

Insert(h, t) ==
    LET g == IF Len(h.tracks) > MaxTracks THEN DropHead(h) ELSE h
    IN IF t \in Range(g.tracks) THEN g
       ELSE RemovePlayed([g EXCEPT !.tracks = Append(@, t)])

HasNext(h)   == h.played < Len(h.tracks)
NextTrack(h) == h.tracks[h.played + 1]
Took(h)      == [h EXCEPT !.played = @ + 1]

Clear(h) == [h EXCEPT !.tracks = <<>>, !.played = 0, !.incomplete = FALSE,
                      !.resolved = FALSE]

-----------------------------------------------------------------------------
(* The controlling thread: audio_element_resume, _pause, _stop and          *)
(* _reset_state.  It waits for its commands to be taken before it resumes.  *)
Resume ==
    /\ pc = "halt" /\ cmds = <<>> /\ state \in {"init", "paused", "stopped"}
    /\ state' = "opening" /\ pc' = "begin"
    /\ UNCHANGED <<cmds, stopping, reader, history>>

Pause ==
    \/ /\ state \in {"init", "opening", "running"} /\ "pause" \notin Range(cmds)
       /\ cmds' = Append(cmds, "pause")
       /\ UNCHANGED <<stopping, state, pc, reader, history>>
    \/ /\ state \in {"stopped", "finished", "error"}
       /\ state' = "paused"
       /\ UNCHANGED <<cmds, stopping, pc, reader, history>>

Stop ==
    /\ state \in {"opening", "running"} /\ ~stopping
    /\ cmds' = Append(cmds, "stop") /\ stopping' = TRUE
    /\ UNCHANGED <<state, pc, reader, history>>

\* the element is not running: only its position is reset
StopPaused ==
    /\ state = "paused"
    /\ pos' = 0
    /\ last' = IF kind = "file" THEN Nothing ELSE [last EXCEPT !.at = Abandoned]
    /\ UNCHANGED <<element, uri, conn, broke, http, seen, again>>

ResetState ==
    /\ pc = "halt" /\ cmds = <<>> /\ state \in {"stopped", "finished", "error"}
    /\ state' = "init"
    /\ UNCHANGED <<cmds, stopping, pc, reader, history>>

-----------------------------------------------------------------------------
(* _http_close, called when the element stops, fails or finishes.           *)
Close(s) ==
    /\ state' = s /\ pc' = "halt"
    /\ http' = Clear(http) /\ pos' = 0
    /\ conn' = Nothing /\ uri' = Own /\ broke' = FALSE
    /\ last' = Nothing /\ seen' = {}

OnStop == Close("stopped") /\ stopping' = FALSE /\ UNCHANGED <<cmds, again>>
Fail   == Close("error") /\ UNCHANGED <<cmds, stopping, again>>
Finish == Close("finished") /\ UNCHANGED <<cmds, stopping>>

GoTo(p) == pc' = p /\ UNCHANGED <<cmds, stopping, state>>

\* audio_event_iface_waiting_cmd_msg and audio_element_on_cmd
TakeCommand ==
    /\ pc \in {"halt", "run"} /\ cmds # <<>>
    /\ cmds' = Tail(cmds)
    /\ IF Head(cmds) = "pause"
       THEN \* _http_close of a paused element keeps the list and the position
            /\ state' = "paused" /\ pc' = "halt"
            /\ last' = IF pc = "run" /\ kind # "file" /\ pos = 0
                       THEN [last EXCEPT !.at = Abandoned] ELSE last
            /\ conn' = Nothing
            /\ UNCHANGED <<stopping, uri, pos, broke, http, seen, again>>
       ELSE /\ stopping' = FALSE
            /\ IF pc = "run"
               THEN Close("stopped") /\ UNCHANGED again
               ELSE state' = "stopped" /\ UNCHANGED <<pc, reader, history>>

-----------------------------------------------------------------------------
(* _http_open                                                               *)
Ask(u) == uri' = u /\ GoTo("load") /\ UNCHANGED <<conn, pos, broke>>

BeginTrack ==
    LET h == RemovePlayed(http)
    IN /\ pc = "begin" /\ http.resolved /\ pos = 0 /\ HasNext(h)
       /\ http' = Took(h) /\ Ask(NextTrack(h))
       /\ last' = [of |-> NextTrack(h), at |-> 0]
       /\ UNCHANGED <<seen, again>>

BeginLast ==
    /\ pc = "begin" /\ http.resolved /\ pos # 0 /\ http.played > 0
    /\ Ask(http.tracks[http.played]) /\ UNCHANGED <<http, history>>

NoTrack ==
    /\ pc = "begin" /\ http.resolved
    /\ IF pos = 0 THEN ~HasNext(http) ELSE http.played = 0

\* HTTP_STREAM_FINISH_PLAYLIST: http_stream_fetch_again
FetchAgain ==
    /\ http' = [(IF pos = 0 THEN RemovePlayed(http) ELSE http)
                    EXCEPT !.resolved = FALSE]
    /\ again' = TRUE

BeginAgain ==
    /\ NoTrack /\ http.incomplete /\ FetchAgain
    /\ UNCHANGED <<element, uri, conn, pos, broke, last, seen>>

BeginFails == NoTrack /\ ~http.incomplete /\ Fail

BeginOwn ==
    /\ pc = "begin" /\ ~http.resolved
    /\ Ask(Own) /\ UNCHANGED <<http, history>>

Opened == state' = "running" /\ pc' = "run" /\ UNCHANGED <<cmds, stopping>>

\* _http_load_uri; a list may be answered in whole to a request for its end
Load ==
    /\ pc = "load"
    /\ \E n \in IF IsList(uri) /\ pos > 0 THEN {0, 1} ELSE {Min({pos, Pieces(uri)})} :
           conn' = [of |-> uri, at |-> n]
    /\ again' = (again /\ uri # Own)
    /\ IF IsList(uri) /\ ~http.resolved THEN GoTo("resolve") ELSE Opened
    /\ uri' = Own /\ UNCHANGED <<pos, broke, http, last, seen>>

LoadFails == pc = "load" /\ Fail

Segments == [i \in 1 .. list.hi - list.lo + 1 |-> list.lo + i - 1]

Cleared == IF http.main THEN Clear(http) ELSE http

\* _resolve_playlist: a text of which nothing came is no list
NoList ==
    /\ http' = [Cleared EXCEPT !.main = FALSE, !.incomplete = TRUE]
    /\ Opened /\ UNCHANGED <<conn, seen>>

ReadMaster ==
    /\ conn.at = 0 /\ kind = "master"
    /\ http' = [Insert(Cleared, Variant) EXCEPT !.main = TRUE, !.resolved = TRUE]
    /\ conn' = [conn EXCEPT !.at = 1]
    /\ GoTo("begin") /\ UNCHANGED seen

\* the first n segments; a read that breaks leaves the others, and the end
\* mark, unread
ReadMedia(n, whole) ==
    /\ conn.at = 0 /\ kind # "master"
    /\ whole => n = Len(Segments)
    /\ http' = [FoldLeft(Insert, Cleared, SubSeq(Segments, 1, n))
                   EXCEPT !.main = FALSE, !.resolved = TRUE,
                          !.incomplete = ~(whole /\ list.ended)]
    /\ seen' = seen \cup Range(SubSeq(Segments, 1, n))
    /\ conn' = [conn EXCEPT !.at = 1]
    /\ GoTo("begin")

ReadList ==
    /\ \/ NoList
       \/ ReadMaster
       \/ \E n \in 1 .. Len(Segments), whole \in BOOLEAN : ReadMedia(n, whole)
    /\ UNCHANGED <<uri, pos, broke, last, again>>

\* mutant: the stopping mark is not looked at
ResolveRegardless == pc = "resolve" /\ ReadList

Resolve == pc = "resolve" /\ ~stopping /\ ReadList

ResolveStopped ==
    /\ pc = "resolve" /\ stopping
    /\ Opened /\ UNCHANGED <<reader, history>>

-----------------------------------------------------------------------------
(* _http_process and _http_read                                             *)
Poll == pc = "run" /\ cmds = <<>> /\ GoTo("read") /\ UNCHANGED <<reader, history>>

Reading == pc \in {"read", "reread"}

ReadData ==
    /\ Reading /\ conn.at < Pieces(conn.of)
    /\ conn' = [conn EXCEPT !.at = @ + 1] /\ pos' = Min({pos + 1, Far})
    /\ broke' = FALSE
    /\ GoTo("output") /\ UNCHANGED <<uri, http, history>>

NoData == IF pc = "read" /\ auto THEN "next" ELSE "end"

ReadEnds ==
    /\ Reading /\ conn.at = Pieces(conn.of)
    /\ broke' = FALSE
    /\ GoTo(NoData) /\ UNCHANGED <<uri, conn, pos, http, history>>

\* mutant: a broken connection passes for the end of the data
ReadBreaksUnseen ==
    /\ Reading /\ broke' = FALSE
    /\ GoTo(NoData) /\ UNCHANGED <<uri, conn, pos, http, history>>

\* also after the last piece: errno is whatever the client kept
ReadBreaks ==
    /\ Reading /\ broke' = TRUE
    /\ GoTo(NoData) /\ UNCHANGED <<uri, conn, pos, http, history>>

\* http_stream_auto_connect_next_track; a connection that fails may leave an
\* errno or none
AutoNext ==
    LET h == RemovePlayed(http)
    IN /\ pc = "next" /\ http.resolved /\ HasNext(h)
       /\ http' = Took(h) /\ last' = [of |-> NextTrack(h), at |-> 0]
       /\ \/ /\ conn' = [of |-> NextTrack(h), at |-> 0]
             /\ GoTo("reread") /\ broke' = FALSE
          \/ broke' \in BOOLEAN /\ GoTo("end") /\ UNCHANGED conn
       /\ UNCHANGED <<uri, pos, seen, again>>

AutoNone ==
    /\ pc = "next" /\ ~(http.resolved /\ HasNext(http))
    /\ http' = IF http.resolved THEN RemovePlayed(http) ELSE http
    /\ GoTo("end") /\ UNCHANGED <<uri, conn, pos, broke, history>>

\* the text of a list of which nothing could be read at first
IsText == IsList(conn.of) /\ ~http.resolved

Output ==
    /\ pc = "output" /\ ~stopping
    /\ http' = [http EXCEPT !.times = 0]
    /\ last' = IF IsText THEN [last EXCEPT !.at = Astray] ELSE conn
    /\ GoTo("run") /\ UNCHANGED <<uri, conn, pos, broke, seen, again>>

Aborted == pc \in {"output", "end"} /\ stopping /\ OnStop

Ending == pc = "end" /\ ~stopping

\* mutant: connect_times is not counted
CountedNever(h) == h

Counted(h) == [h EXCEPT !.times = @ + 1]

\* _http_reconnect: close and open, the position kept
Reconnect ==
    /\ Ending /\ broke /\ http.times <= MaxConnect
    /\ http' = Counted(Clear(http))
    /\ last' = IF kind = "file" THEN last ELSE Nothing
    /\ seen' = {} /\ conn' = Nothing /\ broke' = FALSE
    /\ GoTo("begin") /\ UNCHANGED <<uri, pos, again>>

GiveUp == Ending /\ broke /\ http.times > MaxConnect /\ Fail

\* HTTP_STREAM_FINISH_TRACK: http_stream_next_track, and the element opens again
EndOfTrack ==
    /\ Ending /\ ~broke /\ ~auto /\ http.resolved
    /\ pos' = 0
    /\ state' = "opening" /\ pc' = "begin"
    /\ UNCHANGED <<cmds, stopping, uri, conn, broke, http, history>>

EndOfFile == Ending /\ ~broke /\ ~auto /\ ~http.resolved /\ Finish /\ UNCHANGED again

\* HTTP_STREAM_FINISH_PLAYLIST while reading: fetch_again returns ESP_OK, and
\* the read 0, which the element takes for the end
EndOfList == Ending /\ ~broke /\ auto /\ http.incomplete /\ again' = TRUE /\ Finish

EndFails == Ending /\ ~broke /\ auto /\ ~http.incomplete /\ Fail

-----------------------------------------------------------------------------
(* The server's live list *)
Announce ==
    /\ ~list.ended /\ list.hi < MaxSegs
    /\ list' = [list EXCEPT !.hi = @ + 1,
                            !.lo = IF list.hi + 1 - @ < Window THEN @ ELSE @ + 1]

EndList == ~list.ended /\ list' = [list EXCEPT !.ended = TRUE]

Server == kind # "file" /\ (Announce \/ EndList) /\ UNCHANGED <<kind, auto, element, reader, history>>

Control == Resume \/ Pause \/ Stop \/ StopPaused \/ ResetState

Task ==
    \/ TakeCommand
    \/ BeginTrack \/ BeginLast \/ BeginAgain \/ BeginFails \/ BeginOwn
    \/ Load \/ LoadFails \/ Resolve \/ ResolveStopped
    \/ Poll \/ ReadData \/ ReadEnds \/ ReadBreaks \/ AutoNext \/ AutoNone
    \/ Output \/ Aborted \/ Reconnect \/ GiveUp
    \/ EndOfTrack \/ EndOfFile \/ EndOfList \/ EndFails

Next == Server \/ ((Control \/ Task) /\ UNCHANGED <<kind, auto, list>>)

Spec == Init /\ [][Next]_vars

\* the element's task runs, and every request is answered or fails
FairSpec == Spec /\ WF_vars(Task /\ UNCHANGED <<kind, auto, list>>)
=============================================================================
