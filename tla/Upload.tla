------------------------------- MODULE Upload -------------------------------
(***************************************************************************)
(* The three ways in which a client sends a file to the card in chunks     *)
(* (src/main.c): binary frames of a web socket, sent by the page the       *)
(* device serves; POST requests to /tcp_upload_chunk, sent by the same     *)
(* page; and a TCP connection to port 8080 with a task of its own for each *)
(* client.                                                                 *)
(*                                                                         *)
(* The handlers of the web server run in its one task, so a frame or a     *)
(* request is one step.  The TCP tasks run beside it and beside each       *)
(* other: their steps end where one blocks, on the card or on its socket.  *)
(* A connection delivers in order (wire, back) and may break (Leave).      *)
(* A task function that returns reaches the abort of the FreeRTOS task     *)
(* wrapper (CONFIG_FREERTOS_TASK_FUNCTION_WRAPPER), so the end of a TCP    *)
(* client restarts the device (TcpReturn).                                 *)
(*                                                                         *)
(* A file is the sequence of the pieces written to it.  No two clients     *)
(* upload the same file, and c stands for the file of client c as well.    *)
(***************************************************************************)
EXTENDS Integers, FiniteSets, Sequences

CONSTANTS Clients,
          Uploads,       \* who uploads what, a set of records: the way, and
                         \* the number of chunks of the file, for each client
          MaxParallel,   \* maxParallel: frames a page starts at a time
          Slots,         \* 1 .. TCP_MAX_CONNECTIONS
          None

Ways == {"ws", "http", "tcp"}

ASSUME UploadAssumption ==
    /\ Uploads \subseteq [via : [Clients -> Ways], size : [Clients -> Nat \ {0}]]
    /\ MaxParallel \in Nat \ {0}
    /\ Slots \subseteq Nat
    /\ None \notin Clients

VARIABLES
    via,       \* the client's way of uploading
    size,      \* the chunks of its file
    said,      \* what the client's user was told
    reading,   \* chunks its FileReaders have not loaded yet     (ws)
    sent,      \* sentChunks                                     (ws)
    acked,     \* completedChunks; the chunks acknowledged
    wire,      \* messages under way to the device
    back,      \* messages under way to the client
    session,   \* upload_session
    http,      \* the static variables of tcp_upload_chunk_handler
    slots,     \* tcp_upload_sessions
    pc, slot,  \* each TCP client task and its session pointer
    disk,      \* the files on the card
    opened,    \* the files open for writing
    mixed,     \* history: clients one of whose chunks went to the other's file
    shared     \* history: clients who found one slot free at the same time

page    == <<said, reading, sent, acked>>
server  == <<session, http, slots, pc, slot>>
card    == <<disk, opened>>
history == <<mixed, shared>>
vars    == <<via, size, page, wire, back, server, card, history>>

Chunks(c)  == 0 .. size[c] - 1
Piece(c, i) == <<c, i>>
Part(c)    == <<c, -1>>                  \* what a failed write leaves
Chunk(i)   == [kind |-> "chunk", i |-> i]
Ack(i)     == [kind |-> "ack", i |-> i]
Msg(k)     == [kind |-> k, i |-> 0]

NoSession == [id |-> None, total |-> 0, active |-> FALSE]
NoHttp    == [file |-> None, got |-> 0, total |-> 0]
FreeSlot  == [file |-> None, got |-> 0, total |-> 0, active |-> FALSE]

Init ==
    /\ \E u \in Uploads : via = u.via /\ size = u.size
    /\ said    = [c \in Clients |-> "idle"]
    /\ reading = [c \in Clients |-> {}]
    /\ sent    = [c \in Clients |-> {}]
    /\ acked   = [c \in Clients |-> {}]
    /\ wire    = [c \in Clients |-> <<>>]
    /\ back    = [c \in Clients |-> <<>>]
    /\ session = NoSession
    /\ http    = NoHttp
    /\ slots   = [s \in Slots |-> FreeSlot]
    /\ pc      = [c \in Clients |-> "none"]
    /\ slot    = [c \in Clients |-> None]
    /\ disk    = [c \in Clients |-> <<>>]
    /\ opened  = {}
    /\ mixed   = {} /\ shared = {}

-----------------------------------------------------------------------------
(* The clients. *)

\* What a client sends into a connection that has ended is lost.
Ended(c)    == \E k \in DOMAIN back[c] : back[c][k].kind = "closed"
Send(c, m)  == wire' = IF Ended(c) THEN wire ELSE [wire EXCEPT ![c] = Append(@, m)]
Reply(c, m) == back' = [back EXCEPT ![c] = Append(@, m)]
Tell(c, w)  == said' = [said EXCEPT ![c] = w]

\* A page opens its session, or sends its first chunk; a TCP client
\* connects, for which the server creates a task, and sends its first chunk.
Start(c) ==
    /\ said[c] = "idle"
    /\ Tell(c, "waiting")
    /\ Send(c, IF via[c] = "ws" THEN Msg("start") ELSE Chunk(0))
    /\ pc' = IF via[c] = "tcp" THEN [pc EXCEPT ![c] = "header"] ELSE pc
    /\ UNCHANGED <<via, size, reading, sent, acked, back,
                   session, http, slots, slot, card, history>>

\* uploadNextParallelChunks: the first chunks not yet started, at most
\* MaxParallel more on every call.
NextBatch(c) ==
    LET left == Chunks(c) \ sent[c]
    IN  {i \in left : Cardinality({j \in left : j < i}) < MaxParallel}

StartBatch(c) ==
    /\ reading' = [reading EXCEPT ![c] = @ \cup NextBatch(c)]
    /\ sent'    = [sent EXCEPT ![c] = @ \cup NextBatch(c)]

\* A FileReader's onload: the frames leave in the order the loads end.
WsLoaded(c) ==
    /\ said[c] = "waiting"
    /\ \E i \in reading[c] :
          /\ reading' = [reading EXCEPT ![c] = @ \ {i}]
          /\ Send(c, Chunk(i))
    /\ UNCHANGED <<via, size, said, sent, acked, back, server, card, history>>

Hearing(c, kind) ==
    /\ said[c] = "waiting"
    /\ back[c] # <<>>
    /\ Head(back[c]).kind = kind
    /\ back' = [back EXCEPT ![c] = Tail(@)]
    /\ UNCHANGED <<via, size, server, card, history>>

HearReady(c) ==
    /\ Hearing(c, "ready")
    /\ StartBatch(c)
    /\ UNCHANGED <<said, acked, wire>>

\* An acknowledged frame: the next batch, or the end when it was the last.
WsHearAck(c) ==
    /\ via[c] = "ws"
    /\ Hearing(c, "ack")
    /\ acked' = [acked EXCEPT ![c] = @ \cup {Head(back[c]).i}]
    /\ IF acked'[c] = Chunks(c)
       THEN Send(c, Msg("complete")) /\ UNCHANGED <<reading, sent>>
       ELSE StartBatch(c) /\ UNCHANGED wire
    /\ UNCHANGED said

\* The other clients send one chunk at a time, and are content when all
\* are acknowledged; a TCP client then closes its connection.
HearAck(c) ==
    /\ via[c] # "ws"
    /\ Hearing(c, "ack")
    /\ acked' = [acked EXCEPT ![c] = @ \cup {Head(back[c]).i}]
    /\ IF acked'[c] = Chunks(c)
       THEN /\ Tell(c, "success")
            /\ IF via[c] = "tcp" THEN Send(c, Msg("closed")) ELSE UNCHANGED wire
       ELSE Send(c, Chunk(Cardinality(acked'[c]))) /\ UNCHANGED said
    /\ UNCHANGED <<reading, sent>>

HearDone(c) ==
    /\ Hearing(c, "done")
    /\ Tell(c, "success")
    /\ UNCHANGED <<reading, sent, acked, wire>>

HearFailed(c) ==
    /\ Hearing(c, "failed")
    /\ Tell(c, "failed")
    /\ UNCHANGED <<reading, sent, acked, wire>>

\* The connection is gone: a fetch or a TCP client fails; a page connects
\* anew but keeps waiting for the acknowledgements of the old connection.
HearClosed(c) ==
    /\ Hearing(c, "closed")
    /\ Tell(c, IF via[c] = "ws" THEN "stuck" ELSE "failed")
    /\ UNCHANGED <<reading, sent, acked, wire>>

\* The client goes away: a first part of what it sent arrives, the body of
\* a request possibly cut short; a TCP connection is seen to end.
Leave(c) ==
    /\ said[c] = "waiting"
    /\ Tell(c, "left")
    /\ \E k \in 0 .. Len(wire[c]), cut \in BOOLEAN :
          /\ cut => via[c] = "http" /\ k < Len(wire[c])
          /\ wire' = [wire EXCEPT ![c] =
                        SubSeq(@, 1, k) \o
                        (IF cut THEN <<[@[k + 1] EXCEPT !.kind = "cut"]>>
                         ELSE IF via[c] = "tcp" THEN <<Msg("closed")>> ELSE <<>>)]
    /\ back' = [back EXCEPT ![c] = <<>>]
    /\ UNCHANGED <<via, size, reading, sent, acked, server, card, history>>

-----------------------------------------------------------------------------
(* The task of the web server. *)

\* The server takes client c's next message.
Taking(c, w, kind) ==
    /\ via[c] = w
    /\ wire[c] # <<>>
    /\ Head(wire[c]).kind = kind
    /\ wire' = [wire EXCEPT ![c] = Tail(@)]
    /\ UNCHANGED <<via, size, page, slots, pc, slot>>

Answer(c, m) == IF said[c] = "waiting" THEN Reply(c, m) ELSE UNCHANGED back

\* start_upload_session: the session of another client is forgotten.
SessionOf(c) == [id |-> c, total |-> size[c], active |-> TRUE]

UploadStart(c) ==
    /\ Taking(c, "ws", "start")
    /\ session' = SessionOf(c)
    /\ Answer(c, Msg("ready"))
    /\ UNCHANGED <<http, card, history>>

\* handle_binary_upload: chunk 0 creates the file and starts the session
\* again, any other is appended as it comes, whatever its index.
WsChunk(c) ==
    /\ Taking(c, "ws", "chunk")
    /\ LET i == Head(wire[c]).i IN
       /\ disk' = [disk EXCEPT ![c] =
                      Append(IF i = 0 THEN <<>> ELSE @, Piece(c, i))]
       /\ session' = IF i = 0 THEN SessionOf(c) ELSE session
       /\ Answer(c, Ack(i))
    /\ UNCHANGED <<http, opened, history>>

\* A file that cannot be opened, or a write that falls short: no answer.
WsChunkFails(c) ==
    /\ Taking(c, "ws", "chunk")
    /\ \/ UNCHANGED disk
       \/ disk' = [disk EXCEPT ![c] =
                      Append(IF Head(wire[c]).i = 0 THEN <<>> ELSE @, Part(c))]
    /\ UNCHANGED <<back, session, http, opened, history>>

\* mutant: the size on the card is not looked at.
WsCompleteUnseen(c) ==
    /\ Taking(c, "ws", "complete")
    /\ Answer(c, Msg(IF session.active /\ session.id = c THEN "done" ELSE "failed"))
    /\ session' = [session EXCEPT !.active = FALSE]
    /\ UNCHANGED <<http, card, history>>

\* upload_complete: the size on the card decides, and a file of another
\* size is removed; a session that is not the current one fails.
WsComplete(c) ==
    /\ Taking(c, "ws", "complete")
    /\ LET mine  == session.active /\ session.id = c
           whole == /\ Len(disk[c]) = session.total
                    /\ Part(c) \notin {disk[c][k] : k \in DOMAIN disk[c]}
       IN  IF mine
           THEN /\ disk' = IF whole THEN disk ELSE [disk EXCEPT ![c] = <<>>]
                /\ session' = [session EXCEPT !.active = FALSE]
                /\ Answer(c, Msg(IF whole THEN "done" ELSE "failed"))
           ELSE Answer(c, Msg("failed")) /\ UNCHANGED <<disk, session>>
    /\ UNCHANGED <<http, opened, history>>

\* tcp_upload_chunk_handler after the headers: chunk 0 closes the file of
\* the upload before and starts a new one, any other goes to the open file.
HttpOpened(c, i) ==
    IF i = 0 THEN [file |-> c, got |-> 0, total |-> size[c]] ELSE http

\* A chunk of c that goes to the file of another client: both are mixed.
Meets(c, f) == IF f \in {None, c} THEN {} ELSE {c, f}

\* What the handler's write does to the card: piece x goes to file f, and
\* the file stays open unless it is to be closed.
HttpWrite(c, i, h, x, close) ==
    /\ disk' = [disk EXCEPT ![h.file] = Append(IF i = 0 THEN <<>> ELSE @, x)]
    /\ opened' = LET rest == opened \ {http.file}
                 IN  IF close THEN rest \ {h.file} ELSE rest \cup {h.file}

HttpChunk(c) ==
    /\ Taking(c, "http", "chunk")
    /\ LET i == Head(wire[c]).i
           h == HttpOpened(c, i)
           full == h.got + 1 >= h.total
       IN  IF h.file = None
           THEN Answer(c, Msg("failed")) /\ UNCHANGED <<http, card, mixed>>
           ELSE /\ HttpWrite(c, i, h, Piece(c, i), full)
                /\ http' = [h EXCEPT !.got = @ + 1, !.file = IF full THEN None ELSE @]
                /\ Answer(c, Ack(i))
                /\ mixed' = mixed \cup Meets(c, h.file)
    /\ UNCHANGED <<session, shared>>

\* The file cannot be created.
HttpOpenFails(c) ==
    /\ Taking(c, "http", "chunk")
    /\ Head(wire[c]).i = 0
    /\ http' = [HttpOpened(c, 0) EXCEPT !.file = None]
    /\ opened' = opened \ {http.file}
    /\ Answer(c, Msg("failed"))
    /\ UNCHANGED <<session, disk, history>>

\* No room for the buffer: nothing is written, and the file stays open.
HttpNoMemory(c) ==
    /\ Taking(c, "http", "chunk")
    /\ LET i == Head(wire[c]).i
           h == HttpOpened(c, i)
       IN  /\ h.file # None
           /\ http' = h
           /\ IF i = 0
              THEN /\ disk' = [disk EXCEPT ![c] = <<>>]
                   /\ opened' = (opened \ {http.file}) \cup {c}
              ELSE UNCHANGED card
    /\ Answer(c, Msg("failed"))
    /\ UNCHANGED <<session, history>>

HttpShort(c, closed) ==
    /\ Taking(c, "http", "chunk")
    /\ LET i == Head(wire[c]).i
           h == HttpOpened(c, i)
       IN  /\ h.file # None
           /\ HttpWrite(c, i, h, Part(c), closed)
           /\ http' = [h EXCEPT !.file = None]
           /\ mixed' = mixed \cup Meets(c, h.file)
    /\ UNCHANGED <<session, shared>>

\* mutants: the short write goes unseen; the file is not closed; the client
\* is not told.
HttpWriteUnseen(c) ==
    /\ Taking(c, "http", "chunk")
    /\ LET i == Head(wire[c]).i
           h == HttpOpened(c, i)
           full == h.got + 1 >= h.total
       IN  /\ h.file # None
           /\ HttpWrite(c, i, h, Part(c), full)
           /\ http' = [h EXCEPT !.got = @ + 1, !.file = IF full THEN None ELSE @]
           /\ mixed' = mixed \cup Meets(c, h.file)
           /\ Answer(c, Ack(i))
    /\ UNCHANGED <<session, shared>>
HttpWriteLeaks(c)  == HttpShort(c, FALSE) /\ Answer(c, Msg("failed"))
HttpWriteSilent(c) == HttpShort(c, TRUE) /\ UNCHANGED back

\* A write that falls short closes the file.
HttpWriteFails(c)  == HttpShort(c, TRUE) /\ Answer(c, Msg("failed"))

\* The body ends early: what came is in the file, which stays open.
HttpCut(c) ==
    /\ Taking(c, "http", "cut")
    /\ LET i == Head(wire[c]).i
           h == HttpOpened(c, i)
       IN  /\ http' = h
           /\ IF h.file = None THEN UNCHANGED card
              ELSE HttpWrite(c, i, h, Part(c), FALSE)
           /\ mixed' = mixed \cup Meets(c, h.file)
    /\ UNCHANGED <<back, session, shared>>

-----------------------------------------------------------------------------
(* The task of TCP client c, handle_tcp_client. *)

Goto(c, to) == pc' = [pc EXCEPT ![c] = to]

TcpStep(c, at) ==
    /\ pc[c] = at
    /\ UNCHANGED <<via, size, page, session, http>>

\* No room for the buffer, before anything is received.
TcpNoMemory(c) ==
    /\ TcpStep(c, "header")
    /\ slot[c] = None
    /\ Goto(c, "cleanup")
    /\ UNCHANGED <<wire, back, slots, slot, card, history>>

\* The next header; for chunk 0 find_available_tcp_session.  A slot that
\* another task has found but not yet marked is still free.
TcpHeader(c) ==
    /\ TcpStep(c, "header")
    /\ wire[c] # <<>>
    /\ LET m    == Head(wire[c])
           free == {s \in Slots : ~slots[s].active}
           s    == CHOOSE x \in free : \A y \in free : x <= y
           rivals == {d \in Clients : slot[d] = s /\ pc[d] \in {"open", "mark"}}
       IN  CASE m.kind = "closed" ->
                  Goto(c, "cleanup") /\ UNCHANGED <<slot, shared>>
             [] m.kind = "chunk" /\ m.i = 0 /\ free = {} ->
                  Goto(c, "cleanup") /\ UNCHANGED <<slot, shared>>
             [] m.kind = "chunk" /\ m.i = 0 /\ free # {} ->
                  /\ slot' = [slot EXCEPT ![c] = s]
                  /\ shared' = IF rivals = {} THEN shared ELSE shared \cup rivals \cup {c}
                  /\ Goto(c, "open")
             [] m.kind = "chunk" /\ m.i # 0 ->
                  Goto(c, "body") /\ UNCHANGED <<slot, shared>>
    /\ UNCHANGED <<wire, back, slots, card, mixed>>

\* init_tcp_upload_session: the file is opened first ...
TcpOpen(c) ==
    /\ TcpStep(c, "open")
    /\ \/ /\ disk' = [disk EXCEPT ![c] = <<>>]
          /\ opened' = opened \cup {c}
          /\ slots' = [slots EXCEPT ![slot[c]].file = c]
          /\ Goto(c, "mark")
       \/ /\ slots' = [slots EXCEPT ![slot[c]].file = None]
          /\ Goto(c, "cleanup")
          /\ UNCHANGED card
    /\ UNCHANGED <<wire, back, slot, history>>

\* ... and then the slot is marked active.
TcpMark(c) ==
    /\ TcpStep(c, "mark")
    /\ slots' = [slots EXCEPT ![slot[c]] =
                    [@ EXCEPT !.got = 0, !.total = size[c], !.active = TRUE]]
    /\ Goto(c, "body")
    /\ UNCHANGED <<wire, back, slot, card, history>>

\* The data of the chunk, for which a session must be active; a client
\* that has gone away may have sent only part of it.
TcpBody(c) ==
    /\ TcpStep(c, "body")
    /\ \/ /\ slot[c] # None /\ slots[slot[c]].active
          /\ Head(wire[c]).kind = "chunk"
          /\ wire' = [wire EXCEPT ![c] = Tail(@)]
          /\ Goto(c, "write")
       \/ /\ (slot[c] # None /\ slots[slot[c]].active) => said[c] = "left"
          /\ Goto(c, "cleanup")
          /\ UNCHANGED wire
    /\ UNCHANGED <<back, slots, slot, card, history>>

TcpWrite(c) ==
    /\ TcpStep(c, "write")
    /\ LET f == slots[slot[c]].file IN
       /\ IF f = None THEN Goto(c, "cleanup") /\ UNCHANGED disk
          ELSE \/ /\ disk' = [disk EXCEPT ![f] = Append(@, Piece(c, Cardinality(acked[c])))]
                  /\ Goto(c, "count")
               \/ /\ disk' = [disk EXCEPT ![f] = Append(@, Part(c))]
                  /\ Goto(c, "cleanup")
       /\ mixed' = mixed \cup Meets(c, f)
    /\ UNCHANGED <<wire, back, slots, slot, opened, shared>>

\* mutant: the file is closed with the connection, in TcpCleanup.
TcpCountOpen(c) ==
    /\ TcpStep(c, "count")
    /\ LET s == slot[c]
           got == slots[s].got + 1
       IN  slots' = [slots EXCEPT ![s].got = got, ![s].active = got < slots[s].total]
    /\ Goto(c, "ack")
    /\ UNCHANGED <<wire, back, slot, card, history>>

\* The file is complete when as many chunks came as expected.
TcpCount(c) ==
    /\ TcpStep(c, "count")
    /\ LET s == slot[c]
           got == slots[s].got + 1
       IN  IF got >= slots[s].total
           THEN /\ opened' = opened \ {slots[s].file}
                /\ slots' = [slots EXCEPT ![s] =
                                [@ EXCEPT !.got = got, !.file = None, !.active = FALSE]]
           ELSE slots' = [slots EXCEPT ![s].got = got] /\ UNCHANGED opened
    /\ Goto(c, "ack")
    /\ UNCHANGED <<wire, back, slot, disk, history>>

\* The acknowledgement, which fails when the client has gone away.
TcpAck(c) ==
    /\ TcpStep(c, "ack")
    /\ Answer(c, Ack(Cardinality(acked[c])))
    /\ Goto(c, IF said[c] = "waiting" THEN "more" ELSE "cleanup")
    /\ UNCHANGED <<wire, slots, slot, card, history>>

TcpMore(c) ==
    /\ TcpStep(c, "more")
    /\ Goto(c, IF slots[slot[c]].active THEN "header" ELSE "cleanup")
    /\ UNCHANGED <<wire, back, slots, slot, card, history>>

\* The slot is given up, whoever uses it by now, and the socket closed.
TcpCleanup(c) ==
    /\ TcpStep(c, "cleanup")
    /\ IF slot[c] = None THEN UNCHANGED <<slots, opened>>
       ELSE /\ opened' = opened \ {slots[slot[c]].file}
            /\ slots' = [slots EXCEPT ![slot[c]] = [@ EXCEPT !.file = None, !.active = FALSE]]
    /\ Answer(c, Msg("closed"))
    /\ Goto(c, "return")
    /\ UNCHANGED <<wire, slot, disk, history>>

\* The task function returns, and the device restarts: what was not closed
\* is lost, and every connection ends, some answers still arriving.
TcpReturn(c) ==
    /\ pc[c] = "return"
    /\ session' = NoSession
    /\ http'    = NoHttp
    /\ slots'   = [s \in Slots |-> FreeSlot]
    /\ pc'      = [d \in Clients |-> "none"]
    /\ slot'    = [d \in Clients |-> None]
    /\ disk'    = [n \in Clients |-> IF n \in opened THEN <<>> ELSE disk[n]]
    /\ opened'  = {}
    /\ wire'    = [d \in Clients |-> <<>>]
    /\ \E arrive \in SUBSET {d \in Clients : back[d] # <<>>} :
          back' = [d \in Clients |->
                     IF said[d] # "waiting" THEN <<>>
                     ELSE (IF d \in arrive THEN back[d] ELSE <<>>) \o <<Msg("closed")>>]
    /\ UNCHANGED <<via, size, page, history>>

-----------------------------------------------------------------------------

Page(c) == \/ WsLoaded(c) \/ HearReady(c) \/ WsHearAck(c) \/ HearAck(c)
           \/ HearDone(c) \/ HearFailed(c) \/ HearClosed(c)

Httpd(c) == \/ UploadStart(c) \/ WsChunk(c) \/ WsChunkFails(c) \/ WsComplete(c)
            \/ HttpChunk(c) \/ HttpOpenFails(c) \/ HttpNoMemory(c)
            \/ HttpWriteFails(c) \/ HttpCut(c)

Tcp(c) == \/ TcpNoMemory(c) \/ TcpHeader(c) \/ TcpOpen(c) \/ TcpMark(c) \/ TcpBody(c)
          \/ TcpWrite(c) \/ TcpCount(c) \/ TcpAck(c) \/ TcpMore(c) \/ TcpCleanup(c) \/ TcpReturn(c)

Next == \E c \in Clients : Start(c) \/ Leave(c) \/ Page(c) \/ Httpd(c) \/ Tcp(c)

\* The browser's event loop and the tasks of the device are scheduled fairly,
\* and the network delivers what is not cut off.
Fairness == \A c \in Clients : WF_vars(Page(c)) /\ WF_vars(Httpd(c)) /\ WF_vars(Tcp(c))

Spec == Init /\ [][Next]_vars /\ Fairness

=============================================================================
