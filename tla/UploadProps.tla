----------------------------- MODULE UploadProps -----------------------------
(***************************************************************************)
(* What a client may conclude from what it is told of its upload, whatever *)
(* other clients do and however often the device restarts; that no file    *)
(* stays open for nobody; and that an upload comes to an end.              *)
(***************************************************************************)
EXTENDS Upload

\* Type invariant.
TypeOK ==
    /\ via \in [Clients -> Ways]
    /\ size \in [Clients -> Nat \ {0}]
    /\ said \in [Clients -> {"idle", "waiting", "success", "failed", "stuck", "left"}]
    /\ reading \in [Clients -> SUBSET Nat]
    /\ sent \in [Clients -> SUBSET Nat]
    /\ acked \in [Clients -> SUBSET Nat]
    /\ session \in [id : Clients \cup {None}, total : Nat, active : BOOLEAN]
    /\ http \in [file : Clients \cup {None}, got : Nat, total : Nat]
    /\ slots \in [Slots -> [file : Clients \cup {None}, got : Nat,
                            total : Nat, active : BOOLEAN]]
    /\ slot \in [Clients -> Slots \cup {None}]
    /\ opened \subseteq Clients
    /\ mixed \subseteq Clients /\ shared \subseteq Clients

InOrder(c) == disk[c] = [k \in 1 .. size[c] |-> Piece(c, k - 1)]

\* "Upload completed successfully" on the page of a web socket: every chunk is
\* on the card once and the first one is first, although frames are appended in
\* the order in which the browser's file readers finished, other pages replace
\* the session, and only a size is compared.  The order of the other chunks is
\* that of their arrival, which may be wrong.
WsUploaded ==
    \A c \in Clients :
        said[c] = "success" /\ via[c] = "ws" =>
            /\ Len(disk[c]) = size[c]
            /\ disk[c][1] = Piece(c, 0)
            /\ \A i \in Chunks(c) : \E k \in 1 .. size[c] : disk[c][k] = Piece(c, i)

\* A page that was told success for each of its requests has its file on the
\* card, unless it or another page sent a chunk to the file of the other, which
\* the static variables of tcp_upload_chunk_handler allow.
HttpUploaded ==
    \A c \in Clients :
        said[c] = "success" /\ via[c] = "http" /\ c \notin mixed => InOrder(c)

\* A TCP client whose every chunk was acknowledged has its file on the card,
\* after the restart too that the end of any TCP client causes, unless another
\* one found the same slot while it was being opened, or a chunk went to the
\* wrong file: the cleanup of a slot's last user frees it for a third client
\* while the second still writes through it.
TcpUploaded ==
    \A c \in Clients :
        said[c] = "success" /\ via[c] = "tcp" /\ c \notin mixed \cup shared => InOrder(c)

\* However uploads break off, a file is open only as long as a slot or the
\* chunk handler still refers to it; two clients in one slot lose a FILE.
NoFileLost ==
    \/ shared # {}
    \/ opened = ({http.file} \cup {slots[s].file : s \in Slots}) \ {None}

\* A frame that was sent and will not be acknowledged.
Unanswered(c) ==
    \E i \in sent[c] \ (acked[c] \cup reading[c]) :
        /\ \A k \in DOMAIN wire[c] : wire[c][k] # Chunk(i)
        /\ \A k \in DOMAIN back[c] : back[c][k] # Ack(i)

\* Every upload ends in an answer, or with its client's departure, except that
\* of a page on a web socket one of whose frames could not be written (the
\* handler returns without an answer) or lost its connection ("stuck").
EveryUploadEnds ==
    \A c \in Clients : said[c] = "waiting" ~> said[c] # "waiting" \/ Unanswered(c)
=============================================================================
