--------------------------- MODULE HttpStreamProps ---------------------------
(***************************************************************************)
(* What the HTTP reader promises: what it hands on, and that it ends.      *)
(***************************************************************************)
EXTENDS HttpStream

\* Every variable keeps its type; at most a pause and a stop are queued, and a
\* connection is tried again at most MaxConnect + 1 times in a row.
TypeOK ==
    /\ Len(cmds) <= 2 /\ Range(cmds) \subseteq {"pause", "stop"}
    /\ state \in {"init", "opening", "running", "paused", "stopped", "finished", "error"}
    /\ pc \in {"halt", "begin", "load", "resolve", "run", "read", "reread", "next",
               "output", "end"}
    /\ uri \in 0 .. Variant /\ conn.of \in 0 .. Variant
    /\ conn.at \in 0 .. Pieces(conn.of)
    /\ pos \in Nat
    /\ http.times \in 0 .. MaxConnect + 1
    /\ http.played \in 0 .. Len(http.tracks) /\ Len(http.tracks) <= MaxTracks + 1

\* Track u follows track t in the order of the list.
Follows(u, t) == u \in seen /\ u > t /\ \A s \in seen : s > t => u <= s

Begins(l, m) ==
    /\ m.at = 0 /\ Follows(m.of, l.of)
    /\ auto \/ l = Nothing \/ l.at \in {Pieces(l.of), Abandoned, Astray}

Continues(l, m) ==
    /\ m.of = l.of /\ ~IsList(m.of)
    /\ m.at = l.at + 1 \/ l.at = Astray \/ (auto /\ kind # "file" /\ m.at > l.at)

\* The next element is handed the pieces of a file, or of the segments a list
\* has named, in their order, none twice and none left out, through pauses,
\* through further fetches of a live list and, for a file, through broken
\* connections.  What is given up is given up whole: a list that is cleared
\* (stop, failure, reconnection) begins anew, and a track that was paused
\* before its first piece, or stopped while paused, is passed over.  Tracks
\* connected one after the other without opening again (auto) may lose pieces
\* at their end, but their order stays.  The text of a list is handed on only
\* where no list could be made of it, because the first read of it broke, and
\* where a master list names it; the track resumed after such a text may lose
\* the pieces that the text was counted as.
InOrder ==
    [][(last' # last /\ kind # "master") =>
          \/ last' = Nothing
          \/ last' = [last EXCEPT !.at = Abandoned]
          \/ last' = [last EXCEPT !.at = Astray]
          \/ Begins(last, last')
          \/ Continues(last, last')]_vars

\* A file is reported finished only after its last piece was handed on,
\* whatever connections broke on the way.
Whole == [][(kind = "file" /\ state' = "finished" /\ state # "finished")
               => last = [of |-> Own, at |-> FileLen]]_vars

\* A stop is obeyed, also while the callbacks fetch a live list over and over.
StopObeyed == stopping ~> ~stopping

\* Reading a file ends, however often its connection breaks.
FileEnds ==
    (kind = "file" /\ state \in {"opening", "running"})
        ~> state \notin {"opening", "running"}

\* main.c announces that at its end a live list is fetched again: an element
\* does not finish with the fetch still to come.
LiveGoesOn == state = "finished" => ~again
=============================================================================
