------------------------- MODULE AudioPipelineProps -------------------------
(***************************************************************************)
(* What a pipeline promises of the rings between its elements.             *)
(***************************************************************************)
EXTENDS AudioPipeline

\* Types of the fields.
TypeOK ==
    /\ p.order \in Seq(Els) /\ p.rings \in Seq(Rings)
    /\ p.linked_el \subseteq Els /\ p.kept_el \subseteq Els
    /\ p.linked_rb \subseteq Rings /\ p.kept_rb \subseteq Rings /\ p.data \subseteq Rings
    /\ p.host \in [Rings -> Els \cup {None}]
    /\ p.input \in [Els -> Rings \cup {None}] /\ p.output \in [Els -> Rings \cup {None}]
    /\ p.linked \in BOOLEAN /\ p.short \in BOOLEAN
    /\ chain \in Seq(Els)

Between == [i \in 1..Len(chain) - 1 |-> p.output[chain[i]]]

\* After audio_pipeline_link and audio_pipeline_relink, whatever rings earlier
\* chains left behind, each element of the chain reads the ring that the one
\* before it writes; the rings exist, and no two are the same.
Connected ==
    p.linked /\ ~p.short =>
      /\ ToSet(Between) \subseteq Alive(p) /\ IsInjective(Between)
      /\ \A i \in 1..Len(chain) - 1 : p.input[chain[i + 1]] = Between[i]

\* The rings that elements write to, linked, kept or left over, exist and have
\* that element and no other for their host, so unlink finds and clears all of
\* them before it destroys the rings.
WritersHost ==
    \A e \in Els : p.output[e] # None => p.output[e] \in Alive(p) /\ p.host[p.output[e]] = e

RelinkStep == \E c \in Chains : Relink(c)

\* relink gives every kept element the ring it kept, with the bytes in it, and
\* all others a ring that is empty; unless, since the last unlink, a chain was
\* linked or relinked over what a breakup or a failed attempt had left, by which
\* an element may come to host two rings and find the wrong one.
KeptAndEmpty ==
    [][RelinkStep /\ ~astray' =>
         /\ \A e \in p.kept_el : p'.output[e] = p.output[e]
         /\ p.data \cap {p.output[e] : e \in p.kept_el} \subseteq p'.data
         /\ \A e \in ToSet(chain') \ p.kept_el : p'.output[e] \notin p'.data]_vars

=============================================================================
