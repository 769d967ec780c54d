--------------------------- MODULE AudioPipeline ----------------------------
(***************************************************************************)
(* audio_pipeline.c: the lists el_list and rb_list of a pipeline, and the  *)
(* ring buffers between its elements, through register, link, unlink,      *)
(* breakup and relink in any order.                                        *)
(*                                                                         *)
(* breakup takes a chain apart and reserves some of its working elements   *)
(* with the ring each writes to; relink builds another chain, in which     *)
(* they keep those rings and the others take free rings of the list before *)
(* new ones are made.                                                      *)
(*                                                                         *)
(* The fields of the list items are sets and functions; the order of both  *)
(* lists is kept, because the code depends on it.                          *)
(***************************************************************************)
EXTENDS Naturals, FiniteSets, SequencesExt

CONSTANTS Els,    \* elements
          Rings,  \* ring buffers there is memory for
          Chains  \* the chains the application builds of them

None == 0

ASSUME RingsAssumption == Rings \subseteq Nat \ {None}
ASSUME ElsAssumption == None \notin Els
ASSUME ChainsAssumption == \A c \in Chains : c \in Seq(Els) /\ Len(c) > 1 /\ IsInjective(c)

VARIABLES p,      \* the pipeline and the rings of its elements
          chain,  \* the elements linked last
          astray  \* history: an element may have been given a second ring

vars == <<p, chain, astray>>

Alive(q) == ToSet(q.rings)
Registered == ToSet(p.order)

Init == /\ p = [order |-> << >>, linked_el |-> {}, kept_el |-> {},
                rings |-> << >>, linked_rb |-> {}, kept_rb |-> {},
                host |-> [r \in Rings |-> None],
                input |-> [e \in Els |-> None], output |-> [e \in Els |-> None],
                data |-> {},      \* rings that are not empty
                short |-> FALSE,  \* a relink could not make a ring, and told nobody
                linked |-> FALSE]
        /\ chain = << >>
        /\ astray = FALSE

-----------------------------------------------------------------------------
(* Rings *)

\* rb_create, and the item put on rb_list; None when there is no memory.
Spare(q) == IF Rings \subseteq Alive(q) THEN None
            ELSE CHOOSE r \in Rings \ Alive(q) : \A s \in Rings \ Alive(q) : r <= s

Hosted(q, r, e) == [q EXCEPT !.linked_rb = @ \cup {r}, !.kept_rb = @ \ {r}, !.host[r] = e]

Added(q, r, e) == [Hosted(q, r, e) EXCEPT !.rings = Append(@, r)]

-----------------------------------------------------------------------------
(* register, unregister.  A registered element is registered again, and one   *)
(* is unregistered, only while there are no rings; what becomes of elements   *)
(* that are unregistered while linked is in StreamControl.                    *)

Register(e) ==
    /\ p.rings = << >> \/ e \notin Registered
    /\ p' = [p EXCEPT !.order = Append(RemoveFirst(@, e), e)]
    /\ UNCHANGED <<chain, astray>>

Unregister(e) ==
    /\ p.rings = << >>
    /\ e \in Registered
    /\ p' = [p EXCEPT !.order = RemoveFirst(@, e)]
    /\ UNCHANGED <<chain, astray>>

-----------------------------------------------------------------------------
(* link, unlink *)

\* audio_pipeline_unlink: linked elements, and those that host a ring of the
\* list, lose their rings, and all rings of the list are destroyed.
Unlinked(q) ==
    LET freed == q.linked_el \cup {q.host[r] : r \in Alive(q)}
        Without(ring) == [e \in Els |-> IF e \in freed THEN None ELSE ring[e]]
    IN IF ~q.linked THEN q ELSE
       [q EXCEPT !.linked_el = {}, !.kept_el = @ \ q.linked_el,
                 !.input = Without(@), !.output = Without(@),
                 !.rings = << >>, !.linked_rb = {}, !.kept_rb = {},
                 !.host = [r \in Rings |-> None], !.data = {}, !.short = FALSE, !.linked = FALSE]

\* How far a loop over the elements of c gets: an element that is not
\* registered ends it.
Reach(c) == IF ToSet(c) \subseteq Registered THEN Len(c)
            ELSE SelectInSeq(c, LAMBDA e : e \notin Registered) - 1

\* One turn of the loop of audio_pipeline_link; s is the pipeline so far, and
\* whether a ring could not be made, which ends the loop.
LinkOne(s, c, i) ==
    LET e == c[i]
        q == [s.p EXCEPT !.linked_el = @ \cup {e}, !.kept_el = @ \ {e},
                         !.input[e] = IF i > 1 THEN s.p.output[c[i - 1]] ELSE @]
        r == Spare(q)
    IN CASE s.failed -> s
         [] ~s.failed /\ i = Len(c) -> [s EXCEPT !.p = q]
         [] ~s.failed /\ i < Len(c) /\ r # None ->
              [s EXCEPT !.p = [Added(q, r, e) EXCEPT !.output[e] = r]]
         [] OTHER -> [p |-> q, failed |-> TRUE]

\* Rings or kept elements that an earlier chain left behind, beside which a link
\* makes second rings.
LeftOver(q) == q.rings # << >> \/ q.kept_el # {}

\* audio_pipeline_link and audio_pipeline_link_more: linked elements are unlinked
\* first, but not what a breakup, or a link or relink that failed, has left.
Link(c) ==
    LET start == [p |-> Unlinked(p), failed |-> FALSE]
        end == FoldLeft(LAMBDA s, i : LinkOne(s, c, i), start, [i \in 1..Reach(c) |-> i])
        ok == Reach(c) = Len(c) /\ ~end.failed
    IN /\ p' = [end.p EXCEPT !.linked = ok]
       /\ chain' = IF ok THEN c ELSE << >>
       /\ astray' = LeftOver(start.p)

Unlink == /\ p.linked
          /\ p' = Unlinked(p)
          /\ chain' = << >>
          /\ astray' = LeftOver(Unlinked(p))

-----------------------------------------------------------------------------
(* breakup, relink *)

\* mutant: the ring stays with the element, as it does with reserved ones.
DroppedKeepsRing(q, e) ==
    IF q.rings = << >> THEN q ELSE
    [q EXCEPT !.linked_el = @ \ {e}, !.kept_el = @ \ {e}, !.input[e] = None]

\* The elements taken out: the loop over rb_list clears both rings in its first
\* turn, and the link in the first if the ring is first in the list, or in the
\* second.
Dropped(q, e) ==
    LET first == q.output[e] = Head(q.rings)
        seen == first \/ q.output[e] = None \/ Len(q.rings) > 1
    IN IF q.rings = << >> THEN q ELSE
       [q EXCEPT !.linked_el = IF seen THEN @ \ {e} ELSE @,
                 !.kept_el = IF seen THEN @ \ {e} ELSE @,
                 !.host = IF first THEN [@ EXCEPT ![Head(q.rings)] = None] ELSE @,
                 !.kept_rb = IF first THEN @ \ {Head(q.rings)} ELSE @,
                 !.input[e] = None, !.output[e] = None]

\* The elements reserved, if they work, with the ring they write to.
Reserved(q, e, active) ==
    LET found == q.output[e] \in Alive(q)
        works == found /\ e \in active
    IN IF q.rings = << >> THEN q ELSE
       [q EXCEPT !.linked_el = @ \ {e},
                 !.kept_el = IF works THEN @ \cup {e} ELSE @,
                 !.kept_rb = IF works THEN @ \cup {q.output[e]} ELSE @,
                 !.output[e] = IF found /\ ~works THEN None ELSE @,
                 !.input[e] = IF found THEN None ELSE @]

\* One turn of the loop of audio_pipeline_breakup_elements: s.kept is the flag
\* that the first element with a ring clears.
BreakOne(s, e, k, active) ==
    CASE e \notin s.p.linked_el -> s
      [] e \in s.p.linked_el /\ ~s.kept /\ e # k ->
           [s EXCEPT !.p = Dropped(s.p, e)]
      [] OTHER -> [s EXCEPT !.p = Reserved(s.p, e, active),
                            !.kept = @ /\ s.p.output[e] \notin Alive(s.p)]

\* Rings that are not kept are free and reset.
Broken(k, active) ==
    LET start == [p |-> p, kept |-> TRUE]
        end == FoldLeft(LAMBDA s, e : BreakOne(s, e, k, active), start, p.order)
    IN [end.p EXCEPT !.linked_rb = @ \cap end.p.kept_rb,
                     !.data = end.p.kept_rb, !.short = FALSE, !.linked = FALSE]

\* Whether the others run or not, nothing of theirs is reserved.
Writing == {e \in p.linked_el : p.output[e] # None}

\* audio_pipeline_breakup_elements; active are the elements that run or pause.
Breakup(k, active) ==
    /\ p' = Broken(k, active)
    /\ chain' = << >>
    /\ UNCHANGED astray

\* audio_pipeline_reset_kept_state.
ResetKept(e) ==
    LET r == p.output[e]
    IN /\ p' = [p EXCEPT !.linked_el = @ \ {e}, !.kept_el = @ \ {e}, !.output[e] = None,
                         !.linked_rb = @ \ {r}, !.kept_rb = @ \ {r},
                         !.host = [s \in Rings |-> IF s = r THEN None ELSE @[s]],
                         !.linked = FALSE]
       /\ chain' = << >>
       /\ astray' = (astray \/ e \notin p.kept_el)

\* An element that was not kept takes the first free ring without a host; the
\* free rings before it lose theirs.
Take(q, e) ==
    LET free == ToSet(q.rings) \ (q.linked_rb \cup q.kept_rb)
        j == SelectInSeq(q.rings, LAMBDA r : r \in free /\ q.host[r] = None)
        passed == free \cap {q.rings[i] : i \in 1..(IF j = 0 THEN Len(q.rings) ELSE j - 1)}
        cleared == [q EXCEPT !.host = [r \in Rings |-> IF r \in passed THEN None ELSE @[r]]]
    IN IF j = 0 THEN [p |-> cleared, ring |-> None]
       ELSE [p |-> [Hosted(cleared, q.rings[j], e) EXCEPT !.data = @ \ {q.rings[j]}],
             ring |-> q.rings[j]]

\* mutant: the kept ring is reset like any other that is used again.
TakeKeptResets(q, e) ==
    LET j == SelectInSeq(q.rings, LAMBDA r : q.host[r] = e)
    IN IF j = 0 THEN [p |-> q, ring |-> None]
       ELSE [p |-> [Hosted(q, q.rings[j], e) EXCEPT !.kept_el = @ \ {e}, !.data = @ \ {q.rings[j]}],
             ring |-> q.rings[j]]

\* A kept element takes the first ring it hosts.
TakeKept(q, e) ==
    LET j == SelectInSeq(q.rings, LAMBDA r : q.host[r] = e)
    IN IF j = 0 THEN [p |-> q, ring |-> None]
       ELSE [p |-> [Hosted(q, q.rings[j], e) EXCEPT !.kept_el = @ \ {e}],
             ring |-> q.rings[j]]

\* mutant: an element that still has a ring to read from keeps it.
RelinkOneKeepsInput(s, c, i) ==
    LET e == c[i]
        last == i = Len(c)
        t == IF e \in s.p.kept_el THEN TakeKept(s.p, e) ELSE Take(s.p, e)
        new == ~last /\ t.ring = None
        r == IF new THEN Spare(t.p) ELSE t.ring
        q == [IF new /\ r # None THEN Added(t.p, r, e) ELSE t.p
              EXCEPT !.linked_el = @ \cup {e}]
        fed == [q EXCEPT !.input[e] = IF i > 1 /\ @ = None THEN s.rb ELSE @]
    IN CASE new /\ r = None -> [s EXCEPT !.p = [q EXCEPT !.short = TRUE]]
         [] ~last /\ r # None -> [p |-> [fed EXCEPT !.output[e] = r], rb |-> r]
         [] last -> [s EXCEPT !.p = fed]

\* One turn of the loop of audio_pipeline_relink, with
\* audio_pipeline_el_item_link; s.rb is its static variable. That a ring cannot
\* be made is not noticed.
RelinkOne(s, c, i) ==
    LET e == c[i]
        last == i = Len(c)
        t == IF e \in s.p.kept_el THEN TakeKept(s.p, e) ELSE Take(s.p, e)
        new == ~last /\ t.ring = None
        r == IF new THEN Spare(t.p) ELSE t.ring
        q == [IF new /\ r # None THEN Added(t.p, r, e) ELSE t.p
              EXCEPT !.linked_el = @ \cup {e}]
        fed == [q EXCEPT !.input[e] = IF i > 1 THEN s.rb ELSE @]
    IN CASE new /\ r = None -> [s EXCEPT !.p = [q EXCEPT !.short = TRUE]]
         [] ~last /\ r # None -> [p |-> [fed EXCEPT !.output[e] = r], rb |-> r]
         [] last -> [s EXCEPT !.p = fed]

\* audio_pipeline_relink and audio_pipeline_relink_more.  Elements that are linked
\* although the pipeline is not are those of a link or relink that failed.
Relink(c) ==
    LET end == FoldLeft(LAMBDA s, i : RelinkOne(s, c, i), [p |-> p, rb |-> None],
                        [i \in 1..Reach(c) |-> i])
        ok == Reach(c) = Len(c)
    IN /\ ~p.linked
       /\ p' = [end.p EXCEPT !.linked = ok]
       /\ chain' = IF ok THEN c ELSE << >>
       /\ astray' = (astray \/ p.linked_el # {})

-----------------------------------------------------------------------------
Next == \/ \E e \in Els : Register(e) \/ Unregister(e) \/ ResetKept(e)
        \/ \E c \in Chains : Link(c) \/ Relink(c)
        \/ Unlink
        \/ \E k \in p.linked_el \cup {None}, active \in SUBSET Writing : Breakup(k, active)

Spec == Init /\ [][Next]_vars
=============================================================================
