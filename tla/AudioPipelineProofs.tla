------------------------- MODULE AudioPipelineProofs -------------------------
(***************************************************************************)
(* Proofs about the pipeline: whatever elements, rings and chains there    *)
(* are, and in whatever order they are linked, broken up, relinked and     *)
(* unlinked, a chain is connected, and every ring that is written to is    *)
(* alive and known by its host (Fit).  As long as no element may have been *)
(* given a second ring (astray), one that was kept over a breakup gets its *)
(* ring back with the bytes in it (Good).                                  *)
(*                                                                         *)
(* The calls are loops over the list of elements or over a chain, which    *)
(* the model writes as folds.  A fold is taken apart here into its turns:  *)
(* a function gives the pipeline after each turn, and what a turn keeps    *)
(* holds after the last one, since there is no first turn that breaks it   *)
(* (Upward).  Each loop has an invariant of its own, which says what is    *)
(* true of the elements already passed.                                    *)
(***************************************************************************)
EXTENDS AudioPipelineProps, SequenceTheorems, FiniteSetTheorems, WellFoundedInduction, TLAPS

-----------------------------------------------------------------------------
(* Counting up.                                                            *)

\* A set of numbers has a least one.
LEMMA Least ==
  ASSUME NEW T \in SUBSET Nat, T # {}
  PROVE  \E x \in T : \A y \in T : x <= y
<1> DEFINE F == {0..n : n \in T}
<1>1. \A n \in T : 0..n \in FiniteSubsetsOf(Nat)
  BY FS_Interval DEF FiniteSubsetsOf
<1>2. F \subseteq FiniteSubsetsOf(Nat) /\ F # {}
  BY <1>1
<1> HIDE DEF F
<1>3. PICK f \in F : \A g \in F : <<g, f>> \notin StrictSubsetOrdering(Nat)
  BY <1>2, FS_StrictSubsetOrderingWellFounded, WFMin
<1>4. PICK x \in T : f = 0..x
  BY DEF F
<1>5. ASSUME NEW y \in T, y < x
      PROVE  FALSE
  <2>1. /\ 0..y \in SUBSET Nat /\ 0..x \in SUBSET Nat
        /\ 0..y \subseteq 0..x /\ x \in 0..x /\ x \notin 0..y
    BY <1>5
  <2>2. <<0..y, 0..x>> \in StrictSubsetOrdering(Nat)
    BY <2>1 DEF StrictSubsetOrdering
  <2>3. 0..y \in F
    BY DEF F
  <2> QED BY <1>3, <1>4, <2>2, <2>3
<1> QED BY <1>5

\* What holds of 0, and of each number up to n if it does of the one before, holds
\* of all of them.
LEMMA Upward ==
  ASSUME NEW n \in Nat, NEW T, 0 \in T, \A i \in 1..n : i - 1 \in T => i \in T
  PROVE  0..n \subseteq T
<1> DEFINE B == {i \in 0..n : i \notin T}
<1>1. SUFFICES ASSUME B # {} PROVE FALSE
  OBVIOUS
<1>2. PICK x \in B : \A y \in B : x <= y
  <2>1. B \in SUBSET Nat
    OBVIOUS
  <2> HIDE DEF B
  <2> QED BY <1>1, <2>1, Least
<1>3. x \in 1..n /\ x - 1 \in 0..n /\ ~(x <= x - 1)
  BY <1>2
<1>4. x - 1 \in T
  BY <1>2, <1>3
<1> QED BY <1>2, <1>3, <1>4

\* The greatest of some numbers up to n.
LEMMA Greatest ==
  ASSUME NEW n \in Nat, NEW s \in SUBSET (1..n), s # {}
  PROVE  Max(s) \in s /\ \A y \in s : y <= Max(s)
<1> DEFINE B == {m \in Nat : \A y \in s : y <= m}
<1>1. n \in B
  OBVIOUS
<1>2. PICK m \in B : \A k \in B : m <= k
  <2>1. B \in SUBSET Nat /\ B # {}
    BY <1>1
  <2> HIDE DEF B
  <2> QED BY <2>1, Least
<1>3. m \in Nat /\ \A y \in s : y <= m
  BY <1>2
<1>4. m \in s
  <2>1. SUFFICES ASSUME m \notin s PROVE FALSE
    OBVIOUS
  <2>2. PICK z \in s : TRUE
    OBVIOUS
  <2>3. m # 0
    BY <1>3, <2>2
  <2>4. m - 1 \in Nat /\ \A y \in s : y <= m - 1
    BY <1>3, <2>1, <2>3
  <2>5. m - 1 \in B
    BY <2>4
  <2> QED BY <1>2, <1>3, <2>5
<1> QED BY <1>3, <1>4 DEF Max

\* Of the numbers up to k it is k.
LEMMA GreatestUpTo ==
  ASSUME NEW n \in Nat, NEW k \in 1..n
  PROVE  /\ 1..k \in SUBSET (1..n) /\ 1..k # {}
         /\ Max(1..k) = k /\ (1..k) \ {Max(1..k)} = 1..(k - 1)
<1>1. 1..k \in SUBSET (1..n) /\ k \in 1..k
  OBVIOUS
<1>2. Max(1..k) \in 1..k /\ \A y \in 1..k : y <= Max(1..k)
  BY <1>1, Greatest
<1>3. Max(1..k) = k
  BY <1>1, <1>2
<1> QED BY <1>1, <1>3

-----------------------------------------------------------------------------
(* The fold of a list is a function on the sets of its places.  That there *)
(* is one: F gives the next value, from a place and the value before.      *)

Folds(h, n, b, F) ==
  h = [s \in SUBSET (1..n) |-> IF s = {} THEN b ELSE F[<<Max(s), h[s \ {Max(s)}]>>]]

LEMMA FoldExists ==
  ASSUME NEW n \in Nat, NEW X, NEW b \in X, NEW F \in [(1..n) \X X -> X]
  PROVE  \E h \in [SUBSET (1..n) -> X] : Folds(h, n, b, F)
<1> DEFINE T == {k \in 0..n : \E h \in [SUBSET (1..k) -> X] : Folds(h, k, b, F)}
<1>1. 0 \in T
  <2> DEFINE h == [s \in SUBSET (1..0) |-> b]
  <2>1. h \in [SUBSET (1..0) -> X]
    OBVIOUS
  <2>2. \A s \in SUBSET (1..0) : s = {}
    OBVIOUS
  <2>3. Folds(h, 0, b, F)
    BY <2>2 DEF Folds
  <2> QED BY <2>1, <2>3
<1>2. ASSUME NEW k \in 1..n, k - 1 \in T
      PROVE  k \in T
  <2>1. PICK f \in [SUBSET (1..(k - 1)) -> X] : Folds(f, k - 1, b, F)
    BY <1>2
  <2> DEFINE rest(s) == s \ {k}
             h == [s \in SUBSET (1..k) |-> IF k \in s THEN F[<<k, f[rest(s)]>>] ELSE f[s]]
  <2>2. \A s \in SUBSET (1..k) : /\ rest(s) \in SUBSET (1..(k - 1))
                                 /\ k \notin s => s \in SUBSET (1..(k - 1)) /\ rest(s) = s
                                 /\ k \in s => s # {} /\ Max(s) = k
    <3> TAKE s \in SUBSET (1..k)
    <3>1. rest(s) \in SUBSET (1..(k - 1))
      OBVIOUS
    <3>2. k \notin s => s \in SUBSET (1..(k - 1)) /\ rest(s) = s
      OBVIOUS
    <3>3. ASSUME k \in s PROVE s # {} /\ Max(s) = k
      <4>1. k \in Nat /\ s # {}
        BY <3>3
      <4>2. Max(s) \in s /\ \A y \in s : y <= Max(s)
        BY <4>1, Greatest
      <4>3. Max(s) \in 1..k /\ k <= Max(s)
        BY <3>3, <4>2
      <4> QED BY <4>1, <4>3
    <3> QED BY <3>1, <3>2, <3>3
  <2>3. h \in [SUBSET (1..k) -> X]
    <3>1. ASSUME NEW s \in SUBSET (1..k) PROVE h[s] \in X
      <4>1. f[rest(s)] \in X
        BY <2>2
      <4>2. <<k, f[rest(s)]>> \in (1..n) \X X
        BY <4>1
      <4>3. F[<<k, f[rest(s)]>>] \in X
        BY <4>2
      <4>4. k \notin s => f[s] \in X
        BY <2>2
      <4> QED BY <4>3, <4>4
    <3> QED BY <3>1
  <2>4. ASSUME NEW s \in SUBSET (1..k)
        PROVE  h[s] = IF s = {} THEN b ELSE F[<<Max(s), h[s \ {Max(s)}]>>]
    <3>1. CASE k \in s
      <4>1. Max(s) = k /\ s # {} /\ rest(s) \in SUBSET (1..k) /\ k \notin rest(s)
        BY <2>2, <3>1
      <4>2. h[rest(s)] = f[rest(s)]
        BY <4>1
      <4> QED BY <3>1, <4>1, <4>2
    <3>2. CASE k \notin s
      <4>1. s \in SUBSET (1..(k - 1)) /\ h[s] = f[s]
        BY <2>2, <3>2
      <4>2. h[s] = IF s = {} THEN b ELSE F[<<Max(s), f[s \ {Max(s)}]>>]
        BY <2>1, <4>1 DEF Folds
      <4>3. ASSUME s # {} PROVE h[s \ {Max(s)}] = f[s \ {Max(s)}]
        <5>1. s \ {Max(s)} \in SUBSET (1..k) /\ k \notin s \ {Max(s)}
          BY <3>2
        <5> QED BY <5>1
      <4> QED BY <4>2, <4>3
    <3> QED BY <3>1, <3>2
  <2> HIDE DEF h
  <2>5. Folds(h, k, b, F)
    BY <2>3, <2>4 DEF Folds
  <2>6. k \in 0..n
    OBVIOUS
  <2> QED BY <2>3, <2>5, <2>6
<1> HIDE DEF T
<1>3. 0..n \subseteq T
  BY <1>1, <1>2, Upward
<1>4. n \in T
  BY <1>3
<1> QED BY <1>4 DEF T
-----------------------------------------------------------------------------
(* Types                                                                   *)

Pipe == [order : Seq(Els), linked_el : SUBSET Els, kept_el : SUBSET Els,
         rings : Seq(Rings), linked_rb : SUBSET Rings, kept_rb : SUBSET Rings,
         host : [Rings -> Els \cup {None}],
         input : [Els -> Rings \cup {None}], output : [Els -> Rings \cup {None}],
         data : SUBSET Rings, short : BOOLEAN, linked : BOOLEAN]

LEMMA SpareIs ==
  ASSUME NEW q \in Pipe
  PROVE  \/ Spare(q) = None /\ Rings \subseteq Alive(q)
         \/ Spare(q) \in Rings \ Alive(q)
<1>1. CASE Rings \subseteq Alive(q)
  BY <1>1 DEF Spare
<1>2. CASE ~(Rings \subseteq Alive(q))
  <2>1. Rings \ Alive(q) \in SUBSET Nat /\ Rings \ Alive(q) # {}
    BY <1>2, RingsAssumption
  <2>2. \E r \in Rings \ Alive(q) : \A s \in Rings \ Alive(q) : r <= s
    BY <2>1, Least
  <2> QED BY <1>2, <2>2 DEF Spare
<1> QED BY <1>1, <1>2

\* Adding a ring adds it to those of the list, at its end.
LEMMA AddedIs ==
  ASSUME NEW q \in Pipe, NEW r \in Rings, NEW e \in Els
  PROVE  LET z == Added(q, r, e) IN
         /\ z \in Pipe
         /\ z = [Hosted(q, r, e) EXCEPT !.rings = Append(q.rings, r)]
         /\ z.rings = Append(q.rings, r) /\ Len(z.rings) = Len(q.rings) + 1
         /\ z.rings[Len(q.rings) + 1] = r
         /\ \A m \in 1..Len(q.rings) : z.rings[m] = q.rings[m]
         /\ Alive(z) = Alive(q) \cup {r}
<1> DEFINE z == Added(q, r, e)
           w == Append(q.rings, r)
<1>1. /\ w \in Seq(Rings) /\ Len(w) = Len(q.rings) + 1 /\ w[Len(q.rings) + 1] = r
      /\ \A m \in 1..Len(q.rings) : w[m] = q.rings[m]
      /\ Len(q.rings) \in Nat
  BY AppendProperties DEF Pipe
<1>2. z = [Hosted(q, r, e) EXCEPT !.rings = w]
  BY DEF Added, Hosted, Pipe
<1> HIDE DEF w
<1>3. z \in Pipe /\ z.rings = w
  <2>1. Hosted(q, r, e) \in Pipe
    BY DEF Hosted, Pipe
  <2> HIDE DEF z
  <2> QED BY <1>1, <1>2, <2>1 DEF Pipe
<1>4. DOMAIN w = 1..(Len(q.rings) + 1) /\ DOMAIN q.rings = 1..Len(q.rings)
  BY <1>1 DEF Pipe
<1>5. Alive(z) = Alive(q) \cup {r}
  <2>1. {w[m] : m \in 1..(Len(q.rings) + 1)} = {q.rings[m] : m \in 1..Len(q.rings)} \cup {r}
    <3>1. 1..(Len(q.rings) + 1) = 1..Len(q.rings) \cup {Len(q.rings) + 1}
      BY <1>1
    <3>2. {w[m] : m \in 1..Len(q.rings)} = {q.rings[m] : m \in 1..Len(q.rings)}
      BY <1>1
    <3> QED BY <1>1, <3>1, <3>2
  <2> QED BY <1>3, <1>4, <2>1 DEF Alive, ToSet
<1> HIDE DEF z
<1>6. w = Append(q.rings, r)
  BY DEF w
<1> QED BY <1>1, <1>2, <1>3, <1>5, <1>6 DEF z

LinkStates == [p : Pipe, failed : BOOLEAN]

\* What one turn of the loop of audio_pipeline_link does: first the element is
\* linked and given the ring of the one before, then it gets a ring, if it is not
\* the last and there is one.
Readied(q, c, i) ==
  [q EXCEPT !.linked_el = @ \cup {c[i]}, !.kept_el = @ \ {c[i]},
            !.input[c[i]] = IF i > 1 THEN q.output[c[i - 1]] ELSE @]
Given(q, r, e) == [Added(q, r, e) EXCEPT !.output[e] = r]

LEMMA LinkOneIs ==
  ASSUME NEW s, NEW c, NEW i \in 1..Len(c), Len(c) \in Nat
  PROVE  LET q == Readied(s.p, c, i)
             r == Spare(q) IN
         /\ s.failed => LinkOne(s, c, i) = s
         /\ ~s.failed /\ i = Len(c) => LinkOne(s, c, i) = [s EXCEPT !.p = q]
         /\ ~s.failed /\ i < Len(c) /\ r # None =>
              LinkOne(s, c, i) = [s EXCEPT !.p = Given(q, r, c[i])]
         /\ ~s.failed /\ i < Len(c) /\ r = None =>
              LinkOne(s, c, i) = [p |-> q, failed |-> TRUE]
<1> DEFINE q == Readied(s.p, c, i)
           r == Spare(q)
<1>1. i < Len(c) => i # Len(c)
  OBVIOUS
<1>2. ASSUME s.failed PROVE LinkOne(s, c, i) = s
  BY Zenon, <1>2 DEF LinkOne
<1>3. ASSUME ~s.failed, i = Len(c) PROVE LinkOne(s, c, i) = [s EXCEPT !.p = q]
  BY Zenon, <1>1, <1>3 DEF LinkOne, Readied
<1>4. ASSUME ~s.failed, i < Len(c), r # None
      PROVE  LinkOne(s, c, i) = [s EXCEPT !.p = Given(q, r, c[i])]
  BY Zenon, <1>1, <1>4 DEF LinkOne, Readied, Given
<1>5. ASSUME ~s.failed, i < Len(c), r = None
      PROVE  LinkOne(s, c, i) = [p |-> q, failed |-> TRUE]
  BY Zenon, <1>1, <1>5 DEF LinkOne, Readied
<1> QED BY <1>2, <1>3, <1>4, <1>5

LEMMA ReadiedType ==
  ASSUME NEW q \in Pipe, NEW c \in Seq(Els), NEW i \in 1..Len(c)
  PROVE  Readied(q, c, i) \in Pipe /\ c[i] \in Els /\ Len(c) \in Nat
<1>1. c[i] \in Els /\ (i > 1 => c[i - 1] \in Els) /\ Len(c) \in Nat
  <2>1. Len(c) \in Nat /\ \A k \in 1..Len(c) : c[k] \in Els
    BY ElementOfSeq, LenProperties
  <2>2. i > 1 => i - 1 \in 1..Len(c)
    BY <2>1
  <2> QED BY <2>1, <2>2
<1>2. (IF i > 1 THEN q.output[c[i - 1]] ELSE q.input[c[i]]) \in Rings \cup {None}
  BY <1>1 DEF Pipe
<1> QED BY <1>1, <1>2 DEF Readied, Pipe

LEMMA GivenType ==
  ASSUME NEW q \in Pipe, NEW r \in Rings, NEW e \in Els
  PROVE  Given(q, r, e) \in Pipe
<1>1. Added(q, r, e) \in Pipe
  BY AddedIs
<1> QED BY <1>1 DEF Given, Pipe

LEMMA LinkOneType ==
  ASSUME NEW s \in LinkStates, NEW c \in Seq(Els), NEW i \in 1..Len(c)
  PROVE  LinkOne(s, c, i) \in LinkStates
<1> DEFINE q == Readied(s.p, c, i)
           r == Spare(q)
<1>1. s.p \in Pipe
  BY DEF LinkStates
<1>2. q \in Pipe /\ c[i] \in Els /\ Len(c) \in Nat
  BY <1>1, ReadiedType
<1>3. r = None \/ r \in Rings
  BY <1>2, SpareIs
<1>4. i = Len(c) \/ i < Len(c)
  BY <1>2
<1>5. \/ LinkOne(s, c, i) \in {s, [s EXCEPT !.p = q], [p |-> q, failed |-> TRUE]}
      \/ r # None /\ LinkOne(s, c, i) = [s EXCEPT !.p = Given(q, r, c[i])]
  BY <1>2, <1>4, LinkOneIs
<1> HIDE DEF q, r
<1>6. r # None => Given(q, r, c[i]) \in Pipe
  BY <1>2, <1>3, GivenType
<1> DEFINE z == Given(q, r, c[i])
<1> HIDE DEF z
<1>7. \A x \in Pipe : [s EXCEPT !.p = x] \in LinkStates /\ [p |-> x, failed |-> TRUE] \in LinkStates
  BY DEF LinkStates
<1> QED BY <1>2, <1>5, <1>6, <1>7 DEF z

\* The loop of audio_pipeline_link, turn by turn.
LinkLoop(start, c, d) == FoldLeft(LAMBDA s, i : LinkOne(s, c, i), start, d)

LinkFolds(h, start, c, d) ==
  [s \in SUBSET DOMAIN d |-> IF s = {} THEN start ELSE LinkOne(h[s \ {Max(s)}], c, d[Max(s)])]

LEMMA LinkFold ==
  ASSUME NEW c, NEW start, NEW d, NEW h, h = LinkFolds(h, start, c, d)
  PROVE  \E g : g = LinkFolds(g, start, c, d) /\ LinkLoop(start, c, d) = g[DOMAIN d]
BY Zenon DEF LinkLoop, LinkFolds, FoldLeft, MapThenFoldSet

LEMMA LinkTurns ==
  ASSUME NEW q \in Pipe, NEW c \in Seq(Els), NEW n \in 0..Len(c)
  PROVE  \E f : /\ f[0] = [p |-> q, failed |-> FALSE]
                /\ \A k \in 1..n : f[k] = LinkOne(f[k - 1], c, k)
                /\ LinkLoop([p |-> q, failed |-> FALSE], c, [i \in 1..n |-> i]) = f[n]
<1> DEFINE start == [p |-> q, failed |-> FALSE]
           d == [i \in 1..n |-> i]
           F == [z \in (1..n) \X LinkStates |-> LinkOne(z[2], c, z[1])]
<1>1. Len(c) \in Nat /\ n \in Nat /\ DOMAIN d = 1..n /\ \A i \in 1..n : i \in 1..Len(c)
  BY LenProperties
<1>2. F \in [(1..n) \X LinkStates -> LinkStates]
  BY <1>1, LinkOneType
<1>3. start \in LinkStates
  BY DEF LinkStates
<1> HIDE DEF start
<1>4. PICK h \in [SUBSET (1..n) -> LinkStates] : Folds(h, n, start, F)
  <2> HIDE DEF F
  <2> QED BY <1>1, <1>2, <1>3, FoldExists
<1>5. \A s \in SUBSET (1..n) : s # {} =>
        /\ Max(s) \in 1..n /\ d[Max(s)] = Max(s) /\ s \ {Max(s)} \in SUBSET (1..n)
  BY <1>1, Greatest
<1>6. \A s \in SUBSET (1..n) : h[s] = LinkFolds(h, start, c, d)[s]
  <2> TAKE s \in SUBSET (1..n)
  <2>1. CASE s = {}
    BY <1>1, <1>4, <2>1 DEF Folds, LinkFolds
  <2>2. CASE s # {}
    <3>1. <<Max(s), h[s \ {Max(s)}]>> \in (1..n) \X LinkStates
      BY <1>5, <2>2
    <3>2. h[s] = F[<<Max(s), h[s \ {Max(s)}]>>]
      BY <1>4, <2>2 DEF Folds
    <3>3. h[s] = LinkOne(h[s \ {Max(s)}], c, Max(s))
      BY <3>1, <3>2
    <3> QED BY <1>1, <1>5, <2>2, <3>3 DEF LinkFolds
  <2> QED BY <2>1, <2>2
<1>7. h = LinkFolds(h, start, c, d)
  BY <1>1, <1>6 DEF LinkFolds
<1> HIDE DEF d, F
<1>8. PICK g : g = LinkFolds(g, start, c, d) /\ LinkLoop(start, c, d) = g[DOMAIN d]
  BY <1>7, LinkFold
<1>9. \A s \in SUBSET (1..n) :
        g[s] = IF s = {} THEN start ELSE LinkOne(g[s \ {Max(s)}], c, d[Max(s)])
  <2>1. \A s \in SUBSET DOMAIN d : LinkFolds(g, start, c, d)[s] =
          IF s = {} THEN start ELSE LinkOne(g[s \ {Max(s)}], c, d[Max(s)])
    BY DEF LinkFolds
  <2> QED BY <1>1, <1>8, <2>1
<1> DEFINE f == [k \in 0..n |-> g[1..k]]
<1>10. f[0] = start
  <2>1. 1..0 = {} /\ 0 \in 0..n /\ {} \in SUBSET (1..n)
    BY <1>1
  <2> QED BY <1>9, <2>1
<1>11. ASSUME NEW k \in 1..n PROVE f[k] = LinkOne(f[k - 1], c, k)
  <2>1. /\ 1..k \in SUBSET (1..n) /\ 1..k # {}
        /\ Max(1..k) = k /\ (1..k) \ {Max(1..k)} = 1..(k - 1) /\ d[k] = k
    BY <1>1, <1>5, GreatestUpTo DEF d
  <2>2. g[1..k] = LinkOne(g[1..(k - 1)], c, k)
    BY <1>9, <2>1
  <2>3. k \in 0..n /\ k - 1 \in 0..n
    BY <1>1
  <2> QED BY <2>2, <2>3
<1>12. LinkLoop(start, c, d) = f[n]
  <2>1. f[n] = g[1..n]
    BY <1>1
  <2> QED BY <1>1, <1>8, <2>1
<1> HIDE DEF f
<1> QED BY <1>10, <1>11, <1>12 DEF start, d
-----------------------------------------------------------------------------
(* The invariant of a pipeline                                             *)

Names(q) == q.linked_rb \cup q.kept_rb

\* Whatever was called before: a ring that an element writes is alive, has that
\* element for its host, and is linked with it or kept.
RingsInv(q) == Names(q) \cup q.data \subseteq Alive(q)

HostedInv(q) ==
  \A e \in Els : q.output[e] # None =>
    /\ q.output[e] \in Alive(q) /\ q.host[q.output[e]] = e
    /\ q.output[e] \in q.kept_rb \/ (e \in q.linked_el /\ q.output[e] \in q.linked_rb)

OrderInv(q) ==
  IF q.rings = << >> THEN q.linked_el = {} \/ Rings = {} ELSE q.linked_el \subseteq ToSet(q.order)

Fit(q) == q \in Pipe /\ RingsInv(q) /\ HostedInv(q) /\ OrderInv(q)

\* While no element has been given a second ring, more is true.
\* The ring an element writes is the first it hosts.
FirstOf(q, e, r) ==
  \E m \in 1..Len(q.rings) : q.rings[m] = r /\ \A l \in 1..(m - 1) : q.host[q.rings[l]] # e

WritersInv(q) ==
  \A e \in Els : q.output[e] # None =>
    q.output[e] \in Alive(q) /\ q.host[q.output[e]] = e /\ FirstOf(q, e, q.output[e])

KeptInv(q) ==
  /\ q.linked_el \cap q.kept_el = {}
  /\ \A e \in q.kept_el : q.output[e] \in q.kept_rb
  /\ \A r \in q.kept_rb : q.host[r] \in q.kept_el /\ q.output[q.host[r]] = r

HeldInv(q) ==
  \A e \in Els : q.output[e] # None =>
    (e \in q.linked_el /\ q.output[e] \in q.linked_rb) \/ e \in q.kept_el

HostsInv(q) == \A r \in q.linked_rb : r \in q.kept_rb \/ q.host[r] \in q.linked_el

Good(q) ==
  q \in Pipe /\ RingsInv(q) /\ WritersInv(q) /\ KeptInv(q) /\ HeldInv(q) /\ HostsInv(q) /\ OrderInv(q)

-----------------------------------------------------------------------------
(* One turn of a loop that builds a chain: z is the pipeline after it, e   *)
(* the element linked, and w the ring it takes, None if it takes none.     *)

Turn(q, z, e, w) ==
  /\ z \in Pipe /\ w \in Rings \cup {None}
  /\ z.order = q.order /\ z.linked = q.linked
  /\ z.linked_el = q.linked_el \cup {e} /\ z.kept_el = q.kept_el \ {e}
  /\ Alive(z) = Alive(q) \cup ({w} \ {None})
  /\ Len(q.rings) <= Len(z.rings) /\ \A m \in 1..Len(q.rings) : z.rings[m] = q.rings[m]
  /\ z.linked_rb = q.linked_rb \cup ({w} \ {None}) /\ z.kept_rb = q.kept_rb \ {w}
  /\ \A r \in Rings \ {w} : z.host[r] = q.host[r] \/ (z.host[r] = None /\ r \notin Names(q))
  /\ w # None => z.host[w] = e /\ FirstOf(z, e, w)
  /\ IF e \in q.kept_el THEN w = q.output[e] /\ z.output[e] = w ELSE w \notin Names(q)
  /\ z.output[e] \in {w, None}
  /\ \A x \in Els \ {e} : z.output[x] = q.output[x] /\ z.input[x] = q.input[x]
  /\ z.data \subseteq q.data /\ q.data \ z.data \subseteq {w}
  /\ IF e \in q.kept_el THEN z.data = q.data ELSE w \notin z.data

LEMMA PipeRings ==
  ASSUME NEW q \in Pipe
  PROVE  /\ Len(q.rings) \in Nat /\ DOMAIN q.rings = 1..Len(q.rings)
         /\ \A m \in 1..Len(q.rings) : q.rings[m] \in Rings /\ q.rings[m] \in Alive(q)
         /\ \A r \in Alive(q) : \E m \in 1..Len(q.rings) : q.rings[m] = r
         /\ Alive(q) \subseteq Rings /\ None \notin Rings /\ None \notin Els
         /\ q.rings = << >> <=> Len(q.rings) = 0
         /\ q.rings = << >> => Alive(q) = {}
<1>1. q.rings \in Seq(Rings)
  BY DEF Pipe
<1>2. /\ Len(q.rings) \in Nat /\ DOMAIN q.rings = 1..Len(q.rings)
      /\ \A m \in 1..Len(q.rings) : q.rings[m] \in Rings
      /\ q.rings = << >> <=> Len(q.rings) = 0
  BY <1>1, LenProperties, ElementOfSeq, EmptySeq
<1> QED BY <1>2, RingsAssumption, ElsAssumption DEF Alive, ToSet, None

\* Less is known of a turn if elements may host second rings: the ring taken is
\* not in use, or e hosts it already.
OthersSame(q, z, e) ==
  \A x \in Els \ {e} : z.output[x] = q.output[x] /\ z.input[x] = q.input[x]

Pass(q, z, e, w) ==
  /\ z \in Pipe /\ w \in Rings \cup {None} /\ z.order = q.order
  /\ z.linked_el = q.linked_el \cup {e}
  /\ Alive(z) = Alive(q) \cup ({w} \ {None})
  /\ z.linked_rb = q.linked_rb \cup ({w} \ {None}) /\ z.kept_rb = q.kept_rb \ {w}
  /\ \A r \in Rings \ {w} : z.host[r] = q.host[r] \/ (z.host[r] = None /\ r \notin Names(q))
  /\ w # None => z.host[w] = e /\ (w \notin Names(q) \/ q.host[w] = e)
  /\ z.output[e] = q.output[e] \/ (w # None /\ z.output[e] = w)
  /\ OthersSame(q, z, e)
  /\ z.data \subseteq q.data

LEMMA PassIsFit ==
  ASSUME NEW q, Fit(q), NEW z, NEW e \in Els, NEW w, Pass(q, z, e, w),
         e \in ToSet(q.order), z.rings = << >> => Rings = {}
  PROVE  Fit(z)
<1>1. /\ q \in Pipe /\ z \in Pipe /\ None \notin Rings /\ Alive(q) \subseteq Rings
      /\ q.rings = << >> => Alive(q) = {}
  BY PipeRings DEF Fit, Pass
<1>2. RingsInv(z)
  BY DEF Pass, Fit, RingsInv, Names
<1>3. HostedInv(z)
  <2>1. SUFFICES ASSUME NEW x \in Els, z.output[x] # None
                 PROVE  /\ z.output[x] \in Alive(z) /\ z.host[z.output[x]] = x
                        /\ \/ z.output[x] \in z.kept_rb
                           \/ x \in z.linked_el /\ z.output[x] \in z.linked_rb
    BY DEF HostedInv
  <2>2. CASE x = e /\ z.output[x] = w
    BY <2>1, <2>2 DEF Pass
  <2>3. CASE ~(x = e /\ z.output[x] = w)
    <3> DEFINE y == q.output[x]
    <3>1. z.output[x] = y /\ y # None
      BY <2>1, <2>3 DEF Pass, OthersSame
    <3>2. /\ y \in Alive(q) /\ q.host[y] = x
          /\ y \in q.kept_rb \/ (x \in q.linked_el /\ y \in q.linked_rb)
      BY <3>1 DEF Fit, HostedInv
    <3> HIDE DEF y
    <3>3. y # w
      <4>1. x = e => y # w
        BY <2>3, <3>1
      <4>2. x # e => y # w
        BY <3>1, <3>2 DEF Pass, Names
      <4> QED BY <4>1, <4>2
    <3>4. z.host[y] = q.host[y]
      BY <1>1, <3>2, <3>3 DEF Pass, Names
    <3> QED BY <3>1, <3>2, <3>3, <3>4 DEF Pass
  <2> QED BY <2>2, <2>3
<1>4. OrderInv(z)
  <2>1. CASE z.rings = << >>
    BY <2>1 DEF OrderInv
  <2>2. CASE z.rings # << >>
    <3>1. Rings # {}
      BY <1>1, <2>2, PipeRings
    <3>2. q.linked_el \subseteq ToSet(q.order)
      BY <3>1 DEF Fit, OrderInv
    <3> QED BY <2>2, <3>2 DEF OrderInv, Pass
  <2> QED BY <2>1, <2>2
<1> QED BY <1>1, <1>2, <1>3, <1>4 DEF Fit

LEMMA TurnKeepsWriters ==
  ASSUME NEW q, Good(q), NEW z, NEW e \in Els, NEW w, Turn(q, z, e, w)
  PROVE  WritersInv(z)
<1>1. q \in Pipe /\ z \in Pipe
  BY DEF Good, Turn
<1>2. SUFFICES ASSUME NEW x \in Els, z.output[x] # None
               PROVE  /\ z.output[x] \in Alive(z) /\ z.host[z.output[x]] = x
                      /\ FirstOf(z, x, z.output[x])
  BY DEF WritersInv
<1>3. CASE x = e
  BY <1>2, <1>3 DEF Turn
<1>4. CASE x # e
  <2> DEFINE y == z.output[x]
  <2>1. y = q.output[x] /\ y \in Alive(q) /\ q.host[y] = x /\ FirstOf(q, x, y) /\ y # None
    BY <1>2, <1>4 DEF Turn, Good, WritersInv
  <2>2. y \in Names(q) /\ y \in Rings
    BY <1>1, <2>1, PipeRings DEF Good, HeldInv, KeptInv, Names
  <2> HIDE DEF y
  <2>3. y # w
    <3>1. CASE e \in q.kept_el
      <4>1. w = q.output[e] /\ w \in q.kept_rb
        BY <3>1 DEF Turn, Good, KeptInv
      <4>2. w \in Rings /\ w # None
        <5>1. q.kept_rb \subseteq Rings
          BY <1>1 DEF Pipe
        <5> QED BY <1>1, <4>1, <5>1, PipeRings
      <4>3. q.host[w] = e
        BY <4>1, <4>2 DEF Good, WritersInv
      <4> QED BY <1>4, <2>1, <4>3
    <3>2. CASE e \notin q.kept_el
      BY <2>2, <3>2 DEF Turn
    <3> QED BY <3>1, <3>2
  <2>4. z.host[y] = x
    BY <2>1, <2>2, <2>3 DEF Turn
  <2>5. FirstOf(z, x, y)
    <3>1. PICK m \in 1..Len(q.rings) :
            q.rings[m] = y /\ \A l \in 1..(m - 1) : q.host[q.rings[l]] # x
      BY <2>1 DEF FirstOf
    <3>2. m \in 1..Len(z.rings) /\ z.rings[m] = y
      BY <1>1, <3>1, PipeRings DEF Turn
    <3>3. ASSUME NEW l \in 1..(m - 1) PROVE z.host[z.rings[l]] # x
      <4>1. l \in 1..Len(q.rings)
        BY <1>1, PipeRings
      <4>2. z.rings[l] = q.rings[l] /\ q.rings[l] \in Rings
        BY <1>1, <4>1, PipeRings DEF Turn
      <4>3. q.host[q.rings[l]] # x
        BY <3>1
      <4>4. CASE q.rings[l] = w
        <5>1. w # None /\ z.host[w] = e
          BY <1>1, <4>2, <4>4, PipeRings DEF Turn
        <5> QED BY <1>4, <4>2, <4>4, <5>1
      <4>5. CASE q.rings[l] # w
        <5>1. z.host[q.rings[l]] = q.host[q.rings[l]] \/ z.host[q.rings[l]] = None
          BY <4>2, <4>5 DEF Turn
        <5> QED BY <1>1, <4>2, <4>3, <5>1, PipeRings
      <4> QED BY <4>4, <4>5
    <3> QED BY <3>2, <3>3 DEF FirstOf
  <2>6. y \in Alive(z)
    BY <2>1 DEF Turn
  <2> QED BY <2>4, <2>5, <2>6 DEF y
<1> QED BY <1>3, <1>4

LEMMA TurnIsGood ==
  ASSUME NEW q, Good(q), NEW z, NEW e \in Els, NEW w, Turn(q, z, e, w),
         e \in ToSet(q.order), z.rings = << >> => Rings = {}
  PROVE  Good(z)
<1>1. q \in Pipe /\ z \in Pipe
  BY DEF Good, Turn
<1>2. RingsInv(z)
  BY DEF Turn, Good, RingsInv, Names
<1>3. WritersInv(z)
  BY TurnKeepsWriters
<1>4. KeptInv(z)
  <2>1. z.linked_el \cap z.kept_el = {}
    BY DEF Turn, Good, KeptInv
  <2>2. ASSUME NEW x \in z.kept_el PROVE z.output[x] \in z.kept_rb
    <3>1. x \in q.kept_el /\ x # e /\ x \in Els /\ z.output[x] = q.output[x]
      BY <1>1, <2>2 DEF Turn, Pipe
    <3>2. q.output[x] \in q.kept_rb /\ q.host[q.output[x]] = x
      <4>1. q.output[x] \in q.kept_rb
        BY <3>1 DEF Good, KeptInv
      <4>2. q.output[x] # None
        BY <1>1, <4>1, RingsAssumption DEF Pipe, None
      <4> QED BY <3>1, <4>1, <4>2 DEF Good, WritersInv
    <3>3. q.output[x] # w
      <4>1. e \in q.kept_el => q.host[q.output[e]] = e
        <5>1. SUFFICES ASSUME e \in q.kept_el PROVE q.host[q.output[e]] = e
          OBVIOUS
        <5>2. q.output[e] \in q.kept_rb
          BY <5>1 DEF Good, KeptInv
        <5>3. q.output[e] # None
          BY <1>1, <5>2, RingsAssumption DEF Pipe, None
        <5> QED BY <5>3 DEF Good, WritersInv
      <4> QED BY <3>1, <3>2, <4>1 DEF Turn, Names
    <3> QED BY <3>1, <3>2, <3>3 DEF Turn
  <2>3. ASSUME NEW r \in z.kept_rb PROVE z.host[r] \in z.kept_el /\ z.output[z.host[r]] = r
    <3>1. r \in q.kept_rb /\ r # w /\ r \in Rings
      BY <1>1, <2>3 DEF Turn, Pipe
    <3>2. q.host[r] \in q.kept_el /\ q.output[q.host[r]] = r
      BY <3>1 DEF Good, KeptInv
    <3>3. z.host[r] = q.host[r]
      BY <3>1 DEF Turn, Names
    <3>4. q.host[r] # e /\ q.host[r] \in Els
      BY <1>1, <3>1, <3>2 DEF Turn, Pipe
    <3> QED BY <3>2, <3>3, <3>4 DEF Turn
  <2> QED BY <2>1, <2>2, <2>3 DEF KeptInv
<1>5. HeldInv(z)
  <2>1. ASSUME NEW x \in Els, z.output[x] # None
        PROVE  (x \in z.linked_el /\ z.output[x] \in z.linked_rb) \/ x \in z.kept_el
    <3>1. CASE x = e
      BY <2>1, <3>1 DEF Turn
    <3>2. CASE x # e
      BY <2>1, <3>2 DEF Turn, Good, HeldInv
    <3> QED BY <3>1, <3>2
  <2> QED BY <2>1 DEF HeldInv
<1>6. HostsInv(z)
  <2>1. ASSUME NEW r \in z.linked_rb PROVE r \in z.kept_rb \/ z.host[r] \in z.linked_el
    <3>1. CASE r = w
      BY <1>1, <2>1, <3>1, RingsAssumption DEF Turn, Pipe, None
    <3>2. CASE r # w
      <4>1. r \in q.linked_rb /\ r \in Rings
        BY <1>1, <2>1, <3>2 DEF Turn, Pipe
      <4>2. z.host[r] = q.host[r]
        BY <3>2, <4>1 DEF Turn, Names
      <4>3. r \in q.kept_rb \/ q.host[r] \in q.linked_el
        BY <4>1 DEF Good, HostsInv
      <4> QED BY <3>2, <4>2, <4>3 DEF Turn
    <3> QED BY <3>1, <3>2
  <2> QED BY <2>1 DEF HostsInv
<1>7. OrderInv(z)
  <2>1. CASE z.rings = << >>
    BY <2>1 DEF OrderInv
  <2>2. CASE z.rings # << >>
    <3>1. Rings # {}
      BY <1>1, <2>2, PipeRings
    <3>2. q.linked_el \subseteq ToSet(q.order)
      BY <3>1 DEF Good, OrderInv
    <3> QED BY <2>2, <3>2 DEF OrderInv, Turn
  <2> QED BY <2>1, <2>2
<1> QED BY <1>1, <1>2, <1>3, <1>4, <1>5, <1>6, <1>7 DEF Good
-----------------------------------------------------------------------------
(* audio_pipeline_link                                                     *)

\* After unlink, and without rings, no element has a ring and none is kept.
Bare(q) ==
  /\ q \in Pipe /\ q.rings = << >> /\ q.linked_rb = {} /\ q.kept_rb = {} /\ q.data = {}
  /\ q.kept_el = {} /\ \A e \in Els : q.output[e] = None
  /\ q.linked_el = {} \/ Rings = {}

LEMMA NoneLeftIsBare ==
  ASSUME NEW q, Fit(q), ~LeftOver(q)
  PROVE  Bare(q)
<1>1. q \in Pipe /\ q.rings = << >> /\ Alive(q) = {} /\ q.kept_el = {}
  BY PipeRings DEF Fit, LeftOver
<1>2. q.linked_rb = {} /\ q.kept_rb = {} /\ q.data = {}
  BY <1>1 DEF Fit, RingsInv, Names
<1>3. \A e \in Els : q.output[e] = None
  BY <1>1 DEF Fit, HostedInv
<1> QED BY <1>1, <1>2, <1>3 DEF Bare, Fit, OrderInv

LEMMA GoodWithoutRingsIsBare ==
  ASSUME NEW q, Good(q), q.rings = << >>
  PROVE  Bare(q)
<1>1. q \in Pipe /\ Alive(q) = {}
  BY PipeRings DEF Good
<1>2. q.linked_rb = {} /\ q.kept_rb = {} /\ q.data = {}
  BY <1>1 DEF Good, RingsInv, Names
<1>3. q.kept_el = {}
  BY <1>2 DEF Good, KeptInv
<1>4. \A e \in Els : q.output[e] = None
  BY <1>1 DEF Good, WritersInv
<1> QED BY <1>1, <1>2, <1>3, <1>4 DEF Bare, Good, OrderInv

LEMMA BareIsGood ==
  ASSUME NEW q, Bare(q)
  PROVE  Good(q) /\ Fit(q)
BY DEF Bare, Good, Fit, RingsInv, HostedInv, Names, WritersInv, KeptInv, HeldInv, HostsInv, OrderInv

\* What audio_pipeline_unlink clears.
UnlinkedFields(q) ==
  /\ q.linked => Unlinked(q).linked_el = {} /\ Unlinked(q).kept_el = q.kept_el \ q.linked_el
  /\ q.linked => Unlinked(q).rings = << >> /\ Unlinked(q).linked_rb = {}
  /\ q.linked => Unlinked(q).kept_rb = {} /\ Unlinked(q).data = {} /\ ~Unlinked(q).linked
  /\ ~q.linked => Unlinked(q) = q
  /\ Unlinked(q) \in Pipe /\ Unlinked(q).order = q.order
  /\ q.linked => \A e \in Els : 
       Unlinked(q).output[e] = IF e \in q.linked_el \cup {q.host[r] : r \in Alive(q)}
                               THEN None ELSE q.output[e]

LEMMA UnlinkedIs == ASSUME NEW q \in Pipe PROVE UnlinkedFields(q)
<1> DEFINE freed == q.linked_el \cup {q.host[r] : r \in Alive(q)}
           out == [e \in Els |-> IF e \in freed THEN None ELSE q.output[e]]
           in == [e \in Els |-> IF e \in freed THEN None ELSE q.input[e]]
           no == [r \in Rings |-> None]
<1>1. CASE ~q.linked
  BY <1>1 DEF UnlinkedFields, Unlinked
<1>2. CASE q.linked
  <2>1. Unlinked(q) = [q EXCEPT !.linked_el = {}, !.kept_el = @ \ q.linked_el,
                 !.input = in, !.output = out,
                 !.rings = << >>, !.linked_rb = {}, !.kept_rb = {},
                 !.host = no, !.data = {}, !.short = FALSE, !.linked = FALSE]
    BY <1>2 DEF Unlinked
  <2>2. /\ out \in [Els -> Rings \cup {None}] /\ in \in [Els -> Rings \cup {None}]
        /\ no \in [Rings -> Els \cup {None}]
        /\ \A e \in Els : out[e] = IF e \in freed THEN None ELSE q.output[e]
    BY DEF Pipe
  <2> HIDE DEF out, in, no
  <2>3. << >> \in Seq(Rings)
    OBVIOUS
  <2>4. Unlinked(q) \in Pipe
    <3> DEFINE kept == q.kept_el \ q.linked_el
    <3>1. kept \in SUBSET Els /\ {} \in SUBSET Rings /\ {} \in SUBSET Els
      BY DEF Pipe
    <3> HIDE DEF kept, freed
    <3>2. Unlinked(q) = [order |-> q.order, linked_el |-> {}, kept_el |-> kept,
                         rings |-> << >>, linked_rb |-> {}, kept_rb |-> {},
                         host |-> no, input |-> in, output |-> out,
                         data |-> {}, short |-> FALSE, linked |-> FALSE]
      BY <2>1 DEF kept, Pipe
    <3>3. q.order \in Seq(Els)
      BY DEF Pipe
    <3> QED BY <2>2, <2>3, <3>1, <3>2, <3>3 DEF Pipe
  <2>5. /\ Unlinked(q).order = q.order /\ Unlinked(q).output = out /\ Unlinked(q).linked_el = {}
        /\ Unlinked(q).kept_el = q.kept_el \ q.linked_el
        /\ Unlinked(q).rings = << >> /\ Unlinked(q).linked_rb = {}
        /\ Unlinked(q).kept_rb = {} /\ Unlinked(q).data = {} /\ ~Unlinked(q).linked
    BY <2>1 DEF Pipe
  <2>6. \A e \in Els : Unlinked(q).output[e] = IF e \in freed THEN None ELSE q.output[e]
    BY <2>2, <2>5
  <2> QED BY <1>2, <2>4, <2>5, <2>6 DEF UnlinkedFields
<1> QED BY <1>1, <1>2

LEMMA UnlinkedIsFit ==
  ASSUME NEW q, Fit(q)
  PROVE  Fit(Unlinked(q)) /\ (~LeftOver(Unlinked(q)) => Bare(Unlinked(q)))
<1>1. UnlinkedFields(q)
  BY UnlinkedIs DEF Fit
<1>2. Fit(Unlinked(q))
  <2>1. CASE ~q.linked
    BY <1>1, <2>1 DEF UnlinkedFields
  <2>2. CASE q.linked
    <3>1. ASSUME NEW e \in Els PROVE Unlinked(q).output[e] = None
      <4>1. q.output[e] # None => e \in {q.host[r] : r \in Alive(q)}
        BY DEF Fit, HostedInv
      <4> QED BY <1>1, <2>2, <4>1 DEF UnlinkedFields
    <3> QED BY <1>1, <2>2, <3>1 DEF UnlinkedFields, Fit, RingsInv, Names, HostedInv, OrderInv
  <2> QED BY <2>1, <2>2
<1> QED BY <1>2, NoneLeftIsBare

\* A loop over a chain stops before an element that is not registered.
LEMMA ReachIs ==
  ASSUME NEW c \in Seq(Els)
  PROVE  /\ Reach(c) \in 0..Len(c) /\ Len(c) \in Nat
         /\ \A i \in 1..Reach(c) : c[i] \in Registered
<1>1. Len(c) \in Nat /\ DOMAIN c = 1..Len(c)
  BY LenProperties
<1>2. CASE ToSet(c) \subseteq Registered
  BY <1>1, <1>2 DEF Reach, ToSet
<1>3. CASE ~(ToSet(c) \subseteq Registered)
  <2> DEFINE I == {i \in 1..Len(c) : c[i] \notin Registered}
  <2>1. I \in SUBSET Nat /\ I # {}
    BY <1>1, <1>3 DEF ToSet
  <2>2. SelectInSeq(c, LAMBDA e : e \notin Registered) = IF I # {} THEN Min(I) ELSE 0
    BY Zenon DEF SelectInSeq
  <2> HIDE DEF I
  <2>3. Min(I) \in I /\ \A y \in I : Min(I) <= y
    BY <2>1, Least DEF Min
  <2>4. Reach(c) = Min(I) - 1
    BY <1>3, <2>1, <2>2 DEF Reach
  <2>5. Min(I) \in 1..Len(c)
    BY <2>3 DEF I
  <2>6. ASSUME NEW i \in 1..(Min(I) - 1) PROVE c[i] \in Registered
    <3>1. i \in 1..Len(c) /\ ~(Min(I) <= i)
      BY <1>1, <2>5
    <3>2. i \notin I
      BY <2>3, <3>1
    <3> QED BY <3>1, <3>2 DEF I
  <2> QED BY <1>1, <2>4, <2>5, <2>6
<1> QED BY <1>2, <1>3

\* The first k elements of a chain: all but the last write a ring, and each but
\* the first reads the one before it writes.
Ties(q, c, k) ==
  \A j \in 1..k : /\ j < Len(c) => q.output[c[j]] # None
                  /\ j > 1 => q.input[c[j]] = q.output[c[j - 1]]

LEMMA TurnTies ==
  ASSUME NEW q, NEW z, NEW c \in Chains, NEW i \in 1..Len(c),
         OthersSame(q, z, c[i]), Ties(q, c, i - 1),
         i < Len(c) => z.output[c[i]] # None,
         i > 1 => z.input[c[i]] = q.output[c[i - 1]]
  PROVE  Ties(z, c, i)
<1>1. /\ c \in Seq(Els) /\ Len(c) \in Nat /\ \A k \in 1..Len(c) : c[k] \in Els
      /\ \A j, k \in 1..Len(c) : c[j] = c[k] => j = k
  <2>1. c \in Seq(Els) /\ IsInjective(c)
    BY ChainsAssumption
  <2>2. Len(c) \in Nat /\ DOMAIN c = 1..Len(c) /\ \A k \in 1..Len(c) : c[k] \in Els
    BY <2>1, LenProperties, ElementOfSeq
  <2> QED BY <2>1, <2>2 DEF IsInjective
<1>2. SUFFICES ASSUME NEW j \in 1..i
               PROVE  /\ j < Len(c) => z.output[c[j]] # None
                      /\ j > 1 => z.input[c[j]] = z.output[c[j - 1]]
  BY DEF Ties
<1>3. j \in 1..Len(c) /\ (j > 1 => j - 1 \in 1..Len(c) /\ j - 1 # i)
  BY <1>1
<1>4. j > 1 => z.output[c[j - 1]] = q.output[c[j - 1]]
  BY <1>1, <1>3 DEF OthersSame
<1>5. CASE j = i
  BY <1>4, <1>5
<1>6. CASE j # i
  <2>1. j \in 1..(i - 1)
    BY <1>1, <1>6
  <2>2. z.output[c[j]] = q.output[c[j]] /\ z.input[c[j]] = q.input[c[j]]
    BY <1>1, <1>3, <1>6 DEF OthersSame
  <2> QED BY <1>4, <2>1, <2>2 DEF Ties
<1> QED BY <1>5, <1>6

ReadiedFields(q, c, i, z) ==
  /\ z \in Pipe /\ c[i] \in Els /\ Alive(z) = Alive(q)
  /\ z.order = q.order /\ z.rings = q.rings /\ z.linked_rb = q.linked_rb
  /\ z.kept_rb = q.kept_rb /\ z.host = q.host /\ z.output = q.output
  /\ z.data = q.data /\ z.linked = q.linked
  /\ z.linked_el = q.linked_el \cup {c[i]} /\ z.kept_el = q.kept_el \ {c[i]}
  /\ \A x \in Els \ {c[i]} : z.input[x] = q.input[x]
  /\ i > 1 => z.input[c[i]] = q.output[c[i - 1]]

LEMMA ReadiedIs ==
  ASSUME NEW q \in Pipe, NEW c \in Seq(Els), NEW i \in 1..Len(c)
  PROVE  ReadiedFields(q, c, i, Readied(q, c, i))
<1>1. Readied(q, c, i) \in Pipe /\ c[i] \in Els
  BY ReadiedType
<1>2. Readied(q, c, i).rings = q.rings
  BY DEF Readied, Pipe
<1> QED BY <1>1, <1>2 DEF ReadiedFields, Readied, Pipe, Alive

GivenFields(q, z, r, e) ==
  /\ z \in Pipe
  /\ z.order = q.order /\ z.linked_el = q.linked_el /\ z.kept_el = q.kept_el
  /\ z.linked_rb = q.linked_rb \cup {r} /\ z.kept_rb = q.kept_rb \ {r}
  /\ z.host[r] = e /\ \A x \in Rings \ {r} : z.host[x] = q.host[x]
  /\ z.output[e] = r /\ \A x \in Els \ {e} : z.output[x] = q.output[x]
  /\ z.input = q.input /\ z.data = q.data /\ z.linked = q.linked
  /\ Len(z.rings) = Len(q.rings) + 1 /\ z.rings[Len(q.rings) + 1] = r
  /\ \A m \in 1..Len(q.rings) : z.rings[m] = q.rings[m]
  /\ Alive(z) = Alive(q) \cup {r}

LEMMA GivenIs ==
  ASSUME NEW q \in Pipe, NEW r \in Rings, NEW e \in Els
  PROVE  GivenFields(q, Given(q, r, e), r, e)
<1> DEFINE a == Added(q, r, e)
           h == Hosted(q, r, e)
           z == Given(q, r, e)
<1>1. /\ a \in Pipe /\ a = [h EXCEPT !.rings = Append(q.rings, r)]
      /\ Len(a.rings) = Len(q.rings) + 1 /\ a.rings[Len(q.rings) + 1] = r
      /\ \A m \in 1..Len(q.rings) : a.rings[m] = q.rings[m]
      /\ Alive(a) = Alive(q) \cup {r}
  BY AddedIs
<1>2. /\ h \in Pipe /\ h.order = q.order /\ h.linked_el = q.linked_el /\ h.kept_el = q.kept_el
      /\ h.linked_rb = q.linked_rb \cup {r} /\ h.kept_rb = q.kept_rb \ {r}
      /\ h.host[r] = e /\ \A x \in Rings \ {r} : h.host[x] = q.host[x]
      /\ h.output = q.output /\ h.input = q.input /\ h.data = q.data /\ h.linked = q.linked
  BY DEF Hosted, Pipe
<1> HIDE DEF h
<1>3. /\ a.order = h.order /\ a.linked_el = h.linked_el /\ a.kept_el = h.kept_el
      /\ a.linked_rb = h.linked_rb /\ a.kept_rb = h.kept_rb /\ a.host = h.host
      /\ a.output = h.output /\ a.input = h.input /\ a.data = h.data /\ a.linked = h.linked
  BY <1>1, <1>2 DEF Pipe
<1>4. z = [a EXCEPT !.output[e] = r]
  BY DEF Given
<1>5. z \in Pipe /\ a \in Pipe
  BY <1>1, GivenType
<1> HIDE DEF a, z
<1>6. /\ z.rings = a.rings
      /\ z.order = a.order /\ z.linked_el = a.linked_el /\ z.kept_el = a.kept_el
      /\ z.linked_rb = a.linked_rb /\ z.kept_rb = a.kept_rb /\ z.host = a.host
      /\ z.output[e] = r /\ \A x \in Els \ {e} : z.output[x] = a.output[x]
      /\ z.input = a.input /\ z.data = a.data /\ z.linked = a.linked
  BY <1>4, <1>5 DEF Pipe
<1>7. Alive(z) = Alive(a)
  BY <1>6 DEF Alive
<1>8. GivenFields(q, z, r, e)
  BY <1>1, <1>2, <1>3, <1>5, <1>6, <1>7 DEF GivenFields
<1> QED BY <1>8 DEF z

\* A turn in which the element gets no ring, and one in which it gets a new one.
LEMMA ReadiedTurns ==
  ASSUME NEW q, Good(q), NEW c \in Seq(Els), NEW i \in 1..Len(c),
         q.kept_el = {}, q.output[c[i]] = None
  PROVE  Turn(q, Readied(q, c, i), c[i], None)
<1> DEFINE z == Readied(q, c, i)
           e == c[i]
<1>1. q \in Pipe
  BY DEF Good
<1>2. /\ z \in Pipe /\ e \in Els /\ Alive(z) = Alive(q)
      /\ z.order = q.order /\ z.rings = q.rings /\ z.linked_rb = q.linked_rb
      /\ z.kept_rb = q.kept_rb /\ z.host = q.host /\ z.output = q.output
      /\ z.data = q.data /\ z.linked = q.linked
      /\ z.linked_el = q.linked_el \cup {e} /\ z.kept_el = q.kept_el \ {e}
      /\ \A x \in Els \ {e} : z.input[x] = q.input[x]
  <2>1. ReadiedFields(q, c, i, z)
    BY <1>1, ReadiedIs
  <2> HIDE DEF z
  <2> QED BY <2>1 DEF ReadiedFields
<1>3. None \notin Rings /\ None \notin q.linked_rb \cup q.kept_rb \cup q.data
  BY <1>1, RingsAssumption DEF Pipe, None
<1>4. Len(q.rings) \in Nat
  BY <1>1, PipeRings
<1> HIDE DEF z, e
<1>5. /\ z.output[e] = None /\ \A x \in Els \ {e} : z.output[x] = q.output[x]
      /\ \A r \in Rings : z.host[r] = q.host[r]
      /\ z.data = q.data /\ e \notin q.kept_el
  BY <1>2 DEF z, e
<1>6. /\ Alive(z) = Alive(q) \cup ({None} \ {None}) /\ z.linked_rb = q.linked_rb \cup ({None} \ {None})
      /\ z.kept_rb = q.kept_rb \ {None}
  BY <1>2, <1>3
<1>7. Len(q.rings) <= Len(z.rings) /\ \A m \in 1..Len(q.rings) : z.rings[m] = q.rings[m]
  BY <1>2, <1>4
<1>8. None \notin Names(q) /\ None \notin z.data
  BY <1>3, <1>5 DEF Names
<1>9. Turn(q, z, e, None)
  <2>1. /\ z \in Pipe /\ None \in Rings \cup {None}
        /\ z.order = q.order /\ z.linked = q.linked
        /\ z.linked_el = q.linked_el \cup {e} /\ z.kept_el = q.kept_el \ {e}
    BY <1>2
  <2>2. \A r \in Rings \ {None} : z.host[r] = q.host[r] \/ (z.host[r] = None /\ r \notin Names(q))
    BY Zenon, <1>5
  <2>3. IF e \in q.kept_el THEN None = q.output[e] /\ z.output[e] = None ELSE None \notin Names(q)
    BY <1>5, <1>8
  <2>4. IF e \in q.kept_el THEN z.data = q.data ELSE None \notin z.data
    BY <1>5, <1>8
  <2>5. z.data \subseteq q.data /\ q.data \ z.data \subseteq {None}
    BY <1>5
  <2>6. \A x \in Els \ {e} : z.output[x] = q.output[x] /\ z.input[x] = q.input[x]
    BY <1>2, <1>5
  <2>7. z.output[e] \in {None, None}
    BY <1>5
  <2>8. None # None => z.host[None] = e /\ FirstOf(z, e, None)
    OBVIOUS
  <2> HIDE DEF Names, FirstOf, Alive
  <2> QED BY Zenon, <1>6, <1>7, <2>1, <2>2, <2>3, <2>4, <2>5, <2>6, <2>7, <2>8 DEF Turn
<1> QED BY <1>9 DEF z, e

LEMMA GivenTurns ==
  ASSUME NEW q, Good(q), NEW c \in Seq(Els), NEW i \in 1..Len(c),
         q.kept_el = {}, NEW r \in Rings, r \notin Alive(q),
         \A x \in Alive(q) : q.host[x] # c[i]
  PROVE  Turn(q, Given(Readied(q, c, i), r, c[i]), c[i], r)
<1> DEFINE y == Readied(q, c, i)
           e == c[i]
           z == Given(y, r, e)
<1>1. q \in Pipe
  BY DEF Good
<1>2. /\ y \in Pipe /\ e \in Els /\ Alive(y) = Alive(q)
      /\ y.order = q.order /\ y.rings = q.rings /\ y.linked_rb = q.linked_rb
      /\ y.kept_rb = q.kept_rb /\ y.host = q.host /\ y.output = q.output
      /\ y.data = q.data /\ y.linked = q.linked
      /\ y.linked_el = q.linked_el \cup {e} /\ y.kept_el = q.kept_el \ {e}
      /\ \A x \in Els \ {e} : y.input[x] = q.input[x]
  BY <1>1, ReadiedIs DEF ReadiedFields
<1> HIDE DEF y, e
<1>3. /\ z \in Pipe
      /\ z.order = y.order /\ z.linked_el = y.linked_el /\ z.kept_el = y.kept_el
      /\ z.linked_rb = y.linked_rb \cup {r} /\ z.kept_rb = y.kept_rb \ {r}
      /\ z.host[r] = e /\ \A x \in Rings \ {r} : z.host[x] = y.host[x]
      /\ z.output[e] = r /\ \A x \in Els \ {e} : z.output[x] = y.output[x]
      /\ z.input = y.input /\ z.data = y.data /\ z.linked = y.linked
      /\ Len(z.rings) = Len(y.rings) + 1 /\ z.rings[Len(y.rings) + 1] = r
      /\ \A m \in 1..Len(y.rings) : z.rings[m] = y.rings[m]
      /\ Alive(z) = Alive(y) \cup {r}
  <2>1. y \in Pipe /\ r \in Rings /\ e \in Els
    BY <1>2
  <2>2. GivenFields(y, z, r, e)
    BY <2>1, GivenIs
  <2> HIDE DEF z
  <2> QED BY <2>2 DEF GivenFields
<1> HIDE DEF z
<1>4. /\ Len(q.rings) \in Nat /\ None \notin Rings
      /\ \A m \in 1..Len(q.rings) : q.rings[m] \in Rings /\ q.rings[m] \in Alive(q)
  BY <1>1, PipeRings
<1>5. r \notin Names(q) /\ r \notin q.data /\ r # None
  BY <1>4 DEF Good, RingsInv
<1>6. FirstOf(z, e, r)
  <2> DEFINE m == Len(q.rings) + 1
  <2>1. m \in 1..Len(z.rings) /\ z.rings[m] = r
    BY <1>2, <1>3, <1>4
  <2>2. ASSUME NEW l \in 1..(m - 1) PROVE z.host[z.rings[l]] # e
    <3>1. l \in 1..Len(q.rings)
      BY <1>4
    <3>2. z.rings[l] = q.rings[l] /\ q.rings[l] \in Rings \ {r} /\ q.rings[l] \in Alive(q)
      BY <1>2, <1>3, <1>4, <3>1
    <3>3. z.host[q.rings[l]] = q.host[q.rings[l]] /\ q.host[q.rings[l]] # e
      BY <1>2, <1>3, <3>2 DEF e
    <3> QED BY <3>2, <3>3
  <2> HIDE DEF m
  <2> QED BY <2>1, <2>2 DEF FirstOf
<1>7. Turn(q, z, e, r)
  BY <1>2, <1>3, <1>4, <1>5, <1>6 DEF Turn
<1> QED BY <1>7 DEF y, e, z

\* The same turns if there may be second rings.
LEMMA ReadiedPasses ==
  ASSUME NEW q \in Pipe, NEW c \in Seq(Els), NEW i \in 1..Len(c)
  PROVE  Pass(q, Readied(q, c, i), c[i], None)
<1> DEFINE z == Readied(q, c, i)
           e == c[i]
<1>1. ReadiedFields(q, c, i, z)
  BY ReadiedIs
<1>2. None \notin q.linked_rb /\ None \notin q.kept_rb
  BY RingsAssumption DEF Pipe, None
<1> HIDE DEF z
<1>3. /\ z \in Pipe /\ z.order = q.order /\ z.linked_el = q.linked_el \cup {e}
      /\ Alive(z) = Alive(q) /\ z.linked_rb = q.linked_rb /\ z.kept_rb = q.kept_rb
      /\ z.host = q.host /\ z.output = q.output /\ z.data = q.data
      /\ \A x \in Els \ {e} : z.input[x] = q.input[x]
  BY <1>1 DEF ReadiedFields
<1>4. OthersSame(q, z, e)
  BY <1>3 DEF OthersSame
<1> HIDE DEF e
<1>5. Pass(q, z, e, None)
  BY <1>2, <1>3, <1>4 DEF Pass
<1> QED BY <1>5 DEF z, e

LEMMA GivenPasses ==
  ASSUME NEW q, Fit(q), NEW c \in Seq(Els), NEW i \in 1..Len(c), NEW r \in Rings, r \notin Alive(q)
  PROVE  Pass(q, Given(Readied(q, c, i), r, c[i]), c[i], r)
<1> DEFINE y == Readied(q, c, i)
           e == c[i]
           z == Given(y, r, e)
<1>1. q \in Pipe /\ r # None /\ r \notin Names(q)
  BY PipeRings DEF Fit, RingsInv
<1>2. ReadiedFields(q, c, i, y)
  BY <1>1, ReadiedIs
<1> HIDE DEF y
<1>3. /\ y \in Pipe /\ y.order = q.order /\ y.linked_el = q.linked_el \cup {e} /\ e \in Els
      /\ Alive(y) = Alive(q) /\ y.linked_rb = q.linked_rb /\ y.kept_rb = q.kept_rb
      /\ y.host = q.host /\ y.output = q.output /\ y.data = q.data
      /\ \A x \in Els \ {e} : y.input[x] = q.input[x]
  BY <1>2 DEF ReadiedFields
<1> HIDE DEF e
<1>4. GivenFields(y, z, r, e)
  BY <1>3, GivenIs
<1> HIDE DEF z
<1>5. /\ z \in Pipe /\ z.order = q.order /\ z.linked_el = q.linked_el \cup {e}
      /\ Alive(z) = Alive(q) \cup {r} /\ z.linked_rb = q.linked_rb \cup {r}
      /\ z.kept_rb = q.kept_rb \ {r}
      /\ z.host[r] = e /\ \A x \in Rings \ {r} : z.host[x] = q.host[x]
      /\ z.output[e] = r /\ z.data = q.data
      /\ \A x \in Els \ {e} : z.output[x] = q.output[x] /\ z.input[x] = q.input[x]
  BY <1>3, <1>4 DEF GivenFields
<1>6. OthersSame(q, z, e)
  BY <1>5 DEF OthersSame
<1>7. Pass(q, z, e, r)
  BY <1>1, <1>5, <1>6 DEF Pass
<1> QED BY <1>7 DEF y, e, z

\* The loop of audio_pipeline_link after its turn i: what the pipeline was given,
\* and, unless a ring could not be made, the chain up to there; if nothing was left
\* over before, each element has one ring at most.
FreshUpTo(z, c, i) ==
  /\ Good(z) /\ z.kept_el = {} /\ Alive(z) \subseteq z.linked_rb
  /\ z.linked_el \subseteq {c[j] : j \in 1..i} \/ Rings = {}
  /\ \A x \in Els : z.output[x] # None => x \in {c[j] : j \in 1..i}

LinkedUpTo(q, c, s, i) ==
  /\ s \in LinkStates /\ Fit(s.p) /\ s.p.order = q.order
  /\ s.failed => i > 0
  /\ i > 0 /\ s.p.rings = << >> => Rings = {}
  /\ ~s.failed => Ties(s.p, c, i)
  /\ Bare(q) => FreshUpTo(s.p, c, i)

LEMMA LinkStarts ==
  ASSUME NEW q, Fit(q), NEW c
  PROVE  LinkedUpTo(q, c, [p |-> q, failed |-> FALSE], 0)
<1>1. q \in Pipe
  BY DEF Fit
<1>2. Bare(q) => Good(q) /\ Alive(q) = {}
  BY <1>1, BareIsGood, PipeRings DEF Bare
<1>3. Bare(q) => FreshUpTo(q, c, 0)
  BY <1>2 DEF Bare, FreshUpTo
<1> QED BY <1>1, <1>3 DEF LinkedUpTo, LinkStates, Ties

LEMMA LinkGoesOn ==
  ASSUME NEW q, NEW c \in Chains, NEW s, NEW i \in 1..Len(c), LinkedUpTo(q, c, s, i - 1),
         c[i] \in ToSet(q.order)
  PROVE  LinkedUpTo(q, c, LinkOne(s, c, i), i)
<1> DEFINE e == c[i]
           y == Readied(s.p, c, i)
           r == Spare(y)
           t == LinkOne(s, c, i)
           Before(k) == {c[j] : j \in 1..k}
<1>1. /\ c \in Seq(Els) /\ Len(c) \in Nat /\ Len(c) > 1 /\ e \in Els
      /\ \A j, k \in 1..Len(c) : c[j] = c[k] => j = k
  <2>1. c \in Seq(Els) /\ IsInjective(c) /\ Len(c) > 1
    BY ChainsAssumption
  <2>2. Len(c) \in Nat /\ DOMAIN c = 1..Len(c) /\ e \in Els
    BY <2>1, LenProperties, ElementOfSeq
  <2> QED BY <2>1, <2>2 DEF IsInjective
<1>2. Before(i) = Before(i - 1) \cup {e} /\ e \notin Before(i - 1)
  <2>1. \A j \in 1..(i - 1) : j \in 1..Len(c) /\ j # i
    BY <1>1
  <2>2. 1..i = (1..(i - 1)) \cup {i}
    BY <1>1
  <2> QED BY <1>1, <2>1, <2>2
<1>3. s.p \in Pipe /\ Fit(s.p) /\ s.p.order = q.order /\ (Bare(q) => FreshUpTo(s.p, c, i - 1))
  BY DEF LinkedUpTo, LinkStates
<1>4. Bare(q) => s.p.output[e] = None /\ Good(s.p) /\ s.p.kept_el = {}
  BY <1>1, <1>2, <1>3 DEF FreshUpTo
<1>5. /\ y \in Pipe /\ Alive(y) = Alive(s.p) /\ y.rings = s.p.rings
      /\ y.linked_rb = s.p.linked_rb /\ y.output = s.p.output
      /\ i > 1 => y.input[e] = s.p.output[c[i - 1]]
  BY <1>1, <1>3, ReadiedIs DEF ReadiedFields
<1>6. Pass(s.p, y, e, None) /\ (Bare(q) => Turn(s.p, y, e, None))
  BY <1>1, <1>3, <1>4, ReadiedTurns, ReadiedPasses
<1>7. (r = None /\ Rings \subseteq Alive(s.p)) \/ r \in Rings \ Alive(s.p)
  BY <1>5, SpareIs
<1>8. t \in LinkStates
  BY <1>1, LinkOneType DEF LinkedUpTo
<1>9. /\ s.failed => t = s
      /\ ~s.failed /\ i = Len(c) => t = [s EXCEPT !.p = y]
      /\ ~s.failed /\ i < Len(c) /\ r # None => t = [s EXCEPT !.p = Given(y, r, e)]
      /\ ~s.failed /\ i < Len(c) /\ r = None => t = [p |-> y, failed |-> TRUE]
  BY <1>1, LinkOneIs
\* What is left to show of a turn that gives ring w.
<1>10. ASSUME NEW w, Pass(s.p, t.p, e, w), Bare(q) => Turn(s.p, t.p, e, w),
              t.p.rings = << >> => Rings = {},
              ~t.failed => ~s.failed /\ (i < Len(c) => t.p.output[e] # None)
                           /\ (i > 1 => t.p.input[e] = s.p.output[c[i - 1]])
       PROVE  LinkedUpTo(q, c, t, i)
  <2>1. Fit(t.p)
    BY <1>1, <1>3, <1>10, PassIsFit
  <2>2. t.p.order = q.order
    BY <1>3, <1>10 DEF Pass
  <2>3. ~t.failed => Ties(t.p, c, i)
    BY <1>10, TurnTies DEF LinkedUpTo, Pass
  <2>4. ASSUME Bare(q) PROVE FreshUpTo(t.p, c, i)
    <3>1. FreshUpTo(s.p, c, i - 1) /\ Turn(s.p, t.p, e, w)
      BY <1>3, <1>10, <2>4
    <3>2. Good(t.p)
      BY <1>1, <1>3, <1>4, <1>10, <2>4, TurnIsGood
    <3>3. t.p.kept_el = {} /\ Alive(t.p) \subseteq t.p.linked_rb
      BY <3>1 DEF FreshUpTo, Turn
    <3>4. t.p.linked_el \subseteq Before(i) \/ Rings = {}
      <4>1. s.p.linked_el \subseteq Before(i - 1) \/ Rings = {}
        BY <3>1 DEF FreshUpTo
      <4> HIDE DEF Before
      <4> QED BY <1>2, <3>1, <4>1 DEF Turn
    <3>5. \A x \in Els : t.p.output[x] # None => x \in Before(i)
      <4>1. \A x \in Els : s.p.output[x] # None => x \in Before(i - 1)
        BY <3>1 DEF FreshUpTo
      <4> HIDE DEF Before
      <4> QED BY <1>2, <3>1, <4>1 DEF Turn
    <3> HIDE DEF t
    <3> QED BY <3>2, <3>3, <3>4, <3>5 DEF FreshUpTo
  <2> QED BY <1>8, <1>10, <2>1, <2>2, <2>3, <2>4 DEF LinkedUpTo
<1>11. CASE s.failed
  <2>1. t = s
    BY <1>9, <1>11
  <2>2. i - 1 > 0
    BY <1>1, <1>11 DEF LinkedUpTo
  <2>3. Before(i - 1) \subseteq Before(i)
    BY <1>2
  <2> HIDE DEF Before, t
  <2>4. FreshUpTo(s.p, c, i - 1) => FreshUpTo(s.p, c, i)
    <3>1. FreshUpTo(s.p, c, i - 1) =>
            /\ s.p.linked_el \subseteq Before(i - 1) \/ Rings = {}
            /\ \A x \in Els : s.p.output[x] # None => x \in Before(i - 1)
      BY DEF FreshUpTo, Before
    <3>2. FreshUpTo(s.p, c, i - 1) =>
            /\ s.p.linked_el \subseteq Before(i) \/ Rings = {}
            /\ \A x \in Els : s.p.output[x] # None => x \in Before(i)
      BY <2>3, <3>1
    <3> QED BY <3>2 DEF FreshUpTo, Before
  <2>5. LinkedUpTo(q, c, s, i)
    BY <1>11, <2>2, <2>4 DEF LinkedUpTo
  <2> QED BY <2>1, <2>5 DEF t
<1>12. CASE ~s.failed /\ i = Len(c)
  <2>1. t.p = y /\ ~t.failed
    BY <1>8, <1>9, <1>12 DEF LinkStates, LinkedUpTo
  <2>2. i - 1 > 0
    BY <1>1, <1>12
  <2>3. t.p.rings = << >> => Rings = {}
    BY <1>5, <2>1, <2>2 DEF LinkedUpTo
  <2> HIDE DEF t, y, e
  <2>4. Pass(s.p, t.p, e, None) /\ (Bare(q) => Turn(s.p, t.p, e, None))
    BY <1>6, <2>1
  <2> QED BY <1>5, <1>10, <1>12, <2>1, <2>3, <2>4 DEF t
<1>13. CASE ~s.failed /\ i < Len(c) /\ r = None
  <2>1. t.p = y /\ t.failed
    BY <1>9, <1>13
  <2>2. t.p.rings = << >> => Rings = {}
    BY <1>3, <1>5, <1>7, <1>13, <2>1, PipeRings
  <2> HIDE DEF t, y, e
  <2>3. Pass(s.p, t.p, e, None) /\ (Bare(q) => Turn(s.p, t.p, e, None))
    BY <1>6, <2>1
  <2> QED BY <1>10, <2>1, <2>2, <2>3 DEF t
<1>14. CASE ~s.failed /\ i < Len(c) /\ r # None
  <2> DEFINE z == Given(y, r, e)
  <2>1. t.p = z /\ ~t.failed
    BY <1>8, <1>9, <1>14 DEF LinkStates, LinkedUpTo
  <2>2. r \in Rings /\ r \notin Alive(s.p)
    BY <1>7, <1>14
  <2>3. ASSUME Bare(q), NEW x \in Alive(s.p) PROVE s.p.host[x] # e
    <3>1. FreshUpTo(s.p, c, i - 1)
      BY <1>3, <2>3
    <3>2. x \in s.p.linked_rb /\ x \notin s.p.kept_rb /\ x \in Rings
      BY <1>3, <2>3, <3>1, PipeRings DEF FreshUpTo, Good, KeptInv
    <3>3. s.p.host[x] \in s.p.linked_el
      BY <3>1, <3>2 DEF FreshUpTo, Good, HostsInv
    <3>4. s.p.linked_el \subseteq Before(i - 1)
      BY <3>1, <3>2 DEF FreshUpTo
    <3> HIDE DEF Before
    <3> QED BY <1>2, <3>3, <3>4
  <2>4. Pass(s.p, z, e, r)
    BY <1>1, <1>3, <2>2, GivenPasses
  <2>5. Bare(q) => Turn(s.p, z, e, r)
    BY <1>1, <1>4, <2>2, <2>3, GivenTurns
  <2>6. z.output[e] = r /\ z.input = y.input /\ Len(z.rings) = Len(y.rings) + 1
    <3>1. GivenFields(y, z, r, e)
      BY <1>1, <1>5, <2>2, GivenIs
    <3> HIDE DEF z, y, e, r
    <3> QED BY <3>1 DEF GivenFields
  <2>7. z.rings # << >>
    <3>1. z \in Pipe /\ Len(y.rings) \in Nat
      BY <1>5, <2>4, PipeRings DEF Pass
    <3> HIDE DEF z
    <3> QED BY <2>6, <3>1, PipeRings
  <2>8. r # None
    BY <1>14
  <2> HIDE DEF t, z, y, r, e
  <2> QED BY <1>5, <1>10, <1>14, <2>1, <2>4, <2>5, <2>6, <2>7, <2>8 DEF t
<1> QED BY <1>1, <1>11, <1>12, <1>13, <1>14

LEMMA LinkBuilds ==
  ASSUME NEW q, Fit(q), NEW c \in Chains, NEW n \in 0..Len(c),
         \A i \in 1..n : c[i] \in ToSet(q.order)
  PROVE  LinkedUpTo(q, c, LinkLoop([p |-> q, failed |-> FALSE], c, [i \in 1..n |-> i]), n)
<1> DEFINE end == LinkLoop([p |-> q, failed |-> FALSE], c, [i \in 1..n |-> i])
<1>1. q \in Pipe /\ c \in Seq(Els)
  BY ChainsAssumption DEF Fit
<1>2. Len(c) \in Nat /\ n \in Nat /\ \A i \in 1..n : i \in 1..Len(c)
  BY <1>1, LenProperties
<1>3. PICK f : /\ f[0] = [p |-> q, failed |-> FALSE]
               /\ \A k \in 1..n : f[k] = LinkOne(f[k - 1], c, k)
               /\ end = f[n]
  BY <1>1, LinkTurns
<1> HIDE DEF end
<1> DEFINE T == {k \in 0..n : LinkedUpTo(q, c, f[k], k)}
<1>4. 0 \in T
  BY <1>2, <1>3, LinkStarts
<1>5. ASSUME NEW k \in 1..n, k - 1 \in T
      PROVE  k \in T
  <2>1. LinkedUpTo(q, c, f[k - 1], k - 1) /\ k \in 1..Len(c) /\ k \in 0..n
    BY <1>2, <1>5
  <2> QED BY <1>3, <2>1, LinkGoesOn
<1> HIDE DEF T
<1>6. 0..n \subseteq T
  BY <1>2, <1>4, <1>5, Upward
<1>7. n \in T
  BY <1>2, <1>6
<1> QED BY <1>3, <1>7 DEF T, end

-----------------------------------------------------------------------------
(* The invariant                                                           *)

Sound(q, c, a) ==
  /\ Fit(q) /\ c \in Seq(Els)
  /\ q.linked => c \in Chains /\ (q.short \/ Ties(q, c, Len(c)))
  /\ ~a => Good(q)

\* Whether a chain is linked is of no consequence to the rest.
LinkedSame(q, b, z) ==
  /\ Fit(z) /\ (Good(q) => Good(z))
  /\ z.linked = b /\ z.kept_el = q.kept_el /\ z.short = q.short
  /\ z.data = q.data /\ z.output = q.output
  /\ \A c, n : Ties(q, c, n) => Ties(z, c, n)

LEMMA LinkedSet ==
  ASSUME NEW q, Fit(q), NEW b \in BOOLEAN
  PROVE  LinkedSame(q, b, [q EXCEPT !.linked = b])
<1> DEFINE z == [q EXCEPT !.linked = b]
<1>1. q \in Pipe
  BY DEF Fit
<1>2. /\ z \in Pipe /\ z.linked = b /\ z.order = q.order /\ z.linked_el = q.linked_el
      /\ z.kept_el = q.kept_el /\ z.rings = q.rings /\ z.linked_rb = q.linked_rb
      /\ z.kept_rb = q.kept_rb /\ z.host = q.host /\ z.input = q.input /\ z.output = q.output
      /\ z.data = q.data /\ z.short = q.short
  BY <1>1 DEF Pipe
<1> HIDE DEF z
<1>3. Fit(z)
  BY <1>2 DEF Fit, RingsInv, HostedInv, OrderInv, Names, Alive
<1>4. ASSUME Good(q) PROVE Good(z)
  <2>1. RingsInv(z) /\ WritersInv(z)
    BY <1>2, <1>4 DEF Good, RingsInv, WritersInv, Names, Alive, FirstOf
  <2>2. KeptInv(z) /\ HeldInv(z) /\ HostsInv(z) /\ OrderInv(z)
    BY <1>2, <1>4 DEF Good, KeptInv, HeldInv, HostsInv, OrderInv
  <2> QED BY <1>2, <2>1, <2>2 DEF Good
<1>5. \A c, n : Ties(q, c, n) => Ties(z, c, n)
  BY <1>2 DEF Ties
<1> QED BY <1>2, <1>3, <1>4, <1>5 DEF LinkedSame, z

LinkStart == [p |-> Unlinked(p), failed |-> FALSE]
LinkEnd(c) == LinkLoop(LinkStart, c, [i \in 1..Reach(c) |-> i])

LEMMA LinkIs ==
  ASSUME NEW c, Link(c)
  PROVE  LET ok == Reach(c) = Len(c) /\ ~LinkEnd(c).failed IN
         /\ p' = [LinkEnd(c).p EXCEPT !.linked = ok]
         /\ chain' = IF ok THEN c ELSE << >>
         /\ astray' = LeftOver(LinkStart.p)
BY Zenon DEF Link, LinkEnd, LinkStart, LinkLoop

LEMMA LinkIsSound ==
  ASSUME Sound(p, chain, astray), NEW c \in Chains, Link(c)
  PROVE  Sound(p', chain', astray')
<1> DEFINE end == LinkEnd(c)
           ok == Reach(c) = Len(c) /\ ~end.failed
           q == Unlinked(p)
<1>1. /\ p' = [end.p EXCEPT !.linked = ok]
      /\ chain' = IF ok THEN c ELSE << >>
      /\ astray' = LeftOver(q)
  BY LinkIs DEF LinkStart
<1>2. c \in Seq(Els) /\ p \in Pipe /\ Fit(p)
  BY ChainsAssumption DEF Sound, Fit
<1>3. Fit(q) /\ q.order = p.order /\ (~LeftOver(q) => Bare(q))
  BY <1>2, UnlinkedIsFit, UnlinkedIs DEF UnlinkedFields
<1>4. Reach(c) \in 0..Len(c) /\ \A i \in 1..Reach(c) : c[i] \in ToSet(q.order)
  BY <1>2, <1>3, ReachIs DEF Registered
<1>5. LinkedUpTo(q, c, end, Reach(c))
  BY <1>3, <1>4, LinkBuilds DEF LinkEnd, LinkStart
<1> HIDE DEF end, q
<1>6. Fit(end.p) /\ (Bare(q) => Good(end.p)) /\ (ok => Ties(end.p, c, Len(c)))
  BY <1>5 DEF LinkedUpTo, FreshUpTo
<1> DEFINE z == [end.p EXCEPT !.linked = ok]
<1>7. /\ Fit(z) /\ z.linked = ok /\ (Bare(q) => Good(z))
      /\ ok => Ties(z, c, Len(c))
  <2>1. ok \in BOOLEAN
    OBVIOUS
  <2>2. LinkedSame(end.p, ok, z)
    <3> HIDE DEF ok
    <3> QED BY <1>6, <2>1, LinkedSet DEF z
  <2> HIDE DEF z, ok
  <2> QED BY <1>6, <2>2 DEF LinkedSame
<1> HIDE DEF z, ok
<1>8. chain' \in Seq(Els)
  BY <1>1, <1>2
<1>9. p' = z
  BY <1>1 DEF z
<1> QED BY <1>1, <1>3, <1>7, <1>8, <1>9 DEF Sound

\* Elements that write different rings are different: a ring has one host.
LEMMA SoundMeans ==
  ASSUME Sound(p, chain, astray)
  PROVE  WritersHost /\ Connected
<1>1. p \in Pipe /\ Fit(p)
  BY DEF Sound, Fit
<1>2. WritersHost
  BY <1>1 DEF WritersHost, Fit, HostedInv
<1>3. Connected
  <2>1. SUFFICES ASSUME p.linked, ~p.short
                 PROVE  /\ ToSet(Between) \subseteq Alive(p) /\ IsInjective(Between)
                        /\ \A i \in 1..Len(chain) - 1 : p.input[chain[i + 1]] = Between[i]
    BY DEF Connected
  <2>2. chain \in Chains /\ Ties(p, chain, Len(chain))
    BY <2>1 DEF Sound
  <2>3. /\ Len(chain) \in Nat /\ \A k \in 1..Len(chain) : chain[k] \in Els
        /\ \A j, k \in 1..Len(chain) : chain[j] = chain[k] => j = k
    <3>1. chain \in Seq(Els) /\ IsInjective(chain)
      BY <2>2, ChainsAssumption
    <3>2. Len(chain) \in Nat /\ DOMAIN chain = 1..Len(chain) /\ \A k \in 1..Len(chain) : chain[k] \in Els
      BY <3>1, LenProperties, ElementOfSeq
    <3> QED BY <3>1, <3>2 DEF IsInjective
  <2>4. \A i \in 1..Len(chain) - 1 :
          /\ i \in 1..Len(chain) /\ i < Len(chain)
          /\ i + 1 \in 1..Len(chain) /\ i + 1 > 1 /\ (i + 1) - 1 = i
    BY <2>3
  <2>5. DOMAIN Between = 1..Len(chain) - 1
        /\ \A i \in 1..Len(chain) - 1 : Between[i] = p.output[chain[i]]
    BY DEF Between
  <2>6. ASSUME NEW i \in 1..Len(chain) - 1
        PROVE  /\ Between[i] \in Alive(p) /\ p.host[Between[i]] = chain[i]
               /\ p.input[chain[i + 1]] = Between[i]
    <3>1. p.output[chain[i]] # None /\ p.input[chain[i + 1]] = p.output[chain[i]]
      <4>1. p.output[chain[i]] # None
        BY <2>2, <2>4 DEF Ties
      <4>2. p.input[chain[i + 1]] = p.output[chain[(i + 1) - 1]]
        BY <2>2, <2>4 DEF Ties
      <4> QED BY <2>4, <4>1, <4>2
    <3>2. chain[i] \in Els
      BY <2>3, <2>4
    <3> QED BY <1>1, <2>5, <3>1, <3>2 DEF Fit, HostedInv
  <2>7. ToSet(Between) \subseteq Alive(p)
    BY <2>5, <2>6 DEF ToSet
  <2>8. IsInjective(Between)
    BY <2>3, <2>4, <2>5, <2>6 DEF IsInjective
  <2> QED BY <2>6, <2>7, <2>8
<1> QED BY <1>2, <1>3

-----------------------------------------------------------------------------
(* The small steps: register, unregister, unlink, reset of a kept state    *)

LEMMA InitIsSound == Init => Sound(p, chain, astray)
<1>1. SUFFICES ASSUME Init PROVE Sound(p, chain, astray)
  OBVIOUS
<1>2. << >> \in Seq(Els) /\ << >> \in Seq(Rings)
  OBVIOUS
<1>3. p \in Pipe
  <2>1. [r \in Rings |-> None] \in [Rings -> Els \cup {None}]
    OBVIOUS
  <2>2. [e \in Els |-> None] \in [Els -> Rings \cup {None}]
    OBVIOUS
  <2> QED BY <1>1, <1>2, <2>1, <2>2 DEF Init, Pipe
<1>4. Bare(p)
  BY <1>1, <1>3 DEF Init, Bare
<1> QED BY <1>1, <1>2, <1>4, BareIsGood DEF Sound, Init

LEMMA RemoveIsList ==
  ASSUME NEW S, NEW s \in Seq(S), NEW e
  PROVE  RemoveFirst(s, e) \in Seq(S) /\ (e \notin ToSet(s) => RemoveFirst(s, e) = s)
<1> DEFINE I == {i \in 1..Len(s) : s[i] = e}
           m == SelectInSeq(s, LAMBDA v : v = e)
<1>1. RemoveFirst(s, e) = IF \E i \in 1..Len(s) : s[i] = e THEN RemoveAt(s, m) ELSE s
  BY Zenon DEF RemoveFirst
<1>2. m = IF I # {} THEN Min(I) ELSE 0
  BY Zenon DEF SelectInSeq
<1> HIDE DEF m
<1>3. CASE I = {}
  BY <1>1, <1>3
<1>4. CASE I # {}
  <2>1. I \in SUBSET Nat /\ I \subseteq 1..Len(s) /\ Len(s) \in Nat /\ DOMAIN s = 1..Len(s)
    BY LenProperties
  <2>2. e \in ToSet(s)
    BY <1>4, <2>1 DEF ToSet
  <2> HIDE DEF I
  <2>3. m \in I
    BY <1>2, <1>4, <2>1, Least DEF Min
  <2>4. m \in 1..Len(s) /\ Len(s) \in Nat
    BY <2>1, <2>3
  <2>5. SubSeq(s, 1, m - 1) \in Seq(S) /\ SubSeq(s, m + 1, Len(s)) \in Seq(S)
    BY <2>4, SubSeqProperties
  <2>6. RemoveAt(s, m) \in Seq(S)
    BY <2>5, ConcatProperties DEF RemoveAt
  <2> QED BY <1>1, <2>2, <2>6
<1> QED BY <1>3, <1>4

\* While there are rings the list of elements only grows.
LEMMA NewOrder ==
  ASSUME NEW q, Fit(q), NEW o \in Seq(Els), q.rings = << >> \/ ToSet(q.order) \subseteq ToSet(o),
         NEW z, z = [q EXCEPT !.order = o]
  PROVE  /\ Fit(z) /\ (Good(q) => Good(z))
         /\ z.linked = q.linked /\ z.short = q.short /\ z.output = q.output /\ z.input = q.input
<1>1. /\ z \in Pipe /\ z.linked_el = q.linked_el /\ z.kept_el = q.kept_el
      /\ z.rings = q.rings /\ z.linked_rb = q.linked_rb /\ z.kept_rb = q.kept_rb
      /\ z.host = q.host /\ z.input = q.input /\ z.output = q.output /\ z.data = q.data
      /\ z.linked = q.linked /\ z.short = q.short /\ z.order = o
  BY DEF Fit, Pipe
<1>2. OrderInv(q) => OrderInv(z)
  BY <1>1 DEF OrderInv
<1>3. Fit(z)
  BY <1>1, <1>2 DEF Fit, RingsInv, HostedInv, Names, Alive
<1>4. ASSUME Good(q) PROVE Good(z)
  <2>1. RingsInv(z) /\ WritersInv(z)
    BY <1>1, <1>4 DEF Good, RingsInv, WritersInv, Names, Alive, FirstOf
  <2>2. KeptInv(z) /\ HeldInv(z) /\ HostsInv(z)
    BY <1>1, <1>4 DEF Good, KeptInv, HeldInv, HostsInv
  <2> QED BY <1>1, <1>2, <1>4, <2>1, <2>2 DEF Good
<1> QED BY <1>1, <1>3, <1>4

LEMMA RegisterIsSound ==
  ASSUME Sound(p, chain, astray), NEW e \in Els, Register(e) \/ Unregister(e)
  PROVE  Sound(p', chain', astray')
<1>1. /\ chain' = chain /\ astray' = astray /\ p \in Pipe /\ Fit(p)
      /\ p.order \in Seq(Els)
  BY DEF Register, Unregister, Sound, Fit, Pipe
<1>2. PICK o \in Seq(Els) : /\ p' = [p EXCEPT !.order = o]
                            /\ p.rings = << >> \/ ToSet(p.order) \subseteq ToSet(o)
  <2> DEFINE less == RemoveFirst(p.order, e)
             more == Append(less, e)
  <2>1. less \in Seq(Els) /\ (e \notin ToSet(p.order) => less = p.order)
    BY <1>1, RemoveIsList
  <2>2. p' = [p EXCEPT !.order = more] \/ (p' = [p EXCEPT !.order = less] /\ p.rings = << >>)
    BY <1>1 DEF Register, Unregister, Pipe
  <2> HIDE DEF less
  <2>3. /\ more \in Seq(Els) /\ Len(more) = Len(less) + 1 /\ Len(less) \in Nat
        /\ \A i \in 1..Len(less) : more[i] = less[i]
    BY <2>1, AppendProperties, LenProperties
  <2> HIDE DEF more
  <2>4. DOMAIN more = 1..(Len(less) + 1) /\ DOMAIN less = 1..Len(less)
    BY <2>1, <2>3, LenProperties
  <2>5. ToSet(less) \subseteq ToSet(more)
    BY <2>3, <2>4 DEF ToSet
  <2>6. CASE p' = [p EXCEPT !.order = less] /\ p.rings = << >>
    BY <2>1, <2>6
  <2>7. CASE p' = [p EXCEPT !.order = more] /\ p.rings = << >>
    BY <2>3, <2>7
  <2>8. CASE p' = [p EXCEPT !.order = more] /\ p.rings # << >>
    <3>1. Register(e) \/ e \notin ToSet(p.order)
      BY <2>8 DEF Unregister
    <3>2. e \notin ToSet(p.order)
      BY <2>8, <3>1 DEF Register, Registered
    <3> QED BY <2>1, <2>3, <2>5, <2>8, <3>2
  <2> QED BY <2>2, <2>6, <2>7, <2>8
<1>3. /\ Fit(p') /\ (Good(p) => Good(p'))
      /\ p'.linked = p.linked /\ p'.short = p.short
      /\ p'.output = p.output /\ p'.input = p.input
  BY <1>1, <1>2, NewOrder
<1> QED BY <1>1, <1>3 DEF Sound, Ties

LEMMA UnlinkIsSound ==
  ASSUME Sound(p, chain, astray), Unlink
  PROVE  Sound(p', chain', astray')
<1>1. /\ Fit(Unlinked(p)) /\ (~LeftOver(Unlinked(p)) => Bare(Unlinked(p)))
      /\ p' = Unlinked(p) /\ chain' = << >> /\ astray' = LeftOver(Unlinked(p)) /\ p.linked
  BY UnlinkedIsFit DEF Sound, Unlink
<1>2. ~p'.linked
  BY <1>1, UnlinkedIs DEF UnlinkedFields, Sound, Fit
<1> QED BY <1>1, <1>2, BareIsGood DEF Sound

\* What audio_pipeline_reset_kept_state clears, for any element.
ResetFields(q, e, r, z) ==
  /\ z \in Pipe /\ z.order = q.order /\ z.rings = q.rings /\ z.data = q.data
  /\ z.linked_el = q.linked_el \ {e} /\ z.kept_el = q.kept_el \ {e}
  /\ z.linked_rb = q.linked_rb \ {r} /\ z.kept_rb = q.kept_rb \ {r}
  /\ z.output[e] = None /\ \A x \in Els \ {e} : z.output[x] = q.output[x]
  /\ \A s \in Rings : z.host[s] = IF s = r THEN None ELSE q.host[s]

LEMMA ResetIs ==
  ASSUME p \in Pipe, NEW e \in Els, ResetKept(e)
  PROVE  ResetFields(p, e, p.output[e], p') /\ ~p'.linked
<1> DEFINE r == p.output[e]
           h == [s \in Rings |-> IF s = r THEN None ELSE p.host[s]]
<1>1. p' = [p EXCEPT !.linked_el = @ \ {e}, !.kept_el = @ \ {e}, !.output[e] = None,
                     !.linked_rb = @ \ {r}, !.kept_rb = @ \ {r}, !.host = h, !.linked = FALSE]
  BY DEF ResetKept, Pipe
<1>2. h \in [Rings -> Els \cup {None}] /\ \A s \in Rings : h[s] = IF s = r THEN None ELSE p.host[s]
  BY DEF Pipe
<1> HIDE DEF h, r
<1>3. p' \in Pipe
  BY <1>1, <1>2 DEF Pipe
<1>4. /\ p'.order = p.order /\ p'.rings = p.rings /\ p'.data = p.data
      /\ p'.linked_el = p.linked_el \ {e} /\ p'.kept_el = p.kept_el \ {e}
      /\ p'.linked_rb = p.linked_rb \ {r} /\ p'.kept_rb = p.kept_rb \ {r}
      /\ p'.output[e] = None /\ \A x \in Els \ {e} : p'.output[x] = p.output[x]
      /\ p'.host = h /\ ~p'.linked
  BY <1>1 DEF Pipe
<1>5. ResetFields(p, e, r, p')
  BY <1>2, <1>3, <1>4 DEF ResetFields
<1> QED BY <1>4, <1>5 DEF r

LEMMA ResetIsFit ==
  ASSUME NEW q, Fit(q), NEW e \in Els, NEW z, ResetFields(q, e, q.output[e], z)
  PROVE  Fit(z)
<1> DEFINE r == q.output[e]
<1>1. q \in Pipe /\ z \in Pipe
  BY DEF Fit, ResetFields
<1>2. RingsInv(z)
  BY DEF Fit, ResetFields, RingsInv, Names, Alive
<1>3. HostedInv(z)
  <2>1. SUFFICES ASSUME NEW x \in Els, z.output[x] # None
                 PROVE  /\ z.output[x] \in Alive(z) /\ z.host[z.output[x]] = x
                        /\ \/ z.output[x] \in z.kept_rb
                           \/ x \in z.linked_el /\ z.output[x] \in z.linked_rb
    BY DEF HostedInv
  <2> DEFINE y == z.output[x]
  <2>2. x # e /\ y = q.output[x] /\ y # None
    BY <2>1 DEF ResetFields
  <2>3. /\ y \in Alive(q) /\ q.host[y] = x /\ y \in Rings
        /\ y \in q.kept_rb \/ (x \in q.linked_el /\ y \in q.linked_rb)
    BY <1>1, <2>2, PipeRings DEF Fit, HostedInv
  <2>4. r # None => q.host[r] = e
    BY DEF Fit, HostedInv
  <2>5. y # r
    BY <2>2, <2>3, <2>4
  <2> HIDE DEF y, r
  <2>6. z.host[y] = x /\ y \in Alive(z)
    BY <2>3, <2>5 DEF ResetFields, Alive, r
  <2>7. y \in z.kept_rb \/ (x \in z.linked_el /\ y \in z.linked_rb)
    BY <2>2, <2>3, <2>5 DEF ResetFields, r
  <2> QED BY <2>6, <2>7 DEF y
<1>4. OrderInv(z)
  BY DEF Fit, ResetFields, OrderInv
<1> QED BY <1>1, <1>2, <1>3, <1>4 DEF Fit

LEMMA ResetIsGood ==
  ASSUME NEW q, Good(q), NEW e \in q.kept_el, NEW z, ResetFields(q, e, q.output[e], z)
  PROVE  Good(z)
<1> DEFINE r == q.output[e]
<1>1. /\ q \in Pipe /\ z \in Pipe /\ z.order = q.order /\ z.rings = q.rings /\ z.data = q.data
      /\ z.linked_el = q.linked_el \ {e} /\ z.kept_el = q.kept_el \ {e}
      /\ z.linked_rb = q.linked_rb \ {r} /\ z.kept_rb = q.kept_rb \ {r}
      /\ z.output[e] = None /\ \A x \in Els \ {e} : z.output[x] = q.output[x]
      /\ \A s \in Rings : z.host[s] = IF s = r THEN None ELSE q.host[s]
  BY DEF ResetFields, Good
<1>2. /\ r \in q.kept_rb /\ r \in Rings /\ r # None /\ None \notin Rings /\ None \notin Els
      /\ e \in Els /\ e \notin q.linked_el
  BY <1>1, PipeRings DEF Good, KeptInv, Pipe
<1>3. q.host[r] = e
  BY <1>2 DEF Good, WritersInv
<1> HIDE DEF r
<1>4. \A m \in 1..Len(q.rings) : q.rings[m] \in Rings
  BY <1>1, PipeRings
<1>5. RingsInv(z)
  BY <1>1 DEF Good, RingsInv, Names, Alive
<1>6. WritersInv(z)
  <2>1. ASSUME NEW x \in Els, z.output[x] # None
        PROVE  z.output[x] \in Alive(z) /\ z.host[z.output[x]] = x
               /\ FirstOf(z, x, z.output[x])
    <3> DEFINE y == z.output[x]
    <3>1. x # e /\ y = q.output[x] /\ y \in Alive(q) /\ q.host[y] = x /\ FirstOf(q, x, y)
      BY <1>1, <2>1 DEF Good, WritersInv
    <3>2. y \in Rings /\ y # r
      BY <1>1, <1>3, <3>1, PipeRings
    <3> HIDE DEF y
    <3>3. FirstOf(z, x, y)
      <4>1. PICK m \in 1..Len(q.rings) :
              q.rings[m] = y /\ \A l \in 1..(m - 1) : q.host[q.rings[l]] # x
        BY <3>1 DEF FirstOf
      <4>2. ASSUME NEW l \in 1..(m - 1) PROVE z.host[q.rings[l]] # x
        <5>1. q.rings[l] \in Rings /\ q.host[q.rings[l]] # x
          BY <1>1, <1>4, <4>1, PipeRings
        <5> QED BY <1>1, <1>2, <5>1
      <4> QED BY <1>1, <4>1, <4>2 DEF FirstOf
    <3>4. y \in Alive(z) /\ z.host[y] = x
      BY <1>1, <3>1, <3>2 DEF Alive
    <3> QED BY <3>3, <3>4 DEF y
  <2> QED BY <2>1 DEF WritersInv
<1>7. KeptInv(z)
  <2>1. ASSUME NEW x \in z.kept_el PROVE z.output[x] \in z.kept_rb
    <3>1. x \in q.kept_el /\ x # e /\ x \in Els /\ z.output[x] = q.output[x]
      BY <1>1, <2>1 DEF Pipe
    <3>2. q.output[x] \in q.kept_rb
      BY <3>1 DEF Good, KeptInv
    <3>3. q.host[q.output[x]] = x
      <4>1. q.output[x] # None
        BY <1>1, <1>2, <3>2 DEF Pipe
      <4> QED BY <3>1, <4>1 DEF Good, WritersInv
    <3> QED BY <1>1, <1>3, <3>1, <3>2, <3>3
  <2>2. ASSUME NEW s \in z.kept_rb PROVE z.host[s] \in z.kept_el /\ z.output[z.host[s]] = s
    <3>1. s \in q.kept_rb /\ s # r /\ s \in Rings /\ z.host[s] = q.host[s]
      BY <1>1, <2>2 DEF Pipe
    <3>2. q.host[s] \in q.kept_el /\ q.output[q.host[s]] = s
      BY <3>1 DEF Good, KeptInv
    <3>3. q.host[s] # e /\ q.host[s] \in Els
      BY <1>1, <3>1, <3>2 DEF Pipe, r
    <3> QED BY <1>1, <3>1, <3>2, <3>3
  <2> QED BY <1>1, <2>1, <2>2 DEF Good, KeptInv
<1>8. HeldInv(z)
  <2>1. ASSUME NEW x \in Els, z.output[x] # None
        PROVE  (x \in z.linked_el /\ z.output[x] \in z.linked_rb) \/ x \in z.kept_el
    <3>1. x # e /\ z.output[x] = q.output[x]
      BY <1>1, <2>1
    <3>2. (x \in q.linked_el /\ q.output[x] \in q.linked_rb) \/ x \in q.kept_el
      BY <2>1, <3>1 DEF Good, HeldInv
    <3>3. q.output[x] # r
      BY <1>3, <2>1, <3>1 DEF Good, WritersInv
    <3> QED BY <1>1, <3>1, <3>2, <3>3
  <2> QED BY <2>1 DEF HeldInv
<1>9. HostsInv(z)
  <2>1. ASSUME NEW s \in z.linked_rb PROVE s \in z.kept_rb \/ z.host[s] \in z.linked_el
    <3>1. s \in q.linked_rb /\ s # r /\ s \in Rings /\ z.host[s] = q.host[s]
      BY <1>1, <2>1 DEF Pipe
    <3>2. s \in q.kept_rb \/ q.host[s] \in q.linked_el
      BY <3>1 DEF Good, HostsInv
    <3> QED BY <1>1, <1>2, <3>1, <3>2
  <2> QED BY <2>1 DEF HostsInv
<1>10. OrderInv(z)
  BY <1>1 DEF Good, OrderInv
<1> QED BY <1>1, <1>5, <1>6, <1>7, <1>8, <1>9, <1>10 DEF Good

LEMMA ResetKeptIsSound ==
  ASSUME Sound(p, chain, astray), NEW e \in Els, ResetKept(e)
  PROVE  Sound(p', chain', astray')
<1>1. /\ chain' = << >> /\ astray' = (astray \/ e \notin p.kept_el)
      /\ p \in Pipe /\ Fit(p) /\ (~astray => Good(p))
  BY DEF ResetKept, Sound, Fit
<1>2. ResetFields(p, e, p.output[e], p') /\ ~p'.linked
  BY <1>1, ResetIs
<1>3. Fit(p')
  BY <1>1, <1>2, ResetIsFit
<1>4. ~astray' => Good(p')
  BY <1>1, <1>2, ResetIsGood
<1> QED BY <1>1, <1>2, <1>3, <1>4 DEF Sound

-----------------------------------------------------------------------------
(* audio_pipeline_breakup_elements                                         *)

\* What holds throughout the loop: rings may be linked whose host is not.
Loose(q) ==
  q \in Pipe /\ RingsInv(q) /\ WritersInv(q) /\ KeptInv(q) /\ HeldInv(q) /\ OrderInv(q)

\* A linked element taken out: it loses its ring, or keeps it and is reserved.
Taken(q, z, e) ==
  /\ z \in Pipe /\ z.order = q.order /\ z.rings = q.rings
  /\ z.linked_rb = q.linked_rb /\ z.data = q.data
  /\ z.linked_el = q.linked_el \ {e}
  /\ \A x \in Els \ {e} : z.output[x] = q.output[x]
  /\ \A r \in Rings : \/ z.host[r] = q.host[r]
                      \/ r = q.output[e] /\ z.output[e] = None /\ z.host[r] = None
  /\ \/ /\ z.output[e] = None
        /\ z.kept_el \in {q.kept_el, q.kept_el \ {e}}
        /\ z.kept_rb \in {q.kept_rb, q.kept_rb \ {q.output[e]}}
     \/ /\ z.output[e] = q.output[e] /\ q.output[e] # None
        /\ z.kept_el = q.kept_el \cup {e} /\ z.kept_rb = q.kept_rb \cup {q.output[e]}

LEMMA TakenIsFit ==
  ASSUME NEW q, Fit(q), NEW e \in q.linked_el, NEW z, Taken(q, z, e), q.rings # << >>
  PROVE  Fit(z)
<1> DEFINE r == q.output[e]
<1>1. /\ q \in Pipe /\ z \in Pipe /\ e \in Els /\ None \notin Rings
      /\ Alive(z) = Alive(q) /\ Alive(q) \subseteq Rings
  BY PipeRings DEF Fit, Taken, Pipe, Alive
<1>2. r # None => r \in Alive(q) /\ q.host[r] = e
  BY <1>1 DEF Fit, HostedInv
<1>3. RingsInv(z)
  BY <1>1, <1>2 DEF Fit, Taken, RingsInv, Names
<1>4. HostedInv(z)
  <2>1. SUFFICES ASSUME NEW x \in Els, z.output[x] # None
                 PROVE  /\ z.output[x] \in Alive(z) /\ z.host[z.output[x]] = x
                        /\ \/ z.output[x] \in z.kept_rb
                           \/ x \in z.linked_el /\ z.output[x] \in z.linked_rb
    BY DEF HostedInv
  <2>2. CASE x = e
    <3>1. z.output[e] = r /\ r # None /\ r \in z.kept_rb
      BY <2>1, <2>2 DEF Taken
    <3>2. z.host[r] = q.host[r]
      BY <1>1, <1>2, <3>1 DEF Taken
    <3> QED BY <1>1, <1>2, <2>2, <3>1, <3>2
  <2>3. CASE x # e
    <3> DEFINE y == q.output[x]
    <3>1. z.output[x] = y /\ y # None
      BY <2>1, <2>3 DEF Taken
    <3>2. /\ y \in Alive(q) /\ q.host[y] = x
          /\ y \in q.kept_rb \/ (x \in q.linked_el /\ y \in q.linked_rb)
      BY <3>1 DEF Fit, HostedInv
    <3>3. y # r
      BY <1>2, <2>3, <3>1, <3>2
    <3> HIDE DEF y, r
    <3>4. z.host[y] = x
      BY <1>1, <3>2, <3>3 DEF Taken, r
    <3>5. y \in z.kept_rb \/ (x \in z.linked_el /\ y \in z.linked_rb)
      BY <2>3, <3>2, <3>3 DEF Taken, r
    <3> QED BY <1>1, <3>1, <3>2, <3>4, <3>5
  <2> QED BY <2>2, <2>3
<1>5. OrderInv(z)
  BY DEF Fit, OrderInv, Taken
<1> QED BY <1>1, <1>3, <1>4, <1>5 DEF Fit

LEMMA TakenIsLoose ==
  ASSUME NEW q, Loose(q), NEW e \in q.linked_el, NEW z, Taken(q, z, e), q.rings # << >>
  PROVE  Loose(z)
<1> DEFINE r == q.output[e]
<1>1. /\ q \in Pipe /\ z \in Pipe /\ e \in Els /\ e \notin q.kept_el
      /\ None \notin Rings /\ None \notin Els
  BY PipeRings DEF Loose, Taken, KeptInv, Pipe
<1>2. r # None => r \in Alive(q) /\ r \in Rings /\ q.host[r] = e
  BY <1>1, PipeRings DEF Loose, WritersInv
<1>3. z.output[e] # None => r # None /\ z.output[e] = r
  BY DEF Taken
<1> HIDE DEF r
<1>4. r \notin q.kept_rb
  <2>1. SUFFICES ASSUME r \in q.kept_rb PROVE FALSE
    OBVIOUS
  <2>2. r # None /\ q.host[r] \in q.kept_el
    BY <1>1, <2>1 DEF Loose, KeptInv, Pipe
  <2> QED BY <1>1, <1>2, <2>2
<1>5. RingsInv(z)
  BY <1>2 DEF Loose, Taken, RingsInv, Names, Alive, r
<1>11. \/ z.output[e] = None /\ z.kept_el = q.kept_el /\ z.kept_rb = q.kept_rb
       \/ /\ z.output[e] = r /\ r # None
          /\ z.kept_el = q.kept_el \cup {e} /\ z.kept_rb = q.kept_rb \cup {r}
  <2>1. q.kept_el \ {e} = q.kept_el /\ q.kept_rb \ {r} = q.kept_rb
    BY <1>1, <1>4
  <2> QED BY <2>1 DEF Taken, r
\* The rings of the others keep their hosts.
<1>6. ASSUME NEW x \in Els \ {e}, z.output[x] # None
      PROVE  /\ z.output[x] = q.output[x] /\ q.output[x] \in Alive(q) /\ FirstOf(q, x, q.output[x])
             /\ q.output[x] # r /\ q.host[q.output[x]] = x /\ z.host[q.output[x]] = x
  <2>1. z.output[x] = q.output[x] /\ q.output[x] # None
    BY <1>6 DEF Taken
  <2>2. q.output[x] \in Alive(q) /\ q.host[q.output[x]] = x /\ FirstOf(q, x, q.output[x])
    BY <2>1 DEF Loose, WritersInv
  <2>3. q.output[x] # r /\ q.output[x] \in Rings
    BY <1>1, <1>2, <2>1, <2>2, PipeRings
  <2>4. z.host[q.output[x]] = q.host[q.output[x]]
    BY <2>3 DEF Taken, r
  <2> QED BY <2>1, <2>2, <2>3, <2>4
<1>7. WritersInv(z)
  <2>1. ASSUME NEW x \in Els, z.output[x] # None
        PROVE  z.output[x] \in Alive(z) /\ z.host[z.output[x]] = x /\ FirstOf(z, x, z.output[x])
    <3> DEFINE y == q.output[x]
    <3>1. /\ z.output[x] = y /\ y \in Alive(q) /\ FirstOf(q, x, y)
          /\ q.host[y] = x /\ z.host[y] = x
      <4>1. CASE x = e
        <5>1. y = r /\ r # None /\ z.output[x] = y
          BY <1>3, <2>1, <4>1 DEF r
        <5>2. y \in Alive(q) /\ q.host[y] = x /\ FirstOf(q, x, y)
          BY <5>1 DEF Loose, WritersInv
        <5>3. z.host[y] = q.host[y]
          BY <1>2, <4>1, <5>1 DEF Taken, r
        <5> QED BY <5>1, <5>2, <5>3
      <4>2. CASE x # e
        BY <1>6, <2>1, <4>2
      <4> QED BY <4>1, <4>2
    <3> HIDE DEF y
    <3>2. PICK m \in 1..Len(q.rings) : q.rings[m] = y /\ \A l \in 1..(m - 1) : q.host[q.rings[l]] # x
      BY <3>1 DEF FirstOf
    <3>3. ASSUME NEW l \in 1..(m - 1) PROVE z.host[q.rings[l]] # x
      <4>1. l \in 1..Len(q.rings)
        BY <1>1, PipeRings
      <4>2. q.rings[l] \in Rings /\ q.host[q.rings[l]] # x
        BY <1>1, <3>2, <4>1, PipeRings
      <4>3. z.host[q.rings[l]] = q.host[q.rings[l]] \/ z.host[q.rings[l]] = None
        BY <4>2 DEF Taken
      <4> QED BY <1>1, <4>2, <4>3
    <3>4. z.rings = q.rings /\ Alive(z) = Alive(q)
      BY DEF Taken, Alive
    <3> QED BY <3>1, <3>2, <3>3, <3>4 DEF FirstOf
  <2> QED BY <2>1 DEF WritersInv
<1>8. KeptInv(z)
  <2>1. z.linked_el \cap z.kept_el = {}
    BY <1>11 DEF Loose, KeptInv, Taken
  <2>2. ASSUME NEW x \in z.kept_el PROVE z.output[x] \in z.kept_rb
    <3>1. CASE x = e
      BY <1>1, <1>11, <2>2, <3>1
    <3>2. CASE x # e
      <4>1. x \in q.kept_el /\ x \in Els \ {e}
        BY <1>1, <1>11, <2>2, <3>2 DEF Pipe
      <4>2. q.output[x] \in q.kept_rb
        BY <4>1 DEF Loose, KeptInv
      <4> QED BY <1>11, <4>1, <4>2 DEF Taken
    <3> QED BY <3>1, <3>2
  <2>3. ASSUME NEW s \in z.kept_rb PROVE z.host[s] \in z.kept_el /\ z.output[z.host[s]] = s
    <3>1. CASE s \in q.kept_rb
      <4>1. s # r /\ s \in Rings /\ z.host[s] = q.host[s]
        BY <1>1, <1>4, <3>1 DEF Taken, Pipe, r
      <4>2. q.host[s] \in q.kept_el /\ q.output[q.host[s]] = s
        BY <3>1 DEF Loose, KeptInv
      <4>3. q.host[s] # e /\ q.host[s] \in Els
        BY <1>1, <4>2 DEF Pipe
      <4> QED BY <1>11, <4>1, <4>2, <4>3 DEF Taken
    <3>2. CASE s \notin q.kept_rb
      <4>1. /\ s = r /\ z.output[e] = r /\ r # None
            /\ z.kept_el = q.kept_el \cup {e}
        BY <1>11, <2>3, <3>2
      <4>2. z.host[r] = e
        BY <1>2, <4>1 DEF Taken, r
      <4> QED BY <4>1, <4>2
    <3> QED BY <3>1, <3>2
  <2> QED BY <2>1, <2>2, <2>3 DEF KeptInv
<1>9. HeldInv(z)
  <2>1. ASSUME NEW x \in Els, z.output[x] # None
        PROVE  (x \in z.linked_el /\ z.output[x] \in z.linked_rb) \/ x \in z.kept_el
    <3>1. CASE x = e
      BY <1>11, <2>1, <3>1
    <3>2. CASE x # e
      <4>1. z.output[x] = q.output[x] /\ q.output[x] # None
        BY <2>1, <3>2 DEF Taken
      <4>2. (x \in q.linked_el /\ q.output[x] \in q.linked_rb) \/ x \in q.kept_el
        BY <4>1 DEF Loose, HeldInv
      <4> QED BY <1>11, <3>2, <4>1, <4>2 DEF Taken
    <3> QED BY <3>1, <3>2
  <2> QED BY <2>1 DEF HeldInv
<1>10. OrderInv(z)
  BY DEF Loose, OrderInv, Taken
<1> QED BY <1>1, <1>5, <1>7, <1>8, <1>9, <1>10 DEF Loose

\* The loop over the rings of the list clears the link of each element it takes
\* out: a ring that the element writes is first in the list, or is not alone there.
LEMMA DroppedIsTaken ==
  ASSUME NEW q, Fit(q), NEW e \in q.linked_el, q.rings # << >>
  PROVE  Taken(q, Dropped(q, e), e)
<1> DEFINE r == Head(q.rings)
           first == q.output[e] = r
           z == Dropped(q, e)
<1>1. /\ q \in Pipe /\ e \in Els /\ None \notin Rings
      /\ r \in Rings /\ r = q.rings[1]
  <2>1. q.rings \in Seq(Rings) /\ q \in Pipe
    BY DEF Fit, Pipe
  <2>2. r \in Rings /\ r = q.rings[1]
    BY <2>1, HeadTailProperties
  <2> QED BY <2>1, <2>2, PipeRings DEF Pipe
<1>2. first \/ q.output[e] = None \/ Len(q.rings) > 1
  <2>1. SUFFICES ASSUME q.output[e] # None, ~(Len(q.rings) > 1) PROVE first
    OBVIOUS
  <2>2. q.output[e] \in Alive(q)
    BY <1>1, <2>1 DEF Fit, HostedInv
  <2>3. PICK m \in 1..Len(q.rings) : q.rings[m] = q.output[e]
    BY <1>1, <2>2, PipeRings
  <2>4. m = 1
    BY <1>1, <2>1, PipeRings
  <2> QED BY <1>1, <2>3, <2>4
<1> DEFINE host == IF first THEN [q.host EXCEPT ![r] = None] ELSE q.host
           kept == IF first THEN q.kept_rb \ {r} ELSE q.kept_rb
<1>3. z = [q EXCEPT !.linked_el = q.linked_el \ {e}, !.kept_el = q.kept_el \ {e}, !.host = host,
                    !.kept_rb = kept, !.input[e] = None, !.output[e] = None]
  BY <1>1, <1>2 DEF Dropped, Pipe
<1>4. host \in [Rings -> Els \cup {None}] /\ kept \in SUBSET Rings
  BY <1>1 DEF Pipe
<1>5. \A s \in Rings : host[s] = q.host[s] \/ (s = q.output[e] /\ host[s] = None)
  BY <1>1 DEF Pipe
<1>6. kept \in {q.kept_rb, q.kept_rb \ {q.output[e]}}
  OBVIOUS
<1> HIDE DEF host, kept, z, first
<1>7. z \in Pipe
  BY <1>1, <1>3, <1>4 DEF Pipe
<1>8. /\ z.order = q.order /\ z.rings = q.rings /\ z.linked_rb = q.linked_rb /\ z.data = q.data
      /\ z.linked_el = q.linked_el \ {e} /\ z.kept_el = q.kept_el \ {e} /\ z.kept_rb = kept
      /\ z.host = host /\ z.output[e] = None
      /\ \A x \in Els \ {e} : z.output[x] = q.output[x]
  BY <1>1, <1>3 DEF Pipe
<1>9. Taken(q, z, e)
  BY <1>5, <1>6, <1>7, <1>8 DEF Taken
<1> QED BY <1>9 DEF z

\* An element whose ring is not found has none.
LEMMA ReservedIsTaken ==
  ASSUME NEW q, Fit(q), NEW e \in q.linked_el, q.rings # << >>, NEW active
  PROVE  Taken(q, Reserved(q, e, active), e)
<1> DEFINE found == q.output[e] \in Alive(q)
           works == found /\ e \in active
           z == Reserved(q, e, active)
<1>1. q \in Pipe /\ e \in Els /\ None \notin Rings /\ Alive(q) \subseteq Rings
  BY PipeRings DEF Fit, Pipe
<1>2. ~found => q.output[e] = None
  BY <1>1 DEF Fit, HostedInv
<1>3. found => q.output[e] \in Rings /\ q.output[e] # None
  BY <1>1
<1> DEFINE w == IF works THEN q.kept_el \cup {e} ELSE q.kept_el
           k == IF works THEN q.kept_rb \cup {q.output[e]} ELSE q.kept_rb
           o == IF found /\ ~works THEN None ELSE q.output[e]
           n == IF found THEN None ELSE q.input[e]
<1>4. z = [q EXCEPT !.linked_el = q.linked_el \ {e}, !.kept_el = w, !.kept_rb = k,
                    !.output[e] = o, !.input[e] = n]
  BY <1>1 DEF Reserved, Pipe
<1>5. /\ w \in SUBSET Els /\ k \in SUBSET Rings
      /\ o \in Rings \cup {None} /\ n \in Rings \cup {None}
  BY <1>1, <1>2, <1>3 DEF Pipe
<1>6. \/ o = None /\ w = q.kept_el /\ k = q.kept_rb
      \/ /\ o = q.output[e] /\ q.output[e] # None
         /\ w = q.kept_el \cup {e} /\ k = q.kept_rb \cup {q.output[e]}
  BY <1>2, <1>3
<1> HIDE DEF w, k, o, n, z
<1>7. z \in Pipe
  BY <1>1, <1>4, <1>5 DEF Pipe
<1>8. /\ z.order = q.order /\ z.rings = q.rings /\ z.linked_rb = q.linked_rb /\ z.data = q.data
      /\ z.linked_el = q.linked_el \ {e} /\ z.kept_el = w /\ z.kept_rb = k
      /\ z.host = q.host /\ z.output[e] = o
      /\ \A x \in Els \ {e} : z.output[x] = q.output[x]
  BY <1>1, <1>4 DEF Pipe
<1>9. Taken(q, z, e)
  BY <1>6, <1>7, <1>8 DEF Taken
<1> QED BY <1>9 DEF z

BreakStates == [p : Pipe, kept : BOOLEAN]

BreakOutcomes(s, e, active) ==
  {[s EXCEPT !.p = Dropped(s.p, e)],
   [s EXCEPT !.p = Reserved(s.p, e, active), !.kept = s.kept /\ s.p.output[e] \notin Alive(s.p)]}

LEMMA BreakOneIs ==
  ASSUME NEW s, NEW e, NEW k, NEW active
  PROVE  IF e \in s.p.linked_el THEN BreakOne(s, e, k, active) \in BreakOutcomes(s, e, active)
         ELSE BreakOne(s, e, k, active) = s
<1>1. ASSUME e \notin s.p.linked_el PROVE BreakOne(s, e, k, active) = s
  BY Zenon, <1>1 DEF BreakOne
<1>2. ASSUME e \in s.p.linked_el, ~s.kept /\ e # k
      PROVE  BreakOne(s, e, k, active) = [s EXCEPT !.p = Dropped(s.p, e)]
  BY Zenon, <1>2 DEF BreakOne
<1>3. ASSUME e \in s.p.linked_el, ~(~s.kept /\ e # k)
      PROVE  BreakOne(s, e, k, active) =
               [s EXCEPT !.p = Reserved(s.p, e, active),
                         !.kept = s.kept /\ s.p.output[e] \notin Alive(s.p)]
  BY Zenon, <1>3 DEF BreakOne
<1> QED BY Zenon, <1>1, <1>2, <1>3 DEF BreakOutcomes

\* In a pipeline of any fields, so that the loop is a function of its states.
LEMMA BreakOneType ==
  ASSUME NEW s \in BreakStates, NEW e \in Els, NEW k, NEW active
  PROVE  BreakOne(s, e, k, active) \in BreakStates
<1>1. s.p \in Pipe /\ s.kept \in BOOLEAN
  BY DEF BreakStates
<1>2. Dropped(s.p, e) \in Pipe
  <2> DEFINE q == s.p
             r == Head(q.rings)
             first == q.output[e] = r
             seen == first \/ q.output[e] = None \/ Len(q.rings) > 1
             host == IF first THEN [q.host EXCEPT ![r] = None] ELSE q.host
             l == IF seen THEN q.linked_el \ {e} ELSE q.linked_el
             w == IF seen THEN q.kept_el \ {e} ELSE q.kept_el
             b == IF first THEN q.kept_rb \ {r} ELSE q.kept_rb
  <2>1. q.rings # << >> =>
          Dropped(q, e) = [q EXCEPT !.linked_el = l, !.kept_el = w, !.host = host, !.kept_rb = b,
                                    !.input[e] = None, !.output[e] = None]
    BY <1>1 DEF Dropped, Pipe
  <2>2. q.rings = << >> => Dropped(q, e) = q
    BY DEF Dropped
  <2>3. /\ host \in [Rings -> Els \cup {None}]
        /\ l \in SUBSET Els /\ w \in SUBSET Els /\ b \in SUBSET Rings
    BY <1>1 DEF Pipe
  <2> HIDE DEF host, l, w, b
  <2>4. q \in Pipe
    BY <1>1
  <2> HIDE DEF q
  <2>5. [q EXCEPT !.linked_el = l, !.kept_el = w, !.host = host, !.kept_rb = b,
                  !.input[e] = None, !.output[e] = None] \in Pipe
    BY <2>3, <2>4 DEF Pipe
  <2>6. Dropped(q, e) \in Pipe
    BY <2>1, <2>2, <2>4, <2>5
  <2> QED BY <2>6 DEF q
<1>3. Reserved(s.p, e, active) \in Pipe
  <2> DEFINE q == s.p
             found == q.output[e] \in Alive(q)
             works == found /\ e \in active
             w == IF works THEN q.kept_el \cup {e} ELSE q.kept_el
             b == IF works THEN q.kept_rb \cup {q.output[e]} ELSE q.kept_rb
             o == IF found /\ ~works THEN None ELSE q.output[e]
             n == IF found THEN None ELSE q.input[e]
  <2>1. q.rings # << >> =>
          Reserved(q, e, active) = [q EXCEPT !.linked_el = q.linked_el \ {e}, !.kept_el = w,
                                             !.kept_rb = b, !.output[e] = o, !.input[e] = n]
    BY <1>1 DEF Reserved, Pipe
  <2>2. q.rings = << >> => Reserved(q, e, active) = q
    BY DEF Reserved
  <2>3. /\ w \in SUBSET Els /\ b \in SUBSET Rings
        /\ o \in Rings \cup {None} /\ n \in Rings \cup {None}
    BY <1>1, PipeRings DEF Pipe
  <2> HIDE DEF w, b, o, n
  <2>4. q \in Pipe
    BY <1>1
  <2> HIDE DEF q
  <2>5. [q EXCEPT !.linked_el = q.linked_el \ {e}, !.kept_el = w,
                  !.kept_rb = b, !.output[e] = o, !.input[e] = n] \in Pipe
    BY <2>3, <2>4 DEF Pipe
  <2>6. Reserved(q, e, active) \in Pipe
    BY <2>1, <2>2, <2>4, <2>5
  <2> QED BY <2>6 DEF q
<1>4. (s.kept /\ s.p.output[e] \notin Alive(s.p)) \in BOOLEAN
  OBVIOUS
<1>5. BreakOutcomes(s, e, active) \subseteq BreakStates
  BY <1>1, <1>2, <1>3, <1>4 DEF BreakOutcomes, BreakStates
<1> QED BY <1>5, BreakOneIs

\* The loop of audio_pipeline_breakup_elements, turn by turn.
BreakLoop(start, k, active, d) ==
  FoldLeft(LAMBDA s, e : BreakOne(s, e, k, active), start, d)

BreakFolds(h, start, k, active, d) ==
  [s \in SUBSET DOMAIN d |->
    IF s = {} THEN start ELSE BreakOne(h[s \ {Max(s)}], d[Max(s)], k, active)]

LEMMA BreakFold ==
  ASSUME NEW k, NEW active, NEW start, NEW d, NEW h, h = BreakFolds(h, start, k, active, d)
  PROVE  \E g : /\ g = BreakFolds(g, start, k, active, d)
                /\ BreakLoop(start, k, active, d) = g[DOMAIN d]
BY Zenon DEF BreakLoop, BreakFolds, FoldLeft, MapThenFoldSet

BreakRuns(start, k, active, d) ==
  \E f : /\ f[0] = start
         /\ \A i \in 1..Len(d) : f[i] = BreakOne(f[i - 1], d[i], k, active)
         /\ BreakLoop(start, k, active, d) = f[Len(d)]

LEMMA BreakTurns ==
  ASSUME NEW start \in BreakStates, NEW d \in Seq(Els), NEW k, NEW active
  PROVE  BreakRuns(start, k, active, d)
<1> DEFINE n == Len(d)
           F == [z \in (1..n) \X BreakStates |-> BreakOne(z[2], d[z[1]], k, active)]
<1>1. n \in Nat /\ DOMAIN d = 1..n /\ \A i \in 1..n : d[i] \in Els
  BY LenProperties, ElementOfSeq
<1> HIDE DEF n
<1>2. F \in [(1..n) \X BreakStates -> BreakStates]
  BY <1>1, BreakOneType
<1>3. PICK h \in [SUBSET (1..n) -> BreakStates] : Folds(h, n, start, F)
  <2> HIDE DEF F
  <2> QED BY <1>1, <1>2, FoldExists
<1>4. \A s \in SUBSET (1..n) : s # {} => Max(s) \in 1..n /\ s \ {Max(s)} \in SUBSET (1..n)
  BY <1>1, Greatest
<1>5. \A s \in SUBSET (1..n) : h[s] = BreakFolds(h, start, k, active, d)[s]
  <2> TAKE s \in SUBSET (1..n)
  <2>1. CASE s = {}
    BY <1>1, <1>3, <2>1 DEF Folds, BreakFolds
  <2>2. CASE s # {}
    <3>1. <<Max(s), h[s \ {Max(s)}]>> \in (1..n) \X BreakStates
      BY <1>4, <2>2
    <3>2. h[s] = F[<<Max(s), h[s \ {Max(s)}]>>]
      BY <1>3, <2>2 DEF Folds
    <3>3. h[s] = BreakOne(h[s \ {Max(s)}], d[Max(s)], k, active)
      BY <3>1, <3>2
    <3> QED BY <1>1, <1>4, <2>2, <3>3 DEF BreakFolds
  <2> QED BY <2>1, <2>2
<1>6. h = BreakFolds(h, start, k, active, d)
  BY <1>1, <1>5 DEF BreakFolds
<1> HIDE DEF F
<1>7. PICK g : /\ g = BreakFolds(g, start, k, active, d)
               /\ BreakLoop(start, k, active, d) = g[DOMAIN d]
  BY <1>6, BreakFold
<1>8. \A s \in SUBSET (1..n) :
        g[s] = IF s = {} THEN start ELSE BreakOne(g[s \ {Max(s)}], d[Max(s)], k, active)
  <2>1. \A s \in SUBSET DOMAIN d : BreakFolds(g, start, k, active, d)[s] =
          IF s = {} THEN start ELSE BreakOne(g[s \ {Max(s)}], d[Max(s)], k, active)
    BY DEF BreakFolds
  <2> QED BY <1>1, <1>7, <2>1
<1> DEFINE f == [i \in 0..n |-> g[1..i]]
<1>9. f[0] = start
  <2>1. 1..0 = {} /\ 0 \in 0..n /\ {} \in SUBSET (1..n)
    BY <1>1
  <2> QED BY <1>8, <2>1
<1>10. ASSUME NEW i \in 1..n PROVE f[i] = BreakOne(f[i - 1], d[i], k, active)
  <2>1. /\ 1..i \in SUBSET (1..n) /\ 1..i # {}
        /\ Max(1..i) = i /\ (1..i) \ {Max(1..i)} = 1..(i - 1)
    BY <1>1, GreatestUpTo
  <2>2. g[1..i] = BreakOne(g[1..(i - 1)], d[i], k, active)
    BY <1>8, <2>1
  <2>3. i \in 0..n /\ i - 1 \in 0..n
    BY <1>1
  <2> QED BY <2>2, <2>3
<1>11. BreakLoop(start, k, active, d) = f[n]
  <2>1. f[n] = g[1..n]
    BY <1>1
  <2> QED BY <1>1, <1>7, <2>1
<1> HIDE DEF f
<1>12. /\ BreakLoop(start, k, active, d) = f[Len(d)]
       /\ \A i \in 1..Len(d) : f[i] = BreakOne(f[i - 1], d[i], k, active)
  BY <1>10, <1>11 DEF n
<1> QED BY Zenon, <1>9, <1>12 DEF BreakRuns

LEMMA BreakOnePipe ==
  ASSUME NEW s \in BreakStates, NEW e \in s.p.linked_el, NEW k, NEW active
  PROVE  BreakOne(s, e, k, active).p \in {Dropped(s.p, e), Reserved(s.p, e, active)}
<1> DEFINE t == BreakOne(s, e, k, active)
           d == Dropped(s.p, e)
           r == Reserved(s.p, e, active)
           b == s.kept /\ s.p.output[e] \notin Alive(s.p)
<1>1. t = [s EXCEPT !.p = d] \/ t = [s EXCEPT !.p = r, !.kept = b]
  <2>1. t \in BreakOutcomes(s, e, active)
    BY BreakOneIs
  <2> HIDE DEF t
  <2> QED BY Zenon, <2>1 DEF BreakOutcomes
<1> HIDE DEF t, d, r, b
<1>2. t.p = d \/ t.p = r
  BY <1>1 DEF BreakStates
<1> QED BY <1>2 DEF t, d, r

\* The loop after its turn i: the first i elements are not linked.
BrokenUpTo(q, s, i) ==
  /\ s \in BreakStates /\ Fit(s.p) /\ (Good(q) => Loose(s.p)) /\ s.p.order = q.order
  /\ s.p.rings # << >> => \A j \in 1..i : q.order[j] \notin s.p.linked_el

LEMMA BreakGoesOn ==
  ASSUME NEW q \in Pipe, NEW s, NEW i \in 1..Len(q.order), BrokenUpTo(q, s, i - 1),
         NEW k, NEW active
  PROVE  BrokenUpTo(q, BreakOne(s, q.order[i], k, active), i)
<1> DEFINE e == q.order[i]
           t == BreakOne(s, e, k, active)
<1>1. e \in Els /\ Len(q.order) \in Nat
  BY LenProperties, ElementOfSeq DEF Pipe
<1>2. /\ s \in BreakStates /\ Fit(s.p) /\ (Good(q) => Loose(s.p)) /\ s.p.order = q.order
      /\ s.p.rings # << >> => \A j \in 1..(i - 1) : q.order[j] \notin s.p.linked_el
  BY DEF BrokenUpTo
<1>3. t \in BreakStates
  BY <1>1, <1>2, BreakOneType
<1>4. \A j \in 1..i : j = i \/ j \in 1..(i - 1)
  BY <1>1
<1>5. CASE e \notin s.p.linked_el
  <2>1. t = s
    BY <1>5, BreakOneIs
  <2> QED BY <1>2, <1>4, <1>5, <2>1 DEF BrokenUpTo
<1>6. CASE e \in s.p.linked_el /\ s.p.rings # << >>
  <2>1. Taken(s.p, Dropped(s.p, e), e) /\ Taken(s.p, Reserved(s.p, e, active), e)
    BY <1>2, <1>6, DroppedIsTaken, ReservedIsTaken
  <2>2. t.p = Dropped(s.p, e) \/ t.p = Reserved(s.p, e, active)
    BY <1>2, <1>6, BreakOnePipe
  <2> HIDE DEF t, e
  <2>3. Taken(s.p, t.p, e)
    BY <2>1, <2>2
  <2>4. Fit(t.p) /\ (Good(q) => Loose(t.p))
    BY <1>2, <1>6, <2>3, TakenIsFit, TakenIsLoose
  <2>5. t.p.order = q.order /\ t.p.linked_el = s.p.linked_el \ {e}
    BY <1>2, <2>3 DEF Taken
  <2>6. \A j \in 1..i : q.order[j] \notin t.p.linked_el
    BY <1>2, <1>4, <1>6, <2>5 DEF e
  <2>7. BrokenUpTo(q, t, i)
    BY <1>3, <2>4, <2>5, <2>6 DEF BrokenUpTo
  <2> QED BY <2>7 DEF t, e
<1>7. CASE e \in s.p.linked_el /\ s.p.rings = << >>
  <2>1. Dropped(s.p, e) = s.p /\ Reserved(s.p, e, active) = s.p
    BY <1>7 DEF Dropped, Reserved
  <2>2. t.p = Dropped(s.p, e) \/ t.p = Reserved(s.p, e, active)
    BY <1>2, <1>7, BreakOnePipe
  <2> HIDE DEF t, e
  <2>3. t.p = s.p
    BY <2>1, <2>2
  <2>4. BrokenUpTo(q, t, i)
    BY <1>2, <1>3, <1>7, <2>3 DEF BrokenUpTo
  <2> QED BY <2>4 DEF t, e
<1> QED BY <1>5, <1>6, <1>7

BreakEnd(k, active) == BreakLoop([p |-> p, kept |-> TRUE], k, active, p.order)

LEMMA BreakupIs ==
  ASSUME NEW k, NEW active, Breakup(k, active)
  PROVE  LET z == BreakEnd(k, active).p IN
         /\ p' = [z EXCEPT !.linked_rb = @ \cap z.kept_rb, !.data = z.kept_rb,
                           !.short = FALSE, !.linked = FALSE]
         /\ chain' = << >> /\ astray' = astray
BY Zenon DEF Breakup, Broken, BreakEnd, BreakLoop

LEMMA BreakupIsSound ==
  ASSUME Sound(p, chain, astray), NEW k, NEW active, Breakup(k, active)
  PROVE  Sound(p', chain', astray')
<1> DEFINE end == BreakEnd(k, active)
           start == [p |-> p, kept |-> TRUE]
           n == Len(p.order)
           z == end.p
<1>1. p \in Pipe /\ Fit(p) /\ (~astray => Good(p)) /\ p.order \in Seq(Els) /\ n \in Nat
  BY LenProperties DEF Sound, Fit, Pipe
<1>2. /\ p' = [z EXCEPT !.linked_rb = @ \cap z.kept_rb, !.data = z.kept_rb,
                        !.short = FALSE, !.linked = FALSE]
      /\ chain' = << >> /\ astray' = astray
  BY Zenon, BreakupIs
<1>3. start \in BreakStates
  BY <1>1 DEF BreakStates
<1> HIDE DEF start
<1>4. PICK f : /\ f[0] = start
               /\ \A i \in 1..n : f[i] = BreakOne(f[i - 1], p.order[i], k, active)
               /\ end = f[n]
  <2>1. BreakRuns(start, k, active, p.order)
    BY <1>1, <1>3, BreakTurns
  <2>2. end = BreakLoop(start, k, active, p.order)
    BY DEF BreakEnd, start
  <2> QED BY Zenon, <2>1, <2>2 DEF BreakRuns
<1> HIDE DEF end
<1> DEFINE T == {i \in 0..n : BrokenUpTo(p, f[i], i)}
<1>5. 0 \in T
  <2>1. BrokenUpTo(p, start, 0)
    BY <1>1, <1>3 DEF BrokenUpTo, Good, Loose, start
  <2> QED BY <1>1, <1>4, <2>1
<1>6. ASSUME NEW i \in 1..n, i - 1 \in T
      PROVE  i \in T
  <2>1. BrokenUpTo(p, f[i - 1], i - 1) /\ i \in 0..n
    BY <1>1, <1>6
  <2> QED BY <1>1, <1>4, <2>1, BreakGoesOn
<1>7. BrokenUpTo(p, end, n)
  <2> HIDE DEF T, n
  <2>1. 0..n \subseteq T
    BY <1>1, <1>5, <1>6, Upward
  <2>2. n \in T
    BY <1>1, <2>1
  <2> QED BY <1>4, <2>2 DEF T
<1>8. Fit(z) /\ (Good(p) => Loose(z)) /\ z.order = p.order /\ z \in Pipe
  BY <1>7 DEF BrokenUpTo, Fit
<1>9. z.rings # << >> => z.linked_el = {}
  <2>1. SUFFICES ASSUME z.rings # << >>, NEW e \in z.linked_el PROVE FALSE
    OBVIOUS
  <2>2. e \in ToSet(p.order)
    BY <1>8, <2>1 DEF Fit, OrderInv
  <2>3. PICK j \in 1..n : p.order[j] = e
    BY <1>1, <2>2, LenProperties DEF ToSet
  <2> QED BY <1>7, <2>1, <2>3 DEF BrokenUpTo
<1> HIDE DEF z
<1>10. /\ p' \in Pipe /\ p'.order = z.order /\ p'.rings = z.rings /\ p'.host = z.host
       /\ p'.linked_el = z.linked_el /\ p'.kept_el = z.kept_el /\ p'.kept_rb = z.kept_rb
       /\ p'.linked_rb = z.linked_rb \cap z.kept_rb /\ p'.data = z.kept_rb
       /\ p'.input = z.input /\ p'.output = z.output /\ ~p'.linked
  BY <1>2, <1>8 DEF Pipe
<1>11. ASSUME NEW x \in Els, z.output[x] # None
       PROVE  z.output[x] \in Alive(z) /\ z.host[z.output[x]] = x /\ z.rings # << >>
              /\ z.linked_el = {} /\ z.output[x] \in z.kept_rb
  <2>1. /\ z.output[x] \in Alive(z) /\ z.host[z.output[x]] = x
        /\ z.output[x] \in z.kept_rb \/ x \in z.linked_el
    BY <1>8, <1>11 DEF Fit, HostedInv
  <2>2. z.rings # << >>
    BY <1>8, <2>1, PipeRings
  <2> QED BY <1>9, <2>1, <2>2
<1>12. OrderInv(p') /\ RingsInv(p')
  BY <1>8, <1>10 DEF Fit, OrderInv, RingsInv, Names, Alive
<1>13. HostedInv(p')
  BY <1>10, <1>11 DEF HostedInv, Alive
<1>14. ASSUME Good(p) PROVE Good(p')
  <2>1. Loose(z)
    BY <1>8, <1>14
  <2>2. WritersInv(p') /\ KeptInv(p')
    BY <1>10, <2>1 DEF Loose, WritersInv, KeptInv, Alive, FirstOf
  <2>3. HeldInv(p')
    BY <1>10, <1>11, <2>1 DEF Loose, HeldInv
  <2>4. HostsInv(p')
    BY <1>10 DEF HostsInv
  <2> QED BY <1>10, <1>12, <2>2, <2>3, <2>4 DEF Good
<1> QED BY <1>1, <1>2, <1>10, <1>12, <1>13, <1>14 DEF Sound, Fit

-----------------------------------------------------------------------------
(* audio_pipeline_relink                                                   *)

\* What taking ring w for e changes, before e is linked: z is the pipeline after.
Took(q, z, e, w) ==
  /\ z \in Pipe /\ w \in Rings \cup {None}
  /\ z.order = q.order /\ z.linked = q.linked /\ z.short = q.short
  /\ z.linked_el = q.linked_el /\ z.kept_el = q.kept_el \ {e}
  /\ z.input = q.input /\ z.output = q.output
  /\ Alive(z) = Alive(q) \cup ({w} \ {None})
  /\ Len(q.rings) <= Len(z.rings) /\ \A m \in 1..Len(q.rings) : z.rings[m] = q.rings[m]
  /\ z.linked_rb = q.linked_rb \cup ({w} \ {None}) /\ z.kept_rb = q.kept_rb \ {w}
  /\ \A r \in Rings \ {w} : z.host[r] = q.host[r] \/ (z.host[r] = None /\ r \notin Names(q))
  /\ IF w = None THEN \A x \in Alive(q) : z.host[x] # e ELSE z.host[w] = e /\ FirstOf(z, e, w)
  /\ IF e \in q.kept_el THEN w = q.output[e] ELSE w \notin Names(q)
  /\ z.data \subseteq q.data /\ q.data \ z.data \subseteq {w}
  /\ IF e \in q.kept_el THEN z.data = q.data ELSE w \notin z.data

\* Less is known of it if elements may host second rings.
Brought(q, z, e, w) ==
  /\ z \in Pipe /\ w \in Rings \cup {None}
  /\ z.order = q.order /\ z.short = q.short /\ z.linked_el = q.linked_el
  /\ z.input = q.input /\ z.output = q.output
  /\ Alive(z) = Alive(q) \cup ({w} \ {None})
  /\ z.linked_rb = q.linked_rb \cup ({w} \ {None}) /\ z.kept_rb = q.kept_rb \ {w}
  /\ \A r \in Rings \ {w} : z.host[r] = q.host[r] \/ (z.host[r] = None /\ r \notin Names(q))
  /\ w # None => z.host[w] = e /\ (w \notin Names(q) \/ q.host[w] = e)
  /\ z.data \subseteq q.data

\* What linking e changes after that.
Wired(z, y, e) ==
  /\ y \in Pipe /\ y.order = z.order /\ y.linked = z.linked
  /\ y.linked_el = z.linked_el \cup {e} /\ y.kept_el = z.kept_el
  /\ y.rings = z.rings /\ y.linked_rb = z.linked_rb /\ y.kept_rb = z.kept_rb
  /\ y.host = z.host /\ y.data = z.data
  /\ \A x \in Els \ {e} : y.output[x] = z.output[x] /\ y.input[x] = z.input[x]

LEMMA WiredPasses ==
  ASSUME NEW q, NEW z, NEW y, NEW e, NEW w, Brought(q, z, e, w), Wired(z, y, e),
         y.output[e] = q.output[e] \/ (w # None /\ y.output[e] = w)
  PROVE  Pass(q, y, e, w)
<1>1. Alive(y) = Alive(z)
  BY DEF Wired, Alive
<1>2. OthersSame(q, y, e)
  BY DEF Brought, Wired, OthersSame
<1>3. /\ y \in Pipe /\ w \in Rings \cup {None} /\ y.order = q.order
      /\ y.linked_el = q.linked_el \cup {e}
      /\ Alive(y) = Alive(q) \cup ({w} \ {None})
      /\ y.linked_rb = q.linked_rb \cup ({w} \ {None}) /\ y.kept_rb = q.kept_rb \ {w}
      /\ y.data \subseteq q.data
  BY <1>1 DEF Brought, Wired
<1>4. /\ \A r \in Rings \ {w} : y.host[r] = q.host[r] \/ (y.host[r] = None /\ r \notin Names(q))
      /\ w # None => y.host[w] = e /\ (w \notin Names(q) \/ q.host[w] = e)
  BY DEF Brought, Wired
<1> QED BY <1>2, <1>3, <1>4 DEF Pass

LEMMA WiredTurns ==
  ASSUME NEW q, NEW z, NEW y, NEW e, NEW w, Took(q, z, e, w), Wired(z, y, e),
         y.output[e] \in {w, None}, e \in q.kept_el => y.output[e] = w
  PROVE  Turn(q, y, e, w)
<1>1. Alive(y) = Alive(z) /\ (FirstOf(z, e, w) => FirstOf(y, e, w))
  BY DEF Wired, Alive, FirstOf
<1>2. /\ y \in Pipe /\ w \in Rings \cup {None}
      /\ y.order = q.order /\ y.linked = q.linked
      /\ y.linked_el = q.linked_el \cup {e} /\ y.kept_el = q.kept_el \ {e}
      /\ Alive(y) = Alive(q) \cup ({w} \ {None})
      /\ y.linked_rb = q.linked_rb \cup ({w} \ {None}) /\ y.kept_rb = q.kept_rb \ {w}
  BY <1>1 DEF Took, Wired
<1>3. Len(q.rings) <= Len(y.rings) /\ \A m \in 1..Len(q.rings) : y.rings[m] = q.rings[m]
  BY DEF Took, Wired
<1>4. /\ \A r \in Rings \ {w} : y.host[r] = q.host[r] \/ (y.host[r] = None /\ r \notin Names(q))
      /\ w # None => y.host[w] = e /\ FirstOf(y, e, w)
  BY <1>1 DEF Took, Wired
<1>5. /\ IF e \in q.kept_el THEN w = q.output[e] /\ y.output[e] = w ELSE w \notin Names(q)
      /\ y.output[e] \in {w, None}
      /\ \A x \in Els \ {e} : y.output[x] = q.output[x] /\ y.input[x] = q.input[x]
  BY DEF Took, Wired
<1>6. /\ y.data \subseteq q.data /\ q.data \ y.data \subseteq {w}
      /\ IF e \in q.kept_el THEN y.data = q.data ELSE w \notin y.data
  BY DEF Took, Wired
<1> QED BY <1>2, <1>3, <1>4, <1>5, <1>6 DEF Turn

\* The first place in the list of a ring that T selects.
LEMMA FirstPlace ==
  ASSUME NEW q \in Pipe, NEW I \in SUBSET (1..Len(q.rings)), NEW j,
         j = IF I # {} THEN Min(I) ELSE 0
  PROVE  /\ j = 0 => I = {}
         /\ j # 0 => j \in I /\ \A l \in 1..(j - 1) : l \in 1..Len(q.rings) /\ l \notin I
         /\ j \in Nat
<1>1. Len(q.rings) \in Nat
  BY PipeRings
<1>2. CASE I = {}
  BY <1>2
<1>3. CASE I # {}
  <2>1. I \in SUBSET Nat
    BY <1>1
  <2>2. Min(I) \in I /\ \A m \in I : Min(I) <= m
    BY <1>3, <2>1, Least DEF Min
  <2>3. j \in 1..Len(q.rings) /\ \A m \in I : j <= m
    BY <1>3, <2>2
  <2>4. ASSUME NEW l \in 1..(j - 1) PROVE l \in 1..Len(q.rings) /\ l \notin I
    BY <1>1, <2>3
  <2> QED BY <1>3, <2>2, <2>3, <2>4
<1> QED BY <1>2, <1>3

\* A kept element takes the ring that it writes.
LEMMA TakeKeptTook ==
  ASSUME NEW q, Good(q), NEW e \in q.kept_el
  PROVE  /\ TakeKept(q, e).ring = q.output[e] /\ q.output[e] # None
         /\ Took(q, TakeKept(q, e).p, e, q.output[e])
<1> DEFINE r == q.output[e]
           I == {m \in 1..Len(q.rings) : q.host[q.rings[m]] = e}
           j == SelectInSeq(q.rings, LAMBDA x : q.host[x] = e)
<1>1. /\ q \in Pipe /\ e \in Els /\ r \in q.kept_rb /\ r \in Rings /\ r # None
      /\ Len(q.rings) \in Nat
  BY PipeRings DEF Good, KeptInv, Pipe
<1>2. q.host[r] = e /\ FirstOf(q, e, r) /\ r \in Alive(q)
  BY <1>1 DEF Good, WritersInv
<1>3. PICK m \in 1..Len(q.rings) : q.rings[m] = r /\ \A l \in 1..(m - 1) : q.host[q.rings[l]] # e
  BY <1>2 DEF FirstOf
<1>4. j = IF I # {} THEN Min(I) ELSE 0
  BY Zenon DEF SelectInSeq
<1>5. /\ j = 0 => I = {}
      /\ j # 0 => j \in I /\ \A l \in 1..(j - 1) : l \in 1..Len(q.rings) /\ l \notin I
      /\ j \in Nat
  <2>1. I \in SUBSET (1..Len(q.rings))
    OBVIOUS
  <2> HIDE DEF I, j
  <2> QED BY <1>1, <1>4, <2>1, FirstPlace
<1>6. TakeKept(q, e) = IF j = 0 THEN [p |-> q, ring |-> None]
                       ELSE [p |-> [Hosted(q, q.rings[j], e) EXCEPT !.kept_el = @ \ {e}],
                             ring |-> q.rings[j]]
  BY Zenon DEF TakeKept
<1> HIDE DEF j
<1>7. j = m
  <2>1. m \in I
    BY <1>2, <1>3
  <2>2. j # 0 /\ j \in 1..Len(q.rings) /\ q.host[q.rings[j]] = e
    BY <1>5, <2>1
  <2>3. ~(m < j)
    BY <1>5, <2>1, <2>2
  <2>4. ~(j < m)
    BY <1>3, <2>2
  <2> QED BY <1>1, <2>2, <2>3, <2>4
<1>8. j # 0 /\ q.rings[j] = r
  BY <1>3, <1>7
<1> DEFINE z == [Hosted(q, r, e) EXCEPT !.kept_el = @ \ {e}]
<1>9. TakeKept(q, e) = [p |-> z, ring |-> r]
  BY <1>6, <1>8
<1> HIDE DEF r
<1>10. z \in Pipe
  BY <1>1 DEF Hosted, Pipe
<1>11. /\ z.order = q.order /\ z.linked = q.linked /\ z.short = q.short
       /\ z.linked_el = q.linked_el /\ z.kept_el = q.kept_el \ {e}
       /\ z.input = q.input /\ z.output = q.output /\ z.rings = q.rings /\ z.data = q.data
       /\ z.linked_rb = q.linked_rb \cup {r} /\ z.kept_rb = q.kept_rb \ {r}
       /\ z.host = q.host
  BY <1>1, <1>2 DEF Hosted, Pipe
<1> HIDE DEF z
<1>12. Took(q, z, e, r)
  <2>1. FirstOf(z, e, r) /\ Alive(z) = Alive(q)
    BY <1>2, <1>11 DEF FirstOf, Alive
  <2>2. {r} \ {None} = {r} /\ Alive(q) \cup {r} = Alive(q)
    BY <1>1, <1>2
  <2>3. r = q.output[e]
    BY DEF r
  <2> QED BY <1>1, <1>2, <1>10, <1>11, <2>1, <2>2, <2>3 DEF Took
<1> QED BY <1>1, <1>9, <1>12 DEF r

\* A ring that is linked or kept has a host that is.
LEMMA NotHosting ==
  ASSUME NEW q, Good(q), NEW e, e \notin q.linked_el, e \notin q.kept_el
  PROVE  \A r \in Names(q) : q.host[r] # e
BY DEF Good, HostsInv, KeptInv, Names

\* Another element takes a free ring that has no host, or none; the free rings
\* before it lose theirs, so none of those it hosted is before it.
LEMMA TakeTook ==
  ASSUME NEW q, Good(q), NEW e \in Els, e \notin q.linked_el, e \notin q.kept_el
  PROVE  /\ Took(q, Take(q, e).p, e, Take(q, e).ring)
         /\ Take(q, e).ring = None \/ Take(q, e).ring \in Alive(q)
<1> DEFINE free == ToSet(q.rings) \ (q.linked_rb \cup q.kept_rb)
           I == {m \in 1..Len(q.rings) : q.rings[m] \in free /\ q.host[q.rings[m]] = None}
           j == SelectInSeq(q.rings, LAMBDA r : r \in free /\ q.host[r] = None)
           passed == free \cap {q.rings[i] : i \in 1..(IF j = 0 THEN Len(q.rings) ELSE j - 1)}
           host == [r \in Rings |-> IF r \in passed THEN None ELSE q.host[r]]
           cleared == [q EXCEPT !.host = host]
<1>1. q \in Pipe /\ Len(q.rings) \in Nat /\ None \notin Els /\ None \notin Rings
  BY PipeRings DEF Good
<1>2. /\ \A m \in 1..Len(q.rings) : q.rings[m] \in Rings /\ q.rings[m] \in Alive(q)
      /\ \A r \in Alive(q) : \E m \in 1..Len(q.rings) : q.rings[m] = r
      /\ Alive(q) \subseteq Rings
  BY <1>1, PipeRings
<1>3. j = IF I # {} THEN Min(I) ELSE 0
  BY Zenon DEF SelectInSeq
<1>4. /\ j = 0 => I = {}
      /\ j # 0 => j \in I /\ \A l \in 1..(j - 1) : l \in 1..Len(q.rings) /\ l \notin I
      /\ j \in Nat
  <2>1. I \in SUBSET (1..Len(q.rings))
    OBVIOUS
  <2> HIDE DEF I, j
  <2> QED BY <1>1, <1>3, <2>1, FirstPlace
<1>5. Take(q, e) = IF j = 0 THEN [p |-> cleared, ring |-> None]
                   ELSE [p |-> [Hosted(cleared, q.rings[j], e) EXCEPT !.data = @ \ {q.rings[j]}],
                         ring |-> q.rings[j]]
  BY <1>1 DEF Take, Pipe
<1> HIDE DEF j
<1>6. free = Alive(q) \ Names(q)
  BY DEF Alive, Names
<1>7. passed \subseteq free
  OBVIOUS
<1> DEFINE end == IF j = 0 THEN Len(q.rings) ELSE j - 1
<1>8. ASSUME NEW l \in 1..Len(q.rings), l <= end, q.rings[l] \in free
      PROVE  q.rings[l] \in passed
  BY <1>1, <1>4, <1>8
<1> HIDE DEF end
<1>9. \A r \in Names(q) : q.host[r] # e
  BY NotHosting
<1> HIDE DEF free, passed
<1>10. host \in [Rings -> Els \cup {None}]
  BY <1>1 DEF Pipe
<1>11. \A r \in Rings : host[r] = IF r \in passed THEN None ELSE q.host[r]
  OBVIOUS
<1> HIDE DEF host
\* None of the rings that were passed has e for its host.
<1>12. ASSUME NEW l \in 1..Len(q.rings), l <= end
       PROVE  host[q.rings[l]] # e
  <2>1. q.rings[l] \in Rings /\ q.rings[l] \in Alive(q)
    BY <1>2
  <2>2. CASE q.rings[l] \in free
    BY <1>1, <1>8, <1>11, <1>12, <2>1, <2>2
  <2>3. CASE q.rings[l] \notin free
    <3>1. q.rings[l] \in Names(q) /\ q.rings[l] \notin passed
      BY <1>6, <1>7, <2>1, <2>3
    <3> QED BY <1>9, <1>11, <2>1, <3>1
  <2> QED BY <2>2, <2>3
<1>13. \A r \in Rings : host[r] = q.host[r] \/ (host[r] = None /\ r \notin Names(q))
  BY <1>6, <1>7, <1>11
<1>14. /\ cleared \in Pipe /\ cleared.host = host
       /\ cleared.order = q.order /\ cleared.linked = q.linked /\ cleared.short = q.short
       /\ cleared.linked_el = q.linked_el /\ cleared.kept_el = q.kept_el
       /\ cleared.input = q.input /\ cleared.output = q.output /\ cleared.rings = q.rings
       /\ cleared.data = q.data /\ cleared.linked_rb = q.linked_rb /\ cleared.kept_rb = q.kept_rb
  BY <1>1, <1>10 DEF Pipe
<1> HIDE DEF cleared
<1>15. q.kept_el = q.kept_el \ {e}
  OBVIOUS
<1>16. CASE j = 0
  <2>1. Take(q, e) = [p |-> cleared, ring |-> None]
    BY <1>5, <1>16
  <2>2. \A x \in Alive(q) : cleared.host[x] # e
    <3>1. end = Len(q.rings)
      BY <1>16 DEF end
    <3> QED BY <1>1, <1>2, <1>12, <1>14, <3>1
  <2>3. /\ Alive(cleared) = Alive(q) \cup ({None} \ {None})
        /\ q.linked_rb = q.linked_rb \cup ({None} \ {None})
        /\ q.kept_rb = q.kept_rb \ {None}
        /\ None \notin Names(q) /\ None \notin q.data
    BY <1>1, <1>14 DEF Alive, Pipe, Names
  <2>4. Took(q, cleared, e, None)
    BY <1>1, <1>13, <1>14, <1>15, <2>2, <2>3 DEF Took
  <2> QED BY <2>1, <2>4
<1>17. CASE j # 0
  <2> DEFINE w == q.rings[j]
             z == [Hosted(cleared, w, e) EXCEPT !.data = @ \ {w}]
  <2>1. Take(q, e) = [p |-> z, ring |-> w]
    BY <1>5, <1>17
  <2>2. /\ j \in 1..Len(q.rings) /\ w \in free /\ q.host[w] = None /\ end = j - 1
        /\ \A l \in 1..(j - 1) : l \in 1..Len(q.rings) /\ q.rings[l] # w
    BY <1>4, <1>17 DEF end
  <2>3. w \in Rings /\ w \in Alive(q) /\ w \notin Names(q) /\ w # None
    BY <1>1, <1>2, <1>6, <2>2
  <2>4. \A l \in 1..(j - 1) : l <= end
    BY <1>4, <2>2
  <2> HIDE DEF w
  <2>5. z \in Pipe
    BY <1>14, <2>3 DEF Hosted, Pipe
  <2>6. /\ z.order = q.order /\ z.linked = q.linked /\ z.short = q.short
        /\ z.linked_el = q.linked_el /\ z.kept_el = q.kept_el
        /\ z.input = q.input /\ z.output = q.output /\ z.rings = q.rings
        /\ z.data = q.data \ {w}
        /\ z.linked_rb = q.linked_rb \cup {w} /\ z.kept_rb = q.kept_rb \ {w}
        /\ z.host[w] = e /\ \A r \in Rings \ {w} : z.host[r] = host[r]
    BY <1>14, <2>3 DEF Hosted, Pipe
  <2> HIDE DEF z
  <2>7. FirstOf(z, e, w)
    <3>1. \A l \in 1..(j - 1) : z.host[z.rings[l]] # e
      BY <1>2, <1>12, <2>2, <2>4, <2>6
    <3> QED BY <2>2, <2>6, <3>1 DEF FirstOf, w
  <2>8. Alive(z) = Alive(q) \cup ({w} \ {None}) /\ {w} \ {None} = {w}
    BY <2>3, <2>6 DEF Alive
  <2>9. Took(q, z, e, w)
    BY <1>1, <1>13, <1>15, <2>3, <2>5, <2>6, <2>7, <2>8 DEF Took
  <2> QED BY <2>1, <2>3, <2>9
<1> QED BY <1>16, <1>17

\* A new ring is taken like one of the list.
LEMMA AddedTook ==
  ASSUME NEW q, Good(q), NEW z, NEW e \in Els, e \notin q.kept_el, Took(q, z, e, None),
         NEW r \in Rings, r \notin Alive(q)
  PROVE  Took(q, Added(z, r, e), e, r)
<1> DEFINE a == Added(z, r, e)
           h == Hosted(z, r, e)
<1>1. /\ q \in Pipe /\ z \in Pipe /\ None \notin Rings /\ Len(q.rings) \in Nat /\ Len(z.rings) \in Nat
  BY PipeRings DEF Good, Took
<1>2. /\ a \in Pipe /\ a = [h EXCEPT !.rings = Append(z.rings, r)]
      /\ Len(a.rings) = Len(z.rings) + 1 /\ a.rings[Len(z.rings) + 1] = r
      /\ \A m \in 1..Len(z.rings) : a.rings[m] = z.rings[m]
      /\ Alive(a) = Alive(z) \cup {r}
  BY <1>1, AddedIs
<1>3. /\ h \in Pipe /\ h.order = z.order /\ h.linked_el = z.linked_el /\ h.kept_el = z.kept_el
      /\ h.linked_rb = z.linked_rb \cup {r} /\ h.kept_rb = z.kept_rb \ {r}
      /\ h.host[r] = e /\ \A x \in Rings \ {r} : h.host[x] = z.host[x]
      /\ h.output = z.output /\ h.input = z.input /\ h.data = z.data /\ h.linked = z.linked
      /\ h.short = z.short
  BY <1>1 DEF Hosted, Pipe
<1> HIDE DEF h
<1>4. /\ a.order = h.order /\ a.linked_el = h.linked_el /\ a.kept_el = h.kept_el
      /\ a.linked_rb = h.linked_rb /\ a.kept_rb = h.kept_rb /\ a.host = h.host
      /\ a.output = h.output /\ a.input = h.input /\ a.data = h.data /\ a.linked = h.linked
      /\ a.short = h.short
  BY <1>2, <1>3 DEF Pipe
<1> HIDE DEF a
<1>5. /\ z.order = q.order /\ z.linked = q.linked /\ z.short = q.short
      /\ z.linked_el = q.linked_el /\ z.kept_el = q.kept_el \ {e}
      /\ z.input = q.input /\ z.output = q.output
      /\ Alive(z) = Alive(q) /\ Len(q.rings) <= Len(z.rings)
      /\ \A m \in 1..Len(q.rings) : z.rings[m] = q.rings[m]
      /\ z.linked_rb = q.linked_rb /\ z.kept_rb = q.kept_rb /\ z.data = q.data
  <2>1. None \notin q.kept_rb /\ None \notin q.data
    BY <1>1 DEF Pipe
  <2>2. /\ z.order = q.order /\ z.linked = q.linked /\ z.short = q.short
        /\ z.linked_el = q.linked_el /\ z.kept_el = q.kept_el \ {e}
        /\ z.input = q.input /\ z.output = q.output
        /\ Len(q.rings) <= Len(z.rings)
        /\ \A m \in 1..Len(q.rings) : z.rings[m] = q.rings[m]
    BY DEF Took
  <2>3. Alive(z) = Alive(q) /\ z.linked_rb = q.linked_rb
    BY DEF Took
  <2>4. z.kept_rb = q.kept_rb
    BY <2>1 DEF Took
  <2>5. z.data = q.data
    <3>1. z.data \subseteq q.data /\ q.data \ z.data \subseteq {None}
      BY DEF Took
    <3> QED BY <2>1, <3>1
  <2> QED BY <2>2, <2>3, <2>4, <2>5
<1>6. /\ \A x \in Rings : z.host[x] = q.host[x] \/ (z.host[x] = None /\ x \notin Names(q))
      /\ \A x \in Alive(q) : z.host[x] # e
  BY <1>1 DEF Took
<1>7. r \notin Names(q) /\ r \notin q.data /\ r # None
  BY <1>1 DEF Good, RingsInv
<1>8. FirstOf(a, e, r)
  <2> DEFINE m == Len(z.rings) + 1
  <2>1. m \in 1..Len(a.rings) /\ a.rings[m] = r
    BY <1>1, <1>2
  <2>2. ASSUME NEW l \in 1..(m - 1) PROVE a.host[a.rings[l]] # e
    <3>1. l \in 1..Len(z.rings)
      BY <1>1
    <3>2. a.rings[l] = z.rings[l] /\ z.rings[l] \in Rings /\ z.rings[l] \in Alive(q)
      BY <1>1, <1>2, <1>5, <3>1, PipeRings
    <3>3. a.host[z.rings[l]] = z.host[z.rings[l]]
      BY <1>3, <1>4, <3>2
    <3> QED BY <1>6, <3>2, <3>3
  <2> HIDE DEF m
  <2> QED BY <2>1, <2>2 DEF FirstOf
<1>9. /\ a \in Pipe /\ r \in Rings \cup {None}
      /\ a.order = q.order /\ a.linked = q.linked /\ a.short = q.short
      /\ a.linked_el = q.linked_el /\ a.kept_el = q.kept_el \ {e}
      /\ a.input = q.input /\ a.output = q.output
      /\ Alive(a) = Alive(q) \cup ({r} \ {None})
      /\ a.linked_rb = q.linked_rb \cup ({r} \ {None}) /\ a.kept_rb = q.kept_rb \ {r}
  <2>1. {r} \ {None} = {r}
    BY <1>7
  <2>2. Alive(a) = Alive(q) \cup {r}
    BY <1>2, <1>5
  <2>3. a.linked_rb = q.linked_rb \cup {r} /\ a.kept_rb = q.kept_rb \ {r}
    BY <1>3, <1>4, <1>5
  <2>4. /\ a.order = q.order /\ a.linked = q.linked /\ a.short = q.short
        /\ a.linked_el = q.linked_el /\ a.kept_el = q.kept_el \ {e}
        /\ a.input = q.input /\ a.output = q.output
    BY <1>3, <1>4, <1>5
  <2> QED BY <1>2, <2>1, <2>2, <2>3, <2>4
<1>10. Len(q.rings) <= Len(a.rings) /\ \A m \in 1..Len(q.rings) : a.rings[m] = q.rings[m]
  <2>1. Len(q.rings) <= Len(a.rings)
    BY <1>1, <1>2, <1>5
  <2>2. ASSUME NEW m \in 1..Len(q.rings) PROVE a.rings[m] = q.rings[m]
    <3>1. m \in 1..Len(z.rings)
      BY <1>1, <1>5
    <3> QED BY <1>2, <1>5, <3>1
  <2> QED BY <2>1, <2>2
<1>11. /\ \A x \in Rings \ {r} : a.host[x] = q.host[x] \/ (a.host[x] = None /\ x \notin Names(q))
       /\ a.host[r] = e
  BY <1>3, <1>4, <1>6
<1>12. a.data \subseteq q.data /\ q.data \ a.data \subseteq {r} /\ r \notin a.data
  BY <1>3, <1>4, <1>5, <1>7
<1>13. Took(q, a, e, r)
  BY <1>7, <1>8, <1>9, <1>10, <1>11, <1>12 DEF Took
<1> QED BY <1>13 DEF a

LEMMA AddedBrought ==
  ASSUME NEW q, Fit(q), NEW z, NEW e \in Els, Brought(q, z, e, None),
         NEW r \in Rings, r \notin Alive(q)
  PROVE  Brought(q, Added(z, r, e), e, r)
<1> DEFINE a == Added(z, r, e)
           h == Hosted(z, r, e)
<1>1. q \in Pipe /\ z \in Pipe /\ None \notin Rings /\ r # None /\ r \notin Names(q)
  BY PipeRings DEF Fit, Brought, RingsInv
<1>2. a \in Pipe /\ a = [h EXCEPT !.rings = Append(z.rings, r)] /\ Alive(a) = Alive(z) \cup {r}
  BY <1>1, AddedIs
<1>3. /\ h \in Pipe /\ h.order = z.order /\ h.linked_el = z.linked_el /\ h.short = z.short
      /\ h.linked_rb = z.linked_rb \cup {r} /\ h.kept_rb = z.kept_rb \ {r}
      /\ h.host[r] = e /\ \A x \in Rings \ {r} : h.host[x] = z.host[x]
      /\ h.output = z.output /\ h.input = z.input /\ h.data = z.data
  BY <1>1 DEF Hosted, Pipe
<1> HIDE DEF h
<1>4. /\ a.order = h.order /\ a.linked_el = h.linked_el /\ a.short = h.short
      /\ a.linked_rb = h.linked_rb /\ a.kept_rb = h.kept_rb /\ a.host = h.host
      /\ a.output = h.output /\ a.input = h.input /\ a.data = h.data
  BY <1>2, <1>3 DEF Pipe
<1> HIDE DEF a
<1>5. /\ z.order = q.order /\ z.short = q.short /\ z.linked_el = q.linked_el
      /\ z.input = q.input /\ z.output = q.output
      /\ Alive(z) = Alive(q) /\ z.linked_rb = q.linked_rb /\ z.kept_rb = q.kept_rb
      /\ z.data \subseteq q.data
      /\ \A x \in Rings : z.host[x] = q.host[x] \/ (z.host[x] = None /\ x \notin Names(q))
  <2>1. None \notin q.kept_rb
    BY <1>1 DEF Pipe
  <2> QED BY <1>1, <2>1 DEF Brought
<1>6. {r} \ {None} = {r}
  BY <1>1
<1>7. Brought(q, a, e, r)
  BY <1>1, <1>2, <1>3, <1>4, <1>5, <1>6 DEF Brought
<1> QED BY <1>7 DEF a

\* The parts of a turn of the loop of audio_pipeline_relink.
Fetched(q, e) == IF e \in q.kept_el THEN TakeKept(q, e) ELSE Take(q, e)
Joined(z, e) == [z EXCEPT !.linked_el = @ \cup {e}]
FedBy(z, e, i, rb) == [Joined(z, e) EXCEPT !.input[e] = IF i > 1 THEN rb ELSE @]

LEMMA RelinkOneIs ==
  ASSUME NEW s, NEW c, NEW i \in 1..Len(c), Len(c) \in Nat, NEW e, e = c[i],
         NEW t, t = Fetched(s.p, e), NEW r, r = Spare(t.p)
  PROVE  /\ i = Len(c) => RelinkOne(s, c, i) = [s EXCEPT !.p = FedBy(t.p, e, i, s.rb)]
         /\ i < Len(c) /\ t.ring # None =>
              RelinkOne(s, c, i) =
                [p |-> [FedBy(t.p, e, i, s.rb) EXCEPT !.output[e] = t.ring], rb |-> t.ring]
         /\ i < Len(c) /\ t.ring = None /\ r # None =>
              RelinkOne(s, c, i) =
                [p |-> [FedBy(Added(t.p, r, e), e, i, s.rb) EXCEPT !.output[e] = r], rb |-> r]
         /\ i < Len(c) /\ t.ring = None /\ r = None =>
              RelinkOne(s, c, i) = [s EXCEPT !.p = [Joined(t.p, e) EXCEPT !.short = TRUE]]
<1>1. i < Len(c) => i # Len(c)
  OBVIOUS
<1>2. ASSUME i = Len(c)
      PROVE  RelinkOne(s, c, i) = [s EXCEPT !.p = FedBy(t.p, e, i, s.rb)]
  BY ZenonT(60), <1>2 DEF RelinkOne, Fetched, Joined, FedBy
<1>3. ASSUME i < Len(c), t.ring # None
      PROVE  RelinkOne(s, c, i) =
               [p |-> [FedBy(t.p, e, i, s.rb) EXCEPT !.output[e] = t.ring], rb |-> t.ring]
  BY ZenonT(60), <1>1, <1>3 DEF RelinkOne, Fetched, Joined, FedBy
<1>4. ASSUME i < Len(c), t.ring = None, r # None
      PROVE  RelinkOne(s, c, i) =
               [p |-> [FedBy(Added(t.p, r, e), e, i, s.rb) EXCEPT !.output[e] = r], rb |-> r]
  BY ZenonT(60), <1>1, <1>4 DEF RelinkOne, Fetched, Joined, FedBy
<1>5. ASSUME i < Len(c), t.ring = None, r = None
      PROVE  RelinkOne(s, c, i) = [s EXCEPT !.p = [Joined(t.p, e) EXCEPT !.short = TRUE]]
  BY Zenon, <1>1, <1>5 DEF RelinkOne, Fetched, Joined, FedBy
<1> QED BY <1>2, <1>3, <1>4, <1>5

RelinkStates == [p : Pipe, rb : Rings \cup {None}]

LEMMA FetchedBrought ==
  ASSUME NEW q \in Pipe, NEW e \in Els
  PROVE  Brought(q, Fetched(q, e).p, e, Fetched(q, e).ring)
<1>1. /\ Len(q.rings) \in Nat /\ None \notin Rings /\ Alive(q) \subseteq Rings
      /\ \A m \in 1..Len(q.rings) : q.rings[m] \in Rings /\ q.rings[m] \in Alive(q)
  BY PipeRings
<1>2. {None} \ {None} = {} /\ q.kept_rb \ {None} = q.kept_rb
  BY <1>1 DEF Pipe
<1>3. CASE e \in q.kept_el
  <2> DEFINE I == {m \in 1..Len(q.rings) : q.host[q.rings[m]] = e}
             j == SelectInSeq(q.rings, LAMBDA x : q.host[x] = e)
  <2>1. j = IF I # {} THEN Min(I) ELSE 0
    BY Zenon DEF SelectInSeq
  <2>2. j # 0 => j \in 1..Len(q.rings) /\ q.host[q.rings[j]] = e
    <3>1. I \in SUBSET (1..Len(q.rings))
      OBVIOUS
    <3> HIDE DEF I, j
    <3>2. j # 0 => j \in I
      BY <2>1, <3>1, FirstPlace
    <3> QED BY <3>2 DEF I
  <2>3. TakeKept(q, e) = IF j = 0 THEN [p |-> q, ring |-> None]
                         ELSE [p |-> [Hosted(q, q.rings[j], e) EXCEPT !.kept_el = @ \ {e}],
                               ring |-> q.rings[j]]
    BY Zenon DEF TakeKept
  <2> HIDE DEF j
  <2>4. Fetched(q, e) = TakeKept(q, e)
    BY <1>3 DEF Fetched
  <2>5. CASE j = 0
    <3>1. Fetched(q, e).p = q /\ Fetched(q, e).ring = None
      BY <2>3, <2>4, <2>5
    <3>2. Brought(q, q, e, None)
      BY <1>2 DEF Brought
    <3> QED BY <3>1, <3>2
  <2>6. CASE j # 0
    <3> DEFINE r == q.rings[j]
               z == [Hosted(q, r, e) EXCEPT !.kept_el = @ \ {e}]
    <3>1. Fetched(q, e).p = z /\ Fetched(q, e).ring = r
      BY <2>3, <2>4, <2>6
    <3>2. r \in Rings /\ r \in Alive(q) /\ q.host[r] = e /\ r # None
      BY <1>1, <2>2, <2>6
    <3> HIDE DEF r
    <3>3. z \in Pipe
      BY <3>2 DEF Hosted, Pipe
    <3>4. /\ z.order = q.order /\ z.short = q.short /\ z.linked_el = q.linked_el
          /\ z.input = q.input /\ z.output = q.output /\ z.rings = q.rings /\ z.data = q.data
          /\ z.linked_rb = q.linked_rb \cup {r} /\ z.kept_rb = q.kept_rb \ {r}
          /\ z.host = q.host
      BY <3>2 DEF Hosted, Pipe
    <3> HIDE DEF z
    <3>5. Alive(z) = Alive(q) \cup {r} /\ {r} \ {None} = {r}
      BY <3>2, <3>4 DEF Alive
    <3>6. Brought(q, z, e, r)
      BY <3>2, <3>3, <3>4, <3>5 DEF Brought
    <3> QED BY <3>1, <3>6
  <2> QED BY <2>5, <2>6
<1>4. CASE e \notin q.kept_el
  <2> DEFINE free == ToSet(q.rings) \ (q.linked_rb \cup q.kept_rb)
             I == {m \in 1..Len(q.rings) : q.rings[m] \in free /\ q.host[q.rings[m]] = None}
             j == SelectInSeq(q.rings, LAMBDA r : r \in free /\ q.host[r] = None)
             passed == free \cap {q.rings[i] : i \in 1..(IF j = 0 THEN Len(q.rings) ELSE j - 1)}
             host == [r \in Rings |-> IF r \in passed THEN None ELSE q.host[r]]
             z == [q EXCEPT !.host = host]
  <2>1. j = IF I # {} THEN Min(I) ELSE 0
    BY Zenon DEF SelectInSeq
  <2>2. j # 0 => j \in 1..Len(q.rings) /\ q.rings[j] \in free
    <3>1. I \in SUBSET (1..Len(q.rings))
      OBVIOUS
    <3> HIDE DEF I, j
    <3>2. j # 0 => j \in I
      BY <2>1, <3>1, FirstPlace
    <3> QED BY <3>2 DEF I
  <2>3. Take(q, e) = IF j = 0 THEN [p |-> z, ring |-> None]
                     ELSE [p |-> [Hosted(z, q.rings[j], e) EXCEPT !.data = @ \ {q.rings[j]}],
                           ring |-> q.rings[j]]
    BY DEF Take, Pipe
  <2>4. free = Alive(q) \ Names(q) /\ passed \subseteq free
    BY DEF Alive, Names
  <2> HIDE DEF j, free, passed
  <2>5. /\ host \in [Rings -> Els \cup {None}]
        /\ \A r \in Rings : host[r] = q.host[r] \/ (host[r] = None /\ r \notin Names(q))
    BY <2>4 DEF Pipe
  <2> HIDE DEF host
  <2>6. /\ z \in Pipe /\ z.host = host
        /\ z.order = q.order /\ z.short = q.short /\ z.linked_el = q.linked_el
        /\ z.input = q.input /\ z.output = q.output /\ z.rings = q.rings
        /\ z.data = q.data /\ z.linked_rb = q.linked_rb /\ z.kept_rb = q.kept_rb
    BY <2>5 DEF Pipe
  <2> HIDE DEF z
  <2>7. Fetched(q, e) = Take(q, e)
    BY <1>4 DEF Fetched
  <2>8. CASE j = 0
    <3>1. Fetched(q, e).p = z /\ Fetched(q, e).ring = None
      BY <2>3, <2>7, <2>8
    <3>2. Alive(z) = Alive(q)
      BY <2>6 DEF Alive
    <3>3. Brought(q, z, e, None)
      BY <1>2, <2>5, <2>6, <3>2 DEF Brought
    <3> QED BY <3>1, <3>3
  <2>9. CASE j # 0
    <3> DEFINE r == q.rings[j]
               y == [Hosted(z, r, e) EXCEPT !.data = @ \ {r}]
    <3>1. Fetched(q, e).p = y /\ Fetched(q, e).ring = r
      BY <2>3, <2>7, <2>9
    <3>2. r \in Rings /\ r \in Alive(q) /\ r \notin Names(q) /\ r # None
      BY <1>1, <2>2, <2>4, <2>9
    <3> HIDE DEF r
    <3>3. y \in Pipe
      BY <2>6, <3>2 DEF Hosted, Pipe
    <3>4. /\ y.order = q.order /\ y.short = q.short /\ y.linked_el = q.linked_el
          /\ y.input = q.input /\ y.output = q.output /\ y.rings = q.rings
          /\ y.data = q.data \ {r}
          /\ y.linked_rb = q.linked_rb \cup {r} /\ y.kept_rb = q.kept_rb \ {r}
          /\ y.host[r] = e /\ \A x \in Rings \ {r} : y.host[x] = host[x]
      BY <2>6, <3>2 DEF Hosted, Pipe
    <3> HIDE DEF y
    <3>5. Alive(y) = Alive(q) \cup {r} /\ {r} \ {None} = {r}
      BY <3>2, <3>4 DEF Alive
    <3>6. Brought(q, y, e, r)
      BY <2>5, <3>2, <3>3, <3>4, <3>5 DEF Brought
    <3> QED BY <3>1, <3>6
  <2> QED BY <2>8, <2>9
<1> QED BY <1>3, <1>4

LEMMA FedByIs ==
  ASSUME NEW z \in Pipe, NEW e \in Els, NEW i, NEW rb \in Rings \cup {None}
  PROVE  LET y == FedBy(z, e, i, rb) IN
         /\ y \in Pipe /\ y.order = z.order /\ y.linked = z.linked /\ y.short = z.short
         /\ y.linked_el = z.linked_el \cup {e} /\ y.kept_el = z.kept_el
         /\ y.rings = z.rings /\ y.linked_rb = z.linked_rb /\ y.kept_rb = z.kept_rb
         /\ y.host = z.host /\ y.data = z.data /\ y.output = z.output
         /\ \A x \in Els \ {e} : y.input[x] = z.input[x]
         /\ i > 1 => y.input[e] = rb
<1> DEFINE in == IF i > 1 THEN rb ELSE z.input[e]
           y == FedBy(z, e, i, rb)
<1>1. in \in Rings \cup {None} /\ (i > 1 => in = rb)
  BY DEF Pipe
<1>2. y = [z EXCEPT !.linked_el = z.linked_el \cup {e}, !.input[e] = in]
  BY DEF FedBy, Joined, Pipe
<1> HIDE DEF in, y
<1>3. y \in Pipe
  BY <1>1, <1>2 DEF Pipe
<1>4. /\ y.order = z.order /\ y.linked = z.linked /\ y.short = z.short
      /\ y.linked_el = z.linked_el \cup {e} /\ y.kept_el = z.kept_el
      /\ y.rings = z.rings /\ y.linked_rb = z.linked_rb /\ y.kept_rb = z.kept_rb
      /\ y.host = z.host /\ y.data = z.data /\ y.output = z.output
      /\ \A x \in Els \ {e} : y.input[x] = z.input[x]
      /\ y.input[e] = in
  BY <1>2 DEF Pipe
<1> QED BY <1>1, <1>3, <1>4 DEF y

\* All fields but one ring that an element writes.
SameBut(y, u, e, r) ==
  /\ u \in Pipe /\ u.order = y.order /\ u.linked = y.linked /\ u.short = y.short
  /\ u.linked_el = y.linked_el /\ u.kept_el = y.kept_el
  /\ u.rings = y.rings /\ u.linked_rb = y.linked_rb /\ u.kept_rb = y.kept_rb
  /\ u.host = y.host /\ u.data = y.data /\ u.input = y.input
  /\ u.output[e] = r /\ \A x \in Els \ {e} : u.output[x] = y.output[x]

LEMMA WithRing ==
  ASSUME NEW y \in Pipe, NEW e \in Els, NEW r \in Rings
  PROVE  SameBut(y, [y EXCEPT !.output[e] = r], e, r)
<1> DEFINE u == [y EXCEPT !.output[e] = r]
<1>1. u \in Pipe
  BY DEF Pipe
<1>2. /\ u.order = y.order /\ u.linked = y.linked /\ u.short = y.short
      /\ u.linked_el = y.linked_el /\ u.kept_el = y.kept_el
      /\ u.rings = y.rings /\ u.linked_rb = y.linked_rb /\ u.kept_rb = y.kept_rb
      /\ u.host = y.host /\ u.data = y.data /\ u.input = y.input
      /\ u.output[e] = r /\ \A x \in Els \ {e} : u.output[x] = y.output[x]
  BY DEF Pipe
<1> HIDE DEF u
<1>3. SameBut(y, u, e, r)
  BY <1>1, <1>2 DEF SameBut
<1> QED BY <1>3 DEF u

LEMMA ShortIs ==
  ASSUME NEW z \in Pipe, NEW e \in Els
  PROVE  LET y == [Joined(z, e) EXCEPT !.short = TRUE] IN
         /\ y \in Pipe /\ y.order = z.order /\ y.linked = z.linked /\ y.short
         /\ y.linked_el = z.linked_el \cup {e} /\ y.kept_el = z.kept_el
         /\ y.rings = z.rings /\ y.linked_rb = z.linked_rb /\ y.kept_rb = z.kept_rb
         /\ y.host = z.host /\ y.data = z.data /\ y.output = z.output /\ y.input = z.input
<1> DEFINE y == [Joined(z, e) EXCEPT !.short = TRUE]
<1>1. y = [z EXCEPT !.linked_el = z.linked_el \cup {e}, !.short = TRUE]
  BY DEF Joined, Pipe
<1> HIDE DEF y
<1>2. y \in Pipe
  BY <1>1 DEF Pipe
<1>3. /\ y.order = z.order /\ y.linked = z.linked /\ y.short
      /\ y.linked_el = z.linked_el \cup {e} /\ y.kept_el = z.kept_el
      /\ y.rings = z.rings /\ y.linked_rb = z.linked_rb /\ y.kept_rb = z.kept_rb
      /\ y.host = z.host /\ y.data = z.data /\ y.output = z.output /\ y.input = z.input
  BY <1>1 DEF Pipe
<1> QED BY <1>2, <1>3 DEF y

LEMMA RelinkOneType ==
  ASSUME NEW s \in RelinkStates, NEW c \in Seq(Els), NEW i \in 1..Len(c)
  PROVE  RelinkOne(s, c, i) \in RelinkStates
<1> DEFINE e == c[i]
           t == Fetched(s.p, e)
           r == Spare(t.p)
<1>1. s.p \in Pipe /\ s.rb \in Rings \cup {None} /\ e \in Els /\ Len(c) \in Nat
  BY LenProperties, ElementOfSeq DEF RelinkStates
<1>2. t.p \in Pipe /\ t.ring \in Rings \cup {None}
  BY <1>1, FetchedBrought DEF Brought
<1>3. r = None \/ r \in Rings
  BY <1>2, SpareIs
<1>4. i = Len(c) \/ i < Len(c)
  BY <1>1
<1>5. \A y \in Pipe : [s EXCEPT !.p = y] \in RelinkStates
  BY DEF RelinkStates
<1>6. \A y \in Pipe, x \in Rings : [p |-> [y EXCEPT !.output[e] = x], rb |-> x] \in RelinkStates
  <2>1. ASSUME NEW y \in Pipe, NEW x \in Rings PROVE [y EXCEPT !.output[e] = x] \in Pipe
    BY <1>1, WithRing DEF SameBut
  <2> QED BY <2>1 DEF RelinkStates
<1>7. CASE i = Len(c)
  <2>1. FedBy(t.p, e, i, s.rb) \in Pipe
    BY <1>1, <1>2, FedByIs
  <2>2. RelinkOne(s, c, i) = [s EXCEPT !.p = FedBy(t.p, e, i, s.rb)]
    BY <1>1, <1>7, RelinkOneIs
  <2> QED BY <1>5, <2>1, <2>2
<1>8. CASE i < Len(c) /\ t.ring # None
  <2>1. FedBy(t.p, e, i, s.rb) \in Pipe
    BY <1>1, <1>2, FedByIs
  <2>2. RelinkOne(s, c, i) =
          [p |-> [FedBy(t.p, e, i, s.rb) EXCEPT !.output[e] = t.ring], rb |-> t.ring]
    BY <1>1, <1>8, RelinkOneIs
  <2> QED BY <1>2, <1>6, <1>8, <2>1, <2>2
<1>9. CASE i < Len(c) /\ t.ring = None /\ r # None
  <2>1. Added(t.p, r, e) \in Pipe
    BY <1>1, <1>2, <1>3, <1>9, AddedIs
  <2>2. FedBy(Added(t.p, r, e), e, i, s.rb) \in Pipe
    BY <1>1, <2>1, FedByIs
  <2>3. RelinkOne(s, c, i) =
          [p |-> [FedBy(Added(t.p, r, e), e, i, s.rb) EXCEPT !.output[e] = r], rb |-> r]
    BY <1>1, <1>9, RelinkOneIs
  <2> QED BY <1>3, <1>6, <1>9, <2>2, <2>3
<1>10. CASE i < Len(c) /\ t.ring = None /\ r = None
  <2>1. [Joined(t.p, e) EXCEPT !.short = TRUE] \in Pipe
    BY <1>1, <1>2, ShortIs
  <2>2. RelinkOne(s, c, i) = [s EXCEPT !.p = [Joined(t.p, e) EXCEPT !.short = TRUE]]
    BY <1>1, <1>10, RelinkOneIs
  <2> QED BY <1>5, <2>1, <2>2
<1> QED BY <1>4, <1>7, <1>8, <1>9, <1>10

\* What a turn of the loop does for the chain, in states s before and t after it.
RelinkedBy(s, t, e, i, last) ==
  /\ \E w : Pass(s.p, t.p, e, w) /\ (Good(s.p) /\ e \notin s.p.linked_el => Turn(s.p, t.p, e, w))
  /\ last \/ t.p.rings # << >> \/ Rings = {}
  /\ ~t.p.short => /\ ~s.p.short
                   /\ ~last => t.p.output[e] # None /\ t.rb = t.p.output[e]
                   /\ i > 1 => t.p.input[e] = s.rb

LEMMA FetchedTook ==
  ASSUME NEW q, Good(q), NEW e \in Els, e \notin q.linked_el
  PROVE  /\ Took(q, Fetched(q, e).p, e, Fetched(q, e).ring)
         /\ IF e \in q.kept_el THEN Fetched(q, e).ring # None /\ Fetched(q, e).ring = q.output[e]
            ELSE q.output[e] = None
<1>1. CASE e \in q.kept_el
  BY <1>1, TakeKeptTook DEF Fetched
<1>2. CASE e \notin q.kept_el
  BY <1>2, TakeTook DEF Fetched, Good, HeldInv
<1> QED BY <1>1, <1>2

LEMMA RelinkOneTurns ==
  ASSUME NEW s \in RelinkStates, Fit(s.p), NEW c \in Seq(Els), NEW i \in 1..Len(c)
  PROVE  RelinkedBy(s, RelinkOne(s, c, i), c[i], i, i = Len(c))
<1> DEFINE q == s.p
           e == c[i]
           g == Fetched(q, e)
           z == g.p
           w == g.ring
           r == Spare(z)
           t == RelinkOne(s, c, i)
           Single == Good(q) /\ e \notin q.linked_el
<1>1. q \in Pipe /\ s.rb \in Rings \cup {None} /\ e \in Els /\ Len(c) \in Nat /\ None \notin Rings
  BY LenProperties, ElementOfSeq, PipeRings DEF RelinkStates
<1>2. Single => /\ Took(q, z, e, w)
                /\ IF e \in q.kept_el THEN w # None /\ w = q.output[e] ELSE q.output[e] = None
  BY <1>1, FetchedTook
<1>3. /\ z \in Pipe /\ w \in Rings \cup {None} /\ z.output = q.output /\ z.short = q.short
      /\ Alive(z) = Alive(q) \cup ({w} \ {None}) /\ Brought(q, z, e, w)
  <2>1. Brought(q, z, e, w)
    BY <1>1, FetchedBrought
  <2> HIDE DEF q, z, e, w
  <2> QED BY <2>1 DEF Brought
<1>4. (r = None /\ Rings \subseteq Alive(z)) \/ r \in Rings \ Alive(z)
  BY <1>3, SpareIs
<1>5. /\ i = Len(c) => t = [s EXCEPT !.p = FedBy(z, e, i, s.rb)]
      /\ i < Len(c) /\ w # None => t = [p |-> [FedBy(z, e, i, s.rb) EXCEPT !.output[e] = w], rb |-> w]
      /\ i < Len(c) /\ w = None /\ r # None =>
           t = [p |-> [FedBy(Added(z, r, e), e, i, s.rb) EXCEPT !.output[e] = r], rb |-> r]
      /\ i < Len(c) /\ w = None /\ r = None => t = [s EXCEPT !.p = [Joined(z, e) EXCEPT !.short = TRUE]]
  BY <1>1, RelinkOneIs
<1> HIDE DEF t, r, z, w, e, g, Single
<1>6. \A y : [s EXCEPT !.p = y].p = y
  BY DEF RelinkStates
<1>7. i = Len(c) \/ i < Len(c)
  BY <1>1
<1>8. CASE i = Len(c)
  <2> DEFINE y == FedBy(z, e, i, s.rb)
  <2>1. t.p = y
    BY <1>5, <1>6, <1>8
  <2>2. /\ y \in Pipe /\ y.order = z.order /\ y.linked = z.linked /\ y.short = z.short
        /\ y.linked_el = z.linked_el \cup {e} /\ y.kept_el = z.kept_el
        /\ y.rings = z.rings /\ y.linked_rb = z.linked_rb /\ y.kept_rb = z.kept_rb
        /\ y.host = z.host /\ y.data = z.data /\ y.output = z.output
        /\ \A x \in Els \ {e} : y.input[x] = z.input[x]
        /\ i > 1 => y.input[e] = s.rb
    BY <1>1, <1>3, FedByIs
  <2> HIDE DEF y
  <2>3. /\ y.output[e] = q.output[e]
        /\ Single => y.output[e] \in {w, None} /\ (e \in q.kept_el => y.output[e] = w)
    BY <1>2, <1>3, <2>2
  <2>4. Wired(z, y, e)
    BY <2>2 DEF Wired
  <2>5. Pass(q, y, e, w) /\ (Single => Turn(q, y, e, w))
    BY <1>2, <1>3, <2>3, <2>4, WiredPasses, WiredTurns
  <2>6. RelinkedBy(s, t, e, i, i = Len(c))
    BY <1>3, <1>8, <2>1, <2>2, <2>5 DEF RelinkedBy, q, Single
  <2> QED BY <2>6 DEF t, e
<1>9. CASE i < Len(c) /\ w # None
  <2> DEFINE y == FedBy(z, e, i, s.rb)
             u == [y EXCEPT !.output[e] = w]
  <2>1. t.p = u /\ t.rb = w /\ w \in Rings
    BY <1>3, <1>5, <1>9
  <2>2. /\ y \in Pipe /\ y.order = z.order /\ y.linked = z.linked /\ y.short = z.short
        /\ y.linked_el = z.linked_el \cup {e} /\ y.kept_el = z.kept_el
        /\ y.rings = z.rings /\ y.linked_rb = z.linked_rb /\ y.kept_rb = z.kept_rb
        /\ y.host = z.host /\ y.data = z.data /\ y.output = z.output
        /\ \A x \in Els \ {e} : y.input[x] = z.input[x]
        /\ i > 1 => y.input[e] = s.rb
    BY <1>1, <1>3, FedByIs
  <2> HIDE DEF y
  <2>3. /\ u \in Pipe /\ u.order = y.order /\ u.linked = y.linked /\ u.short = y.short
        /\ u.linked_el = y.linked_el /\ u.kept_el = y.kept_el
        /\ u.rings = y.rings /\ u.linked_rb = y.linked_rb /\ u.kept_rb = y.kept_rb
        /\ u.host = y.host /\ u.data = y.data /\ u.input = y.input
        /\ u.output[e] = w /\ \A x \in Els \ {e} : u.output[x] = y.output[x]
    <3>1. SameBut(y, u, e, w)
      BY <1>1, <2>1, <2>2, WithRing
    <3> HIDE DEF u
    <3> QED BY <3>1 DEF SameBut
  <2> HIDE DEF u
  <2>4. Wired(z, u, e)
    BY <2>2, <2>3 DEF Wired
  <2>5. Pass(q, u, e, w) /\ (Single => Turn(q, u, e, w))
    BY <1>2, <1>3, <1>9, <2>3, <2>4, WiredPasses, WiredTurns
  <2>6. u.rings # << >>
    <3>1. w \in Alive(z)
      BY <1>3, <1>9
    <3>2. z.rings = << >> => Alive(z) = {}
      BY <1>3, PipeRings
    <3> QED BY <2>2, <2>3, <3>1, <3>2
  <2>7. RelinkedBy(s, t, e, i, i = Len(c))
    <3>1. u.short = s.p.short /\ u.output[e] # None /\ t.rb = u.output[e]
      BY <1>3, <1>9, <2>1, <2>2, <2>3 DEF q
    <3>2. i > 1 => u.input[e] = s.rb
      BY <2>2, <2>3
    <3> QED BY <2>1, <2>5, <2>6, <3>1, <3>2 DEF RelinkedBy, q, Single
  <2> QED BY <2>7 DEF t, e
<1>10. CASE i < Len(c) /\ w = None /\ r # None
  <2> DEFINE a == Added(z, r, e)
             y == FedBy(a, e, i, s.rb)
             u == [y EXCEPT !.output[e] = r]
  <2>1. t.p = u /\ t.rb = r /\ r \in Rings /\ r \notin Alive(q)
    BY <1>3, <1>4, <1>5, <1>10
  <2>2. Single => Good(q) /\ e \notin q.kept_el /\ Took(q, z, e, None)
    BY <1>2, <1>10 DEF Single
  <2>3. Brought(q, a, e, r) /\ (Single => Took(q, a, e, r))
    BY <1>1, <1>3, <1>10, <2>1, <2>2, AddedBrought, AddedTook
  <2>4. a \in Pipe /\ a.short = q.short /\ Alive(a) = Alive(q) \cup ({r} \ {None})
    BY <2>3 DEF Brought
  <2> HIDE DEF a
  <2>5. /\ y \in Pipe /\ y.order = a.order /\ y.linked = a.linked /\ y.short = a.short
        /\ y.linked_el = a.linked_el \cup {e} /\ y.kept_el = a.kept_el
        /\ y.rings = a.rings /\ y.linked_rb = a.linked_rb /\ y.kept_rb = a.kept_rb
        /\ y.host = a.host /\ y.data = a.data /\ y.output = a.output
        /\ \A x \in Els \ {e} : y.input[x] = a.input[x]
        /\ i > 1 => y.input[e] = s.rb
    BY <1>1, <2>4, FedByIs
  <2> HIDE DEF y
  <2>6. /\ u \in Pipe /\ u.order = y.order /\ u.linked = y.linked /\ u.short = y.short
        /\ u.linked_el = y.linked_el /\ u.kept_el = y.kept_el
        /\ u.rings = y.rings /\ u.linked_rb = y.linked_rb /\ u.kept_rb = y.kept_rb
        /\ u.host = y.host /\ u.data = y.data /\ u.input = y.input
        /\ u.output[e] = r /\ \A x \in Els \ {e} : u.output[x] = y.output[x]
    <3>1. SameBut(y, u, e, r)
      BY <1>1, <2>1, <2>5, WithRing
    <3> HIDE DEF u
    <3> QED BY <3>1 DEF SameBut
  <2> HIDE DEF u
  <2>7. Wired(a, u, e)
    BY <2>5, <2>6 DEF Wired
  <2>8. Pass(q, u, e, r) /\ (Single => Turn(q, u, e, r))
    BY <1>10, <2>3, <2>6, <2>7, WiredPasses, WiredTurns
  <2>9. u.rings # << >>
    <3>1. r \in Alive(a)
      BY <1>10, <2>4
    <3> QED BY <2>4, <2>5, <2>6, <3>1, PipeRings
  <2>10. RelinkedBy(s, t, e, i, i = Len(c))
    <3>1. u.short = s.p.short /\ u.output[e] # None /\ t.rb = u.output[e]
      BY <1>10, <2>1, <2>4, <2>5, <2>6 DEF q
    <3>2. i > 1 => u.input[e] = s.rb
      BY <2>5, <2>6
    <3> QED BY <2>1, <2>8, <2>9, <3>1, <3>2 DEF RelinkedBy, q, Single
  <2> QED BY <2>10 DEF t, e
<1>11. CASE i < Len(c) /\ w = None /\ r = None
  <2> DEFINE y == [Joined(z, e) EXCEPT !.short = TRUE]
  <2>1. t.p = y
    BY <1>5, <1>6, <1>11
  <2>2. /\ y \in Pipe /\ y.order = z.order /\ y.linked = z.linked /\ y.short
        /\ y.linked_el = z.linked_el \cup {e} /\ y.kept_el = z.kept_el
        /\ y.rings = z.rings /\ y.linked_rb = z.linked_rb /\ y.kept_rb = z.kept_rb
        /\ y.host = z.host /\ y.data = z.data /\ y.output = z.output /\ y.input = z.input
    BY <1>1, <1>3, ShortIs
  <2> HIDE DEF y
  <2>3. y.output[e] = q.output[e] /\ (Single => e \notin q.kept_el /\ y.output[e] = None)
    BY <1>2, <1>3, <1>11, <2>2
  <2>4. Wired(z, y, e)
    BY <2>2 DEF Wired
  <2>5. Pass(q, y, e, w) /\ (Single => Turn(q, y, e, w))
    BY <1>2, <1>3, <2>3, <2>4, WiredPasses, WiredTurns
  <2>6. y.rings # << >> \/ Rings = {}
    <3>1. Rings \subseteq Alive(z)
      BY <1>1, <1>4, <1>11
    <3>2. z.rings = << >> => Alive(z) = {}
      BY <1>3, PipeRings
    <3> QED BY <2>2, <3>1, <3>2
  <2>7. RelinkedBy(s, t, e, i, i = Len(c))
    BY <2>1, <2>2, <2>5, <2>6 DEF RelinkedBy, q, Single
  <2> QED BY <2>7 DEF t, e
<1> QED BY <1>7, <1>8, <1>9, <1>10, <1>11

\* The loop of audio_pipeline_relink, turn by turn.
RelinkLoop(start, c, d) == FoldLeft(LAMBDA s, i : RelinkOne(s, c, i), start, d)

RelinkFolds(h, start, c, d) ==
  [s \in SUBSET DOMAIN d |-> IF s = {} THEN start ELSE RelinkOne(h[s \ {Max(s)}], c, d[Max(s)])]

LEMMA RelinkFold ==
  ASSUME NEW c, NEW start, NEW d, NEW h, h = RelinkFolds(h, start, c, d)
  PROVE  \E g : g = RelinkFolds(g, start, c, d) /\ RelinkLoop(start, c, d) = g[DOMAIN d]
BY Zenon DEF RelinkLoop, RelinkFolds, FoldLeft, MapThenFoldSet

LEMMA RelinkTurns ==
  ASSUME NEW start \in RelinkStates, NEW c \in Seq(Els), NEW n \in 0..Len(c)
  PROVE  \E f : /\ f[0] = start
                /\ \A k \in 1..n : f[k] = RelinkOne(f[k - 1], c, k)
                /\ RelinkLoop(start, c, [i \in 1..n |-> i]) = f[n]
<1> DEFINE d == [i \in 1..n |-> i]
           F == [z \in (1..n) \X RelinkStates |-> RelinkOne(z[2], c, z[1])]
<1>1. Len(c) \in Nat /\ n \in Nat /\ DOMAIN d = 1..n /\ \A i \in 1..n : i \in 1..Len(c)
  BY LenProperties
<1>2. F \in [(1..n) \X RelinkStates -> RelinkStates]
  BY <1>1, RelinkOneType
<1>3. PICK h \in [SUBSET (1..n) -> RelinkStates] : Folds(h, n, start, F)
  <2> HIDE DEF F
  <2> QED BY <1>1, <1>2, FoldExists
<1>4. \A s \in SUBSET (1..n) : s # {} =>
        /\ Max(s) \in 1..n /\ d[Max(s)] = Max(s) /\ s \ {Max(s)} \in SUBSET (1..n)
  BY <1>1, Greatest
<1>5. \A s \in SUBSET (1..n) : h[s] = RelinkFolds(h, start, c, d)[s]
  <2> TAKE s \in SUBSET (1..n)
  <2>1. CASE s = {}
    BY <1>1, <1>3, <2>1 DEF Folds, RelinkFolds
  <2>2. CASE s # {}
    <3>1. <<Max(s), h[s \ {Max(s)}]>> \in (1..n) \X RelinkStates
      BY <1>4, <2>2
    <3>2. h[s] = F[<<Max(s), h[s \ {Max(s)}]>>]
      BY <1>3, <2>2 DEF Folds
    <3>3. h[s] = RelinkOne(h[s \ {Max(s)}], c, Max(s))
      BY <3>1, <3>2
    <3> QED BY <1>1, <1>4, <2>2, <3>3 DEF RelinkFolds
  <2> QED BY <2>1, <2>2
<1>6. h = RelinkFolds(h, start, c, d)
  BY <1>1, <1>5 DEF RelinkFolds
<1> HIDE DEF d, F
<1>7. PICK g : g = RelinkFolds(g, start, c, d) /\ RelinkLoop(start, c, d) = g[DOMAIN d]
  BY <1>6, RelinkFold
<1>8. \A s \in SUBSET (1..n) :
        g[s] = IF s = {} THEN start ELSE RelinkOne(g[s \ {Max(s)}], c, d[Max(s)])
  <2>1. \A s \in SUBSET DOMAIN d : RelinkFolds(g, start, c, d)[s] =
          IF s = {} THEN start ELSE RelinkOne(g[s \ {Max(s)}], c, d[Max(s)])
    BY DEF RelinkFolds
  <2> QED BY <1>1, <1>7, <2>1
<1> DEFINE f == [k \in 0..n |-> g[1..k]]
<1>9. f[0] = start
  <2>1. 1..0 = {} /\ 0 \in 0..n /\ {} \in SUBSET (1..n)
    BY <1>1
  <2> QED BY <1>8, <2>1
<1>10. ASSUME NEW k \in 1..n PROVE f[k] = RelinkOne(f[k - 1], c, k)
  <2>1. /\ 1..k \in SUBSET (1..n) /\ 1..k # {}
        /\ Max(1..k) = k /\ (1..k) \ {Max(1..k)} = 1..(k - 1) /\ d[k] = k
    BY <1>1, <1>4, GreatestUpTo DEF d
  <2>2. g[1..k] = RelinkOne(g[1..(k - 1)], c, k)
    BY <1>8, <2>1
  <2>3. k \in 0..n /\ k - 1 \in 0..n
    BY <1>1
  <2> QED BY <2>2, <2>3
<1>11. RelinkLoop(start, c, d) = f[n]
  <2>1. f[n] = g[1..n]
    BY <1>1
  <2> QED BY <1>1, <1>7, <2>1
<1> HIDE DEF f
<1> QED BY <1>9, <1>10, <1>11 DEF d

\* The loop after its turn i, for a pipeline that was q before: the chain up to
\* there is connected, unless a ring could not be made.
RelinkedUpTo(q, c, s, i) ==
  /\ s \in RelinkStates /\ Fit(s.p) /\ s.p.order = q.order
  /\ i > 0 /\ s.p.rings = << >> => Rings = {}
  /\ ~s.p.short => /\ Ties(s.p, c, i)
                   /\ i \in 1..(Len(c) - 1) => s.rb = s.p.output[c[i]]

\* If no element had a second ring, kept elements have the rings they had and
\* those rings their bytes, and the rings of the others that were linked are empty.
RegainedUpTo(q, c, z, i) ==
  /\ Good(z) /\ z.linked_el = {c[j] : j \in 1..i}
  /\ z.kept_el = q.kept_el \ {c[j] : j \in 1..i}
  /\ \A x \in q.kept_el : /\ z.output[x] = q.output[x]
                          /\ q.output[x] \in q.data => q.output[x] \in z.data
  /\ \A j \in 1..i : c[j] \notin q.kept_el => z.output[c[j]] \notin z.data

Relinks(q, c, s, i) ==
  RelinkedUpTo(q, c, s, i) /\ (Good(q) /\ q.linked_el = {} => RegainedUpTo(q, c, s.p, i))

LEMMA RelinkStarts ==
  ASSUME NEW q, Fit(q), NEW c
  PROVE  Relinks(q, c, [p |-> q, rb |-> None], 0)
<1>1. q \in Pipe
  BY DEF Fit
<1>2. Good(q) /\ q.linked_el = {} => RegainedUpTo(q, c, q, 0)
  BY DEF RegainedUpTo
<1> QED BY <1>1, <1>2 DEF Relinks, RelinkedUpTo, RelinkStates, Ties

LEMMA RelinkGoesOn ==
  ASSUME NEW q \in Pipe, NEW c \in Chains, NEW s, NEW i \in 1..Len(c),
         Relinks(q, c, s, i - 1), c[i] \in ToSet(q.order)
  PROVE  Relinks(q, c, RelinkOne(s, c, i), i)
<1> DEFINE e == c[i]
           t == RelinkOne(s, c, i)
           Before(k) == {c[j] : j \in 1..k}
<1>1. /\ c \in Seq(Els) /\ Len(c) \in Nat /\ Len(c) > 1 /\ e \in Els
      /\ \A j \in 1..Len(c) : c[j] \in Els
      /\ \A j, k \in 1..Len(c) : c[j] = c[k] => j = k
  <2>1. c \in Seq(Els) /\ IsInjective(c) /\ Len(c) > 1
    BY ChainsAssumption
  <2>2. Len(c) \in Nat /\ DOMAIN c = 1..Len(c) /\ \A j \in 1..Len(c) : c[j] \in Els
    BY <2>1, LenProperties, ElementOfSeq
  <2> QED BY <2>1, <2>2 DEF IsInjective
<1>2. Before(i) = Before(i - 1) \cup {e} /\ e \notin Before(i - 1)
  <2>1. \A j \in 1..(i - 1) : j \in 1..Len(c) /\ j # i
    BY <1>1
  <2>2. 1..i = (1..(i - 1)) \cup {i}
    BY <1>1
  <2> QED BY <1>1, <2>1, <2>2
<1>3. /\ s \in RelinkStates /\ Fit(s.p) /\ s.p.order = q.order
      /\ i - 1 > 0 /\ s.p.rings = << >> => Rings = {}
      /\ ~s.p.short => /\ Ties(s.p, c, i - 1)
                       /\ i - 1 \in 1..(Len(c) - 1) => s.rb = s.p.output[c[i - 1]]
  BY DEF Relinks, RelinkedUpTo
<1>4. t \in RelinkStates /\ RelinkedBy(s, t, e, i, i = Len(c))
  BY <1>1, <1>3, RelinkOneType, RelinkOneTurns
<1> HIDE DEF t, e
<1>5. PICK w : Pass(s.p, t.p, e, w) /\ (Good(s.p) /\ e \notin s.p.linked_el => Turn(s.p, t.p, e, w))
  BY <1>4 DEF RelinkedBy
<1>6. s.p \in Pipe /\ t.p \in Pipe
  BY <1>3, <1>4 DEF RelinkStates
<1>7. t.p.rings = << >> => Rings = {}
  <2>1. CASE i = Len(c)
    <3>1. t.p.rings = << >> => s.p.rings = << >>
      <4>1. t.p.rings = << >> => Alive(s.p) = {}
        BY <1>5, <1>6, PipeRings DEF Pass
      <4>2. s.p.rings # << >> => s.p.rings[1] \in Alive(s.p)
        BY <1>6, PipeRings
      <4> QED BY <4>1, <4>2
    <3>2. i - 1 > 0
      BY <1>1, <2>1
    <3> QED BY <1>3, <3>1, <3>2
  <2>2. CASE i # Len(c)
    BY <1>4, <2>2 DEF RelinkedBy
  <2> QED BY <2>1, <2>2
<1>8. Fit(t.p) /\ t.p.order = q.order
  BY <1>1, <1>3, <1>5, <1>7, PassIsFit DEF e, Pass
<1>9. ASSUME ~t.p.short
      PROVE  Ties(t.p, c, i) /\ (i \in 1..(Len(c) - 1) => t.rb = t.p.output[c[i]])
  <2>1. /\ ~s.p.short
        /\ i # Len(c) => t.p.output[e] # None /\ t.rb = t.p.output[e]
        /\ i > 1 => t.p.input[e] = s.rb
    BY <1>4, <1>9 DEF RelinkedBy
  <2>2. i > 1 => t.p.input[e] = s.p.output[c[i - 1]]
    <3>1. i > 1 => i - 1 \in 1..(Len(c) - 1)
      BY <1>1
    <3> QED BY <1>3, <2>1, <3>1
  <2>3. i < Len(c) => t.p.output[e] # None
    BY <1>1, <2>1
  <2>4. Ties(t.p, c, i)
    BY <1>3, <1>5, <2>1, <2>2, <2>3, TurnTies DEF e, Pass
  <2>5. i \in 1..(Len(c) - 1) => i # Len(c)
    BY <1>1
  <2> QED BY <2>1, <2>4, <2>5 DEF e
<1>10. RelinkedUpTo(q, c, t, i)
  BY <1>4, <1>7, <1>8, <1>9 DEF RelinkedUpTo
<1>11. ASSUME Good(q), q.linked_el = {}
       PROVE  RegainedUpTo(q, c, t.p, i)
  <2>1. /\ Good(s.p) /\ s.p.linked_el = Before(i - 1) /\ s.p.kept_el = q.kept_el \ Before(i - 1)
        /\ \A x \in q.kept_el : /\ s.p.output[x] = q.output[x]
                                /\ q.output[x] \in q.data => q.output[x] \in s.p.data
        /\ \A j \in 1..(i - 1) : c[j] \notin q.kept_el => s.p.output[c[j]] \notin s.p.data
    BY <1>11 DEF Relinks, RegainedUpTo, Before
  <2>2. Turn(s.p, t.p, e, w)
    BY <1>2, <1>5, <2>1
  <2>3. Good(t.p)
    BY <1>1, <1>3, <1>7, <2>1, <2>2, TurnIsGood DEF e
  <2>4. t.p.linked_el = Before(i) /\ t.p.kept_el = q.kept_el \ Before(i)
    <3>1. /\ t.p.linked_el = s.p.linked_el \cup {e}
          /\ t.p.kept_el = s.p.kept_el \ {e}
      BY <2>2 DEF Turn
    <3> HIDE DEF Before
    <3> QED BY <1>2, <2>1, <3>1
  <2>5. ASSUME NEW x \in q.kept_el
        PROVE  /\ t.p.output[x] = q.output[x]
               /\ q.output[x] \in q.data => q.output[x] \in t.p.data
    <3>1. x \in Els
      BY DEF Pipe
    <3>2. t.p.output[x] = s.p.output[x]
      <4>1. CASE x = e
        <5>1. e \in s.p.kept_el
          BY <1>2, <2>1, <4>1
        <5> QED BY <2>2, <4>1, <5>1 DEF Turn
      <4>2. CASE x # e
        BY <2>2, <3>1, <4>2 DEF Turn
      <4> QED BY <4>1, <4>2
    <3>3. ASSUME q.output[x] \in q.data PROVE q.output[x] \in t.p.data
      <4>1. s.p.output[x] \in s.p.data /\ s.p.output[x] = q.output[x]
        BY <2>1, <3>3
      <4>2. s.p.output[x] # None
        BY <1>6, <4>1, RingsAssumption DEF Pipe, None
      <4>3. s.p.output[x] \in Names(s.p)
        BY <2>1, <3>1, <4>2 DEF Good, HeldInv, KeptInv, Names
      <4>4. CASE e \in s.p.kept_el
        BY <2>2, <4>1, <4>4 DEF Turn
      <4>5. CASE e \notin s.p.kept_el
        BY <2>2, <4>1, <4>3, <4>5 DEF Turn
      <4> QED BY <4>4, <4>5
    <3> QED BY <2>1, <3>2, <3>3
  <2>6. ASSUME NEW j \in 1..i, c[j] \notin q.kept_el
        PROVE  t.p.output[c[j]] \notin t.p.data
    <3>1. CASE j = i
      <4>1. e \notin s.p.kept_el /\ c[j] = e
        BY <2>1, <2>6, <3>1 DEF e
      <4>2. t.p.output[e] \in {w, None} /\ w \notin t.p.data
        BY <2>2, <4>1 DEF Turn
      <4>3. None \notin t.p.data
        BY <1>6, RingsAssumption DEF Pipe, None
      <4> QED BY <4>1, <4>2, <4>3
    <3>2. CASE j # i
      <4>1. j \in 1..(i - 1) /\ j \in 1..Len(c)
        BY <1>1, <3>2
      <4>2. c[j] \in Els \ {e}
        BY <1>1, <3>2, <4>1 DEF e
      <4>3. t.p.output[c[j]] = s.p.output[c[j]] /\ t.p.data \subseteq s.p.data
        BY <2>2, <4>2 DEF Turn
      <4> QED BY <2>1, <2>6, <4>1, <4>3
    <3> QED BY <3>1, <3>2
  <2> QED BY <2>3, <2>4, <2>5, <2>6 DEF RegainedUpTo, Before
<1>12. Relinks(q, c, t, i)
  BY <1>10, <1>11 DEF Relinks
<1> QED BY <1>12 DEF t

RelinkEnd(c) == RelinkLoop([p |-> p, rb |-> None], c, [i \in 1..Reach(c) |-> i])

LEMMA RelinkIs ==
  ASSUME NEW c, Relink(c)
  PROVE  /\ ~p.linked /\ astray' = (astray \/ p.linked_el # {})
         /\ p' = [RelinkEnd(c).p EXCEPT !.linked = Reach(c) = Len(c)]
         /\ chain' = IF Reach(c) = Len(c) THEN c ELSE << >>
BY Zenon DEF Relink, RelinkEnd, RelinkLoop

LEMMA RelinkBuilds ==
  ASSUME Sound(p, chain, astray), NEW c \in Chains, Relink(c)
  PROVE  /\ Relinks(p, c, RelinkEnd(c), Reach(c))
         /\ Reach(c) \in 0..Len(c) /\ c \in Seq(Els) /\ Len(c) \in Nat /\ DOMAIN c = 1..Len(c)
<1> DEFINE end == RelinkEnd(c)
           start == [p |-> p, rb |-> None]
           n == Reach(c)
<1>1. p \in Pipe /\ Fit(p) /\ c \in Seq(Els) /\ Len(c) \in Nat /\ DOMAIN c = 1..Len(c)
  BY ChainsAssumption, LenProperties DEF Sound, Fit
<1>2. n \in 0..Len(c) /\ \A i \in 1..n : c[i] \in ToSet(p.order)
  BY <1>1, ReachIs DEF Registered
<1>3. start \in RelinkStates
  BY <1>1 DEF RelinkStates
<1>4. PICK f : /\ f[0] = start
               /\ \A k \in 1..n : f[k] = RelinkOne(f[k - 1], c, k)
               /\ end = f[n]
  BY <1>1, <1>2, <1>3, RelinkTurns DEF RelinkEnd
<1> HIDE DEF end, n
<1> DEFINE T == {k \in 0..n : Relinks(p, c, f[k], k)}
<1>5. 0 \in T
  BY <1>1, <1>2, <1>4, RelinkStarts
<1>6. ASSUME NEW k \in 1..n, k - 1 \in T
      PROVE  k \in T
  <2>1. Relinks(p, c, f[k - 1], k - 1) /\ k \in 1..Len(c) /\ k \in 0..n
    BY <1>1, <1>2, <1>6
  <2>2. c[k] \in ToSet(p.order)
    BY <1>2
  <2>3. Relinks(p, c, RelinkOne(f[k - 1], c, k), k)
    <3> HIDE DEF T
    <3> QED BY <1>1, <2>1, <2>2, RelinkGoesOn
  <2>4. f[k] = RelinkOne(f[k - 1], c, k)
    BY <1>4
  <2> QED BY <2>1, <2>3, <2>4
<1> HIDE DEF T
<1>7. n \in T
  <2>1. n \in Nat
    BY <1>1, <1>2
  <2>2. 0..n \subseteq T
    BY <1>5, <1>6, <2>1, Upward
  <2> QED BY <2>1, <2>2
<1>8. Relinks(p, c, end, n)
  BY <1>4, <1>7 DEF T
<1> QED BY <1>1, <1>2, <1>8 DEF end, n

LEMMA RelinkIsSound ==
  ASSUME Sound(p, chain, astray), NEW c \in Chains, Relink(c)
  PROVE  Sound(p', chain', astray')
<1> DEFINE end == RelinkEnd(c)
           ok == Reach(c) = Len(c)
           z == [end.p EXCEPT !.linked = ok]
<1>1. p' = z /\ chain' = (IF ok THEN c ELSE << >>) /\ astray' = (astray \/ p.linked_el # {})
  BY RelinkIs
<1>2. Relinks(p, c, end, Reach(c)) /\ c \in Seq(Els)
  BY RelinkBuilds
<1> HIDE DEF end
<1>3. Fit(end.p) /\ (ok => end.p.short \/ Ties(end.p, c, Len(c)))
  BY <1>2 DEF Relinks, RelinkedUpTo
<1>4. ~astray' => Good(end.p)
  BY <1>1, <1>2 DEF Relinks, RegainedUpTo, Sound
<1>5. /\ Fit(z) /\ z.linked = ok /\ z.short = end.p.short /\ (Good(end.p) => Good(z))
      /\ Ties(end.p, c, Len(c)) => Ties(z, c, Len(c))
  <2>1. ok \in BOOLEAN
    OBVIOUS
  <2>2. LinkedSame(end.p, ok, z)
    <3> HIDE DEF ok
    <3> QED BY <1>3, <2>1, LinkedSet DEF z
  <2> HIDE DEF z, ok
  <2> QED BY <2>2 DEF LinkedSame
<1> HIDE DEF z, ok
<1>6. chain' \in Seq(Els)
  BY <1>1, <1>2
<1> QED BY <1>1, <1>3, <1>4, <1>5, <1>6 DEF Sound

\* What relink promises of the bytes in the rings.
Kept(q, r, c) ==
  /\ \A e \in q.kept_el : r.output[e] = q.output[e]
  /\ q.data \cap {q.output[e] : e \in q.kept_el} \subseteq r.data
  /\ \A e \in ToSet(c) \ q.kept_el : r.output[e] \notin r.data

LEMMA RelinkKeeps ==
  ASSUME Sound(p, chain, astray), NEW c \in Chains, Relink(c), ~astray'
  PROVE  Kept(p, p', chain')
<1> DEFINE end == RelinkEnd(c)
           ok == Reach(c) = Len(c)
           z == [end.p EXCEPT !.linked = ok]
<1>1. /\ p' = z /\ chain' = IF ok THEN c ELSE << >>
      /\ Good(p) /\ p.linked_el = {}
  BY RelinkIs DEF Sound
<1>2. /\ Fit(end.p) /\ RegainedUpTo(p, c, end.p, Reach(c))
      /\ Reach(c) \in 0..Len(c) /\ c \in Seq(Els) /\ Len(c) \in Nat /\ DOMAIN c = 1..Len(c)
  BY <1>1, RelinkBuilds DEF Relinks, RelinkedUpTo
<1> HIDE DEF end
<1>3. z.data = end.p.data /\ z.output = end.p.output
  <2>1. Fit(end.p) /\ ok \in BOOLEAN
    BY <1>2
  <2>2. LinkedSame(end.p, ok, z)
    <3> HIDE DEF ok
    <3> QED BY <2>1, LinkedSet DEF z
  <2> HIDE DEF z, ok
  <2> QED BY <2>2 DEF LinkedSame
<1> HIDE DEF z
<1>4. \A e \in p.kept_el : /\ z.output[e] = p.output[e]
                           /\ p.output[e] \in p.data => p.output[e] \in z.data
  BY <1>2, <1>3 DEF RegainedUpTo
<1>5. ASSUME NEW e \in ToSet(chain') \ p.kept_el
      PROVE  z.output[e] \notin z.data
  <2>1. CASE ok
    <3>1. PICK j \in 1..Len(c) : e = c[j]
      BY <1>1, <1>2, <1>5, <2>1 DEF ToSet
    <3> QED BY <1>2, <1>3, <1>5, <2>1, <3>1 DEF RegainedUpTo
  <2>2. CASE ~ok
    BY <1>1, <1>5, <2>2 DEF ToSet
  <2> QED BY <2>1, <2>2
<1> QED BY <1>1, <1>4, <1>5 DEF Kept

-----------------------------------------------------------------------------
(* The theorems                                                            *)

LEMMA StepIsSound ==
  ASSUME Sound(p, chain, astray), [Next]_vars
  PROVE  Sound(p', chain', astray')
<1>1. CASE UNCHANGED vars
  BY <1>1 DEF vars
<1>2. ASSUME NEW e \in Els, Register(e) \/ Unregister(e) \/ ResetKept(e)
      PROVE  Sound(p', chain', astray')
  BY <1>2, RegisterIsSound, ResetKeptIsSound
<1>3. ASSUME NEW c \in Chains, Link(c) \/ Relink(c)
      PROVE  Sound(p', chain', astray')
  BY <1>3, LinkIsSound, RelinkIsSound
<1>4. CASE Unlink
  BY <1>4, UnlinkIsSound
<1>5. ASSUME NEW k \in p.linked_el \cup {None}, NEW active \in SUBSET Writing, Breakup(k, active)
      PROVE  Sound(p', chain', astray')
  BY <1>5, BreakupIsSound
<1> QED BY <1>1, <1>2, <1>3, <1>4, <1>5 DEF Next

\* The rings and their hosts fit together after any of the calls, in any order;
\* that kept rings and kept elements belong to each other one to one is known as
\* long as no element may have been given a second ring.
THEOREM AlwaysSound == Spec => []Sound(p, chain, astray)
<1>1. Init => Sound(p, chain, astray)
  BY InitIsSound
<1>2. Sound(p, chain, astray) /\ [Next]_vars => Sound(p, chain, astray)'
  BY StepIsSound
<1> QED BY <1>1, <1>2, PTL DEF Spec

\* unlink finds every ring that an element writes, before it destroys the rings.
THEOREM WritersAreHosted == Spec => []WritersHost
<1>1. Sound(p, chain, astray) => WritersHost
  BY SoundMeans
<1> QED BY <1>1, AlwaysSound, PTL

\* A linked chain is connected, by rings of which no two are the same.
THEOREM ChainsAreConnected == Spec => []Connected
<1>1. Sound(p, chain, astray) => Connected
  BY SoundMeans
<1> QED BY <1>1, AlwaysSound, PTL

\* relink gives every kept element its ring with the bytes in it, and the others
\* rings that are empty, unless an element may have been given a second ring.
THEOREM RelinkKeepsBytes == Spec => KeptAndEmpty
<1> DEFINE Keeps == RelinkStep /\ ~astray' => Kept(p, p', chain')
<1>1. Sound(p, chain, astray) /\ [Next]_vars => [Keeps]_vars
  BY RelinkKeeps DEF RelinkStep
<1>2. Keeps => (RelinkStep /\ ~astray' =>
                  /\ \A e \in p.kept_el : p'.output[e] = p.output[e]
                  /\ p.data \cap {p.output[e] : e \in p.kept_el} \subseteq p'.data
                  /\ \A e \in ToSet(chain') \ p.kept_el : p'.output[e] \notin p'.data)
  BY DEF Kept
<1> QED BY <1>1, <1>2, AlwaysSound, PTL DEF Spec, KeptAndEmpty
=============================================================================
