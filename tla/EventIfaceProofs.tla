--------------------------- MODULE EventIfaceProofs ---------------------------
(***************************************************************************)
(* Proofs about the event interface: no message sits in a queue unseen.    *)
(*                                                                         *)
(* The inductive invariant follows a change of the listener: which items   *)
(* have left the set or joined it so far, and that each message in a       *)
(* member's queue has its handle.  This needs the room of the set to       *)
(* suffice, which is counted, and that a change that failed is followed by *)
(* none that succeeds.                                                     *)
(***************************************************************************)
EXTENDS EventIfaceProps, SequenceTheorems, FiniteSetTheorems, TLAPS

\* Each message of a member has its handle, in the set or with the reader, and
\* other queues have none.
Account ==
  \A e \in Evts :
    IF e \in member THEN queue[e] = Handles(e) + (IF got = e THEN 1 ELSE 0)
    ELSE Handles(e) = 0 /\ got # e

\* One of the items from k on cannot leave the set: it is no member, or is the
\* queue of an item that leaves before it.
Doomed(k) ==
  \E j \in k..Len(items) : \/ items[j] \notin member
                           \/ \E i \in k..j - 1 : items[i] = items[j]

Between(k, l) == {items[j] : j \in k..l}

FormInv ==
  /\ TypeOK
  /\ pc \in {"drain", "leave", "empty", "join"} => at \in 1..Len(items)
  /\ pc \in {"drain", "leave", "edit", "empty", "join"} =>
       /\ op.do # "none"
       /\ op.do \in {"add", "remove"} => op.evt \in Evts
  /\ pc \in {"drain", "leave", "edit"} /\ op.do = "add" => Len(items) < MaxItems
  /\ got # None => pc \in {"idle", "drain"}
  /\ member \subseteq Between(1, Len(items))
  /\ room >= QueueSize * Len(items)

FailInv ==
  ret = "fail" => /\ pc \in {"idle", "drain", "leave"}
                  /\ Doomed(IF pc = "idle" THEN 1 ELSE at)

OkInv ==
  ret = "ok" =>
    /\ pc = "idle" => member = Between(1, Len(items)) /\ Account
    /\ pc \in {"drain", "leave"} => member \subseteq Between(at, Len(items)) /\ Account
    /\ pc = "edit" => member = {} /\ Account
    /\ pc \in {"empty", "join"} => member = Between(1, at - 1)
    /\ pc = "empty" => Account
    /\ pc = "join" => items[at] \in member \/ Account

IInv == FormInv /\ FailInv /\ OkInv
-----------------------------------------------------------------------------
(* Counting handles *)

\* The places of a value in a sequence are finitely many.
LEMMA PlacesFinite ==
  ASSUME NEW S, NEW s \in Seq(S), NEW e
  PROVE  /\ IsFiniteSet(Places(s, e)) /\ Cardinality(Places(s, e)) \in Nat
         /\ Places(s, e) \subseteq 1..Len(s)
<1>1. DOMAIN s = 1..Len(s) /\ Len(s) \in Nat
  BY LenProperties
<1>2. Places(s, e) \in SUBSET (1..Len(s))
  BY <1>1 DEF Places
<1>3. IsFiniteSet(1..Len(s))
  BY <1>1, FS_Interval
<1>4. IsFiniteSet(Places(s, e))
  BY <1>2, <1>3, FS_Subset
<1> QED BY <1>2, <1>4, FS_CardinalityType

\* A value appended has one place more, others as many as before.
LEMMA PlacesAppend ==
  ASSUME NEW S, NEW s \in Seq(S), NEW f \in S, NEW e
  PROVE  Cardinality(Places(Append(s, f), e))
           = Cardinality(Places(s, e)) + (IF f = e THEN 1 ELSE 0)
<1>1. /\ IsFiniteSet(Places(s, e)) /\ Cardinality(Places(s, e)) \in Nat
      /\ Len(s) + 1 \notin Places(s, e)
  BY PlacesFinite, LenProperties
<1>2. /\ DOMAIN s = 1..Len(s) /\ Len(s) \in Nat
      /\ DOMAIN Append(s, f) = 1..Len(s) + 1
      /\ \A i \in 1..Len(s) : Append(s, f)[i] = s[i]
      /\ Append(s, f)[Len(s) + 1] = f
  BY LenProperties, AppendProperties
<1>3. CASE f = e
  <2>1. Places(Append(s, f), e) = Places(s, e) \cup {Len(s) + 1}
    BY <1>2, <1>3 DEF Places
  <2> QED BY <1>1, <1>3, <2>1, FS_AddElement
<1>4. CASE f # e
  <2>1. Places(Append(s, f), e) = Places(s, e)
    BY <1>2, <1>4 DEF Places
  <2> QED BY <1>1, <1>4, <2>1
<1> QED BY <1>3, <1>4

\* Taking the head takes one of its places.
LEMMA PlacesTail ==
  ASSUME NEW S, NEW s \in Seq(S), s # << >>, NEW e
  PROVE  Cardinality(Places(s, e))
           = Cardinality(Places(Tail(s), e)) + (IF Head(s) = e THEN 1 ELSE 0)
<1>1. /\ Tail(s) \in Seq(S) /\ Head(s) = s[1] /\ Len(Tail(s)) = Len(s) - 1
      /\ \A i \in 1..Len(Tail(s)) : Tail(s)[i] = s[i + 1]
      /\ Len(s) \in Nat \ {0} /\ DOMAIN s = 1..Len(s) /\ DOMAIN Tail(s) = 1..Len(s) - 1
  BY HeadTailProperties, LenProperties, EmptySeq
<1> DEFINE P == Places(Tail(s), e)
           Q == Places(s, e) \ {1}
           shift == [i \in P |-> i + 1]
<1>2. IsFiniteSet(P) /\ Cardinality(P) \in Nat /\ P \subseteq 1..Len(s) - 1
  BY <1>1, PlacesFinite
<1>3. shift \in Bijection(P, Q)
  <2>1. \A i \in P : i + 1 \in Q
    BY <1>1, <1>2 DEF Places
  <2>2. \A i \in Q : i - 1 \in P /\ i = (i - 1) + 1
    BY <1>1 DEF Places
  <2>3. \A i, j \in P : i + 1 = j + 1 => i = j
    BY <1>2
  <2> HIDE DEF P, Q
  <2>4. shift \in [P -> Q] /\ \A j \in Q : \E i \in P : shift[i] = j
    BY <2>1, <2>2
  <2>5. \A i, j \in P : shift[i] = shift[j] => i = j
    BY <2>3
  <2> HIDE DEF shift
  <2> QED BY <2>4, <2>5 DEF Bijection, Injection, Surjection, IsInjective
<1>4. IsFiniteSet(Q) /\ Cardinality(Q) = Cardinality(P)
  BY <1>2, <1>3, FS_Bijection DEF ExistsBijection
<1>5. CASE Head(s) = e
  <2>1. Places(s, e) = Q \cup {1} /\ 1 \notin Q
    BY <1>1, <1>5 DEF Places
  <2> HIDE DEF Q
  <2>2. Cardinality(Places(s, e)) = Cardinality(Q) + 1
    BY <1>4, <2>1, FS_AddElement
  <2> QED BY <1>4, <1>5, <2>2
<1>6. CASE Head(s) # e
  <2>1. Places(s, e) = Q
    BY <1>1, <1>6 DEF Places
  <2> HIDE DEF Q
  <2> QED BY <1>2, <1>4, <1>6, <2>1
<1> QED BY <1>5, <1>6
\* Two facts of arithmetic.
LEMMA UpTo == ASSUME NEW n \in Nat PROVE IsFiniteSet(1..n) /\ Cardinality(1..n) = n
<1>1. IsFiniteSet(1..n) /\ Cardinality(1..n) = IF 1 > n THEN 0 ELSE n - 1 + 1
  BY FS_Interval
<1> QED BY <1>1

LEMMA TimesMonotonic ==
  ASSUME NEW q \in Nat, NEW m \in Nat, NEW n \in Nat, m <= n
  PROVE  q * m <= q * n
BY Z3

\* A sequence whose values are in M, each at no more than q places and one at
\* fewer, is shorter than q times the size of M.
LEMMA PlacesBound ==
  ASSUME NEW S, NEW s \in Seq(S), NEW M, IsFiniteSet(M), NEW q \in Nat \ {0},
         \A i \in 1..Len(s) : s[i] \in M,
         \A e \in M : Cardinality(Places(s, e)) <= q,
         NEW f \in M, Cardinality(Places(s, f)) < q
  PROVE  Len(s) < q * Cardinality(M)
<1> DEFINE Upto(i) == Places(s, s[i]) \cap 1..i
           rank(i) == Cardinality(Upto(i))
           Pairs == M \X (1..q)
           T == Pairs \ {<<f, q>>}
           number == [i \in 1..Len(s) |-> <<s[i], rank(i)>>]
<1>1. DOMAIN s = 1..Len(s) /\ Len(s) \in Nat
  BY LenProperties
<1>2. ASSUME NEW i \in 1..Len(s)
      PROVE  /\ IsFiniteSet(Upto(i)) /\ rank(i) \in 1..q /\ rank(i) <= Cardinality(Places(s, s[i]))
             /\ i \in Upto(i)
  <2>1. IsFiniteSet(Places(s, s[i])) /\ Cardinality(Places(s, s[i])) \in Nat
    BY PlacesFinite
  <2>2. Upto(i) \in SUBSET Places(s, s[i])
    OBVIOUS
  <2>3. i \in Upto(i)
    BY <1>1 DEF Places
  <2> HIDE DEF Upto
  <2>4. IsFiniteSet(Upto(i)) /\ rank(i) <= Cardinality(Places(s, s[i]))
    BY <2>1, <2>2, FS_Subset
  <2>5. rank(i) \in Nat /\ rank(i) # 0
    BY <2>3, <2>4, FS_EmptySet, FS_CardinalityType
  <2>6. Cardinality(Places(s, s[i])) <= q
    OBVIOUS
  <2> HIDE DEF rank
  <2> QED BY <2>1, <2>3, <2>4, <2>5, <2>6
<1>3. ASSUME NEW i \in 1..Len(s), NEW j \in 1..Len(s), i < j, s[i] = s[j]
      PROVE  rank(i) < rank(j)
  <2>1. Upto(i) \in SUBSET Upto(j) /\ j \notin Upto(i)
    BY <1>1, <1>3
  <2> HIDE DEF Upto
  <2>2. /\ IsFiniteSet(Upto(i)) /\ IsFiniteSet(Upto(j)) /\ j \in Upto(j)
        /\ rank(i) \in Nat /\ rank(j) \in Nat
    BY <1>2
  <2>3. Cardinality(Upto(i)) <= Cardinality(Upto(j)) /\ Cardinality(Upto(i)) # Cardinality(Upto(j))
    BY <2>1, <2>2, FS_Subset
  <2> QED BY <2>2, <2>3
<1> HIDE DEF rank, Upto
<1>4. number \in [1..Len(s) -> T]
  <2>1. ASSUME NEW i \in 1..Len(s) PROVE <<s[i], rank(i)>> \in T
    <3>1. s[i] \in M /\ rank(i) \in 1..q /\ Cardinality(Places(s, s[i])) \in Nat
      BY <1>2, PlacesFinite
    <3>2. s[i] = f => rank(i) # q
      BY <1>2, <3>1
    <3> QED BY <3>1, <3>2
  <2> HIDE DEF T
  <2> QED BY <2>1
<1>5. \A i, j \in 1..Len(s) : number[i] = number[j] => i = j
  <2> SUFFICES ASSUME NEW i \in 1..Len(s), NEW j \in 1..Len(s), number[i] = number[j], i # j
               PROVE FALSE
    OBVIOUS
  <2>1. s[i] = s[j] /\ rank(i) = rank(j)
    OBVIOUS
  <2>2. rank(i) \in Nat /\ rank(j) \in Nat
    BY <1>2
  <2>3. i < j \/ j < i
    OBVIOUS
  <2> QED BY <1>3, <2>1, <2>2, <2>3
<1>6. /\ IsFiniteSet(T) /\ Cardinality(M) \in Nat /\ Cardinality(M) # 0
      /\ Cardinality(T) = q * Cardinality(M) - 1
  <2>1. IsFiniteSet(1..q) /\ Cardinality(1..q) = q
    BY FS_Interval
  <2>2. Cardinality(M) \in Nat /\ Cardinality(M) # 0
    BY FS_CardinalityType, FS_EmptySet
  <2>3. IsFiniteSet(Pairs) /\ Cardinality(Pairs) = Cardinality(M) * q
    BY <2>1, FS_Product
  <2>4. <<f, q>> \in Pairs
    OBVIOUS
  <2> HIDE DEF Pairs
  <2>5. IsFiniteSet(T) /\ Cardinality(T) = Cardinality(M) * q - 1
    BY <2>3, <2>4, FS_RemoveElement
  <2> QED BY <2>2, <2>5
<1> HIDE DEF T, number
<1>7. number \in Injection(1..Len(s), T)
  BY <1>4, <1>5 DEF Injection, IsInjective
<1>8. Cardinality(1..Len(s)) <= Cardinality(T)
  BY <1>6, <1>7, FS_Injection
<1>10. Cardinality(1..Len(s)) = Len(s)
  BY <1>1, UpTo
<1>9. q * Cardinality(M) \in Nat
  BY <1>6
<1> QED BY <1>1, <1>6, <1>8, <1>9, <1>10
-----------------------------------------------------------------------------
(* The room of the set *)

\* No more queues are members than items are on the list.
LEMMA MembersFit ==
  ASSUME FormInv
  PROVE  /\ IsFiniteSet(member) /\ Cardinality(member) \in Nat
         /\ Cardinality(member) <= Len(items)
<1> DEFINE B == Between(1, Len(items))
<1>1. items \in Seq(Evts) /\ member \in SUBSET B
  BY DEF FormInv, TypeOK
<1>2. Len(items) \in Nat /\ items \in [1..Len(items) -> Evts]
  BY <1>1, LenProperties
<1>3. items \in Surjection(1..Len(items), B)
  BY <1>2 DEF Surjection, Between
<1>4. IsFiniteSet(1..Len(items)) /\ Cardinality(1..Len(items)) = Len(items)
  BY <1>2, UpTo
<1> HIDE DEF B
<1>5. IsFiniteSet(B) /\ Cardinality(B) <= Cardinality(1..Len(items))
  BY <1>3, <1>4, FS_Surjection
<1>6. IsFiniteSet(member) /\ Cardinality(member) <= Cardinality(B)
  BY <1>1, <1>5, FS_Subset
<1>7. Cardinality(member) \in Nat /\ Cardinality(B) \in Nat
  BY <1>5, <1>6, FS_CardinalityType
<1> QED BY <1>2, <1>4, <1>5, <1>6, <1>7

\* A member whose queue is not full finds room for a handle.
LEMMA RoomForHandle ==
  ASSUME FormInv, Account, NEW e \in member, queue[e] < QueueSize
  PROVE  Len(queue_set) < room
<1>1. /\ queue_set \in Seq(Evts) /\ room \in Nat /\ queue \in [Evts -> 0..QueueSize]
      /\ member \subseteq Evts /\ QueueSize \in Nat \ {0}
      /\ items \in Seq(Evts) /\ room >= QueueSize * Len(items)
  BY BoundsAssumption DEF FormInv, TypeOK
<1>2. \A f \in Evts : IsFiniteSet(Places(queue_set, f)) /\ Handles(f) \in Nat
  BY <1>1, PlacesFinite DEF Handles
<1>3. \A i \in 1..Len(queue_set) : queue_set[i] \in member
  <2> SUFFICES ASSUME NEW i \in 1..Len(queue_set), queue_set[i] \notin member PROVE FALSE
    OBVIOUS
  <2>1. queue_set[i] \in Evts /\ i \in Places(queue_set, queue_set[i])
    BY <1>1, LenProperties, ElementOfSeq DEF Places
  <2>2. Handles(queue_set[i]) = 0
    BY <2>1 DEF Account
  <2> QED BY <1>2, <2>1, <2>2, FS_EmptySet DEF Handles
<1>4. \A f \in member : Cardinality(Places(queue_set, f)) <= queue[f]
  <2> SUFFICES ASSUME NEW f \in member PROVE Handles(f) <= queue[f]
    BY DEF Handles
  <2>1. queue[f] = Handles(f) + (IF got = f THEN 1 ELSE 0) /\ Handles(f) \in Nat
    BY <1>1, <1>2 DEF Account
  <2> QED BY <2>1
<1>5. /\ \A f \in member : Cardinality(Places(queue_set, f)) <= QueueSize
      /\ Cardinality(Places(queue_set, e)) < QueueSize
  <2>1. \A f \in member : queue[f] \in 0..QueueSize /\ Cardinality(Places(queue_set, f)) \in Nat
    BY <1>1, <1>2 DEF Handles
  <2> QED BY <1>1, <1>4, <2>1
<1>6. Len(queue_set) < QueueSize * Cardinality(member)
  BY <1>1, <1>3, <1>5, MembersFit, PlacesBound
<1>7. /\ QueueSize * Cardinality(member) <= QueueSize * Len(items)
      /\ QueueSize * Cardinality(member) \in Nat /\ QueueSize * Len(items) \in Nat
      /\ Len(queue_set) \in Nat
  <2>1. Cardinality(member) \in Nat /\ Len(items) \in Nat /\ Len(queue_set) \in Nat
    BY <1>1, MembersFit, LenProperties
  <2> QED BY <1>1, <2>1, MembersFit, TimesMonotonic
<1> QED BY <1>1, <1>6, <1>7
-----------------------------------------------------------------------------
(* Steps of the senders and the reader *)

\* What Account says is kept when the queues, the set and the reader stay.
LEMMA AccountKept ==
  ASSUME Account, UNCHANGED <<queue, queue_set, got>>,
         \A e \in member \ member' : queue[e] = 0,
         \A e \in member' \ member : queue[e] = 0,
         got = None \/ member' = member, FormInv
  PROVE  Account'
<1>1. SUFFICES ASSUME NEW e \in Evts
      PROVE IF e \in member' THEN queue[e] = Handles(e) + (IF got = e THEN 1 ELSE 0)
            ELSE Handles(e) = 0 /\ got # e
  BY DEF Account, Handles
<1>2. queue[e] \in Nat /\ Handles(e) \in Nat /\ None # e
  <2>1. queue_set \in Seq(Evts) /\ queue \in [Evts -> 0..QueueSize]
    BY DEF FormInv, TypeOK
  <2> QED BY <2>1, PlacesFinite, EvtsAssumption, BoundsAssumption DEF Handles
<1>3. IF e \in member THEN queue[e] = Handles(e) + (IF got = e THEN 1 ELSE 0)
      ELSE Handles(e) = 0 /\ got # e
  BY DEF Account
<1>4. CASE e \in member /\ e \notin member'
  <2>1. queue[e] = 0
    BY <1>4
  <2> QED BY <1>2, <1>3, <1>4, <2>1
<1>5. CASE e \notin member /\ e \in member'
  <2>1. queue[e] = 0
    BY <1>5
  <2> QED BY <1>2, <1>3, <1>5, <2>1
<1>6. CASE e \in member <=> e \in member'
  BY <1>3, <1>6
<1> QED BY <1>4, <1>5, <1>6

LEMMA SendoutForm ==
  ASSUME IInv, NEW e \in Evts, Sendout(e)
  PROVE  FormInv'
<1>1. FormInv /\ queue[e] < QueueSize /\ sent[e] < MaxSends
  BY DEF IInv, Sendout
<1>2. queue_set' \in Seq(Evts)
  BY <1>1, AppendProperties DEF FormInv, TypeOK, Sendout
<1>3. sent' \in [Evts -> 0..MaxSends] /\ queue' \in [Evts -> 0..QueueSize]
  BY <1>1, BoundsAssumption DEF FormInv, TypeOK, Sendout
<1>4. UNCHANGED <<member, room, items, got, pc, at, op, ret>>
  BY DEF Sendout, opVars
<1> QED BY <1>1, <1>2, <1>3, <1>4 DEF FormInv, TypeOK, Between

\* A message and its handle are put in at once.
LEMMA SendoutAccount ==
  ASSUME FormInv, Account, NEW e \in Evts, Sendout(e)
  PROVE  Account'
<1>1. /\ queue[e] < QueueSize /\ queue' = [queue EXCEPT ![e] = @ + 1]
      /\ queue_set' = IF e \in member /\ Len(queue_set) < room
                      THEN Append(queue_set, e) ELSE queue_set
      /\ UNCHANGED <<member, got>>
  BY DEF Sendout
<1>2. queue_set \in Seq(Evts) /\ queue \in [Evts -> 0..QueueSize]
  BY DEF FormInv, TypeOK
<1>3. queue_set' = IF e \in member THEN Append(queue_set, e) ELSE queue_set
  BY <1>1, RoomForHandle
<1> SUFFICES ASSUME NEW f \in Evts
    PROVE IF f \in member THEN queue'[f] = Handles(f)' + (IF got = f THEN 1 ELSE 0)
          ELSE Handles(f)' = 0 /\ got # f
  BY <1>1 DEF Account
<1>4. /\ Handles(f) \in Nat /\ queue[f] \in Nat
      /\ Handles(f)' = IF e \in member /\ e = f THEN Handles(f) + 1 ELSE Handles(f)
  <2>1. Handles(f) \in Nat
    BY <1>2, PlacesFinite DEF Handles
  <2>2. queue[f] \in Nat
    BY <1>2, BoundsAssumption
  <2>3. CASE e \in member
    <3>1. Handles(f)' = Handles(f) + (IF e = f THEN 1 ELSE 0)
      BY <1>2, <1>3, <2>3, PlacesAppend DEF Handles
    <3> QED BY <2>1, <2>2, <2>3, <3>1
  <2>4. CASE e \notin member
    BY <1>3, <2>1, <2>2, <2>4 DEF Handles
  <2> QED BY <2>3, <2>4
<1>5. queue'[f] = IF e = f THEN queue[f] + 1 ELSE queue[f]
  BY <1>1, <1>2
<1>6. IF f \in member THEN queue[f] = Handles(f) + (IF got = f THEN 1 ELSE 0)
      ELSE Handles(f) = 0 /\ got # f
  BY DEF Account
<1> QED BY <1>4, <1>5, <1>6

LEMMA SendoutKeeps ==
  ASSUME IInv, NEW e \in Evts, Sendout(e)
  PROVE  IInv'
<1>1. UNCHANGED <<member, room, items, got, pc, at, op, ret>>
  BY DEF Sendout, opVars
<1>2. Account => Account'
  BY SendoutAccount DEF IInv
<1>3. FailInv'
  BY <1>1 DEF IInv, FailInv, Doomed
<1>4. OkInv'
  BY <1>1, <1>2 DEF IInv, OkInv, Between
<1> QED BY <1>3, <1>4, SendoutForm DEF IInv
\* What the two calls of audio_event_iface_read leave, and may not spoil.
LEMMA ReadForm ==
  ASSUME FormInv, SelectFromSet \/ ReceiveSelected
  PROVE  /\ queue_set' \in Seq(Evts) /\ queue' \in [Evts -> 0..QueueSize]
         /\ got' \in Evts \cup {None}
         /\ UNCHANGED <<sent, member, room, items>>
<1>1. /\ queue_set \in Seq(Evts) /\ queue \in [Evts -> 0..QueueSize]
      /\ got \in Evts \cup {None} /\ QueueSize \in Nat
  BY BoundsAssumption DEF FormInv, TypeOK
<1>2. CASE SelectFromSet
  <2>1. Head(queue_set) \in Evts /\ Tail(queue_set) \in Seq(Evts)
    BY <1>1, <1>2, HeadTailProperties DEF SelectFromSet
  <2> QED BY <1>1, <1>2, <2>1 DEF SelectFromSet, sendVars
<1>3. CASE ReceiveSelected
  <2>1. queue' \in [Evts -> 0..QueueSize]
    BY <1>1, <1>3 DEF ReceiveSelected
  <2> QED BY <1>1, <1>3, <2>1 DEF ReceiveSelected, setVars
<1> QED BY <1>2, <1>3

LEMMA ReadAccount ==
  ASSUME FormInv, Account, SelectFromSet \/ ReceiveSelected
  PROVE  Account'
<1>1. /\ queue_set \in Seq(Evts) /\ queue \in [Evts -> 0..QueueSize]
      /\ got \in Evts \cup {None} /\ member' = member
  BY ReadForm DEF FormInv, TypeOK
<1> SUFFICES ASSUME NEW f \in Evts
    PROVE IF f \in member THEN queue'[f] = Handles(f)' + (IF got' = f THEN 1 ELSE 0)
          ELSE Handles(f)' = 0 /\ got' # f
  BY <1>1 DEF Account
<1>2. Handles(f) \in Nat /\ queue[f] \in Nat /\ None # f
  BY <1>1, PlacesFinite, EvtsAssumption, BoundsAssumption DEF Handles
<1>3. IF f \in member THEN queue[f] = Handles(f) + (IF got = f THEN 1 ELSE 0)
      ELSE Handles(f) = 0 /\ got # f
  BY DEF Account
<1>4. CASE SelectFromSet
  <2>1. /\ got = None /\ queue_set # << >> /\ got' = Head(queue_set)
        /\ queue_set' = Tail(queue_set) /\ queue' = queue
    BY <1>4 DEF SelectFromSet, sendVars
  <2>2. Handles(f) = Handles(f)' + (IF got' = f THEN 1 ELSE 0)
    BY <1>1, <2>1, PlacesTail DEF Handles
  <2>3. Handles(f)' \in Nat
    BY ReadForm, PlacesFinite DEF Handles
  <2> QED BY <1>2, <1>3, <2>1, <2>2, <2>3
<1>5. CASE ReceiveSelected
  <2>1. /\ got \in Evts /\ got' = None /\ queue_set' = queue_set
        /\ queue' = [queue EXCEPT ![got] = IF @ > 0 THEN @ - 1 ELSE 0]
    BY <1>1, <1>5 DEF ReceiveSelected, setVars
  <2>2. Handles(f)' = Handles(f)
    BY <2>1 DEF Handles
  <2>3. queue'[f] = IF f # got THEN queue[f] ELSE IF queue[f] > 0 THEN queue[f] - 1 ELSE 0
    BY <1>1, <2>1
  <2> QED BY <1>2, <1>3, <2>1, <2>2, <2>3
<1> QED BY <1>4, <1>5

LEMMA ListenKeeps ==
  ASSUME IInv, Listen
  PROVE  IInv'
<1>1. /\ FormInv /\ FailInv /\ OkInv
      /\ SelectFromSet \/ ReceiveSelected
      /\ pc = "idle" /\ UNCHANGED <<pc, at, op, ret>>
  BY DEF IInv, Listen, opVars
<1>2. /\ queue_set' \in Seq(Evts) /\ queue' \in [Evts -> 0..QueueSize]
      /\ got' \in Evts \cup {None}
      /\ UNCHANGED <<sent, member, room, items>>
  BY <1>1, ReadForm
<1>3. FormInv'
  BY <1>1, <1>2 DEF FormInv, TypeOK, Between
<1>4. FailInv'
  BY <1>1, <1>2 DEF FailInv, Doomed
<1>5. Account => Account'
  BY <1>1, ReadAccount
<1>6. OkInv'
  BY <1>1, <1>2, <1>5 DEF OkInv, Between
<1> QED BY <1>3, <1>4, <1>6 DEF IInv
-----------------------------------------------------------------------------
(* Changes of the listener *)

LEMMA ChangeKeeps ==
  ASSUME IInv, NEW do \in Changes, NEW e \in Evts \cup {None},
         do \in {"add", "remove"} => e \in Evts, Change(do, e)
  PROVE  IInv'
<1>1. /\ FormInv /\ FailInv /\ OkInv
      /\ pc = "idle" /\ got = None
      /\ do = "add" => Len(items) < MaxItems
      /\ op' = [do |-> do, evt |-> e]
      /\ pc' = IF items = << >> THEN "edit" ELSE "drain"
      /\ at' = 1
      /\ UNCHANGED <<queue, sent, member, queue_set, room, items, got, ret>>
  BY DEF IInv, Change, sendVars, setVars
<1>2. /\ items \in Seq(Evts) /\ Len(items) \in Nat
      /\ items # << >> => Len(items) > 0
      /\ items = << >> => Len(items) = 0
  BY <1>1, LenProperties, EmptySeq DEF FormInv, TypeOK
<1>3. FormInv'
  <2>1. TypeOK'
    BY <1>1 DEF FormInv, TypeOK, Changes
  <2>2. pc' \in {"drain", "leave", "empty", "join"} => at' \in 1..Len(items')
    BY <1>1, <1>2
  <2>3. op'.do = do /\ op'.evt = e /\ do # "none"
    BY <1>1 DEF Changes
  <2>4. /\ member' \subseteq Between(1, Len(items))' /\ room' >= QueueSize * Len(items')
    BY <1>1 DEF FormInv, Between
  <2> QED BY <1>1, <2>1, <2>2, <2>3, <2>4 DEF FormInv
<1>4. FailInv'
  <2> SUFFICES ASSUME ret = "fail" PROVE pc' = "drain" /\ Doomed(1)'
    BY <1>1 DEF FailInv
  <2>1. Doomed(1)
    BY <1>1 DEF FailInv
  <2>2. Len(items) # 0
    BY <2>1 DEF Doomed
  <2> QED BY <1>1, <1>2, <2>1, <2>2 DEF Doomed
<1>5. OkInv'
  <2> SUFFICES ASSUME ret = "ok"
               PROVE  /\ pc' = "drain" => member \subseteq Between(1, Len(items))
                      /\ pc' = "edit" => member = {}
                      /\ Account'
    BY <1>1 DEF OkInv, Between
  <2>1. member = Between(1, Len(items)) /\ Account
    BY <1>1 DEF OkInv
  <2>2. pc' = "edit" => Len(items) = 0
    BY <1>1, <1>2
  <2>3. Account'
    BY <1>1, <2>1 DEF Account, Handles
  <2> QED BY <2>1, <2>2, <2>3 DEF Between
<1> QED BY <1>3, <1>4, <1>5 DEF IInv

LEMMA DrainReadKeeps ==
  ASSUME IInv, DrainRead
  PROVE  IInv'
<1>1. /\ FormInv /\ FailInv /\ OkInv
      /\ SelectFromSet \/ ReceiveSelected
      /\ pc = "drain" /\ pc' \in {"drain", "leave"} /\ UNCHANGED <<at, op, ret>>
      /\ got' # None => pc' = "drain"
  BY DEF IInv, DrainRead, ReceiveSelected
<1>2. /\ queue_set' \in Seq(Evts) /\ queue' \in [Evts -> 0..QueueSize]
      /\ got' \in Evts \cup {None}
      /\ UNCHANGED <<sent, member, room, items>>
  BY <1>1, ReadForm
<1>3. FormInv'
  BY SMTT(30), <1>1, <1>2 DEF FormInv, TypeOK, Between
<1>4. FailInv'
  BY <1>1, <1>2 DEF FailInv, Doomed
<1>5. Account => Account'
  BY <1>1, ReadAccount
<1>6. OkInv'
  BY <1>1, <1>2, <1>5 DEF OkInv, Between
<1> QED BY <1>3, <1>4, <1>6 DEF IInv

LEMMA DrainEndsKeeps ==
  ASSUME IInv, DrainEnds
  PROVE  IInv'
<1>1. /\ FormInv /\ FailInv /\ OkInv
      /\ pc = "drain" /\ pc' = "leave" /\ got = None
      /\ UNCHANGED <<queue, sent, member, queue_set, room, items, got, at, op, ret>>
  BY DEF IInv, DrainEnds, sendVars, setVars
<1>2. FormInv'
  BY <1>1 DEF FormInv, TypeOK, Between
<1>3. FailInv'
  BY <1>1 DEF FailInv, Doomed
<1>4. OkInv'
  BY <1>1 DEF OkInv, Between, Account, Handles
<1> QED BY <1>2, <1>3, <1>4 DEF IInv
\* A queue leaves the set with nothing in it.  Of a doomed list one never does.
LEMMA LeaveKeeps ==
  ASSUME IInv, Leave
  PROVE  IInv'
<1>1. /\ FormInv /\ FailInv /\ OkInv
      /\ pc = "leave" /\ got = None
      /\ at \in 1..Len(items) /\ Len(items) \in Nat
      /\ UNCHANGED <<queue, sent, queue_set, room, items, got, op, ret>>
  BY LenProperties DEF IInv, FormInv, TypeOK, Leave, sendVars
<1>2. CASE items[at] \in member /\ queue[items[at]] = 0
  <2>1. /\ member' = member \ {items[at]} /\ at' = at + 1
        /\ pc' = IF at = Len(items) THEN "edit" ELSE "drain"
    BY <1>2 DEF Leave
  <2>2. ret = "fail" => pc' = "drain" /\ Doomed(at)'
    <3> SUFFICES ASSUME ret = "fail" PROVE pc' = "drain" /\ Doomed(at)'
      OBVIOUS
    <3>1. PICK j \in at..Len(items) :
            items[j] \notin member \/ \E i \in at..j - 1 : items[i] = items[j]
      BY <1>1 DEF FailInv, Doomed
    <3>2. j # at
      BY <1>1, <1>2, <3>1
    <3>3. j \in at + 1..Len(items) /\ at # Len(items)
      BY <1>1, <3>2
    <3>4. items[j] \notin member' \/ \E i \in at + 1..j - 1 : items[i] = items[j]
      <4>1. CASE items[j] \notin member
        BY <2>1, <4>1
      <4>2. ASSUME NEW i \in at..j - 1, items[i] = items[j]
            PROVE  items[j] \notin member' \/ i \in at + 1..j - 1
        BY <1>1, <2>1, <4>2
      <4> QED BY <3>1, <4>1, <4>2
    <3>5. Doomed(at)'
      BY <1>1, <2>1, <3>3, <3>4 DEF Doomed
    <3> QED BY <2>1, <3>3, <3>5
  <2>3. FormInv'
    <3>1. TypeOK' /\ (pc' = "drain" => at' \in 1..Len(items'))
      BY <1>1, <2>1 DEF FormInv, TypeOK
    <3>2. member' \subseteq Between(1, Len(items))'
      BY <1>1, <2>1 DEF FormInv, Between
    <3> QED BY <1>1, <2>1, <3>1, <3>2 DEF FormInv
  <2>4. FailInv'
    BY <1>1, <2>1, <2>2 DEF FailInv, Doomed
  <2>5. OkInv'
    <3> SUFFICES ASSUME ret = "ok"
                 PROVE  /\ pc' = "drain" => member' \subseteq Between(at + 1, Len(items))
                        /\ pc' = "edit" => member' = {}
                        /\ Account'
      BY <1>1, <2>1 DEF OkInv, Between
    <3>1. member \subseteq Between(at, Len(items)) /\ Account
      BY <1>1 DEF OkInv
    <3>2. member' \subseteq Between(at + 1, Len(items))
      BY <1>1, <2>1, <3>1 DEF Between
    <3>3. at = Len(items) => Between(at + 1, Len(items)) = {}
      BY <1>1 DEF Between
    <3>4. Account'
      <4>1. \A e \in member \ member' : queue[e] = 0
        BY <1>2, <2>1
      <4>2. member' \ member = {}
        BY <2>1
      <4> QED BY <1>1, <3>1, <4>1, <4>2, AccountKept
    <3> QED BY <2>1, <3>2, <3>3, <3>4
  <2> QED BY <2>3, <2>4, <2>5 DEF IInv
<1>3. CASE ~(items[at] \in member /\ queue[items[at]] = 0)
  <2>1. pc' = "drain" /\ UNCHANGED <<member, at>>
    BY <1>3 DEF Leave
  <2>2. FormInv'
    BY <1>1, <2>1 DEF FormInv, TypeOK, Between
  <2>3. FailInv'
    BY <1>1, <2>1 DEF FailInv, Doomed
  <2>4. OkInv'
    BY <1>1, <2>1 DEF OkInv, Between, Account, Handles
  <2> QED BY <2>2, <2>3, <2>4 DEF IInv
<1> QED BY <1>2, <1>3

\* While the list is edited no queue is a member.
LEMMA UnlistKeeps ==
  ASSUME IInv, Unlist
  PROVE  IInv'
<1>1. /\ FormInv /\ FailInv /\ OkInv
      /\ pc = "edit" /\ op.do = "remove"
      /\ UNCHANGED <<queue, sent, member, queue_set, room, got, pc, at, op, ret>>
  BY DEF IInv, Unlist, sendVars, setVars, opVars
<1>2. ret = "ok" /\ member = {} /\ Account
  BY <1>1 DEF FailInv, OkInv, FormInv, TypeOK
<1>3. items' \in Seq(Evts) /\ Len(items') = Len(items) - 1 /\ Len(items') \in Nat /\ Len(items) \in Nat
  <2>1. PICK i \in DOMAIN items :
          items' = SubSeq(items, 1, i - 1) \o SubSeq(items, i + 1, Len(items))
    BY DEF Unlist, RemoveAt
  <2>2. items \in Seq(Evts) /\ Len(items) \in Nat /\ i \in 1..Len(items)
    BY <1>1, LenProperties DEF FormInv, TypeOK
  <2>3. SubSeq(items, 1, i - 1) \in Seq(Evts) /\ Len(SubSeq(items, 1, i - 1)) = i - 1
    BY <2>2, SubSeqProperties
  <2>4. /\ SubSeq(items, i + 1, Len(items)) \in Seq(Evts)
        /\ Len(SubSeq(items, i + 1, Len(items))) = Len(items) - i
    BY <2>2, SubSeqProperties
  <2>5. items' \in Seq(Evts) /\ Len(items') = (i - 1) + (Len(items) - i)
    BY <2>1, <2>3, <2>4, ConcatProperties
  <2> QED BY <2>2, <2>5
<1>4. FormInv'
  <2>1. TypeOK'
    BY SMTT(30), <1>1, <1>3, BoundsAssumption DEF FormInv, TypeOK
  <2>2. room' >= QueueSize * Len(items')
    <3>1. /\ QueueSize * Len(items') <= QueueSize * Len(items)
          /\ QueueSize * Len(items') \in Nat /\ QueueSize * Len(items) \in Nat
      BY <1>3, BoundsAssumption, TimesMonotonic
    <3> QED BY <1>1, <3>1 DEF FormInv, TypeOK
  <2> QED BY <1>1, <1>2, <2>1, <2>2 DEF FormInv
<1>5. FailInv'
  BY <1>1, <1>2 DEF FailInv
<1>6. OkInv'
  BY <1>1, <1>2 DEF OkInv, Account, Handles
<1> QED BY <1>4, <1>5, <1>6 DEF IInv

\* The new set is empty, and has room for all its queues.
LEMMA EditKeeps ==
  ASSUME IInv, Edit
  PROVE  IInv'
<1>1. /\ FormInv /\ FailInv /\ OkInv
      /\ pc = "edit" /\ items' = Edited /\ queue_set' = << >>
      /\ room' = QueueSize * Len(items') /\ at' = 1
      /\ pc' = IF op.do = "destroy" THEN "destroyed" ELSE IF items' = << >> THEN "idle" ELSE "empty"
      /\ UNCHANGED <<queue, sent, member, got, op, ret>>
  BY DEF IInv, Edit, Editing, sendVars
<1>2. ret = "ok" /\ member = {} /\ got = None
  BY <1>1 DEF FailInv, OkInv, FormInv, TypeOK
<1>3. items' \in Seq(Evts) /\ Len(items') \in Nat /\ Len(items') <= MaxItems
  <2>1. items \in Seq(Evts) /\ Len(items) \in Nat /\ Len(items) <= MaxItems /\ MaxItems \in Nat
    BY <1>1, LenProperties, BoundsAssumption DEF FormInv, TypeOK
  <2>2. CASE op.do = "add"
    <3>1. op.evt \in Evts /\ Len(items) < MaxItems
      BY <1>1, <2>2 DEF FormInv
    <3>2. items' = Append(items, op.evt)
      BY <1>1, <2>2 DEF Edited
    <3> QED BY <2>1, <3>1, <3>2, AppendProperties
  <2>3. CASE op.do = "remove"
    BY <1>1, <2>1, <2>3 DEF Edited
  <2>4. CASE op.do = "destroy"
    <3>1. items' = << >>
      BY <1>1, <2>4 DEF Edited
    <3> QED BY <2>1, <3>1, EmptySeq
  <2>5. op.do \in {"add", "remove", "destroy"}
    BY <1>1 DEF FormInv, TypeOK, Changes
  <2> QED BY <2>2, <2>3, <2>4, <2>5
<1>4. /\ items' # << >> => Len(items') > 0
      /\ items' = << >> => Len(items') = 0
      /\ pc' \in {"destroyed", "idle", "empty"}
  BY <1>1, <1>3, EmptySeq
<1>5. FormInv'
  <2>1. TypeOK'
    <3>1. room' \in Nat
      BY <1>1, <1>3, BoundsAssumption
    <3>2. queue_set' \in Seq(Evts)
      BY <1>1, EmptySeq
    <3> QED BY <1>1, <1>3, <1>4, <3>1, <3>2 DEF FormInv, TypeOK
  <2>2. pc' = "empty" => at' \in 1..Len(items')
    BY <1>1, <1>3, <1>4
  <2>3. room' >= QueueSize * Len(items')
    BY <1>1, <1>3, BoundsAssumption
  <2> QED BY <1>1, <1>2, <1>4, <2>1, <2>2, <2>3 DEF FormInv
<1>6. FailInv'
  BY <1>1, <1>2 DEF FailInv
<1>7. Account'
  <2>1. \A e \in Evts : Handles(e)' = 0
    <3> SUFFICES ASSUME NEW e \in Evts PROVE Cardinality(Places(<< >>, e)) = 0
      BY <1>1 DEF Handles
    <3>1. Places(<< >>, e) = {}
      BY DEF Places
    <3> QED BY <3>1, FS_EmptySet
  <2> QED BY <1>1, <1>2, <2>1, EvtsAssumption DEF Account
<1>8. OkInv'
  <2>1. pc' = "idle" => Len(items') = 0
    BY <1>1, <1>4
  <2>2. Between(1, 0)' = {}
    BY DEF Between
  <2> QED BY <1>1, <1>2, <1>4, <1>7, <2>1, <2>2 DEF OkInv, Between
<1> QED BY <1>5, <1>6, <1>8 DEF IInv

\* Only the queue that is to join is emptied.
LEMMA EmptyKeeps ==
  ASSUME IInv, Empty
  PROVE  IInv'
<1>1. /\ FormInv /\ FailInv /\ OkInv
      /\ pc = "empty" /\ pc' = "join"
      /\ queue' = [queue EXCEPT ![items[at]] = 0]
      /\ UNCHANGED <<sent, member, queue_set, room, items, got, at, op, ret>>
  BY DEF IInv, Empty, setVars
<1>2. ret = "ok" /\ member = Between(1, at - 1) /\ Account
  BY <1>1 DEF FailInv, OkInv, FormInv, TypeOK
<1>3. queue \in [Evts -> 0..QueueSize] /\ queue' \in [Evts -> 0..QueueSize]
  BY <1>1, BoundsAssumption DEF FormInv, TypeOK
<1>4. FormInv'
  BY <1>1, <1>3 DEF FormInv, TypeOK, Between
<1>5. FailInv'
  BY <1>1, <1>2 DEF FailInv
<1>6. items[at] \notin member => Account'
  <2> SUFFICES ASSUME items[at] \notin member, NEW e \in Evts
      PROVE  IF e \in member THEN queue'[e] = Handles(e) + (IF got = e THEN 1 ELSE 0)
             ELSE Handles(e) = 0 /\ got # e
    BY <1>1 DEF Account, Handles
  <2>1. e \in member => queue'[e] = queue[e]
    BY <1>1, <1>3
  <2> QED BY <1>2, <2>1 DEF Account
<1>7. OkInv'
  BY <1>1, <1>2, <1>6 DEF OkInv, Between
<1> QED BY <1>4, <1>5, <1>7 DEF IInv

\* The queue joins the set with nothing in it, or the list is doomed.
LEMMA JoinKeeps ==
  ASSUME IInv, Join
  PROVE  IInv'
<1>1. /\ FormInv /\ FailInv /\ OkInv
      /\ pc = "join" /\ got = None
      /\ at \in 1..Len(items) /\ Len(items) \in Nat /\ items[at] \in Evts
      /\ UNCHANGED <<queue, sent, queue_set, room, items, got, op>>
  BY LenProperties, ElementOfSeq DEF IInv, FormInv, TypeOK, Join, sendVars
<1>2. ret = "ok" /\ member = Between(1, at - 1)
  BY <1>1 DEF FailInv, OkInv, FormInv, TypeOK
<1>3. CASE items[at] \notin member /\ queue[items[at]] = 0
  <2>1. /\ member' = member \cup {items[at]} /\ at' = at + 1
        /\ pc' = IF at = Len(items) THEN "idle" ELSE "empty"
        /\ ret' = "ok"
    BY <1>3 DEF Join
  <2>2. member' = Between(1, at)
    BY <1>1, <1>2, <2>1 DEF Between
  <2>3. FormInv'
    <3>1. TypeOK' /\ (pc' = "empty" => at' \in 1..Len(items'))
      BY <1>1, <2>1 DEF FormInv, TypeOK
    <3>2. member' \subseteq Between(1, Len(items))'
      BY <1>1, <2>2 DEF Between
    <3> QED BY <1>1, <2>1, <3>1, <3>2 DEF FormInv
  <2>4. FailInv'
    BY <2>1 DEF FailInv
  <2>5. Account'
    <3>1. Account
      BY <1>1, <1>2, <1>3 DEF OkInv
    <3>2. \A e \in member' \ member : queue[e] = 0
      BY <1>3, <2>1
    <3>3. member \ member' = {}
      BY <2>1
    <3> QED BY <1>1, <3>1, <3>2, <3>3, AccountKept
  <2>6. OkInv'
    <3>1. at' - 1 = at
      BY <1>1, <2>1
    <3> QED BY <1>1, <2>1, <2>2, <2>5, <3>1 DEF OkInv, Between
  <2> QED BY <2>3, <2>4, <2>6 DEF IInv
<1>4. CASE ~(items[at] \notin member /\ queue[items[at]] = 0)
  <2>1. pc' = "idle" /\ ret' = "fail" /\ UNCHANGED <<member, at>>
    BY <1>4 DEF Join
  <2>2. FormInv'
    BY <1>1, <2>1 DEF FormInv, TypeOK, Between
  <2>3. Doomed(1)
    <3>1. items[at] \in member => \E i \in 1..at - 1 : items[i] = items[at]
      BY <1>2 DEF Between
    <3> QED BY <1>1, <3>1 DEF Doomed
  <2>4. FailInv'
    BY <1>1, <2>1, <2>3 DEF FailInv, Doomed
  <2>5. OkInv'
    BY <2>1 DEF OkInv
  <2> QED BY <2>2, <2>4, <2>5 DEF IInv
<1> QED BY <1>3, <1>4
-----------------------------------------------------------------------------
LEMMA InitKeeps == Init => IInv
<1> SUFFICES ASSUME Init PROVE IInv
  OBVIOUS
<1>1. << >> \in Seq(Evts) /\ Len(<< >>) = 0
  BY EmptySeq
<1>2. TypeOK
  BY <1>1, BoundsAssumption DEF Init, TypeOK, NoChange
<1>3. Between(1, Len(items)) = {}
  BY <1>1 DEF Init, Between
<1>4. room >= QueueSize * Len(items)
  BY <1>1, BoundsAssumption DEF Init
<1>5. Account
  <2> SUFFICES ASSUME NEW e \in Evts PROVE Cardinality(Places(<< >>, e)) = 0
    BY EvtsAssumption DEF Init, Account, Handles
  <2>1. Places(<< >>, e) = {}
    BY DEF Places
  <2> QED BY <2>1, FS_EmptySet
<1> QED BY <1>2, <1>3, <1>4, <1>5 DEF Init, IInv, FormInv, FailInv, OkInv

LEMMA NextKeeps ==
  ASSUME IInv, [Next]_vars
  PROVE  IInv'
<1>1. ASSUME NEW e \in Evts, Sendout(e) PROVE IInv'
  BY <1>1, SendoutKeeps
<1>2. CASE Listen
  BY <1>2, ListenKeeps
<1>3. ASSUME NEW do \in {"add", "remove"}, NEW e \in Evts, Change(do, e) PROVE IInv'
  BY <1>3, ChangeKeeps DEF Changes
<1>4. CASE Change("destroy", None)
  BY <1>4, ChangeKeeps DEF Changes
<1>5. CASE Changing
  BY <1>5, DrainReadKeeps, DrainEndsKeeps, LeaveKeeps, UnlistKeeps, EditKeeps,
     EmptyKeeps, JoinKeeps DEF Changing
<1>6. CASE UNCHANGED vars
  BY SMTT(30), <1>6 DEF vars, sendVars, setVars, opVars, IInv, FormInv, TypeOK, FailInv, OkInv,
              Account, Handles, Doomed, Between
<1> QED BY <1>1, <1>2, <1>3, <1>4, <1>5, <1>6 DEF Next

LEMMA Inductive == Spec => []IInv
<1> QED BY InitKeeps, NextKeeps, PTL DEF Spec

\* Every variable of the event interface keeps its type; in particular queues
\* and the list stay within their sizes.
THEOREM TypeCorrect == Spec => []TypeOK
<1>1. IInv => TypeOK
  BY DEF IInv, FormInv
<1> QED BY <1>1, Inductive, PTL

\* After any sequence of changes of the listener that succeeded, every interface
\* on the list is a member of the set and each of its messages has a handle in
\* it, for any number of interfaces and any sizes, whatever is sent meanwhile.
THEOREM SeesAll == Spec => []NothingUnseen
<1>1. IInv => NothingUnseen
  <2> SUFFICES ASSUME IInv, pc = "idle", ret = "ok"
               PROVE  /\ member = ToSet(items)
                      /\ \A e \in member : queue[e] = Handles(e) + (IF got = e THEN 1 ELSE 0)
    BY DEF NothingUnseen
  <2>1. /\ member = Between(1, Len(items)) /\ Account
        /\ items \in Seq(Evts) /\ member \subseteq Evts
    BY DEF IInv, OkInv, FormInv, TypeOK
  <2>2. DOMAIN items = 1..Len(items)
    BY <2>1, LenProperties
  <2> QED BY <2>1, <2>2 DEF Between, ToSet, Account
<1> QED BY <1>1, Inductive, PTL
=============================================================================
