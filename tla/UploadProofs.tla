----------------------------- MODULE UploadProofs -----------------------------
(***************************************************************************)
(* Proofs about the uploads.  The first part: however they break off, a    *)
(* file stays open only as long as a slot or the chunk handler refers to   *)
(* it.  The second: who is told success has its file on the card.          *)
(*                                                                         *)
(* A file handle is lost when a slot or the handler takes another one      *)
(* without closing it, or closes one that something else refers to.  So    *)
(* the invariant says that each file is referred to once, which rests on   *)
(* a TCP client opening its file only for its first chunk, and that a slot *)
(* that is found free holds no file, which rests on nobody else having     *)
(* found it since (shared).                                                *)
(***************************************************************************)
EXTENDS UploadProps, SequenceTheorems, FiniteSetTheorems, FunctionTheorems, TLAPS

Places == {"none", "header", "open", "mark", "body", "write", "count", "ack", "more",
           "cleanup", "return"}
Kinds == {"start", "chunk", "cut", "complete", "closed", "ready", "ack", "done", "failed"}
Message == [kind : Kinds, i : Nat]
File == Clients \cup {None}
SlotType == [file : File, got : Nat, total : Nat, active : BOOLEAN]

FormInv ==
  /\ via \in [Clients -> Ways] /\ size \in [Clients -> Nat \ {0}]
  /\ said \in [Clients -> {"idle", "waiting", "success", "failed", "stuck", "left"}]
  /\ reading \in [Clients -> SUBSET Nat]
  /\ acked \in [Clients -> SUBSET Nat] /\ \A c \in Clients : IsFiniteSet(acked[c])
  /\ wire \in [Clients -> Seq(Message)] /\ back \in [Clients -> Seq(Message)]
  /\ http \in [file : File, got : Nat, total : Nat]
  /\ slots \in [Slots -> SlotType]
  /\ pc \in [Clients -> Places] /\ slot \in [Clients -> Slots \cup {None}]

Zero(m) == m.kind = "chunk" /\ m.i = 0
NoZero(w) == \A k \in 1..Len(w) : ~Zero(w[k])
Used(c) == \E s \in Slots : slots[s].file = c

\* The connection of a TCP client: only its first message is chunk 0.
WireInv ==
  \A c \in Clients : via[c] = "tcp" =>
    /\ reading[c] = {}
    /\ \A k \in 1..Len(back[c]) : back[c][k].kind # "ready"
    /\ \A k \in 1..Len(wire[c]) : /\ wire[c][k].kind \in {"chunk", "closed"}
                                  /\ k > 1 => ~Zero(wire[c][k])
    /\ said[c] = "idle" => wire[c] = << >> /\ pc[c] = "none"

\* A TCP client opens its file once, while no slot refers to it.
OnceAt(c) ==
  /\ pc[c] # "none" => via[c] = "tcp"
  /\ pc[c] \in {"none", "open"} => ~Used(c)
  /\ pc[c] = "header" /\ Used(c) => NoZero(wire[c])
  /\ pc[c] \in {"write", "count", "ack", "more"} => NoZero(wire[c])
  /\ pc[c] \in {"open", "mark", "write", "count", "ack", "more"} => slot[c] \in Slots
  /\ pc[c] \in {"open", "mark", "body"} => wire[c] # << >>

OnceInv == \A c \in Clients : OnceAt(c)

\* Each file is referred to once, by the handler or by one slot.
OwnerInv ==
  /\ http.file # None => via[http.file] = "http"
  /\ \A s \in Slots : slots[s].file # None => via[slots[s].file] = "tcp"
  /\ \A s, t \in Slots : slots[s].file = slots[t].file /\ slots[s].file # None => s = t

Finding(c) == pc[c] \in {"open", "mark"}

\* Who found a slot free is alone with it until it is marked.
SlotInv ==
  shared = {} =>
    /\ \A c, d \in Clients : Finding(c) /\ Finding(d) /\ slot[c] = slot[d] => c = d
    /\ \A c \in Clients : Finding(c) => ~slots[slot[c]].active
    /\ \A s \in Slots : ~slots[s].active /\ slots[s].file # None =>
                          \E c \in Clients : pc[c] = "mark" /\ slot[c] = s

IInv == FormInv /\ WireInv /\ OnceInv /\ OwnerInv /\ SlotInv /\ NoFileLost
-----------------------------------------------------------------------------
(* Messages *)

LEMMA MessageForm ==
  ASSUME NEW k \in Kinds, NEW i \in Nat
  PROVE  [kind |-> k, i |-> i] \in Message
BY DEF Message

\* What Send and Answer do to the connections.
LEMMA SendForm ==
  ASSUME FormInv, NEW c \in Clients, NEW m \in Message, Send(c, m)
  PROVE  /\ wire' \in [Clients -> Seq(Message)]
         /\ \A d \in Clients : \/ wire'[d] = wire[d]
                               \/ d = c /\ wire'[d] = Append(wire[d], m)
<1>1. wire \in [Clients -> Seq(Message)]
  BY DEF FormInv
<1>2. Append(wire[c], m) \in Seq(Message)
  BY <1>1, AppendProperties
<1>3. wire' = wire \/ wire' = [wire EXCEPT ![c] = Append(wire[c], m)]
  BY DEF Send
<1>4. CASE wire' = wire
  BY <1>1, <1>4
<1>5. CASE wire' = [wire EXCEPT ![c] = Append(wire[c], m)]
  BY <1>1, <1>2, <1>5
<1> QED BY <1>3, <1>4, <1>5

LEMMA AnswerForm ==
  ASSUME FormInv, NEW c \in Clients, NEW m \in Message, Answer(c, m)
  PROVE  /\ back' \in [Clients -> Seq(Message)]
         /\ \A d \in Clients : \/ back'[d] = back[d]
                               \/ d = c /\ back'[d] = Append(back[d], m)
<1>1. back \in [Clients -> Seq(Message)]
  BY DEF FormInv
<1>2. Append(back[c], m) \in Seq(Message)
  BY <1>1, AppendProperties
<1>3. back' = back \/ back' = [back EXCEPT ![c] = Append(back[c], m)]
  BY DEF Answer, Reply
<1>4. CASE back' = back
  BY <1>1, <1>4
<1>5. CASE back' = [back EXCEPT ![c] = Append(back[c], m)]
  BY <1>1, <1>2, <1>5
<1> QED BY <1>3, <1>4, <1>5

LEMMA HeadForm ==
  ASSUME NEW w \in Seq(Message), w # << >>
  PROVE  /\ Head(w) \in Message /\ Head(w) = w[1] /\ Tail(w) \in Seq(Message)
         /\ Head(w).kind \in Kinds /\ Head(w).i \in Nat
         /\ Len(w) \in Nat \ {0} /\ Len(Tail(w)) = Len(w) - 1
         /\ \A k \in 1..Len(Tail(w)) : Tail(w)[k] = w[k + 1]
<1>1. Head(w) \in Message /\ Head(w) = w[1] /\ Tail(w) \in Seq(Message)
  BY HeadTailProperties, ElementOfSeq, EmptySeq, LenProperties
<1>2. Len(w) \in Nat \ {0} /\ Len(Tail(w)) = Len(w) - 1
  BY HeadTailProperties, EmptySeq, LenProperties
<1>3. \A k \in 1..Len(Tail(w)) : Tail(w)[k] = w[k + 1]
  BY HeadTailProperties
<1> QED BY <1>1, <1>2, <1>3 DEF Message
-----------------------------------------------------------------------------
(* Steps that leave the tasks of the TCP clients alone *)

\* What happens to the connection of a TCP client meanwhile: no first chunk
\* comes in that was not there, and what waits is not taken.
Grows(d) ==
  /\ \A k \in 1..Len(wire'[d]) :
        /\ wire'[d][k].kind \in {"chunk", "closed"}
        /\ Zero(wire'[d][k]) => k \in 1..Len(wire[d]) /\ wire'[d][k] = wire[d][k]
  /\ wire[d] # << >> => wire'[d] # << >>
  /\ said[d] = "idle" => wire'[d] = wire[d]

\* WireInv for one client.
LEMMA WireAt ==
  ASSUME WireInv, NEW d \in Clients, via[d] = "tcp"
  PROVE  /\ reading[d] = {}
         /\ \A k \in 1..Len(back[d]) : back[d][k].kind # "ready"
         /\ \A k \in 1..Len(wire[d]) : wire[d][k].kind \in {"chunk", "closed"}
         /\ \A k \in 1..Len(wire[d]) : k > 1 => ~Zero(wire[d][k])
         /\ said[d] = "idle" => wire[d] = << >> /\ pc[d] = "none"
BY Zenon DEF WireInv

LEMMA Unsent ==
  ASSUME IInv, NEW d \in Clients, via[d] = "tcp", wire'[d] = wire[d]
  PROVE  Grows(d)
BY WireAt DEF IInv, Grows

LEMMA Sent ==
  ASSUME IInv, NEW c \in Clients, NEW m \in Message, Send(c, m),
         via[c] = "tcp" => said[c] # "idle" /\ m.kind \in {"chunk", "closed"} /\ ~Zero(m)
  PROVE  /\ wire' \in [Clients -> Seq(Message)]
         /\ \A d \in Clients : via[d] = "tcp" => Grows(d)
<1>1. /\ wire' \in [Clients -> Seq(Message)] /\ wire \in [Clients -> Seq(Message)]
      /\ \A d \in Clients : \/ wire'[d] = wire[d]
                            \/ d = c /\ wire'[d] = Append(wire[d], m)
  BY SendForm DEF IInv, FormInv
<1>2. ASSUME NEW d \in Clients, via[d] = "tcp", d = c, wire'[d] = Append(wire[d], m)
      PROVE  Grows(d)
  <2>1. /\ Len(wire'[d]) = Len(wire[d]) + 1 /\ Len(wire[d]) \in Nat
        /\ \A k \in 1..Len(wire[d]) : wire'[d][k] = wire[d][k]
        /\ wire'[d][Len(wire[d]) + 1] = m
    BY <1>1, <1>2, AppendProperties, LenProperties
  <2>2. \A k \in 1..Len(wire'[d]) : k \in 1..Len(wire[d]) \/ wire'[d][k] = m
    BY <2>1
  <2>3. \A k \in 1..Len(wire[d]) : wire[d][k].kind \in {"chunk", "closed"}
    BY <1>2, WireAt DEF IInv
  <2>4. wire'[d] # << >>
    BY <2>1, EmptySeq
  <2> QED BY <1>2, <2>1, <2>2, <2>3, <2>4 DEF Grows
<1> QED BY <1>1, <1>2, Unsent

LEMMA Answered ==
  ASSUME IInv, NEW c \in Clients, NEW m \in Message, Answer(c, m),
         via[c] = "tcp" => m.kind # "ready"
  PROVE  /\ back' \in [Clients -> Seq(Message)]
         /\ \A d \in Clients : via[d] = "tcp" =>
               \A k \in 1..Len(back'[d]) : back'[d][k].kind # "ready"
<1>1. /\ back' \in [Clients -> Seq(Message)] /\ back \in [Clients -> Seq(Message)]
      /\ \A d \in Clients : \/ back'[d] = back[d]
                            \/ d = c /\ back'[d] = Append(back[d], m)
  BY AnswerForm DEF IInv, FormInv
<1>2. \A d \in Clients : via[d] = "tcp" =>
        \A k \in 1..Len(back[d]) : back[d][k].kind # "ready"
  BY DEF IInv, WireInv
<1>3. ASSUME NEW d \in Clients, via[d] = "tcp", d = c, back'[d] = Append(back[d], m)
      PROVE  \A k \in 1..Len(back'[d]) : back'[d][k].kind # "ready"
  <2>1. /\ Len(back'[d]) = Len(back[d]) + 1 /\ Len(back[d]) \in Nat
        /\ \A k \in 1..Len(back[d]) : back'[d][k] = back[d][k]
        /\ back'[d][Len(back[d]) + 1] = m
    BY <1>1, <1>3, AppendProperties, LenProperties
  <2>2. \A k \in 1..Len(back'[d]) : k \in 1..Len(back[d]) \/ back'[d][k] = m
    BY <2>1
  <2> QED BY <1>2, <1>3, <2>1, <2>2
<1> QED BY <1>1, <1>2, <1>3

\* The web server takes messages of the pages only.
LEMMA Taken ==
  ASSUME IInv, NEW c \in Clients, NEW w \in {"ws", "http"}, NEW k \in Kinds, Taking(c, w, k)
  PROVE  /\ wire' \in [Clients -> Seq(Message)]
         /\ \A d \in Clients : via[d] = "tcp" => Grows(d)
         /\ Head(wire[c]).i \in Nat /\ via[c] = w
         /\ UNCHANGED <<via, size, said, reading, acked, slots, pc, slot>>
<1>1. wire \in [Clients -> Seq(Message)] /\ via \in [Clients -> Ways]
  BY DEF IInv, FormInv
<1>2. /\ via[c] = w /\ wire[c] # << >> /\ wire' = [wire EXCEPT ![c] = Tail(wire[c])]
      /\ UNCHANGED <<via, size, said, reading, acked, slots, pc, slot>>
  BY DEF Taking, page
<1>3. Tail(wire[c]) \in Seq(Message) /\ Head(wire[c]).i \in Nat
  BY <1>1, <1>2, HeadForm
<1>4. wire' \in [Clients -> Seq(Message)]
  BY <1>1, <1>2, <1>3
<1>5. \A d \in Clients : via[d] = "tcp" => wire'[d] = wire[d]
  BY <1>1, <1>2
<1> QED BY <1>2, <1>3, <1>4, <1>5, Unsent

LEMMA WireKept ==
  ASSUME IInv, UNCHANGED <<via, pc>>,
         \A d \in Clients : via[d] = "tcp" =>
           /\ Grows(d) /\ reading'[d] = {}
           /\ \A k \in 1..Len(back'[d]) : back'[d][k].kind # "ready"
           /\ said'[d] = "idle" => said[d] = "idle"
  PROVE  WireInv'
<1>1. SUFFICES ASSUME NEW d \in Clients, via[d] = "tcp"
      PROVE  /\ \A k \in 1..Len(wire'[d]) : /\ wire'[d][k].kind \in {"chunk", "closed"}
                                            /\ k > 1 => ~Zero(wire'[d][k])
             /\ said'[d] = "idle" => wire'[d] = << >> /\ pc[d] = "none"
  BY DEF WireInv, Zero
<1>2. /\ \A k \in 1..Len(wire[d]) : k > 1 => ~Zero(wire[d][k])
      /\ said[d] = "idle" => wire[d] = << >> /\ pc[d] = "none"
  BY <1>1, WireAt DEF IInv
<1> QED BY <1>1, <1>2 DEF Grows

LEMMA OnceKept ==
  ASSUME IInv, UNCHANGED <<via, slots, pc, slot>>,
         \A d \in Clients : via[d] = "tcp" => Grows(d)
  PROVE  OnceInv'
<1> SUFFICES ASSUME NEW d \in Clients, pc[d] # "none"
    PROVE  /\ NoZero(wire[d]) => NoZero(wire'[d])
           /\ wire[d] # << >> => wire'[d] # << >>
  BY DEF IInv, OnceInv, OnceAt, NoZero, Used, Zero
<1> QED BY DEF IInv, OnceInv, OnceAt, Grows, NoZero

LEMMA CardKept ==
  ASSUME IInv, UNCHANGED <<via, http, slots, pc, slot, opened, shared>>
  PROVE  OwnerInv' /\ SlotInv' /\ NoFileLost'
BY DEF IInv, OwnerInv, SlotInv, NoFileLost, Finding

\* The handler's file, of a page, gives way to another page's or to none.
LEMMA HttpKept ==
  ASSUME IInv, UNCHANGED <<via, slots, pc, slot>>, shared \subseteq shared',
         http'.file # None => http'.file \in Clients /\ via[http'.file] = "http",
         NEW closed \in SUBSET {d \in Clients : via[d] = "http"},
         opened' = ((opened \ {http.file}) \ closed) \cup ({http'.file} \ {None})
  PROVE  OwnerInv' /\ SlotInv' /\ NoFileLost'
<1>1. OwnerInv'
  BY DEF IInv, OwnerInv
<1>2. SlotInv'
  BY DEF IInv, SlotInv, Finding
<1>3. ASSUME shared' = {}
      PROVE  opened' = ({http'.file} \cup {slots'[s].file : s \in Slots}) \ {None}
  <2> DEFINE S == {slots[s].file : s \in Slots}
  <2>1. opened = ({http.file} \cup S) \ {None}
    BY <1>3 DEF IInv, NoFileLost
  <2>2. http.file \in S => http.file = None
    BY DEF IInv, OwnerInv
  <2>3. S \cap closed \subseteq {None}
    BY DEF IInv, OwnerInv
  <2> QED BY <2>1, <2>2, <2>3
<1> QED BY <1>1, <1>2, <1>3 DEF NoFileLost

\* A step of a page: it hears or loads something, and may send something.
LEMMA PageKept ==
  ASSUME IInv, UNCHANGED <<via, size, http, slots, pc, slot, opened, shared>>,
         wire' \in [Clients -> Seq(Message)], back' \in [Clients -> Seq(Message)],
         \A d \in Clients : via[d] = "tcp" =>
           /\ Grows(d) /\ reading'[d] = {}
           /\ \A k \in 1..Len(back'[d]) : back'[d][k].kind # "ready"
           /\ said'[d] = "idle" => said[d] = "idle",
         said' \in [Clients -> {"idle", "waiting", "success", "failed", "stuck", "left"}],
         reading' \in [Clients -> SUBSET Nat],
         acked' \in [Clients -> SUBSET Nat], \A d \in Clients : IsFiniteSet(acked'[d])
  PROVE  IInv'
<1>1. FormInv'
  BY DEF IInv, FormInv
<1>2. WireInv'
  BY WireKept
<1>3. OnceInv'
  BY OnceKept
<1> QED BY <1>1, <1>2, <1>3, CardKept DEF IInv

\* What Hearing gives: the message is taken, and never "ready" for TCP.
LEMMA Heard ==
  ASSUME IInv, NEW c \in Clients, NEW k \in Kinds, Hearing(c, k)
  PROVE  /\ back' \in [Clients -> Seq(Message)]
         /\ \A d \in Clients : via[d] = "tcp" =>
               \A j \in 1..Len(back'[d]) : back'[d][j].kind # "ready"
         /\ Head(back[c]).i \in Nat /\ said[c] = "waiting"
         /\ via[c] = "tcp" => k # "ready"
         /\ UNCHANGED <<via, size, http, slots, pc, slot, opened, shared>>
<1>1. back \in [Clients -> Seq(Message)] /\ via \in [Clients -> Ways]
  BY DEF IInv, FormInv
<1>2. /\ said[c] = "waiting" /\ back[c] # << >> /\ Head(back[c]).kind = k
      /\ back' = [back EXCEPT ![c] = Tail(back[c])]
      /\ UNCHANGED <<via, size, http, slots, pc, slot, opened, shared>>
  BY DEF Hearing, server, card, history
<1>3. /\ Tail(back[c]) \in Seq(Message) /\ Head(back[c]).i \in Nat
      /\ Head(back[c]) = back[c][1] /\ Len(back[c]) \in Nat \ {0}
      /\ Len(Tail(back[c])) = Len(back[c]) - 1
      /\ \A j \in 1..Len(Tail(back[c])) : Tail(back[c])[j] = back[c][j + 1]
  BY <1>1, <1>2, HeadForm
<1>4. back' \in [Clients -> Seq(Message)]
  BY <1>1, <1>2, <1>3
<1>5. ASSUME NEW d \in Clients, via[d] = "tcp"
      PROVE  /\ \A j \in 1..Len(back'[d]) : back'[d][j].kind # "ready"
             /\ d = c => k # "ready"
  <2>1. \A j \in 1..Len(back[d]) : back[d][j].kind # "ready"
    BY <1>5, WireAt DEF IInv
  <2>2. CASE d = c
    <3>1. \A j \in 1..Len(back'[c]) : j + 1 \in 1..Len(back[c]) /\ back'[c][j] = back[c][j + 1]
      BY <1>1, <1>2, <1>3
    <3>2. 1 \in 1..Len(back[c])
      BY <1>3
    <3> QED BY <1>2, <1>3, <2>1, <2>2, <3>1, <3>2
  <2>3. CASE d # c
    BY <1>1, <1>2, <2>1, <2>3
  <2> QED BY <2>2, <2>3
<1> QED BY <1>2, <1>3, <1>4, <1>5

LEMMA WsLoadedKeeps ==
  ASSUME IInv, NEW c \in Clients, WsLoaded(c)
  PROVE  IInv'
<1>1. PICK i \in reading[c] : /\ reading' = [reading EXCEPT ![c] = @ \ {i}]
                              /\ Send(c, Chunk(i))
  BY DEF WsLoaded
<1>2. UNCHANGED <<via, size, said, acked, back, http, slots, pc, slot, opened, shared>>
  BY DEF WsLoaded, server, card, history
<1>3. FormInv /\ WireInv
  BY DEF IInv
<1>4. via[c] # "tcp"
  BY <1>1, <1>3, WireAt
<1>5. Chunk(i) \in Message
  BY <1>1, <1>3, MessageForm DEF FormInv, Chunk, Kinds
<1>6. /\ wire' \in [Clients -> Seq(Message)]
      /\ \A d \in Clients : via[d] = "tcp" => Grows(d)
  BY <1>1, <1>4, <1>5, Sent
<1>7. reading' \in [Clients -> SUBSET Nat]
  BY <1>1, <1>3 DEF FormInv
<1>8. \A d \in Clients : via[d] = "tcp" =>
        /\ reading'[d] = {} /\ \A k \in 1..Len(back[d]) : back[d][k].kind # "ready"
  BY <1>1, <1>3, <1>4, WireAt DEF FormInv
<1> QED BY <1>2, <1>3, <1>6, <1>7, <1>8, PageKept DEF FormInv

LEMMA HearReadyKeeps ==
  ASSUME IInv, NEW c \in Clients, HearReady(c)
  PROVE  IInv'
<1>1. Hearing(c, "ready") /\ StartBatch(c) /\ UNCHANGED <<said, acked, wire>>
  BY DEF HearReady
<1>2. FormInv /\ WireInv
  BY DEF IInv
<1>3. /\ back' \in [Clients -> Seq(Message)]
      /\ \A d \in Clients : via[d] = "tcp" =>
           \A j \in 1..Len(back'[d]) : back'[d][j].kind # "ready"
      /\ via[c] # "tcp"
      /\ UNCHANGED <<via, size, http, slots, pc, slot, opened, shared>>
  BY <1>1, Heard DEF Kinds
<1>4. NextBatch(c) \subseteq Nat
  BY <1>2 DEF NextBatch, Chunks, FormInv
<1>5. reading' \in [Clients -> SUBSET Nat]
  BY <1>1, <1>2, <1>4 DEF StartBatch, FormInv
<1>6. \A d \in Clients : via[d] = "tcp" => reading'[d] = {} /\ Grows(d)
  BY <1>1, <1>2, <1>3, WireAt, Unsent DEF FormInv, StartBatch
<1> QED BY <1>1, <1>2, <1>3, <1>5, <1>6, PageKept DEF FormInv

\* The set of acknowledged chunks with one more, which is not empty.
LEMMA MoreAcked ==
  ASSUME FormInv, NEW c \in Clients, NEW i \in Nat,
         acked' = [acked EXCEPT ![c] = @ \cup {i}]
  PROVE  /\ acked' \in [Clients -> SUBSET Nat] /\ \A d \in Clients : IsFiniteSet(acked'[d])
         /\ Cardinality(acked'[c]) \in Nat \ {0}
<1>1. acked \in [Clients -> SUBSET Nat] /\ \A d \in Clients : IsFiniteSet(acked[d])
  BY DEF FormInv
<1>2. acked' \in [Clients -> SUBSET Nat] /\ acked'[c] = acked[c] \cup {i}
      /\ \A d \in Clients : d # c => acked'[d] = acked[d]
  BY <1>1
<1>3. IsFiniteSet(acked[c] \cup {i})
  BY <1>1, FS_AddElement
<1>4. Cardinality(acked'[c]) \in Nat /\ Cardinality(acked'[c]) # 0
  BY <1>2, <1>3, FS_EmptySet, FS_CardinalityType
<1> QED BY <1>1, <1>2, <1>3, <1>4

LEMMA HearAckKeeps ==
  ASSUME IInv, NEW c \in Clients, WsHearAck(c) \/ HearAck(c)
  PROVE  IInv'
<1>1. /\ Hearing(c, "ack") /\ acked' = [acked EXCEPT ![c] = @ \cup {Head(back[c]).i}]
  BY DEF WsHearAck, HearAck
<1>2. FormInv /\ WireInv
  BY DEF IInv
<1>3. /\ back' \in [Clients -> Seq(Message)]
      /\ \A d \in Clients : via[d] = "tcp" =>
           \A j \in 1..Len(back'[d]) : back'[d][j].kind # "ready"
      /\ Head(back[c]).i \in Nat /\ said[c] = "waiting"
      /\ UNCHANGED <<via, size, http, slots, pc, slot, opened, shared>>
  BY <1>1, Heard DEF Kinds
<1>4. /\ acked' \in [Clients -> SUBSET Nat] /\ \A d \in Clients : IsFiniteSet(acked'[d])
      /\ Cardinality(acked'[c]) \in Nat \ {0}
  BY <1>1, <1>2, <1>3, MoreAcked
<1>5. /\ wire' \in [Clients -> Seq(Message)]
      /\ \A d \in Clients : via[d] = "tcp" => Grows(d)
  <2>1. CASE UNCHANGED wire
    BY <1>2, <2>1, Unsent DEF FormInv
  <2>2. CASE Send(c, Msg("complete")) /\ via[c] = "ws"
    <3>1. Msg("complete") \in Message
      BY MessageForm DEF Msg, Kinds
    <3> QED BY <2>2, <3>1, Sent
  <2>3. CASE Send(c, Msg("closed"))
    <3>1. Msg("closed") \in Message /\ ~Zero(Msg("closed")) /\ Msg("closed").kind = "closed"
      BY MessageForm DEF Msg, Kinds, Zero
    <3> QED BY <1>3, <2>3, <3>1, Sent
  <2>4. CASE Send(c, Chunk(Cardinality(acked'[c])))
    <3> DEFINE n == Cardinality(acked'[c])
    <3>1. n \in Nat \ {0}
      BY <1>4
    <3> HIDE DEF n
    <3>2. Chunk(n) \in Message /\ ~Zero(Chunk(n)) /\ Chunk(n).kind = "chunk"
      BY <3>1, MessageForm DEF Chunk, Kinds, Zero
    <3>3. Send(c, Chunk(n))
      BY <2>4 DEF n
    <3> QED BY <1>3, <3>2, <3>3, Sent
  <2> QED BY <2>1, <2>2, <2>3, <2>4 DEF WsHearAck, HearAck
<1>6. /\ said' \in [Clients -> {"idle", "waiting", "success", "failed", "stuck", "left"}]
      /\ \A d \in Clients : said'[d] = "idle" => said[d] = "idle"
  BY <1>2 DEF WsHearAck, HearAck, Tell, FormInv
<1>7. /\ reading' \in [Clients -> SUBSET Nat]
      /\ \A d \in Clients : via[d] = "tcp" => reading'[d] = {}
  <2>1. CASE UNCHANGED reading
    BY <1>2, <2>1, WireAt DEF FormInv
  <2>2. CASE StartBatch(c) /\ via[c] = "ws"
    <3>1. NextBatch(c) \subseteq Nat
      BY <1>2 DEF NextBatch, Chunks, FormInv
    <3>2. reading \in [Clients -> SUBSET Nat]
          /\ reading' = [reading EXCEPT ![c] = @ \cup NextBatch(c)]
      BY <1>2, <2>2 DEF FormInv, StartBatch
    <3> QED BY <1>2, <2>2, <3>1, <3>2, WireAt
  <2> QED BY <2>1, <2>2 DEF WsHearAck, HearAck
<1> QED BY <1>3, <1>4, <1>5, <1>6, <1>7, PageKept

LEMMA HearEndKeeps ==
  ASSUME IInv, NEW c \in Clients, HearDone(c) \/ HearFailed(c) \/ HearClosed(c)
  PROVE  IInv'
<1>1. PICK k \in {"done", "failed", "closed"} : Hearing(c, k)
  BY DEF HearDone, HearFailed, HearClosed
<1>2. FormInv /\ WireInv
  BY DEF IInv
<1>3. /\ back' \in [Clients -> Seq(Message)]
      /\ \A d \in Clients : via[d] = "tcp" =>
           \A j \in 1..Len(back'[d]) : back'[d][j].kind # "ready"
      /\ UNCHANGED <<via, size, http, slots, pc, slot, opened, shared>>
  BY <1>1, Heard DEF Kinds
<1>4. /\ said' \in [Clients -> {"idle", "waiting", "success", "failed", "stuck", "left"}]
      /\ \A d \in Clients : said'[d] = "idle" => said[d] = "idle"
      /\ UNCHANGED <<reading, acked, wire>>
  BY <1>2 DEF HearDone, HearFailed, HearClosed, Tell, FormInv
<1>5. \A d \in Clients : via[d] = "tcp" => reading'[d] = {} /\ Grows(d)
  BY <1>2, <1>4, WireAt, Unsent
<1> QED BY <1>2, <1>3, <1>4, <1>5, PageKept DEF FormInv

LEMMA LeaveKeeps ==
  ASSUME IInv, NEW c \in Clients, Leave(c)
  PROVE  IInv'
<1>1. FormInv /\ WireInv
  BY DEF IInv
<1>2. /\ wire \in [Clients -> Seq(Message)] /\ wire[c] \in Seq(Message)
      /\ back \in [Clients -> Seq(Message)]
  BY <1>1 DEF FormInv
<1>3. /\ said[c] = "waiting" /\ said' = [said EXCEPT ![c] = "left"]
      /\ back' = [back EXCEPT ![c] = << >>]
      /\ UNCHANGED <<via, size, reading, acked, http, slots, pc, slot, opened, shared>>
  BY DEF Leave, Tell, server, card, history
<1>4. PICK k \in 0..Len(wire[c]), cut \in BOOLEAN :
        /\ cut => via[c] = "http" /\ k < Len(wire[c])
        /\ wire' = [wire EXCEPT ![c] =
                      SubSeq(@, 1, k) \o
                      (IF cut THEN <<[@[k + 1] EXCEPT !.kind = "cut"]>>
                       ELSE IF via[c] = "tcp" THEN <<Msg("closed")>> ELSE << >>)]
  BY DEF Leave
<1> DEFINE first == SubSeq(wire[c], 1, k)
           last  == IF cut THEN <<[wire[c][k + 1] EXCEPT !.kind = "cut"]>>
                    ELSE IF via[c] = "tcp" THEN <<Msg("closed")>> ELSE << >>
<1>5. /\ Len(wire[c]) \in Nat /\ first \in Seq(Message) /\ Len(first) = k
      /\ \A j \in 1..k : first[j] = wire[c][j]
  BY <1>2, SubSeqProperties, LenProperties
<1>6. last \in Seq(Message)
  <2>1. Msg("closed") \in Message
    BY MessageForm DEF Msg, Kinds
  <2>2. cut => [wire[c][k + 1] EXCEPT !.kind = "cut"] \in Message
    <3>1. cut => k + 1 \in 1..Len(wire[c])
      BY <1>4, <1>5
    <3>2. cut => wire[c][k + 1] \in Message
      BY <1>2, <3>1, ElementOfSeq
    <3> QED BY <3>2 DEF Message, Kinds
  <2> QED BY <2>1, <2>2
<1>7. via[c] = "tcp" => last = <<Msg("closed")>>
  BY <1>4
<1> HIDE DEF first, last
<1>8. wire' = [wire EXCEPT ![c] = first \o last]
  BY <1>4 DEF first, last
<1>9. first \o last \in Seq(Message)
  BY <1>5, <1>6, ConcatProperties
<1>10. wire' \in [Clients -> Seq(Message)] /\ wire'[c] = first \o last
       /\ \A d \in Clients : d # c => wire'[d] = wire[d]
  BY <1>2, <1>8, <1>9
<1>11. via[c] = "tcp" => Grows(c)
  <2> SUFFICES ASSUME via[c] = "tcp"  PROVE  Grows(c)
    OBVIOUS
  <2> DEFINE e == Msg("closed")
  <2>1. e \in Message /\ e.kind = "closed" /\ ~Zero(e)
    BY MessageForm DEF Msg, Kinds, Zero
  <2> HIDE DEF e
  <2>2. last = <<e>>
    BY <1>7 DEF e
  <2>3. Len(last) = 1 /\ last[1] = e
    BY <2>2
  <2>4. /\ Len(wire'[c]) = k + 1 /\ k \in 0..Len(wire[c])
        /\ \A j \in 1..k : wire'[c][j] = wire[c][j]
        /\ wire'[c][k + 1] = e
    <3>1. /\ Len(first \o last) = Len(first) + Len(last)
          /\ \A j \in 1..Len(first) + Len(last) :
               (first \o last)[j] = IF j <= Len(first) THEN first[j] ELSE last[j - Len(first)]
      BY <1>5, <1>6, ConcatProperties
    <3>2. k \in 0..Len(wire[c]) /\ k \in Nat
      BY <1>5
    <3>3. Len(wire'[c]) = k + 1
      BY <1>5, <1>10, <2>3, <3>1
    <3>4. \A j \in 1..k + 1 : wire'[c][j] = IF j <= k THEN first[j] ELSE last[j - k]
      BY <1>5, <1>10, <2>3, <3>1
    <3>5. wire'[c][k + 1] = last[1]
      BY <3>2, <3>4
    <3>6. \A j \in 1..k : wire'[c][j] = first[j]
      BY <3>2, <3>4
    <3> QED BY <1>5, <2>3, <3>2, <3>3, <3>5, <3>6
  <2>5. \A j \in 1..Len(wire'[c]) :
          (j \in 1..Len(wire[c]) /\ wire'[c][j] = wire[c][j]) \/ wire'[c][j] = e
    BY <1>5, <2>4
  <2>6. \A j \in 1..Len(wire[c]) : wire[c][j].kind \in {"chunk", "closed"}
    BY <1>1, WireAt
  <2>7. wire'[c] # << >>
    BY <1>9, <1>10, <2>4, EmptySeq
  <2> QED BY <1>3, <2>1, <2>5, <2>6, <2>7 DEF Grows
<1>12. \A d \in Clients : via[d] = "tcp" => Grows(d)
  BY <1>10, <1>11, Unsent
<1>13. back' \in [Clients -> Seq(Message)]
  BY <1>2, <1>3
<1>14. \A d \in Clients : via[d] = "tcp" => 
         /\ reading'[d] = {} /\ \A j \in 1..Len(back'[d]) : back'[d][j].kind # "ready"
  <2> SUFFICES ASSUME NEW d \in Clients, via[d] = "tcp"
      PROVE  /\ reading'[d] = {} /\ \A j \in 1..Len(back'[d]) : back'[d][j].kind # "ready"
    OBVIOUS
  <2>1. reading[d] = {} /\ \A j \in 1..Len(back[d]) : back[d][j].kind # "ready"
    BY <1>1, WireAt
  <2>2. back'[d] = back[d] \/ back'[d] = << >>
    BY <1>2, <1>3
  <2> QED BY <1>3, <2>1, <2>2
<1>15. /\ said' \in [Clients -> {"idle", "waiting", "success", "failed", "stuck", "left"}]
       /\ \A d \in Clients : said'[d] = "idle" => said[d] = "idle"
  BY <1>1, <1>3 DEF FormInv
<1> QED BY <1>1, <1>3, <1>10, <1>12, <1>13, <1>14, <1>15, PageKept DEF FormInv
-----------------------------------------------------------------------------
(* Steps of the web server *)

\* Its steps for web sockets, and a request for which there is no file.
LEMMA ServerKept ==
  ASSUME IInv, NEW c \in Clients, NEW w \in {"ws", "http"}, NEW k \in Kinds, Taking(c, w, k),
         NEW m \in Message, Answer(c, m) \/ UNCHANGED back,
         UNCHANGED <<http, opened, shared>>
  PROVE  IInv'
<1>1. FormInv /\ WireInv
  BY DEF IInv
<1>2. /\ wire' \in [Clients -> Seq(Message)]
      /\ \A d \in Clients : via[d] = "tcp" => Grows(d)
      /\ via[c] # "tcp"
      /\ UNCHANGED <<via, size, said, reading, acked, slots, pc, slot>>
  BY Taken
<1>3. /\ back' \in [Clients -> Seq(Message)]
      /\ \A d \in Clients : via[d] = "tcp" =>
           \A j \in 1..Len(back'[d]) : back'[d][j].kind # "ready"
  <2>1. CASE Answer(c, m)
    BY <1>2, <2>1, Answered
  <2>2. CASE UNCHANGED back
    BY <1>1, <2>2, WireAt DEF FormInv
  <2> QED BY <2>1, <2>2
<1>4. \A d \in Clients : via[d] = "tcp" => reading'[d] = {}
  BY <1>1, <1>2, WireAt
<1> QED BY <1>1, <1>2, <1>3, <1>4, PageKept DEF FormInv

LEMMA WsKeeps ==
  ASSUME IInv, NEW c \in Clients,
         UploadStart(c) \/ WsChunk(c) \/ WsChunkFails(c) \/ WsComplete(c)
  PROVE  IInv'
<1>1. CASE UploadStart(c)
  <2>1. Msg("ready") \in Message
    BY MessageForm DEF Msg, Kinds
  <2>2. Taking(c, "ws", "start") /\ Answer(c, Msg("ready")) /\ UNCHANGED <<http, opened, shared>>
    BY <1>1 DEF UploadStart, card, history
  <2> QED BY <2>1, <2>2, ServerKept DEF Kinds
<1>2. CASE WsChunk(c)
  <2>1. Taking(c, "ws", "chunk") /\ Answer(c, Ack(Head(wire[c]).i)) /\ UNCHANGED <<http, opened, shared>>
    BY <1>2 DEF WsChunk, history
  <2>2. Head(wire[c]).i \in Nat
    BY <2>1, Taken DEF Kinds
  <2>3. Ack(Head(wire[c]).i) \in Message
    BY <2>2, MessageForm DEF Ack, Kinds
  <2> QED BY <2>1, <2>3, ServerKept DEF Kinds
<1>3. CASE WsChunkFails(c)
  <2>1. Msg("failed") \in Message
    BY MessageForm DEF Msg, Kinds
  <2>2. Taking(c, "ws", "chunk") /\ UNCHANGED back /\ UNCHANGED <<http, opened, shared>>
    BY <1>3 DEF WsChunkFails, history
  <2> QED BY <2>1, <2>2, ServerKept DEF Kinds
<1>4. CASE WsComplete(c)
  <2>1. Msg("failed") \in Message /\ Msg("done") \in Message
    BY MessageForm DEF Msg, Kinds
  <2>2. /\ Taking(c, "ws", "complete") /\ UNCHANGED <<http, opened, shared>>
        /\ Answer(c, Msg("failed")) \/ Answer(c, Msg("done"))
    BY <1>4 DEF WsComplete, history
  <2> QED BY <2>1, <2>2, ServerKept DEF Kinds
<1> QED BY <1>1, <1>2, <1>3, <1>4

\* Its steps for a page's requests.
LEMMA HandlerKept ==
  ASSUME IInv, NEW c \in Clients, NEW k \in Kinds, Taking(c, "http", k),
         NEW m \in Message, Answer(c, m) \/ UNCHANGED back,
         shared \subseteq shared', http' \in [file : File, got : Nat, total : Nat],
         http'.file # None => via[http'.file] = "http",
         NEW closed \in SUBSET {d \in Clients : via[d] = "http"},
         opened' = ((opened \ {http.file}) \ closed) \cup ({http'.file} \ {None})
  PROVE  IInv'
<1>1. FormInv /\ WireInv
  BY DEF IInv
<1>2. /\ wire' \in [Clients -> Seq(Message)]
      /\ \A d \in Clients : via[d] = "tcp" => Grows(d)
      /\ via[c] # "tcp"
      /\ UNCHANGED <<via, size, said, reading, acked, slots, pc, slot>>
  BY Taken
<1>3. /\ back' \in [Clients -> Seq(Message)]
      /\ \A d \in Clients : via[d] = "tcp" =>
           \A j \in 1..Len(back'[d]) : back'[d][j].kind # "ready"
  <2>1. CASE Answer(c, m)
    BY <1>2, <2>1, Answered
  <2>2. CASE UNCHANGED back
    BY <1>1, <2>2, WireAt DEF FormInv
  <2> QED BY <2>1, <2>2
<1>4. \A d \in Clients : via[d] = "tcp" => reading'[d] = {}
  BY <1>1, <1>2, WireAt
<1>5. FormInv'
  BY <1>1, <1>2, <1>3 DEF FormInv
<1>6. WireInv'
  BY <1>2, <1>3, <1>4, WireKept
<1>7. OnceInv'
  BY <1>2, OnceKept
<1>8. OwnerInv' /\ SlotInv' /\ NoFileLost'
  <2>1. http'.file # None => http'.file \in Clients /\ via[http'.file] = "http"
    BY DEF File
  <2> QED BY <1>2, <2>1, HttpKept
<1> QED BY <1>5, <1>6, <1>7, <1>8 DEF IInv

\* The file a request goes to is that of a page.
LEMMA OpenedForm ==
  ASSUME IInv, NEW c \in Clients, via[c] = "http", NEW i \in Nat
  PROVE  /\ HttpOpened(c, i) \in [file : File, got : Nat, total : Nat]
         /\ HttpOpened(c, i).file # None => via[HttpOpened(c, i).file] = "http"
         /\ HttpOpened(c, i).file = None => HttpOpened(c, i) = http
<1>1. http \in [file : File, got : Nat, total : Nat] /\ size[c] \in Nat
  BY DEF IInv, FormInv
<1>2. http.file # None => via[http.file] = "http"
  BY DEF IInv, OwnerInv
<1>3. c # None
  BY UploadAssumption
<1>4. CASE i = 0
  BY <1>1, <1>3, <1>4 DEF HttpOpened, File
<1>5. CASE i # 0
  BY <1>1, <1>2, <1>5 DEF HttpOpened
<1> QED BY <1>4, <1>5

LEMMA HttpChunkKeeps ==
  ASSUME IInv, NEW c \in Clients, HttpChunk(c)
  PROVE  IInv'
<1> DEFINE i == Head(wire[c]).i
           h == HttpOpened(c, i)
           full == h.got + 1 >= h.total
<1>1. Taking(c, "http", "chunk")
  BY DEF HttpChunk
<1>2. via[c] = "http" /\ i \in Nat /\ UNCHANGED via
  BY <1>1, Taken DEF Kinds
<1>3. /\ h \in [file : File, got : Nat, total : Nat]
      /\ h.file # None => via[h.file] = "http"
  BY <1>2, OpenedForm
<1>4. Msg("failed") \in Message /\ Ack(i) \in Message
  BY <1>2, MessageForm DEF Msg, Ack, Kinds
<1>5. CASE h.file = None
  <2>1. Answer(c, Msg("failed")) /\ UNCHANGED <<http, opened, shared>>
    BY <1>5 DEF HttpChunk, card, history
  <2> QED BY <1>1, <1>4, <2>1, ServerKept DEF Kinds
<1>6. CASE h.file # None
  <2>1. /\ HttpWrite(c, i, h, Piece(c, i), full)
        /\ http' = [h EXCEPT !.got = @ + 1, !.file = IF full THEN None ELSE @]
        /\ Answer(c, Ack(i))
        /\ shared \subseteq shared'
    BY <1>6 DEF HttpChunk
  <2>2. h.file \in Clients
    BY <1>3, <1>6 DEF File
  <2>3. opened' = IF full THEN (opened \ {http.file}) \ {h.file}
                  ELSE (opened \ {http.file}) \cup {h.file}
    BY <2>1 DEF HttpWrite
  <2> HIDE DEF h, full, i
  <2>4. http' \in [file : File, got : Nat, total : Nat]
        /\ http'.file = IF full THEN None ELSE h.file
    <3>1. h.got + 1 \in Nat /\ h.file \in File /\ None \in File /\ h.total \in Nat
      BY <1>3 DEF File
    <3>2. CASE full
      <4>1. http' = [h EXCEPT !.got = @ + 1, !.file = None]
        BY <2>1, <3>2
      <4> QED BY <1>3, <3>1, <3>2, <4>1
    <3>3. CASE ~full
      <4>1. http' = [h EXCEPT !.got = @ + 1, !.file = h.file]
        BY <2>1, <3>3
      <4> QED BY <1>3, <3>1, <3>3, <4>1
    <3> QED BY <3>2, <3>3
  <2>5. opened' = ((opened \ {http.file}) \ {h.file}) \cup ({http'.file} \ {None})
    BY <1>6, <2>3, <2>4
  <2>6. {h.file} \in SUBSET {d \in Clients : via[d] = "http"}
    BY <1>3, <1>6, <2>2
  <2>7. http'.file # None => via[http'.file] = "http"
    BY <1>3, <1>6, <2>4
  <2> QED BY <1>1, <1>4, <2>1, <2>4, <2>5, <2>6, <2>7, HandlerKept DEF Kinds
<1> QED BY <1>5, <1>6

LEMMA HttpOpenFailsKeeps ==
  ASSUME IInv, NEW c \in Clients, HttpOpenFails(c)
  PROVE  IInv'
<1>1. /\ Taking(c, "http", "chunk") /\ Answer(c, Msg("failed")) /\ UNCHANGED shared
      /\ http' = [HttpOpened(c, 0) EXCEPT !.file = None] /\ opened' = opened \ {http.file}
  BY DEF HttpOpenFails, history
<1>2. via[c] = "http"
  BY <1>1, Taken DEF Kinds
<1>3. HttpOpened(c, 0) \in [file : File, got : Nat, total : Nat]
  BY <1>2, OpenedForm
<1>4. http' \in [file : File, got : Nat, total : Nat] /\ http'.file = None
  BY <1>1, <1>3 DEF File
<1>5. Msg("failed") \in Message
  BY MessageForm DEF Msg, Kinds
<1>6. opened' = ((opened \ {http.file}) \ {}) \cup ({http'.file} \ {None})
  BY <1>1, <1>4
<1>7. {} \in SUBSET {d \in Clients : via[d] = "http"}
  OBVIOUS
<1>8. "chunk" \in Kinds /\ shared \subseteq shared' /\ (http'.file # None => via[http'.file] = "http")
  BY <1>1, <1>4 DEF Kinds
<1> QED BY <1>1, <1>4, <1>5, <1>6, <1>7, <1>8, HandlerKept

LEMMA HttpNoMemoryKeeps ==
  ASSUME IInv, NEW c \in Clients, HttpNoMemory(c)
  PROVE  IInv'
<1> DEFINE i == Head(wire[c]).i
           h == HttpOpened(c, i)
<1>1. /\ Taking(c, "http", "chunk") /\ Answer(c, Msg("failed")) /\ shared' = shared
      /\ h.file # None /\ http' = h
      /\ IF i = 0 THEN opened' = (opened \ {http.file}) \cup {c} ELSE opened' = opened
  BY DEF HttpNoMemory, card, history
<1>2. via[c] = "http" /\ i \in Nat
  BY <1>1, Taken DEF Kinds
<1>3. /\ h \in [file : File, got : Nat, total : Nat]
      /\ h.file # None => via[h.file] = "http"
  BY <1>2, OpenedForm
<1>4. Msg("failed") \in Message
  BY MessageForm DEF Msg, Kinds
<1>5. IF i = 0 THEN h.file = c ELSE h = http
  BY DEF HttpOpened
<1> HIDE DEF h, i
<1>6. CASE i = 0
  <2>1. opened' = ((opened \ {http.file}) \ {}) \cup ({http'.file} \ {None})
    BY <1>1, <1>5, <1>6
  <2>2. {} \in SUBSET {d \in Clients : via[d] = "http"}
    OBVIOUS
  <2> QED BY <1>1, <1>3, <1>4, <2>1, <2>2, HandlerKept DEF Kinds
<1>7. CASE i # 0
  <2>1. UNCHANGED <<http, opened, shared>>
    BY <1>1, <1>5, <1>7
  <2> QED BY <1>1, <1>4, <2>1, ServerKept DEF Kinds
<1> QED BY <1>6, <1>7

LEMMA HttpWriteFailsKeeps ==
  ASSUME IInv, NEW c \in Clients, HttpWriteFails(c)
  PROVE  IInv'
<1> DEFINE i == Head(wire[c]).i
           h == HttpOpened(c, i)
<1>1. /\ Taking(c, "http", "chunk") /\ Answer(c, Msg("failed")) /\ h.file # None
      /\ HttpWrite(c, i, h, Part(c), TRUE) /\ http' = [h EXCEPT !.file = None]
      /\ shared \subseteq shared'
  BY DEF HttpWriteFails, HttpShort
<1>2. via[c] = "http" /\ i \in Nat
  BY <1>1, Taken DEF Kinds
<1>3. /\ h \in [file : File, got : Nat, total : Nat]
      /\ h.file # None => via[h.file] = "http"
  BY <1>2, OpenedForm
<1>4. opened' = (opened \ {http.file}) \ {h.file}
  BY <1>1 DEF HttpWrite
<1> HIDE DEF h, i
<1>5. http' \in [file : File, got : Nat, total : Nat] /\ http'.file = None
  BY <1>1, <1>3 DEF File
<1>6. opened' = ((opened \ {http.file}) \ {h.file}) \cup ({http'.file} \ {None})
  BY <1>4, <1>5
<1>7. {h.file} \in SUBSET {d \in Clients : via[d] = "http"}
  BY <1>1, <1>3 DEF File
<1>8. Msg("failed") \in Message
  BY MessageForm DEF Msg, Kinds
<1> QED BY <1>1, <1>5, <1>6, <1>7, <1>8, HandlerKept DEF Kinds

LEMMA HttpCutKeeps ==
  ASSUME IInv, NEW c \in Clients, HttpCut(c)
  PROVE  IInv'
<1> DEFINE i == Head(wire[c]).i
           h == HttpOpened(c, i)
<1>1. /\ Taking(c, "http", "cut") /\ UNCHANGED back /\ http' = h
      /\ UNCHANGED shared
      /\ h.file = None => UNCHANGED <<disk, opened>>
      /\ h.file # None => HttpWrite(c, i, h, Part(c), FALSE)
  BY DEF HttpCut, card, history
<1>2. via[c] = "http" /\ i \in Nat
  BY <1>1, Taken DEF Kinds
<1>3. /\ h \in [file : File, got : Nat, total : Nat]
      /\ h.file # None => via[h.file] = "http"
      /\ h.file = None => h = http
  BY <1>2, OpenedForm
<1>4. Msg("failed") \in Message
  BY MessageForm DEF Msg, Kinds
<1>5. CASE h.file = None
  <2>1. UNCHANGED <<http, opened>>
    BY <1>1, <1>3, <1>5
  <2> HIDE DEF h, i
  <2> QED BY <1>1, <1>4, <2>1, ServerKept DEF Kinds
<1>6. CASE h.file # None
  <2>1. opened' = (opened \ {http.file}) \cup {h.file}
    BY <1>1, <1>6 DEF HttpWrite
  <2> HIDE DEF h, i
  <2>2. opened' = ((opened \ {http.file}) \ {h.file}) \cup ({http'.file} \ {None})
    BY <1>1, <1>6, <2>1
  <2>3. {h.file} \in SUBSET {d \in Clients : via[d] = "http"}
    BY <1>3, <1>6 DEF File
  <2> QED BY <1>1, <1>3, <1>4, <1>6, <2>2, <2>3, HandlerKept DEF Kinds
<1> QED BY <1>5, <1>6

LEMMA StartKeeps ==
  ASSUME IInv, NEW c \in Clients, Start(c)
  PROVE  IInv'
<1>1. FormInv /\ WireInv /\ OnceInv
  BY DEF IInv
<1>2. /\ said[c] = "idle" /\ said' = [said EXCEPT ![c] = "waiting"]
      /\ Send(c, IF via[c] = "ws" THEN Msg("start") ELSE Chunk(0))
      /\ pc' = IF via[c] = "tcp" THEN [pc EXCEPT ![c] = "header"] ELSE pc
      /\ UNCHANGED <<via, size, reading, acked, back, http, slots, slot, opened, shared>>
  BY DEF Start, Tell, card, history
<1> DEFINE m == IF via[c] = "ws" THEN Msg("start") ELSE Chunk(0)
<1>3. m \in Message /\ (via[c] = "tcp" => m.kind = "chunk")
  BY MessageForm DEF Msg, Chunk, Kinds
<1> HIDE DEF m
<1>4. /\ wire' \in [Clients -> Seq(Message)] /\ wire \in [Clients -> Seq(Message)]
      /\ \A d \in Clients : \/ wire'[d] = wire[d]
                            \/ d = c /\ wire'[d] = Append(wire[d], m)
  <2>1. Send(c, m)
    BY <1>2 DEF m
  <2> QED BY <1>1, <1>3, <2>1, SendForm DEF FormInv
<1>5. FormInv'
  BY <1>1, <1>2, <1>4 DEF FormInv, Places
<1>6. via[c] = "tcp" =>
        /\ wire[c] = << >> /\ pc[c] = "none" /\ ~Used(c)
        /\ Len(wire'[c]) \in 0..1 /\ \A k \in 1..Len(wire'[c]) : wire'[c][k].kind = "chunk"
  <2> SUFFICES ASSUME via[c] = "tcp"
      PROVE  /\ wire[c] = << >> /\ pc[c] = "none" /\ ~Used(c)
             /\ Len(wire'[c]) \in 0..1 /\ \A k \in 1..Len(wire'[c]) : wire'[c][k].kind = "chunk"
    OBVIOUS
  <2>1. wire[c] = << >> /\ pc[c] = "none"
    BY <1>1, <1>2, WireAt
  <2>2. ~Used(c)
    BY <1>1, <2>1 DEF OnceInv, OnceAt
  <2>3. CASE wire'[c] = wire[c]
    BY <2>1, <2>2, <2>3
  <2>4. CASE wire'[c] = Append(wire[c], m)
    <3>1. wire'[c] = <<m>>
      BY <2>1, <2>4
    <3> QED BY <1>3, <2>1, <2>2, <3>1
  <2> QED BY <1>4, <2>3, <2>4
<1>7. WireInv'
  <2> SUFFICES ASSUME NEW d \in Clients, via[d] = "tcp"
      PROVE  /\ reading[d] = {}
             /\ \A k \in 1..Len(back[d]) : back[d][k].kind # "ready"
             /\ \A k \in 1..Len(wire'[d]) : /\ wire'[d][k].kind \in {"chunk", "closed"}
                                            /\ k > 1 => ~Zero(wire'[d][k])
             /\ said'[d] = "idle" => wire'[d] = << >> /\ pc'[d] = "none"
    BY <1>2 DEF WireInv, Zero
  <2>1. CASE d = c
    BY <1>1, <1>2, <1>6, <2>1, WireAt DEF FormInv
  <2>2. CASE d # c
    BY <1>1, <1>2, <1>4, <2>2, WireAt DEF FormInv
  <2> QED BY <2>1, <2>2
<1>8. OnceInv'
  <2> SUFFICES ASSUME NEW d \in Clients  PROVE  OnceAt(d)'
    BY DEF OnceInv
  <2>1. CASE d = c /\ via[c] = "tcp"
    BY <1>1, <1>2, <1>6, <2>1 DEF FormInv, OnceAt, Used
  <2>2. CASE d # c
    <3>1. OnceAt(d) /\ wire'[d] = wire[d] /\ pc'[d] = pc[d]
      BY <1>1, <1>2, <1>4, <2>2 DEF OnceInv, FormInv
    <3> QED BY <1>2, <3>1 DEF OnceAt, Used, NoZero, Zero
  <2>3. CASE d = c /\ via[c] # "tcp"
    <3>1. OnceAt(d) /\ pc' = pc
      BY <1>1, <1>2, <2>3 DEF OnceInv
    <3>2. pc[c] = "none"
      BY <2>3, <3>1 DEF OnceAt
    <3> QED BY <1>2, <2>3, <3>1, <3>2 DEF OnceAt, Used
  <2> QED BY <2>1, <2>2, <2>3
<1>9. \A d \in Clients : /\ Finding(d)' = Finding(d) /\ (pc'[d] = "mark") = (pc[d] = "mark")
  BY <1>1, <1>2, <1>6 DEF FormInv, Finding
<1>10. OwnerInv' /\ SlotInv' /\ NoFileLost'
  BY <1>2, <1>9 DEF IInv, OwnerInv, SlotInv, NoFileLost, Finding
<1> QED BY <1>5, <1>7, <1>8, <1>10 DEF IInv
-----------------------------------------------------------------------------
(* Steps of a TCP client's task *)

\* Whose turn it is: the task goes on elsewhere, and its connection keeps
\* what it holds or loses its first message.
TaskGoes(c, to) ==
  /\ pc[c] # "none" /\ pc' = [pc EXCEPT ![c] = to]
  /\ UNCHANGED <<via, size, said, reading, acked, http>>
  /\ \/ wire' = wire
     \/ wire[c] # << >> /\ wire' = [wire EXCEPT ![c] = Tail(@)]

LEMMA TaskKept ==
  ASSUME IInv, NEW c \in Clients, NEW to \in Places, TaskGoes(c, to),
         back' \in [Clients -> Seq(Message)],
         \A d \in Clients : via[d] = "tcp" =>
            \A k \in 1..Len(back'[d]) : back'[d][k].kind # "ready",
         slots' \in [Slots -> SlotType], slot' \in [Clients -> Slots \cup {None}]
  PROVE  FormInv' /\ WireInv'
<1>1. FormInv /\ WireInv /\ OnceInv
  BY DEF IInv
<1>2. wire \in [Clients -> Seq(Message)] /\ pc \in [Clients -> Places]
  BY <1>1 DEF FormInv
<1>3. /\ pc[c] # "none" /\ pc' = [pc EXCEPT ![c] = to]
      /\ UNCHANGED <<via, size, said, reading, acked, http>>
  BY DEF TaskGoes
<1>4. via[c] = "tcp" /\ said[c] # "idle"
  <2>1. via[c] = "tcp"
    BY <1>1, <1>3 DEF OnceInv, OnceAt
  <2> QED BY <1>1, <1>3, <2>1, WireAt
<1>5. /\ wire' \in [Clients -> Seq(Message)]
      /\ \A d \in Clients : d # c => wire'[d] = wire[d]
      /\ \A k \in 1..Len(wire'[c]) : /\ wire'[c][k].kind \in {"chunk", "closed"}
                                     /\ k > 1 => ~Zero(wire'[c][k])
  <2>1. /\ \A k \in 1..Len(wire[c]) : wire[c][k].kind \in {"chunk", "closed"}
        /\ \A k \in 1..Len(wire[c]) : k > 1 => ~Zero(wire[c][k])
    BY <1>1, <1>4, WireAt
  <2>2. CASE wire' = wire
    BY <1>2, <2>1, <2>2
  <2>3. CASE wire[c] # << >> /\ wire' = [wire EXCEPT ![c] = Tail(wire[c])]
    <3>1. /\ Tail(wire[c]) \in Seq(Message) /\ Len(wire[c]) \in Nat \ {0}
          /\ Len(Tail(wire[c])) = Len(wire[c]) - 1
          /\ \A k \in 1..Len(Tail(wire[c])) : Tail(wire[c])[k] = wire[c][k + 1]
      BY <1>2, <2>3, HeadForm
    <3>2. wire'[c] = Tail(wire[c]) /\ wire' \in [Clients -> Seq(Message)]
          /\ \A d \in Clients : d # c => wire'[d] = wire[d]
      BY <1>2, <2>3, <3>1
    <3>3. \A k \in 1..Len(wire'[c]) : /\ k + 1 \in 1..Len(wire[c]) /\ k + 1 > 1
                                      /\ wire'[c][k] = wire[c][k + 1]
      BY <3>1, <3>2
    <3> QED BY <2>1, <3>2, <3>3
  <2> QED BY <2>2, <2>3 DEF TaskGoes
<1>6. FormInv'
  BY <1>1, <1>3, <1>5 DEF FormInv
<1>7. WireInv'
  <2> SUFFICES ASSUME NEW d \in Clients, via[d] = "tcp"
      PROVE  /\ reading[d] = {}
             /\ \A k \in 1..Len(back'[d]) : back'[d][k].kind # "ready"
             /\ \A k \in 1..Len(wire'[d]) : /\ wire'[d][k].kind \in {"chunk", "closed"}
                                            /\ k > 1 => ~Zero(wire'[d][k])
             /\ said[d] = "idle" => wire'[d] = << >> /\ pc'[d] = "none"
    BY <1>3 DEF WireInv, Zero
  <2>1. CASE d = c
    BY <1>1, <1>4, <1>5, <2>1, WireAt
  <2>2. CASE d # c
    BY <1>1, <1>2, <1>3, <1>5, <2>2, WireAt
  <2> QED BY <2>1, <2>2
<1> QED BY <1>6, <1>7

\* The other tasks find what they found before.
LEMMA OthersKept ==
  ASSUME IInv, NEW c \in Clients, NEW to \in Places, TaskGoes(c, to),
         \A d \in Clients : d # c => (Used(d)' => Used(d)) /\ slot'[d] = slot[d],
         OnceAt(c)'
  PROVE  OnceInv'
<1> SUFFICES ASSUME NEW d \in Clients, d # c  PROVE  OnceAt(d)'
  BY DEF OnceInv
<1>1. OnceAt(d) /\ UNCHANGED via /\ pc'[d] = pc[d] /\ wire'[d] = wire[d]
  BY DEF IInv, FormInv, OnceInv, TaskGoes
<1> QED BY <1>1 DEF OnceAt, NoZero, Zero

LEMMA Least ==
  ASSUME NEW T \in SUBSET Nat, T # {}
  PROVE  \E x \in T : \A y \in T : x <= y
<1> DEFINE F == {0..n : n \in T}
<1>1. \A n \in T : 0..n \in FiniteSubsetsOf(Nat)
  BY FS_Interval DEF FiniteSubsetsOf
<1>2. F \subseteq FiniteSubsetsOf(Nat) /\ F # {}
  BY <1>1
<1> HIDE DEF F
<1>3. PICK f \in F : \A g \in F : <<g, f>> \notin StrictSubsetOrdering(Nat)
  BY <1>2, FS_StrictSubsetOrderingWellFounded, WFMin
<1>4. PICK x \in T : f = 0..x
  BY DEF F
<1>5. ASSUME NEW y \in T, y < x
      PROVE  FALSE
  <2>1. /\ 0..y \in SUBSET Nat /\ 0..x \in SUBSET Nat
        /\ 0..y \subseteq 0..x /\ x \in 0..x /\ x \notin 0..y
    BY <1>5
  <2>2. <<0..y, 0..x>> \in StrictSubsetOrdering(Nat)
    BY <2>1 DEF StrictSubsetOrdering
  <2>3. 0..y \in F
    BY DEF F
  <2> QED BY <1>3, <1>4, <2>2, <2>3
<1> QED BY <1>5

\* What waits for a TCP client's task.
LEMMA Waiting ==
  ASSUME IInv, NEW c \in Clients, pc[c] # "none", wire[c] # << >>
  PROVE  /\ Head(wire[c]).kind \in {"chunk", "closed"} /\ Head(wire[c]).i \in Nat
         /\ Head(wire[c]).i # 0 \/ ~NoZero(wire[c]) \/ Head(wire[c]).kind = "closed"
         /\ wire[c] \in Seq(Message) /\ Tail(wire[c]) \in Seq(Message)
         /\ NoZero(Tail(wire[c]))
<1>1. via[c] = "tcp" /\ wire[c] \in Seq(Message) /\ WireInv
  BY DEF IInv, FormInv, OnceInv, OnceAt
<1>2. /\ \A k \in 1..Len(wire[c]) : wire[c][k].kind \in {"chunk", "closed"}
      /\ \A k \in 1..Len(wire[c]) : k > 1 => ~Zero(wire[c][k])
  BY <1>1, WireAt
<1>3. /\ Head(wire[c]) = wire[c][1] /\ Head(wire[c]).i \in Nat
      /\ Tail(wire[c]) \in Seq(Message)
      /\ Len(wire[c]) \in Nat \ {0} /\ Len(Tail(wire[c])) = Len(wire[c]) - 1
      /\ \A k \in 1..Len(Tail(wire[c])) : Tail(wire[c])[k] = wire[c][k + 1]
  BY <1>1, HeadForm
<1>4. 1 \in 1..Len(wire[c])
  BY <1>3
<1>5. \A k \in 1..Len(Tail(wire[c])) :
        k + 1 \in 1..Len(wire[c]) /\ k + 1 > 1 /\ Tail(wire[c])[k] = wire[c][k + 1]
  BY <1>3
<1>6. NoZero(Tail(wire[c]))
  BY <1>2, <1>5 DEF NoZero
<1>7. Head(wire[c]).i # 0 \/ ~NoZero(wire[c]) \/ Head(wire[c]).kind = "closed"
  BY <1>2, <1>3, <1>4 DEF NoZero, Zero
<1> QED BY <1>1, <1>2, <1>3, <1>4, <1>6, <1>7

\* The answers stay free of "ready" when the task answers or is silent.
LEMMA BackKept ==
  ASSUME IInv, NEW c \in Clients,
         UNCHANGED back \/ \E m \in Message : m.kind # "ready" /\ Answer(c, m)
  PROVE  /\ back' \in [Clients -> Seq(Message)]
         /\ \A d \in Clients : via[d] = "tcp" =>
               \A k \in 1..Len(back'[d]) : back'[d][k].kind # "ready"
<1>1. CASE UNCHANGED back
  BY <1>1, WireAt DEF IInv, FormInv
<1>2. CASE \E m \in Message : m.kind # "ready" /\ Answer(c, m)
  BY <1>2, Answered
<1> QED BY <1>1, <1>2

\* The next header.
LEMMA TcpHeaderKeeps ==
  ASSUME IInv, NEW c \in Clients, TcpHeader(c)
  PROVE  IInv'
<1> DEFINE m    == Head(wire[c])
           free == {s \in Slots : ~slots[s].active}
           s    == CHOOSE x \in free : \A y \in free : x <= y
           rivals == {d \in Clients : slot[d] = s /\ pc[d] \in {"open", "mark"}}
<1>1. /\ pc[c] = "header" /\ wire[c] # << >>
      /\ UNCHANGED <<via, size, said, reading, acked, http, wire, back, slots, opened>>
  BY DEF TcpHeader, TcpStep, page, card, history
<1>2. /\ m.kind \in {"chunk", "closed"} /\ m.i \in Nat
      /\ m.i # 0 \/ ~NoZero(wire[c]) \/ m.kind = "closed"
  BY <1>1, Waiting
<1>3. \/ Goto(c, "cleanup") /\ UNCHANGED <<slot, shared>>
      \/ Goto(c, "body") /\ UNCHANGED <<slot, shared>>
      \/ /\ m.kind = "chunk" /\ m.i = 0 /\ free # {} /\ Goto(c, "open")
         /\ slot' = [slot EXCEPT ![c] = s]
         /\ shared' = IF rivals = {} THEN shared ELSE shared \cup rivals \cup {c}
  <2>1. CASE m.kind = "closed"
    BY <2>1 DEF TcpHeader
  <2>2. CASE m.kind = "chunk" /\ m.i = 0 /\ free = {}
    BY <2>2 DEF TcpHeader
  <2>3. CASE m.kind = "chunk" /\ m.i = 0 /\ free # {}
    BY <2>3 DEF TcpHeader
  <2>4. CASE m.kind = "chunk" /\ m.i # 0
    BY <2>4 DEF TcpHeader
  <2> QED BY <1>2, <2>1, <2>2, <2>3, <2>4
<1>4. FormInv /\ OnceInv /\ OnceAt(c) /\ pc \in [Clients -> Places]
      /\ slot \in [Clients -> Slots \cup {None}] /\ via[c] = "tcp"
  BY <1>1 DEF IInv, FormInv, OnceInv, OnceAt
<1>5. /\ back' \in [Clients -> Seq(Message)]
      /\ \A d \in Clients : via[d] = "tcp" =>
            \A k \in 1..Len(back'[d]) : back'[d][k].kind # "ready"
  BY <1>1, BackKept
<1>6. ASSUME NEW to \in {"cleanup", "body"}, Goto(c, to), UNCHANGED <<slot, shared>>
      PROVE  IInv'
  <2>1. TaskGoes(c, to) /\ to \in Places
    BY <1>1, <1>6 DEF TaskGoes, Goto, Places
  <2>2. FormInv' /\ WireInv'
    BY <1>1, <1>4, <1>5, <1>6, <2>1, TaskKept DEF FormInv
  <2>3. OnceAt(c)'
    BY <1>1, <1>4, <1>6 DEF OnceAt, Goto
  <2>4. OnceInv'
    BY <1>1, <1>6, <2>1, <2>3, OthersKept DEF Used
  <2>5. \A d \in Clients : Finding(d)' = Finding(d) /\ (pc[d] = "mark" => pc'[d] = "mark")
    BY <1>1, <1>4, <1>6 DEF Finding, Goto
  <2>6. OwnerInv' /\ SlotInv' /\ NoFileLost'
    BY <1>1, <1>6, <2>5 DEF IInv, OwnerInv, SlotInv, NoFileLost
  <2> QED BY <2>2, <2>4, <2>6 DEF IInv
<1>7. ASSUME m.kind = "chunk", m.i = 0, free # {}, Goto(c, "open"),
             slot' = [slot EXCEPT ![c] = s],
             shared' = IF rivals = {} THEN shared ELSE shared \cup rivals \cup {c}
      PROVE  IInv'
  <2>1. s \in free
    <3>1. free \in SUBSET Nat
      BY UploadAssumption
    <3> HIDE DEF free
    <3>2. \E x \in free : \A y \in free : x <= y
      BY <1>7, <3>1, Least
    <3> QED BY <3>2
  <2>2. s \in Slots /\ ~slots[s].active
    BY <2>1
  <2> HIDE DEF free, s, m
  <2>3. slot' \in [Clients -> Slots \cup {None}] /\ slot'[c] = s
        /\ \A d \in Clients : d # c => slot'[d] = slot[d]
    BY <1>4, <1>7, <2>2
  <2>4. TaskGoes(c, "open") /\ "open" \in Places
    BY <1>1, <1>7 DEF TaskGoes, Goto, Places
  <2>5. FormInv' /\ WireInv'
    BY <1>1, <1>4, <1>5, <2>3, <2>4, TaskKept DEF FormInv
  <2>6. ~Used(c)
    BY <1>1, <1>2, <1>4, <1>7 DEF OnceAt
  <2>7. pc'[c] = "open" /\ \A d \in Clients : d # c => pc'[d] = pc[d]
    BY <1>4, <1>7 DEF Goto
  <2>8. OnceAt(c)'
    BY <1>1, <1>4, <2>2, <2>3, <2>6, <2>7 DEF OnceAt, Used
  <2>9. OnceInv'
    BY <1>1, <2>3, <2>4, <2>8, OthersKept DEF Used
  <2>10. shared' = {} => shared = {} /\ rivals = {}
    BY <1>7
  <2>11. ASSUME shared = {}, rivals = {}
         PROVE  /\ \A d, e \in Clients : Finding(d)' /\ Finding(e)' /\ slot'[d] = slot'[e] => d = e
                /\ \A d \in Clients : Finding(d)' => ~slots[slot'[d]].active
                /\ \A t \in Slots : ~slots[t].active /\ slots[t].file # None =>
                                       \E d \in Clients : pc'[d] = "mark" /\ slot'[d] = t
    <3>1. /\ \A d, e \in Clients : Finding(d) /\ Finding(e) /\ slot[d] = slot[e] => d = e
          /\ \A d \in Clients : Finding(d) => ~slots[slot[d]].active
          /\ \A t \in Slots : ~slots[t].active /\ slots[t].file # None =>
                                 \E d \in Clients : pc[d] = "mark" /\ slot[d] = t
      BY <2>11 DEF IInv, SlotInv
    <3>2. \A d \in Clients : d # c => (Finding(d)' = Finding(d))
      BY <2>7 DEF Finding
    <3>3. \A d \in Clients : Finding(d) => slot[d] # s
      BY <2>11 DEF Finding
    <3>4. pc[c] # "mark" /\ \A d \in Clients : d # c => pc'[d] = pc[d] /\ slot'[d] = slot[d]
      BY <1>1, <2>3, <2>7
    <3>5. \A d, e \in Clients : Finding(d)' /\ Finding(e)' /\ slot'[d] = slot'[e] => d = e
      BY <2>3, <3>1, <3>2, <3>3
    <3>6. \A d \in Clients : Finding(d)' => ~slots[slot'[d]].active
      BY <2>2, <2>3, <3>1, <3>2
    <3>7. \A t \in Slots : ~slots[t].active /\ slots[t].file # None =>
                              \E d \in Clients : pc'[d] = "mark" /\ slot'[d] = t
      BY <3>1, <3>4
    <3> QED BY <3>5, <3>6, <3>7
  <2>12. SlotInv'
    BY <1>1, <2>10, <2>11 DEF SlotInv
  <2>13. OwnerInv' /\ NoFileLost'
    BY <1>1, <2>10 DEF IInv, OwnerInv, NoFileLost
  <2> QED BY <2>5, <2>9, <2>12, <2>13 DEF IInv
<1> QED BY <1>3, <1>6, <1>7

\* A step that concerns no slot.
LEMMA QuietKept ==
  ASSUME IInv, NEW c \in Clients, NEW to \in Places \ {"none", "open", "mark"}, TaskGoes(c, to),
         pc[c] \notin {"open", "mark"}, UNCHANGED <<slots, slot, opened, shared>>,
         UNCHANGED back \/ \E m \in Message : m.kind # "ready" /\ Answer(c, m),
         OnceAt(c)'
  PROVE  IInv'
<1>1. /\ back' \in [Clients -> Seq(Message)]
      /\ \A d \in Clients : via[d] = "tcp" =>
            \A k \in 1..Len(back'[d]) : back'[d][k].kind # "ready"
  BY BackKept
<1>2. FormInv' /\ WireInv'
  BY <1>1, TaskKept DEF IInv, FormInv
<1>3. OnceInv'
  BY OthersKept DEF Used
<1>4. UNCHANGED <<via, http>> /\ pc' = [pc EXCEPT ![c] = to] /\ pc \in [Clients -> Places]
  BY DEF IInv, FormInv, TaskGoes
<1>5. \A d \in Clients : Finding(d)' = Finding(d) /\ (pc[d] = "mark" => pc'[d] = "mark")
  BY <1>4 DEF Finding
<1>6. OwnerInv' /\ SlotInv' /\ NoFileLost'
  BY <1>4, <1>5 DEF IInv, OwnerInv, SlotInv, NoFileLost
<1> QED BY <1>2, <1>3, <1>6 DEF IInv

LEMMA TcpBodyKeeps ==
  ASSUME IInv, NEW c \in Clients, TcpBody(c)
  PROVE  IInv'
<1>1. /\ pc[c] = "body"
      /\ UNCHANGED <<via, size, said, reading, acked, http, back, slots, slot, opened, shared>>
  BY DEF TcpBody, TcpStep, page, card, history
<1>2. /\ OnceAt(c) /\ pc \in [Clients -> Places] /\ wire \in [Clients -> Seq(Message)]
      /\ slot[c] \in Slots \cup {None} /\ wire[c] # << >> /\ via[c] = "tcp"
  BY <1>1 DEF IInv, FormInv, OnceInv, OnceAt
<1>3. CASE slot[c] # None /\ wire' = [wire EXCEPT ![c] = Tail(@)] /\ Goto(c, "write")
  <2>1. TaskGoes(c, "write") /\ "write" \in Places
    BY <1>1, <1>2, <1>3 DEF TaskGoes, Goto, Places
  <2>2. NoZero(Tail(wire[c]))
    BY <1>1, <1>2, Waiting
  <2>3. wire'[c] = Tail(wire[c]) /\ pc'[c] = "write"
    BY <1>2, <1>3 DEF Goto
  <2>4. NoZero(wire[c])'
    BY <2>2, <2>3 DEF NoZero, Zero
  <2>5. OnceAt(c)'
    BY <1>1, <1>2, <1>3, <2>3, <2>4 DEF OnceAt
  <2> QED BY <1>1, <2>1, <2>5, QuietKept
<1>4. CASE Goto(c, "cleanup") /\ UNCHANGED wire
  <2>1. TaskGoes(c, "cleanup") /\ "cleanup" \in Places
    BY <1>1, <1>4 DEF TaskGoes, Goto, Places
  <2>2. OnceAt(c)'
    BY <1>1, <1>2, <1>4 DEF OnceAt, Goto
  <2> QED BY <1>1, <2>1, <2>2, QuietKept
<1> QED BY <1>3, <1>4 DEF TcpBody

LEMMA TcpWriteKeeps ==
  ASSUME IInv, NEW c \in Clients, TcpWrite(c)
  PROVE  IInv'
<1>1. /\ pc[c] = "write"
      /\ UNCHANGED <<via, size, said, reading, acked, http, wire, back, slots, slot, opened, shared>>
  BY DEF TcpWrite, TcpStep, page
<1>2. PICK to \in {"count", "cleanup"} : Goto(c, to)
  BY DEF TcpWrite
<1>3. OnceAt(c) /\ pc \in [Clients -> Places]
  BY DEF IInv, FormInv, OnceInv
<1>4. TaskGoes(c, to) /\ to \in Places
  BY <1>1, <1>2 DEF TaskGoes, Goto, Places
<1>5. pc'[c] = to /\ (NoZero(wire[c])' <=> NoZero(wire[c]))
  BY <1>1, <1>2, <1>3 DEF Goto, NoZero, Zero
<1>6. OnceAt(c)'
  BY <1>1, <1>3, <1>5 DEF OnceAt
<1> QED BY <1>1, <1>4, <1>6, QuietKept

LEMMA TcpAckKeeps ==
  ASSUME IInv, NEW c \in Clients, TcpAck(c)
  PROVE  IInv'
<1>1. /\ pc[c] = "ack" /\ Answer(c, Ack(Cardinality(acked[c])))
      /\ UNCHANGED <<via, size, said, reading, acked, http, wire, slots, slot, opened, shared>>
  BY DEF TcpAck, TcpStep, page, card, history
<1>2. PICK to \in {"more", "cleanup"} : Goto(c, to)
  BY DEF TcpAck
<1>3. OnceAt(c) /\ pc \in [Clients -> Places] /\ IsFiniteSet(acked[c])
  BY DEF IInv, FormInv, OnceInv
<1>4. TaskGoes(c, to) /\ to \in Places
  BY <1>1, <1>2 DEF TaskGoes, Goto, Places
<1>5. pc'[c] = to /\ (NoZero(wire[c])' <=> NoZero(wire[c]))
  BY <1>1, <1>2, <1>3 DEF Goto, NoZero, Zero
<1>6. OnceAt(c)'
  BY <1>1, <1>3, <1>5 DEF OnceAt
<1>7. Cardinality(acked[c]) \in Nat
  BY <1>3, FS_CardinalityType
<1>8. /\ Ack(Cardinality(acked[c])) \in Message
      /\ Ack(Cardinality(acked[c])).kind # "ready"
  BY <1>7, MessageForm DEF Ack, Kinds
<1> QED BY <1>1, <1>4, <1>6, <1>8, QuietKept

LEMMA TcpMoreKeeps ==
  ASSUME IInv, NEW c \in Clients, TcpMore(c) \/ TcpNoMemory(c)
  PROVE  IInv'
<1>1. /\ pc[c] \in {"more", "header"} /\ (pc[c] = "header" => Goto(c, "cleanup"))
      /\ UNCHANGED <<via, size, said, reading, acked, http, wire, back, slots, slot, opened, shared>>
  BY DEF TcpMore, TcpNoMemory, TcpStep, page, card, history
<1>2. PICK to \in {"header", "cleanup"} : Goto(c, to)
  BY DEF TcpMore, TcpNoMemory
<1>3. OnceAt(c) /\ pc \in [Clients -> Places]
  BY DEF IInv, FormInv, OnceInv
<1>4. TaskGoes(c, to) /\ to \in Places
  BY <1>1, <1>2 DEF TaskGoes, Goto, Places
<1>5. pc'[c] = to /\ (NoZero(wire[c])' <=> NoZero(wire[c]))
  BY <1>1, <1>2, <1>3 DEF Goto, NoZero, Zero
<1>6. OnceAt(c)'
  BY <1>1, <1>2, <1>3, <1>5 DEF OnceAt, Goto
<1> QED BY <1>1, <1>4, <1>6, QuietKept

\* The file is opened in a slot that nobody else has found and that holds none.
LEMMA TcpOpenKeeps ==
  ASSUME IInv, NEW c \in Clients, TcpOpen(c)
  PROVE  IInv'
<1>1. /\ pc[c] = "open"
      /\ UNCHANGED <<via, size, said, reading, acked, http, wire, back, slot, shared>>
  BY DEF TcpOpen, TcpStep, page, history
<1>2. PICK f \in {c, None} :
        /\ slots' = [slots EXCEPT ![slot[c]].file = f]
        /\ Goto(c, IF f = c THEN "mark" ELSE "cleanup")
        /\ opened' = IF f = c THEN opened \cup {c} ELSE opened
  BY UploadAssumption DEF TcpOpen, card, history
<1> DEFINE to == IF f = c THEN "mark" ELSE "cleanup"
<1>3. /\ OnceAt(c) /\ pc \in [Clients -> Places] /\ slots \in [Slots -> SlotType]
      /\ slot[c] \in Slots /\ ~Used(c) /\ via[c] = "tcp" /\ wire[c] # << >> /\ c # None
  BY <1>1, UploadAssumption DEF IInv, FormInv, OnceInv, OnceAt
<1>4. TaskGoes(c, to) /\ to \in Places
  BY <1>1, <1>2 DEF TaskGoes, Goto, Places
<1>5. /\ slots' \in [Slots -> SlotType] /\ slots'[slot[c]].file = f
      /\ slots'[slot[c]].active = slots[slot[c]].active
      /\ \A s \in Slots : s # slot[c] => slots'[s] = slots[s]
  BY <1>2, <1>3 DEF SlotType, File
<1>6. /\ back' \in [Clients -> Seq(Message)]
      /\ \A d \in Clients : via[d] = "tcp" =>
            \A k \in 1..Len(back'[d]) : back'[d][k].kind # "ready"
  BY <1>1, BackKept
<1>7. FormInv' /\ WireInv'
  BY <1>1, <1>4, <1>5, <1>6, TaskKept DEF IInv, FormInv
<1>8. pc'[c] = to /\ \A d \in Clients : d # c => pc'[d] = pc[d]
  BY <1>2, <1>3 DEF Goto
<1>9. OnceInv'
  <2>1. OnceAt(c)'
    BY <1>1, <1>3, <1>8 DEF OnceAt
  <2>2. \A d \in Clients : d # c => (Used(d)' => Used(d))
    BY <1>5, UploadAssumption DEF Used
  <2> QED BY <1>1, <1>4, <2>1, <2>2, OthersKept
<1>10. OwnerInv'
  <2>1. \A s \in Slots : slots'[s].file # None => via[slots'[s].file] = "tcp"
    BY <1>2, <1>3, <1>5 DEF IInv, OwnerInv
  <2>2. \A s, t \in Slots : slots'[s].file = slots'[t].file /\ slots'[s].file # None => s = t
    BY <1>2, <1>3, <1>5 DEF IInv, OwnerInv, Used
  <2> QED BY <1>1, <2>1, <2>2 DEF IInv, OwnerInv
<1>11. ASSUME shared = {}
       PROVE  /\ \A d, e \in Clients : Finding(d) /\ Finding(e) /\ slot[d] = slot[e] => d = e
              /\ \A d \in Clients : Finding(d) => ~slots[slot[d]].active
              /\ \A s \in Slots : ~slots[s].active /\ slots[s].file # None =>
                                     \E d \in Clients : pc[d] = "mark" /\ slot[d] = s
  BY <1>11 DEF IInv, SlotInv
<1>12. \A d \in Clients : Finding(d)' => Finding(d)
  BY <1>1, <1>8 DEF Finding
<1>13. SlotInv'
  <2> SUFFICES ASSUME shared = {}
      PROVE  /\ \A d, e \in Clients : Finding(d)' /\ Finding(e)' /\ slot[d] = slot[e] => d = e
             /\ \A d \in Clients : Finding(d)' => ~slots'[slot[d]].active
             /\ \A s \in Slots : ~slots'[s].active /\ slots'[s].file # None =>
                                    \E d \in Clients : pc'[d] = "mark" /\ slot[d] = s
    BY <1>1 DEF SlotInv
  <2>1. \A d \in Clients : Finding(d) => slot[d] \in Slots
    BY DEF IInv, OnceInv, OnceAt, Finding
  <2>2. \A d \in Clients : Finding(d)' => ~slots'[slot[d]].active
    BY <1>5, <1>11, <1>12, <2>1
  <2>3. ASSUME NEW s \in Slots, ~slots'[s].active, slots'[s].file # None
        PROVE  \E d \in Clients : pc'[d] = "mark" /\ slot[d] = s
    <3>1. CASE s = slot[c]
      BY <1>2, <1>5, <1>8, <2>3, <3>1
    <3>2. CASE s # slot[c]
      BY <1>1, <1>5, <1>8, <1>11, <2>3, <3>2
    <3> QED BY <3>1, <3>2
  <2> QED BY <1>11, <1>12, <2>2, <2>3
<1>14. NoFileLost'
  <2> SUFFICES ASSUME shared = {}
      PROVE  opened' = ({http.file} \cup {slots'[s].file : s \in Slots}) \ {None}
    BY <1>1 DEF NoFileLost
  <2>1. slots[slot[c]].file = None
    BY <1>1, <1>3, <1>11 DEF Finding
  <2>2. opened = ({http.file} \cup {slots[s].file : s \in Slots}) \ {None}
    BY DEF IInv, NoFileLost
  <2>3. {slots'[s].file : s \in Slots} \ {None}
          = ({slots[s].file : s \in Slots} \cup {f}) \ {None}
    <3>1. \A s \in Slots : slots'[s].file = IF s = slot[c] THEN f ELSE slots[s].file
      BY <1>5
    <3> QED BY <1>3, <2>1, <3>1
  <2> QED BY <1>2, <1>3, <2>2, <2>3
<1> QED BY <1>7, <1>9, <1>10, <1>13, <1>14 DEF IInv

\* A slot that is marked was found by one client, whose file it holds.
LEMMA TcpMarkKeeps ==
  ASSUME IInv, NEW c \in Clients, TcpMark(c)
  PROVE  IInv'
<1>1. /\ pc[c] = "mark" /\ Goto(c, "body")
      /\ slots' = [slots EXCEPT ![slot[c]] =
                      [@ EXCEPT !.got = 0, !.total = size[c], !.active = TRUE]]
      /\ UNCHANGED <<via, size, said, reading, acked, http, wire, back, slot, opened, shared>>
  BY DEF TcpMark, TcpStep, page, card, history
<1>2. /\ OnceAt(c) /\ pc \in [Clients -> Places] /\ slots \in [Slots -> SlotType]
      /\ slot[c] \in Slots /\ wire[c] # << >> /\ via[c] = "tcp" /\ size[c] \in Nat
  BY <1>1 DEF IInv, FormInv, OnceInv, OnceAt
<1>3. TaskGoes(c, "body") /\ "body" \in Places
  BY <1>1 DEF TaskGoes, Goto, Places
<1>4. /\ slots' \in [Slots -> SlotType] /\ slots'[slot[c]].active
      /\ \A s \in Slots : slots'[s].file = slots[s].file
      /\ \A s \in Slots : s # slot[c] => slots'[s] = slots[s]
  BY <1>1, <1>2 DEF SlotType
<1>5. /\ back' \in [Clients -> Seq(Message)]
      /\ \A d \in Clients : via[d] = "tcp" =>
            \A k \in 1..Len(back'[d]) : back'[d][k].kind # "ready"
  BY <1>1, BackKept
<1>6. FormInv' /\ WireInv'
  BY <1>1, <1>3, <1>4, <1>5, TaskKept DEF IInv, FormInv
<1>7. pc'[c] = "body" /\ \A d \in Clients : d # c => pc'[d] = pc[d]
  BY <1>1, <1>2 DEF Goto
<1>8. OnceInv'
  <2>1. OnceAt(c)'
    BY <1>1, <1>2, <1>7 DEF OnceAt
  <2> QED BY <1>1, <1>3, <1>4, <2>1, OthersKept DEF Used
<1>9. OwnerInv' /\ NoFileLost'
  <2>1. {slots'[s].file : s \in Slots} = {slots[s].file : s \in Slots}
    BY <1>4
  <2> QED BY <1>1, <1>4, <2>1 DEF IInv, OwnerInv, NoFileLost
<1>10. SlotInv'
  <2> SUFFICES ASSUME shared = {}
      PROVE  /\ \A d, e \in Clients : Finding(d)' /\ Finding(e)' /\ slot[d] = slot[e] => d = e
             /\ \A d \in Clients : Finding(d)' => ~slots'[slot[d]].active
             /\ \A s \in Slots : ~slots'[s].active /\ slots'[s].file # None =>
                                    \E d \in Clients : pc'[d] = "mark" /\ slot[d] = s
    BY <1>1 DEF SlotInv
  <2>1. /\ \A d, e \in Clients : Finding(d) /\ Finding(e) /\ slot[d] = slot[e] => d = e
        /\ \A d \in Clients : Finding(d) => ~slots[slot[d]].active
        /\ \A s \in Slots : ~slots[s].active /\ slots[s].file # None =>
                               \E d \in Clients : pc[d] = "mark" /\ slot[d] = s
    BY DEF IInv, SlotInv
  <2>2. Finding(c) /\ \A d \in Clients : Finding(d)' => Finding(d) /\ d # c
    BY <1>1, <1>7 DEF Finding
  <2>3. \A d \in Clients : Finding(d) => slot[d] \in Slots
    BY DEF IInv, OnceInv, OnceAt, Finding
  <2>4. \A d \in Clients : Finding(d)' => ~slots'[slot[d]].active
    BY <1>4, <2>1, <2>2, <2>3
  <2>5. \A s \in Slots : ~slots'[s].active /\ slots'[s].file # None =>
                            \E d \in Clients : pc'[d] = "mark" /\ slot[d] = s
    BY <1>4, <1>7, <2>1
  <2> QED BY <2>1, <2>2, <2>4, <2>5
<1> QED BY <1>6, <1>8, <1>9, <1>10 DEF IInv

\* A slot is given up together with the file it holds.
LEMMA GivenUp ==
  ASSUME IInv, NEW c \in Clients, NEW to \in Places \ {"none", "open", "mark"}, TaskGoes(c, to),
         pc[c] \notin {"open", "mark"}, UNCHANGED <<slot, shared>>,
         UNCHANGED back \/ \E m \in Message : m.kind # "ready" /\ Answer(c, m),
         OnceAt(c) => OnceAt(c)',
         NEW s \in Slots, slots' \in [Slots -> SlotType],
         slots'[s].file = None, ~slots'[s].active,
         \A t \in Slots : t # s => slots'[t] = slots[t],
         opened' = opened \ {slots[s].file}
  PROVE  IInv'
<1>1. /\ back' \in [Clients -> Seq(Message)]
      /\ \A d \in Clients : via[d] = "tcp" =>
            \A k \in 1..Len(back'[d]) : back'[d][k].kind # "ready"
  BY BackKept
<1>2. FormInv' /\ WireInv'
  BY <1>1, TaskKept DEF IInv, FormInv
<1>3. \A d \in Clients : Used(d)' => Used(d)
  BY UploadAssumption DEF Used
<1>4. OnceInv'
  BY <1>3, OthersKept DEF IInv, OnceInv
<1>5. UNCHANGED <<via, http>> /\ pc' = [pc EXCEPT ![c] = to] /\ pc \in [Clients -> Places]
  BY DEF IInv, FormInv, TaskGoes
<1>6. \A d \in Clients : Finding(d)' = Finding(d) /\ (pc[d] = "mark" => pc'[d] = "mark")
  BY <1>5 DEF Finding
<1>7. OwnerInv'
  BY <1>5 DEF IInv, OwnerInv
<1>8. SlotInv'
  <2> SUFFICES ASSUME shared = {}
      PROVE  /\ \A d, e \in Clients : Finding(d)' /\ Finding(e)' /\ slot[d] = slot[e] => d = e
             /\ \A d \in Clients : Finding(d)' => ~slots'[slot[d]].active
             /\ \A t \in Slots : ~slots'[t].active /\ slots'[t].file # None =>
                                    \E d \in Clients : pc'[d] = "mark" /\ slot[d] = t
    BY DEF SlotInv
  <2>1. /\ \A d, e \in Clients : Finding(d) /\ Finding(e) /\ slot[d] = slot[e] => d = e
        /\ \A d \in Clients : Finding(d) => ~slots[slot[d]].active
        /\ \A t \in Slots : ~slots[t].active /\ slots[t].file # None =>
                               \E d \in Clients : pc[d] = "mark" /\ slot[d] = t
    BY DEF IInv, SlotInv
  <2>2. \A d \in Clients : Finding(d) => slot[d] \in Slots
    BY DEF IInv, OnceInv, OnceAt, Finding
  <2>3. \A d \in Clients : Finding(d)' => ~slots'[slot[d]].active
    BY <1>6, <2>1, <2>2
  <2>4. \A t \in Slots : ~slots'[t].active /\ slots'[t].file # None =>
                            \E d \in Clients : pc'[d] = "mark" /\ slot[d] = t
    BY <1>6, <2>1
  <2> QED BY <1>6, <2>1, <2>3, <2>4
<1>9. NoFileLost'
  <2> SUFFICES ASSUME shared = {}
      PROVE  opened' = ({http.file} \cup {slots'[t].file : t \in Slots}) \ {None}
    BY <1>5 DEF NoFileLost
  <2>1. opened = ({http.file} \cup {slots[t].file : t \in Slots}) \ {None}
    BY DEF IInv, NoFileLost
  <2>2. slots[s].file # None => slots[s].file # http.file
    BY DEF IInv, OwnerInv
  <2>3. \A t \in Slots : slots[t].file = slots[s].file /\ slots[s].file # None => t = s
    BY DEF IInv, OwnerInv
  <2>4. {slots'[t].file : t \in Slots} \ {None}
          = {slots[t].file : t \in Slots} \ {None, slots[s].file}
    BY <2>3
  <2> QED BY <2>1, <2>2, <2>4
<1> QED BY <1>2, <1>4, <1>7, <1>8, <1>9 DEF IInv

LEMMA TcpCountKeeps ==
  ASSUME IInv, NEW c \in Clients, TcpCount(c)
  PROVE  IInv'
<1> DEFINE s == slot[c]
           got == slots[s].got + 1
<1>1. /\ pc[c] = "count" /\ Goto(c, "ack")
      /\ UNCHANGED <<via, size, said, reading, acked, http, wire, back, slot, shared>>
  BY DEF TcpCount, TcpStep, page, history
<1>2. /\ OnceAt(c) /\ pc \in [Clients -> Places] /\ slots \in [Slots -> SlotType] /\ s \in Slots
  BY <1>1 DEF IInv, FormInv, OnceInv, OnceAt
<1>3. TaskGoes(c, "ack") /\ "ack" \in Places
  BY <1>1 DEF TaskGoes, Goto, Places
<1>4. pc'[c] = "ack" /\ (NoZero(wire[c])' <=> NoZero(wire[c]))
  BY <1>1, <1>2 DEF Goto, NoZero, Zero
<1>5. OnceAt(c)'
  BY <1>1, <1>2, <1>4 DEF OnceAt
<1>6. got \in Nat
  BY <1>2 DEF SlotType
<1>7. CASE /\ opened' = opened \ {slots[s].file}
           /\ slots' = [slots EXCEPT ![s] =
                          [@ EXCEPT !.got = got, !.file = None, !.active = FALSE]]
  <2> HIDE DEF got, s
  <2>1. /\ slots' \in [Slots -> SlotType] /\ slots'[s].file = None /\ ~slots'[s].active
        /\ \A t \in Slots : t # s => slots'[t] = slots[t]
    BY <1>2, <1>6, <1>7 DEF SlotType, File
  <2> QED BY <1>1, <1>2, <1>3, <1>5, <1>7, <2>1, GivenUp
<1>8. CASE slots' = [slots EXCEPT ![s].got = got] /\ UNCHANGED opened
  <2> HIDE DEF got, s
  <2>1. /\ slots' \in [Slots -> SlotType]
        /\ \A t \in Slots : slots'[t].file = slots[t].file /\ slots'[t].active = slots[t].active
    BY <1>2, <1>6, <1>8 DEF SlotType
  <2>2. /\ back' \in [Clients -> Seq(Message)]
        /\ \A d \in Clients : via[d] = "tcp" =>
              \A k \in 1..Len(back'[d]) : back'[d][k].kind # "ready"
    BY <1>1, BackKept
  <2>3. FormInv' /\ WireInv'
    BY <1>1, <1>3, <2>1, <2>2, TaskKept DEF IInv, FormInv
  <2>4. OnceInv'
    BY <1>1, <1>3, <1>5, <2>1, OthersKept DEF Used
  <2>5. {slots'[t].file : t \in Slots} = {slots[t].file : t \in Slots}
    BY <2>1
  <2>6. OwnerInv' /\ NoFileLost'
    BY <1>1, <1>8, <2>1, <2>5 DEF IInv, OwnerInv, NoFileLost
  <2>7. \A d \in Clients : /\ Finding(d)' = Finding(d) /\ (pc[d] = "mark" => pc'[d] = "mark")
                           /\ Finding(d) => slot[d] \in Slots
    BY <1>1, <1>2 DEF Finding, Goto, IInv, OnceInv, OnceAt
  <2>8. SlotInv'
    BY <1>1, <2>1, <2>7 DEF IInv, SlotInv
  <2> QED BY <2>3, <2>4, <2>6, <2>8 DEF IInv
<1> QED BY <1>7, <1>8 DEF TcpCount

LEMMA TcpCleanupKeeps ==
  ASSUME IInv, NEW c \in Clients, TcpCleanup(c)
  PROVE  IInv'
<1>1. /\ pc[c] = "cleanup" /\ Goto(c, "return") /\ Answer(c, Msg("closed"))
      /\ UNCHANGED <<via, size, said, reading, acked, http, wire, slot, shared>>
  BY DEF TcpCleanup, TcpStep, page, history
<1>2. /\ OnceAt(c) /\ pc \in [Clients -> Places] /\ slots \in [Slots -> SlotType]
      /\ slot[c] \in Slots \cup {None}
  BY <1>1 DEF IInv, FormInv, OnceInv
<1>3. TaskGoes(c, "return") /\ "return" \in Places
  BY <1>1 DEF TaskGoes, Goto, Places
<1>4. OnceAt(c)'
  BY <1>1, <1>2 DEF OnceAt, Goto
<1>5. Msg("closed") \in Message /\ Msg("closed").kind # "ready"
  BY MessageForm DEF Msg, Kinds
<1>6. CASE slot[c] = None
  <2>1. UNCHANGED <<slots, opened>>
    BY <1>6 DEF TcpCleanup
  <2> QED BY <1>1, <1>3, <1>4, <1>5, <2>1, QuietKept
<1>7. CASE slot[c] # None
  <2> DEFINE s == slot[c]
  <2>1. /\ opened' = opened \ {slots[s].file} /\ s \in Slots
        /\ slots' = [slots EXCEPT ![s] = [@ EXCEPT !.file = None, !.active = FALSE]]
    BY <1>2, <1>7 DEF TcpCleanup
  <2> HIDE DEF s
  <2>2. /\ slots' \in [Slots -> SlotType] /\ slots'[s].file = None /\ ~slots'[s].active
        /\ \A t \in Slots : t # s => slots'[t] = slots[t]
    BY <1>2, <2>1 DEF SlotType, File
  <2> QED BY <1>1, <1>3, <1>4, <1>5, <2>1, <2>2, GivenUp
<1> QED BY <1>6, <1>7

\* The restart closes everything.
LEMMA TcpReturnKeeps ==
  ASSUME IInv, NEW c \in Clients, TcpReturn(c)
  PROVE  IInv'
<1>1. FormInv /\ WireInv
  BY DEF IInv
<1>2. /\ http' = NoHttp /\ slots' = [s \in Slots |-> FreeSlot]
      /\ pc' = [d \in Clients |-> "none"] /\ slot' = [d \in Clients |-> None]
      /\ opened' = {} /\ wire' = [d \in Clients |-> << >>]
      /\ UNCHANGED <<via, size, said, reading, acked, shared>>
  BY DEF TcpReturn, page, history
<1>3. PICK arrive \in SUBSET {d \in Clients : back[d] # << >>} :
        back' = [d \in Clients |->
                   IF said[d] # "waiting" THEN << >>
                   ELSE (IF d \in arrive THEN back[d] ELSE << >>) \o <<Msg("closed")>>]
  BY DEF TcpReturn
<1>4. ASSUME NEW d \in Clients
      PROVE  /\ back'[d] \in Seq(Message)
             /\ via[d] = "tcp" => \A k \in 1..Len(back'[d]) : back'[d][k].kind # "ready"
  <2> DEFINE old == IF d \in arrive THEN back[d] ELSE << >>
             e   == Msg("closed")
  <2>1. e \in Message /\ e.kind # "ready"
    BY MessageForm DEF Msg, Kinds
  <2>2. old \in Seq(Message)
    BY <1>1 DEF FormInv
  <2>3. via[d] = "tcp" => \A k \in 1..Len(old) : old[k].kind # "ready"
    BY <1>1, <1>4, WireAt
  <2>4. back'[d] = << >> \/ back'[d] = old \o <<e>>
    BY <1>3
  <2> HIDE DEF old, e
  <2>5. /\ old \o <<e>> = Append(old, e) /\ Append(old, e) \in Seq(Message)
        /\ Len(old) \in Nat /\ Len(Append(old, e)) = Len(old) + 1
        /\ \A k \in 1..Len(old) : Append(old, e)[k] = old[k]
        /\ Append(old, e)[Len(old) + 1] = e
    BY <2>1, <2>2, AppendProperties, AppendIsConcat, LenProperties
  <2>6. \A k \in 1..Len(Append(old, e)) : k \in 1..Len(old) \/ Append(old, e)[k] = e
    BY <2>5
  <2>7. CASE back'[d] = << >>
    BY <2>7
  <2>8. CASE back'[d] = old \o <<e>>
    <3>1. back'[d] = Append(old, e)
      BY <2>5, <2>8
    <3> QED BY <2>1, <2>3, <2>5, <2>6, <3>1
  <2> QED BY <2>4, <2>7, <2>8
<1>5. back' \in [Clients -> Seq(Message)]
  BY <1>3, <1>4
<1>6. FormInv'
  BY <1>1, <1>2, <1>5 DEF FormInv, NoHttp, FreeSlot, SlotType, File, Places
<1>7. WireInv'
  BY <1>1, <1>2, <1>4, WireAt DEF WireInv, Zero
<1>8. OnceInv'
  BY <1>2, UploadAssumption DEF OnceInv, OnceAt, Used, FreeSlot
<1>9. OwnerInv' /\ SlotInv' /\ NoFileLost'
  BY <1>2 DEF OwnerInv, SlotInv, NoFileLost, Finding, NoHttp, FreeSlot
<1> QED BY <1>6, <1>7, <1>8, <1>9 DEF IInv
-----------------------------------------------------------------------------

LEMMA InitIInv ==
  ASSUME Init
  PROVE  IInv
<1>1. /\ via \in [Clients -> Ways] /\ size \in [Clients -> Nat \ {0}]
  BY UploadAssumption DEF Init
<1>2. IsFiniteSet({})
  BY FS_EmptySet
<1>3. FormInv
  BY <1>1, <1>2 DEF Init, FormInv, NoHttp, FreeSlot, SlotType, File, Places
<1>4. WireInv
  BY DEF Init, WireInv
<1>5. OnceInv
  BY UploadAssumption DEF Init, OnceInv, OnceAt, Used, FreeSlot
<1>6. OwnerInv /\ SlotInv /\ NoFileLost
  BY DEF Init, OwnerInv, SlotInv, NoFileLost, Finding, NoHttp, FreeSlot
<1> QED BY <1>3, <1>4, <1>5, <1>6 DEF IInv

LEMMA NextIInv ==
  ASSUME IInv, [Next]_vars
  PROVE  IInv'
<1>1. CASE UNCHANGED vars
  <2>1. UNCHANGED <<via, size, said, reading, acked, wire, back, http, slots, pc, slot, opened, shared>>
    BY <1>1 DEF vars, page, server, card, history
  <2>2. FormInv' /\ WireInv' /\ OnceInv'
    BY <2>1 DEF IInv, FormInv, WireInv, Zero, OnceInv, OnceAt, Used, NoZero
  <2> QED BY <2>1, <2>2, CardKept DEF IInv
<1>2. ASSUME NEW c \in Clients, Start(c) \/ Leave(c) \/ Page(c)
      PROVE  IInv'
  BY <1>2, StartKeeps, LeaveKeeps, WsLoadedKeeps, HearReadyKeeps, HearAckKeeps, HearEndKeeps
     DEF Page
<1>3. ASSUME NEW c \in Clients, Httpd(c)
      PROVE  IInv'
  BY <1>3, WsKeeps, HttpChunkKeeps, HttpOpenFailsKeeps, HttpNoMemoryKeeps,
     HttpWriteFailsKeeps, HttpCutKeeps
     DEF Httpd
<1>4. ASSUME NEW c \in Clients, Tcp(c)
      PROVE  IInv'
  BY <1>4, TcpHeaderKeeps, TcpOpenKeeps, TcpMarkKeeps, TcpBodyKeeps, TcpWriteKeeps,
     TcpCountKeeps, TcpAckKeeps, TcpMoreKeeps, TcpCleanupKeeps, TcpReturnKeeps
     DEF Tcp
<1> QED BY <1>1, <1>2, <1>3, <1>4 DEF Next

\* However many clients upload and however their uploads break off, a file is
\* open only as long as a slot or tcp_upload_chunk_handler refers to it, unless
\* two clients found one slot free at the same time.
THEOREM FilesKept == Spec => []NoFileLost
<1>1. Init => IInv
  BY InitIInv
<1>2. IInv /\ [Next]_vars => IInv'
  BY NextIInv
<1>3. IInv => NoFileLost
  BY DEF IInv
<1> QED BY <1>1, <1>2, <1>3, PTL DEF Spec
(***************************************************************************)
(* The second part: a client that is told success has its file on the      *)
(* card, for each of the three ways of uploading and any number of clients *)
(* and slots.                                                              *)
(*                                                                         *)
(* CardInv says who may write where: a client that found its slot alone    *)
(* keeps it until its file is given up.  So a step of another client       *)
(* leaves the file of c alone, or a chunk went to the wrong file           *)
(* (Elsewhere).  What is left for each way is an invariant about one       *)
(* client, kept by its own steps, by those of others, and by a restart:    *)
(*                                                                         *)
(*   HttpInv, TcpInv   one message is on its way, and says by itself how   *)
(*                     many chunks are in the file: N, the number of those *)
(*                     acknowledged, or one more;                          *)
(*   WsInv             a chunk is waiting for its reader, on its way, or   *)
(*                     gone, never two of these, and only a chunk that is  *)
(*                     gone is on the card.  As many different chunks as   *)
(*                     the file has are all of them (AllChunks).           *)
(***************************************************************************)
Pieces == Clients \X Int

CardForm ==
  /\ sent \in [Clients -> SUBSET Nat]
  /\ session \in [id : File, total : Nat, active : BOOLEAN]
  /\ disk \in [Clients -> Seq(Pieces)]
  /\ opened \subseteq Clients /\ mixed \subseteq Clients /\ shared \subseteq Clients

\* The session is that of the client it names; files of web sockets are closed
\* after every frame.
Sessions == \A c \in Clients : session.id = c => session.total = size[c]
Unopened == \A c \in opened : via[c] # "ws"

\* Who found a slot alone has it to itself until its file is given up, and its
\* file is open no longer than the slot holds it.
FoundAlone ==
  \A c, d \in Clients : Finding(c) /\ Finding(d) /\ slot[c] = slot[d] /\ c # d => c \in shared

HeldAt(c, s) ==
  slots[s].file = c /\ c \notin shared =>
    /\ slot[c] = s
    /\ \A d \in Clients : Finding(d) /\ slot[d] = s => d = c
    /\ pc[c] = "mark" \/ slots[s].active

Held == \A c \in Clients, s \in Slots : HeldAt(c, s)
OpenHeld == \A c \in opened : via[c] = "tcp" /\ c \notin shared => Used(c)

CardInv == CardForm /\ Sessions /\ Unopened /\ FoundAlone /\ Held /\ OpenHeld

\* What a step of another client may do to client c and its file.
Elsewhere(c) ==
  /\ UNCHANGED <<via, size>>
  /\ UNCHANGED <<said[c], reading[c], sent[c], acked[c], wire[c], back[c], pc[c], slot[c]>>
  /\ mixed \subseteq mixed' /\ shared \subseteq shared'
  /\ disk'[c] # disk[c] => c \in mixed' /\ via[c] # "ws"
  /\ c \in opened' => c \in opened \/ c \in mixed'
  /\ http'.file = c => http.file = c /\ (http' = http \/ c \in mixed')
  /\ \A s \in Slots : slots'[s].file = c =>
        /\ slots[s].file = c
        /\ \/ c \in shared'
           \/ slots'[s].total = slots[s].total /\ slots'[s].got >= slots[s].got

LEMMA PageElsewhere ==
  ASSUME IInv, CardInv, NEW c \in Clients, NEW d \in Clients, c # d,
         Start(d) \/ Leave(d) \/ Page(d)
  PROVE  Elsewhere(c)
<1>1. /\ said \in [Clients -> {"idle", "waiting", "success", "failed", "stuck", "left"}]
      /\ reading \in [Clients -> SUBSET Nat] /\ acked \in [Clients -> SUBSET Nat]
      /\ wire \in [Clients -> Seq(Message)] /\ back \in [Clients -> Seq(Message)]
      /\ pc \in [Clients -> Places] /\ sent \in [Clients -> SUBSET Nat]
      /\ slots \in [Slots -> SlotType]
  BY DEF IInv, FormInv, CardInv, CardForm
<1>2. /\ UNCHANGED <<via, size, http, slots, slot, disk, opened, mixed, shared>>
      /\ pc' = pc \/ pc' = [pc EXCEPT ![d] = "header"]
  BY DEF Start, Leave, Page, WsLoaded, HearReady, WsHearAck, HearAck, HearDone, HearFailed,
         HearClosed, Hearing, server, card, history
<1>3. said'[c] = said[c]
  BY <1>1 DEF Start, Leave, Page, WsLoaded, HearReady, WsHearAck, HearAck, HearDone, HearFailed,
              HearClosed, Tell
<1>4. reading'[c] = reading[c] /\ sent'[c] = sent[c]
  BY <1>1 DEF Start, Leave, Page, WsLoaded, HearReady, WsHearAck, HearAck, HearDone, HearFailed,
              HearClosed, StartBatch
<1>5. acked'[c] = acked[c] /\ back'[c] = back[c]
  BY <1>1 DEF Start, Leave, Page, WsLoaded, HearReady, WsHearAck, HearAck, HearDone, HearFailed,
              HearClosed, Hearing
<1>6. wire'[c] = wire[c]
  BY <1>1 DEF Start, Leave, Page, WsLoaded, HearReady, WsHearAck, HearAck, HearDone, HearFailed,
              HearClosed, Send
<1>7. \A s \in Slots : slots[s].got \in Nat
  BY <1>1 DEF SlotType
<1> QED BY <1>1, <1>2, <1>3, <1>4, <1>5, <1>6, <1>7 DEF Elsewhere

\* The card under the steps of the web server.
LEMMA HttpdElsewhere ==
  ASSUME IInv, CardInv, NEW c \in Clients, NEW d \in Clients, c # d, Httpd(d)
  PROVE  Elsewhere(c)
<1>1. /\ wire \in [Clients -> Seq(Message)] /\ back \in [Clients -> Seq(Message)]
      /\ slots \in [Slots -> SlotType] /\ disk \in [Clients -> Seq(Pieces)]
      /\ http \in [file : File, got : Nat, total : Nat]
  BY DEF IInv, FormInv, CardInv, CardForm
<1>2. /\ UNCHANGED <<via, size, said, reading, sent, acked, slots, pc, slot, shared>>
      /\ wire'[c] = wire[c]
  BY <1>1 DEF Httpd, UploadStart, WsChunk, WsChunkFails, WsComplete, HttpChunk, HttpOpenFails,
         HttpWriteFails, HttpShort, HttpCut, HttpNoMemory, Taking, page, history
<1>3. back'[c] = back[c]
  BY <1>1 DEF Httpd, UploadStart, WsChunk, WsChunkFails, WsComplete, HttpChunk, HttpOpenFails,
         HttpWriteFails, HttpShort, HttpCut, HttpNoMemory, Answer, Reply
<1>4. \A s \in Slots : slots[s].got \in Nat
  BY <1>1 DEF SlotType
<1>5. ASSUME UploadStart(d) \/ WsChunk(d) \/ WsChunkFails(d) \/ WsComplete(d)
      PROVE  UNCHANGED <<http, opened, mixed>> /\ disk'[c] = disk[c]
  BY <1>1, <1>5 DEF UploadStart, WsChunk, WsChunkFails, WsComplete, card, history
<1>6. ASSUME HttpChunk(d) \/ HttpOpenFails(d) \/ HttpWriteFails(d) \/ HttpCut(d) \/ HttpNoMemory(d)
      PROVE  /\ mixed \subseteq mixed'
             /\ disk'[c] # disk[c] => c \in mixed' /\ via[c] # "ws"
             /\ c \in opened' => c \in opened \/ c \in mixed'
             /\ http'.file = c => http.file = c /\ (http' = http \/ c \in mixed')
  <2> DEFINE i == Head(wire[d]).i
             h == HttpOpened(d, i)
  <2>1. via[d] = "http" /\ i \in Nat
    BY <1>6, Taken DEF HttpChunk, HttpOpenFails, HttpWriteFails, HttpShort, HttpCut, HttpNoMemory, Kinds
  <2>2. /\ h \in [file : File, got : Nat, total : Nat]
        /\ h.file # None => via[h.file] = "http"
        /\ h.file = d \/ h = http
    BY <2>1, OpenedForm DEF HttpOpened
  <2>3. c # None
    BY UploadAssumption
  <2>4. CASE HttpOpenFails(d)
    BY <2>3, <2>4, <2>2 DEF HttpOpenFails, history
  <2>7. CASE HttpNoMemory(d)
    <3>1. /\ UNCHANGED mixed /\ http' = h /\ h.file # None
          /\ IF i = 0 THEN disk' = [disk EXCEPT ![d] = << >>] /\ opened' = (opened \ {http.file}) \cup {d}
             ELSE UNCHANGED <<disk, opened>>
      BY <2>7 DEF HttpNoMemory, card, history
    <3>2. IF i = 0 THEN h.file = d ELSE h = http
      BY DEF HttpOpened
    <3> QED BY <1>1, <3>1, <3>2
  <2>5. CASE h.file = None /\ ~HttpOpenFails(d) /\ ~HttpNoMemory(d)
    <3>1. UNCHANGED <<disk, opened, mixed>> /\ (http' = http \/ http' = h)
      BY <1>6, <2>5 DEF HttpChunk, HttpWriteFails, HttpShort, HttpCut, HttpNoMemory, card, history, Meets
    <3> QED BY <2>2, <2>3, <2>5, <3>1
  <2>6. CASE h.file # None /\ ~HttpOpenFails(d) /\ ~HttpNoMemory(d)
    <3>1. /\ mixed' = mixed \cup Meets(d, h.file)
          /\ \E x \in Pieces, close \in BOOLEAN : HttpWrite(d, i, h, x, close)
          /\ http'.file \in {None, h.file}
      <4>1. Piece(d, i) \in Pieces /\ Part(d) \in Pieces
        BY <2>1 DEF Piece, Part, Pieces
      <4>2. CASE HttpChunk(d)
        <5> DEFINE full == h.got + 1 >= h.total
        <5>1. /\ HttpWrite(d, i, h, Piece(d, i), full)
              /\ http' = [h EXCEPT !.got = @ + 1, !.file = IF full THEN None ELSE @]
              /\ mixed' = mixed \cup Meets(d, h.file)
          BY <2>6, <4>2 DEF HttpChunk
        <5> HIDE DEF h
        <5>2. full \in BOOLEAN
          BY <2>2
        <5> HIDE DEF full
        <5>3. http'.file \in {None, h.file}
          BY <2>2, <5>1
        <5> QED BY <4>1, <5>1, <5>2, <5>3
      <4>3. CASE HttpWriteFails(d)
        BY <2>2, <2>6, <4>1, <4>3 DEF HttpWriteFails, HttpShort
      <4>4. CASE HttpCut(d)
        BY <2>2, <2>6, <4>1, <4>4 DEF HttpCut
      <4> QED BY <1>6, <2>6, <4>2, <4>3, <4>4
    <3>2. h.file # d /\ c = h.file => c \in mixed'
      BY <2>6, <3>1 DEF Meets
    <3>3. disk'[c] # disk[c] => c = h.file
      BY <1>1, <3>1 DEF HttpWrite
    <3>4. c \in opened' => c \in opened \/ c = h.file
      BY <3>1 DEF HttpWrite
    <3> QED BY <2>2, <2>3, <2>6, <3>1, <3>2, <3>3, <3>4
  <2> QED BY <2>4, <2>5, <2>6, <2>7
<1> QED BY <1>2, <1>3, <1>4, <1>5, <1>6 DEF Elsewhere, Httpd

\* What the task of client d leaves alone of another client.
LEMMA TcpElsewhere ==
  ASSUME IInv, CardInv, NEW c \in Clients, NEW d \in Clients, c # d, Tcp(d), ~TcpReturn(d)
  PROVE  Elsewhere(c)
<1>1. /\ wire \in [Clients -> Seq(Message)] /\ back \in [Clients -> Seq(Message)]
      /\ slots \in [Slots -> SlotType] /\ disk \in [Clients -> Seq(Pieces)]
      /\ pc \in [Clients -> Places] /\ slot \in [Clients -> Slots \cup {None}]
      /\ http \in [file : File, got : Nat, total : Nat]
  BY DEF IInv, FormInv, CardInv, CardForm
<1>2. /\ UNCHANGED <<via, size, said, reading, sent, acked, http>>
      /\ wire'[c] = wire[c] /\ slot'[c] = slot[c] /\ pc'[c] = pc[c]
  <2>1. UNCHANGED <<via, size, said, reading, sent, acked, http>>
    BY DEF Tcp, TcpHeader, TcpOpen, TcpMark, TcpBody, TcpWrite, TcpCount, TcpAck, TcpMore, TcpNoMemory,
           TcpCleanup, TcpStep, page
  <2>2. wire'[c] = wire[c]
    BY <1>1 DEF Tcp, TcpHeader, TcpOpen, TcpMark, TcpBody, TcpWrite, TcpCount, TcpAck, TcpMore, TcpNoMemory,
           TcpCleanup
  <2>3. CASE TcpHeader(d)
    <3>1. Head(wire[d]).kind \in {"chunk", "closed"}
      BY <2>3, Waiting DEF TcpHeader, TcpStep
    <3> QED BY <1>1, <2>1, <2>2, <2>3, <3>1 DEF TcpHeader, Goto
  <2>4. ASSUME ~TcpHeader(d)
        PROVE  UNCHANGED slot /\ \E to \in Places : Goto(d, to)
    BY <2>4 DEF Tcp, TcpOpen, TcpMark, TcpBody, TcpWrite, TcpCount, TcpAck, TcpMore, TcpNoMemory,
           TcpCleanup, Places
  <2> QED BY <1>1, <2>1, <2>2, <2>3, <2>4 DEF Goto
<1>3. back'[c] = back[c]
  BY <1>1 DEF Tcp, TcpHeader, TcpOpen, TcpMark, TcpBody, TcpWrite, TcpCount, TcpAck, TcpMore, TcpNoMemory,
         TcpCleanup, Answer, Reply
<1>4. pc[d] # "none" /\ via[d] = "tcp"
      /\ (pc[d] \in {"open", "mark", "write", "count", "ack", "more"} => slot[d] \in Slots)
  BY DEF Tcp, TcpHeader, TcpOpen, TcpMark, TcpBody, TcpWrite, TcpCount, TcpAck, TcpMore, TcpNoMemory,
         TcpCleanup, TcpStep, IInv, OnceInv, OnceAt
<1>5. \A s \in Slots : slots[s].got \in Nat /\ slots[s].total \in Nat /\ slots[s].file \in File
  BY <1>1 DEF SlotType
<1>6. c # None
  BY UploadAssumption
<1>7. \A s \in Slots : slots[s].file # None => via[slots[s].file] = "tcp"
  BY DEF IInv, OwnerInv
<1>8. CASE TcpHeader(d) \/ TcpBody(d) \/ TcpAck(d) \/ TcpMore(d) \/ TcpNoMemory(d)
  <2>1. UNCHANGED <<slots, disk, opened, mixed>> /\ shared \subseteq shared'
    <3>1. CASE TcpHeader(d)
      <4>1. Head(wire[d]).kind \in {"chunk", "closed"}
        BY <3>1, Waiting DEF TcpHeader, TcpStep
      <4> QED BY <3>1, <4>1 DEF TcpHeader, card
    <3> QED BY <1>8, <3>1 DEF TcpBody, TcpAck, TcpMore, TcpNoMemory, card, history
  <2> QED BY <1>2, <1>3, <1>5, <2>1 DEF Elsewhere
<1>9. CASE TcpOpen(d)
  <2>1. /\ UNCHANGED <<mixed, shared>> /\ disk'[c] = disk[c] /\ opened' \subseteq opened \cup {d}
        /\ slot[d] \in Slots
        /\ \/ slots' = [slots EXCEPT ![slot[d]].file = d]
           \/ slots' = [slots EXCEPT ![slot[d]].file = None]
    BY <1>1, <1>4, <1>9 DEF TcpOpen, TcpStep, card, history
  <2>2. \A s \in Slots : slots'[s].file = c => slots'[s] = slots[s]
    BY <1>1, <1>6, <2>1 DEF SlotType
  <2> QED BY <1>2, <1>3, <1>5, <2>1, <2>2 DEF Elsewhere
<1>10. CASE TcpMark(d)
  <2>1. /\ UNCHANGED <<disk, opened, mixed, shared>> /\ Finding(d) /\ slot[d] \in Slots
        /\ slots' = [slots EXCEPT ![slot[d]] =
                       [@ EXCEPT !.got = 0, !.total = size[d], !.active = TRUE]]
    BY <1>4, <1>10 DEF TcpMark, TcpStep, card, history, Finding
  <2>2. \A s \in Slots : /\ slots'[s].file = slots[s].file
                         /\ s # slot[d] => slots'[s] = slots[s]
    BY <1>1, <2>1 DEF SlotType
  <2>3. slots[slot[d]].file = c => c \in shared
    BY <2>1 DEF CardInv, Held, HeldAt
  <2> QED BY <1>2, <1>3, <1>5, <2>1, <2>2, <2>3 DEF Elsewhere
<1>11. CASE TcpWrite(d)
  <2> DEFINE f == slots[slot[d]].file
  <2>1. /\ UNCHANGED <<slots, opened, shared>> /\ slot[d] \in Slots
        /\ mixed' = mixed \cup Meets(d, f)
    BY <1>4, <1>11 DEF TcpWrite, TcpStep, history
  <2>2. \/ disk' = disk
        \/ f # None /\ (\E x \in Seq(Pieces) : disk' = [disk EXCEPT ![f] = x])
    <3>1. f # None => f \in Clients /\ disk[f] \in Seq(Pieces)
      BY <1>1, <1>5, <2>1 DEF File
    <3>2. Part(d) \in Pieces
      BY DEF Part, Pieces
    <3>3. Cardinality(acked[d]) \in Nat
      BY FS_CardinalityType DEF IInv, FormInv
    <3>4. Piece(d, Cardinality(acked[d])) \in Pieces
      BY <3>3 DEF Piece, Pieces
    <3>5. f # None => /\ Append(disk[f], Part(d)) \in Seq(Pieces)
                      /\ Append(disk[f], Piece(d, Cardinality(acked[d]))) \in Seq(Pieces)
      BY <3>1, <3>2, <3>4, AppendProperties
    <3>6. \/ disk' = disk
          \/ f # None /\ disk' = [disk EXCEPT ![f] = Append(disk[f], Part(d))]
          \/ f # None /\ disk' = [disk EXCEPT ![f] = Append(disk[f], Piece(d, Cardinality(acked[d])))]
      BY <1>11 DEF TcpWrite
    <3>7. ASSUME NEW x \in Seq(Pieces), f # None, disk' = [disk EXCEPT ![f] = x]
          PROVE  f # None /\ (\E y \in Seq(Pieces) : disk' = [disk EXCEPT ![f] = y])
      BY <3>7
    <3> HIDE DEF f
    <3> QED BY <3>5, <3>6, <3>7
  <2>3. disk'[c] # disk[c] => f = c
    BY <1>1, <2>2
  <2>4. f = c => c \in mixed' /\ via[c] = "tcp"
    BY <1>6, <1>7, <2>1 DEF Meets
  <2> QED BY <1>2, <1>3, <1>5, <2>1, <2>3, <2>4 DEF Elsewhere
<1>12. CASE TcpCount(d)
  <2>1. /\ UNCHANGED <<disk, mixed, shared>> /\ opened' \subseteq opened /\ slot[d] \in Slots
        /\ \/ slots' = [slots EXCEPT ![slot[d]] =
                           [@ EXCEPT !.got = slots[slot[d]].got + 1, !.file = None, !.active = FALSE]]
           \/ slots' = [slots EXCEPT ![slot[d]].got = slots[slot[d]].got + 1]
    BY <1>4, <1>12 DEF TcpCount, TcpStep, history
  <2>2. \A s \in Slots : slots'[s].file = c =>
          slots'[s].file = slots[s].file /\ slots'[s].total = slots[s].total
          /\ slots'[s].got >= slots[s].got
    <3>1. CASE slots' = [slots EXCEPT ![slot[d]] =
                          [@ EXCEPT !.got = slots[slot[d]].got + 1, !.file = None, !.active = FALSE]]
      <4>1. \A s \in Slots : slots'[s].file = c => slots'[s] = slots[s]
        BY <1>1, <1>6, <2>1, <3>1 DEF SlotType
      <4> QED BY <1>5, <4>1
    <3>2. CASE slots' = [slots EXCEPT ![slot[d]].got = slots[slot[d]].got + 1]
      <4>1. \A s \in Slots : /\ slots'[s].file = slots[s].file /\ slots'[s].total = slots[s].total
                             /\ slots'[s].got = slots[s].got \/ slots'[s].got = slots[s].got + 1
        BY <1>1, <1>5, <2>1, <3>2 DEF SlotType
      <4> QED BY <1>5, <4>1
    <3> QED BY <2>1, <3>1, <3>2
  <2> QED BY <1>2, <1>3, <1>5, <2>1, <2>2 DEF Elsewhere
<1>13. CASE TcpCleanup(d)
  <2>1. /\ UNCHANGED <<disk, mixed, shared>> /\ opened' \subseteq opened
        /\ \/ slots' = slots
           \/ slot[d] \in Slots
              /\ slots' = [slots EXCEPT ![slot[d]] = [@ EXCEPT !.file = None, !.active = FALSE]]
    BY <1>1, <1>13 DEF TcpCleanup, TcpStep, history
  <2>2. \A s \in Slots : slots'[s].file = c => slots'[s] = slots[s]
    BY <1>1, <1>6, <2>1 DEF SlotType
  <2> QED BY <1>2, <1>3, <1>5, <2>1, <2>2 DEF Elsewhere
<1> QED BY <1>8, <1>9, <1>10, <1>11, <1>12, <1>13 DEF Tcp

\* What says who holds a slot does not change.
LEMMA CardSame ==
  ASSUME IInv, CardInv, CardForm', UNCHANGED <<via, size, session, slots, slot, opened, shared>>,
         \A c \in Clients : Finding(c)' = Finding(c) /\ (pc'[c] = "mark" <=> pc[c] = "mark")
  PROVE  CardInv'
BY DEF CardInv, Sessions, Unopened, FoundAlone, Held, HeldAt, OpenHeld, Used

LEMMA PageCard ==
  ASSUME IInv, CardInv, NEW d \in Clients, Leave(d) \/ Page(d)
  PROVE  CardInv'
<1>1. /\ sent \in [Clients -> SUBSET Nat] /\ via \in [Clients -> Ways]
      /\ size \in [Clients -> Nat \ {0}]
  BY DEF IInv, FormInv, CardInv, CardForm
<1>2. UNCHANGED <<via, size, session, slots, pc, slot, disk, opened, mixed, shared>>
  BY DEF Leave, Page, WsLoaded, HearReady, WsHearAck, HearAck, HearDone, HearFailed,
         HearClosed, Hearing, server, card, history
<1>3. NextBatch(d) \subseteq Nat
  BY <1>1 DEF NextBatch, Chunks
<1>4. sent' = sent \/ sent' = [sent EXCEPT ![d] = @ \cup NextBatch(d)]
  BY DEF Leave, Page, WsLoaded, HearReady, WsHearAck, HearAck, HearDone, HearFailed,
         HearClosed, StartBatch
<1>5. sent' \in [Clients -> SUBSET Nat]
  <2> DEFINE new == sent[d] \cup NextBatch(d)
  <2>1. new \in SUBSET Nat
    BY <1>1, <1>3
  <2>2. sent' = sent \/ sent' = [sent EXCEPT ![d] = new]
    BY <1>4
  <2> HIDE DEF new
  <2> QED BY <1>1, <2>1, <2>2
<1> QED BY <1>2, <1>5, CardSame DEF CardInv, CardForm, Finding

LEMMA StartCard ==
  ASSUME IInv, CardInv, NEW d \in Clients, Start(d)
  PROVE  CardInv'
<1>1. /\ UNCHANGED <<via, size, sent, session, slots, slot, disk, opened, mixed, shared>>
      /\ pc' = IF via[d] = "tcp" THEN [pc EXCEPT ![d] = "header"] ELSE pc
      /\ said[d] = "idle"
  BY DEF Start, card, history
<1>2. via[d] = "tcp" => pc[d] = "none"
  BY <1>1, WireAt DEF IInv
<1>3. pc \in [Clients -> Places]
  BY DEF IInv, FormInv
<1>4. \A c \in Clients : (Finding(c)' <=> Finding(c)) /\ (pc'[c] = "mark" <=> pc[c] = "mark")
  BY <1>1, <1>2, <1>3 DEF Finding
<1> QED BY <1>1, <1>4 DEF CardInv, CardForm, Sessions, Unopened, FoundAlone, Held, HeldAt, OpenHeld, Used

\* A write of one piece to one file.
LEMMA WriteForm ==
  ASSUME CardForm, NEW f \in Clients, NEW x \in Pieces, NEW y \in {disk[f], << >>},
         disk' = [disk EXCEPT ![f] = Append(y, x)]
  PROVE  disk' \in [Clients -> Seq(Pieces)]
<1>1. disk \in [Clients -> Seq(Pieces)]
  BY DEF CardForm
<1>2. y \in Seq(Pieces)
  BY <1>1, EmptySeq
<1>3. Append(y, x) \in Seq(Pieces)
  BY <1>2, AppendProperties
<1> QED BY <1>1, <1>3

LEMMA PieceForm ==
  ASSUME NEW c \in Clients, NEW i \in Nat
  PROVE  Piece(c, i) \in Pieces /\ Part(c) \in Pieces /\ Piece(c, i) # Part(c)
BY DEF Piece, Part, Pieces

LEMMA WsCard ==
  ASSUME IInv, CardInv, NEW d \in Clients,
         UploadStart(d) \/ WsChunk(d) \/ WsChunkFails(d) \/ WsComplete(d)
  PROVE  CardInv'
<1> DEFINE i == Head(wire[d]).i
<1>1. /\ UNCHANGED <<via, size, sent, slots, pc, slot, opened, mixed, shared>>
  BY DEF UploadStart, WsChunk, WsChunkFails, WsComplete, Taking, page, card, history
<1>2. i \in Nat
  BY Taken DEF UploadStart, WsChunk, WsChunkFails, WsComplete, Kinds
<1>3. session \in [id : File, total : Nat, active : BOOLEAN] /\ size \in [Clients -> Nat \ {0}]
  BY DEF IInv, FormInv, CardInv, CardForm
<1>4. \/ session' = session
      \/ session' = SessionOf(d)
      \/ session' = [session EXCEPT !.active = FALSE]
  BY DEF UploadStart, WsChunk, WsChunkFails, WsComplete
<1>5. session' \in [id : File, total : Nat, active : BOOLEAN] /\ Sessions'
  <2>1. CASE session' = SessionOf(d)
    BY <1>1, <1>3, <2>1 DEF SessionOf, File, Sessions
  <2>2. CASE session' = session \/ session' = [session EXCEPT !.active = FALSE]
    <3>1. /\ session' \in [id : File, total : Nat, active : BOOLEAN]
          /\ session'.id = session.id /\ session'.total = session.total
      BY <1>3, <2>2
    <3> QED BY <1>1, <3>1 DEF CardInv, Sessions
  <2> QED BY <1>4, <2>1, <2>2
<1>6. disk' \in [Clients -> Seq(Pieces)]
  <2>1. \/ disk' = disk
        \/ disk' = [disk EXCEPT ![d] = << >>]
        \/ \E x \in Pieces, y \in {disk[d], << >>} : disk' = [disk EXCEPT ![d] = Append(y, x)]
    <3>1. CASE UploadStart(d) \/ WsComplete(d)
      BY <3>1 DEF UploadStart, WsComplete, card
    <3>2. CASE WsChunk(d)
      BY <1>2, <3>2, PieceForm DEF WsChunk
    <3>3. CASE WsChunkFails(d)
      BY <1>2, <3>3, PieceForm DEF WsChunkFails
    <3> QED BY <3>1, <3>2, <3>3
  <2>2. disk \in [Clients -> Seq(Pieces)] /\ << >> \in Seq(Pieces)
    BY EmptySeq DEF CardInv, CardForm
  <2> QED BY <2>1, <2>2, WriteForm DEF CardInv
<1> QED BY <1>1, <1>5, <1>6 DEF CardInv, CardForm, Unopened, FoundAlone, Held, HeldAt, OpenHeld, Finding, Used

LEMMA HttpCard ==
  ASSUME IInv, CardInv, NEW d \in Clients,
         HttpChunk(d) \/ HttpOpenFails(d) \/ HttpNoMemory(d) \/ HttpWriteFails(d) \/ HttpCut(d)
  PROVE  CardInv'
<1> DEFINE i == Head(wire[d]).i
           h == HttpOpened(d, i)
<1>1. UNCHANGED <<via, size, sent, session, slots, pc, slot, shared>>
  BY DEF HttpChunk, HttpOpenFails, HttpWriteFails, HttpShort, HttpCut, HttpNoMemory, Taking, page, history
<1>2. via[d] = "http" /\ i \in Nat
  BY Taken DEF HttpChunk, HttpOpenFails, HttpWriteFails, HttpShort, HttpCut, HttpNoMemory, Kinds
<1>3. /\ h \in [file : File, got : Nat, total : Nat]
      /\ h.file # None => via[h.file] = "http"
  BY <1>2, OpenedForm
<1>4. http.file \in File /\ (http.file # None => via[http.file] = "http")
  BY DEF IInv, FormInv, OwnerInv
<1>5. \/ UNCHANGED <<disk, opened>>
      \/ UNCHANGED disk /\ opened' = opened \ {http.file}
      \/ /\ h.file = d /\ disk' = [disk EXCEPT ![d] = << >>]
         /\ opened' = (opened \ {http.file}) \cup {d}
      \/ /\ h.file # None
         /\ \E x \in {Piece(d, i), Part(d)}, close \in BOOLEAN : HttpWrite(d, i, h, x, close)
  <2>1. CASE HttpChunk(d)
    <3> DEFINE full == h.got + 1 >= h.total
    <3>1. \/ UNCHANGED <<disk, opened>>
          \/ h.file # None /\ HttpWrite(d, i, h, Piece(d, i), full)
      BY <2>1 DEF HttpChunk, card
    <3> HIDE DEF h
    <3>2. full \in BOOLEAN
      BY <1>3
    <3> QED BY <3>1, <3>2
  <2>2. CASE HttpOpenFails(d)
    BY <2>2 DEF HttpOpenFails
  <2>3. CASE HttpWriteFails(d)
    BY <2>3 DEF HttpWriteFails, HttpShort
  <2>4. CASE HttpCut(d)
    BY <2>4 DEF HttpCut, card
  <2>5. CASE HttpNoMemory(d)
    BY <2>5 DEF HttpNoMemory, HttpOpened, card
  <2> QED BY <2>1, <2>2, <2>3, <2>4, <2>5
<1>6. mixed' \subseteq Clients
  <2>1. mixed' \subseteq mixed \cup {d} \cup ({h.file} \ {None})
    BY DEF HttpChunk, HttpOpenFails, HttpWriteFails, HttpShort, HttpCut, HttpNoMemory, history, Meets
  <2> QED BY <1>3, <2>1 DEF File, CardInv, CardForm
<1> HIDE DEF h, i
<1>7. /\ disk' \in [Clients -> Seq(Pieces)]
      /\ \A c \in Clients : via[c] # "http" => (c \in opened' <=> c \in opened)
      /\ opened' \subseteq opened \cup ({h.file} \ {None})
  <2>1. ASSUME NEW x \in {Piece(d, i), Part(d)}, NEW close \in BOOLEAN, h.file # None,
               HttpWrite(d, i, h, x, close)
        PROVE  /\ disk' \in [Clients -> Seq(Pieces)]
               /\ \A c \in Clients : via[c] # "http" => (c \in opened' <=> c \in opened)
               /\ opened' \subseteq opened \cup ({h.file} \ {None})
    <3>1. h.file \in Clients /\ x \in Pieces
      BY <1>2, <1>3, <2>1, PieceForm DEF File
    <3>2. disk' = [disk EXCEPT ![h.file] = Append(IF i = 0 THEN << >> ELSE disk[h.file], x)]
      BY <2>1 DEF HttpWrite
    <3>3. disk' \in [Clients -> Seq(Pieces)]
      BY <3>1, <3>2, WriteForm DEF CardInv
    <3>4. \A c \in Clients : via[c] # "http" => (c \in opened' <=> c \in opened)
      <4>1. \A c \in Clients : c \notin {h.file, http.file} => (c \in opened' <=> c \in opened)
        BY <2>1 DEF HttpWrite
      <4>2. \A c \in Clients : c = h.file => via[c] = "http"
        BY <1>3, <2>1
      <4>3. \A c \in Clients : c = http.file => via[c] = "http"
        BY <1>4, UploadAssumption
      <4> QED BY <4>1, <4>2, <4>3
    <3>5. opened' \subseteq opened \cup ({h.file} \ {None})
      BY <2>1 DEF HttpWrite
    <3> QED BY <3>3, <3>4, <3>5
  <2>2. disk \in [Clients -> Seq(Pieces)]
    BY DEF CardInv, CardForm
  <2>3. CASE UNCHANGED disk /\ opened' = opened \ {http.file}
    <3>1. \A c \in Clients : c = http.file => via[c] = "http"
      BY <1>4, UploadAssumption
    <3> QED BY <2>2, <2>3, <3>1
  <2>4. CASE /\ h.file = d /\ disk' = [disk EXCEPT ![d] = << >>]
             /\ opened' = (opened \ {http.file}) \cup {d}
    <3>1. \A c \in Clients : c = http.file => via[c] = "http"
      BY <1>4, UploadAssumption
    <3>2. d # None /\ << >> \in Seq(Pieces)
      BY UploadAssumption, EmptySeq
    <3> QED BY <1>2, <2>2, <2>4, <3>1, <3>2
  <2> QED BY <1>5, <2>1, <2>2, <2>3, <2>4
<1>8. CardForm' /\ Unopened' /\ OpenHeld'
  <2>1. h.file \in Clients \/ h.file = None
    BY <1>3 DEF File
  <2>2. CardForm'
    BY <1>1, <1>6, <1>7, <2>1 DEF CardInv, CardForm
  <2>3. CardForm /\ \A c \in opened : c \in Clients
    BY DEF CardInv, CardForm
  <2>4. \A c \in opened' : c \in Clients
    BY <2>2 DEF CardForm
  <2>5. Unopened' /\ OpenHeld'
    BY <1>1, <1>7, <2>4 DEF CardInv, Unopened, OpenHeld, Used
  <2> QED BY <2>2, <2>5
<1> QED BY <1>1, <1>8 DEF CardInv, Sessions, FoundAlone, Held, HeldAt, Finding
-----------------------------------------------------------------------------
(* The card under the tasks of the TCP clients *)

\* What a task's step leaves alone, and the places it goes to.
LEMMA TaskForm ==
  ASSUME IInv, CardInv, NEW d \in Clients, Tcp(d), ~TcpReturn(d)
  PROVE  /\ UNCHANGED <<via, size, said, reading, sent, acked, session, http>>
         /\ via[d] = "tcp" /\ pc \in [Clients -> Places] /\ slot \in [Clients -> Slots \cup {None}]
         /\ slots \in [Slots -> SlotType] /\ disk \in [Clients -> Seq(Pieces)]
         /\ pc[d] \in {"open", "mark", "write", "count", "ack", "more"} => slot[d] \in Slots
         /\ \A c \in Clients : c # d => pc'[c] = pc[c] /\ slot'[c] = slot[c]
<1>1. PICK at \in Places \ {"none"} : TcpStep(d, at)
  <2>1. \/ TcpStep(d, "header") \/ TcpStep(d, "open") \/ TcpStep(d, "mark")
        \/ TcpStep(d, "body") \/ TcpStep(d, "write") \/ TcpStep(d, "count")
        \/ TcpStep(d, "ack") \/ TcpStep(d, "more") \/ TcpStep(d, "cleanup")
    <3>1. \/ TcpHeader(d) \/ TcpOpen(d) \/ TcpMark(d) \/ TcpBody(d) \/ TcpWrite(d)
          \/ TcpCount(d) \/ TcpAck(d) \/ TcpMore(d) \/ TcpCleanup(d) \/ TcpNoMemory(d)
      BY DEF Tcp
    <3>2. /\ TcpHeader(d) => TcpStep(d, "header")
          /\ TcpOpen(d) => TcpStep(d, "open")
          /\ TcpMark(d) => TcpStep(d, "mark")
      BY DEF TcpHeader, TcpOpen, TcpMark
    <3>3. /\ TcpBody(d) => TcpStep(d, "body")
          /\ TcpWrite(d) => TcpStep(d, "write")
          /\ TcpCount(d) => TcpStep(d, "count")
      BY DEF TcpBody, TcpWrite, TcpCount
    <3>4. /\ TcpAck(d) => TcpStep(d, "ack")
          /\ TcpMore(d) => TcpStep(d, "more")
          /\ TcpCleanup(d) => TcpStep(d, "cleanup")
          /\ TcpNoMemory(d) => TcpStep(d, "header")
      BY DEF TcpAck, TcpMore, TcpCleanup, TcpNoMemory
    <3> QED BY <3>1, <3>2, <3>3, <3>4
  <2> QED BY <2>1 DEF Places
<1>2. /\ UNCHANGED <<via, size, said, reading, sent, acked, session, http>>
      /\ pc[d] # "none"
  BY <1>1 DEF TcpStep, page
<1>3. \A c \in Clients : c # d => Elsewhere(c)
  BY TcpElsewhere
<1> QED BY <1>2, <1>3 DEF IInv, FormInv, OnceInv, OnceAt, CardInv, CardForm, Elsewhere

\* A slot gives up its file, and nobody starts to look for one.
LEMMA SlotGivenUp ==
  ASSUME IInv, CardInv, CardForm', UNCHANGED <<via, size, session, slot, shared>>,
         NEW s \in Slots, slots'[s].file = None, \A t \in Slots : t # s => slots'[t] = slots[t],
         \A c \in Clients : (Finding(c)' => Finding(c)) /\ (pc[c] = "mark" => pc'[c] = "mark"),
         opened' \subseteq opened,
         \A c \in opened' : via[c] = "tcp" /\ c \notin shared => slots[s].file # c
  PROVE  CardInv'
<1>1. \A c \in Clients : c # None
  BY UploadAssumption
<1>2. Held'
  BY <1>1 DEF CardInv, Held, HeldAt
<1>3. OpenHeld'
  BY DEF CardInv, OpenHeld, Used
<1> QED BY <1>2, <1>3 DEF CardInv, Sessions, Unopened, FoundAlone

\* The slot that find_available_tcp_session returns, and who else has found it.
FreeSlots == {x \in Slots : ~slots[x].active}
FoundSlot == CHOOSE x \in FreeSlots : \A y \in FreeSlots : x <= y
Rivals(s) == {c \in Clients : slot[c] = s /\ pc[c] \in {"open", "mark"}}

\* The cases of TcpHeader.
LEMMA HeaderGoes ==
  ASSUME IInv, NEW d \in Clients, TcpHeader(d)
  PROVE  LET m == Head(wire[d])  s == FoundSlot IN
         /\ m.i \in Nat /\ pc[d] = "header" /\ wire[d] # << >>
         /\ \/ /\ Goto(d, "cleanup") /\ UNCHANGED <<slot, shared>>
               /\ m.kind = "closed" \/ (m.kind = "chunk" /\ m.i = 0)
            \/ Goto(d, "body") /\ UNCHANGED <<slot, shared>> /\ m.kind = "chunk" /\ m.i # 0
            \/ /\ m.kind = "chunk" /\ m.i = 0 /\ ~Used(d) /\ Goto(d, "open")
               /\ s \in Slots /\ ~slots[s].active /\ slot' = [slot EXCEPT ![d] = s]
               /\ shared' = IF Rivals(s) = {} THEN shared ELSE shared \cup Rivals(s) \cup {d}
<1> DEFINE m == Head(wire[d])
<1>1. pc[d] = "header" /\ wire[d] # << >>
  BY DEF TcpHeader, TcpStep
<1>2. m.kind \in {"chunk", "closed"} /\ m.i \in Nat
  BY <1>1, Waiting
<1>3. m.kind = "chunk" /\ m.i = 0 => ~Used(d)
  BY <1>1, Waiting DEF IInv, OnceInv, OnceAt
<1>4. ASSUME FreeSlots # {}
      PROVE  FoundSlot \in Slots /\ ~slots[FoundSlot].active
  <2>1. FreeSlots \in SUBSET Nat
    BY UploadAssumption DEF FreeSlots
  <2>2. FoundSlot \in FreeSlots
    BY <1>4, <2>1, Least DEF FoundSlot
  <2> QED BY <2>2 DEF FreeSlots
<1>5. CASE m.kind = "closed"
  <2>1. Goto(d, "cleanup") /\ UNCHANGED <<slot, shared>>
    BY <1>5 DEF TcpHeader
  <2> QED BY <1>1, <1>2, <1>5, <2>1
<1>6. CASE m.kind = "chunk" /\ m.i = 0 /\ FreeSlots = {}
  <2>1. Goto(d, "cleanup") /\ UNCHANGED <<slot, shared>>
    BY <1>6 DEF TcpHeader, FreeSlots
  <2> QED BY <1>1, <1>2, <1>6, <2>1
<1>7. CASE m.kind = "chunk" /\ m.i = 0 /\ FreeSlots # {}
  <2>1. /\ Goto(d, "open") /\ slot' = [slot EXCEPT ![d] = FoundSlot]
        /\ shared' = IF Rivals(FoundSlot) = {} THEN shared
                     ELSE shared \cup Rivals(FoundSlot) \cup {d}
    BY <1>7 DEF TcpHeader, FreeSlots, FoundSlot, Rivals
  <2> QED BY <1>1, <1>2, <1>3, <1>4, <1>7, <2>1
<1>8. CASE m.kind = "chunk" /\ m.i # 0
  BY <1>1, <1>2, <1>8 DEF TcpHeader
<1> QED BY <1>2, <1>5, <1>6, <1>7, <1>8

LEMMA TcpHeaderCard ==
  ASSUME IInv, CardInv, NEW d \in Clients, TcpHeader(d)
  PROVE  CardInv'
<1> DEFINE s == FoundSlot
           rivals == Rivals(s)
<1>1. /\ UNCHANGED <<slots, opened, disk, mixed>> /\ pc[d] = "header" /\ Tcp(d) /\ ~TcpReturn(d)
  BY DEF TcpHeader, TcpStep, card, Tcp, TcpReturn
<1>2. /\ UNCHANGED <<via, size, sent, session>> /\ pc \in [Clients -> Places]
      /\ slot \in [Clients -> Slots \cup {None}] /\ slots \in [Slots -> SlotType]
      /\ \A c \in Clients : c # d => pc'[c] = pc[c] /\ slot'[c] = slot[c]
  BY <1>1, TaskForm
<1>3. CASE UNCHANGED <<slot, shared>> /\ pc'[d] \in {"cleanup", "body"}
  BY <1>1, <1>2, <1>3, CardSame DEF CardInv, CardForm, Finding
<1>4. CASE /\ slot'[d] = s /\ pc'[d] = "open" /\ ~Used(d) /\ s \in Slots /\ ~slots[s].active
           /\ shared' = IF rivals = {} THEN shared ELSE shared \cup rivals \cup {d}
  <2> HIDE DEF s
  <2>1. s \in Slots /\ ~slots[s].active
    BY <1>4
  <2>2. shared \subseteq shared' /\ \A c \in rivals : c \in shared' /\ d \in shared'
    BY <1>4
  <2>3. \A c \in Clients : Finding(c) /\ slot[c] = s => c \in rivals
    BY DEF Finding, Rivals
  <2>4. FoundAlone'
    BY <1>2, <1>4, <2>2, <2>3 DEF CardInv, FoundAlone, Finding
  <2>5. ASSUME NEW c \in Clients, NEW t \in Slots, slots[t].file = c, c \notin shared'
        PROVE  /\ slot'[c] = t /\ (pc'[c] = "mark" \/ slots[t].active)
               /\ \A e \in Clients : Finding(e)' /\ slot'[e] = t => e = c
    <3>1. c # d
      BY <1>4, <2>5 DEF Used
    <3>2. /\ slot[c] = t /\ (pc[c] = "mark" \/ slots[t].active)
          /\ \A e \in Clients : Finding(e) /\ slot[e] = t => e = c
      BY <2>2, <2>5 DEF CardInv, Held, HeldAt
    <3>3. t # s
      BY <2>1, <2>2, <2>3, <2>5, <3>2 DEF Finding
    <3> QED BY <1>2, <1>4, <3>1, <3>2, <3>3 DEF Finding
  <2>6. Held'
    BY <1>1, <2>5 DEF Held, HeldAt
  <2>7. Unopened' /\ OpenHeld' /\ Sessions'
    BY <1>1, <1>2, <2>2 DEF CardInv, Unopened, OpenHeld, Used, Sessions
  <2>8. CardForm'
    <3>1. shared' \subseteq Clients
      BY <1>4 DEF CardInv, CardForm, Rivals
    <3> QED BY <1>1, <1>2, <3>1 DEF CardInv, CardForm
  <2> QED BY <2>4, <2>6, <2>7, <2>8 DEF CardInv
<1>5. \/ Goto(d, "cleanup") /\ UNCHANGED <<slot, shared>>
      \/ Goto(d, "body") /\ UNCHANGED <<slot, shared>>
      \/ /\ ~Used(d) /\ Goto(d, "open") /\ s \in Slots /\ ~slots[s].active
         /\ slot' = [slot EXCEPT ![d] = s]
         /\ shared' = IF rivals = {} THEN shared ELSE shared \cup rivals \cup {d}
  BY HeaderGoes
<1> QED BY <1>2, <1>3, <1>4, <1>5 DEF Goto

LEMMA TcpOpenCard ==
  ASSUME IInv, CardInv, NEW d \in Clients, TcpOpen(d)
  PROVE  CardInv'
<1>1. /\ pc[d] = "open" /\ UNCHANGED <<slot, mixed, shared>> /\ Tcp(d) /\ ~TcpReturn(d)
  BY DEF TcpOpen, TcpStep, history, Tcp, TcpReturn
<1>2. /\ UNCHANGED <<via, size, sent, session>> /\ pc \in [Clients -> Places]
      /\ slots \in [Slots -> SlotType] /\ disk \in [Clients -> Seq(Pieces)] /\ slot[d] \in Slots
      /\ \A c \in Clients : c # d => pc'[c] = pc[c]
  BY <1>1, TaskForm
<1>3. ~Used(d) /\ \A c \in Clients : c # None
  BY <1>1, UploadAssumption DEF IInv, OnceInv, OnceAt
<1>4. ASSUME NEW c \in Clients, c \notin shared, slots[slot[d]].file = c
      PROVE  FALSE
  BY <1>1, <1>2, <1>3, <1>4 DEF CardInv, Held, HeldAt, Finding, Used
<1>5. CASE /\ slots' = [slots EXCEPT ![slot[d]].file = None] /\ Goto(d, "cleanup")
           /\ UNCHANGED card
  <2>1. /\ slots'[slot[d]].file = None /\ \A t \in Slots : t # slot[d] => slots'[t] = slots[t]
    BY <1>2, <1>5 DEF SlotType
  <2>2. \A c \in Clients : (Finding(c)' => Finding(c)) /\ (pc[c] = "mark" => pc'[c] = "mark")
    BY <1>1, <1>2, <1>5 DEF Finding, Goto
  <2>3. CardForm'
    BY <1>1, <1>2, <1>5 DEF CardInv, CardForm, card
  <2>4. opened' = opened /\ \A c \in opened' : c \in Clients
    BY <1>5 DEF card, CardInv, CardForm
  <2> QED BY <1>1, <1>2, <1>4, <2>1, <2>2, <2>3, <2>4, SlotGivenUp
<1>6. CASE /\ slots' = [slots EXCEPT ![slot[d]].file = d] /\ Goto(d, "mark")
           /\ disk' = [disk EXCEPT ![d] = << >>] /\ opened' = opened \cup {d}
  <2>1. /\ \A t \in Slots : t # slot[d] => slots'[t] = slots[t]
        /\ slots'[slot[d]].file = d
    BY <1>2, <1>6 DEF SlotType
  <2>2. pc'[d] = "mark" /\ \A c \in Clients : Finding(c)' = Finding(c)
    BY <1>1, <1>2, <1>6 DEF Finding, Goto
  <2>3. FoundAlone'
    BY <1>1, <2>2 DEF CardInv, FoundAlone
  <2>4. Held'
    <3>1. ASSUME NEW c \in Clients, NEW t \in Slots, t # slot[d], slots'[t].file = c, c \notin shared
          PROVE  HeldAt(c, t)'
      <4>1. slots[t].file = c /\ c # d
        BY <1>3, <2>1, <3>1 DEF Used
      <4> QED BY <1>1, <1>2, <2>1, <2>2, <3>1, <4>1 DEF CardInv, Held, HeldAt
    <3>2. \A e \in Clients : Finding(e) /\ slot[e] = slot[d] /\ d \notin shared => e = d
      BY <1>1 DEF CardInv, FoundAlone, Finding
    <3>3. HeldAt(d, slot[d])'
      BY <1>1, <2>2, <3>2 DEF HeldAt
    <3> QED BY <1>1, <2>1, <3>1, <3>3 DEF Held, HeldAt
  <2>5. OpenHeld'
    <3> SUFFICES ASSUME NEW c \in opened', via[c] = "tcp", c \notin shared
        PROVE  \E t \in Slots : slots'[t].file = c
      BY <1>1, <1>2 DEF OpenHeld, Used
    <3>1. CASE c = d
      BY <1>2, <2>1, <3>1
    <3>2. CASE c # d
      <4>1. c \in Clients /\ Used(c)
        BY <1>6, <3>2 DEF CardInv, OpenHeld, CardForm
      <4> QED BY <1>4, <2>1, <4>1 DEF Used
    <3> QED BY <3>1, <3>2
  <2>6. disk' \in [Clients -> Seq(Pieces)]
    BY <1>2, <1>6, EmptySeq
  <2>7. d \notin opened => via[d] = "tcp"
    BY <1>1, TaskForm
  <2> QED BY <1>1, <1>2, <1>6, <2>3, <2>4, <2>5, <2>6, TaskForm
         DEF CardInv, CardForm, Sessions, Unopened
<1> QED BY <1>5, <1>6 DEF TcpOpen

LEMMA TcpMarkCard ==
  ASSUME IInv, CardInv, NEW d \in Clients, TcpMark(d)
  PROVE  CardInv'
<1>1. /\ pc[d] = "mark" /\ Goto(d, "body") /\ Tcp(d) /\ ~TcpReturn(d)
      /\ slots' = [slots EXCEPT ![slot[d]] =
                      [@ EXCEPT !.got = 0, !.total = size[d], !.active = TRUE]]
      /\ UNCHANGED <<slot, disk, opened, mixed, shared>>
  BY DEF TcpMark, TcpStep, card, history, Tcp, TcpReturn
<1>2. /\ UNCHANGED <<via, size, sent, session>> /\ pc \in [Clients -> Places]
      /\ slots \in [Slots -> SlotType] /\ slot[d] \in Slots
      /\ \A c \in Clients : c # d => pc'[c] = pc[c]
  BY <1>1, TaskForm
<1>3. /\ \A t \in Slots : slots'[t].file = slots[t].file
      /\ \A t \in Slots : slots[t].active => slots'[t].active
      /\ slots'[slot[d]].active
  BY <1>1, <1>2 DEF SlotType
<1>4. pc'[d] = "body" /\ \A c \in Clients : Finding(c)' => Finding(c)
  BY <1>1, <1>2 DEF Goto, Finding
<1>5. Held'
  BY <1>1, <1>2, <1>3, <1>4 DEF CardInv, Held, HeldAt
<1>6. OpenHeld' /\ FoundAlone'
  BY <1>1, <1>2, <1>3, <1>4 DEF CardInv, OpenHeld, Used, FoundAlone
<1> QED BY <1>1, <1>2, <1>5, <1>6 DEF CardInv, CardForm, Sessions, Unopened

LEMMA TcpWriteCard ==
  ASSUME IInv, CardInv, NEW d \in Clients, TcpWrite(d)
  PROVE  CardInv'
<1> DEFINE f == slots[slot[d]].file
           n == Cardinality(acked[d])
<1>1. /\ pc[d] = "write" /\ UNCHANGED <<slots, slot, opened, shared>> /\ Tcp(d) /\ ~TcpReturn(d)
      /\ Goto(d, "count") \/ Goto(d, "cleanup")
      /\ mixed' = mixed \cup Meets(d, f)
  BY DEF TcpWrite, TcpStep, Tcp, TcpReturn
<1>2. /\ UNCHANGED <<via, size, sent, session>> /\ pc \in [Clients -> Places]
      /\ slots \in [Slots -> SlotType] /\ slot[d] \in Slots
      /\ \A c \in Clients : c # d => pc'[c] = pc[c]
  BY <1>1, TaskForm
<1>3. f \in File /\ n \in Nat
  BY <1>2, FS_CardinalityType DEF SlotType, IInv, FormInv
<1>4. \/ UNCHANGED disk
      \/ f # None /\ disk' = [disk EXCEPT ![f] = Append(disk[f], Piece(d, n))]
      \/ f # None /\ disk' = [disk EXCEPT ![f] = Append(disk[f], Part(d))]
  BY DEF TcpWrite
<1> HIDE DEF f, n
<1>5. CardForm'
  <2>1. mixed' \subseteq Clients
    BY <1>1, <1>3 DEF CardInv, CardForm, Meets, File
  <2>2. f # None => f \in Clients
    BY <1>3 DEF File
  <2>3. disk' \in [Clients -> Seq(Pieces)]
    <3>1. CASE UNCHANGED disk
      BY <3>1 DEF CardInv, CardForm
    <3>2. CASE f # None /\ disk' = [disk EXCEPT ![f] = Append(disk[f], Piece(d, n))]
      BY <1>3, <2>2, <3>2, PieceForm, WriteForm DEF CardInv
    <3>3. CASE f # None /\ disk' = [disk EXCEPT ![f] = Append(disk[f], Part(d))]
      BY <1>3, <2>2, <3>3, PieceForm, WriteForm DEF CardInv
    <3> QED BY <1>4, <3>1, <3>2, <3>3
  <2> QED BY <1>1, <1>2, <2>1, <2>3 DEF CardInv, CardForm
<1>6. \A c \in Clients : Finding(c)' = Finding(c) /\ (pc'[c] = "mark" <=> pc[c] = "mark")
  BY <1>1, <1>2 DEF Goto, Finding
<1> QED BY <1>1, <1>2, <1>5, <1>6, CardSame

LEMMA TcpTalkCard ==
  ASSUME IInv, CardInv, NEW d \in Clients, TcpBody(d) \/ TcpAck(d) \/ TcpMore(d) \/ TcpNoMemory(d)
  PROVE  CardInv'
<1>1. /\ pc[d] \in {"body", "ack", "more", "header"} /\ Tcp(d) /\ ~TcpReturn(d)
      /\ UNCHANGED <<slots, slot, disk, opened, mixed, shared>>
      /\ \E to \in {"write", "cleanup", "more", "header"} : Goto(d, to)
  BY DEF TcpBody, TcpAck, TcpMore, TcpNoMemory, TcpStep, Tcp, TcpReturn, card, history
<1>2. /\ UNCHANGED <<via, size, sent, session>> /\ pc \in [Clients -> Places]
      /\ \A c \in Clients : c # d => pc'[c] = pc[c]
  BY <1>1, TaskForm
<1>3. \A c \in Clients : Finding(c)' = Finding(c) /\ (pc'[c] = "mark" <=> pc[c] = "mark")
  BY <1>1, <1>2 DEF Goto, Finding
<1>4. CardForm'
  BY <1>1, <1>2 DEF CardInv, CardForm
<1> QED BY <1>1, <1>2, <1>3, <1>4, CardSame

LEMMA TcpEndCard ==
  ASSUME IInv, CardInv, NEW d \in Clients, TcpCount(d) \/ TcpCleanup(d)
  PROVE  CardInv'
<1> DEFINE s == slot[d]
           got == slots[s].got + 1
<1>1. /\ pc[d] \in {"count", "cleanup"} /\ Tcp(d) /\ ~TcpReturn(d)
      /\ UNCHANGED <<slot, disk, mixed, shared>> /\ opened' \subseteq opened
      /\ \E to \in {"ack", "return"} : Goto(d, to)
  BY DEF TcpCount, TcpCleanup, TcpStep, Tcp, TcpReturn, history
<1>2. /\ UNCHANGED <<via, size, sent, session>> /\ pc \in [Clients -> Places]
      /\ slots \in [Slots -> SlotType] /\ slot[d] \in Slots \cup {None}
      /\ pc[d] = "count" => slot[d] \in Slots
      /\ \A c \in Clients : c # d => pc'[c] = pc[c]
  BY <1>1, TaskForm
<1>3. \A c \in Clients : Finding(c)' = Finding(c) /\ (pc'[c] = "mark" <=> pc[c] = "mark")
  BY <1>1, <1>2 DEF Goto, Finding
<1>4. CardForm'
  BY <1>1, <1>2 DEF CardInv, CardForm
<1>5. \/ UNCHANGED <<slots, opened>>
      \/ s \in Slots /\ opened' = opened /\ slots' = [slots EXCEPT ![s].got = got]
      \/ /\ s \in Slots /\ opened' = opened \ {slots[s].file}
         /\ \E x \in {slots[s].got, got} :
              slots' = [slots EXCEPT ![s] = [@ EXCEPT !.got = x, !.file = None, !.active = FALSE]]
  <2>1. CASE TcpCount(d)
    BY <1>2, <2>1 DEF TcpCount, TcpStep
  <2>2. CASE TcpCleanup(d)
    <3>1. CASE s = None
      BY <2>2, <3>1 DEF TcpCleanup
    <3>2. CASE s # None
      <4>1. /\ s \in Slots /\ opened' = opened \ {slots[s].file}
            /\ slots' = [slots EXCEPT ![s] = [@ EXCEPT !.file = None, !.active = FALSE]]
        BY <1>2, <2>2, <3>2 DEF TcpCleanup
      <4>2. slots' = [slots EXCEPT ![s] = [@ EXCEPT !.got = slots[s].got, !.file = None, !.active = FALSE]]
        BY <1>2, <4>1 DEF SlotType
      <4> QED BY <4>1, <4>2
    <3> QED BY <3>1, <3>2
  <2> QED BY <2>1, <2>2
<1> HIDE DEF s, got
<1>6. CASE UNCHANGED <<slots, opened>>
  BY <1>1, <1>2, <1>3, <1>4, <1>6, CardSame
<1>7. CASE s \in Slots /\ opened' = opened /\ slots' = [slots EXCEPT ![s].got = got]
  <2>1. \A t \in Slots : slots'[t].file = slots[t].file /\ slots'[t].active = slots[t].active
    BY <1>2, <1>7 DEF SlotType
  <2>2. Held'
    BY <1>1, <1>3, <2>1 DEF CardInv, Held, HeldAt
  <2>3. OpenHeld' /\ FoundAlone'
    BY <1>1, <1>2, <1>3, <1>7, <2>1 DEF CardInv, OpenHeld, Used, FoundAlone
  <2> QED BY <1>1, <1>2, <1>4, <1>7, <2>2, <2>3 DEF CardInv, Sessions, Unopened
<1>8. ASSUME s \in Slots, opened' = opened \ {slots[s].file},
             NEW x \in {slots[s].got, got},
             slots' = [slots EXCEPT ![s] = [@ EXCEPT !.got = x, !.file = None, !.active = FALSE]]
      PROVE  CardInv'
  <2>1. slots'[s].file = None /\ \A t \in Slots : t # s => slots'[t] = slots[t]
    BY <1>2, <1>8 DEF SlotType
  <2> QED BY <1>1, <1>2, <1>3, <1>4, <1>8, <2>1, SlotGivenUp
<1> QED BY <1>5, <1>6, <1>7, <1>8

LEMMA ReturnCard ==
  ASSUME IInv, CardInv, NEW d \in Clients, TcpReturn(d)
  PROVE  CardInv'
<1>1. /\ UNCHANGED <<via, size, sent, mixed, shared>> /\ session' = NoSession
      /\ slots' = [s \in Slots |-> FreeSlot] /\ pc' = [c \in Clients |-> "none"] /\ opened' = {}
      /\ disk' = [n \in Clients |-> IF n \in opened THEN << >> ELSE disk[n]]
  BY DEF TcpReturn, page, history
<1>2. disk' \in [Clients -> Seq(Pieces)]
  BY <1>1, EmptySeq DEF CardInv, CardForm
<1>3. CardForm' /\ Sessions'
  BY <1>1, <1>2, UploadAssumption DEF CardInv, CardForm, NoSession, File, Sessions
<1>4. FoundAlone' /\ Held' /\ OpenHeld' /\ Unopened'
  BY <1>1, UploadAssumption DEF FoundAlone, Held, HeldAt, OpenHeld, Unopened, Finding, FreeSlot
<1> QED BY <1>3, <1>4 DEF CardInv

LEMMA InitCard ==
  ASSUME Init
  PROVE  CardInv
<1>1. CardForm /\ Sessions
  BY EmptySeq, UploadAssumption DEF Init, CardForm, NoSession, File, Sessions
<1> QED BY <1>1, UploadAssumption DEF Init, CardInv, FoundAlone, Held, HeldAt, OpenHeld, Unopened,
           Finding, FreeSlot

LEMMA NextCard ==
  ASSUME IInv, CardInv, [Next]_vars
  PROVE  CardInv'
<1>1. CASE UNCHANGED vars
  BY <1>1 DEF vars, page, server, card, history, CardInv, CardForm, Sessions, Unopened,
     FoundAlone, Held, HeldAt, OpenHeld, Used, Finding
<1>2. ASSUME NEW c \in Clients, Start(c) \/ Leave(c) \/ Page(c) \/ Httpd(c) \/ Tcp(c)
      PROVE  CardInv'
  <2>1. CASE Start(c) \/ Leave(c) \/ Page(c)
    BY <2>1, StartCard, PageCard
  <2>2. CASE Httpd(c)
    BY <2>2, WsCard, HttpCard DEF Httpd
  <2>3. CASE Tcp(c)
    BY <2>3, TcpHeaderCard, TcpOpenCard, TcpMarkCard, TcpWriteCard, TcpTalkCard, TcpEndCard,
       ReturnCard DEF Tcp
  <2> QED BY <1>2, <2>1, <2>2, <2>3
<1> QED BY <1>1, <1>2 DEF Next
-----------------------------------------------------------------------------
(* What the acknowledgements of a page's requests and of a TCP client say. *)

\* The chunks acknowledged so far: the client sends one at a time.
N(c) == Cardinality(acked[c])
Counted(c) == N(c) < size[c] /\ acked[c] = 0..N(c) - 1

\* The first m chunks are the file.
Stored(c, m) == Len(disk[c]) = m /\ \A k \in 1..m : disk[c][k] = Piece(c, k - 1)

\* The acknowledgement of the next chunk is on the way, before the end of the
\* connection; or only answers of some kinds are.
Acks(c) ==
  /\ back[c] # << >> /\ back[c][1] = Ack(N(c))
  /\ \A k \in 1..Len(back[c]) : k > 1 => back[c][k].kind = "closed"
Refused(c, kinds) == back[c] # << >> /\ \A k \in 1..Len(back[c]) : back[c][k].kind \in kinds

\* What m acknowledged chunks of a page mean: the handler's file has them and
\* expects more, or the file has them all and is closed.
HttpKeeps(c, m) ==
  c \notin mixed =>
    /\ http.file = c /\ m > 0 =>
         Stored(c, m) /\ http.got = m /\ http.total = size[c] /\ m < size[c]
    /\ m = size[c] => Stored(c, m) /\ c \notin opened

HttpAsks(c)     == wire[c] = <<Chunk(N(c))>> /\ back[c] = << >> /\ HttpKeeps(c, N(c))
HttpAnswered(c) == wire[c] = << >> /\ Acks(c) /\ HttpKeeps(c, N(c) + 1)
HttpRefused(c)  == wire[c] = << >> /\ Refused(c, {"failed", "closed"})

HttpAt(c) ==
  /\ said[c] = "idle" => wire[c] = << >> /\ back[c] = << >> /\ acked[c] = {} /\ reading[c] = {}
  /\ said[c] = "waiting" =>
       Counted(c) /\ reading[c] = {} /\ (HttpAsks(c) \/ HttpAnswered(c) \/ HttpRefused(c))
  /\ said[c] = "success" => wire[c] = << >> /\ HttpKeeps(c, size[c])

HttpInv == \A c \in Clients : via[c] = "http" => HttpAt(c)

\* The steps of others.
LEMMA HttpElsewhere ==
  ASSUME IInv, NEW c \in Clients, via[c] = "http", HttpAt(c), Elsewhere(c)
  PROVE  HttpAt(c)'
<1>1. /\ UNCHANGED <<via, size>>
      /\ UNCHANGED <<said[c], reading[c], acked[c], wire[c], back[c]>>
  BY DEF Elsewhere
<1>2. /\ N(c)' = N(c)
      /\ Counted(c) => Counted(c)'
      /\ Acks(c) => Acks(c)'
      /\ HttpRefused(c) => HttpRefused(c)'
  BY <1>1 DEF Counted, N, Acks, HttpRefused, Refused
<1>3. /\ c \notin mixed' => disk'[c] = disk[c] /\ c \notin mixed /\ (c \in opened' => c \in opened)
      /\ http'.file = c /\ c \notin mixed' => http' = http
  BY DEF Elsewhere
<1>4. /\ HttpKeeps(c, N(c)) => HttpKeeps(c, N(c))'
      /\ HttpKeeps(c, N(c) + 1) => HttpKeeps(c, N(c) + 1)'
      /\ HttpKeeps(c, size[c]) => HttpKeeps(c, size[c])'
  <2>1. ASSUME c \notin mixed'
        PROVE  /\ c \notin mixed /\ disk'[c] = disk[c] /\ (c \in opened' => c \in opened)
               /\ http'.file = c => http' = http
    BY <1>3, <2>1
  <2>2. HttpKeeps(c, N(c)) => HttpKeeps(c, N(c))'
    BY <1>1, <1>2, <2>1 DEF HttpKeeps, Stored
  <2>3. HttpKeeps(c, N(c) + 1) => HttpKeeps(c, N(c) + 1)'
    BY <1>1, <1>2, <2>1 DEF HttpKeeps, Stored
  <2>4. HttpKeeps(c, size[c]) => HttpKeeps(c, size[c])'
    BY <1>1, <2>1 DEF HttpKeeps, Stored
  <2> QED BY <2>2, <2>3, <2>4
<1>5. HttpAsks(c) => HttpAsks(c)'
  <2>1. wire'[c] = wire[c] /\ back'[c] = back[c] /\ N(c)' = N(c)
    BY <1>1, <1>2
  <2>2. HttpAsks(c) => wire[c] = <<Chunk(N(c))>> /\ back[c] = << >> /\ HttpKeeps(c, N(c))
    BY DEF HttpAsks
  <2> QED BY <1>4, <2>1, <2>2 DEF HttpAsks, Chunk
<1>6. HttpAnswered(c) => HttpAnswered(c)'
  BY <1>1, <1>2, <1>4 DEF HttpAnswered
<1> QED BY <1>1, <1>2, <1>4, <1>5, <1>6 DEF HttpAt

\* What a restart sends a client.
LEMMA RestartTells ==
  ASSUME IInv, NEW d \in Clients, TcpReturn(d), NEW c \in Clients
  PROVE  /\ said[c] # "waiting" => back'[c] = << >>
         /\ said[c] = "waiting" =>
              /\ back'[c] # << >> /\ Len(back'[c]) \in Nat
              /\ \/ Len(back'[c]) = 1 /\ back'[c][1].kind = "closed"
                 \/ /\ back[c] # << >> /\ Len(back[c]) \in Nat /\ Len(back'[c]) = Len(back[c]) + 1
                    /\ back'[c][Len(back[c]) + 1].kind = "closed"
                    /\ \A k \in 1..Len(back[c]) : back'[c][k] = back[c][k]
<1>1. back[c] \in Seq(Message)
  BY DEF IInv, FormInv
<1>2. PICK arrive \in SUBSET {e \in Clients : back[e] # << >>} :
        back' = [e \in Clients |->
                   IF said[e] # "waiting" THEN << >>
                   ELSE (IF e \in arrive THEN back[e] ELSE << >>) \o <<Msg("closed")>>]
  BY DEF TcpReturn
<1> DEFINE old == IF c \in arrive THEN back[c] ELSE << >>
           e   == Msg("closed")
<1>3. e \in Message /\ e.kind = "closed" /\ old \in Seq(Message) /\ (c \in arrive => back[c] # << >>)
  BY <1>1, MessageForm DEF Msg, Kinds
<1>4. said[c] = "waiting" => back'[c] = old \o <<e>>
  BY <1>2
<1>5. old = << >> \/ (old = back[c] /\ back[c] # << >>)
  BY <1>3
<1>6. said[c] # "waiting" => back'[c] = << >>
  BY <1>2
<1> HIDE DEF old, e
<1>7. /\ old \o <<e>> = Append(old, e) /\ Append(old, e) \in Seq(Message)
      /\ Len(old) \in Nat /\ Len(Append(old, e)) = Len(old) + 1
      /\ \A k \in 1..Len(old) : Append(old, e)[k] = old[k]
      /\ Append(old, e)[Len(old) + 1] = e
  BY <1>3, AppendProperties, AppendIsConcat, LenProperties
<1>8. Append(old, e) # << >>
  BY <1>7, EmptySeq
<1>9. old = << >> => Len(old) = 0
  BY EmptySeq
<1> QED BY <1>3, <1>4, <1>5, <1>6, <1>7, <1>8, <1>9

LEMMA HttpRestart ==
  ASSUME IInv, NEW c \in Clients, via[c] = "http", HttpAt(c), NEW d \in Clients, TcpReturn(d)
  PROVE  HttpAt(c)'
<1>1. /\ UNCHANGED <<via, size, said, reading, acked, mixed>> /\ wire'[c] = << >>
      /\ http'.file = None /\ opened' = {}
      /\ disk'[c] = IF c \in opened THEN << >> ELSE disk[c]
  BY DEF TcpReturn, page, history, NoHttp
<1>2. /\ said[c] # "waiting" => back'[c] = << >>
      /\ said[c] = "waiting" =>
           /\ back'[c] # << >> /\ Len(back'[c]) \in Nat
           /\ \/ Len(back'[c]) = 1 /\ back'[c][1].kind = "closed"
              \/ /\ back[c] # << >> /\ Len(back[c]) \in Nat /\ Len(back'[c]) = Len(back[c]) + 1
                 /\ back'[c][Len(back[c]) + 1].kind = "closed"
                 /\ \A k \in 1..Len(back[c]) : back'[c][k] = back[c][k]
  BY RestartTells
<1>3. ASSUME NEW m, HttpKeeps(c, m)
      PROVE  HttpKeeps(c, m)'
  BY <1>1, <1>3, UploadAssumption DEF HttpKeeps, Stored
<1>4. N(c)' = N(c) /\ (Counted(c) => Counted(c)')
  BY <1>1 DEF N, Counted
<1>5. ASSUME said[c] = "waiting", HttpAsks(c) \/ HttpRefused(c)
      PROVE  HttpRefused(c)'
  <2>1. back[c] = << >> \/ \A k \in 1..Len(back[c]) : back[c][k].kind \in {"failed", "closed"}
    BY <1>5 DEF HttpAsks, HttpRefused, Refused
  <2>2. \A k \in 1..Len(back'[c]) : back'[c][k].kind \in {"failed", "closed"}
    <3>1. CASE Len(back'[c]) = 1 /\ back'[c][1].kind = "closed"
      BY <3>1
    <3>2. CASE ~(Len(back'[c]) = 1 /\ back'[c][1].kind = "closed")
      <4>1. /\ back[c] # << >> /\ Len(back[c]) \in Nat /\ Len(back'[c]) = Len(back[c]) + 1
            /\ back'[c][Len(back[c]) + 1].kind = "closed"
            /\ \A k \in 1..Len(back[c]) : back'[c][k] = back[c][k]
        BY <1>2, <1>5, <3>2
      <4>2. \A k \in 1..Len(back'[c]) : k \in 1..Len(back[c]) \/ k = Len(back[c]) + 1
        BY <4>1
      <4> QED BY <2>1, <4>1, <4>2
    <3> QED BY <3>1, <3>2
  <2> QED BY <1>1, <1>2, <1>5, <2>2 DEF HttpRefused, Refused
<1>6. ASSUME said[c] = "waiting", HttpAnswered(c)
      PROVE  HttpRefused(c)' \/ HttpAnswered(c)'
  <2>1. CASE Len(back'[c]) = 1 /\ back'[c][1].kind = "closed"
    <3>1. \A k \in 1..Len(back'[c]) : back'[c][k].kind \in {"failed", "closed"}
      BY <2>1
    <3> QED BY <1>1, <1>2, <1>6, <3>1 DEF HttpRefused, Refused
  <2>2. CASE ~(Len(back'[c]) = 1 /\ back'[c][1].kind = "closed")
    <3>1. /\ back[c] # << >> /\ Len(back[c]) \in Nat /\ Len(back'[c]) = Len(back[c]) + 1
          /\ back'[c][Len(back[c]) + 1].kind = "closed"
          /\ \A k \in 1..Len(back[c]) : back'[c][k] = back[c][k]
          /\ Len(back[c]) # 0
      <4>1. back[c] \in Seq(Message)
        BY DEF IInv, FormInv
      <4> QED BY <1>2, <1>6, <2>2, <4>1, EmptySeq
    <3>2. Acks(c)'
      BY <1>2, <1>4, <1>6, <3>1 DEF HttpAnswered, Acks, Ack
    <3>3. HttpKeeps(c, N(c) + 1)'
      BY <1>3, <1>4, <1>6 DEF HttpAnswered, HttpKeeps, Stored
    <3> QED BY <1>1, <3>2, <3>3 DEF HttpAnswered
  <2> QED BY <2>1, <2>2
<1>7. said[c] = "success" => HttpKeeps(c, size[c])'
  BY <1>1, <1>3 DEF HttpAt, HttpKeeps, Stored
<1> QED BY <1>1, <1>2, <1>4, <1>5, <1>6, <1>7 DEF HttpAt

\* Counting one more acknowledgement.
LEMMA CountOne ==
  ASSUME IInv, NEW c \in Clients, Counted(c), acked'[c] = acked[c] \cup {N(c)},
         size' = size
  PROVE  /\ N(c) \in Nat /\ N(c)' = N(c) + 1 /\ acked'[c] = 0..N(c)
         /\ acked'[c] = Chunks(c) <=> N(c) + 1 = size[c]
         /\ acked'[c] # Chunks(c) => Counted(c)'
<1> DEFINE n == N(c)
<1>1. n \in Nat /\ size[c] \in Nat
  BY FS_CardinalityType DEF IInv, FormInv, N
<1>2. n < size[c] /\ acked[c] = 0..n - 1 /\ acked'[c] = acked[c] \cup {n}
  BY DEF Counted
<1> HIDE DEF n
<1>3. acked'[c] = 0..n
  BY <1>1, <1>2
<1>4. Cardinality(0..n) = n + 1
  BY <1>1, FS_Interval
<1>5. N(c)' = n + 1
  BY <1>3, <1>4 DEF N
<1>6. acked'[c] = Chunks(c) <=> n + 1 = size[c]
  <2>1. ASSUME 0..n = 0..size[c] - 1
        PROVE  n + 1 = size[c]
    <3>1. n \in 0..size[c] - 1 /\ size[c] - 1 \in 0..size[c] - 1
      BY <1>1, <1>2
    <3>2. size[c] - 1 \in 0..n
      BY <2>1, <3>1
    <3> QED BY <1>1, <3>1, <3>2
  <2>2. ASSUME n + 1 = size[c]
        PROVE  0..n = 0..size[c] - 1
    <3>1. size[c] - 1 = n
      BY <1>1, <2>2
    <3> QED BY <3>1
  <2>3. Chunks(c) = 0..size[c] - 1
    BY DEF Chunks
  <2> QED BY <1>3, <2>1, <2>2, <2>3
<1>7. n + 1 # size[c] => Counted(c)'
  <2>1. acked'[c] = 0..(n + 1) - 1
    <3>1. (n + 1) - 1 = n
      BY <1>1
    <3> QED BY <1>3, <3>1
  <2> QED BY <1>1, <1>2, <1>5, <2>1 DEF Counted
<1> QED BY <1>1, <1>3, <1>5, <1>6, <1>7 DEF n

\* A file to which its next chunk is written.
LEMMA StoredMore ==
  ASSUME NEW c \in Clients, NEW q \in Seq(Pieces), NEW m \in Nat,
         Len(q) = m, \A k \in 1..m : q[k] = Piece(c, k - 1),
         disk'[c] = Append(q, Piece(c, m))
  PROVE  Len(disk'[c]) = m + 1 /\ \A k \in 1..m + 1 : disk'[c][k] = Piece(c, k - 1)
<1>1. Piece(c, m) \in Pieces
  BY PieceForm
<1>2. /\ Len(disk'[c]) = m + 1 /\ disk'[c][m + 1] = Piece(c, m)
      /\ \A k \in 1..m : disk'[c][k] = q[k]
  BY <1>1, AppendProperties
<1>3. \A k \in 1..m + 1 : k \in 1..m \/ k = m + 1
  OBVIOUS
<1>4. \A k \in 1..m + 1 : disk'[c][k] = Piece(c, k - 1)
  BY <1>2, <1>3 DEF Piece
<1> QED BY <1>2, <1>4

\* What a sent message does to an empty connection, and an answer to one that
\* waits for it.
LEMMA SendOne ==
  ASSUME IInv, NEW c \in Clients, NEW m \in Message, Send(c, m), wire[c] = << >>
  PROVE  wire'[c] = IF Ended(c) THEN << >> ELSE <<m>>
<1>1. wire \in [Clients -> Seq(Message)]
  BY DEF IInv, FormInv
<1>2. Append(<< >>, m) = <<m>>
  OBVIOUS
<1> QED BY <1>1, <1>2 DEF Send

LEMMA AnswerOne ==
  ASSUME IInv, NEW c \in Clients, NEW m \in Message, Answer(c, m), back[c] = << >>,
         said[c] = "waiting"
  PROVE  /\ back'[c] = <<m>> /\ back'[c] # << >> /\ back'[c][1] = m /\ Len(back'[c]) = 1
<1>1. back \in [Clients -> Seq(Message)]
  BY DEF IInv, FormInv
<1>2. Append(<< >>, m) = <<m>>
  OBVIOUS
<1>3. back'[c] = <<m>>
  BY <1>1, <1>2 DEF Answer, Reply
<1> QED BY <1>3

LEMMA HttpPageSteps ==
  ASSUME IInv, CardInv, NEW c \in Clients, via[c] = "http", HttpAt(c),
         Start(c) \/ Leave(c) \/ Page(c)
  PROVE  HttpAt(c)'
<1>1. /\ said \in [Clients -> {"idle", "waiting", "success", "failed", "stuck", "left"}]
      /\ reading \in [Clients -> SUBSET Nat]
      /\ acked \in [Clients -> SUBSET Nat] /\ \A d \in Clients : IsFiniteSet(acked[d])
      /\ wire \in [Clients -> Seq(Message)] /\ back \in [Clients -> Seq(Message)]
      /\ size \in [Clients -> Nat \ {0}]
  BY DEF IInv, FormInv
<1>2. UNCHANGED <<via, size, http, disk, opened, mixed>>
  BY DEF Start, Leave, Page, WsLoaded, HearReady, WsHearAck, HearAck, HearDone, HearFailed,
         HearClosed, Hearing, server, card, history
<1>3. CASE Start(c)
  <2>1. /\ said[c] = "idle" /\ said' = [said EXCEPT ![c] = "waiting"] /\ Send(c, Chunk(0))
        /\ UNCHANGED <<reading, acked, back>>
    BY <1>3 DEF Start, Tell
  <2>2. wire[c] = << >> /\ back[c] = << >> /\ acked[c] = {} /\ reading[c] = {}
    BY <2>1 DEF HttpAt
  <2>3. N(c) = 0 /\ N(c)' = 0
    BY <2>1, <2>2, FS_EmptySet DEF N
  <2>4. ~Ended(c)
    BY <2>2 DEF Ended
  <2>5. Chunk(0) \in Message
    BY MessageForm DEF Chunk, Kinds
  <2>6. wire'[c] = <<Chunk(0)>>
    BY <2>1, <2>2, <2>4, <2>5, SendOne
  <2>7. Counted(c)' /\ HttpKeeps(c, N(c))'
    BY <1>1, <1>2, <2>1, <2>2, <2>3 DEF Counted, HttpKeeps
  <2>8. HttpAsks(c)'
    BY <2>1, <2>2, <2>3, <2>6, <2>7 DEF HttpAsks, Chunk
  <2> QED BY <1>1, <2>1, <2>2, <2>7, <2>8 DEF HttpAt
<1>4. CASE Leave(c)
  BY <1>1, <1>4 DEF Leave, Tell, HttpAt
<1>5. ASSUME Page(c), said[c] = "waiting"
      PROVE  HttpAt(c)'
  <2>1. Counted(c) /\ reading[c] = {} /\ (HttpAsks(c) \/ HttpAnswered(c) \/ HttpRefused(c))
    BY <1>5 DEF HttpAt
  <2>2. back[c] # << >> => Head(back[c]) = back[c][1] /\ Len(back[c]) \in Nat \ {0}
    BY <1>1, HeadForm
  <2>3. ASSUME back[c] # << >>
        PROVE  /\ Head(back[c]) = Ack(N(c)) /\ HttpAnswered(c)
               \/ Head(back[c]).kind \in {"failed", "closed"}
    BY <2>1, <2>2, <2>3 DEF HttpAsks, HttpAnswered, HttpRefused, Acks, Refused
  <2>4. CASE HearFailed(c) \/ HearClosed(c)
    <3>1. said'[c] = "failed"
      BY <1>1, <2>4 DEF HearFailed, HearClosed, Tell
    <3> QED BY <3>1 DEF HttpAt
  <2>5. CASE HearAck(c)
    <3>1. /\ back[c] # << >> /\ Head(back[c]).kind = "ack" /\ back' = [back EXCEPT ![c] = Tail(@)]
          /\ acked' = [acked EXCEPT ![c] = @ \cup {Head(back[c]).i}] /\ UNCHANGED reading
      BY <2>5 DEF HearAck, Hearing
    <3>2. Head(back[c]) = Ack(N(c)) /\ HttpAnswered(c)
      BY <2>3, <3>1
    <3>3. acked'[c] = acked[c] \cup {N(c)}
      BY <1>1, <3>1, <3>2 DEF Ack
    <3>4. /\ N(c) \in Nat /\ N(c)' = N(c) + 1
          /\ acked'[c] = Chunks(c) <=> N(c) + 1 = size[c]
          /\ acked'[c] # Chunks(c) => Counted(c)'
      BY <1>2, <2>1, <3>3, CountOne
    <3>5. HttpKeeps(c, N(c) + 1) /\ wire[c] = << >> /\ Acks(c)
      BY <3>2 DEF HttpAnswered
    <3>6. HttpKeeps(c, N(c))'
      BY <1>2, <3>4, <3>5 DEF HttpKeeps, Stored
    <3>7. CASE acked'[c] = Chunks(c)
      <4>1. said'[c] = "success" /\ UNCHANGED wire
        BY <1>1, <2>5, <3>7 DEF HearAck, Tell
      <4>2. HttpKeeps(c, size[c])'
        BY <1>2, <3>4, <3>5, <3>7 DEF HttpKeeps, Stored
      <4> QED BY <3>5, <4>1, <4>2 DEF HttpAt
    <3>8. CASE acked'[c] # Chunks(c)
      <4> DEFINE n == N(c) + 1
      <4>1. Send(c, Chunk(Cardinality(acked'[c]))) /\ said'[c] = "waiting"
        BY <1>5, <2>5, <3>8 DEF HearAck
      <4>2. Cardinality(acked'[c]) = n /\ n \in Nat
        BY <3>4 DEF N
      <4> HIDE DEF n
      <4>3. Chunk(n) \in Message
        BY <4>2, MessageForm DEF Chunk, Kinds
      <4>4. wire'[c] = IF Ended(c) THEN << >> ELSE <<Chunk(n)>>
        BY <3>5, <4>1, <4>2, <4>3, SendOne
      <4>5. /\ Len(back'[c]) = Len(back[c]) - 1 /\ Len(back[c]) \in Nat \ {0}
            /\ back'[c] \in Seq(Message)
            /\ \A k \in 1..Len(back'[c]) : back'[c][k] = back[c][k + 1]
        BY <1>1, <3>1, HeadForm
      <4>6. \A k \in 1..Len(back'[c]) : back'[c][k].kind = "closed"
        <5>1. \A k \in 1..Len(back'[c]) : k + 1 \in 1..Len(back[c]) /\ k + 1 > 1
          BY <4>5
        <5>2. \A k \in 1..Len(back[c]) : k > 1 => back[c][k].kind = "closed"
          BY <3>5 DEF Acks
        <5> QED BY <4>5, <5>1, <5>2
      <4>7. CASE Ended(c)
        <5>1. Len(back'[c]) # 0
          <6>1. PICK k \in 1..Len(back[c]) : back[c][k].kind = "closed"
            BY <1>1, <4>7, LenProperties DEF Ended
          <6>2. k # 1
            BY <3>5, <6>1 DEF Acks, Ack
          <6> QED BY <4>5, <6>1, <6>2
        <5>2. back'[c] # << >>
          BY <5>1, EmptySeq
        <5>3. HttpRefused(c)'
          BY <4>4, <4>6, <4>7, <5>2 DEF HttpRefused, Refused
        <5> QED BY <2>1, <3>1, <3>4, <3>8, <4>1, <5>3 DEF HttpAt
      <4>8. CASE ~Ended(c)
        <5>1. Len(back'[c]) = 0
          <6>1. \A k \in 1..Len(back[c]) : back[c][k].kind # "closed"
            BY <1>1, <4>8, LenProperties DEF Ended
          <6>2. ASSUME Len(back[c]) # 1
                PROVE  FALSE
            <7>1. 2 \in 1..Len(back[c])
              <8>1. Len(back[c]) \in Nat \ {0}
                BY <4>5
              <8>2. \A l \in Nat \ {0} : l # 1 => 2 \in 1..l
                OBVIOUS
              <8> QED BY <6>2, <8>1, <8>2
            <7> QED BY <3>5, <6>1, <7>1 DEF Acks
          <6>3. Len(back[c]) \in Nat \ {0} /\ Len(back'[c]) = Len(back[c]) - 1
            BY <4>5
          <6>4. Len(back[c]) = 1
            BY <6>2, <6>3
          <6> QED BY <6>3, <6>4
        <5>2. back'[c] = << >>
          BY <4>5, <5>1, EmptySeq
        <5>3. N(c)' = n
          BY <3>4 DEF n
        <5>4. HttpAsks(c)'
          BY <3>6, <4>4, <4>8, <5>2, <5>3 DEF HttpAsks, Chunk
        <5> QED BY <2>1, <3>1, <3>4, <3>8, <4>1, <5>4 DEF HttpAt
      <4> QED BY <4>7, <4>8
    <3> QED BY <3>7, <3>8
  <2>6. CASE WsLoaded(c)
    BY <2>1, <2>6 DEF WsLoaded
  <2>7. CASE HearReady(c) \/ HearDone(c)
    <3>1. back[c] # << >> /\ Head(back[c]).kind \in {"ready", "done"}
      BY <2>7 DEF HearReady, HearDone, Hearing
    <3> QED BY <2>3, <3>1 DEF Ack
  <2>8. CASE WsHearAck(c)
    BY <2>8 DEF WsHearAck
  <2> QED BY <1>5, <2>4, <2>5, <2>6, <2>7, <2>8 DEF Page
<1>6. Page(c) => said[c] = "waiting"
  BY DEF Page, WsLoaded, HearReady, WsHearAck, HearAck, HearDone, HearFailed, HearClosed, Hearing
<1> QED BY <1>3, <1>4, <1>5, <1>6

LEMMA HttpServerSteps ==
  ASSUME IInv, CardInv, NEW c \in Clients, via[c] = "http", HttpAt(c), Httpd(c)
  PROVE  HttpAt(c)'
<1>1. /\ wire \in [Clients -> Seq(Message)] /\ back \in [Clients -> Seq(Message)]
      /\ disk \in [Clients -> Seq(Pieces)] /\ size \in [Clients -> Nat \ {0}]
      /\ http \in [file : File, got : Nat, total : Nat]
  BY DEF IInv, FormInv, CardInv, CardForm
<1>2. \/ HttpChunk(c) \/ HttpOpenFails(c) \/ HttpNoMemory(c)
      \/ HttpWriteFails(c) \/ HttpCut(c)
  BY DEF Httpd, UploadStart, WsChunk, WsChunkFails, WsComplete, Taking
<1>3. /\ wire[c] # << >> /\ wire' = [wire EXCEPT ![c] = Tail(@)]
      /\ UNCHANGED <<via, size, said, reading, acked>>
  BY <1>2 DEF HttpChunk, HttpOpenFails, HttpWriteFails, HttpShort, HttpCut, HttpNoMemory, Taking, page
<1>4. CASE said[c] # "waiting"
  BY <1>3, <1>4 DEF HttpAt
<1>5. CASE said[c] = "waiting"
  <2>1. Counted(c) /\ reading[c] = {} /\ HttpAsks(c)
    BY <1>3, <1>5 DEF HttpAt, HttpAnswered, HttpRefused
  <2>2. wire[c] = <<Chunk(N(c))>> /\ back[c] = << >> /\ HttpKeeps(c, N(c))
    BY <2>1 DEF HttpAsks
  <2> DEFINE n == N(c)
             i == Head(wire[c]).i
             h == HttpOpened(c, i)
  <2>3. /\ Head(wire[c]) = Chunk(n) /\ Tail(wire[c]) = << >> /\ wire'[c] = << >>
        /\ Head(wire[c]).kind = "chunk" /\ i = n /\ n \in Nat /\ n < size[c]
    <3>1. Head(wire[c]) = Chunk(n) /\ Tail(wire[c]) = << >>
      BY <2>2
    <3>2. n \in Nat
      BY FS_CardinalityType DEF N, IInv, FormInv
    <3> QED BY <1>1, <1>3, <2>1, <3>1, <3>2 DEF Chunk, Counted
  <2>4. N(c)' = N(c) /\ Counted(c)' /\ said'[c] = "waiting" /\ reading'[c] = {}
    BY <1>3, <1>5, <2>1 DEF N, Counted
  <2>5. CASE Answer(c, Msg("failed"))
    <3>1. Msg("failed") \in Message /\ Msg("failed").kind = "failed"
      BY MessageForm DEF Msg, Kinds
    <3>2. /\ back'[c] # << >> /\ back'[c][1] = Msg("failed") /\ Len(back'[c]) = 1
      BY <1>5, <2>2, <2>5, <3>1, AnswerOne
    <3>3. HttpRefused(c)'
      BY <2>3, <3>1, <3>2 DEF HttpRefused, Refused
    <3> QED BY <2>4, <3>3 DEF HttpAt
  <2>6. CASE HttpChunk(c) /\ ~Answer(c, Msg("failed"))
    <3> DEFINE full == h.got + 1 >= h.total
    <3>1. /\ h.file # None /\ HttpWrite(c, i, h, Piece(c, i), full)
          /\ http' = [h EXCEPT !.got = @ + 1, !.file = IF full THEN None ELSE @]
          /\ Answer(c, Ack(i)) /\ mixed' = mixed \cup Meets(c, h.file)
      BY <2>6 DEF HttpChunk
    <3>2. Acks(c)'
      <4>1. Ack(i) \in Message
        BY <2>3, MessageForm DEF Ack, Kinds
      <4>2. back'[c] # << >> /\ back'[c][1] = Ack(i) /\ Len(back'[c]) = 1
        BY <1>5, <2>2, <3>1, <4>1, AnswerOne
      <4>3. \A k \in 1..Len(back'[c]) : ~(k > 1)
        BY <4>2
      <4> QED BY <2>3, <2>4, <4>2, <4>3 DEF Acks, Ack
    <3>3. HttpKeeps(c, n + 1)'
      <4> DEFINE more == Len(disk'[c]) = n + 1 /\ \A k \in 1..n + 1 : disk'[c][k] = Piece(c, k - 1)
      <4> SUFFICES ASSUME c \notin mixed'
          PROVE  /\ http'.file = c => more /\ http'.got = n + 1 /\ http'.total = size[c]
                                      /\ n + 1 < size[c]
                 /\ n + 1 = size[c] => more /\ c \notin opened'
        BY <1>3, <2>4 DEF HttpKeeps, Stored
      <4>1. c \notin mixed /\ h.file = c
        BY <3>1 DEF Meets
      <4> DEFINE q == IF n = 0 THEN << >> ELSE disk[c]
      <4>2. /\ h.got = n /\ h.total = size[c]
            /\ q \in Seq(Pieces) /\ Len(q) = n /\ \A k \in 1..n : q[k] = Piece(c, k - 1)
        <5>1. CASE n = 0
          <6>1. h = [file |-> c, got |-> 0, total |-> size[c]]
            BY <2>3, <5>1 DEF HttpOpened
          <6>2. q = << >> /\ << >> \in Seq(Pieces) /\ Len(<< >>) = 0
            BY <5>1, EmptySeq
          <6>3. \A k \in 1..n : FALSE
            BY <5>1
          <6> QED BY <5>1, <6>1, <6>2, <6>3
        <5>2. CASE n # 0
          <6>1. h = http
            BY <2>3, <5>2 DEF HttpOpened
          <6>2. n > 0 /\ n = N(c)
            BY <2>3, <5>2
          <6>3. Stored(c, n) /\ http.got = n /\ http.total = size[c]
            BY <2>2, <4>1, <6>1, <6>2 DEF HttpKeeps
          <6> QED BY <1>1, <5>2, <6>1, <6>3 DEF Stored
        <5> QED BY <5>1, <5>2
      <4>3. more
        <5>1. disk'[c] = Append(IF i = 0 THEN << >> ELSE disk[c], Piece(c, i))
          BY <1>1, <3>1, <4>1 DEF HttpWrite
        <5>2. disk'[c] = Append(q, Piece(c, n))
          BY <2>3, <5>1
        <5> HIDE DEF q, n
        <5> QED BY <2>3, <4>2, <5>2, StoredMore
      <4> HIDE DEF more
      <4>4. h \in [file : File, got : Nat, total : Nat] /\ c # None
        BY <1>1, <2>3, UploadAssumption DEF HttpOpened, File
      <4> HIDE DEF h, n, i
      <4>5. full <=> n + 1 = size[c]
        BY <1>1, <2>3, <4>2
      <4>6. /\ http'.got = n + 1 /\ http'.total = size[c]
            /\ http'.file = IF full THEN None ELSE c
        BY <3>1, <4>1, <4>2, <4>4
      <4>7. full => c \notin opened'
        BY <3>1, <4>1 DEF HttpWrite
      <4>8. http'.file = c => n + 1 < size[c]
        BY <1>1, <2>3, <4>4, <4>5, <4>6
      <4> QED BY <4>3, <4>5, <4>6, <4>7, <4>8
    <3>4. HttpAnswered(c)'
      BY <2>3, <2>4, <3>2, <3>3 DEF HttpAnswered
    <3> QED BY <2>4, <3>4 DEF HttpAt
  <2>7. CASE HttpCut(c)
    BY <2>3, <2>7 DEF HttpCut, Taking
  <2> QED BY <1>2, <2>5, <2>6, <2>7 DEF HttpOpenFails, HttpNoMemory, HttpWriteFails
<1> QED BY <1>4, <1>5

\* Nobody changes the way it uploads.
LEMMA ViaSame ==
  ASSUME IInv, CardInv, NEW d \in Clients,
         Start(d) \/ Leave(d) \/ Page(d) \/ Httpd(d) \/ Tcp(d)
  PROVE  UNCHANGED <<via, size>>
<1>1. CASE Start(d) \/ Leave(d) \/ Page(d)
  BY <1>1 DEF Start, Leave, Page, WsLoaded, HearReady, WsHearAck, HearAck, HearDone,
              HearFailed, HearClosed, Hearing
<1>2. CASE Httpd(d)
  <2>1. CASE UploadStart(d) \/ WsChunk(d) \/ WsChunkFails(d) \/ WsComplete(d)
    BY <2>1 DEF UploadStart, WsChunk, WsChunkFails, WsComplete, Taking
  <2>2. CASE HttpChunk(d) \/ HttpOpenFails(d) \/ HttpNoMemory(d) \/ HttpWriteFails(d) \/ HttpCut(d)
    BY <2>2 DEF HttpChunk, HttpOpenFails, HttpWriteFails, HttpShort, HttpCut, HttpNoMemory, Taking
  <2> QED BY <1>2, <2>1, <2>2 DEF Httpd
<1>3. CASE Tcp(d)
  BY <1>3, TaskForm DEF TcpReturn
<1> QED BY <1>1, <1>2, <1>3

LEMMA HttpNext ==
  ASSUME IInv, CardInv, HttpInv, [Next]_vars
  PROVE  HttpInv'
<1>1. CASE UNCHANGED vars
  <2>1. UNCHANGED <<via, size, said, reading, acked, wire, back, http, disk, opened, mixed>>
    BY <1>1 DEF vars, page, server, card, history
  <2> QED BY <2>1 DEF HttpInv, HttpAt, HttpAsks, HttpAnswered, HttpRefused, Counted, N, Acks, Refused,
                      HttpKeeps, Stored, Chunk, Ack
<1>2. ASSUME NEW d \in Clients, Start(d) \/ Leave(d) \/ Page(d) \/ Httpd(d) \/ Tcp(d)
      PROVE  HttpInv'
  <2>1. SUFFICES ASSUME NEW c \in Clients, via'[c] = "http"
        PROVE  HttpAt(c)'
    BY DEF HttpInv
  <2>2. via[c] = "http" /\ HttpAt(c)
    BY <1>2, <2>1, ViaSame DEF HttpInv
  <2>3. CASE TcpReturn(d)
    BY <2>2, <2>3, HttpRestart
  <2>4. CASE ~TcpReturn(d) /\ c # d
    <3>1. Elsewhere(c)
      BY <1>2, <2>4, PageElsewhere, HttpdElsewhere, TcpElsewhere
    <3> QED BY <2>2, <3>1, HttpElsewhere
  <2>5. CASE ~TcpReturn(d) /\ c = d
    <3>1. ~Tcp(d)
      BY <2>2, <2>5, TaskForm
    <3> QED BY <1>2, <2>2, <2>5, <3>1, HttpPageSteps, HttpServerSteps
  <2> QED BY <2>3, <2>4, <2>5
<1> QED BY <1>1, <1>2 DEF Next

-----------------------------------------------------------------------------
(* The TCP clients *)

\* What m acknowledged chunks of a TCP client mean: as long as a slot holds its
\* file they are all in it, and the slot has counted them.
TcpKeeps(c, m) ==
  c \notin mixed \cup shared =>
    /\ Used(c) \/ m = size[c] => Stored(c, m)
    /\ pc[c] # "mark" =>
         \A s \in Slots : slots[s].file = c =>
           /\ slots[s].total = size[c]
           /\ slots[s].got >= IF pc[c] = "count" THEN m - 1 ELSE m
    /\ m = size[c] /\ pc[c] # "count" => ~Used(c)

TcpAsks(c) ==
  /\ wire[c] = <<Chunk(N(c))>> /\ back[c] = << >> /\ TcpKeeps(c, N(c))
  /\ pc[c] \in {"header", "open", "mark", "body", "more"}
  /\ pc[c] \in {"open", "mark"} => N(c) = 0

TcpServed(c) ==
  /\ wire[c] = << >> /\ back[c] = << >>
  /\ \/ pc[c] = "write" /\ TcpKeeps(c, N(c))
     \/ pc[c] \in {"count", "ack"} /\ TcpKeeps(c, N(c) + 1)

Closes(c) == pc[c] \in {"more", "header", "cleanup", "return", "none"}

TcpAnswered(c) ==
  /\ wire[c] = << >> /\ Acks(c) /\ TcpKeeps(c, N(c) + 1) /\ Closes(c)
  /\ pc[c] \in {"return", "none"} <=> Len(back[c]) > 1

TcpRefused(c) ==
  \/ pc[c] = "cleanup" /\ back[c] = << >>
  \/ pc[c] \in {"return", "none"} /\ Refused(c, {"closed"})

TcpAt(c) ==
  /\ said[c] = "idle" => acked[c] = {} /\ back[c] = << >>
  /\ said[c] = "waiting" =>
       Counted(c) /\ (TcpAsks(c) \/ TcpServed(c) \/ TcpAnswered(c) \/ TcpRefused(c))
  /\ said[c] = "success" =>
       /\ \A k \in 1..Len(wire[c]) : wire[c][k].kind = "closed"
       /\ Closes(c) /\ TcpKeeps(c, size[c])

TcpInv == \A c \in Clients : via[c] = "tcp" => TcpAt(c)

\* A step that leaves the file alone and loses no count of its chunks.
Milder(c) ==
  c \notin mixed' \cup shared' =>
    /\ c \notin mixed \cup shared /\ disk'[c] = disk[c]
    /\ \A s \in Slots : slots'[s].file = c =>
         /\ slots[s].file = c
         /\ slots'[s].total = slots[s].total /\ slots'[s].got >= slots[s].got

LEMMA TcpKept ==
  ASSUME IInv, IInv', NEW c \in Clients, Milder(c), UNCHANGED size, acked'[c] = acked[c],
         pc'[c] = pc[c] \/ (pc[c] \notin {"mark", "count"} /\ pc'[c] \notin {"mark", "count"})
  PROVE  /\ N(c)' = N(c) /\ (Counted(c) => Counted(c)')
         /\ TcpKeeps(c, N(c)) => TcpKeeps(c, N(c))'
         /\ TcpKeeps(c, N(c) + 1) => TcpKeeps(c, N(c) + 1)'
         /\ TcpKeeps(c, size[c]) => TcpKeeps(c, size[c])'
<1>1. N(c)' = N(c) /\ (Counted(c) => Counted(c)')
  BY DEF N, Counted
<1>2. slots \in [Slots -> SlotType] /\ slots' \in [Slots -> SlotType]
      /\ N(c) \in Nat /\ size[c] \in Nat
  BY FS_CardinalityType DEF IInv, FormInv, N
<1>3. ASSUME c \notin mixed' \cup shared'
      PROVE  /\ c \notin mixed \cup shared /\ disk'[c] = disk[c]
             /\ Used(c)' => Used(c)
             /\ \A s \in Slots : slots'[s].file = c =>
                  /\ slots[s].file = c /\ slots'[s].total = slots[s].total
                  /\ \A k \in Int : slots[s].got >= k => slots'[s].got >= k
  <2>1. \A s \in Slots : slots[s].got \in Nat /\ slots'[s].got \in Nat
    BY <1>2 DEF SlotType
  <2> QED BY <1>3, <2>1 DEF Milder, Used
<1>4. ASSUME TcpKeeps(c, N(c))
      PROVE  TcpKeeps(c, N(c))'
  <2> DEFINE n == N(c)
  <2>1. n \in Nat /\ n - 1 \in Int
    BY <1>2
  <2> SUFFICES ASSUME c \notin mixed' \cup shared'
      PROVE  /\ Used(c)' \/ n = size[c] => Len(disk'[c]) = n /\ \A k \in 1..n : disk'[c][k] = Piece(c, k - 1)
             /\ pc'[c] # "mark" => \A s \in Slots : slots'[s].file = c =>
                  /\ slots'[s].total = size[c]
                  /\ slots'[s].got >= IF pc'[c] = "count" THEN n - 1 ELSE n
             /\ n = size[c] /\ pc'[c] # "count" => ~Used(c)'
    BY <1>1 DEF TcpKeeps, Stored
  <2>2. /\ Used(c) \/ n = size[c] => Len(disk[c]) = n /\ \A k \in 1..n : disk[c][k] = Piece(c, k - 1)
        /\ pc[c] # "mark" => \A s \in Slots : slots[s].file = c =>
             /\ slots[s].total = size[c]
             /\ slots[s].got >= IF pc[c] = "count" THEN n - 1 ELSE n
        /\ n = size[c] /\ pc[c] # "count" => ~Used(c)
    BY <1>3, <1>4 DEF TcpKeeps, Stored
  <2> HIDE DEF n
  <2> QED BY <1>3, <2>1, <2>2
<1>5. ASSUME TcpKeeps(c, N(c) + 1)
      PROVE  TcpKeeps(c, N(c) + 1)'
  <2> DEFINE n == N(c) + 1
  <2>1. n \in Nat /\ n - 1 \in Int
    BY <1>2
  <2> SUFFICES ASSUME c \notin mixed' \cup shared'
      PROVE  /\ Used(c)' \/ n = size[c] => Len(disk'[c]) = n /\ \A k \in 1..n : disk'[c][k] = Piece(c, k - 1)
             /\ pc'[c] # "mark" => \A s \in Slots : slots'[s].file = c =>
                  /\ slots'[s].total = size[c]
                  /\ slots'[s].got >= IF pc'[c] = "count" THEN n - 1 ELSE n
             /\ n = size[c] /\ pc'[c] # "count" => ~Used(c)'
    BY <1>1 DEF TcpKeeps, Stored
  <2>2. /\ Used(c) \/ n = size[c] => Len(disk[c]) = n /\ \A k \in 1..n : disk[c][k] = Piece(c, k - 1)
        /\ pc[c] # "mark" => \A s \in Slots : slots[s].file = c =>
             /\ slots[s].total = size[c]
             /\ slots[s].got >= IF pc[c] = "count" THEN n - 1 ELSE n
        /\ n = size[c] /\ pc[c] # "count" => ~Used(c)
    BY <1>3, <1>5 DEF TcpKeeps, Stored
  <2> HIDE DEF n
  <2> QED BY <1>3, <2>1, <2>2
<1>6. ASSUME TcpKeeps(c, size[c])
      PROVE  TcpKeeps(c, size[c])'
  <2> DEFINE n == size[c]
  <2>1. n \in Nat /\ n - 1 \in Int
    BY <1>2
  <2> SUFFICES ASSUME c \notin mixed' \cup shared'
      PROVE  /\ Len(disk'[c]) = n /\ \A k \in 1..n : disk'[c][k] = Piece(c, k - 1)
             /\ pc'[c] # "mark" => \A s \in Slots : slots'[s].file = c =>
                  /\ slots'[s].total = size[c]
                  /\ slots'[s].got >= IF pc'[c] = "count" THEN n - 1 ELSE n
             /\ pc'[c] # "count" => ~Used(c)'
    BY <1>1 DEF TcpKeeps, Stored
  <2>2. /\ Len(disk[c]) = n /\ \A k \in 1..n : disk[c][k] = Piece(c, k - 1)
        /\ pc[c] # "mark" => \A s \in Slots : slots[s].file = c =>
             /\ slots[s].total = size[c]
             /\ slots[s].got >= IF pc[c] = "count" THEN n - 1 ELSE n
        /\ pc[c] # "count" => ~Used(c)
    BY <1>3, <1>6 DEF TcpKeeps, Stored
  <2> HIDE DEF n
  <2> QED BY <1>3, <2>1, <2>2
<1> QED BY <1>1, <1>4, <1>5, <1>6

\* The steps of others.
LEMMA TcpAside ==
  ASSUME IInv, IInv', NEW c \in Clients, via[c] = "tcp", TcpAt(c), Elsewhere(c)
  PROVE  TcpAt(c)'
<1>1. /\ UNCHANGED <<via, size>>
      /\ UNCHANGED <<said[c], acked[c], wire[c], back[c], pc[c]>>
  BY DEF Elsewhere
<1>2. Milder(c)
  <2>1. c \notin mixed' => disk'[c] = disk[c]
    BY DEF Elsewhere
  <2>2. mixed \subseteq mixed' /\ shared \subseteq shared'
    BY DEF Elsewhere
  <2>3. \A s \in Slots : slots'[s].file = c =>
          /\ slots[s].file = c
          /\ \/ c \in shared'
             \/ slots'[s].total = slots[s].total /\ slots'[s].got >= slots[s].got
    BY DEF Elsewhere
  <2> QED BY <2>1, <2>2, <2>3 DEF Milder
<1>3. /\ N(c)' = N(c) /\ (Counted(c) => Counted(c)')
      /\ TcpKeeps(c, N(c)) => TcpKeeps(c, N(c))'
      /\ TcpKeeps(c, N(c) + 1) => TcpKeeps(c, N(c) + 1)'
      /\ TcpKeeps(c, size[c]) => TcpKeeps(c, size[c])'
  BY <1>1, <1>2, TcpKept
<1>4. wire'[c] = wire[c] /\ back'[c] = back[c] /\ pc'[c] = pc[c] /\ said'[c] = said[c]
      /\ acked'[c] = acked[c]
  BY <1>1
<1>5. TcpAsks(c) => TcpAsks(c)'
  BY <1>3, <1>4 DEF TcpAsks, Chunk
<1>6. TcpServed(c) => TcpServed(c)'
  BY <1>3, <1>4 DEF TcpServed
<1>7. TcpAnswered(c) => TcpAnswered(c)'
  BY <1>3, <1>4 DEF TcpAnswered, Acks, Ack, Closes
<1>8. TcpRefused(c) => TcpRefused(c)'
  BY <1>4 DEF TcpRefused, Refused
<1> QED BY <1>3, <1>4, <1>5, <1>6, <1>7, <1>8 DEF TcpAt, Closes

LEMMA TcpRestart ==
  ASSUME IInv, IInv', CardInv, NEW c \in Clients, via[c] = "tcp", TcpAt(c),
         NEW d \in Clients, TcpReturn(d)
  PROVE  TcpAt(c)'
<1>1. /\ UNCHANGED <<via, size, said, acked, mixed, shared>> /\ wire'[c] = << >>
      /\ pc'[c] = "none" /\ slots' = [s \in Slots |-> FreeSlot]
      /\ disk'[c] = IF c \in opened THEN << >> ELSE disk[c]
  BY DEF TcpReturn, page, history
<1>2. /\ said[c] # "waiting" => back'[c] = << >>
      /\ said[c] = "waiting" =>
           /\ back'[c] # << >> /\ Len(back'[c]) \in Nat
           /\ \/ Len(back'[c]) = 1 /\ back'[c][1].kind = "closed"
              \/ /\ back[c] # << >> /\ Len(back[c]) \in Nat /\ Len(back'[c]) = Len(back[c]) + 1
                 /\ back'[c][Len(back[c]) + 1].kind = "closed"
                 /\ \A k \in 1..Len(back[c]) : back'[c][k] = back[c][k]
  BY RestartTells
<1>3. N(c)' = N(c) /\ (Counted(c) => Counted(c)')
  BY <1>1 DEF N, Counted
<1>4. ~Used(c)' /\ \A s \in Slots : slots'[s].file # c
  BY <1>1, UploadAssumption DEF Used, FreeSlot
<1>5. c \in opened /\ c \notin shared => Used(c)
  BY DEF CardInv, OpenHeld
<1>6. ASSUME pc[c] # "count"
      PROVE  /\ TcpKeeps(c, N(c) + 1) => TcpKeeps(c, N(c) + 1)'
             /\ TcpKeeps(c, size[c]) => TcpKeeps(c, size[c])'
  BY <1>1, <1>3, <1>4, <1>5, <1>6 DEF TcpKeeps, Stored
<1>7. ASSUME said[c] = "waiting", TcpAsks(c) \/ TcpServed(c) \/ TcpRefused(c)
      PROVE  TcpRefused(c)'
  <2>1. back[c] = << >> \/ \A k \in 1..Len(back[c]) : back[c][k].kind = "closed"
    BY <1>7 DEF TcpAsks, TcpServed, TcpRefused, Refused
  <2>2. \A k \in 1..Len(back'[c]) : back'[c][k].kind = "closed"
    <3>1. CASE Len(back'[c]) = 1 /\ back'[c][1].kind = "closed"
      BY <3>1
    <3>2. CASE ~(Len(back'[c]) = 1 /\ back'[c][1].kind = "closed")
      <4>1. /\ back[c] # << >> /\ Len(back[c]) \in Nat /\ Len(back'[c]) = Len(back[c]) + 1
            /\ back'[c][Len(back[c]) + 1].kind = "closed"
            /\ \A k \in 1..Len(back[c]) : back'[c][k] = back[c][k]
        BY <1>2, <1>7, <3>2
      <4>2. \A k \in 1..Len(back'[c]) : k \in 1..Len(back[c]) \/ k = Len(back[c]) + 1
        BY <4>1
      <4> QED BY <2>1, <4>1, <4>2
    <3> QED BY <3>1, <3>2
  <2> QED BY <1>1, <1>2, <1>7, <2>2 DEF TcpRefused, Refused
<1>8. ASSUME said[c] = "waiting", TcpAnswered(c)
      PROVE  TcpRefused(c)' \/ TcpAnswered(c)'
  <2>1. CASE Len(back'[c]) = 1 /\ back'[c][1].kind = "closed"
    <3>1. \A k \in 1..Len(back'[c]) : back'[c][k].kind = "closed"
      BY <2>1
    <3> QED BY <1>1, <1>2, <1>8, <3>1 DEF TcpRefused, Refused
  <2>2. CASE ~(Len(back'[c]) = 1 /\ back'[c][1].kind = "closed")
    <3>1. /\ back[c] # << >> /\ Len(back[c]) \in Nat /\ Len(back'[c]) = Len(back[c]) + 1
          /\ back'[c][Len(back[c]) + 1].kind = "closed"
          /\ \A k \in 1..Len(back[c]) : back'[c][k] = back[c][k]
          /\ Len(back[c]) # 0
      <4>1. back[c] \in Seq(Message)
        BY DEF IInv, FormInv
      <4> QED BY <1>2, <1>8, <2>2, <4>1, EmptySeq
    <3>2. Acks(c)'
      <4>1. back[c][1] = Ack(N(c)) /\ \A k \in 1..Len(back[c]) : k > 1 => back[c][k].kind = "closed"
        BY <1>8 DEF TcpAnswered, Acks
      <4>2. back'[c] # << >> /\ back'[c][1] = Ack(N(c))'
        BY <1>3, <3>1, <4>1 DEF Ack
      <4>3. \A k \in 1..Len(back'[c]) : k > 1 => back'[c][k].kind = "closed"
        BY <3>1, <4>1
      <4> QED BY <4>2, <4>3 DEF Acks
    <3>3. TcpKeeps(c, N(c) + 1)'
      BY <1>6, <1>8 DEF TcpAnswered, Closes
    <3>4. Len(back'[c]) > 1
      BY <3>1
    <3> QED BY <1>1, <3>2, <3>3, <3>4 DEF TcpAnswered, Closes
  <2> QED BY <2>1, <2>2
<1>9. ASSUME said[c] = "success"
      PROVE  /\ \A k \in 1..Len(wire'[c]) : wire'[c][k].kind = "closed"
             /\ Closes(c)' /\ TcpKeeps(c, size[c])'
  <2>1. Closes(c) /\ TcpKeeps(c, size[c])
    BY <1>9 DEF TcpAt
  <2>2. Len(wire'[c]) = 0
    BY <1>1, EmptySeq
  <2>3. \A k \in 1..0 : FALSE
    OBVIOUS
  <2> QED BY <1>1, <1>6, <2>1, <2>2, <2>3 DEF Closes
<1> QED BY <1>1, <1>2, <1>3, <1>7, <1>8, <1>9 DEF TcpAt

LEMMA TcpPageSteps ==
  ASSUME IInv, IInv', CardInv, NEW c \in Clients, via[c] = "tcp", TcpAt(c),
         Start(c) \/ Leave(c) \/ Page(c)
  PROVE  TcpAt(c)'
<1>1. /\ said \in [Clients -> {"idle", "waiting", "success", "failed", "stuck", "left"}]
      /\ acked \in [Clients -> SUBSET Nat] /\ \A d \in Clients : IsFiniteSet(acked[d])
      /\ wire \in [Clients -> Seq(Message)] /\ back \in [Clients -> Seq(Message)]
      /\ size \in [Clients -> Nat \ {0}] /\ pc \in [Clients -> Places]
      /\ slots \in [Slots -> SlotType]
  BY DEF IInv, FormInv
<1>2. UNCHANGED <<via, size, slots, disk, mixed, shared>> /\ reading[c] = {}
  <2>1. UNCHANGED <<via, size, slots, disk, mixed, shared>>
    BY DEF Start, Leave, Page, WsLoaded, HearReady, WsHearAck, HearAck, HearDone, HearFailed,
           HearClosed, Hearing, server, card, history
  <2> QED BY <2>1, WireAt DEF IInv
<1>3. CASE Start(c)
  <2>1. /\ said[c] = "idle" /\ said' = [said EXCEPT ![c] = "waiting"] /\ Send(c, Chunk(0))
        /\ UNCHANGED <<acked, back>> /\ pc' = [pc EXCEPT ![c] = "header"]
    BY <1>3 DEF Start, Tell
  <2>2. wire[c] = << >> /\ back[c] = << >> /\ acked[c] = {} /\ pc[c] = "none"
    BY <2>1, WireAt DEF IInv, TcpAt
  <2>3. N(c) = 0 /\ N(c)' = 0
    BY <2>1, <2>2, FS_EmptySet DEF N
  <2>4. ~Ended(c)
    BY <2>2 DEF Ended
  <2>5. Chunk(0) \in Message
    BY MessageForm DEF Chunk, Kinds
  <2>6. wire'[c] = <<Chunk(0)>>
    BY <2>1, <2>2, <2>4, <2>5, SendOne
  <2>7. ~Used(c)' /\ \A s \in Slots : slots'[s].file # c
    BY <1>2, <2>2 DEF IInv, OnceInv, OnceAt, Used
  <2>8. Counted(c)' /\ TcpKeeps(c, N(c))'
    BY <1>1, <1>2, <2>1, <2>2, <2>3, <2>7 DEF Counted, TcpKeeps
  <2>9. TcpAsks(c)'
    BY <1>1, <2>1, <2>2, <2>3, <2>6, <2>8 DEF TcpAsks, Chunk
  <2> QED BY <1>1, <2>1, <2>8, <2>9 DEF TcpAt
<1>4. CASE Leave(c)
  BY <1>1, <1>4 DEF Leave, Tell, TcpAt
<1>5. ASSUME Page(c), said[c] = "waiting"
      PROVE  TcpAt(c)'
  <2>1. Counted(c) /\ (TcpAsks(c) \/ TcpServed(c) \/ TcpAnswered(c) \/ TcpRefused(c))
    BY <1>5 DEF TcpAt
  <2>2. back[c] # << >> => Head(back[c]) = back[c][1] /\ Len(back[c]) \in Nat \ {0}
    BY <1>1, HeadForm
  <2>3. ASSUME back[c] # << >>
        PROVE  (Head(back[c]) = Ack(N(c)) /\ TcpAnswered(c)) \/ Head(back[c]).kind = "closed"
    BY <2>1, <2>2, <2>3 DEF TcpAsks, TcpServed, TcpAnswered, TcpRefused, Acks, Refused
  <2>4. CASE HearFailed(c) \/ HearClosed(c)
    <3>1. said'[c] = "failed"
      BY <1>1, <2>4 DEF HearFailed, HearClosed, Tell
    <3> QED BY <3>1 DEF TcpAt
  <2>5. CASE HearAck(c)
    <3>1. /\ back[c] # << >> /\ Head(back[c]).kind = "ack" /\ back' = [back EXCEPT ![c] = Tail(@)]
          /\ acked' = [acked EXCEPT ![c] = @ \cup {Head(back[c]).i}] /\ pc' = pc
      BY <2>5 DEF HearAck, Hearing, server
    <3>2. Head(back[c]) = Ack(N(c)) /\ TcpAnswered(c)
      BY <2>3, <3>1
    <3>3. acked'[c] = acked[c] \cup {N(c)}
      BY <1>1, <3>1, <3>2 DEF Ack
    <3>4. /\ N(c) \in Nat /\ N(c)' = N(c) + 1
          /\ acked'[c] = Chunks(c) <=> N(c) + 1 = size[c]
          /\ acked'[c] # Chunks(c) => Counted(c)'
      BY <1>2, <2>1, <3>3, CountOne
    <3>5. /\ TcpKeeps(c, N(c) + 1) /\ wire[c] = << >> /\ Acks(c) /\ Closes(c)
          /\ pc[c] \in {"return", "none"} <=> Len(back[c]) > 1
      BY <3>2 DEF TcpAnswered
    <3>6. TcpKeeps(c, N(c))'
      BY <1>2, <3>1, <3>4, <3>5 DEF TcpKeeps, Stored, Used
    <3>7. CASE acked'[c] = Chunks(c)
      <4>1. said'[c] = "success" /\ Send(c, Msg("closed"))
        BY <1>1, <2>5, <3>7 DEF HearAck, Tell
      <4>2. TcpKeeps(c, size[c])'
        BY <1>2, <3>1, <3>4, <3>5, <3>7 DEF TcpKeeps, Stored, Used
      <4> DEFINE e == Msg("closed")
      <4>3. e \in Message /\ e.kind = "closed"
        BY MessageForm DEF Msg, Kinds
      <4> HIDE DEF e
      <4>4. wire'[c] = << >> \/ wire'[c] = <<e>>
        BY <3>5, <4>1, <4>3, SendOne DEF e
      <4>5. \A k \in 1..Len(wire'[c]) : wire'[c][k].kind = "closed"
        BY <4>3, <4>4
      <4> QED BY <3>1, <3>5, <4>1, <4>2, <4>5 DEF TcpAt, Closes
    <3>8. CASE acked'[c] # Chunks(c)
      <4> DEFINE n == N(c) + 1
      <4>1. Send(c, Chunk(Cardinality(acked'[c]))) /\ said'[c] = "waiting"
        BY <1>5, <2>5, <3>8 DEF HearAck
      <4>2. Cardinality(acked'[c]) = n /\ n \in Nat
        BY <3>4 DEF N
      <4> HIDE DEF n
      <4>3. Chunk(n) \in Message
        BY <4>2, MessageForm DEF Chunk, Kinds
      <4>4. wire'[c] = IF Ended(c) THEN << >> ELSE <<Chunk(n)>>
        BY <3>5, <4>1, <4>2, <4>3, SendOne
      <4>5. /\ Len(back'[c]) = Len(back[c]) - 1 /\ Len(back[c]) \in Nat \ {0}
            /\ back'[c] \in Seq(Message)
            /\ \A k \in 1..Len(back'[c]) : back'[c][k] = back[c][k + 1]
        BY <1>1, <3>1, HeadForm
      <4>6. \A k \in 1..Len(back'[c]) : back'[c][k].kind = "closed"
        <5>1. \A k \in 1..Len(back'[c]) : k + 1 \in 1..Len(back[c]) /\ k + 1 > 1
          BY <4>5
        <5>2. \A k \in 1..Len(back[c]) : k > 1 => back[c][k].kind = "closed"
          BY <3>5 DEF Acks
        <5> QED BY <4>5, <5>1, <5>2
      <4>7. CASE Len(back[c]) > 1
        <5>1. Len(back'[c]) # 0
          BY <4>5, <4>7
        <5>2. back'[c] # << >>
          BY <5>1, EmptySeq
        <5>3. TcpRefused(c)'
          BY <3>1, <3>5, <4>6, <4>7, <5>2 DEF TcpRefused, Refused
        <5> QED BY <3>4, <3>8, <4>1, <5>3 DEF TcpAt
      <4>8. CASE ~(Len(back[c]) > 1)
        <5>1. Len(back[c]) = 1 /\ Len(back'[c]) = 0
          <6>1. \A l \in Nat \ {0} : ~(l > 1) => l = 1 /\ l - 1 = 0
            OBVIOUS
          <6> QED BY <4>5, <4>8, <6>1
        <5>2. back'[c] = << >>
          BY <4>5, <5>1, EmptySeq
        <5>3. ~Ended(c)
          <6>1. DOMAIN back[c] = {1}
            <7>1. DOMAIN back[c] = 1..Len(back[c])
              BY <1>1, LenProperties
            <7> QED BY <5>1, <7>1
          <6> QED BY <3>5, <6>1 DEF Ended, Acks, Ack
        <5>4. N(c)' = n /\ n # 0
          BY <3>4 DEF n
        <5>5. wire'[c] = <<Chunk(n)>>
          BY <4>4, <5>3
        <5>6. pc'[c] \in {"more", "header", "cleanup"}
          BY <3>1, <3>5, <4>8 DEF Closes
        <5>7. TcpRefused(c)' \/ TcpAsks(c)'
          BY <3>6, <5>2, <5>4, <5>5, <5>6 DEF TcpRefused, TcpAsks, Chunk
        <5> QED BY <3>4, <3>8, <4>1, <5>7 DEF TcpAt
      <4> QED BY <4>7, <4>8
    <3> QED BY <3>7, <3>8
  <2>6. CASE WsLoaded(c)
    BY <1>2, <2>6 DEF WsLoaded
  <2>7. CASE HearReady(c) \/ HearDone(c)
    <3>1. back[c] # << >> /\ Head(back[c]).kind \in {"ready", "done"}
      BY <2>7 DEF HearReady, HearDone, Hearing
    <3> QED BY <2>3, <3>1 DEF Ack
  <2>8. CASE WsHearAck(c)
    BY <2>8 DEF WsHearAck
  <2> QED BY <1>5, <2>4, <2>5, <2>6, <2>7, <2>8 DEF Page
<1>6. Page(c) => said[c] = "waiting"
  BY DEF Page, WsLoaded, HearReady, WsHearAck, HearAck, HearDone, HearFailed, HearClosed, Hearing
<1> QED BY <1>3, <1>4, <1>5, <1>6

\* What the task's step does to its own client, whichever step it is.
LEMMA TaskOwn ==
  ASSUME IInv, CardInv, NEW c \in Clients, Tcp(c), ~TcpReturn(c)
  PROVE  /\ UNCHANGED <<via, size, said, acked>> /\ acked'[c] = acked[c] /\ said'[c] = said[c]
         /\ via[c] = "tcp" /\ pc \in [Clients -> Places] /\ slots \in [Slots -> SlotType]
         /\ wire \in [Clients -> Seq(Message)] /\ back \in [Clients -> Seq(Message)]
         /\ disk \in [Clients -> Seq(Pieces)] /\ size \in [Clients -> Nat \ {0}]
         /\ N(c) \in Nat /\ N(c)' = N(c) /\ (Counted(c) => Counted(c)')
<1>1. /\ UNCHANGED <<via, size, said, acked>> /\ via[c] = "tcp"
      /\ pc \in [Clients -> Places] /\ slots \in [Slots -> SlotType]
      /\ disk \in [Clients -> Seq(Pieces)]
  BY TaskForm
<1>2. N(c) \in Nat /\ N(c)' = N(c) /\ (Counted(c) => Counted(c)')
  BY <1>1, FS_CardinalityType DEF IInv, FormInv, N, Counted
<1> QED BY <1>1, <1>2 DEF IInv, FormInv

LEMMA TcpHeaderStep ==
  ASSUME IInv, IInv', CardInv, NEW c \in Clients, TcpAt(c), TcpHeader(c)
  PROVE  TcpAt(c)'
<1>1. Tcp(c) /\ ~TcpReturn(c) /\ UNCHANGED <<wire, back, slots, disk, mixed>>
  BY DEF TcpHeader, TcpStep, card, Tcp, TcpReturn
<1>2. /\ UNCHANGED size /\ acked'[c] = acked[c] /\ said'[c] = said[c]
      /\ pc \in [Clients -> Places] /\ slots \in [Slots -> SlotType]
      /\ wire \in [Clients -> Seq(Message)]
      /\ N(c)' = N(c) /\ (Counted(c) => Counted(c)')
  BY <1>1, TaskOwn
<1>3. /\ pc[c] = "header" /\ wire[c] # << >> /\ shared \subseteq shared'
      /\ \/ pc'[c] = "cleanup"
         \/ pc'[c] = "body" /\ Head(wire[c]).kind = "chunk" /\ Head(wire[c]).i # 0
         \/ pc'[c] = "open" /\ Head(wire[c]).kind = "chunk" /\ Head(wire[c]).i = 0
  BY <1>2, HeaderGoes DEF Goto
<1>4. Milder(c)
  <2>1. \A s \in Slots : slots[s].got \in Nat
    BY <1>2 DEF SlotType
  <2> QED BY <1>1, <1>3, <2>1 DEF Milder
<1>5. /\ TcpKeeps(c, N(c)) => TcpKeeps(c, N(c))'
      /\ TcpKeeps(c, size[c]) => TcpKeeps(c, size[c])'
  <2>1. pc[c] \notin {"mark", "count"} /\ pc'[c] \notin {"mark", "count"}
    BY <1>3
  <2> QED BY <1>2, <1>4, <2>1, TcpKept
<1>6. CASE said[c] = "waiting"
  <2>1. Counted(c) /\ (TcpAsks(c) \/ TcpRefused(c))
    BY <1>3, <1>6 DEF TcpAt, TcpServed, TcpAnswered
  <2>2. TcpAsks(c)
    BY <1>3, <2>1 DEF TcpRefused
  <2>3. wire[c] = <<Chunk(N(c))>> /\ Head(wire[c]).i = N(c) /\ back[c] = << >>
    BY <2>2 DEF TcpAsks, Chunk
  <2>4. TcpRefused(c)' \/ TcpAsks(c)'
    BY <1>1, <1>2, <1>3, <1>5, <2>2, <2>3 DEF TcpRefused, TcpAsks, Chunk
  <2> QED BY <1>2, <1>6, <2>1, <2>4 DEF TcpAt
<1>7. CASE said[c] = "success"
  <2>1. Head(wire[c]).kind = "closed"
    BY <1>2, <1>3, <1>7, HeadForm DEF TcpAt
  <2>2. pc'[c] = "cleanup"
    BY <1>3, <2>1
  <2> QED BY <1>1, <1>2, <1>5, <1>7, <2>2 DEF TcpAt, Closes
<1>8. CASE said[c] = "idle"
  BY <1>2, <1>1, <1>8 DEF TcpAt
<1> QED BY <1>2, <1>6, <1>7, <1>8 DEF TcpAt

LEMMA TcpOpenStep ==
  ASSUME IInv, IInv', CardInv, NEW c \in Clients, TcpAt(c), TcpOpen(c)
  PROVE  TcpAt(c)'
<1>1. Tcp(c) /\ ~TcpReturn(c) /\ pc[c] = "open" /\ UNCHANGED <<wire, back, mixed, shared>>
  BY DEF TcpOpen, TcpStep, history, Tcp, TcpReturn
<1>2. /\ UNCHANGED size /\ acked'[c] = acked[c] /\ said'[c] = said[c] /\ size[c] \in Nat \ {0}
      /\ pc \in [Clients -> Places] /\ disk \in [Clients -> Seq(Pieces)]
      /\ N(c)' = N(c) /\ (Counted(c) => Counted(c)')
  BY <1>1, TaskOwn
<1>3. CASE said[c] = "waiting"
  <2>1. Counted(c) /\ TcpAsks(c) /\ N(c) = 0 /\ back[c] = << >>
    BY <1>1, <1>3 DEF TcpAt, TcpAsks, TcpServed, TcpAnswered, TcpRefused, Closes
  <2>2. CASE Goto(c, "cleanup")
    <3>1. TcpRefused(c)'
      BY <1>1, <1>2, <2>1, <2>2 DEF Goto, TcpRefused
    <3> QED BY <1>2, <1>3, <2>1, <3>1 DEF TcpAt
  <2>3. CASE Goto(c, "mark") /\ disk' = [disk EXCEPT ![c] = << >>]
    <3>1. disk'[c] = << >> /\ pc'[c] = "mark" /\ Len(disk'[c]) = 0
      BY <1>2, <2>3, EmptySeq
         DEF Goto
    <3>2. \A k \in 1..0 : FALSE
      OBVIOUS
    <3>3. TcpKeeps(c, N(c))'
      BY <1>2, <2>1, <3>1, <3>2 DEF TcpKeeps, Stored
    <3>4. TcpAsks(c)'
      BY <1>1, <1>2, <2>1, <3>1, <3>3 DEF TcpAsks, Chunk
    <3> QED BY <1>2, <1>3, <2>1, <3>4 DEF TcpAt
  <2> QED BY <2>2, <2>3 DEF TcpOpen
<1> QED BY <1>1, <1>2, <1>3 DEF TcpAt, Closes

LEMMA TcpMarkStep ==
  ASSUME IInv, IInv', CardInv, NEW c \in Clients, TcpAt(c), TcpMark(c)
  PROVE  TcpAt(c)'
<1>1. /\ Tcp(c) /\ ~TcpReturn(c) /\ pc[c] = "mark"
      /\ UNCHANGED <<wire, back, disk, mixed, shared>> /\ Goto(c, "body")
      /\ slots' = [slots EXCEPT ![slot[c]] =
                     [@ EXCEPT !.got = 0, !.total = size[c], !.active = TRUE]]
  BY DEF TcpMark, TcpStep, card, history, Tcp, TcpReturn
<1>2. /\ UNCHANGED size /\ acked'[c] = acked[c] /\ said'[c] = said[c] /\ size[c] \in Nat \ {0}
      /\ pc \in [Clients -> Places] /\ slots \in [Slots -> SlotType] /\ slot[c] \in Slots
      /\ N(c)' = N(c) /\ (Counted(c) => Counted(c)')
  BY <1>1, TaskOwn, TaskForm
<1>3. CASE said[c] = "waiting"
  <2>1. Counted(c) /\ TcpAsks(c) /\ N(c) = 0 /\ TcpKeeps(c, N(c))
    BY <1>1, <1>3 DEF TcpAt, TcpAsks, TcpServed, TcpAnswered, TcpRefused, Closes
  <2>2. pc'[c] = "body"
    BY <1>1, <1>2 DEF Goto
  <2>3. \A s \in Slots : slots'[s].file = slots[s].file
    BY <1>1, <1>2 DEF SlotType
  <2>4. slots'[slot[c]].total = size[c] /\ slots'[slot[c]].got = 0
    BY <1>1, <1>2 DEF SlotType
  <2>5. \A s \in Slots : slots[s].file = c /\ c \notin shared => s = slot[c]
    BY DEF CardInv, Held, HeldAt
  <2>6. TcpKeeps(c, N(c))'
    <3>1. c \notin mixed \cup shared => (Used(c) => Stored(c, 0))
      BY <2>1 DEF TcpKeeps
    <3> QED BY <1>1, <1>2, <2>1, <2>2, <2>3, <2>4, <2>5, <3>1 DEF TcpKeeps, Stored, Used
  <2>7. TcpAsks(c)'
    BY <1>1, <1>2, <2>1, <2>2, <2>6 DEF TcpAsks, Chunk
  <2> QED BY <1>2, <1>3, <2>1, <2>7 DEF TcpAt
<1> QED BY <1>1, <1>2, <1>3 DEF TcpAt, Closes

LEMMA TcpBodyStep ==
  ASSUME IInv, IInv', CardInv, NEW c \in Clients, TcpAt(c), TcpBody(c)
  PROVE  TcpAt(c)'
<1>1. Tcp(c) /\ ~TcpReturn(c) /\ pc[c] = "body" /\ UNCHANGED <<back, slots, disk, mixed, shared>>
  BY DEF TcpBody, TcpStep, card, history, Tcp, TcpReturn
<1>2. /\ UNCHANGED size /\ acked'[c] = acked[c] /\ said'[c] = said[c]
      /\ pc \in [Clients -> Places] /\ slots \in [Slots -> SlotType]
      /\ wire \in [Clients -> Seq(Message)]
      /\ N(c)' = N(c) /\ (Counted(c) => Counted(c)')
  BY <1>1, TaskOwn
<1>3. CASE said[c] = "waiting"
  <2>1. Counted(c) /\ TcpAsks(c)
    BY <1>1, <1>3 DEF TcpAt, TcpServed, TcpAnswered, TcpRefused, Closes
  <2>2. wire[c] = <<Chunk(N(c))>> /\ back[c] = << >> /\ TcpKeeps(c, N(c))
    BY <2>1 DEF TcpAsks
  <2>3. CASE Goto(c, "cleanup")
    <3>1. TcpRefused(c)'
      BY <1>1, <1>2, <2>2, <2>3 DEF Goto, TcpRefused
    <3> QED BY <1>2, <1>3, <2>1, <3>1 DEF TcpAt
  <2>4. CASE Goto(c, "write") /\ wire' = [wire EXCEPT ![c] = Tail(@)]
    <3>1. pc'[c] = "write" /\ wire'[c] = << >>
      BY <1>2, <2>2, <2>4 DEF Goto
    <3>2. Milder(c)
      <4>1. \A s \in Slots : slots[s].got \in Nat
        BY <1>2 DEF SlotType
      <4> QED BY <1>1, <4>1 DEF Milder
    <3>3. TcpKeeps(c, N(c))'
      BY <1>1, <1>2, <2>2, <3>1, <3>2, TcpKept
    <3>4. TcpServed(c)'
      BY <1>1, <2>2, <3>1, <3>3 DEF TcpServed
    <3> QED BY <1>2, <1>3, <2>1, <3>4 DEF TcpAt
  <2> QED BY <2>3, <2>4 DEF TcpBody
<1> QED BY <1>1, <1>2, <1>3 DEF TcpAt, Closes

LEMMA TcpWriteStep ==
  ASSUME IInv, IInv', CardInv, NEW c \in Clients, TcpAt(c), TcpWrite(c)
  PROVE  TcpAt(c)'
<1> DEFINE f == slots[slot[c]].file
           n == N(c)
<1>1. /\ Tcp(c) /\ ~TcpReturn(c) /\ pc[c] = "write" /\ UNCHANGED <<wire, back, slots, shared>>
      /\ mixed' = mixed \cup Meets(c, f)
      /\ \/ Goto(c, "cleanup")
         \/ /\ f # None /\ Goto(c, "count")
            /\ disk' = [disk EXCEPT ![f] = Append(@, Piece(c, n))]
  BY DEF TcpWrite, TcpStep, Tcp, TcpReturn, N
<1>2. /\ UNCHANGED size /\ acked'[c] = acked[c] /\ said'[c] = said[c] /\ size[c] \in Nat \ {0}
      /\ pc \in [Clients -> Places] /\ slots \in [Slots -> SlotType] /\ slot[c] \in Slots
      /\ disk \in [Clients -> Seq(Pieces)]
      /\ n \in Nat /\ N(c)' = N(c) /\ (Counted(c) => Counted(c)')
  BY <1>1, TaskOwn, TaskForm
<1>3. CASE said[c] = "waiting"
  <2>1. Counted(c) /\ wire[c] = << >> /\ back[c] = << >> /\ TcpKeeps(c, N(c))
    BY <1>1, <1>3 DEF TcpAt, TcpAsks, TcpServed, TcpAnswered, TcpRefused, Closes
  <2>2. CASE Goto(c, "cleanup")
    <3>1. TcpRefused(c)'
      BY <1>1, <1>2, <2>1, <2>2 DEF Goto, TcpRefused
    <3> QED BY <1>2, <1>3, <2>1, <3>1 DEF TcpAt
  <2>3. CASE f # None /\ Goto(c, "count") /\ disk' = [disk EXCEPT ![f] = Append(@, Piece(c, n))]
    <3>1. pc'[c] = "count"
      BY <1>2, <2>3 DEF Goto
    <3>2. TcpKeeps(c, N(c) + 1)'
      <4> DEFINE more == Len(disk'[c]) = n + 1 /\ \A k \in 1..n + 1 : disk'[c][k] = Piece(c, k - 1)
      <4> SUFFICES ASSUME c \notin mixed' \cup shared
          PROVE  /\ more
                 /\ \A s \in Slots : slots[s].file = c =>
                      slots[s].total = size[c] /\ slots[s].got >= (n + 1) - 1
        BY <1>1, <1>2, <3>1 DEF TcpKeeps, Stored
      <4>1. c \notin mixed /\ f = c
        BY <1>1, <2>3 DEF Meets
      <4>2. Used(c)
        BY <1>2, <4>1 DEF Used
      <4>3. Len(disk[c]) = n /\ \A k \in 1..n : disk[c][k] = Piece(c, k - 1)
        BY <2>1, <4>1, <4>2 DEF TcpKeeps, Stored
      <4>4. \A s \in Slots : slots[s].file = c => slots[s].total = size[c] /\ slots[s].got >= n
        BY <1>1, <2>1, <4>1 DEF TcpKeeps
      <4>5. disk'[c] = Append(disk[c], Piece(c, n))
        BY <1>2, <2>3, <4>1
      <4> HIDE DEF n
      <4>6. more
        BY <1>2, <4>3, <4>5, StoredMore
      <4>7. (n + 1) - 1 = n
        BY <1>2
      <4> QED BY <4>4, <4>6, <4>7
    <3>3. TcpServed(c)'
      BY <1>1, <2>1, <3>1, <3>2 DEF TcpServed
    <3> QED BY <1>2, <1>3, <2>1, <3>3 DEF TcpAt
  <2> QED BY <1>1, <2>2, <2>3
<1> QED BY <1>1, <1>2, <1>3 DEF TcpAt, Closes

LEMMA TcpCountStep ==
  ASSUME IInv, IInv', CardInv, NEW c \in Clients, TcpAt(c), TcpCount(c)
  PROVE  TcpAt(c)'
<1> DEFINE s == slot[c]
           got == slots[s].got + 1
           n == N(c) + 1
<1>1. /\ Tcp(c) /\ ~TcpReturn(c) /\ pc[c] = "count" /\ Goto(c, "ack")
      /\ UNCHANGED <<wire, back, disk, mixed, shared>>
      /\ IF got >= slots[s].total
         THEN slots' = [slots EXCEPT ![s] = [@ EXCEPT !.got = got, !.file = None, !.active = FALSE]]
         ELSE slots' = [slots EXCEPT ![s].got = got]
  BY DEF TcpCount, TcpStep, history, Tcp, TcpReturn
<1>2. /\ UNCHANGED size /\ acked'[c] = acked[c] /\ said'[c] = said[c] /\ size[c] \in Nat \ {0}
      /\ pc \in [Clients -> Places] /\ slots \in [Slots -> SlotType] /\ s \in Slots
      /\ N(c) \in Nat /\ N(c)' = N(c) /\ (Counted(c) => Counted(c)')
  BY <1>1, TaskOwn, TaskForm
<1>3. CASE said[c] = "waiting"
  <2>1. Counted(c) /\ wire[c] = << >> /\ back[c] = << >> /\ TcpKeeps(c, N(c) + 1)
    BY <1>1, <1>3 DEF TcpAt, TcpAsks, TcpServed, TcpAnswered, TcpRefused, Closes
  <2>2. pc'[c] = "ack"
    BY <1>1, <1>2 DEF Goto
  <2>3. TcpKeeps(c, N(c) + 1)'
    <3> SUFFICES ASSUME c \notin mixed \cup shared
        PROVE  /\ Used(c)' \/ n = size[c] => Stored(c, n)
               /\ \A t \in Slots : slots'[t].file = c =>
                    slots'[t].total = size[c] /\ slots'[t].got >= n
               /\ n = size[c] => ~Used(c)'
      BY <1>1, <1>2, <2>2 DEF TcpKeeps, Stored
    <3>1. /\ Used(c) \/ n = size[c] => Stored(c, n)
          /\ \A t \in Slots : slots[t].file = c =>
               slots[t].total = size[c] /\ slots[t].got >= n - 1
      BY <1>1, <2>1 DEF TcpKeeps
    <3>2. \A t \in Slots : slots[t].file = c => t = s
      BY DEF CardInv, Held, HeldAt
    <3>3. c # None
      BY UploadAssumption
    <3>4. slots[s].got \in Nat /\ slots[s].total \in Nat /\ n \in Nat /\ N(c) < size[c]
      BY <1>2, <2>1 DEF SlotType, Counted
    <3> HIDE DEF s, n
    <3>5. CASE got >= slots[s].total
      <4>1. slots'[s].file = None /\ \A t \in Slots : t # s => slots'[t] = slots[t]
        BY <1>1, <1>2, <3>5 DEF SlotType
      <4>2. \A t \in Slots : slots'[t].file # c
        BY <3>2, <3>3, <4>1
      <4> QED BY <3>1, <4>2 DEF Used
    <3>6. CASE ~(got >= slots[s].total)
      <4>1. /\ slots'[s].file = slots[s].file /\ slots'[s].total = slots[s].total
            /\ slots'[s].got = got /\ \A t \in Slots : t # s => slots'[t] = slots[t]
        BY <1>1, <1>2, <3>6 DEF SlotType
      <4>2. \A t \in Slots : slots'[t].file = c => t = s /\ slots[s].file = c
        BY <3>2, <4>1
      <4>3. Used(c)' => Used(c) /\ slots[s].file = c
        BY <1>2, <4>2 DEF Used
      <4>4. slots[s].file = c => /\ slots'[s].total = size[c] /\ slots'[s].got >= n
                                 /\ n # size[c]
        <5>1. slots[s].file = c => slots[s].total = size[c] /\ slots[s].got >= n - 1
          BY <1>2, <3>1
        <5>2. size[c] \in Nat
          BY <1>2
        <5>3. \A g, z \in Nat : g >= n - 1 /\ ~(g + 1 >= z) => g + 1 >= n /\ n # z
          BY <3>4
        <5> QED BY <3>4, <3>6, <4>1, <5>1, <5>2, <5>3
      <4> QED BY <3>1, <4>2, <4>3, <4>4
    <3> QED BY <3>5, <3>6
  <2>4. TcpServed(c)'
    BY <1>1, <2>1, <2>2, <2>3 DEF TcpServed
  <2> QED BY <1>2, <1>3, <2>1, <2>4 DEF TcpAt
<1> QED BY <1>1, <1>2, <1>3 DEF TcpAt, Closes

LEMMA TcpAckStep ==
  ASSUME IInv, IInv', CardInv, NEW c \in Clients, TcpAt(c), TcpAck(c)
  PROVE  TcpAt(c)'
<1>1. /\ Tcp(c) /\ ~TcpReturn(c) /\ pc[c] = "ack" /\ UNCHANGED <<wire, slots, disk, mixed, shared>>
      /\ Answer(c, Ack(N(c))) /\ Goto(c, IF said[c] = "waiting" THEN "more" ELSE "cleanup")
  BY DEF TcpAck, TcpStep, card, history, Tcp, TcpReturn, N
<1>2. /\ UNCHANGED size /\ acked'[c] = acked[c] /\ said'[c] = said[c]
      /\ pc \in [Clients -> Places] /\ slots \in [Slots -> SlotType]
      /\ N(c) \in Nat /\ N(c)' = N(c) /\ (Counted(c) => Counted(c)')
  BY <1>1, TaskOwn
<1>3. CASE said[c] = "waiting"
  <2>1. Counted(c) /\ wire[c] = << >> /\ back[c] = << >> /\ TcpKeeps(c, N(c) + 1)
    BY <1>1, <1>3 DEF TcpAt, TcpAsks, TcpServed, TcpAnswered, TcpRefused, Closes
  <2>2. pc'[c] = "more"
    BY <1>1, <1>2, <1>3 DEF Goto
  <2>3. Ack(N(c)) \in Message
    BY <1>2, MessageForm DEF Ack, Kinds
  <2>4. back'[c] # << >> /\ back'[c][1] = Ack(N(c)) /\ Len(back'[c]) = 1
    BY <1>1, <1>3, <2>1, <2>3, AnswerOne
  <2>5. Acks(c)' /\ ~(Len(back'[c]) > 1)
    <3>1. \A k \in 1..Len(back'[c]) : ~(k > 1)
      BY <2>4
    <3>2. ~(Len(back'[c]) > 1)
      BY <2>4
    <3> QED BY <1>2, <2>4, <3>1, <3>2 DEF Acks, Ack
  <2>6. Milder(c)
    <3>1. \A s \in Slots : slots[s].got \in Nat
      BY <1>2 DEF SlotType
    <3> QED BY <1>1, <3>1 DEF Milder
  <2>7. TcpKeeps(c, N(c) + 1)'
    BY <1>1, <1>2, <2>1, <2>2, <2>6, TcpKept
  <2>8. TcpAnswered(c)'
    BY <1>1, <2>1, <2>2, <2>5, <2>7 DEF TcpAnswered, Closes
  <2> QED BY <1>2, <1>3, <2>1, <2>8 DEF TcpAt
<1>4. CASE said[c] = "success"
  BY <1>1, <1>4 DEF TcpAt, Closes
<1>5. CASE said[c] = "idle"
  BY <1>1, <1>2, <1>5 DEF TcpAt, Answer
<1> QED BY <1>2, <1>3, <1>4, <1>5 DEF TcpAt

LEMMA TcpMoreStep ==
  ASSUME IInv, IInv', CardInv, NEW c \in Clients, TcpAt(c), TcpMore(c) \/ TcpNoMemory(c)
  PROVE  TcpAt(c)'
<1>1. /\ Tcp(c) /\ ~TcpReturn(c) /\ pc[c] \in {"more", "header"}
      /\ UNCHANGED <<wire, back, slots, disk, mixed, shared>>
      /\ Goto(c, "header") \/ Goto(c, "cleanup")
  BY DEF TcpMore, TcpNoMemory, TcpStep, card, history, Tcp, TcpReturn
<1>2. /\ UNCHANGED size /\ acked'[c] = acked[c] /\ said'[c] = said[c]
      /\ pc \in [Clients -> Places] /\ slots \in [Slots -> SlotType]
      /\ N(c)' = N(c) /\ (Counted(c) => Counted(c)')
  BY <1>1, TaskOwn
<1>3. pc'[c] \in {"header", "cleanup"}
  BY <1>1, <1>2 DEF Goto
<1>4. Milder(c)
  <2>1. \A s \in Slots : slots[s].got \in Nat
    BY <1>2 DEF SlotType
  <2> QED BY <1>1, <2>1 DEF Milder
<1>5. /\ TcpKeeps(c, N(c)) => TcpKeeps(c, N(c))'
      /\ TcpKeeps(c, N(c) + 1) => TcpKeeps(c, N(c) + 1)'
      /\ TcpKeeps(c, size[c]) => TcpKeeps(c, size[c])'
  BY <1>1, <1>2, <1>3, <1>4, TcpKept
<1>6. CASE said[c] = "waiting"
  <2>1. Counted(c) /\ (TcpAsks(c) \/ TcpAnswered(c))
    BY <1>1, <1>6 DEF TcpAt, TcpServed, TcpRefused
  <2>2. TcpAsks(c) => TcpAsks(c)' \/ TcpRefused(c)'
    BY <1>1, <1>2, <1>3, <1>5 DEF TcpAsks, TcpRefused, Chunk
  <2>3. TcpAnswered(c) => TcpAnswered(c)'
    BY <1>1, <1>2, <1>3, <1>5 DEF TcpAnswered, Closes, Acks, Ack
  <2> QED BY <1>2, <1>6, <2>1, <2>2, <2>3 DEF TcpAt
<1>7. CASE said[c] = "success"
  BY <1>1, <1>2, <1>3, <1>5, <1>7 DEF TcpAt, Closes
<1> QED BY <1>1, <1>2, <1>6, <1>7 DEF TcpAt

LEMMA TcpCleanupStep ==
  ASSUME IInv, IInv', CardInv, NEW c \in Clients, TcpAt(c), TcpCleanup(c)
  PROVE  TcpAt(c)'
<1>1. /\ Tcp(c) /\ ~TcpReturn(c) /\ pc[c] = "cleanup" /\ UNCHANGED <<wire, disk, mixed, shared>>
      /\ Goto(c, "return") /\ Answer(c, Msg("closed"))
      /\ \/ UNCHANGED slots
         \/ slots' = [slots EXCEPT ![slot[c]] = [@ EXCEPT !.file = None, !.active = FALSE]]
  BY DEF TcpCleanup, TcpStep, history, Tcp, TcpReturn
<1>2. /\ UNCHANGED size /\ acked'[c] = acked[c] /\ said'[c] = said[c]
      /\ pc \in [Clients -> Places] /\ slots \in [Slots -> SlotType]
      /\ back \in [Clients -> Seq(Message)]
      /\ N(c)' = N(c) /\ (Counted(c) => Counted(c)')
  BY <1>1, TaskOwn
<1>3. pc'[c] = "return"
  BY <1>1, <1>2 DEF Goto
<1>4. Milder(c)
  <2>1. \A s \in Slots : slots[s].got \in Nat
    BY <1>2 DEF SlotType
  <2>2. \A s \in Slots : slots'[s].file = c => slots'[s] = slots[s]
    <3>1. CASE UNCHANGED slots
      BY <3>1
    <3>2. CASE slots' = [slots EXCEPT ![slot[c]] = [@ EXCEPT !.file = None, !.active = FALSE]]
      <4>1. \A s \in Slots : \/ s # slot[c] /\ slots'[s] = slots[s]
                             \/ s = slot[c] /\ slots'[s].file = None
        BY <1>2, <3>2 DEF SlotType
      <4> QED BY <4>1, UploadAssumption
    <3> QED BY <1>1, <3>1, <3>2
  <2> QED BY <1>1, <2>1, <2>2 DEF Milder
<1>5. /\ TcpKeeps(c, N(c) + 1) => TcpKeeps(c, N(c) + 1)'
      /\ TcpKeeps(c, size[c]) => TcpKeeps(c, size[c])'
  BY <1>1, <1>2, <1>3, <1>4, TcpKept
<1>6. CASE said[c] = "waiting"
  <2> DEFINE e == Msg("closed")
  <2>1. e \in Message /\ e.kind = "closed"
    BY MessageForm DEF Msg, Kinds
  <2>2. Counted(c) /\ (TcpAnswered(c) \/ TcpRefused(c))
    BY <1>1, <1>6 DEF TcpAt, TcpAsks, TcpServed
  <2>3. CASE TcpRefused(c)
    <3>1. back[c] = << >>
      BY <1>1, <2>3 DEF TcpRefused
    <3>2. back'[c] # << >> /\ back'[c][1] = e /\ Len(back'[c]) = 1
      BY <1>1, <1>6, <2>1, <3>1, AnswerOne
    <3>3. TcpRefused(c)'
      BY <1>3, <2>1, <3>2 DEF TcpRefused, Refused
    <3> QED BY <1>2, <1>6, <2>2, <3>3 DEF TcpAt
  <2>4. CASE TcpAnswered(c)
    <3>1. wire[c] = << >> /\ Acks(c) /\ TcpKeeps(c, N(c) + 1) /\ ~(Len(back[c]) > 1)
      BY <1>1, <2>4 DEF TcpAnswered
    <3> HIDE DEF e
    <3>2. back'[c] = Append(back[c], e)
      BY <1>1, <1>2, <1>6 DEF Answer, Reply, e
    <3>3. /\ Len(back'[c]) = Len(back[c]) + 1 /\ Len(back[c]) \in Nat /\ Len(back[c]) # 0
          /\ back'[c] \in Seq(Message)
          /\ \A k \in 1..Len(back[c]) : back'[c][k] = back[c][k]
          /\ back'[c][Len(back[c]) + 1] = e
      BY <1>2, <2>1, <3>1, <3>2, AppendProperties, LenProperties, EmptySeq DEF Acks
    <3>4. Len(back'[c]) > 1 /\ back'[c] # << >> /\ back'[c][1] = back[c][1]
      <4>1. \A l \in Nat : l # 0 => l + 1 > 1 /\ l + 1 # 0 /\ 1 \in 1..l
        OBVIOUS
      <4>2. Len(back[c]) + 1 > 1 /\ Len(back[c]) + 1 # 0 /\ 1 \in 1..Len(back[c])
        BY <3>3, <4>1
      <4> QED BY <3>3, <4>2, EmptySeq
    <3>5. \A k \in 1..Len(back'[c]) : k > 1 => back'[c][k].kind = "closed"
      <4>1. \A k \in 1..Len(back'[c]) : k \in 1..Len(back[c]) \/ k = Len(back[c]) + 1
        BY <3>3
      <4> QED BY <2>1, <3>1, <3>3, <4>1 DEF Acks
    <3>6. Acks(c)'
      BY <1>2, <3>1, <3>4, <3>5 DEF Acks, Ack
    <3>7. TcpAnswered(c)'
      BY <1>1, <1>3, <1>5, <3>1, <3>4, <3>6 DEF TcpAnswered, Closes
    <3> QED BY <1>2, <1>6, <2>2, <3>7 DEF TcpAt
  <2> QED BY <2>2, <2>3, <2>4
<1>7. CASE said[c] = "success"
  BY <1>1, <1>2, <1>3, <1>5, <1>7 DEF TcpAt, Closes
<1>8. CASE said[c] = "idle"
  BY <1>1, <1>2, <1>8 DEF TcpAt, Answer
<1> QED BY <1>2, <1>6, <1>7, <1>8 DEF TcpAt

LEMMA TcpNext ==
  ASSUME IInv, CardInv, TcpInv, [Next]_vars
  PROVE  TcpInv'
<1>1. IInv'
  BY NextIInv
<1>2. CASE UNCHANGED vars
  <2>1. UNCHANGED <<via, size, said, acked, wire, back, slots, pc, disk, mixed, shared>>
    BY <1>2 DEF vars, page, server, card, history
  <2> QED BY <2>1 DEF TcpInv, TcpAt, TcpAsks, TcpServed, TcpAnswered, TcpRefused, Counted, N, Acks,
                      Refused, Closes, TcpKeeps, Stored, Used, Chunk, Ack
<1>3. ASSUME NEW d \in Clients, Start(d) \/ Leave(d) \/ Page(d) \/ Httpd(d) \/ Tcp(d)
      PROVE  TcpInv'
  <2>1. SUFFICES ASSUME NEW c \in Clients, via'[c] = "tcp"
        PROVE  TcpAt(c)'
    BY DEF TcpInv
  <2>2. via[c] = "tcp" /\ TcpAt(c)
    BY <1>3, <2>1, ViaSame DEF TcpInv
  <2>3. CASE TcpReturn(d)
    BY <1>1, <2>2, <2>3, TcpRestart
  <2>4. CASE ~TcpReturn(d) /\ c # d
    <3>1. Elsewhere(c)
      BY <1>3, <2>4, PageElsewhere, HttpdElsewhere, TcpElsewhere
    <3> QED BY <1>1, <2>2, <3>1, TcpAside
  <2>5. CASE ~TcpReturn(d) /\ c = d
    <3>1. ~Httpd(d)
      BY <2>2, <2>5 DEF Httpd, UploadStart, WsChunk, WsChunkFails, WsComplete, HttpChunk,
             HttpOpenFails, HttpWriteFails, HttpShort, HttpCut, HttpNoMemory, Taking
    <3>2. CASE Start(d) \/ Leave(d) \/ Page(d)
      BY <1>1, <2>2, <2>5, <3>2, TcpPageSteps
    <3>3. CASE Tcp(d)
      BY <1>1, <2>2, <2>5, <3>3, TcpHeaderStep, TcpOpenStep, TcpMarkStep, TcpBodyStep, TcpWriteStep,
         TcpCountStep, TcpAckStep, TcpMoreStep, TcpCleanupStep DEF Tcp
    <3> QED BY <1>3, <3>1, <3>2, <3>3
  <2> QED BY <2>3, <2>4, <2>5
<1> QED BY <1>2, <1>3 DEF Next
-----------------------------------------------------------------------------
(* The web sockets *)

\* The chunks that messages of one kind are about, in a connection.
Numbers(q, kind) == {q[k].i : k \in {j \in 1..Len(q) : q[j].kind = kind}}
Has(q, kind) == \E k \in 1..Len(q) : q[k].kind = kind
Unrepeated(q) ==
  \A j, k \in 1..Len(q) : q[j].kind = "chunk" /\ q[k].kind = "chunk" /\ q[j].i = q[k].i => j = k

\* The chunks that have been sent and are not under way any more.
Gone(c) == (sent[c] \ reading[c]) \ Numbers(wire[c], "chunk")

\* A chunk is started once, read once, sent once and acknowledged once.
WsSent(c) ==
  /\ reading[c] \subseteq sent[c] /\ sent[c] \subseteq Chunks(c)
  /\ Numbers(wire[c], "chunk") \subseteq sent[c] \ reading[c] /\ Unrepeated(wire[c])
  /\ acked[c] \subseteq Gone(c) /\ Numbers(back[c], "ack") \subseteq Gone(c)

\* So it is on the card at most once, the first one in the first place only.
WsDisk(c) ==
  /\ \A k \in 1..Len(disk[c]) :
       \/ disk[c][k] = Part(c)
       \/ \E i \in Gone(c) : disk[c][k] = Piece(c, i) /\ (i = 0 => k = 1)
  /\ \A j, k \in 1..Len(disk[c]) : disk[c][j] = disk[c][k] /\ disk[c][j] # Part(c) => j = k

\* The end is announced when all chunks are acknowledged, and confirmed when
\* the file has their number.
Ending(c) == said[c] = "success" \/ Has(back[c], "done")
WsEnd(c) ==
  /\ Ending(c) \/ Has(wire[c], "complete") => acked[c] = Chunks(c)
  /\ Ending(c) => Len(disk[c]) = size[c] /\ \A k \in 1..Len(disk[c]) : disk[c][k] # Part(c)

WsAt(c) == said[c] \in {"idle", "waiting", "success"} => WsSent(c) /\ WsDisk(c) /\ WsEnd(c)

WsInv == \A c \in Clients : via[c] = "ws" => WsAt(c)

LEMMA NumbersAppend ==
  ASSUME NEW q \in Seq(Message), NEW m \in Message, NEW kind
  PROVE  /\ Numbers(Append(q, m), kind) = Numbers(q, kind) \cup (IF m.kind = kind THEN {m.i} ELSE {})
         /\ Has(Append(q, m), kind) <=> Has(q, kind) \/ m.kind = kind
         /\ Unrepeated(q) /\ (m.kind = "chunk" => m.i \notin Numbers(q, "chunk"))
              => Unrepeated(Append(q, m))
<1> DEFINE r == Append(q, m)
<1>1. /\ Len(r) = Len(q) + 1 /\ Len(q) \in Nat /\ r[Len(q) + 1] = m
      /\ \A k \in 1..Len(q) : r[k] = q[k]
  BY AppendProperties, LenProperties
<1>2. \A k \in 1..Len(r) : k \in 1..Len(q) \/ k = Len(q) + 1
  BY <1>1
<1>3. 1..Len(q) \subseteq 1..Len(r) /\ Len(q) + 1 \in 1..Len(r)
  BY <1>1
<1> HIDE DEF r
<1>4. Numbers(r, kind) = Numbers(q, kind) \cup (IF m.kind = kind THEN {m.i} ELSE {})
  <2>1. Numbers(r, kind) \subseteq Numbers(q, kind) \cup (IF m.kind = kind THEN {m.i} ELSE {})
    BY <1>1, <1>2 DEF Numbers
  <2>2. Numbers(q, kind) \subseteq Numbers(r, kind)
    BY <1>1, <1>3 DEF Numbers
  <2>3. m.kind = kind => m.i \in Numbers(r, kind)
    BY <1>1, <1>3 DEF Numbers
  <2> QED BY <2>1, <2>2, <2>3
<1>5. Has(r, kind) <=> Has(q, kind) \/ m.kind = kind
  BY <1>1, <1>2, <1>3 DEF Has
<1>6. ASSUME Unrepeated(q), m.kind = "chunk" => m.i \notin Numbers(q, "chunk")
      PROVE  Unrepeated(r)
  <2>1. \A k \in 1..Len(q) : q[k].kind = "chunk" => q[k].i \in Numbers(q, "chunk")
    BY DEF Numbers
  <2>2. SUFFICES ASSUME NEW j \in 1..Len(r), NEW k \in 1..Len(r), r[j].kind = "chunk",
                        r[k].kind = "chunk", r[j].i = r[k].i
        PROVE  j = k
    BY DEF Unrepeated
  <2>3. CASE j \in 1..Len(q) /\ k \in 1..Len(q)
    BY <1>1, <1>6, <2>2, <2>3 DEF Unrepeated
  <2>4. CASE j \in 1..Len(q) /\ k = Len(q) + 1
    BY <1>1, <1>6, <2>1, <2>2, <2>4
  <2>5. CASE k \in 1..Len(q) /\ j = Len(q) + 1
    BY <1>1, <1>6, <2>1, <2>2, <2>5
  <2> QED BY <1>2, <2>3, <2>4, <2>5
<1> QED BY <1>4, <1>5, <1>6 DEF r

LEMMA NumbersTail ==
  ASSUME NEW q \in Seq(Message), q # << >>, NEW kind
  PROVE  /\ Numbers(Tail(q), kind) \subseteq Numbers(q, kind)
         /\ Has(Tail(q), kind) => Has(q, kind)
         /\ Has(q, Head(q).kind) /\ Head(q).i \in Numbers(q, Head(q).kind)
         /\ Unrepeated(q) => Unrepeated(Tail(q))
         /\ Unrepeated(q) /\ Head(q).kind = "chunk"
              => Numbers(Tail(q), "chunk") = Numbers(q, "chunk") \ {Head(q).i}
         /\ Head(q).kind # kind => Numbers(Tail(q), kind) = Numbers(q, kind)
<1> DEFINE r == Tail(q)
<1>1. /\ Len(r) = Len(q) - 1 /\ Len(q) \in Nat \ {0} /\ Head(q) = q[1]
      /\ \A k \in 1..Len(r) : r[k] = q[k + 1]
  BY HeadForm
<1>2. /\ \A k \in 1..Len(r) : k + 1 \in 1..Len(q)
      /\ \A k \in 1..Len(q) : k = 1 \/ k - 1 \in 1..Len(r)
      /\ 1 \in 1..Len(q) /\ \A k \in 1..Len(q) : (k - 1) + 1 = k
  BY <1>1
<1> HIDE DEF r
<1>3. Numbers(r, kind) \subseteq Numbers(q, kind) /\ (Has(r, kind) => Has(q, kind))
  <2>1. \A k \in 1..Len(r) : k + 1 \in 1..Len(q) /\ q[k + 1] = r[k]
    BY <1>1, <1>2
  <2> QED BY <2>1 DEF Numbers, Has
<1>4. Has(q, Head(q).kind) /\ Head(q).i \in Numbers(q, Head(q).kind)
  BY <1>1, <1>2 DEF Numbers, Has
<1>5. ASSUME NEW k2, NEW k \in 1..Len(q), q[k].kind = k2, k # 1
      PROVE  q[k].i \in Numbers(r, k2)
  <2>1. k - 1 \in 1..Len(r) /\ r[k - 1] = q[k]
    BY <1>1, <1>2, <1>5
  <2> QED BY <1>5, <2>1 DEF Numbers
<1>6. Head(q).kind # kind => Numbers(r, kind) = Numbers(q, kind)
  <2>1. Head(q).kind # kind => Numbers(q, kind) \subseteq Numbers(r, kind)
    BY <1>1, <1>5 DEF Numbers
  <2> QED BY <1>3, <2>1
<1>7. ASSUME Unrepeated(q)
      PROVE  Unrepeated(r)
  <2>1. SUFFICES ASSUME NEW j \in 1..Len(r), NEW k \in 1..Len(r), r[j].kind = "chunk",
                        r[k].kind = "chunk", r[j].i = r[k].i
        PROVE  j = k
    BY DEF Unrepeated
  <2>2. j + 1 = k + 1
    BY <1>1, <1>2, <1>7, <2>1 DEF Unrepeated
  <2> QED BY <2>2
<1>8. ASSUME Unrepeated(q), Head(q).kind = "chunk"
      PROVE  Numbers(r, "chunk") = Numbers(q, "chunk") \ {Head(q).i}
  <2>1. Numbers(q, "chunk") \subseteq Numbers(r, "chunk") \cup {Head(q).i}
    BY <1>1, <1>5 DEF Numbers
  <2>2. ASSUME NEW k \in 1..Len(r), r[k].kind = "chunk", r[k].i = Head(q).i
        PROVE  FALSE
    <3>1. k + 1 = 1
      BY <1>1, <1>2, <1>8, <2>2 DEF Unrepeated
    <3> QED BY <3>1
  <2>3. Head(q).i \notin Numbers(r, "chunk")
    BY <2>2 DEF Numbers
  <2>4. Numbers(r, "chunk") \subseteq Numbers(q, "chunk")
    BY <1>1, <1>2 DEF Numbers
  <2> QED BY <2>1, <2>3, <2>4
<1> QED BY <1>3, <1>4, <1>6, <1>7, <1>8 DEF r

\* A step that leaves the card alone.
LEMMA WsKept ==
  ASSUME NEW c \in Clients, WsAt(c), said[c] \in {"idle", "waiting", "success"},
         size'[c] = size[c], disk'[c] = disk[c],
         reading'[c] \subseteq sent'[c], sent'[c] \subseteq Chunks(c),
         Numbers(wire'[c], "chunk") \subseteq sent'[c] \ reading'[c], Unrepeated(wire'[c]),
         NEW gone, gone = (sent'[c] \ reading'[c]) \ Numbers(wire'[c], "chunk"),
         Gone(c) \subseteq gone, acked'[c] \subseteq gone, Numbers(back'[c], "ack") \subseteq gone,
         said'[c] = "success" \/ Has(back'[c], "done") => Ending(c),
         Ending(c) \/ Has(wire'[c], "complete") => acked'[c] = Chunks(c)
  PROVE  WsAt(c)'
<1>1. Gone(c)' = gone
  BY DEF Gone, Numbers
<1>2. Chunks(c)' = Chunks(c)
  BY DEF Chunks
<1>3. WsSent(c) /\ WsDisk(c) /\ WsEnd(c)
  BY DEF WsAt
<1>4. WsSent(c)'
  BY <1>1, <1>2 DEF WsSent, Numbers, Unrepeated
<1>5. WsDisk(c)'
  BY <1>1, <1>3 DEF WsDisk, Piece, Part
<1>6. Ending(c)' => Ending(c)
  BY DEF Ending, Has
<1>7. WsEnd(c)'
  <2>1. Has(wire[c], "complete")' = Has(wire'[c], "complete")
    BY DEF Has
  <2>2. Ending(c) => Len(disk[c]) = size[c] /\ \A k \in 1..Len(disk[c]) : disk[c][k] # Part(c)
    BY <1>3 DEF WsEnd
  <2>3. Ending(c)' => Len(disk'[c]) = size'[c] /\ \A k \in 1..Len(disk'[c]) : disk'[c][k] # Part(c)
    BY <1>6, <2>2
  <2>4. Ending(c)' \/ Has(wire[c], "complete")' => acked'[c] = Chunks(c)'
    BY <1>2, <1>6, <2>1
  <2> QED BY <2>3, <2>4 DEF WsEnd, Part
<1> QED BY <1>4, <1>5, <1>7 DEF WsAt

LEMMA WsAside ==
  ASSUME NEW c \in Clients, via[c] = "ws", WsAt(c), Elsewhere(c)
  PROVE  WsAt(c)'
<1>1. /\ size' = size /\ disk'[c] = disk[c]
      /\ UNCHANGED <<said[c], reading[c], sent[c], acked[c], wire[c], back[c]>>
  BY DEF Elsewhere
<1>2. CASE said[c] \notin {"idle", "waiting", "success"}
  BY <1>1, <1>2 DEF WsAt
<1>3. CASE said[c] \in {"idle", "waiting", "success"}
  <2>1. WsSent(c) /\ WsEnd(c)
    BY <1>3 DEF WsAt
  <2> QED BY <1>1, <1>3, <2>1, WsKept DEF WsSent, WsEnd, Gone, Ending
<1> QED BY <1>2, <1>3

\* A restart takes what was under way, and closes no file of a web socket.
LEMMA WsRestart ==
  ASSUME IInv, CardInv, NEW c \in Clients, via[c] = "ws", WsAt(c), NEW d \in Clients, TcpReturn(d)
  PROVE  WsAt(c)'
<1>1. /\ UNCHANGED <<size, said, reading, sent, acked>> /\ wire'[c] = << >>
      /\ disk'[c] = IF c \in opened THEN << >> ELSE disk[c]
  BY DEF TcpReturn, page
<1>2. disk'[c] = disk[c]
  BY <1>1 DEF CardInv, Unopened
<1>3. CASE said[c] \notin {"idle", "waiting", "success"}
  BY <1>1, <1>3 DEF WsAt
<1>4. CASE said[c] \in {"idle", "waiting", "success"}
  <2>1. WsSent(c) /\ WsEnd(c)
    BY <1>4 DEF WsAt
  <2>2. Len(<< >>) = 0 /\ \A k \in 1..0 : FALSE
    BY EmptySeq
  <2>3. Numbers(wire'[c], "chunk") = {} /\ Unrepeated(wire'[c]) /\ ~Has(wire'[c], "complete")
    BY <1>1, <2>2 DEF Numbers, Unrepeated, Has
  <2>4. \A kind \in {"ack", "done"}, k \in 1..Len(back'[c]) :
          back'[c][k].kind = kind => k \in 1..Len(back[c]) /\ back'[c][k] = back[c][k]
    <3>1. CASE said[c] # "waiting"
      <4>1. back'[c] = << >>
        BY <3>1, RestartTells
      <4> QED BY <2>2, <4>1
    <3>2. CASE said[c] = "waiting" /\ Len(back'[c]) = 1 /\ back'[c][1].kind = "closed"
      BY <3>2
    <3>3. CASE said[c] = "waiting" /\ ~(Len(back'[c]) = 1 /\ back'[c][1].kind = "closed")
      <4>1. /\ Len(back[c]) \in Nat /\ Len(back'[c]) = Len(back[c]) + 1
            /\ back'[c][Len(back[c]) + 1].kind = "closed"
            /\ \A k \in 1..Len(back[c]) : back'[c][k] = back[c][k]
        BY <3>3, RestartTells
      <4>2. \A k \in 1..Len(back'[c]) : k \in 1..Len(back[c]) \/ k = Len(back[c]) + 1
        BY <4>1
      <4> QED BY <4>1, <4>2
    <3> QED BY <3>1, <3>2, <3>3
  <2>5. /\ Numbers(back'[c], "ack") \subseteq Numbers(back[c], "ack")
        /\ Has(back'[c], "done") => Has(back[c], "done")
    BY <2>4 DEF Numbers, Has
  <2> DEFINE gone == (sent'[c] \ reading'[c]) \ Numbers(wire'[c], "chunk")
  <2>6. Gone(c) \subseteq gone
    BY <1>1, <2>3 DEF Gone
  <2>7. /\ reading'[c] \subseteq sent'[c] /\ sent'[c] \subseteq Chunks(c)
        /\ acked'[c] \subseteq gone /\ Numbers(back'[c], "ack") \subseteq gone
    BY <1>1, <2>1, <2>5, <2>6 DEF WsSent
  <2>8. said'[c] = "success" \/ Has(back'[c], "done") => Ending(c)
    BY <1>1, <2>5 DEF Ending
  <2>9. Ending(c) \/ Has(wire'[c], "complete") => acked'[c] = Chunks(c)
    BY <1>1, <2>1, <2>3 DEF WsEnd
  <2> HIDE DEF gone
  <2> QED
    <3>1. gone = (sent'[c] \ reading'[c]) \ Numbers(wire'[c], "chunk")
      BY DEF gone
    <3>2. Numbers(wire'[c], "chunk") \subseteq sent'[c] \ reading'[c]
      BY <2>3
    <3>3. size'[c] = size[c]
      BY <1>1
    <3> QED BY <1>2, <1>4, <2>3, <2>6, <2>7, <2>8, <2>9, <3>1, <3>2, <3>3, WsKept
<1> QED BY <1>3, <1>4

\* What a page's message adds to its connection, and what it hears.
LEMMA WsSends ==
  ASSUME IInv, NEW c \in Clients, NEW m \in Message, Send(c, m), NEW kind
  PROVE  /\ Numbers(wire'[c], kind) \subseteq
              Numbers(wire[c], kind) \cup (IF m.kind = kind THEN {m.i} ELSE {})
         /\ Has(wire'[c], kind) => Has(wire[c], kind) \/ m.kind = kind
         /\ Unrepeated(wire[c]) /\ (m.kind = "chunk" => m.i \notin Numbers(wire[c], "chunk"))
              => Unrepeated(wire'[c])
<1>1. /\ wire[c] \in Seq(Message)
      /\ wire'[c] = wire[c] \/ wire'[c] = Append(wire[c], m)
  BY SendForm DEF IInv, FormInv
<1>2. CASE wire'[c] = wire[c]
  BY <1>2
<1>3. CASE wire'[c] = Append(wire[c], m)
  BY <1>1, <1>3, NumbersAppend
<1> QED BY <1>1, <1>2, <1>3

LEMMA WsHears ==
  ASSUME IInv, NEW c \in Clients, NEW kind, Hearing(c, kind)
  PROVE  /\ said[c] = "waiting" /\ UNCHANGED <<via, size, disk>>
         /\ Numbers(back'[c], "ack") \subseteq Numbers(back[c], "ack")
         /\ Has(back'[c], "done") => Has(back[c], "done")
         /\ Has(back[c], kind) /\ Head(back[c]).i \in Numbers(back[c], kind)
<1>1. /\ back \in [Clients -> Seq(Message)] /\ back[c] # << >> /\ Head(back[c]).kind = kind
      /\ back' = [back EXCEPT ![c] = Tail(@)] /\ said[c] = "waiting"
      /\ UNCHANGED <<via, size, disk>>
  BY DEF Hearing, IInv, FormInv, card
<1>2. back'[c] = Tail(back[c])
  BY <1>1
<1> QED BY <1>1, <1>2, NumbersTail

\* The chunks a page starts next.
LEMMA WsBatch ==
  ASSUME CardForm, NEW c \in Clients, WsSent(c), StartBatch(c), reading \in [Clients -> SUBSET Nat]
  PROVE  /\ reading'[c] \subseteq sent'[c] /\ sent'[c] \subseteq Chunks(c)
         /\ sent'[c] \ reading'[c] = sent[c] \ reading[c]
<1>1. sent \in [Clients -> SUBSET Nat]
  BY DEF CardForm
<1> DEFINE new == NextBatch(c)
<1>2. new \subseteq Chunks(c) \ sent[c]
  BY DEF NextBatch
<1>3. sent'[c] = sent[c] \cup new /\ reading'[c] = reading[c] \cup new
  BY <1>1 DEF StartBatch
<1>4. reading[c] \subseteq sent[c] /\ sent[c] \subseteq Chunks(c)
  BY DEF WsSent
<1> HIDE DEF new
<1> QED BY <1>2, <1>3, <1>4

LEMMA WsPageSteps ==
  ASSUME IInv, CardInv, NEW c \in Clients, via[c] = "ws", WsAt(c), Start(c) \/ Leave(c) \/ Page(c)
  PROVE  WsAt(c)'
<1>1. /\ said \in [Clients -> {"idle", "waiting", "success", "failed", "stuck", "left"}]
      /\ reading \in [Clients -> SUBSET Nat] /\ acked \in [Clients -> SUBSET Nat]
      /\ wire \in [Clients -> Seq(Message)] /\ back \in [Clients -> Seq(Message)]
      /\ size \in [Clients -> Nat \ {0}] /\ CardForm
  BY DEF IInv, FormInv, CardInv
<1>2. said[c] \in {"idle", "waiting"}
  BY DEF Start, Leave, Page, WsLoaded, HearReady, WsHearAck, HearAck, HearDone, HearFailed,
         HearClosed, Hearing
<1>3. WsSent(c) /\ WsEnd(c)
  BY <1>2 DEF WsAt
<1>4. /\ size' = size /\ disk' = disk
  BY DEF Start, Leave, Page, WsLoaded, HearReady, WsHearAck, HearAck, HearDone, HearFailed,
         HearClosed, Hearing, card
<1> DEFINE gone == (sent'[c] \ reading'[c]) \ Numbers(wire'[c], "chunk")
<1>5. ASSUME said'[c] = "left" \/ said'[c] = "failed" \/ said'[c] = "stuck"
      PROVE  WsAt(c)'
  BY <1>5 DEF WsAt
<1>6. CASE Leave(c) \/ HearFailed(c) \/ HearClosed(c)
  <2>1. said'[c] = "left" \/ said'[c] = "failed" \/ said'[c] = "stuck"
    BY <1>1, <1>6 DEF Leave, HearFailed, HearClosed, Tell
  <2> QED BY <1>5, <2>1
<1>7. CASE HearAck(c)
  BY <1>7 DEF HearAck
<1>8. CASE Start(c)
  <2>1. Msg("start") \in Message /\ Msg("start").kind = "start"
    BY MessageForm DEF Msg, Kinds
  <2>2. /\ Send(c, Msg("start")) /\ said'[c] = "waiting"
        /\ UNCHANGED <<reading, sent, acked, back>>
    BY <1>1, <1>8 DEF Start, Tell
  <2>3. /\ Numbers(wire'[c], "chunk") \subseteq Numbers(wire[c], "chunk")
        /\ Has(wire'[c], "complete") => Has(wire[c], "complete")
        /\ Unrepeated(wire[c]) => Unrepeated(wire'[c])
    BY <2>1, <2>2, WsSends
  <2>4. Gone(c) \subseteq gone
    BY <2>2, <2>3 DEF Gone
  <2>5. /\ reading'[c] \subseteq sent'[c] /\ sent'[c] \subseteq Chunks(c)
        /\ Numbers(wire'[c], "chunk") \subseteq sent'[c] \ reading'[c] /\ Unrepeated(wire'[c])
        /\ acked'[c] \subseteq gone /\ Numbers(back'[c], "ack") \subseteq gone
    BY <1>3, <2>2, <2>3, <2>4 DEF WsSent
  <2>6. said'[c] = "success" \/ Has(back'[c], "done") => Ending(c)
    BY <2>2 DEF Ending
  <2>7. Ending(c) \/ Has(wire'[c], "complete") => acked'[c] = Chunks(c)
    BY <1>3, <2>2, <2>3 DEF WsEnd
  <2> HIDE DEF gone
  <2> QED BY <1>2, <1>4, <2>4, <2>5, <2>6, <2>7, WsKept DEF gone
<1>9. CASE WsLoaded(c)
  <2>1. PICK i \in reading[c] : reading' = [reading EXCEPT ![c] = @ \ {i}] /\ Send(c, Chunk(i))
    BY <1>9 DEF WsLoaded
  <2>2. i \in Nat /\ Chunk(i) \in Message /\ Chunk(i).kind = "chunk" /\ Chunk(i).i = i
    BY <1>1, <2>1, MessageForm DEF Chunk, Kinds
  <2>3. /\ reading'[c] = reading[c] \ {i} /\ UNCHANGED <<said, sent, acked, back>>
    BY <1>1, <1>9, <2>1 DEF WsLoaded
  <2>4. i \in sent[c] /\ i \notin Numbers(wire[c], "chunk")
    BY <1>3, <2>1 DEF WsSent
  <2>5. /\ Numbers(wire'[c], "chunk") \subseteq Numbers(wire[c], "chunk") \cup {i}
        /\ Has(wire'[c], "complete") => Has(wire[c], "complete")
        /\ Unrepeated(wire[c]) => Unrepeated(wire'[c])
    BY <2>1, <2>2, <2>4, WsSends
  <2>6. Gone(c) \subseteq gone
    BY <2>1, <2>3, <2>5 DEF Gone
  <2>7. /\ reading'[c] \subseteq sent'[c] /\ sent'[c] \subseteq Chunks(c)
        /\ Numbers(wire'[c], "chunk") \subseteq sent'[c] \ reading'[c] /\ Unrepeated(wire'[c])
        /\ acked'[c] \subseteq gone /\ Numbers(back'[c], "ack") \subseteq gone
    BY <1>3, <2>3, <2>4, <2>5, <2>6 DEF WsSent
  <2>8. said'[c] = "success" \/ Has(back'[c], "done") => Ending(c)
    BY <2>3 DEF Ending
  <2>9. Ending(c) \/ Has(wire'[c], "complete") => acked'[c] = Chunks(c)
    BY <1>3, <2>3, <2>5 DEF WsEnd
  <2> HIDE DEF gone
  <2> QED BY <1>2, <1>4, <2>6, <2>7, <2>8, <2>9, WsKept DEF gone
<1>10. CASE HearReady(c)
  <2>1. Hearing(c, "ready") /\ StartBatch(c) /\ UNCHANGED <<said, acked, wire>>
    BY <1>10 DEF HearReady
  <2>2. /\ reading'[c] \subseteq sent'[c] /\ sent'[c] \subseteq Chunks(c)
        /\ sent'[c] \ reading'[c] = sent[c] \ reading[c]
    BY <1>1, <1>3, <2>1, WsBatch
  <2>3. /\ Numbers(back'[c], "ack") \subseteq Numbers(back[c], "ack")
        /\ Has(back'[c], "done") => Has(back[c], "done")
    BY <2>1, WsHears
  <2>4. Gone(c) = gone
    BY <2>1, <2>2 DEF Gone
  <2>5. /\ Numbers(wire'[c], "chunk") \subseteq sent'[c] \ reading'[c] /\ Unrepeated(wire'[c])
        /\ acked'[c] \subseteq gone /\ Numbers(back'[c], "ack") \subseteq gone
    BY <1>3, <2>1, <2>2, <2>3, <2>4 DEF WsSent
  <2>6. said'[c] = "success" \/ Has(back'[c], "done") => Ending(c)
    BY <2>1, <2>3 DEF Ending
  <2>7. Ending(c) \/ Has(wire'[c], "complete") => acked'[c] = Chunks(c)
    BY <1>3, <2>1 DEF WsEnd
  <2> HIDE DEF gone
  <2> QED BY <1>2, <1>4, <2>2, <2>4, <2>5, <2>6, <2>7, WsKept DEF gone
<1>11. CASE WsHearAck(c)
  <2> DEFINE i == Head(back[c]).i
  <2>1. /\ Hearing(c, "ack") /\ acked'[c] = acked[c] \cup {i} /\ UNCHANGED said
        /\ \/ /\ acked'[c] = Chunks(c)
              /\ Send(c, Msg("complete")) /\ UNCHANGED <<reading, sent>>
           \/ StartBatch(c) /\ UNCHANGED wire
    BY <1>1, <1>11 DEF WsHearAck
  <2>2. /\ Numbers(back'[c], "ack") \subseteq Numbers(back[c], "ack")
        /\ Has(back'[c], "done") => Has(back[c], "done")
        /\ i \in Numbers(back[c], "ack")
    BY <2>1, WsHears
  <2>3. Msg("complete") \in Message /\ Msg("complete").kind = "complete"
    BY MessageForm DEF Msg, Kinds
  <2>4. /\ reading'[c] \subseteq sent'[c] /\ sent'[c] \subseteq Chunks(c)
        /\ sent'[c] \ reading'[c] = sent[c] \ reading[c]
    <3>1. reading[c] \subseteq sent[c] /\ sent[c] \subseteq Chunks(c)
      BY <1>3 DEF WsSent
    <3> QED BY <1>1, <1>3, <2>1, <3>1, WsBatch
  <2>5. /\ Numbers(wire'[c], "chunk") \subseteq Numbers(wire[c], "chunk")
        /\ Has(wire'[c], "complete") => Has(wire[c], "complete") \/ acked'[c] = Chunks(c)
        /\ Unrepeated(wire[c]) => Unrepeated(wire'[c])
    <3>1. CASE UNCHANGED wire
      BY <3>1
    <3>2. CASE acked'[c] = Chunks(c) /\ Send(c, Msg("complete"))
      BY <2>3, <3>2, WsSends
    <3> QED BY <2>1, <3>1, <3>2
  <2>6. Gone(c) \subseteq gone
    BY <2>4, <2>5 DEF Gone
  <2>7. i \in Gone(c) /\ acked[c] \subseteq Gone(c) /\ Numbers(back[c], "ack") \subseteq Gone(c)
    BY <1>3, <2>2 DEF WsSent
  <2>8. acked'[c] \subseteq gone /\ Numbers(back'[c], "ack") \subseteq gone
    BY <2>1, <2>2, <2>6, <2>7
  <2>9. Numbers(wire'[c], "chunk") \subseteq sent'[c] \ reading'[c] /\ Unrepeated(wire'[c])
    BY <1>3, <2>4, <2>5 DEF WsSent
  <2>10. said'[c] = "success" \/ Has(back'[c], "done") => Ending(c)
    BY <2>1, <2>2 DEF Ending
  <2>11. acked[c] = Chunks(c) => acked'[c] = Chunks(c)
    BY <1>3, <2>1, <2>7 DEF WsSent, Gone
  <2>12. Ending(c) \/ Has(wire'[c], "complete") => acked'[c] = Chunks(c)
    BY <1>3, <2>5, <2>11 DEF WsEnd
  <2> HIDE DEF gone
  <2> QED BY <1>2, <1>4, <2>4, <2>6, <2>8, <2>9, <2>10, <2>12, WsKept DEF gone
<1>12. CASE HearDone(c)
  <2>1. Hearing(c, "done") /\ UNCHANGED <<reading, sent, acked, wire>>
    BY <1>12 DEF HearDone
  <2>2. /\ Numbers(back'[c], "ack") \subseteq Numbers(back[c], "ack")
        /\ Has(back[c], "done")
    BY <2>1, WsHears
  <2>3. Gone(c) = gone /\ Ending(c)
    BY <2>1, <2>2 DEF Gone, Ending
  <2>4. /\ reading'[c] \subseteq sent'[c] /\ sent'[c] \subseteq Chunks(c)
        /\ Numbers(wire'[c], "chunk") \subseteq sent'[c] \ reading'[c] /\ Unrepeated(wire'[c])
        /\ acked'[c] \subseteq gone /\ Numbers(back'[c], "ack") \subseteq gone
    BY <1>3, <2>1, <2>2, <2>3 DEF WsSent
  <2>5. acked'[c] = Chunks(c)
    BY <1>3, <2>1, <2>3 DEF WsEnd
  <2> HIDE DEF gone
  <2> QED BY <1>2, <1>4, <2>3, <2>4, <2>5, WsKept DEF gone
<1> QED BY <1>6, <1>7, <1>8, <1>9, <1>10, <1>11, <1>12 DEF Page

\* What the server's taking one message and answering with m, or not, does.
LEMMA WsServer ==
  ASSUME IInv, NEW c \in Clients, WsSent(c), wire[c] # << >>,
         wire' = [wire EXCEPT ![c] = Tail(@)], UNCHANGED <<size, said, reading, sent, acked>>,
         NEW m \in Message, Answer(c, m) \/ UNCHANGED back,
         m.kind = "ack" => Head(wire[c]).kind = "chunk" /\ m.i = Head(wire[c]).i
  PROVE  /\ WsSent(c)' /\ Gone(c) \subseteq Gone(c)'
         /\ Head(wire[c]).kind = "chunk" =>
              /\ Head(wire[c]).i \in Nat /\ Head(wire[c]).i \in Chunks(c)
              /\ Head(wire[c]).i \notin Gone(c) /\ Head(wire[c]).i \in Gone(c)'
         /\ Has(wire'[c], "complete") => Has(wire[c], "complete")
         /\ Has(wire[c], Head(wire[c]).kind)
         /\ Ending(c)' => Ending(c) \/ m.kind = "done"
<1> DEFINE i    == Head(wire[c]).i
           gone == (sent'[c] \ reading'[c]) \ Numbers(wire'[c], "chunk")
<1>1. /\ wire[c] \in Seq(Message) /\ back[c] \in Seq(Message) /\ wire'[c] = Tail(wire[c])
      /\ i \in Nat
  BY HeadForm DEF IInv, FormInv
<1>2. back'[c] = back[c] \/ back'[c] = Append(back[c], m)
  BY AnswerForm DEF IInv, FormInv
<1>3. /\ Numbers(back'[c], "ack") \subseteq
            Numbers(back[c], "ack") \cup (IF m.kind = "ack" THEN {m.i} ELSE {})
      /\ Has(back'[c], "done") => Has(back[c], "done") \/ m.kind = "done"
  <2>1. CASE back'[c] = back[c]
    BY <2>1
  <2>2. CASE back'[c] = Append(back[c], m)
    BY <1>1, <2>2, NumbersAppend
  <2> QED BY <1>2, <2>1, <2>2
<1>4. /\ Numbers(wire'[c], "chunk") \subseteq Numbers(wire[c], "chunk")
      /\ Has(wire'[c], "complete") => Has(wire[c], "complete")
      /\ Has(wire[c], Head(wire[c]).kind)
      /\ Unrepeated(wire[c]) => Unrepeated(wire'[c])
      /\ Head(wire[c]).kind = "chunk" => i \in Numbers(wire[c], "chunk")
      /\ Unrepeated(wire[c]) /\ Head(wire[c]).kind = "chunk" => i \notin Numbers(wire'[c], "chunk")
  BY <1>1, NumbersTail
<1>5. /\ reading[c] \subseteq sent[c] /\ sent[c] \subseteq Chunks(c)
      /\ Numbers(wire[c], "chunk") \subseteq sent[c] \ reading[c] /\ Unrepeated(wire[c])
      /\ acked[c] \subseteq Gone(c) /\ Numbers(back[c], "ack") \subseteq Gone(c)
  BY DEF WsSent
<1>6. Gone(c)' = gone
  BY DEF Gone, Numbers
<1>7. /\ Gone(c) \subseteq gone
      /\ Head(wire[c]).kind = "chunk" => i \in Chunks(c) /\ i \notin Gone(c) /\ i \in gone
  BY <1>4, <1>5 DEF Gone
<1>8. Numbers(back'[c], "ack") \subseteq gone
  BY <1>3, <1>5, <1>7
<1>9. WsSent(c)'
  <2>1. /\ reading'[c] \subseteq sent'[c] /\ sent'[c] \subseteq Chunks(c)
        /\ Numbers(wire'[c], "chunk") \subseteq sent'[c] \ reading'[c] /\ Unrepeated(wire'[c])
        /\ acked'[c] \subseteq gone /\ Numbers(back'[c], "ack") \subseteq gone
    BY <1>4, <1>5, <1>7, <1>8
  <2>2. Chunks(c)' = Chunks(c)
    BY DEF Chunks
  <2> HIDE DEF gone
  <2> QED BY <1>6, <2>1, <2>2 DEF WsSent, Numbers, Unrepeated
<1>10. Ending(c)' => Ending(c) \/ m.kind = "done"
  <2>1. Has(back[c], "done")' = Has(back'[c], "done")
    BY DEF Has
  <2> QED BY <1>3, <2>1 DEF Ending
<1> HIDE DEF gone
<1> QED BY <1>1, <1>4, <1>6, <1>7, <1>9, <1>10

\* One more piece on the card, or none of them.
LEMMA WsDiskMore ==
  ASSUME CardForm, NEW c \in Clients, WsDisk(c), Gone(c) \subseteq Gone(c)',
         NEW i \in Nat, i \notin Gone(c), i \in Gone(c)', NEW x \in {Piece(c, i), Part(c)},
         Gone(c) \subseteq Nat,
         disk' = [disk EXCEPT ![c] = Append(IF i = 0 THEN << >> ELSE @, x)]
  PROVE  WsDisk(c)'
<1> DEFINE q == IF i = 0 THEN << >> ELSE disk[c]
<1>1. disk[c] \in Seq(Pieces) /\ disk \in [Clients -> Seq(Pieces)]
  BY DEF CardForm
<1>2. /\ q \in Seq(Pieces) /\ Len(q) \in Nat /\ (i = 0 => Len(q) = 0)
      /\ \A k \in 1..Len(q) : k \in 1..Len(disk[c]) /\ q[k] = disk[c][k] /\ i # 0
  <2>1. << >> \in Seq(Pieces) /\ Len(<< >>) = 0 /\ \A k \in 1..0 : FALSE
    BY EmptySeq
  <2> QED BY <1>1, <2>1, LenProperties
<1>3. x \in Pieces /\ Piece(c, i) # Part(c)
  BY PieceForm
<1>4. disk'[c] = Append(q, x)
  BY <1>1
<1> HIDE DEF q
<1>5. /\ Len(disk'[c]) = Len(q) + 1 /\ disk'[c][Len(q) + 1] = x
      /\ \A k \in 1..Len(q) : disk'[c][k] = q[k]
  BY <1>2, <1>3, <1>4, AppendProperties
<1>6. \A k \in 1..Len(disk'[c]) : k \in 1..Len(q) \/ k = Len(q) + 1
  BY <1>2, <1>5
<1>7. \A k \in 1..Len(q) :
        \/ q[k] = Part(c)
        \/ \E j \in Gone(c) : q[k] = Piece(c, j) /\ (j = 0 => k = 1)
  BY <1>2 DEF WsDisk
<1>8. \A k \in 1..Len(disk'[c]) :
        \/ disk'[c][k] = Part(c)
        \/ \E j \in Gone(c)' : disk'[c][k] = Piece(c, j) /\ (j = 0 => k = 1)
  <2>1. SUFFICES ASSUME NEW k \in 1..Len(disk'[c])
        PROVE  \/ disk'[c][k] = Part(c)
               \/ \E j \in Gone(c)' : disk'[c][k] = Piece(c, j) /\ (j = 0 => k = 1)
    OBVIOUS
  <2>2. CASE k \in 1..Len(q)
    BY <1>5, <1>7, <2>2
  <2>3. CASE k = Len(q) + 1
    <3>1. i = 0 => k = 1
      BY <1>2, <2>3
    <3> QED BY <1>5, <2>3, <3>1
  <2> QED BY <1>6, <2>1, <2>2, <2>3
<1>9. \A k \in 1..Len(q) : q[k] # Piece(c, i)
  <2>1. \A j \in Nat : Piece(c, j) = Piece(c, i) => j = i
    BY DEF Piece
  <2> QED BY <1>3, <1>7, <2>1
<1>10. \A j, k \in 1..Len(disk'[c]) : disk'[c][j] = disk'[c][k] /\ disk'[c][j] # Part(c) => j = k
  <2>1. SUFFICES ASSUME NEW j \in 1..Len(disk'[c]), NEW k \in 1..Len(disk'[c]),
                        disk'[c][j] = disk'[c][k], disk'[c][j] # Part(c)
        PROVE  j = k
    OBVIOUS
  <2>2. CASE j \in 1..Len(q) /\ k \in 1..Len(q)
    <3>1. q[j] = q[k] /\ q[j] # Part(c)
      BY <1>5, <2>1, <2>2
    <3> QED BY <1>2, <2>2, <3>1 DEF WsDisk
  <2>3. CASE j \in 1..Len(q) /\ k = Len(q) + 1
    BY <1>5, <1>9, <2>1, <2>3
  <2>4. CASE k \in 1..Len(q) /\ j = Len(q) + 1
    BY <1>5, <1>9, <2>1, <2>4
  <2> QED BY <1>6, <2>2, <2>3, <2>4
<1> QED BY <1>8, <1>10 DEF WsDisk, Piece, Part

LEMMA WsServerSteps ==
  ASSUME IInv, CardInv, NEW c \in Clients, via[c] = "ws", WsAt(c), Httpd(c)
  PROVE  WsAt(c)'
<1>1. /\ CardForm /\ size \in [Clients -> Nat \ {0}]
      /\ session.id = c => session.total = size[c]
  BY DEF IInv, FormInv, CardInv, Sessions
<1>2. UploadStart(c) \/ WsChunk(c) \/ WsChunkFails(c) \/ WsComplete(c)
  BY DEF Httpd, HttpChunk, HttpOpenFails, HttpWriteFails, HttpShort, HttpCut, HttpNoMemory, Taking
<1>3. /\ wire[c] # << >> /\ wire' = [wire EXCEPT ![c] = Tail(@)]
      /\ UNCHANGED <<size, said, reading, sent, acked>>
  BY <1>2 DEF UploadStart, WsChunk, WsChunkFails, WsComplete, Taking, page
<1>4. CASE said[c] \notin {"idle", "waiting", "success"}
  BY <1>3, <1>4 DEF WsAt
<1>5. CASE said[c] \in {"idle", "waiting", "success"}
  <2>1. WsSent(c) /\ WsDisk(c) /\ WsEnd(c)
    BY <1>5 DEF WsAt
  <2>2. /\ Ending(c) \/ Has(wire[c], "complete") => acked[c] = Chunks(c)
        /\ Ending(c) => Len(disk[c]) = size[c] /\ \A k \in 1..Len(disk[c]) : disk[c][k] # Part(c)
    BY <2>1 DEF WsEnd
  <2>3. /\ acked[c] \subseteq Gone(c) /\ Gone(c) \subseteq Nat
    <3>1. sent[c] \subseteq Nat
      BY <1>1 DEF CardForm
    <3> QED BY <2>1, <3>1 DEF WsSent, Gone
  <2>4. Chunks(c)' = Chunks(c)
    BY <1>3 DEF Chunks
  <2>5. ASSUME NEW m \in Message, Answer(c, m) \/ UNCHANGED back, m.kind \notin {"ack", "done"},
               disk' = disk
        PROVE  WsAt(c)'
    <3>1. /\ WsSent(c)' /\ Gone(c) \subseteq Gone(c)'
          /\ Has(wire'[c], "complete") => Has(wire[c], "complete")
          /\ Ending(c)' => Ending(c)
      BY <1>3, <2>1, <2>5, WsServer
    <3>2. WsDisk(c)'
      BY <2>1, <2>5, <3>1 DEF WsDisk, Piece, Part
    <3>3. WsEnd(c)'
      BY <1>3, <2>2, <2>4, <2>5, <3>1 DEF WsEnd, Has, Part
    <3> QED BY <3>1, <3>2, <3>3 DEF WsAt
  <2>6. Msg("ready") \in Message /\ Msg("done") \in Message /\ Msg("failed") \in Message
    BY MessageForm DEF Msg, Kinds
  <2>7. CASE UploadStart(c)
    <3>1. Answer(c, Msg("ready")) /\ disk' = disk /\ Msg("ready").kind = "ready"
      BY <2>7 DEF UploadStart, card, Msg
    <3> QED BY <2>5, <2>6, <3>1
  <2>8. CASE WsChunk(c) \/ WsChunkFails(c)
    <3> DEFINE i == Head(wire[c]).i
    <3>1. Head(wire[c]).kind = "chunk"
      BY <2>8 DEF WsChunk, WsChunkFails, Taking
    <3>2. i \in Nat
      BY <1>3, HeadForm DEF IInv, FormInv
    <3>3. Ack(i) \in Message /\ Ack(i).kind = "ack" /\ Ack(i).i = i
      BY <3>2, MessageForm DEF Ack, Kinds
    <3>4. Answer(c, Ack(i)) \/ UNCHANGED back
      BY <2>8 DEF WsChunk, WsChunkFails
    <3>5. /\ WsSent(c)' /\ Gone(c) \subseteq Gone(c)'
          /\ i \in Chunks(c) /\ i \notin Gone(c) /\ i \in Gone(c)'
          /\ Has(wire'[c], "complete") => Has(wire[c], "complete")
          /\ Ending(c)' => Ending(c)
      BY <1>3, <2>1, <3>1, <3>3, <3>4, WsServer
    <3>6. acked[c] # Chunks(c)
      BY <2>3, <3>5
    <3>7. ~Ending(c)' /\ ~Has(wire'[c], "complete")
      BY <2>2, <3>5, <3>6
    <3>8. WsEnd(c)'
      BY <3>7 DEF WsEnd, Has
    <3>9. \/ disk' = disk
          \/ \E x \in {Piece(c, i), Part(c)} :
               disk' = [disk EXCEPT ![c] = Append(IF i = 0 THEN << >> ELSE @, x)]
      BY <2>8 DEF WsChunk, WsChunkFails
    <3>10. WsDisk(c)'
      <4>1. CASE disk' = disk
        BY <2>1, <3>5, <4>1 DEF WsDisk, Piece, Part
      <4>2. CASE disk' # disk
        <5>1. PICK x \in {Piece(c, i), Part(c)} :
                disk' = [disk EXCEPT ![c] = Append(IF i = 0 THEN << >> ELSE @, x)]
          BY <3>9, <4>2
        <5> HIDE DEF i
        <5> QED BY <1>1, <2>1, <2>3, <3>2, <3>5, <5>1, WsDiskMore
      <4> QED BY <4>1, <4>2
    <3> QED BY <3>5, <3>8, <3>10 DEF WsAt
  <2>9. CASE WsComplete(c)
    <3> DEFINE mine  == session.active /\ session.id = c
               whole == /\ Len(disk[c]) = session.total
                        /\ Part(c) \notin {disk[c][k] : k \in DOMAIN disk[c]}
    <3>1. /\ mine => /\ disk' = IF whole THEN disk ELSE [disk EXCEPT ![c] = << >>]
                     /\ Answer(c, Msg(IF whole THEN "done" ELSE "failed"))
          /\ ~mine => Answer(c, Msg("failed")) /\ disk' = disk
          /\ Head(wire[c]).kind = "complete"
      BY <2>9 DEF WsComplete, Taking
    <3>2. CASE ~mine
      <4>1. Msg("failed").kind = "failed"
        BY DEF Msg
      <4> QED BY <2>5, <2>6, <3>1, <3>2, <4>1
    <3>3. CASE mine
      <4> DEFINE m == Msg(IF whole THEN "done" ELSE "failed")
      <4>1. m \in Message /\ m.kind # "ack" /\ (m.kind = "done" <=> whole)
        BY <2>6 DEF Msg
      <4> HIDE DEF m
      <4>2. Answer(c, m)
        BY <3>1, <3>3 DEF m
      <4>3. /\ WsSent(c)' /\ Gone(c) \subseteq Gone(c)'
            /\ Has(wire'[c], "complete") => Has(wire[c], "complete")
            /\ Has(wire[c], "complete")
            /\ Ending(c)' => Ending(c) \/ whole
        BY <1>3, <2>1, <3>1, <4>1, <4>2, WsServer
      <4>4. acked'[c] = Chunks(c)'
        BY <1>3, <2>2, <2>4, <4>3
      <4>5. disk[c] \in Seq(Pieces) /\ DOMAIN disk[c] = 1..Len(disk[c])
        BY <1>1, LenProperties DEF CardForm
      <4>6. Ending(c) => whole
        BY <1>1, <2>2, <3>3, <4>5
      <4>7. CASE whole
        <5>1. disk' = disk /\ Len(disk[c]) = size[c] /\ \A k \in 1..Len(disk[c]) : disk[c][k] # Part(c)
          BY <1>1, <3>1, <3>3, <4>5, <4>7
        <5>2. WsDisk(c)'
          BY <2>1, <4>3, <5>1 DEF WsDisk, Piece, Part
        <5>3. WsEnd(c)'
          BY <1>3, <4>4, <5>1 DEF WsEnd, Part
        <5> QED BY <4>3, <5>2, <5>3 DEF WsAt
      <4>8. CASE ~whole
        <5>1. disk'[c] = << >> /\ ~Ending(c)'
          BY <1>1, <3>1, <3>3, <4>3, <4>6, <4>8 DEF CardForm
        <5>2. Len(disk'[c]) = 0 /\ \A k \in 1..0 : FALSE
          BY <5>1, EmptySeq
        <5>3. WsDisk(c)'
          BY <5>2 DEF WsDisk
        <5>4. WsEnd(c)'
          BY <4>4, <5>1 DEF WsEnd
        <5> QED BY <4>3, <5>3, <5>4 DEF WsAt
      <4> QED BY <4>7, <4>8
    <3> QED BY <3>2, <3>3
  <2> QED BY <1>2, <2>7, <2>8, <2>9
<1> QED BY <1>4, <1>5

LEMMA WsNext ==
  ASSUME IInv, CardInv, WsInv, [Next]_vars
  PROVE  WsInv'
<1>1. CASE UNCHANGED vars
  <2>1. /\ UNCHANGED <<via, size, said, reading, sent, acked, wire, back, pc, slot, disk>>
        /\ UNCHANGED <<mixed, shared, opened, http, slots>>
    BY <1>1 DEF vars, page, server, card, history
  <2>2. \A s \in Slots : slots[s].got \in Nat
    BY DEF IInv, FormInv, SlotType
  <2>3. \A c \in Clients : Elsewhere(c)
    BY <2>1, <2>2 DEF Elsewhere
  <2> QED BY <2>1, <2>3, WsAside DEF WsInv
<1>2. ASSUME NEW d \in Clients, Start(d) \/ Leave(d) \/ Page(d) \/ Httpd(d) \/ Tcp(d)
      PROVE  WsInv'
  <2>1. SUFFICES ASSUME NEW c \in Clients, via'[c] = "ws"
        PROVE  WsAt(c)'
    BY DEF WsInv
  <2>2. via[c] = "ws" /\ WsAt(c)
    BY <1>2, <2>1, ViaSame DEF WsInv
  <2>3. CASE TcpReturn(d)
    BY <2>2, <2>3, WsRestart
  <2>4. CASE ~TcpReturn(d) /\ c # d
    <3>1. Elsewhere(c)
      BY <1>2, <2>4, PageElsewhere, HttpdElsewhere, TcpElsewhere
    <3> QED BY <2>2, <3>1, WsAside
  <2>5. CASE ~TcpReturn(d) /\ c = d
    <3>1. ~Tcp(d)
      BY <2>2, <2>5, TaskForm
    <3> QED BY <1>2, <2>2, <2>5, <3>1, WsPageSteps, WsServerSteps
  <2> QED BY <2>3, <2>4, <2>5
<1> QED BY <1>1, <1>2 DEF Next

-----------------------------------------------------------------------------
(* The theorems *)

LEMMA InitTold ==
  ASSUME Init
  PROVE  HttpInv /\ TcpInv /\ WsInv
<1>1. HttpInv
  BY DEF Init, HttpInv, HttpAt
<1>2. TcpInv
  BY DEF Init, TcpInv, TcpAt
<1>3. Len(<< >>) = 0 /\ \A k \in 1..0 : FALSE
  BY EmptySeq
<1>4. ASSUME NEW c \in Clients
      PROVE  WsAt(c)
  <2>1. /\ said[c] = "idle" /\ reading[c] = {} /\ sent[c] = {} /\ acked[c] = {}
        /\ wire[c] = << >> /\ back[c] = << >> /\ disk[c] = << >>
    BY DEF Init
  <2>2. /\ Numbers(wire[c], "chunk") = {} /\ Numbers(back[c], "ack") = {}
        /\ Unrepeated(wire[c]) /\ ~Has(wire[c], "complete") /\ ~Has(back[c], "done")
    BY <1>3, <2>1 DEF Numbers, Unrepeated, Has
  <2>3. WsSent(c)
    BY <2>1, <2>2 DEF WsSent, Gone
  <2>4. WsDisk(c)
    BY <1>3, <2>1 DEF WsDisk
  <2>5. WsEnd(c)
    BY <2>1, <2>2 DEF WsEnd, Ending
  <2> QED BY <2>3, <2>4, <2>5 DEF WsAt
<1> QED BY <1>1, <1>2, <1>4 DEF WsInv

\* A file whose first m chunks are all of it is in order.
LEMMA StoredAll ==
  ASSUME CardForm, NEW c \in Clients, Stored(c, size[c])
  PROVE  InOrder(c)
<1>1. disk[c] \in Seq(Pieces)
  BY DEF CardForm
<1>2. disk[c] \in [1..Len(disk[c]) -> Pieces]
  BY <1>1, LenProperties
<1>3. Len(disk[c]) = size[c] /\ \A k \in 1..size[c] : disk[c][k] = Piece(c, k - 1)
  BY DEF Stored
<1> QED BY <1>2, <1>3 DEF InOrder

\* As many different chunks as the file has are all of its chunks.
LEMMA AllChunks ==
  ASSUME NEW n \in Nat, NEW f \in [1..n -> 0..n - 1], \A j, k \in 1..n : f[j] = f[k] => j = k,
         NEW i \in 0..n - 1
  PROVE  \E k \in 1..n : f[k] = i
<1>1. f \in Injection(1..n, 0..n - 1)
  BY Fun_IsInj
<1>2. /\ IsFiniteSet(0..n - 1) /\ Cardinality(1..n) = n /\ Cardinality(0..n - 1) = n
  BY FS_Interval
<1>3. f \in Surjection(1..n, 0..n - 1)
  BY <1>1, <1>2, FS_Injection
<1> QED BY <1>3 DEF Surjection

LEMMA WsTold ==
  ASSUME IInv, CardInv, WsInv
  PROVE  WsUploaded
<1>1. SUFFICES ASSUME NEW c \in Clients, said[c] = "success", via[c] = "ws"
      PROVE  /\ Len(disk[c]) = size[c]
             /\ disk[c][1] = Piece(c, 0)
             /\ \A i \in Chunks(c) : \E k \in 1..size[c] : disk[c][k] = Piece(c, i)
  BY DEF WsUploaded
<1> DEFINE n == size[c]
<1>2. WsSent(c) /\ WsDisk(c) /\ WsEnd(c)
  BY <1>1 DEF WsInv, WsAt
<1>3. n \in Nat \ {0}
  BY DEF IInv, FormInv
<1>4. Len(disk[c]) = n /\ \A k \in 1..n : disk[c][k] # Part(c)
  BY <1>1, <1>2 DEF WsEnd, Ending
<1>5. Gone(c) \subseteq 0..n - 1
  BY <1>2 DEF WsSent, Gone, Chunks
<1>6. \A k \in 1..n : \E i \in 0..n - 1 : disk[c][k] = Piece(c, i) /\ (i = 0 => k = 1)
  BY <1>2, <1>4, <1>5 DEF WsDisk
<1>7. \A j, k \in 1..n : disk[c][j] = disk[c][k] => j = k
  BY <1>2, <1>4 DEF WsDisk
<1> DEFINE f == [k \in 1..n |-> disk[c][k][2]]
<1>8. \A k \in 1..n : f[k] \in 0..n - 1 /\ disk[c][k] = Piece(c, f[k]) /\ (f[k] = 0 => k = 1)
  BY <1>6 DEF Piece
<1> HIDE DEF n
<1>9. /\ f \in [1..n -> 0..n - 1]
      /\ \A j, k \in 1..n : f[j] = f[k] => j = k
  <2>1. f = [k \in 1..n |-> f[k]]
    OBVIOUS
  <2> HIDE DEF f
  <2>2. f \in [1..n -> 0..n - 1]
    BY <1>8, <2>1
  <2>3. ASSUME NEW j \in 1..n, NEW k \in 1..n, f[j] = f[k]
        PROVE  j = k
    <3>1. disk[c][j] = disk[c][k]
      BY <1>8, <2>3
    <3> QED BY <1>7, <3>1
  <2> QED BY <2>2, <2>3
<1> HIDE DEF f
<1>10. ASSUME NEW i \in 0..n - 1
       PROVE  \E k \in 1..n : f[k] = i
  BY <1>3, <1>9, AllChunks
<1>11. PICK k \in 1..n : f[k] = 0
  <2>1. 0 \in 0..n - 1
    BY <1>3
  <2> QED BY <1>10, <2>1
<1>12. disk[c][1] = Piece(c, 0)
  BY <1>8, <1>11
<1>13. \A i \in 0..n - 1 : \E j \in 1..n : disk[c][j] = Piece(c, i)
  BY <1>8, <1>10
<1> QED BY <1>4, <1>12, <1>13 DEF Chunks, n

LEMMA HttpTold ==
  ASSUME CardInv, HttpInv
  PROVE  HttpUploaded
<1>1. SUFFICES ASSUME NEW c \in Clients, said[c] = "success", via[c] = "http", c \notin mixed
      PROVE  InOrder(c)
  BY DEF HttpUploaded
<1>2. Stored(c, size[c])
  BY <1>1 DEF HttpInv, HttpAt, HttpKeeps
<1> QED BY <1>2, StoredAll DEF CardInv

LEMMA TcpTold ==
  ASSUME CardInv, TcpInv
  PROVE  TcpUploaded
<1>1. SUFFICES ASSUME NEW c \in Clients, said[c] = "success", via[c] = "tcp",
                      c \notin mixed \cup shared
      PROVE  InOrder(c)
  BY DEF TcpUploaded
<1>2. Stored(c, size[c])
  BY <1>1 DEF TcpInv, TcpAt, TcpKeeps
<1> QED BY <1>2, StoredAll DEF CardInv

\* "Upload completed successfully" on the page of a web socket means that every
\* chunk of the file is on the card once, and the first one first: whatever
\* other pages, requests and TCP clients do meanwhile, in whatever order the
\* browser's readers finish, and however often the device restarts.
THEOREM WsToldTrue == Spec => []WsUploaded
<1>1. Init => IInv /\ CardInv /\ WsInv
  BY InitIInv, InitCard, InitTold
<1>2. IInv /\ CardInv /\ WsInv /\ [Next]_vars => IInv' /\ CardInv' /\ WsInv'
  BY NextIInv, NextCard, WsNext
<1>3. IInv /\ CardInv /\ WsInv => WsUploaded
  BY WsTold
<1> QED BY <1>1, <1>2, <1>3, PTL DEF Spec

\* A page whose every request was acknowledged has its file on the card, whole
\* and in order, for any number of pages that share the static variables of
\* tcp_upload_chunk_handler, as long as no chunk went to another page's file.
THEOREM HttpToldTrue == Spec => []HttpUploaded
<1>1. Init => IInv /\ CardInv /\ HttpInv
  BY InitIInv, InitCard, InitTold
<1>2. IInv /\ CardInv /\ HttpInv /\ [Next]_vars => IInv' /\ CardInv' /\ HttpInv'
  BY NextIInv, NextCard, HttpNext
<1>3. IInv /\ CardInv /\ HttpInv => HttpUploaded
  BY HttpTold
<1> QED BY <1>1, <1>2, <1>3, PTL DEF Spec

\* A TCP client whose every chunk was acknowledged has its file on the card,
\* whole and in order, for any number of clients and slots and after every
\* restart, unless it found its slot together with another client or a chunk
\* went to the wrong file.
THEOREM TcpToldTrue == Spec => []TcpUploaded
<1>1. Init => IInv /\ CardInv /\ TcpInv
  BY InitIInv, InitCard, InitTold
<1>2. IInv /\ CardInv /\ TcpInv /\ [Next]_vars => IInv' /\ CardInv' /\ TcpInv'
  BY NextIInv, NextCard, TcpNext
<1>3. IInv /\ CardInv /\ TcpInv => TcpUploaded
  BY TcpTold
<1> QED BY <1>1, <1>2, <1>3, PTL DEF Spec
=============================================================================
