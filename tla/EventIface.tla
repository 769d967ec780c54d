----------------------------- MODULE EventIface -----------------------------
(***************************************************************************)
(* audio_event_iface.c: one listener and the event interfaces it listens   *)
(* to.  Each of those has a queue, external_queue (or internal_queue, for  *)
(* set_msg_listener); the listener waits on a FreeRTOS queue set, in which *)
(* a queue that is a member leaves its handle for every message sent.      *)
(*                                                                         *)
(* FreeRTOS adds a queue to a set, and removes it, only while it is empty. *)
(* A listener is therefore changed by emptying and removing every queue,   *)
(* building a new set, and emptying and adding them again, while their     *)
(* owners go on sending.                                                   *)
(*                                                                         *)
(* The task that listens also changes the listener, as app_main does.      *)
(***************************************************************************)
EXTENDS Naturals, SequencesExt

CONSTANTS Evts,       \* event interfaces with a queue
          QueueSize,  \* external_queue_size, internal_queue_size
          MaxSends,   \* bound: messages sent by each
          MaxItems    \* bound: length of listening_queues

None == "none"

ASSUME EvtsAssumption == None \notin Evts
ASSUME BoundsAssumption == QueueSize \in Nat \ {0} /\ MaxSends \in Nat /\ MaxItems \in Nat

VARIABLES queue,      \* messages in each queue
          sent,       \* messages sent so far (bounded)
          member,     \* queues that are members of the set
          queue_set,  \* the handles in the set
          room,       \* the length the set was created with
          items,      \* listening_queues
          got,        \* the handle xQueueSelectFromSet returned
          pc, at,     \* where a change of the listener is, and at which item
          op,         \* the change
          ret         \* what the last change returned

sendVars == <<queue, sent>>
setVars == <<member, queue_set, room>>
opVars == <<pc, at, op, ret>>
vars == <<sendVars, setVars, items, got, opVars>>

Changes == {"add", "remove", "destroy"}
NoChange == [do |-> "none", evt |-> None]

Init == /\ queue = [e \in Evts |-> 0]
        /\ sent = [e \in Evts |-> 0]
        /\ member = {}
        /\ queue_set = << >>
        /\ room = QueueSize
        /\ items = << >>
        /\ got = None
        /\ pc = "idle"
        /\ at = 1
        /\ op = NoChange
        /\ ret = "ok"

-----------------------------------------------------------------------------
(* Senders and the listening task *)

\* audio_event_iface_sendout, audio_event_iface_cmd: a full queue refuses.
Sendout(e) ==
    /\ sent[e] < MaxSends
    /\ queue[e] < QueueSize
    /\ sent' = [sent EXCEPT ![e] = @ + 1]
    /\ queue' = [queue EXCEPT ![e] = @ + 1]
    /\ queue_set' = IF e \in member /\ Len(queue_set) < room
                    THEN Append(queue_set, e) ELSE queue_set
    /\ UNCHANGED <<member, room, items, got, opVars>>

\* The two calls of audio_event_iface_read; there is nothing to receive when
\* the handle was left over.
SelectFromSet ==
    /\ got = None
    /\ queue_set # << >>
    /\ got' = Head(queue_set)
    /\ queue_set' = Tail(queue_set)
    /\ UNCHANGED <<sendVars, member, room, items>>

ReceiveSelected ==
    /\ got # None
    /\ queue' = [queue EXCEPT ![got] = IF @ > 0 THEN @ - 1 ELSE 0]
    /\ got' = None
    /\ UNCHANGED <<sent, setVars, items>>

Listen == /\ pc = "idle"
          /\ SelectFromSet \/ ReceiveSelected
          /\ UNCHANGED opVars

-----------------------------------------------------------------------------
(* Changing the listener *)

\* A call of set_listener, remove_listener or destroy.
Change(do, e) ==
    /\ pc = "idle"
    /\ got = None
    /\ do = "add" => Len(items) < MaxItems
    /\ op' = [do |-> do, evt |-> e]
    /\ pc' = IF items = << >> THEN "edit" ELSE "drain"
    /\ at' = 1
    /\ UNCHANGED <<sendVars, setVars, items, got, ret>>

\* audio_event_iface_cleanup_listener reads until a read fails ...
DrainRead ==
    /\ pc = "drain"
    /\ \/ SelectFromSet /\ UNCHANGED pc
       \/ /\ ReceiveSelected
          /\ pc' = IF queue[got] = 0 THEN "leave" ELSE "drain"
    /\ UNCHANGED <<at, op, ret>>

DrainEnds ==
    /\ pc = "drain"
    /\ got = None /\ queue_set = << >>
    /\ pc' = "leave"
    /\ UNCHANGED <<sendVars, setVars, items, got, at, op, ret>>

\* mutant: what was sent in between is not read before the next attempt.
LeaveSpins ==
    /\ pc = "leave"
    /\ items[at] \in member
    /\ queue[items[at]] = 0
    /\ member' = member \ {items[at]}
    /\ pc' = IF at = Len(items) THEN "edit" ELSE "drain"
    /\ at' = at + 1
    /\ UNCHANGED <<sendVars, queue_set, room, items, got, op, ret>>

\* ... and removes the queue from the set, which fails if it is not empty again,
\* or not a member: then it reads and tries again.
Leave ==
    /\ pc = "leave"
    /\ IF items[at] \in member /\ queue[items[at]] = 0
       THEN /\ member' = member \ {items[at]}
            /\ pc' = IF at = Len(items) THEN "edit" ELSE "drain"
            /\ at' = at + 1
       ELSE /\ pc' = "drain"
            /\ UNCHANGED <<member, at>>
    /\ UNCHANGED <<sendVars, queue_set, room, items, got, op, ret>>

\* The loop of audio_event_iface_remove_listener: every item of the queue goes.
Unlist ==
    /\ pc = "edit" /\ op.do = "remove"
    /\ \E i \in DOMAIN items : items[i] = op.evt /\ items' = RemoveAt(items, i)
    /\ UNCHANGED <<sendVars, setVars, got, opVars>>

\* listening_queues after the change.
Edited == CASE op.do = "add" -> Append(items, op.evt)
            [] op.do = "remove" -> items
            [] op.do = "destroy" -> << >>

Editing == pc = "edit" /\ (op.do = "remove" => op.evt \notin ToSet(items))

\* mutant: the set keeps the size it was configured with.
EditKeepsSize ==
    /\ Editing
    /\ items' = Edited
    /\ queue_set' = << >>
    /\ room' = QueueSize
    /\ at' = 1
    /\ pc' = IF op.do = "destroy" THEN "destroyed" ELSE IF items' = << >> THEN "idle" ELSE "empty"
    /\ UNCHANGED <<sendVars, member, got, op, ret>>

\* The set is deleted, the list changed, and a set made for all of its queues.
Edit ==
    /\ Editing
    /\ items' = Edited
    /\ queue_set' = << >>
    /\ room' = QueueSize * Len(items')
    /\ at' = 1
    /\ pc' = IF op.do = "destroy" THEN "destroyed" ELSE IF items' = << >> THEN "idle" ELSE "empty"
    /\ UNCHANGED <<sendVars, member, got, op, ret>>

\* audio_event_iface_update_listener empties each queue ...
Empty ==
    /\ pc = "empty"
    /\ queue' = [queue EXCEPT ![items[at]] = 0]
    /\ pc' = "join"
    /\ UNCHANGED <<sent, setVars, items, got, at, op, ret>>

\* mutant: the error is logged only, and the next queue tried.
JoinRegardless ==
    /\ pc = "join"
    /\ member' = IF items[at] \notin member /\ queue[items[at]] = 0
                 THEN member \cup {items[at]} ELSE member
    /\ at' = at + 1
    /\ pc' = IF at = Len(items) THEN "idle" ELSE "empty"
    /\ ret' = "ok"
    /\ UNCHANGED <<sendVars, queue_set, room, items, got, op>>

\* ... and adds it to the set; when that fails, the call does, at this item.
Join ==
    /\ pc = "join"
    /\ IF items[at] \notin member /\ queue[items[at]] = 0
       THEN /\ member' = member \cup {items[at]}
            /\ at' = at + 1
            /\ pc' = IF at = Len(items) THEN "idle" ELSE "empty"
            /\ ret' = "ok"
       ELSE /\ pc' = "idle"
            /\ ret' = "fail"
            /\ UNCHANGED <<member, at>>
    /\ UNCHANGED <<sendVars, queue_set, room, items, got, op>>

-----------------------------------------------------------------------------
Changing == DrainRead \/ DrainEnds \/ Leave \/ Unlist \/ Edit \/ Empty \/ Join

Next == \/ \E e \in Evts : Sendout(e)
        \/ Listen
        \/ \E do \in {"add", "remove"}, e \in Evts : Change(do, e)
        \/ Change("destroy", None)
        \/ Changing

Spec == Init /\ [][Next]_vars

\* The listening task runs; the senders come to a pause (MaxSends).
FairSpec == Spec /\ WF_vars(Listen) /\ WF_vars(Changing)
=============================================================================
