-------------------------- MODULE EventIfaceProps --------------------------
(***************************************************************************)
(* What the listener relies on.                                            *)
(***************************************************************************)
EXTENDS EventIface

Places(s, e) == {i \in DOMAIN s : s[i] = e}
Handles(e) == Cardinality(Places(queue_set, e))

\* Types of the fields of audio_event_iface.
TypeOK ==
    /\ queue \in [Evts -> 0..QueueSize]
    /\ sent \in [Evts -> 0..MaxSends]
    /\ member \subseteq Evts
    /\ queue_set \in Seq(Evts) /\ room \in Nat
    /\ items \in Seq(Evts) /\ Len(items) <= MaxItems
    /\ got \in Evts \cup {None}
    /\ pc \in {"idle", "drain", "leave", "edit", "empty", "join", "destroyed"}
    /\ at \in Nat
    /\ op \in [do : Changes \cup {"none"}, evt : Evts \cup {None}]
    /\ ret \in {"ok", "fail"}

\* After a change that returned ESP_OK every interface on the list is listened
\* to, and every message in a queue has its handle in the set: none sits there
\* unseen, whatever was sent while queues were emptied, removed and added
\* (audio_event_iface_cleanup_listener, audio_event_iface_update_listener).
NothingUnseen ==
    pc = "idle" /\ ret = "ok" =>
      /\ member = ToSet(items)
      /\ \A e \in member : queue[e] = Handles(e) + (IF got = e THEN 1 ELSE 0)

\* A message in a queue that is listened to is read, or discarded by a change.
ReportsArrive == \A e \in Evts : e \in member /\ queue[e] > 0 ~> queue[e] = 0

\* set_listener, remove_listener and destroy return, although senders fill the
\* queues again while they are emptied - unless an earlier change failed.
ChangesReturn == pc # "idle" /\ ret = "ok" ~> pc \in {"idle", "destroyed"}
=============================================================================
