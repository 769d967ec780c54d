-------------------------- MODULE SsidManagerProps --------------------------
(***************************************************************************)
(* What the store of networks promises the Wi-Fi service.                  *)
(***************************************************************************)
EXTENDS SsidManager

Places == {"create", "reset", "idle", "info", "count", "saved", "best", "best_conf",
           "off"} \cup Erasing

\* Types of the variables.
TypeOK ==
    /\ conf \in Conf \cup {NoConf}
    /\ info \in [Slots -> Entry \cup {NoEntry}]
    /\ op \in [pc : Places, new : Entry, key : Slots, conf : Conf,
               i : 0 .. MaxNum, buf : Entry]
    /\ tried \subseteq Networks \cup {Blank}
    /\ newer \subseteq Networks \X Networks

\* What the flash says: the slots that hold a network, the networks, and the one
\* to connect to.
Used == {i \in Slots : i < Got.exist /\ Loaded(i, Zero).ssid # Blank}
Network(e) == [ssid |-> e.ssid, pwd |-> e.pwd]
InFlash == {Network(info[i]) : i \in Used}
Latest == IF Got.exist = 0 THEN Blank ELSE Loaded(Got.latest, Zero).ssid
InHand == IF op.pc \in Writing THEN {Network(op.new)} ELSE {}
Outgrown == \E i \in Slots : Loaded(i, Zero).cnt >= CntMod

\* Across losses of power at any write the slots implement a store that knows
\* each saved network once, with the password saved last, that forgets the one
\* unsaved for longest, and in which nothing erased comes back.  A power-up alone
\* does not change the order of forgetting; a save that was broken off does.
Known == INSTANCE KnownNetworks WITH
    None <- Blank, known <- InFlash, current <- Latest, saving <- InHand,
    erasing <- op.pc \in Erasing, worn <- Outgrown

ImplementsKnownNetworks == Known!Spec

\* A network counts as chosen exactly if it was handed out since the last save,
\* erasure or start: get_best offers no network a second time, and none is left
\* out when it says that there is no other.
ChosenWasTried ==
    op.pc = "idle" =>
      \A i \in Used : info[i].choosen <=> info[i].ssid \in tried
=============================================================================
