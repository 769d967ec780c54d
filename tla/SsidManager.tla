----------------------------- MODULE SsidManager -----------------------------
(***************************************************************************)
(* wifi_ssid_manager.c: the networks the Wi-Fi service remembers in flash. *)
(*                                                                         *)
(* A blob conf says how many slots are in use and which is the latest, and *)
(* each slot is a blob of its own.  Every write of a blob reaches the      *)
(* flash whole (ESP-IDF's NVS) and is a step; the device may lose power    *)
(* between any two.  Reads and what is computed from them belong to the    *)
(* step of the next write.  The calls come one after the other, as those   *)
(* of wifi_task do.                                                        *)
(***************************************************************************)
EXTENDS Integers

CONSTANTS Networks, Passwords,
          Blank,    \* the empty SSID or password: also that of a hidden AP
          NoConf, NoEntry,  \* what is not in flash
          MaxNum,   \* max_ssid_num
          CntMod,   \* values of nvs_get_write_id's max_cnt (uint8_t: 256)
          MaxCnt    \* bound: saves stop when a counter has come this far

VARIABLES conf,   \* the configuration in flash
          info,   \* the slots in flash
          op,     \* the call in progress
          tried,  \* history: the networks handed out since the flags were reset
          newer,  \* history: <<s, t>> when s was saved after t, or is t, both
                  \* since a save or an erasure was broken off
          torn    \* history: an erasure was broken off, and none completed since

vars == <<conf, info, op, tried, newer, torn>>

Slots == 0 .. MaxNum - 1
Entry == [ssid : Networks \cup {Blank}, pwd : Passwords \cup {Blank},
          cnt : Nat, choosen : BOOLEAN]
Conf == [exist : 0 .. MaxNum, latest : Slots]

ASSUME SsidAssumption ==
    /\ MaxNum \in Nat \ {0} /\ CntMod \in Nat \ {0} /\ MaxCnt \in Nat
    /\ Blank \notin Networks \cup Passwords
    /\ NoConf \notin Conf /\ NoEntry \notin Entry

NewConf == [exist |-> 0, latest |-> 0]
Zero == [ssid |-> Blank, pwd |-> Blank, cnt |-> 0, choosen |-> FALSE]

\* nvs_ssid_list_conf_get into a zeroed struct; nvs_wifi_info_get into one that
\* holds buf: what is not in flash leaves it as it was.
Got == IF conf = NoConf THEN NewConf ELSE conf
Loaded(i, buf) == IF info[i] = NoEntry THEN buf ELSE info[i]

Idle == [pc |-> "idle", new |-> Zero, key |-> 0, conf |-> NewConf, i |-> 0, buf |-> Zero]

\* nvs_get_write_id: the slot with the highest counter, the last of equals.
\* The highest counter so far is kept in a byte.
Scan[n \in 0 .. MaxNum] ==
    IF n = 0 THEN [cnt |-> 0, id |-> 0]
    ELSE LET cnt == Loaded(n - 1, Zero).cnt IN
         IF cnt >= Scan[n - 1].cnt THEN [cnt |-> cnt % CntMod, id |-> n - 1]
         ELSE Scan[n - 1]
WriteId == Scan[Got.exist].id

Holds(i, s) == i < Got.exist /\ Loaded(i, Zero).ssid = s

Init == /\ conf = NoConf /\ info = [i \in Slots |-> NoEntry]
        /\ op = [Idle EXCEPT !.pc = "create"]
        /\ tried = {} /\ newer = {} /\ torn = FALSE

-----------------------------------------------------------------------------
(* wifi_ssid_manager_create.                                               *)

Create == /\ op.pc = "create"
          /\ conf' = Got
          /\ op' = [Idle EXCEPT !.pc = "reset", !.conf = Got]
          /\ UNCHANGED <<info, tried, newer, torn>>

\* nvs_reset_choosen_flag reads one slot after the other into the same struct.
Reset == /\ op.pc \in {"reset", "saved"} /\ op.i < op.conf.exist
         /\ LET e == [Loaded(op.i, op.buf) EXCEPT !.choosen = FALSE] IN
              /\ info' = [info EXCEPT ![op.i] = e]
              /\ op' = [op EXCEPT !.i = @ + 1, !.buf = e]
         /\ UNCHANGED <<conf, tried, newer, torn>>

Created == /\ op.pc = "reset" /\ op.i = op.conf.exist
           /\ op' = Idle /\ tried' = {}
           /\ UNCHANGED <<conf, info, newer, torn>>

-----------------------------------------------------------------------------
(* wifi_ssid_manager_save.                                                 *)

\* get_stored_id_by_ssid: the first slot that holds the SSID.
Stored(s) == {i \in Slots : Holds(i, s)}
First(I) == CHOOSE i \in I : \A j \in I : i <= j

\* The slot is that of the same SSID, the next free one, or the oldest's.
Free == Got.exist < MaxNum
KeyFor(s) == IF Stored(s) # {} THEN First(Stored(s))
             ELSE IF Free THEN Got.exist ELSE WriteId
ConfFor(s) == [exist |-> IF Stored(s) = {} /\ Free THEN Got.exist + 1 ELSE Got.exist,
               latest |-> KeyFor(s)]
Saving(s, p) == [Idle EXCEPT !.pc = "info", !.key = KeyFor(s), !.conf = ConfFor(s),
                             !.new = [Zero EXCEPT !.ssid = s, !.pwd = p]]

CanSave == op.pc = "idle" /\ \A i \in Slots : Loaded(i, Zero).cnt < MaxCnt

\* mutant: the configuration is written before the slot it counts.
SaveConfFirst(s, p) == /\ CanSave /\ op' = Saving(s, p) /\ conf' = ConfFor(s)
                       /\ UNCHANGED <<info, tried, newer, torn>>

Save(s, p) == /\ CanSave /\ op' = Saving(s, p)
              /\ UNCHANGED <<conf, info, tried, newer, torn>>

SaveInfo == /\ op.pc = "info"
            /\ info' = [info EXCEPT ![op.key] = op.new]
            /\ op' = [op EXCEPT !.pc = "count"]
            /\ UNCHANGED <<conf, tried, newer, torn>>

\* nvs_set_counter.
Count == /\ op.pc = "count" /\ op.i < op.conf.exist
         /\ info' = [info EXCEPT ![op.i] = [Loaded(op.i, Zero) EXCEPT !.cnt = @ + 1]]
         /\ op' = [op EXCEPT !.i = @ + 1]
         /\ UNCHANGED <<conf, tried, newer, torn>>

\* mutant: the choosen flags of the other networks are not reset.
SaveConfKeepsChosen == /\ op.pc = "count" /\ op.i = op.conf.exist
                       /\ conf' = op.conf
                       /\ op' = [op EXCEPT !.pc = "saved"]
                       /\ UNCHANGED <<info, tried, newer, torn>>

SaveConf == /\ op.pc = "count" /\ op.i = op.conf.exist
            /\ conf' = op.conf
            /\ op' = [op EXCEPT !.pc = "saved", !.i = 0]
            /\ UNCHANGED <<info, tried, newer, torn>>

AsNewest(s, r) == {p \in r : s \notin {p[1], p[2]}}
                    \cup {<<s, t>> : t \in {p[1] : p \in r} \cup {s}}

Saved == /\ op.pc = "saved" /\ op.i = op.conf.exist
         /\ op' = Idle /\ tried' = {}
         /\ newer' = AsNewest(op.new.ssid, newer)
         /\ UNCHANGED <<conf, info, torn>>

-----------------------------------------------------------------------------
(* wifi_ssid_manager_get_latest_config and _get_best_config.               *)

GetLatest == /\ op.pc = "idle" /\ Got.exist > 0
             /\ LET e == Loaded(Got.latest, Zero) IN
                  /\ info' = IF e.choosen THEN info
                             ELSE [info EXCEPT ![Got.latest] = [e EXCEPT !.choosen = TRUE]]
                  /\ tried' = tried \cup {e.ssid}
             /\ UNCHANGED <<conf, op, newer, torn>>

\* The scan found the network of slot i, with no stronger one that is stored
\* and has not been chosen.
GetBest(i) == /\ op.pc = "idle" /\ Holds(i, Loaded(i, Zero).ssid)
              /\ \A j \in Slots : j < i => ~Holds(j, Loaded(i, Zero).ssid)
              /\ ~Loaded(i, Zero).choosen
              /\ op' = [Idle EXCEPT !.pc = "best", !.key = i, !.conf = [Got EXCEPT !.latest = i],
                                    !.new = [Loaded(i, Zero) EXCEPT !.choosen = TRUE]]
              /\ UNCHANGED <<conf, info, tried, newer, torn>>

BestInfo == /\ op.pc = "best"
            /\ info' = [info EXCEPT ![op.key] = op.new]
            /\ op' = [op EXCEPT !.pc = "best_conf"]
            /\ UNCHANGED <<conf, tried, newer, torn>>

BestConf == /\ op.pc = "best_conf"
            /\ conf' = op.conf /\ op' = Idle
            /\ tried' = tried \cup {op.new.ssid}
            /\ UNCHANGED <<info, newer, torn>>

-----------------------------------------------------------------------------
(* wifi_ssid_manager_erase_all and, ending with the flash empty,           *)
(* wifi_ssid_manager_destroy.                                              *)

Erase(why) == /\ op.pc = "idle" /\ op' = [Idle EXCEPT !.pc = why, !.conf = NewConf]
              /\ UNCHANGED <<conf, info, tried, newer, torn>>

EraseInfo == /\ op.pc \in {"erase", "destroy"}
             /\ info' = [i \in Slots |-> NoEntry]
             /\ op' = [op EXCEPT !.pc = IF @ = "erase" THEN "erase_conf" ELSE "destroy_conf"]
             /\ UNCHANGED <<conf, tried, newer, torn>>

EraseConf == /\ op.pc \in {"erase_conf", "destroy_conf"}
             /\ conf' = NoConf
             /\ op' = [op EXCEPT !.pc = IF @ = "erase_conf" THEN "erase_save" ELSE "destroyed"]
             /\ UNCHANGED <<info, tried, newer, torn>>

EraseSave == /\ op.pc = "erase_save"
             /\ conf' = op.conf /\ op' = Idle
             /\ tried' = {} /\ newer' = {} /\ torn' = FALSE
             /\ UNCHANGED info

Destroyed == /\ op.pc = "destroyed"
             /\ op' = [Idle EXCEPT !.pc = "off"]
             /\ newer' = {} /\ torn' = FALSE
             /\ UNCHANGED <<conf, info, tried>>

-----------------------------------------------------------------------------

Erasing == {"erase", "destroy", "erase_conf", "destroy_conf", "erase_save", "destroyed"}
Writing == {"info", "count", "saved"}

\* The device loses power, or restarts, and comes up again.
PowerCycle == /\ op' = [Idle EXCEPT !.pc = "create"]
              /\ newer' = IF op.pc \in Writing \cup Erasing THEN {} ELSE newer
              /\ torn' = (torn \/ op.pc \in Erasing)
              /\ UNCHANGED <<conf, info, tried>>

Next == \/ Create \/ Reset \/ Created
        \/ \E s \in Networks, p \in Passwords : Save(s, p)
        \/ SaveInfo \/ Count \/ SaveConf \/ Saved
        \/ GetLatest \/ \E i \in Slots : GetBest(i)
        \/ BestInfo \/ BestConf
        \/ \E why \in {"erase", "destroy"} : Erase(why)
        \/ EraseInfo \/ EraseConf \/ EraseSave \/ Destroyed
        \/ PowerCycle

Spec == Init /\ [][Next]_vars
=============================================================================
