-------------------------- MODULE SsidManagerProofs --------------------------
(***************************************************************************)
(* That no network is offered twice, that the slots know no network twice, *)
(* and that they implement the abstract store of networks, for every       *)
(* number of slots and networks and whatever writes power is lost between. *)
(***************************************************************************)
EXTENDS SsidManagerProps, FiniteSetTheorems, TLAPS

-----------------------------------------------------------------------------
(* The inductive invariant.                                                *)

Written(n) == \A j \in Slots : j < n => info[j] # NoEntry
Bare == \A j \in Slots : info[j] = NoEntry \/ info[j].ssid = Blank
BestPcs == {"best", "best_conf"}

\* Every slot that counts has been written, save after a broken erasure: then
\* no slot holds a network.
FillInv ==
  /\ Got.exist > 0 => Got.latest < Got.exist
  /\ Written(Got.exist) \/ Bare
  /\ op.pc \in Writing \cup BestPcs \cup {"idle"} => Written(Got.exist)
  /\ op.pc = "reset" =>
       /\ op.conf = Got /\ op.i <= Got.exist /\ Written(op.i)
       /\ Written(Got.exist) \/ op.buf.ssid = Blank
  /\ op.pc \in {"erase_conf", "destroy_conf"} => Bare
  /\ op.pc \in {"erase_save", "destroyed", "off"} => Got.exist = 0
  /\ op.pc \in Erasing => op.conf = NewConf

\* The slot being saved to is that of the network, a new one, or one that may go.
SaveInv ==
  op.pc \in Writing =>
    /\ op.new.ssid \in Networks /\ op.new.cnt = 0 /\ ~op.new.choosen
    /\ op.conf.latest = op.key /\ op.key < op.conf.exist /\ op.i <= op.conf.exist
    /\ \/ op.conf.exist = Got.exist
       \/ op.conf.exist = Got.exist + 1 /\ op.key = Got.exist
    /\ \A j \in Used : info[j].ssid = op.new.ssid => j = op.key
    /\ op.pc = "info" =>
         /\ op.i = 0
         /\ op.key < Got.exist /\ info[op.key].ssid # op.new.ssid =>
              /\ Got.exist = MaxNum
              /\ Outgrown \/ \A j \in Slots : info[j].cnt <= info[op.key].cnt
    /\ op.pc \in {"count", "saved"} =>
         /\ Written(op.conf.exist) /\ Network(info[op.key]) = Network(op.new)
         /\ op.pc = "count" => info[op.key].cnt = (IF op.key < op.i THEN 1 ELSE 0)
         /\ op.pc = "saved" => conf = op.conf /\ info[op.key].cnt = 1

BestInv ==
  op.pc \in BestPcs =>
    /\ op.key < Got.exist /\ op.conf = [Got EXCEPT !.latest = op.key]
    /\ op.new = [info[op.key] EXCEPT !.choosen = TRUE]

\* No network is in two slots, and a slot without one is left by a broken erasure.
OnceInv == \A i, j \in Used : info[i].ssid = info[j].ssid => i = j
BlankInv == torn \/ op.pc \in Erasing \/ \A j \in Slots : j < Got.exist => j \in Used

FlagInv ==
  /\ op.pc \in {"idle", "best"} =>
       \A i \in Used : info[i].choosen <=> info[i].ssid \in tried
  /\ op.pc = "best_conf" =>
       /\ info[op.key] = op.new
       /\ \A i \in Used \ {op.key} : info[i].choosen <=> info[i].ssid \in tried
  /\ op.pc \in {"reset", "saved"} =>
       \A j \in Slots : j < op.i /\ info[j] # NoEntry => ~info[j].choosen

\* Counters tell which network was saved last, but for the one being saved; those
\* already counted up for the save in progress are taken as they were.
Age(j) == IF op.pc = "count" /\ j < op.i THEN info[j].cnt - 1 ELSE info[j].cnt
InSave(s) == op.pc \in {"count", "saved"} /\ op.new.ssid = s
AgeInv ==
  /\ \A p \in newer : <<p[1], p[1]>> \in newer
  /\ \A i, j \in Used :
       /\ i # j /\ <<info[i].ssid, info[j].ssid>> \in newer
       /\ ~InSave(info[i].ssid) /\ ~InSave(info[j].ssid)
       => Age(i) < Age(j)
  /\ \A i \in Used :
       <<info[i].ssid, info[i].ssid>> \in newer /\ ~InSave(info[i].ssid)
       => Age(i) >= (IF op.pc = "saved" THEN 2 ELSE 1)

Inv == TypeOK /\ FillInv /\ SaveInv /\ BestInv /\ OnceInv /\ BlankInv /\ FlagInv /\ AgeInv
-----------------------------------------------------------------------------
(* What the flash says.                                                    *)

LEMMA Basics ==
  ASSUME TypeOK
  PROVE  /\ Got \in Conf /\ Got.exist \in 0 .. MaxNum /\ Got.latest \in Slots
         /\ Zero \in Entry /\ NewConf \in Conf /\ Slots \subseteq Nat /\ 0 \in Slots
         /\ \A i \in Slots : info[i] = NoEntry \/ info[i] \in Entry
         /\ \A i \in Slots, e \in Entry : Loaded(i, e) \in Entry
<1> USE SsidAssumption
<1>1. NewConf \in Conf /\ Got \in Conf
  BY DEF TypeOK, Got, NewConf, Conf, Slots
<1>2. Zero \in Entry
  BY DEF Zero, Entry
<1> QED BY <1>1, <1>2 DEF TypeOK, Loaded, Conf, Slots

LEMMA UsedIs ==
  ASSUME TypeOK, NEW i \in Slots
  PROVE  i \in Used <=> i < Got.exist /\ info[i] # NoEntry /\ info[i].ssid # Blank
BY DEF Used, Loaded, Zero

\* Every set of numbers has a least one.
LEMMA Least ==
  ASSUME NEW T \in SUBSET Nat, T # {}
  PROVE  \E x \in T : \A y \in T : x <= y
<1> DEFINE F == {0..n : n \in T}
<1>1. \A n \in T : 0..n \in FiniteSubsetsOf(Nat)
  BY FS_Interval DEF FiniteSubsetsOf
<1>2. F \subseteq FiniteSubsetsOf(Nat) /\ F # {}
  BY <1>1
<1> HIDE DEF F
<1>3. PICK f \in F : \A g \in F : <<g, f>> \notin StrictSubsetOrdering(Nat)
  BY <1>2, FS_StrictSubsetOrderingWellFounded, WFMin
<1>4. PICK x \in T : f = 0..x
  BY DEF F
<1>5. ASSUME NEW y \in T, y < x
      PROVE  FALSE
  <2>1. /\ 0..y \in SUBSET Nat /\ 0..x \in SUBSET Nat
        /\ 0..y \subseteq 0..x /\ x \in 0..x /\ x \notin 0..y
    BY <1>5
  <2>2. <<0..y, 0..x>> \in StrictSubsetOrdering(Nat)
    BY <2>1 DEF StrictSubsetOrdering
  <2>3. 0..y \in F
    BY DEF F
  <2> QED BY <1>3, <1>4, <2>2, <2>3
<1> QED BY <1>5
-----------------------------------------------------------------------------
(* The slot nvs_get_write_id finds.                                        *)

First0 == [cnt |-> 0, id |-> 0]
Look(n, last) ==
  LET cnt == Loaded(n - 1, Zero).cnt IN
  IF cnt >= last.cnt THEN [cnt |-> cnt % CntMod, id |-> n - 1] ELSE last
Found == [cnt : Nat, id : Nat]
Scans(f, k) ==
  /\ f \in [0 .. k -> Found] /\ f[0] = First0
  /\ \A n \in 1 .. k : f[n] = Look(n, f[n - 1])

LEMMA LookType ==
  ASSUME TypeOK, NEW n \in 1 .. MaxNum, NEW last \in Found
  PROVE  Look(n, last) \in Found
<1>1. n - 1 \in Slots /\ MaxNum \in Nat /\ CntMod \in Nat \ {0}
  BY SsidAssumption DEF Slots
<1>2. Loaded(n - 1, Zero).cnt \in Nat
  BY <1>1, Basics DEF Entry
<1>3. n - 1 \in Nat /\ \A c \in Nat : c % CntMod \in Nat
  BY <1>1
<1> QED BY <1>2, <1>3 DEF Look, Found

LEMMA ScanExists ==
  ASSUME TypeOK
  PROVE  \E f : Scans(f, MaxNum)
<1> DEFINE T == {k \in 0 .. MaxNum : ~ \E f : Scans(f, k)}
<1>1. MaxNum \in Nat
  BY SsidAssumption
<1>2. SUFFICES ASSUME T # {} PROVE FALSE
  BY <1>1
<1>3. PICK k \in T : \A y \in T : k <= y
  <2>1. T \in SUBSET Nat
    BY <1>1
  <2> HIDE DEF T
  <2> QED BY <1>2, <2>1, Least
<1>4. k \in 0 .. MaxNum /\ ~ \E f : Scans(f, k)
  BY <1>3
<1>5. CASE k = 0
  <2>1. Scans([n \in 0 .. 0 |-> First0], 0)
    BY DEF Scans, First0, Found
  <2> QED BY <1>4, <1>5, <2>1
<1>6. CASE k # 0
  <2>1. k - 1 \in 0 .. MaxNum /\ ~(k <= k - 1) /\ k \in 1 .. MaxNum
    BY <1>1, <1>4, <1>6
  <2>2. k - 1 \notin T
    BY <1>3, <2>1
  <2>3. PICK f : Scans(f, k - 1)
    BY <2>1, <2>2
  <2>4. f[k - 1] \in Found
    BY <2>1, <2>3 DEF Scans
  <2>5. Look(k, f[k - 1]) \in Found
    BY <2>1, <2>4, LookType
  <2> DEFINE g == [n \in 0 .. k |-> IF n = k THEN Look(k, f[k - 1]) ELSE f[n]]
  <2>6. g \in [0 .. k -> Found] /\ g[0] = First0
    BY <1>1, <2>1, <2>3, <2>5 DEF Scans
  <2>7. ASSUME NEW n \in 1 .. k
        PROVE  g[n] = Look(n, g[n - 1])
    <3>1. n - 1 \in 0 .. k /\ n - 1 # k /\ n \in 0 .. k
      BY <2>1
    <3>2. g[n - 1] = f[n - 1]
      BY <3>1
    <3>3. CASE n = k
      BY <3>1, <3>2, <3>3
    <3>4. CASE n # k
      <4>1. n \in 1 .. k - 1 /\ g[n] = f[n]
        BY <2>1, <3>1, <3>4
      <4> QED BY <2>3, <3>2, <4>1 DEF Scans
    <3> QED BY <3>3, <3>4
  <2> HIDE DEF g
  <2>8. Scans(g, k)
    BY <2>6, <2>7 DEF Scans
  <2> QED BY <1>4, <2>8
<1> QED BY <1>5, <1>6

LEMMA ScanIs ==
  ASSUME NEW f,
         f = [n \in 0 .. MaxNum |-> IF n = 0 THEN First0 ELSE Look(n, f[n - 1])]
  PROVE  Scan = [n \in 0 .. MaxNum |-> IF n = 0 THEN First0 ELSE Look(n, Scan[n - 1])]
BY Zenon DEF Scan, Look, First0

LEMMA ScanSteps ==
  ASSUME TypeOK
  PROVE  /\ Scan[0] = First0
         /\ \A n \in 1 .. MaxNum : Scan[n] = Look(n, Scan[n - 1])
<1>1. MaxNum \in Nat
  BY SsidAssumption
<1>2. PICK f : Scans(f, MaxNum)
  BY ScanExists
<1> DEFINE F == [n \in 0 .. MaxNum |-> IF n = 0 THEN First0 ELSE Look(n, f[n - 1])]
<1>3. \A n \in 0 .. MaxNum : n # 0 => n \in 1 .. MaxNum
  BY <1>1
<1>4. DOMAIN f = 0 .. MaxNum /\ f = [n \in 0 .. MaxNum |-> f[n]]
  BY <1>2 DEF Scans
<1>5. \A n \in 0 .. MaxNum : f[n] = F[n]
  BY <1>2, <1>3 DEF Scans
<1>6. f = F
  BY <1>4, <1>5
<1>7. Scan = [n \in 0 .. MaxNum |-> IF n = 0 THEN First0 ELSE Look(n, Scan[n - 1])]
  BY <1>6, ScanIs
<1>8. 0 \in 0 .. MaxNum /\ \A n \in 1 .. MaxNum : n \in 0 .. MaxNum /\ n # 0
  BY <1>1
<1> DEFINE G(h) == [n \in 0 .. MaxNum |-> IF n = 0 THEN First0 ELSE Look(n, h[n - 1])]
<1>9. \A h : /\ G(h)[0] = First0
             /\ \A n \in 1 .. MaxNum : G(h)[n] = Look(n, h[n - 1])
  BY <1>8
<1>10. Scan = G(Scan)
  BY <1>7
<1> HIDE DEF G
<1> QED BY <1>9, <1>10

\* It is one in use, and while no counter has outgrown a byte the one unsaved for
\* longest.
LEMMA OldestFound ==
  ASSUME TypeOK, Got.exist > 0
  PROVE  /\ WriteId \in 0 .. Got.exist - 1
         /\ Outgrown \/ \A j \in Slots : j < Got.exist =>
                          Loaded(j, Zero).cnt <= Loaded(WriteId, Zero).cnt
<1> DEFINE Good(n) ==
      /\ Scan[n] \in Found
      /\ n > 0 => Scan[n].id \in 0 .. n - 1
      /\ n > 0 => \/ Outgrown
                  \/ /\ Scan[n].cnt = Loaded(Scan[n].id, Zero).cnt
                     /\ \A j \in 0 .. n - 1 : Loaded(j, Zero).cnt <= Scan[n].cnt
<1>1. MaxNum \in Nat /\ CntMod \in Nat \ {0}
  BY SsidAssumption
<1>2. Good(0)
  BY ScanSteps DEF First0, Found
<1>3. ASSUME NEW n \in 1 .. MaxNum, Good(n - 1)
      PROVE  Good(n)
  <2>1. n - 1 \in Slots /\ n - 1 \in Nat /\ n - 1 \in 0 .. n - 1
    BY <1>1 DEF Slots
  <2> DEFINE c == Loaded(n - 1, Zero).cnt
  <2>2. c \in Nat /\ c % CntMod \in Nat
    <3>1. c \in Nat
      BY <2>1, Basics DEF Entry
    <3> QED BY <1>1, <3>1
  <2>3. ~Outgrown => c % CntMod = c
    <3>1. ~Outgrown => ~(c >= CntMod)
      BY <2>1 DEF Outgrown
    <3> HIDE DEF c
    <3> QED BY <1>1, <2>2, <3>1
  <2>4. Scan[n] = IF c >= Scan[n - 1].cnt THEN [cnt |-> c % CntMod, id |-> n - 1]
                  ELSE Scan[n - 1]
    BY ScanSteps DEF Look
  <2>5. Scan[n - 1] \in Found
    BY <1>3
  <2>6. CASE c >= Scan[n - 1].cnt
    <3>1. Scan[n] = [cnt |-> c % CntMod, id |-> n - 1]
      BY <2>4, <2>6
    <3>2. Scan[n] \in Found /\ Scan[n].id \in 0 .. n - 1
      BY <2>1, <2>2, <3>1 DEF Found
    <3>3. ASSUME ~Outgrown, NEW j \in 0 .. n - 1
          PROVE  Loaded(j, Zero).cnt <= Scan[n].cnt
      <4>1. Scan[n].cnt = c
        BY <2>3, <3>1, <3>3
      <4>2. CASE j = n - 1
        BY <2>2, <4>1, <4>2
      <4>3. CASE j # n - 1
        <5>1. n - 1 > 0 /\ j \in 0 .. (n - 1) - 1 /\ j \in Slots
          BY <1>1, <4>3 DEF Slots
        <5>2. Loaded(j, Zero).cnt <= Scan[n - 1].cnt
          BY <1>3, <3>3, <5>1
        <5>3. Loaded(j, Zero).cnt \in Nat /\ Scan[n - 1].cnt \in Nat
          BY <2>5, <5>1, Basics DEF Entry, Found
        <5> HIDE DEF c
        <5> QED BY <2>2, <2>6, <4>1, <5>2, <5>3
      <4> QED BY <4>2, <4>3
    <3>4. ~Outgrown => Scan[n].cnt = Loaded(Scan[n].id, Zero).cnt
      BY <2>3, <3>1
    <3> QED BY <3>2, <3>3, <3>4
  <2>7. CASE ~(c >= Scan[n - 1].cnt)
    <3>1. Scan[n] = Scan[n - 1] /\ Scan[n - 1].cnt \in Nat
      BY <2>4, <2>5, <2>7 DEF Found
    <3>2. n - 1 > 0
      <4>1. CASE n - 1 = 0
        <5>1. Scan[n - 1].cnt = 0
          BY <4>1, ScanSteps DEF First0
        <5> HIDE DEF c
        <5> QED BY <2>2, <2>7, <5>1
      <4> QED BY <2>1, <4>1
    <3>3. Scan[n].id \in 0 .. (n - 1) - 1
      BY <1>3, <3>1, <3>2
    <3>4. ASSUME ~Outgrown
          PROVE  /\ Scan[n].cnt = Loaded(Scan[n].id, Zero).cnt
                 /\ \A j \in 0 .. (n - 1) - 1 : Loaded(j, Zero).cnt <= Scan[n].cnt
      BY <1>3, <3>1, <3>2, <3>4
    <3>5. ASSUME ~Outgrown, NEW j \in 0 .. n - 1
          PROVE  Loaded(j, Zero).cnt <= Scan[n].cnt
      <4>1. CASE j = n - 1
        <5> HIDE DEF c
        <5>1. c <= Scan[n - 1].cnt
          BY <2>2, <2>7, <3>1
        <5> QED BY <3>1, <4>1, <5>1 DEF c
      <4>2. CASE j # n - 1
        BY <2>1, <3>4, <3>5, <4>2
      <4> QED BY <4>1, <4>2
    <3>6. Scan[n].id \in 0 .. n - 1
      BY <2>1, <3>3
    <3> QED BY <2>5, <3>1, <3>4, <3>5, <3>6
  <2> QED BY <2>6, <2>7
<1> HIDE DEF Good
<1>4. \A n \in 0 .. MaxNum : Good(n)
  <2> DEFINE T == {n \in 0 .. MaxNum : ~Good(n)}
  <2>1. SUFFICES ASSUME T # {} PROVE FALSE
    OBVIOUS
  <2>2. PICK n \in T : \A y \in T : n <= y
    <3>1. T \in SUBSET Nat
      BY <1>1
    <3> HIDE DEF T
    <3> QED BY <2>1, <3>1, Least
  <2>3. n # 0 /\ ~Good(n) /\ n \in 1 .. MaxNum
    BY <1>1, <1>2, <2>2
  <2>4. n - 1 \in 0 .. MaxNum /\ ~(n <= n - 1)
    BY <1>1, <2>3
  <2>5. Good(n - 1)
    BY <2>2, <2>4
  <2> QED BY <1>3, <2>3, <2>5
<1>5. Got.exist \in 0 .. MaxNum
  BY Basics
<1>6. Good(Got.exist)
  BY <1>4, <1>5
<1>7. WriteId \in 0 .. Got.exist - 1
  BY <1>6 DEF Good, WriteId
<1>8. ASSUME ~Outgrown, NEW j \in Slots, j < Got.exist
      PROVE  Loaded(j, Zero).cnt <= Loaded(WriteId, Zero).cnt
  <2>1. j \in 0 .. Got.exist - 1
    BY <1>1, <1>5, <1>8 DEF Slots
  <2> QED BY <1>6, <1>8, <2>1 DEF Good, WriteId
<1> QED BY <1>7, <1>8
-----------------------------------------------------------------------------
(* Where a save puts its network.                                          *)

LEMMA FirstIs ==
  ASSUME NEW I \in SUBSET Slots, I # {}
  PROVE  First(I) \in I
<1>1. I \in SUBSET Nat
  BY DEF Slots
<1>2. \E i \in I : \A j \in I : i <= j
  BY <1>1, Least
<1> QED BY <1>2 DEF First

LEMMA KeyChosen ==
  ASSUME TypeOK, NEW s \in Networks, Written(Got.exist)
  PROVE  /\ KeyFor(s) \in Slots /\ ConfFor(s) \in Conf
         /\ ConfFor(s).latest = KeyFor(s) /\ KeyFor(s) < ConfFor(s).exist
         /\ \/ ConfFor(s).exist = Got.exist
            \/ ConfFor(s).exist = Got.exist + 1 /\ KeyFor(s) = Got.exist
         /\ KeyFor(s) < Got.exist /\ info[KeyFor(s)].ssid # s =>
              /\ Got.exist = MaxNum /\ \A j \in Used : info[j].ssid # s
              /\ Outgrown \/ \A j \in Slots : info[j].cnt <= info[KeyFor(s)].cnt
         /\ OnceInv => \A j \in Used : info[j].ssid = s => j = KeyFor(s)
<1>1. MaxNum \in Nat \ {0} /\ s # Blank
  BY SsidAssumption
<1>2. Got.exist \in 0 .. MaxNum /\ Got \in Conf
  BY Basics
<1>3. \A j \in Slots : j < Got.exist => Loaded(j, Zero) = info[j]
  BY DEF Written, Loaded
<1>4. \A j \in Used : info[j].ssid = s => j \in Stored(s)
  BY <1>3, UsedIs DEF Used, Stored, Holds
<1>5. CASE Stored(s) # {}
  <2>1. KeyFor(s) = First(Stored(s)) /\ Stored(s) \in SUBSET Slots
    BY <1>5 DEF KeyFor, Stored
  <2>2. KeyFor(s) \in Stored(s)
    BY <1>5, <2>1, FirstIs
  <2>3. KeyFor(s) \in Slots /\ KeyFor(s) < Got.exist /\ info[KeyFor(s)].ssid = s
    BY <1>3, <2>2 DEF Stored, Holds
  <2>4. ConfFor(s) = [exist |-> Got.exist, latest |-> KeyFor(s)]
    BY <1>5 DEF ConfFor
  <2>5. KeyFor(s) \in Used
    BY <1>1, <1>3, <2>3 DEF Used
  <2> QED BY <1>2, <2>3, <2>4, <2>5 DEF Conf, OnceInv
<1>6. CASE Stored(s) = {} /\ Free
  <2>1. KeyFor(s) = Got.exist /\ KeyFor(s) \in Slots
    BY <1>1, <1>2, <1>6 DEF KeyFor, Free, Slots
  <2>2. ConfFor(s) = [exist |-> Got.exist + 1, latest |-> KeyFor(s)]
    BY <1>6 DEF ConfFor
  <2>3. Got.exist + 1 \in 0 .. MaxNum
    BY <1>1, <1>2, <1>6 DEF Free
  <2> QED BY <1>2, <1>4, <1>6, <2>1, <2>2, <2>3 DEF Conf
<1>7. CASE Stored(s) = {} /\ ~Free
  <2>1. Got.exist = MaxNum /\ Got.exist > 0
    BY <1>1, <1>2, <1>7 DEF Free
  <2>2. KeyFor(s) = WriteId /\ ConfFor(s) = [exist |-> Got.exist, latest |-> KeyFor(s)]
    BY <1>7 DEF KeyFor, ConfFor
  <2>3. /\ WriteId \in Slots /\ WriteId < Got.exist
        /\ Outgrown \/ \A j \in Slots : j < Got.exist =>
                         Loaded(j, Zero).cnt <= Loaded(WriteId, Zero).cnt
    BY <1>1, <2>1, OldestFound DEF Slots
  <2>4. \A j \in Slots : j < Got.exist
    BY <1>1, <2>1 DEF Slots
  <2>5. Outgrown \/ \A j \in Slots : info[j].cnt <= info[WriteId].cnt
    BY <1>3, <2>3, <2>4
  <2> QED BY <1>2, <1>4, <1>7, <2>1, <2>2, <2>3, <2>5 DEF Conf
<1> QED BY <1>5, <1>6, <1>7

-----------------------------------------------------------------------------
(* Types.                                                                  *)

OpType == [pc : Places, new : Entry, key : Slots, conf : Conf, i : 0 .. MaxNum, buf : Entry]

LEMMA IdleType ==
  ASSUME TypeOK
  PROVE  Idle \in OpType
BY Basics, SsidAssumption DEF Idle, OpType, Places, Erasing

LEMMA Types ==
  ASSUME Inv, Next
  PROVE  TypeOK'
<1>1. /\ TypeOK /\ op \in OpType
      /\ conf \in Conf \cup {NoConf} /\ info \in [Slots -> Entry \cup {NoEntry}]
      /\ tried \subseteq Networks \cup {Blank} /\ newer \subseteq Networks \X Networks
  BY DEF Inv, TypeOK, OpType
<1>2. Idle \in OpType
  BY <1>1, IdleType
<1>3. SUFFICES /\ op' \in OpType
               /\ conf' \in Conf \cup {NoConf} /\ info' \in [Slots -> Entry \cup {NoEntry}]
               /\ tried' \subseteq Networks \cup {Blank}
               /\ newer' \subseteq Networks \X Networks
  BY DEF TypeOK, OpType
<1>4. CASE Create
  BY <1>1, <1>2, <1>4, Basics DEF Create, OpType, Places, Erasing
<1>5. CASE Reset
  <2>1. op.i \in Slots /\ op.i + 1 \in 0 .. MaxNum
    BY <1>1, <1>5, SsidAssumption DEF Reset, OpType, Places, Erasing, Conf, Slots
  <2> DEFINE e == [Loaded(op.i, op.buf) EXCEPT !.choosen = FALSE]
  <2>2. e \in Entry
    <3>1. Loaded(op.i, op.buf) \in Entry
      BY <1>1, <2>1, Basics DEF OpType, Places, Erasing
    <3> QED BY <3>1 DEF Entry
  <2>3. info' = [info EXCEPT ![op.i] = e] /\ op' = [op EXCEPT !.i = @ + 1, !.buf = e]
    BY <1>5 DEF Reset
  <2> HIDE DEF e
  <2>4. op' \in OpType /\ info' \in [Slots -> Entry \cup {NoEntry}]
    BY <1>1, <2>1, <2>2, <2>3 DEF OpType, Places, Erasing
  <2> QED BY <1>1, <1>5, <2>4 DEF Reset
<1>6. CASE Created
  BY <1>1, <1>2, <1>6 DEF Created
<1>7. ASSUME NEW s \in Networks, NEW p \in Passwords, Save(s, p)
      PROVE  op' \in OpType /\ UNCHANGED <<conf, info, tried, newer>>
  <2>1. op.pc = "idle" /\ op' = Saving(s, p)
    BY <1>7 DEF Save, CanSave
  <2>2. Written(Got.exist)
    BY <2>1 DEF Inv, FillInv
  <2>3. KeyFor(s) \in Slots /\ ConfFor(s) \in Conf
    BY <1>1, <2>2, KeyChosen
  <2>4. [Zero EXCEPT !.ssid = s, !.pwd = p] \in Entry
    BY DEF Zero, Entry
  <2> QED BY <1>2, <1>7, <2>1, <2>3, <2>4 DEF Save, Saving, OpType, Places, Erasing
<1>8. CASE SaveInfo
  <2>1. op' = [op EXCEPT !.pc = "count"] /\ info' = [info EXCEPT ![op.key] = op.new]
    BY <1>8 DEF SaveInfo
  <2> QED BY <1>1, <1>8, <2>1 DEF SaveInfo, OpType, Places, Erasing
<1>9. CASE Count
  <2>1. op.i \in Slots /\ op.i + 1 \in 0 .. MaxNum
    BY <1>1, <1>9, SsidAssumption DEF Count, OpType, Places, Erasing, Conf, Slots
  <2> DEFINE e == [Loaded(op.i, Zero) EXCEPT !.cnt = @ + 1]
  <2>2. e \in Entry
    <3>1. Loaded(op.i, Zero) \in Entry
      BY <1>1, <2>1, Basics
    <3> QED BY <3>1 DEF Entry
  <2>3. info' = [info EXCEPT ![op.i] = e] /\ op' = [op EXCEPT !.i = @ + 1]
    BY <1>9 DEF Count
  <2> HIDE DEF e
  <2>4. op' \in OpType /\ info' \in [Slots -> Entry \cup {NoEntry}]
    BY <1>1, <2>1, <2>2, <2>3 DEF OpType, Places, Erasing
  <2> QED BY <1>1, <1>9, <2>4 DEF Count
<1>10. CASE SaveConf
  <2>1. 0 \in 0 .. MaxNum
    BY SsidAssumption
  <2> QED BY <1>1, <1>10, <2>1 DEF SaveConf, OpType, Places, Erasing
<1>11. CASE Saved
  <2>1. op.new.ssid \in Networks
    BY <1>11 DEF Saved, Inv, SaveInv, Writing
  <2>2. newer' \subseteq Networks \X Networks
    <3>1. newer' = AsNewest(op.new.ssid, newer)
      BY <1>11 DEF Saved
    <3>2. \A p \in newer : p[1] \in Networks /\ p \in Networks \X Networks
      BY <1>1
    <3> QED BY <2>1, <3>1, <3>2 DEF AsNewest
  <2> QED BY <1>1, <1>2, <1>11, <2>2 DEF Saved
<1>12. CASE GetLatest
  <2> DEFINE e == Loaded(Got.latest, Zero)
  <2>1. e \in Entry /\ Got.latest \in Slots
    BY <1>1, Basics
  <2>2. e.ssid \in Networks \cup {Blank} /\ [e EXCEPT !.choosen = TRUE] \in Entry
    BY <2>1 DEF Entry
  <2>3. /\ info' = IF e.choosen THEN info
                   ELSE [info EXCEPT ![Got.latest] = [e EXCEPT !.choosen = TRUE]]
        /\ tried' = tried \cup {e.ssid}
        /\ UNCHANGED <<conf, op, newer>>
    BY <1>12 DEF GetLatest
  <2> HIDE DEF e
  <2> QED BY <1>1, <2>1, <2>2, <2>3
<1>13. ASSUME NEW i \in Slots, GetBest(i)
       PROVE  op' \in OpType /\ UNCHANGED <<conf, info, tried, newer>>
  <2>1. [Got EXCEPT !.latest = i] \in Conf /\ Loaded(i, Zero) \in Entry
    BY <1>1, Basics DEF Conf
  <2>2. [Loaded(i, Zero) EXCEPT !.choosen = TRUE] \in Entry
    BY <2>1 DEF Entry
  <2> QED BY <1>2, <1>13, <2>1, <2>2 DEF GetBest, OpType, Places, Erasing
<1>14. CASE BestInfo
  <2>1. op' = [op EXCEPT !.pc = "best_conf"] /\ info' = [info EXCEPT ![op.key] = op.new]
    BY <1>14 DEF BestInfo
  <2> QED BY <1>1, <1>14, <2>1 DEF BestInfo, OpType, Places, Erasing
<1>15. CASE BestConf
  BY <1>1, <1>2, <1>15 DEF BestConf, OpType, Places, Erasing, Entry
<1>16. ASSUME NEW why \in {"erase", "destroy"}, Erase(why)
       PROVE  op' \in OpType /\ UNCHANGED <<conf, info, tried, newer>>
  BY <1>1, <1>2, <1>16, Basics DEF Erase, OpType, Places, Erasing
<1>17. CASE EraseInfo
  BY <1>1, <1>17 DEF EraseInfo, OpType, Places, Erasing
<1>18. CASE EraseConf
  BY <1>1, <1>18 DEF EraseConf, OpType, Places, Erasing
<1>19. CASE EraseSave
  BY <1>1, <1>2, <1>19 DEF EraseSave, OpType, Places, Erasing
<1>20. CASE Destroyed
  BY <1>1, <1>2, <1>20 DEF Destroyed, OpType, Places, Erasing
<1>21. CASE PowerCycle
  BY <1>1, <1>2, <1>21 DEF PowerCycle, OpType, Places, Erasing
<1> QED BY <1>1, <1>4, <1>5, <1>6, <1>7, <1>8, <1>9, <1>10, <1>11, <1>12, <1>13,
           <1>14, <1>15, <1>16, <1>17, <1>18, <1>19, <1>20, <1>21 DEF Next
-----------------------------------------------------------------------------
(* What steps leave as it is.                                              *)

LEMMA FlashKept ==
  ASSUME Got' = Got, info' = info
  PROVE  /\ Used' = Used /\ InFlash' = InFlash /\ Latest' = Latest
         /\ Bare' <=> Bare
         /\ \A n : Written(n)' <=> Written(n)
         /\ OnceInv => OnceInv'
<1>1. \A i, e : Loaded(i, e)' = Loaded(i, e)
  BY DEF Loaded
<1>2. Used' = Used
  BY <1>1 DEF Used, Zero
<1>3. InFlash' = InFlash
  BY <1>2 DEF InFlash, Network
<1>4. Latest' = Latest
  BY <1>1 DEF Latest, Zero
<1> QED BY <1>2, <1>3, <1>4 DEF Bare, Written, OnceInv

\* A slot is written again with its network.
LEMMA NetworksKept ==
  ASSUME TypeOK, NEW k \in Slots, NEW e \in Entry, Got' = Got,
         info' = [info EXCEPT ![k] = e],
         e.ssid = Loaded(k, Zero).ssid, k \in Used => e.pwd = info[k].pwd
  PROVE  /\ Used' = Used /\ InFlash' = InFlash /\ Latest' = Latest
         /\ Bare => Bare'
         /\ \A n : Written(n) => Written(n)'
         /\ \A j \in Used : info'[j].ssid = info[j].ssid
         /\ OnceInv => OnceInv'
<1>1. /\ info'[k] = e /\ e # NoEntry
      /\ \A j \in Slots : j # k => info'[j] = info[j]
  BY SsidAssumption DEF TypeOK
<1>2. \A j \in Slots : Loaded(j, Zero)'.ssid = Loaded(j, Zero).ssid
  BY <1>1 DEF Loaded, Zero
<1>3. Used' = Used
  BY <1>2 DEF Used
<1>4. \A j \in Used : j \in Slots /\ info[j] # NoEntry /\ Loaded(j, Zero) = info[j]
  BY UsedIs DEF Used, Loaded
<1>5. \A j \in Used : info'[j].ssid = info[j].ssid /\ info'[j].pwd = info[j].pwd
  BY <1>1, <1>4
<1>6. \A j \in Used : Network(info[j])' = Network(info[j])
  BY <1>5 DEF Network
<1>7. InFlash' = InFlash
  BY <1>3, <1>6 DEF InFlash
<1>8. Latest' = Latest
  BY <1>2, Basics DEF Latest
<1>9. Bare => Bare'
  BY <1>1 DEF Bare, Loaded, Zero
<1>10. \A n : Written(n) => Written(n)'
  BY <1>1 DEF Written
<1>11. OnceInv => OnceInv'
  BY <1>3, <1>5 DEF OnceInv
<1> QED BY <1>3, <1>5, <1>7, <1>8, <1>9, <1>10, <1>11

LEMMA AgeKept ==
  ASSUME TypeOK, AgeInv, newer' = newer, Used' \subseteq Used,
         \A j \in Used' : info'[j].ssid = info[j].ssid /\ Age(j)' = Age(j),
         \A s : InSave(s) => InSave(s)',
         op'.pc = "saved" => op.pc = "saved"
  PROVE  AgeInv'
<1>1. \A p \in newer' : <<p[1], p[1]>> \in newer'
  BY DEF AgeInv
<1>2. ASSUME NEW i \in Used', NEW j \in Used',
             i # j, <<info'[i].ssid, info'[j].ssid>> \in newer',
             ~InSave(info[i].ssid)', ~InSave(info[j].ssid)'
      PROVE  Age(i)' < Age(j)'
  <2>1. info'[i].ssid = info[i].ssid /\ info'[j].ssid = info[j].ssid
    OBVIOUS
  <2>2. ~InSave(info[i].ssid) /\ ~InSave(info[j].ssid)
    BY <1>2, <2>1 DEF InSave
  <2>3. Age(i) < Age(j)
    BY <1>2, <2>1, <2>2 DEF AgeInv
  <2> QED BY <2>3
<1>3. ASSUME NEW i \in Used', <<info'[i].ssid, info'[i].ssid>> \in newer',
             ~InSave(info[i].ssid)'
      PROVE  Age(i)' >= (IF op'.pc = "saved" THEN 2 ELSE 1)
  <2>1. info'[i].ssid = info[i].ssid
    OBVIOUS
  <2>2. ~InSave(info[i].ssid)
    BY <1>3, <2>1 DEF InSave
  <2>3. Age(i) >= (IF op.pc = "saved" THEN 2 ELSE 1)
    BY <1>3, <2>1, <2>2 DEF AgeInv
  <2>4. Age(i)' = Age(i)
    OBVIOUS
  <2>5. CASE op'.pc = "saved"
    BY <2>3, <2>4, <2>5
  <2>6. CASE op'.pc # "saved"
    <3>1. info[i] \in Entry
      BY Basics, UsedIs DEF Used
    <3>2. Age(i) \in Int
      BY <3>1 DEF Age, Entry
    <3>3. Age(i) >= 1
      BY <2>3, <3>2
    <3> QED BY <2>4, <2>6, <3>3
  <2> QED BY <2>5, <2>6
<1> QED BY <1>1, <1>2, <1>3 DEF AgeInv

LEMMA AgeFresh ==
  ASSUME newer' = {}
  PROVE  AgeInv'
BY DEF AgeInv

LEMMA Rest ==
  ASSUME op'.pc \notin Writing \cup BestPcs
  PROVE  SaveInv' /\ BestInv'
BY DEF SaveInv, BestInv
-----------------------------------------------------------------------------
(* Every step preserves it.                                                *)

LEMMA CreateKeeps == ASSUME Inv, Create PROVE Inv'
<1>1. op' = [Idle EXCEPT !.pc = "reset", !.conf = Got] /\ op.pc = "create"
  BY DEF Create
<1>2. /\ op'.pc = "reset" /\ op'.conf = Got /\ op'.i = 0 /\ op'.buf = Zero
  BY <1>1 DEF Idle
<1>3. TypeOK /\ Got \in Conf /\ Got.exist \in 0 .. MaxNum
  BY Basics DEF Inv
<1>4. Got' = Got /\ info' = info /\ newer' = newer /\ torn' = torn
  BY <1>3, SsidAssumption DEF Create, Got
<1>5. FillInv'
  <2>1. Written(0)' /\ Zero.ssid = Blank /\ 0 <= Got.exist
    BY <1>3 DEF Written, Zero, Slots
  <2>2. /\ Got.exist > 0 => Got.latest < Got.exist
        /\ Written(Got.exist) \/ Bare
    BY DEF Inv, FillInv
  <2> QED BY <1>2, <1>4, <2>1, <2>2, FlashKept DEF FillInv, Erasing, Writing, BestPcs
<1>6. SaveInv' /\ BestInv'
  BY <1>2, Rest DEF Writing, BestPcs
<1>7. OnceInv'
  BY <1>4, FlashKept DEF Inv
<1>8. BlankInv'
  BY <1>1, <1>4, FlashKept DEF Inv, BlankInv, Erasing
<1>9. FlagInv'
  BY <1>2 DEF FlagInv, Slots
<1>10. AgeInv'
  BY <1>1, <1>2, <1>3, <1>4, FlashKept, AgeKept DEF Inv, Age, InSave
<1> QED BY <1>5, <1>6, <1>7, <1>8, <1>9, <1>10, Types DEF Inv, Next

LEMMA ResetKeeps ==
  ASSUME Inv, Reset
  PROVE  Inv' /\ InFlash' = InFlash /\ Latest' = Latest
<1> DEFINE k == op.i
           e == [Loaded(k, op.buf) EXCEPT !.choosen = FALSE]
<1>1. /\ op.pc \in {"reset", "saved"} /\ k < op.conf.exist
      /\ info' = [info EXCEPT ![k] = e] /\ op' = [op EXCEPT !.i = @ + 1, !.buf = e]
      /\ UNCHANGED <<conf, tried, newer, torn>>
  BY DEF Reset
<1>2. TypeOK /\ op \in OpType /\ info \in [Slots -> Entry \cup {NoEntry}]
  BY DEF Inv, TypeOK, OpType
<1>3. k \in Slots /\ k \in Nat /\ MaxNum \in Nat
  BY <1>1, <1>2, SsidAssumption DEF OpType, Conf, Slots
<1>4. e \in Entry /\ Loaded(k, op.buf) \in Entry
  <2>1. Loaded(k, op.buf) \in Entry
    BY <1>2, <1>3, Basics DEF OpType
  <2> QED BY <2>1 DEF Entry
<1>5. op.pc = "saved" => conf = op.conf /\ Written(op.conf.exist)
  BY DEF Inv, SaveInv, Writing
<1>6. op.conf = Got
  <2>1. op.pc = "saved" => op.conf = Got
    BY <1>2, <1>5, SsidAssumption DEF Got, OpType
  <2> QED BY <1>1, <2>1 DEF Inv, FillInv
<1>7. /\ info[k] # NoEntry => Loaded(k, op.buf) = info[k] /\ Loaded(k, Zero) = info[k]
      /\ info[k] = NoEntry => Loaded(k, op.buf) = op.buf /\ Loaded(k, Zero) = Zero
  BY DEF Loaded
<1>8. info[k] = NoEntry => op.pc = "reset" /\ ~Written(Got.exist) /\ op.buf.ssid = Blank
  BY <1>1, <1>3, <1>5, <1>6 DEF Inv, FillInv, Written
<1>9. /\ e.ssid = Loaded(k, op.buf).ssid /\ e.pwd = Loaded(k, op.buf).pwd
      /\ e.cnt = Loaded(k, op.buf).cnt /\ ~e.choosen
  BY <1>4 DEF Entry
<1> HIDE DEF e, k
<1>10. e.ssid = Loaded(k, Zero).ssid /\ (k \in Used => e.pwd = info[k].pwd)
  BY <1>3, <1>2, <1>7, <1>8, <1>9, UsedIs DEF Zero
<1>11. Got' = Got
  BY <1>1 DEF Got
<1>12. /\ Used' = Used /\ InFlash' = InFlash /\ Latest' = Latest
       /\ Bare => Bare'
       /\ \A n : Written(n) => Written(n)'
       /\ \A j \in Used : info'[j].ssid = info[j].ssid
       /\ OnceInv => OnceInv'
  BY <1>1, <1>2, <1>3, <1>4, <1>10, <1>11, NetworksKept
<1>13. /\ op'.pc = op.pc /\ op'.new = op.new /\ op'.key = op.key /\ op'.conf = op.conf
       /\ op'.i = k + 1 /\ op'.buf = e
  BY <1>1, <1>2 DEF OpType, k
<1>14. /\ info'[k] = e /\ e # NoEntry
       /\ \A j \in Slots : j # k => info'[j] = info[j]
  BY <1>1, <1>2, <1>3, <1>4, SsidAssumption
<1>15. Got.exist \in 0 .. MaxNum
  BY <1>2, Basics
<1>16. FillInv'
  <2>1. /\ Got'.exist > 0 => Got'.latest < Got'.exist
        /\ Written(Got.exist)' \/ Bare'
        /\ op'.pc \in Writing \cup BestPcs \cup {"idle"} => Written(Got.exist)'
    BY <1>11, <1>12, <1>13 DEF Inv, FillInv
  <2>2. ASSUME op.pc = "reset"
        PROVE  /\ op'.conf = Got' /\ op'.i <= Got'.exist /\ Written(op.i)'
               /\ Written(Got.exist)' \/ op'.buf.ssid = Blank
    <3>1. op.conf = Got /\ Written(k) /\ (Written(Got.exist) \/ op.buf.ssid = Blank)
      BY <2>2 DEF Inv, FillInv, k
    <3>2. Written(op.i)'
      BY <1>3, <1>13, <1>14, <3>1 DEF Written, Slots
    <3>3. k + 1 <= Got.exist
      BY <1>1, <1>3, <1>6, <1>15
    <3>4. ASSUME ~Written(Got.exist)
          PROVE  e.ssid = Blank
      <4>1. Bare /\ op.buf.ssid = Blank
        BY <3>1, <3>4 DEF Inv, FillInv
      <4> QED BY <1>3, <1>7, <1>9, <4>1 DEF Bare
    <3> QED BY <1>11, <1>12, <1>13, <3>1, <3>2, <3>3, <3>4
  <2> QED BY <1>1, <1>13, <2>1, <2>2 DEF FillInv, Erasing
<1>17. ASSUME op.pc = "saved"
       PROVE  SaveInv'
  <2>1. /\ op.new.ssid \in Networks /\ op.new.cnt = 0 /\ ~op.new.choosen
        /\ op.conf.latest = op.key /\ op.key < op.conf.exist /\ op.i <= op.conf.exist
        /\ \A j \in Used : info[j].ssid = op.new.ssid => j = op.key
        /\ Written(op.conf.exist) /\ Network(info[op.key]) = Network(op.new)
        /\ conf = op.conf /\ info[op.key].cnt = 1
    BY <1>17 DEF Inv, SaveInv, Writing
  <2>2. /\ op'.conf.exist = Got'.exist /\ op'.i <= op'.conf.exist
    BY <1>1, <1>3, <1>6, <1>11, <1>13, <1>15
  <2>3. \A j \in Used' : info'[j].ssid = op'.new.ssid => j = op'.key
    BY <1>12, <1>13, <2>1
  <2>4. op.key \in Slots
    BY <1>2 DEF OpType
  <2>5. info'[op.key].cnt = 1 /\ Network(info[op.key])' = Network(op.new)'
    <3>1. CASE op.key = k
      <4>1. info[k] # NoEntry /\ Loaded(k, op.buf) = info[k]
        BY <1>7, <1>8, <1>17
      <4> QED BY <1>9, <1>13, <1>14, <2>1, <3>1, <4>1 DEF Network
    <3>2. CASE op.key # k
      BY <1>13, <1>14, <2>1, <2>4, <3>2 DEF Network
    <3> QED BY <3>1, <3>2
  <2>6. Written(op.conf.exist)' /\ conf' = op'.conf
    <3>1. \A n : Written(n)' => (n = op.conf.exist => Written(op.conf.exist)')
      BY <1>13 DEF Written
    <3> QED BY <1>1, <1>12, <1>13, <2>1, <3>1
  <2> QED BY <1>13, <1>17, <2>1, <2>2, <2>3, <2>5, <2>6 DEF SaveInv
<1>18. SaveInv' /\ BestInv'
  <2>1. CASE op.pc = "reset"
    BY <1>13, <2>1, Rest DEF Writing, BestPcs
  <2>2. CASE op.pc = "saved"
    BY <1>13, <1>17, <2>2 DEF BestInv, BestPcs
  <2> QED BY <1>1, <2>1, <2>2
<1>19. BlankInv'
  BY <1>1, <1>11, <1>12, <1>13 DEF Inv, BlankInv
<1>20. FlagInv'
  <2>1. \A j \in Slots : j < k /\ info[j] # NoEntry => ~info[j].choosen
    BY <1>1 DEF Inv, FlagInv, k
  <2>2. \A j \in Slots : j < k + 1 /\ info'[j] # NoEntry => ~info'[j].choosen
    BY <1>3, <1>9, <1>14, <2>1 DEF Slots
  <2> QED BY <1>1, <1>13, <2>2 DEF FlagInv
<1>21. AgeInv'
  <2>1. \A j \in Used : info'[j].cnt = info[j].cnt
    BY <1>7, <1>9, <1>14, <1>2, UsedIs DEF Used
  <2>2. \A j \in Used : Age(j)' = Age(j)
    BY <1>1, <1>13, <2>1 DEF Age
  <2>3. \A s : InSave(s) => InSave(s)'
    BY <1>13 DEF InSave
  <2> QED BY <1>1, <1>2, <1>12, <1>13, <2>2, <2>3, AgeKept DEF Inv
<1> QED BY <1>12, <1>16, <1>18, <1>19, <1>20, <1>21, Types DEF Inv, Next

LEMMA CreatedKeeps == ASSUME Inv, Created PROVE Inv'
<1>1. /\ op.pc = "reset" /\ op.i = op.conf.exist /\ op' = Idle /\ tried' = {}
      /\ UNCHANGED <<conf, info, newer, torn>>
  BY DEF Created
<1>2. op'.pc = "idle" /\ Got' = Got
  BY <1>1 DEF Idle, Got
<1>3. TypeOK /\ op.conf = Got /\ Written(op.i)
  BY <1>1 DEF Inv, FillInv
<1>4. FillInv'
  <2>1. Written(Got.exist)
    <3>1. op.i = Got.exist
      BY <1>1, <1>3
    <3> QED BY <1>3, <3>1
  <2>2. Written(Got.exist)'
    BY <1>1, <1>2, <2>1 DEF Written
  <2> QED BY <1>2, <2>2 DEF Inv, FillInv, Erasing
<1>5. SaveInv' /\ BestInv'
  BY <1>2, Rest DEF Writing, BestPcs
<1>6. Used' = Used /\ OnceInv'
  BY <1>1, <1>2, FlashKept DEF Inv
<1>7. BlankInv'
  BY <1>1, <1>2, <1>6 DEF Inv, BlankInv, Erasing
<1>8. FlagInv'
  <2>1. \A j \in Used : ~info[j].choosen
    BY <1>1, <1>3, UsedIs DEF Inv, FlagInv, Used
  <2> QED BY <1>1, <1>2, <1>6, <2>1 DEF FlagInv
<1>9. AgeInv'
  BY <1>1, <1>2, <1>3, <1>6, AgeKept DEF Inv, Age, InSave
<1> QED BY <1>4, <1>5, <1>6, <1>7, <1>8, <1>9, Types, <1>1 DEF Inv, Next, Created

LEMMA SaveKeeps ==
  ASSUME Inv, NEW s \in Networks, NEW p \in Passwords, Save(s, p)
  PROVE  Inv'
<1>1. /\ op.pc = "idle" /\ op' = Saving(s, p)
      /\ UNCHANGED <<conf, info, tried, newer, torn>>
  BY DEF Save, CanSave
<1>2. /\ op'.pc = "info" /\ op'.key = KeyFor(s) /\ op'.conf = ConfFor(s) /\ op'.i = 0
      /\ op'.new = [Zero EXCEPT !.ssid = s, !.pwd = p]
  BY <1>1 DEF Saving, Idle
<1>3. op'.new.ssid = s /\ op'.new.cnt = 0 /\ ~op'.new.choosen
  BY <1>2 DEF Zero
<1>4. TypeOK /\ Written(Got.exist) /\ OnceInv
  BY <1>1 DEF Inv, FillInv
<1>5. Got' = Got /\ info' = info /\ Used' = Used
  BY <1>1, FlashKept DEF Got
<1>6. /\ KeyFor(s) \in Slots /\ ConfFor(s) \in Conf
      /\ ConfFor(s).latest = KeyFor(s) /\ KeyFor(s) < ConfFor(s).exist
      /\ \/ ConfFor(s).exist = Got.exist
         \/ ConfFor(s).exist = Got.exist + 1 /\ KeyFor(s) = Got.exist
      /\ KeyFor(s) < Got.exist /\ info[KeyFor(s)].ssid # s =>
           /\ Got.exist = MaxNum
           /\ Outgrown \/ \A j \in Slots : info[j].cnt <= info[KeyFor(s)].cnt
      /\ \A j \in Used : info[j].ssid = s => j = KeyFor(s)
  BY <1>4, KeyChosen
<1>7. Outgrown' = Outgrown
  BY <1>5 DEF Outgrown, Loaded, Zero
<1>8. FillInv'
  <2>1. Written(Got.exist)'
    BY <1>4, <1>5 DEF Written
  <2> QED BY <1>2, <1>5, <2>1 DEF Inv, FillInv, Erasing
<1>9. SaveInv'
  <2>1. 0 <= ConfFor(s).exist
    BY <1>6, SsidAssumption DEF Conf
  <2>2. \A j \in Used' : info'[j].ssid = op'.new.ssid => j = op'.key
    BY <1>2, <1>3, <1>5, <1>6
  <2>3. op'.key < Got'.exist /\ info'[op'.key].ssid # op'.new.ssid =>
          /\ Got'.exist = MaxNum
          /\ Outgrown' \/ \A j \in Slots : info'[j].cnt <= info'[op'.key].cnt
    BY <1>2, <1>3, <1>5, <1>6, <1>7
  <2> QED BY <1>2, <1>3, <1>5, <1>6, <2>1, <2>2, <2>3 DEF SaveInv
<1>10. BestInv' /\ FlagInv'
  BY <1>2 DEF BestInv, BestPcs, FlagInv
<1>11. OnceInv' /\ BlankInv'
  BY <1>1, <1>2, <1>4, <1>5, FlashKept DEF Inv, BlankInv, Erasing
<1>12. AgeInv'
  BY <1>1, <1>2, <1>4, <1>5, AgeKept DEF Inv, Age, InSave
<1> QED BY <1>8, <1>9, <1>10, <1>11, <1>12, Types DEF Inv, Next

LEMMA SaveInfoKeeps == ASSUME Inv, SaveInfo PROVE Inv'
<1> DEFINE k == op.key
<1>1. /\ op.pc = "info" /\ info' = [info EXCEPT ![k] = op.new]
      /\ op' = [op EXCEPT !.pc = "count"] /\ UNCHANGED <<conf, tried, newer, torn>>
  BY DEF SaveInfo
<1>2. /\ TypeOK /\ op \in OpType /\ info \in [Slots -> Entry \cup {NoEntry}]
      /\ Written(Got.exist)
  BY <1>1 DEF Inv, TypeOK, OpType, FillInv, Writing
<1>3. /\ op'.pc = "count" /\ op'.new = op.new /\ op'.key = k /\ op'.conf = op.conf
      /\ op'.i = op.i
  BY <1>1, <1>2 DEF OpType
<1>4. /\ op.new.ssid \in Networks /\ op.new.cnt = 0 /\ ~op.new.choosen
      /\ op.conf.latest = k /\ k < op.conf.exist /\ op.i <= op.conf.exist
      /\ \/ op.conf.exist = Got.exist
         \/ op.conf.exist = Got.exist + 1 /\ k = Got.exist
      /\ \A j \in Used : info[j].ssid = op.new.ssid => j = k
      /\ op.i = 0
  BY <1>1 DEF Inv, SaveInv, Writing
<1>5. k \in Slots /\ k \in Nat /\ op.new \in Entry /\ Got' = Got
  BY <1>1, <1>2 DEF OpType, Slots, Got
<1> HIDE DEF k
<1>6. /\ info'[k] = op.new /\ info'[k] # NoEntry
      /\ \A j \in Slots : j # k => info'[j] = info[j]
  BY <1>1, <1>2, <1>5, SsidAssumption
<1>7. op.new.ssid # Blank
  BY <1>4, SsidAssumption
<1>8. \A j \in Used' : j \in Slots /\ (j # k => j \in Used)
  BY <1>5, <1>6 DEF Used, Loaded
<1>9. \A j \in Used : j \in Used'
  BY <1>5, <1>6, <1>7 DEF Used, Loaded
<1>10. Written(Got.exist)' /\ Written(op.conf.exist)'
  <2>1. Got.exist \in 0 .. MaxNum /\ MaxNum \in Nat
    BY <1>2, Basics, SsidAssumption
  <2>2. \A j \in Slots : j < Got.exist => info'[j] # NoEntry
    BY <1>2, <1>6 DEF Written
  <2>3. \A j \in Slots : j < op.conf.exist => info'[j] # NoEntry
    BY <1>4, <1>6, <2>1, <2>2 DEF Slots
  <2> QED BY <1>3, <1>5, <2>2, <2>3 DEF Written
<1>11. FillInv'
  BY <1>3, <1>5, <1>10 DEF Inv, FillInv, Erasing
<1>12. SaveInv'
  <2>1. \A j \in Used' : info'[j].ssid = op'.new.ssid => j = op'.key
    BY <1>3, <1>4, <1>6, <1>8
  <2>2. info'[k].cnt = (IF k < op'.i THEN 1 ELSE 0) /\ Network(info'[k]) = Network(op'.new)
    BY <1>3, <1>4, <1>5, <1>6 DEF Network
  <2> QED BY <1>3, <1>4, <1>5, <1>10, <2>1, <2>2 DEF SaveInv, Network
<1>13. BestInv' /\ FlagInv'
  BY <1>3 DEF BestInv, BestPcs, FlagInv
<1>14. OnceInv'
  <2>1. ASSUME NEW i \in Used', NEW j \in Used', info'[i].ssid = info'[j].ssid
        PROVE  i = j
    <3>1. i \in Slots /\ j \in Slots /\ (i # k => i \in Used) /\ (j # k => j \in Used)
      BY <1>8
    <3>2. CASE i = k \/ j = k
      BY <1>4, <1>6, <2>1, <3>1, <3>2
    <3>3. CASE i # k /\ j # k
      BY <1>6, <2>1, <3>1, <3>3 DEF Inv, OnceInv
    <3> QED BY <3>2, <3>3
  <2> QED BY <2>1 DEF OnceInv
<1>15. BlankInv'
  BY <1>1, <1>3, <1>5, <1>9 DEF Inv, BlankInv, Erasing
<1>16. AgeInv'
  <2>1. \A j \in Used' : ~InSave(info[j].ssid)' => /\ j \in Used /\ info'[j] = info[j]
                                                   /\ Age(j)' = Age(j)
    <3>1. \A j \in Used' : ~InSave(info[j].ssid)' => j # k
      BY <1>3, <1>6 DEF InSave
    <3>2. \A j \in Slots : j # k => info'[j] = info[j] /\ ~(j < op'.i)
      BY <1>3, <1>4, <1>6 DEF Slots
    <3> QED BY <1>1, <1>3, <1>8, <3>1, <3>2 DEF Age
  <2>2. \A s : ~InSave(s)
    BY <1>1 DEF InSave
  <2>3. ASSUME NEW i \in Used', NEW j \in Used',
               i # j, <<info'[i].ssid, info'[j].ssid>> \in newer',
               ~InSave(info[i].ssid)', ~InSave(info[j].ssid)'
        PROVE  Age(i)' < Age(j)'
    BY <1>1, <2>1, <2>2, <2>3 DEF Inv, AgeInv
  <2>4. ASSUME NEW i \in Used', <<info'[i].ssid, info'[i].ssid>> \in newer',
               ~InSave(info[i].ssid)'
        PROVE  Age(i)' >= (IF op'.pc = "saved" THEN 2 ELSE 1)
    BY <1>1, <1>3, <2>1, <2>2, <2>4 DEF Inv, AgeInv
  <2>5. \A p \in newer' : <<p[1], p[1]>> \in newer'
    BY <1>1 DEF Inv, AgeInv
  <2> QED BY <2>3, <2>4, <2>5 DEF AgeInv
<1> QED BY <1>11, <1>12, <1>13, <1>14, <1>15, <1>16, Types DEF Inv, Next

LEMMA CountKeeps ==
  ASSUME Inv, Count
  PROVE  Inv' /\ InFlash' = InFlash /\ Latest' = Latest
<1> DEFINE k == op.i
           e == [info[k] EXCEPT !.cnt = @ + 1]
<1>1. /\ op.pc = "count" /\ k < op.conf.exist
      /\ info' = [info EXCEPT ![k] = [Loaded(k, Zero) EXCEPT !.cnt = @ + 1]]
      /\ op' = [op EXCEPT !.i = @ + 1] /\ UNCHANGED <<conf, tried, newer, torn>>
  BY DEF Count
<1>2. /\ TypeOK /\ op \in OpType /\ info \in [Slots -> Entry \cup {NoEntry}]
      /\ Written(Got.exist)
  BY <1>1 DEF Inv, TypeOK, OpType, FillInv, Writing
<1>3. /\ op'.pc = "count" /\ op'.new = op.new /\ op'.key = op.key /\ op'.conf = op.conf
      /\ op'.i = k + 1
  BY <1>1, <1>2 DEF OpType
<1>4. /\ op.new.ssid \in Networks /\ op.new.cnt = 0 /\ ~op.new.choosen
      /\ op.conf.latest = op.key /\ op.key < op.conf.exist
      /\ \/ op.conf.exist = Got.exist
         \/ op.conf.exist = Got.exist + 1 /\ op.key = Got.exist
      /\ \A j \in Used : info[j].ssid = op.new.ssid => j = op.key
      /\ Written(op.conf.exist) /\ Network(info[op.key]) = Network(op.new)
      /\ info[op.key].cnt = IF op.key < k THEN 1 ELSE 0
  BY <1>1 DEF Inv, SaveInv, Writing
<1>5. k \in Slots /\ k \in Nat /\ MaxNum \in Nat /\ op.key \in Slots /\ op.key \in Nat
      /\ op.conf.exist \in Nat
  BY <1>1, <1>2, SsidAssumption DEF OpType, Conf, Slots
<1>6. info[k] \in Entry /\ Loaded(k, Zero) = info[k]
  BY <1>1, <1>2, <1>4, <1>5 DEF Written, Loaded
<1>7. /\ e \in Entry /\ e.ssid = info[k].ssid /\ e.pwd = info[k].pwd
      /\ e.cnt = info[k].cnt + 1
  BY <1>6 DEF Entry
<1>8. info' = [info EXCEPT ![k] = e] /\ Got' = Got
  BY <1>1, <1>6 DEF Got
<1> HIDE DEF e, k
<1>9. /\ Used' = Used /\ InFlash' = InFlash /\ Latest' = Latest
      /\ Bare => Bare'
      /\ \A n : Written(n) => Written(n)'
      /\ \A j \in Used : info'[j].ssid = info[j].ssid
      /\ OnceInv'
  BY <1>2, <1>5, <1>6, <1>7, <1>8, NetworksKept DEF Inv
<1>10. info'[k] = e /\ \A j \in Slots : j # k => info'[j] = info[j]
  BY <1>2, <1>5, <1>8
<1>11. Written(Got.exist)' /\ Written(op.conf.exist)'
  <2>1. \A n : Written(n)' => /\ n = Got.exist => Written(Got.exist)'
                              /\ n = op.conf.exist => Written(op.conf.exist)'
    BY <1>3, <1>8 DEF Written
  <2> QED BY <1>2, <1>4, <1>9, <2>1
<1>12. FillInv'
  BY <1>3, <1>8, <1>11 DEF Inv, FillInv, Erasing
<1>13. SaveInv'
  <2>1. k + 1 <= op'.conf.exist
    BY <1>1, <1>3, <1>5 DEF k
  <2>2. \A j \in Used' : info'[j].ssid = op'.new.ssid => j = op'.key
    BY <1>3, <1>4, <1>9
  <2>3. info'[op.key].cnt = IF op.key < k + 1 THEN 1 ELSE 0
    <3>1. CASE op.key = k
      BY <1>4, <1>5, <1>7, <1>10, <3>1
    <3>2. CASE op.key # k
      BY <1>4, <1>5, <1>10, <3>2
    <3> QED BY <3>1, <3>2
  <2>4. Network(info'[op.key]) = Network(op.new)
    BY <1>4, <1>5, <1>7, <1>10 DEF Network
  <2> QED BY <1>3, <1>4, <1>8, <1>11, <2>1, <2>2, <2>3, <2>4 DEF SaveInv, Network
<1>14. BestInv' /\ FlagInv'
  BY <1>3 DEF BestInv, BestPcs, FlagInv
<1>15. BlankInv'
  BY <1>1, <1>3, <1>8, <1>9 DEF Inv, BlankInv
<1>16. AgeInv'
  <2>1. \A j \in Used : Age(j)' = Age(j)
    <3>1. ASSUME NEW j \in Slots, info[j] \in Entry PROVE Age(j)' = Age(j)
      <4>1. info[j].cnt \in Nat /\ j \in Nat
        BY <3>1 DEF Entry, Slots
      <4>2. CASE j = k
        <5>1. info'[j].cnt = info[j].cnt + 1 /\ j < op'.i /\ ~(j < op.i)
          BY <1>3, <1>5, <1>7, <1>10, <4>2 DEF k
        <5> QED BY <1>1, <1>3, <4>1, <5>1 DEF Age
      <4>3. CASE j # k
        <5>1. info'[j] = info[j] /\ (j < op'.i <=> j < op.i)
          BY <1>3, <1>5, <1>10, <4>1, <4>3 DEF k
        <5>2. op.pc = "count" /\ op'.pc = "count" /\ info'[j].cnt = info[j].cnt
          BY <1>1, <1>3, <5>1
        <5> QED BY <4>1, <5>1, <5>2 DEF Age
      <4> QED BY <4>2, <4>3
    <3> QED BY <1>2, <3>1, Basics, UsedIs DEF Used
  <2>2. \A s : InSave(s) => InSave(s)'
    BY <1>3 DEF InSave
  <2> QED BY <1>1, <1>2, <1>3, <1>9, <2>1, <2>2, AgeKept DEF Inv
<1> QED BY <1>9, <1>12, <1>13, <1>14, <1>15, <1>16, Types DEF Inv, Next

LEMMA SaveConfKeeps == ASSUME Inv, SaveConf PROVE Inv'
<1> DEFINE k == op.key
<1>1. /\ op.pc = "count" /\ op.i = op.conf.exist /\ conf' = op.conf
      /\ op' = [op EXCEPT !.pc = "saved", !.i = 0] /\ UNCHANGED <<info, tried, newer, torn>>
  BY DEF SaveConf
<1>2. TypeOK /\ op \in OpType /\ MaxNum \in Nat
  BY SsidAssumption DEF Inv, TypeOK, OpType
<1>3. /\ op'.pc = "saved" /\ op'.new = op.new /\ op'.key = k /\ op'.conf = op.conf
      /\ op'.i = 0
  BY <1>1, <1>2 DEF OpType
<1>4. /\ op.new.ssid \in Networks /\ op.new.cnt = 0 /\ ~op.new.choosen
      /\ op.conf.latest = k /\ k < op.conf.exist
      /\ \/ op.conf.exist = Got.exist
         \/ op.conf.exist = Got.exist + 1 /\ k = Got.exist
      /\ \A j \in Used : info[j].ssid = op.new.ssid => j = k
      /\ Written(op.conf.exist) /\ Network(info[k]) = Network(op.new)
      /\ info[k].cnt = IF k < op.i THEN 1 ELSE 0
  BY <1>1 DEF Inv, SaveInv, Writing
<1>5. Got' = op.conf /\ conf' = op'.conf
  BY <1>1, <1>2, <1>3, SsidAssumption DEF Got, OpType
<1>6. /\ k \in Slots /\ k \in Nat /\ Got.exist \in Nat /\ op.conf.exist \in Nat
  BY <1>2, Basics DEF OpType, Conf, Slots
<1> HIDE DEF k
<1>7. info[k].ssid = op.new.ssid /\ op.new.ssid # Blank /\ info[k].cnt = 1
  BY <1>1, <1>4, <1>6, SsidAssumption DEF Network
<1>8. /\ \A j \in Used' : j \in Slots /\ j < op.conf.exist /\ (j # k => j \in Used)
      /\ \A j \in Used : j \in Used'
      /\ k \in Used'
  <2>1. \A j \in Slots : Loaded(j, Zero)' = Loaded(j, Zero)
    BY <1>1 DEF Loaded
  <2>2. Loaded(k, Zero).ssid # Blank
    BY <1>4, <1>6, <1>7 DEF Written, Loaded
  <2>3. \A j \in Slots : j < op.conf.exist /\ j # k => j < Got.exist
    BY <1>4, <1>6 DEF Slots
  <2>4. \A j \in Slots : j < Got.exist => j < op.conf.exist
    BY <1>4, <1>6 DEF Slots
  <2> QED BY <1>4, <1>5, <1>6, <2>1, <2>2, <2>3, <2>4 DEF Used
<1>9. Written(op.conf.exist)' /\ Written(Got.exist)'
  BY <1>1, <1>3, <1>4, <1>5 DEF Written
<1>10. FillInv'
  BY <1>3, <1>4, <1>5, <1>9 DEF FillInv, Erasing
<1>11. SaveInv'
  <2>1. \A j \in Used' : info'[j].ssid = op'.new.ssid => j = op'.key
    BY <1>1, <1>3, <1>4, <1>8
  <2>2. 0 <= op'.conf.exist
    BY <1>3, <1>6
  <2> QED BY <1>1, <1>3, <1>4, <1>5, <1>7, <1>9, <2>1, <2>2 DEF SaveInv, Network
<1>12. BestInv'
  BY <1>3 DEF BestInv, BestPcs
<1>13. FlagInv'
  BY <1>3 DEF FlagInv, Slots
<1>14. OnceInv'
  <2>1. ASSUME NEW i \in Used', NEW j \in Used', info'[i].ssid = info'[j].ssid
        PROVE  i = j
    <3>1. CASE i = k \/ j = k
      BY <1>1, <1>4, <1>7, <1>8, <2>1, <3>1
    <3>2. CASE i # k /\ j # k
      BY <1>1, <1>8, <2>1, <3>2 DEF Inv, OnceInv
    <3> QED BY <3>1, <3>2
  <2> QED BY <2>1 DEF OnceInv
<1>15. BlankInv'
  <2>1. \A j \in Slots : j < op.conf.exist => j = k \/ j < Got.exist
    BY <1>4, <1>6 DEF Slots
  <2> QED BY <1>1, <1>3, <1>5, <1>8, <2>1 DEF Inv, BlankInv, Erasing
<1>16. AgeInv'
  <2>1. \A j \in Used' : ~InSave(info[j].ssid)' => j # k /\ j \in Used
    BY <1>1, <1>3, <1>7, <1>8 DEF InSave
  <2>2. \A j \in Used : Age(j) = info[j].cnt - 1 /\ Age(j)' = info[j].cnt
                        /\ info[j].cnt \in Nat
    <3>1. \A j \in Used : j < op.i
      BY <1>1, <1>8
    <3>2. \A j \in Used : info[j] \in Entry
      BY <1>2, Basics, UsedIs DEF Used
    <3> QED BY <1>1, <1>3, <3>1, <3>2 DEF Age, Entry
  <2>3. \A s : InSave(s) <=> InSave(s)'
    BY <1>1, <1>3 DEF InSave
  <2>4. ASSUME NEW i \in Used', NEW j \in Used',
               i # j, <<info'[i].ssid, info'[j].ssid>> \in newer',
               ~InSave(info[i].ssid)', ~InSave(info[j].ssid)'
        PROVE  Age(i)' < Age(j)'
    <3>1. i \in Used /\ j \in Used /\ ~InSave(info[i].ssid) /\ ~InSave(info[j].ssid)
      BY <1>1, <1>3, <2>1, <2>4 DEF InSave
    <3>2. Age(i) < Age(j)
      BY <1>1, <2>4, <3>1 DEF Inv, AgeInv
    <3> QED BY <2>2, <3>1, <3>2
  <2>5. ASSUME NEW i \in Used', <<info'[i].ssid, info'[i].ssid>> \in newer',
               ~InSave(info[i].ssid)'
        PROVE  Age(i)' >= (IF op'.pc = "saved" THEN 2 ELSE 1)
    <3>1. i \in Used /\ ~InSave(info[i].ssid)
      BY <1>1, <1>3, <2>1, <2>5 DEF InSave
    <3>2. Age(i) >= 1
      BY <1>1, <2>5, <3>1 DEF Inv, AgeInv
    <3> QED BY <1>3, <2>2, <3>1, <3>2
  <2>6. \A p \in newer' : <<p[1], p[1]>> \in newer'
    BY <1>1 DEF Inv, AgeInv
  <2> QED BY <2>4, <2>5, <2>6 DEF AgeInv
<1> QED BY <1>10, <1>11, <1>12, <1>13, <1>14, <1>15, <1>16, Types DEF Inv, Next

LEMMA SavedKeeps == ASSUME Inv, Saved PROVE Inv'
<1>1. /\ op.pc = "saved" /\ op.i = op.conf.exist /\ op' = Idle /\ tried' = {}
      /\ newer' = AsNewest(op.new.ssid, newer) /\ UNCHANGED <<conf, info, torn>>
  BY DEF Saved
<1>2. op'.pc = "idle" /\ Got' = Got
  BY <1>1 DEF Idle, Got
<1>3. TypeOK /\ op \in OpType /\ Written(Got.exist)
  BY <1>1 DEF Inv, FillInv, TypeOK, OpType, Writing
<1>4. /\ \A j \in Used : info[j].ssid = op.new.ssid => j = op.key
      /\ conf = op.conf /\ info[op.key].cnt = 1
  BY <1>1 DEF Inv, SaveInv, Writing
<1>5. op.conf = Got
  BY <1>3, <1>4, SsidAssumption DEF Got, OpType
<1>6. FillInv'
  <2>1. Written(Got.exist)'
    BY <1>1, <1>2, <1>3 DEF Written
  <2> QED BY <1>2, <2>1 DEF Inv, FillInv, Erasing
<1>7. SaveInv' /\ BestInv'
  BY <1>2, Rest DEF Writing, BestPcs
<1>8. Used' = Used /\ OnceInv'
  BY <1>1, <1>2, FlashKept DEF Inv
<1>9. BlankInv'
  BY <1>1, <1>2, <1>8 DEF Inv, BlankInv, Erasing
<1>10. FlagInv'
  <2>1. \A j \in Used : ~info[j].choosen
    BY <1>1, <1>3, <1>5, UsedIs DEF Inv, FlagInv, Used
  <2> QED BY <1>1, <1>2, <1>8, <2>1 DEF FlagInv
<1>11. AgeInv'
  <2> DEFINE s == op.new.ssid
  <2>1. /\ newer' = {p \in newer : s \notin {p[1], p[2]}}
                      \cup {<<s, t>> : t \in {p[1] : p \in newer} \cup {s}}
        /\ newer \subseteq Networks \X Networks
        /\ \A p \in newer : <<p[1], p[1]>> \in newer
    BY <1>1, <1>3 DEF AsNewest, TypeOK, Inv, AgeInv
  <2>2. \A j \in Used : /\ Age(j) = info[j].cnt /\ Age(j)' = info[j].cnt
                        /\ info[j].cnt \in Nat
    <3>1. \A j \in Used : info[j] \in Entry
      BY <1>3, Basics, UsedIs DEF Used
    <3> QED BY <1>1, <1>2, <3>1 DEF Age, Entry
  <2>3. \A t : InSave(t) <=> t = s
    BY <1>1 DEF InSave
  <2>4. \A j \in Used : info[j].ssid = s => info[j].cnt = 1
    BY <1>4
  <2> HIDE DEF s
  <2>5. \A t : <<t, t>> \in newer' => t = s \/ (t # s /\ <<t, t>> \in newer)
    BY <2>1
  <2>6. \A t, u : t # s /\ <<t, u>> \in newer' => u # s /\ <<t, u>> \in newer
    BY <2>1
  <2>7. \A u : u # s /\ <<s, u>> \in newer' => <<u, u>> \in newer
    BY <2>1
  <2>8. \A j \in Used : info[j].ssid # s /\ <<info[j].ssid, info[j].ssid>> \in newer
                        => info[j].cnt >= 2
    BY <1>1, <2>2, <2>3 DEF Inv, AgeInv
  <2>9. ASSUME NEW i \in Used, NEW j \in Used,
               i # j, <<info[i].ssid, info[j].ssid>> \in newer'
        PROVE  info[i].cnt < info[j].cnt
    <3>1. info[i].ssid # info[j].ssid
      BY <2>9 DEF Inv, OnceInv
    <3>2. CASE info[i].ssid = s
      <4>1. info[i].cnt = 1 /\ info[j].cnt >= 2
        BY <2>4, <2>7, <2>8, <2>9, <3>1, <3>2
      <4> QED BY <2>2, <4>1
    <3>3. CASE info[i].ssid # s
      <4>1. info[j].ssid # s /\ <<info[i].ssid, info[j].ssid>> \in newer
        BY <2>6, <2>9, <3>3
      <4>2. Age(i) < Age(j)
        BY <2>3, <2>9, <3>3, <4>1 DEF Inv, AgeInv
      <4> QED BY <2>2, <4>2
    <3> QED BY <3>2, <3>3
  <2>10. ASSUME NEW i \in Used, <<info[i].ssid, info[i].ssid>> \in newer'
         PROVE  info[i].cnt >= 1
    BY <2>2, <2>4, <2>5, <2>8, <2>10
  <2>11. \A p \in newer' : <<p[1], p[1]>> \in newer'
    <3>1. ASSUME NEW p \in newer' PROVE <<p[1], p[1]>> \in newer'
      <4>1. CASE p \in newer /\ s \notin {p[1], p[2]}
        BY <2>1, <4>1
      <4>2. CASE \E t : p = <<s, t>>
        BY <2>1, <4>2
      <4> QED BY <2>1, <3>1, <4>1, <4>2
    <3> QED BY <3>1
  <2> QED BY <1>1, <1>2, <1>8, <2>2, <2>9, <2>10, <2>11 DEF AgeInv
<1> QED BY <1>6, <1>7, <1>8, <1>9, <1>10, <1>11, <1>1, Types DEF Inv, Next, Saved

\* Marking a slot's network leaves all but its flag.
LEMMA Marked ==
  ASSUME Inv, Written(Got.exist), NEW k \in Slots, k < Got.exist, Got' = Got,
         info' = [info EXCEPT ![k] = [info[k] EXCEPT !.choosen = TRUE]]
  PROVE  /\ Used' = Used /\ InFlash' = InFlash /\ Latest' = Latest
         /\ OnceInv' /\ Written(Got.exist)'
         /\ info[k] \in Entry /\ info'[k] = [info[k] EXCEPT !.choosen = TRUE]
         /\ \A j \in Slots : j # k => info'[j] = info[j]
         /\ \A j \in Used : info'[j].ssid = info[j].ssid /\ info'[j].cnt = info[j].cnt
<1> DEFINE e == [info[k] EXCEPT !.choosen = TRUE]
<1>1. TypeOK /\ info \in [Slots -> Entry \cup {NoEntry}]
  BY DEF Inv, TypeOK
<1>2. info[k] \in Entry /\ Loaded(k, Zero) = info[k]
  BY <1>1 DEF Written, Loaded
<1>3. /\ e \in Entry /\ e.ssid = info[k].ssid /\ e.pwd = info[k].pwd /\ e.cnt = info[k].cnt
      /\ info' = [info EXCEPT ![k] = e]
  BY <1>2 DEF Entry
<1> HIDE DEF e
<1>4. /\ Used' = Used /\ InFlash' = InFlash /\ Latest' = Latest
      /\ \A n : Written(n) => Written(n)'
      /\ \A j \in Used : info'[j].ssid = info[j].ssid
      /\ OnceInv'
  BY <1>1, <1>2, <1>3, NetworksKept DEF Inv
<1>5. info'[k] = e /\ \A j \in Slots : j # k => info'[j] = info[j]
  BY <1>1, <1>3
<1>6. \A j \in Used : info'[j].cnt = info[j].cnt
  BY <1>3, <1>5 DEF Used
<1>7. Written(Got.exist)'
  BY <1>4 DEF Written
<1> QED BY <1>2, <1>4, <1>5, <1>6, <1>7 DEF e

LEMMA LatestRead ==
  ASSUME Inv, GetLatest
  PROVE  /\ op.pc = "idle" /\ UNCHANGED <<conf, op, newer, torn>>
         /\ Written(Got.exist) /\ Got.latest \in Slots /\ Got.latest < Got.exist
         /\ Got' = Got
         /\ info' = [info EXCEPT ![Got.latest] = [info[Got.latest] EXCEPT !.choosen = TRUE]]
         /\ tried' = tried \cup {info[Got.latest].ssid}
<1> DEFINE k == Got.latest
           e == Loaded(k, Zero)
<1>1. /\ op.pc = "idle" /\ Got.exist > 0
      /\ info' = IF e.choosen THEN info ELSE [info EXCEPT ![k] = [e EXCEPT !.choosen = TRUE]]
      /\ tried' = tried \cup {e.ssid}
      /\ UNCHANGED <<conf, op, newer, torn>>
  BY DEF GetLatest
<1>2. Written(Got.exist) /\ k \in Slots /\ k < Got.exist
  BY <1>1, Basics DEF Inv, FillInv
<1>3. info \in [Slots -> Entry \cup {NoEntry}]
  BY DEF Inv, TypeOK
<1>4. e = info[k] /\ e \in Entry
  BY <1>2, <1>3 DEF Written, Loaded
<1> HIDE DEF e, k
<1>5. info' = [info EXCEPT ![k] = [e EXCEPT !.choosen = TRUE]]
  <2>1. CASE e.choosen
    <3>1. [e EXCEPT !.choosen = TRUE] = e
      BY <1>4, <2>1 DEF Entry
    <3> QED BY <1>1, <1>2, <1>3, <1>4, <2>1, <3>1
  <2>2. CASE ~e.choosen
    BY <1>1, <2>2
  <2> QED BY <2>1, <2>2
<1> QED BY <1>1, <1>2, <1>4, <1>5 DEF Got, k

LEMMA GetLatestKeeps == ASSUME Inv, GetLatest PROVE Inv'
<1> DEFINE k == Got.latest
<1>1. /\ op.pc = "idle" /\ UNCHANGED <<conf, op, newer, torn>>
      /\ Written(Got.exist) /\ k \in Slots /\ k < Got.exist /\ Got' = Got
      /\ info' = [info EXCEPT ![k] = [info[k] EXCEPT !.choosen = TRUE]]
      /\ tried' = tried \cup {info[k].ssid}
  BY LatestRead
<1> HIDE DEF k
<1>2. /\ Used' = Used /\ OnceInv' /\ Written(Got.exist)'
      /\ info[k] \in Entry /\ info'[k] = [info[k] EXCEPT !.choosen = TRUE]
      /\ \A j \in Slots : j # k => info'[j] = info[j]
      /\ \A j \in Used : info'[j].ssid = info[j].ssid /\ info'[j].cnt = info[j].cnt
  BY <1>1, Marked
<1>3. FillInv'
  BY <1>1, <1>2 DEF Inv, FillInv, Erasing
<1>4. SaveInv' /\ BestInv'
  BY <1>1, Rest DEF Writing, BestPcs
<1>5. BlankInv'
  BY <1>1, <1>2 DEF Inv, BlankInv
<1>6. FlagInv'
  <2>1. ASSUME NEW i \in Used
        PROVE  info'[i].choosen <=> info'[i].ssid \in tried'
    <3>1. info[i].choosen <=> info[i].ssid \in tried
      BY <1>1 DEF Inv, FlagInv
    <3>2. i \in Slots /\ info[i].ssid # Blank
      BY UsedIs DEF Inv, Used
    <3>3. CASE i = k
      <4>1. info'[k].choosen
        BY <1>2 DEF Entry
      <4> QED BY <1>1, <1>2, <3>3, <4>1
    <3>4. CASE i # k
      <4>1. info[i].ssid # info[k].ssid
        <5>1. CASE info[k].ssid = Blank
          BY <3>2, <5>1
        <5>2. CASE info[k].ssid # Blank
          <6>1. k \in Used
            BY <1>1, <5>2, UsedIs DEF Inv, Written
          <6> QED BY <3>4, <6>1 DEF Inv, OnceInv
        <5> QED BY <5>1, <5>2
      <4> QED BY <1>1, <1>2, <3>1, <3>2, <3>4, <4>1
    <3> QED BY <3>3, <3>4
  <2> QED BY <1>1, <1>2, <2>1 DEF FlagInv
<1>7. AgeInv'
  BY <1>1, <1>2, AgeKept DEF Inv, Age, InSave
<1> QED BY <1>2, <1>3, <1>4, <1>5, <1>6, <1>7, Types DEF Inv, Next

LEMMA GetBestKeeps == ASSUME Inv, NEW i \in Slots, GetBest(i) PROVE Inv'
<1>1. /\ op.pc = "idle" /\ i < Got.exist
      /\ op' = [Idle EXCEPT !.pc = "best", !.key = i, !.conf = [Got EXCEPT !.latest = i],
                            !.new = [Loaded(i, Zero) EXCEPT !.choosen = TRUE]]
      /\ UNCHANGED <<conf, info, tried, newer, torn>>
  BY DEF GetBest, Holds
<1>2. TypeOK /\ Written(Got.exist)
  BY <1>1 DEF Inv, FillInv
<1>3. Loaded(i, Zero) = info[i]
  BY <1>1, <1>2 DEF Written, Loaded
<1>4. /\ op'.pc = "best" /\ op'.key = i /\ op'.conf = [Got EXCEPT !.latest = i]
      /\ op'.new = [info[i] EXCEPT !.choosen = TRUE]
  BY <1>1, <1>3 DEF Idle
<1>5. Got' = Got /\ Used' = Used /\ OnceInv' /\ Written(Got.exist)'
  BY <1>1, <1>2, FlashKept DEF Inv, Got, Written
<1>6. FillInv'
  BY <1>4, <1>5 DEF Inv, FillInv, Erasing
<1>7. SaveInv' /\ BestInv'
  BY <1>1, <1>4, <1>5 DEF SaveInv, Writing, BestInv
<1>8. BlankInv' /\ FlagInv'
  BY <1>1, <1>4, <1>5 DEF Inv, BlankInv, FlagInv, Erasing
<1>9. AgeInv'
  BY <1>1, <1>2, <1>4, <1>5, AgeKept DEF Inv, Age, InSave
<1> QED BY <1>5, <1>6, <1>7, <1>8, <1>9, Types DEF Inv, Next

LEMMA BestInfoKeeps == ASSUME Inv, BestInfo PROVE Inv'
<1> DEFINE k == op.key
<1>1. /\ op.pc = "best" /\ info' = [info EXCEPT ![k] = op.new]
      /\ op' = [op EXCEPT !.pc = "best_conf"] /\ UNCHANGED <<conf, tried, newer, torn>>
  BY DEF BestInfo
<1>2. TypeOK /\ op \in OpType /\ k \in Slots
  BY DEF Inv, TypeOK, OpType
<1>3. /\ op'.pc = "best_conf" /\ op'.key = k /\ op'.new = op.new /\ op'.conf = op.conf
  BY <1>1, <1>2 DEF OpType
<1>4. /\ k < Got.exist /\ op.conf = [Got EXCEPT !.latest = k]
      /\ op.new = [info[k] EXCEPT !.choosen = TRUE]
  BY <1>1 DEF Inv, BestInv, BestPcs
<1>5. Written(Got.exist) /\ Got' = Got
  BY <1>1 DEF Inv, FillInv, BestPcs, Got
<1> HIDE DEF k
<1>6. /\ Used' = Used /\ OnceInv' /\ Written(Got.exist)'
      /\ info[k] \in Entry /\ info'[k] = [info[k] EXCEPT !.choosen = TRUE]
      /\ \A j \in Slots : j # k => info'[j] = info[j]
      /\ \A j \in Used : info'[j].ssid = info[j].ssid /\ info'[j].cnt = info[j].cnt
  BY <1>1, <1>2, <1>4, <1>5, Marked
<1>7. FillInv'
  BY <1>3, <1>5, <1>6 DEF Inv, FillInv, Erasing
<1>8. SaveInv' /\ BestInv'
  <2>1. op'.new = [info'[k] EXCEPT !.choosen = TRUE]
    BY <1>3, <1>4, <1>6 DEF Entry
  <2> QED BY <1>3, <1>4, <1>5, <2>1 DEF SaveInv, Writing, BestInv
<1>9. BlankInv'
  BY <1>1, <1>3, <1>5, <1>6 DEF Inv, BlankInv, Erasing
<1>10. FlagInv'
  <2>1. \A i \in Used : info[i].choosen <=> info[i].ssid \in tried
    BY <1>1 DEF Inv, FlagInv
  <2>2. \A i \in Used : i \in Slots
    BY DEF Used
  <2> QED BY <1>1, <1>3, <1>4, <1>6, <2>1, <2>2 DEF FlagInv
<1>11. AgeInv'
  BY <1>1, <1>2, <1>3, <1>6, AgeKept DEF Inv, Age, InSave
<1> QED BY <1>6, <1>7, <1>8, <1>9, <1>10, <1>11, Types DEF Inv, Next

LEMMA BestConfKeeps == ASSUME Inv, BestConf PROVE Inv'
<1> DEFINE k == op.key
<1>1. /\ op.pc = "best_conf" /\ conf' = op.conf /\ op' = Idle
      /\ tried' = tried \cup {op.new.ssid} /\ UNCHANGED <<info, newer, torn>>
  BY DEF BestConf
<1>2. TypeOK /\ op \in OpType /\ k \in Slots /\ Got \in Conf
  BY Basics DEF Inv, TypeOK, OpType
<1>3. op'.pc = "idle"
  BY <1>1 DEF Idle
<1>4. /\ k < Got.exist /\ op.conf = [Got EXCEPT !.latest = k] /\ info[k] = op.new
      /\ op.new = [info[k] EXCEPT !.choosen = TRUE]
  BY <1>1 DEF Inv, BestInv, BestPcs, FlagInv
<1>5. Got' = op.conf /\ Got'.exist = Got.exist /\ Got'.latest = k
  <2>1. Got' = op.conf
    BY <1>1, <1>2, SsidAssumption DEF Got, OpType
  <2> QED BY <1>2, <1>4, <2>1 DEF Conf
<1>6. Written(Got.exist)
  BY <1>1 DEF Inv, FillInv, BestPcs
<1> HIDE DEF k
<1>7. Used' = Used /\ OnceInv' /\ Written(Got.exist)'
  <2>1. Used' = Used
    BY <1>1, <1>5 DEF Used, Loaded, Zero
  <2> QED BY <1>1, <1>5, <1>6, <2>1 DEF Inv, OnceInv, Written
<1>8. FillInv'
  BY <1>3, <1>4, <1>5, <1>7 DEF FillInv, Erasing
<1>9. SaveInv' /\ BestInv'
  BY <1>3, Rest DEF Writing, BestPcs
<1>10. BlankInv'
  BY <1>1, <1>3, <1>5, <1>7 DEF Inv, BlankInv, Erasing
<1>11. FlagInv'
  <2>1. \A i \in Used \ {k} : info[i].choosen <=> info[i].ssid \in tried
    BY <1>1 DEF Inv, FlagInv, k
  <2>2. info[k] \in Entry
    BY <1>2, <1>4, <1>6, Basics DEF Written
  <2>3. info[k].choosen
    BY <1>4, <2>2 DEF Entry
  <2>4. ASSUME NEW i \in Used, i # k
        PROVE  info[i].ssid # info[k].ssid
    <3>1. info[i].ssid # Blank
      BY <1>2, UsedIs DEF Used
    <3>2. CASE info[k].ssid = Blank
      BY <3>1, <3>2
    <3>3. CASE info[k].ssid # Blank
      <4>1. k \in Used
        BY <1>2, <1>4, <1>6, <3>3, UsedIs DEF Written
      <4> QED BY <2>4, <4>1 DEF Inv, OnceInv
    <3> QED BY <3>2, <3>3
  <2>5. \A i \in Used : info[i].choosen <=> info[i].ssid \in tried'
    BY <1>1, <1>4, <2>1, <2>3, <2>4
  <2> QED BY <1>1, <1>3, <1>7, <2>5 DEF FlagInv
<1>12. AgeInv'
  BY <1>1, <1>2, <1>3, <1>7, AgeKept DEF Inv, Age, InSave
<1> QED BY <1>7, <1>8, <1>9, <1>10, <1>11, <1>12, <1>1, Types DEF Inv, Next, BestConf

LEMMA EraseKeeps ==
  ASSUME Inv, NEW why \in {"erase", "destroy"}, Erase(why) PROVE Inv'
<1>1. /\ op.pc = "idle" /\ op' = [Idle EXCEPT !.pc = why, !.conf = NewConf]
      /\ UNCHANGED <<conf, info, tried, newer, torn>>
  BY DEF Erase
<1>2. op'.pc = why /\ op'.conf = NewConf
  BY <1>1 DEF Idle
<1>3. Got' = Got /\ Used' = Used /\ OnceInv' /\ (Written(Got.exist) => Written(Got.exist)')
  BY <1>1, FlashKept DEF Inv, Got, Written
<1>4. FillInv'
  BY <1>1, <1>2, <1>3 DEF Inv, FillInv, Writing, BestPcs
<1>5. SaveInv' /\ BestInv'
  BY <1>2, Rest DEF Writing, BestPcs
<1>6. BlankInv' /\ FlagInv'
  BY <1>2 DEF BlankInv, FlagInv, Erasing
<1>7. AgeInv'
  BY <1>1, <1>2, <1>3, AgeKept DEF Inv, Age, InSave
<1> QED BY <1>3, <1>4, <1>5, <1>6, <1>7, Types DEF Inv, Next

LEMMA EraseInfoKeeps == ASSUME Inv, EraseInfo PROVE Inv'
<1>1. /\ op.pc \in {"erase", "destroy"} /\ info' = [j \in Slots |-> NoEntry]
      /\ op' = [op EXCEPT !.pc = IF @ = "erase" THEN "erase_conf" ELSE "destroy_conf"]
      /\ UNCHANGED <<conf, tried, newer, torn>>
  BY DEF EraseInfo
<1>2. op'.pc \in {"erase_conf", "destroy_conf"} /\ op'.conf = op.conf
  BY <1>1 DEF Inv, TypeOK
<1>3. Got' = Got /\ Bare' /\ Used' = {}
  BY <1>1 DEF Got, Bare, Used, Loaded, Zero
<1>4. FillInv'
  BY <1>1, <1>2, <1>3 DEF Inv, FillInv, Writing, BestPcs, Erasing
<1>5. SaveInv' /\ BestInv'
  BY <1>2, Rest DEF Writing, BestPcs
<1>6. OnceInv' /\ BlankInv' /\ FlagInv'
  BY <1>2, <1>3 DEF OnceInv, BlankInv, FlagInv, Erasing
<1>7. AgeInv'
  BY <1>1, <1>3 DEF Inv, AgeInv
<1> QED BY <1>4, <1>5, <1>6, <1>7, Types DEF Inv, Next

\* Without slots in use there is little left to say.
LEMMA Emptied ==
  ASSUME Inv, Got'.exist = 0, op'.pc \notin Writing \cup BestPcs \cup {"reset"},
         op'.pc \notin {"erase_conf", "destroy_conf"},
         op'.pc \in Erasing => op'.conf = NewConf,
         newer' = newer \/ newer' = {}
  PROVE  FillInv' /\ SaveInv' /\ BestInv' /\ OnceInv' /\ BlankInv' /\ FlagInv' /\ AgeInv'
<1>1. \A j \in Slots : ~(j < 0)
  BY DEF Slots
<1>2. Used' = {} /\ Written(Got.exist)'
  BY <1>1 DEF Used, Written
<1>3. FillInv'
  BY <1>2 DEF FillInv
<1>4. BlankInv' /\ OnceInv' /\ SaveInv' /\ BestInv'
  BY <1>1, <1>2, Rest DEF BlankInv, OnceInv
<1>5. FlagInv'
  BY <1>2 DEF FlagInv, BestPcs, Writing
<1>6. AgeInv'
  BY <1>2 DEF Inv, AgeInv
<1> QED BY <1>3, <1>4, <1>5, <1>6

LEMMA EraseConfKeeps == ASSUME Inv, EraseConf PROVE Inv'
<1>1. /\ op.pc \in {"erase_conf", "destroy_conf"} /\ conf' = NoConf
      /\ op' = [op EXCEPT !.pc = IF @ = "erase_conf" THEN "erase_save" ELSE "destroyed"]
      /\ UNCHANGED <<info, tried, newer, torn>>
  BY DEF EraseConf
<1>2. op'.pc \in {"erase_save", "destroyed"} /\ op'.conf = op.conf /\ op.conf = NewConf
  BY <1>1 DEF Inv, TypeOK, FillInv, Erasing
<1>3. Got'.exist = 0
  BY <1>1 DEF Got, NewConf
<1> QED BY <1>1, <1>2, <1>3, Emptied, Types DEF Inv, Next, Writing, BestPcs

LEMMA EraseSaveKeeps == ASSUME Inv, EraseSave PROVE Inv'
<1>1. op.pc = "erase_save" /\ conf' = op.conf /\ op' = Idle /\ newer' = {}
  BY DEF EraseSave
<1>2. op.conf = NewConf /\ NewConf \in Conf /\ op'.pc = "idle"
  BY <1>1, Basics DEF Inv, FillInv, Erasing, Idle
<1>3. Got'.exist = 0
  BY <1>1, <1>2, SsidAssumption DEF Got, NewConf
<1> QED BY <1>1, <1>2, <1>3, Emptied, Types DEF Inv, Next, Writing, BestPcs, Erasing

LEMMA DestroyedKeeps == ASSUME Inv, Destroyed PROVE Inv'
<1>1. /\ op.pc = "destroyed" /\ op' = [Idle EXCEPT !.pc = "off"] /\ newer' = {}
      /\ UNCHANGED <<conf, info, tried>>
  BY DEF Destroyed
<1>2. Got'.exist = 0 /\ op'.pc = "off"
  BY <1>1 DEF Inv, FillInv, Got, Idle
<1> QED BY <1>1, <1>2, Emptied, Types DEF Inv, Next, Writing, BestPcs, Erasing

LEMMA PowerCycleKeeps == ASSUME Inv, PowerCycle PROVE Inv'
<1>1. /\ op' = [Idle EXCEPT !.pc = "create"] 
      /\ newer' = IF op.pc \in Writing \cup Erasing THEN {} ELSE newer
      /\ torn' = (torn \/ op.pc \in Erasing) /\ UNCHANGED <<conf, info, tried>>
  BY DEF PowerCycle
<1>2. op'.pc = "create"
  BY <1>1 DEF Idle
<1>3. Got' = Got /\ Used' = Used /\ OnceInv' /\ (Bare => Bare')
      /\ (Written(Got.exist) => Written(Got.exist)')
  BY <1>1, FlashKept DEF Inv, Got, Written
<1>4. FillInv'
  BY <1>2, <1>3 DEF Inv, FillInv, Writing, BestPcs, Erasing
<1>5. SaveInv' /\ BestInv'
  BY <1>2, Rest DEF Writing, BestPcs
<1>6. BlankInv' /\ FlagInv'
  BY <1>1, <1>2, <1>3 DEF Inv, BlankInv, FlagInv
<1>7. AgeInv'
  <2>1. CASE op.pc \in Writing \cup Erasing
    BY <1>1, <2>1, AgeFresh
  <2>2. CASE op.pc \notin Writing \cup Erasing
    BY <1>1, <1>2, <1>3, <2>2, AgeKept DEF Inv, Age, InSave, Writing
  <2> QED BY <2>1, <2>2
<1> QED BY <1>1, <1>3, <1>4, <1>5, <1>6, <1>7, Types DEF Inv, Next

LEMMA InitInv == ASSUME Init PROVE Inv
<1>1. /\ conf = NoConf /\ info = [i \in Slots |-> NoEntry]
      /\ op = [Idle EXCEPT !.pc = "create"]
      /\ tried = {} /\ newer = {} /\ torn = FALSE
  BY DEF Init
<1>2. TypeOK
  <2>1. NewConf \in Conf /\ Zero \in Entry /\ 0 \in Slots /\ 0 \in 0 .. MaxNum
    BY SsidAssumption DEF NewConf, Conf, Zero, Entry, Slots
  <2>2. Idle \in OpType
    BY <2>1 DEF Idle, OpType, Places
  <2>3. op \in OpType
    BY <1>1, <2>2 DEF OpType, Places
  <2> QED BY <1>1, <2>3 DEF TypeOK, OpType
<1>3. op.pc = "create"
  BY <1>1 DEF Idle
<1>4. Got.exist = 0 /\ \A j \in Slots : ~(j < 0)
  BY <1>1 DEF Got, NewConf, Slots
<1>5. Used = {} /\ Written(Got.exist)
  BY <1>4 DEF Used, Written
<1> QED BY <1>1, <1>2, <1>3, <1>4, <1>5
        DEF Inv, FillInv, SaveInv, BestInv, OnceInv, BlankInv, FlagInv, AgeInv,
            Writing, BestPcs, Erasing

LEMMA NextInv == ASSUME Inv, [Next]_vars PROVE Inv'
<1>1. CASE UNCHANGED vars
  <2>1. /\ conf' = conf /\ info' = info /\ op' = op /\ tried' = tried
        /\ newer' = newer /\ torn' = torn
    BY <1>1 DEF vars
  <2>2. Got' = Got /\ \A i, e : Loaded(i, e)' = Loaded(i, e)
    BY <2>1 DEF Got, Loaded
  <2>3. Used' = Used /\ Outgrown' = Outgrown
    BY <2>1, <2>2 DEF Used, Zero, Outgrown
  <2>4. TypeOK' /\ OnceInv' /\ BlankInv' /\ FlagInv'
    BY <2>1, <2>2, <2>3 DEF Inv, TypeOK, OnceInv, BlankInv, FlagInv
  <2>5. FillInv'
    BY <2>1, <2>2 DEF Inv, FillInv, Written, Bare
  <2>6. SaveInv' /\ BestInv'
    BY <2>1, <2>2, <2>3 DEF Inv, SaveInv, BestInv, Written, Network
  <2>7. AgeInv'
    BY <2>1, <2>3 DEF Inv, AgeInv, Age, InSave
  <2> QED BY <2>4, <2>5, <2>6, <2>7 DEF Inv
<1>2. CASE Next
  BY <1>2, CreateKeeps, ResetKeeps, CreatedKeeps, SaveKeeps, SaveInfoKeeps, CountKeeps,
     SaveConfKeeps, SavedKeeps, GetLatestKeeps, GetBestKeeps, BestInfoKeeps, BestConfKeeps,
     EraseKeeps, EraseInfoKeeps, EraseConfKeeps, EraseSaveKeeps, DestroyedKeeps,
     PowerCycleKeeps DEF Next
<1> QED BY <1>1, <1>2

LEMMA InvAlways == Spec => []Inv
<1>1. Init => Inv
  BY InitInv
<1>2. Inv /\ [Next]_vars => Inv'
  BY NextInv
<1> QED BY <1>1, <1>2, PTL DEF Spec

\* A network counts as chosen exactly if it was handed out since the last save,
\* erasure or start, whatever power losses came before: get_best_config offers
\* each once and leaves none out.
THEOREM OfferedOnce == Spec => []ChosenWasTried
<1>1. Inv => ChosenWasTried
  BY DEF Inv, FlagInv, ChosenWasTried
<1> QED BY <1>1, InvAlways, PTL

-----------------------------------------------------------------------------
(* The slots implement the store.                                          *)

\* The networks in some slots are no more than the slots.
Held(Q) == {Network(info[i]) : i \in Q}

LEMMA HeldFew ==
  ASSUME NEW Q \in SUBSET Slots
  PROVE  /\ Known!Cardinality(Held(Q)) \in Nat
         /\ Q # Slots => Known!Cardinality(Held(Q)) < MaxNum
         /\ Q = Slots /\ (\A i, j \in Q : info[i].ssid = info[j].ssid => i = j) =>
              Known!Cardinality(Held(Q)) = MaxNum
<1>1. IsFiniteSet(Slots) /\ Cardinality(Slots) = MaxNum
  <2>1. MaxNum \in Nat \ {0} /\ 0 \in Int /\ MaxNum - 1 \in Int
    BY SsidAssumption
  <2>2. /\ IsFiniteSet(0 .. MaxNum - 1)
        /\ Cardinality(0 .. MaxNum - 1) = IF 0 > MaxNum - 1 THEN 0 ELSE (MaxNum - 1) - 0 + 1
    BY <2>1, FS_Interval
  <2> QED BY <2>1, <2>2 DEF Slots
<1>2. /\ IsFiniteSet(Q) /\ Cardinality(Q) \in Nat
      /\ Cardinality(Q) <= MaxNum /\ (Q # Slots => Cardinality(Q) < MaxNum)
  <2>1. /\ IsFiniteSet(Q) /\ Cardinality(Q) <= Cardinality(Slots)
        /\ Cardinality(Slots) = Cardinality(Q) => Slots = Q
    BY <1>1, FS_Subset
  <2>2. Cardinality(Q) \in Nat
    BY <2>1, FS_CardinalityType
  <2> QED BY <1>1, <2>1, <2>2, SsidAssumption
<1> DEFINE f == [i \in Q |-> Network(info[i])]
<1>3. f \in Surjection(Q, Held(Q))
  BY DEF Surjection, Held
<1>4. (\A i, j \in Q : info[i].ssid = info[j].ssid => i = j) => f \in Injection(Q, Held(Q))
  <2>1. \A i, j \in Q : f[i] = f[j] => info[i].ssid = info[j].ssid
    BY DEF Network
  <2> QED BY <1>3, <2>1 DEF Injection, Surjection, IsInjective
<1> HIDE DEF f
<1>5. /\ IsFiniteSet(Held(Q)) /\ Cardinality(Held(Q)) <= Cardinality(Q)
      /\ Cardinality(Held(Q)) = Cardinality(Q) <=> f \in Injection(Q, Held(Q))
  BY <1>2, <1>3, FS_Surjection
<1>6. Cardinality(Held(Q)) \in Nat
  BY <1>5, FS_CardinalityType
<1>7. Known!Cardinality(Held(Q)) = Cardinality(Held(Q))
  BY DEF Known!Cardinality, Cardinality
<1> QED BY <1>1, <1>2, <1>4, <1>5, <1>6, <1>7, SsidAssumption

LEMMA UsedFinite == IsFiniteSet(InFlash)
<1>1. IsFiniteSet(Slots)
  BY SsidAssumption, FS_Interval DEF Slots
<1>2. Used \subseteq Slots
  BY DEF Used
<1>3. IsFiniteSet(Used)
  BY <1>1, <1>2, FS_Subset
<1> DEFINE f == [i \in Used |-> Network(info[i])]
<1>4. f \in Surjection(Used, InFlash)
  BY DEF Surjection, InFlash
<1> HIDE DEF f
<1> QED BY <1>3, <1>4, FS_Surjection

LEMMA Networked ==
  ASSUME Inv
  PROVE  \A j \in Used : info[j] \in Entry /\ Loaded(j, Zero) = info[j]
BY Basics, UsedIs DEF Inv, Used, Loaded

LEMMA LatestKnown == Inv => Latest \in Known!Names(InFlash) \cup {Blank}
<1> SUFFICES ASSUME Inv PROVE Latest \in Known!Names(InFlash) \cup {Blank}
  OBVIOUS
<1>1. CASE Got.exist = 0
  BY <1>1 DEF Latest
<1>2. CASE Got.exist # 0
  <2>1. Latest = Loaded(Got.latest, Zero).ssid /\ Got.latest \in Slots
    BY <1>2, Basics DEF Latest, Inv
  <2>2. Got.latest < Got.exist
    BY <1>2, Basics DEF Inv, FillInv
  <2>3. CASE Latest # Blank
    <3>1. Got.latest \in Used
      BY <2>1, <2>2, <2>3 DEF Used
    <3>2. Network(info[Got.latest]) \in InFlash /\ Latest = Network(info[Got.latest]).ssid
      BY <2>1, <3>1, Networked DEF InFlash, Network
    <3> QED BY <3>2 DEF Known!Names
  <2> QED BY <2>3
<1> QED BY <1>1, <1>2

\* What a reader of the flash finds: each network once, with one password, no
\* more of them than there are slots, and the one to connect to among them, or
\* none.
StoreInv ==
  /\ \A m, n \in InFlash : m.ssid = n.ssid => m = n
  /\ IsFiniteSet(InFlash) /\ Cardinality(InFlash) <= MaxNum
  /\ Latest \in Known!Names(InFlash) \cup {Blank}

LEMMA StoreIs == Inv => StoreInv
<1> SUFFICES ASSUME Inv PROVE StoreInv
  OBVIOUS
<1>1. \A m, n \in InFlash : m.ssid = n.ssid => m = n
  <2> SUFFICES ASSUME NEW m \in InFlash, NEW n \in InFlash, m.ssid = n.ssid
               PROVE  m = n
    OBVIOUS
  <2>1. PICK i \in Used : m = Network(info[i])
    BY DEF InFlash
  <2>2. PICK j \in Used : n = Network(info[j])
    BY DEF InFlash
  <2>3. info[i].ssid = info[j].ssid
    BY <2>1, <2>2 DEF Network
  <2>4. i = j
    BY <2>3 DEF Inv, OnceInv
  <2> QED BY <2>1, <2>2, <2>4
<1>2. Cardinality(InFlash) <= MaxNum
  <2>1. Used \in SUBSET Slots /\ InFlash = Held(Used)
    BY DEF Used, InFlash, Held
  <2>2. Known!Cardinality(Held(Used)) = Cardinality(InFlash)
    BY <2>1 DEF Known!Cardinality, Cardinality
  <2>3. Cardinality(InFlash) \in Nat
    BY UsedFinite, FS_CardinalityType
  <2>4. \A i, j \in Used : info[i].ssid = info[j].ssid => i = j
    BY DEF Inv, OnceInv
  <2> QED BY <2>1, <2>2, <2>3, <2>4, HeldFew, SsidAssumption
<1> QED BY <1>1, <1>2, UsedFinite, LatestKnown DEF StoreInv

\* The slots in flash hold each network once, however saves and erasures were
\* broken off by losses of power, and the latest is a network they hold: a start
\* never connects to one that is half there or has two passwords.
THEOREM KnownOnceAndBounded == Spec => []StoreInv
BY StoreIs, InvAlways, PTL

LEMMA LatestKnownNext == Inv' => (Latest \in Known!Names(InFlash) \cup {Blank})'
BY LatestKnown, PTL

LEMMA Stays ==
  ASSUME InFlash' = InFlash, Latest' = Latest, InHand' = InHand,
         (op.pc \in Erasing)' = (op.pc \in Erasing), newer' = newer, torn' = torn
  PROVE  Known!Next
<1>1. Outgrown' \in BOOLEAN
  BY DEF Outgrown
<1> QED BY <1>1 DEF Known!Next

LEMMA InitKnown == ASSUME Init PROVE Known!Init
<1>1. /\ conf = NoConf /\ info = [i \in Slots |-> NoEntry]
      /\ op = [Idle EXCEPT !.pc = "create"]
      /\ newer = {} /\ torn = FALSE
  BY DEF Init
<1>2. op.pc = "create"
  BY <1>1 DEF Idle
<1>3. Got.exist = 0 /\ \A j \in Slots : ~(j < 0)
  BY <1>1 DEF Got, NewConf, Slots
<1>4. InFlash = {} /\ Latest = Blank /\ InHand = {}
  BY <1>2, <1>3 DEF InFlash, Used, Latest, InHand, Writing
<1>5. Outgrown = FALSE
  <2>1. \A j \in Slots : Loaded(j, Zero).cnt = 0
    BY <1>1 DEF Loaded, Zero
  <2>2. \A j \in Slots : ~(Loaded(j, Zero).cnt >= CntMod)
    BY <2>1, SsidAssumption
  <2> QED BY <2>2 DEF Outgrown
<1>6. (op.pc \in Erasing) = FALSE
  BY <1>2 DEF Erasing
<1> QED BY <1>1, <1>4, <1>5, <1>6 DEF Known!Init
LEMMA SaveSteps ==
  ASSUME Inv, NEW s \in Networks, NEW p \in Passwords, Save(s, p)
  PROVE  Known!BeginSave
<1>1. /\ op.pc = "idle" /\ op' = Saving(s, p)
      /\ UNCHANGED <<conf, info, tried, newer, torn>>
  BY DEF Save, CanSave
<1>2. op'.pc = "info" /\ op'.new = [Zero EXCEPT !.ssid = s, !.pwd = p]
  BY <1>1 DEF Saving, Idle
<1>3. Network(op'.new) \in Known!Entry
  BY <1>2 DEF Zero, Network, Known!Entry
<1>4. InHand = {} /\ InHand' = {Network(op'.new)}
  BY <1>1, <1>2 DEF InHand, Writing
<1>5. InFlash' = InFlash /\ Latest' = Latest
  BY <1>1, FlashKept DEF Got
<1>6. (op.pc \in Erasing) = FALSE /\ (op.pc \in Erasing)' = FALSE
  BY <1>1, <1>2 DEF Erasing
<1> QED BY <1>1, <1>3, <1>4, <1>5, <1>6 DEF Known!BeginSave, Known!Rests

\* Writing the slot makes the network known, in the place of one that may go, or
\* for a slot not counted yet changes nothing.
LEMMA SaveInfoSteps ==
  ASSUME Inv, Inv', SaveInfo
  PROVE  Known!Next
<1> DEFINE k == op.key
           n == Network(op.new)
<1>1. /\ op.pc = "info" /\ info' = [info EXCEPT ![k] = op.new]
      /\ op' = [op EXCEPT !.pc = "count"] /\ UNCHANGED <<conf, tried, newer, torn>>
  BY DEF SaveInfo
<1>2. /\ TypeOK /\ op \in OpType /\ info \in [Slots -> Entry \cup {NoEntry}]
      /\ Written(Got.exist) /\ OnceInv
  BY <1>1 DEF Inv, TypeOK, OpType, FillInv, Writing
<1>3. op'.pc = "count" /\ op'.new = op.new
  BY <1>1, <1>2 DEF OpType
<1>4. /\ op.new.ssid \in Networks
      /\ \/ op.conf.exist = Got.exist
         \/ op.conf.exist = Got.exist + 1 /\ k = Got.exist
      /\ \A j \in Used : info[j].ssid = op.new.ssid => j = k
      /\ k < Got.exist /\ info[k].ssid # op.new.ssid =>
           /\ Got.exist = MaxNum
           /\ Outgrown \/ \A j \in Slots : info[j].cnt <= info[k].cnt
  BY <1>1 DEF Inv, SaveInv, Writing
<1>5. k \in Slots /\ k \in Nat /\ op.new \in Entry /\ Got' = Got /\ Got.exist \in Nat
  BY <1>1, <1>2, Basics DEF OpType, Slots, Got
<1>6. InHand = {n} /\ InHand' = {n}
  BY <1>1, <1>3 DEF InHand, Writing
<1>7. (op.pc \in Erasing)' = (op.pc \in Erasing) /\ newer' = newer /\ torn' = torn
  BY <1>1, <1>3 DEF Erasing
<1>8. op.new.ssid # Blank /\ n.ssid = op.new.ssid /\ n.pwd = op.new.pwd
  BY <1>4, SsidAssumption DEF Network
<1> HIDE DEF k, n
<1>9. /\ info'[k] = op.new /\ info'[k] # NoEntry
      /\ \A j \in Slots : j # k => info'[j] = info[j]
  BY <1>1, <1>2, <1>5, SsidAssumption
<1>10. CASE ~(k < Got.exist)
  <2>1. \A j \in Slots : j < Got.exist => j # k /\ Loaded(j, Zero)' = Loaded(j, Zero)
    BY <1>9, <1>10 DEF Loaded
  <2>2. Used' = Used
    BY <1>5, <2>1 DEF Used
  <2>3. \A j \in Used : info'[j] = info[j]
    BY <1>9, <1>10 DEF Used
  <2>4. InFlash' = InFlash
    BY <2>2, <2>3 DEF InFlash, Network
  <2>5. Latest' = Latest
    <3>1. Got.exist # 0 => Got.latest < Got.exist /\ Got.latest \in Slots
      BY <1>2, <1>5, Basics DEF Inv, FillInv
    <3>2. Got'.latest = Got.latest
      BY <1>5
    <3> QED BY <1>5, <2>1, <3>1, <3>2 DEF Latest
  <2> QED BY <1>6, <1>7, <2>4, <2>5, Stays
<1>11. CASE k < Got.exist
  <2> DEFINE rest == {m \in InFlash : m.ssid # n.ssid}
             others == Held(Used \ {k})
  <2>1. InFlash' = others \cup {n}
    <3>1. \A j \in Slots : j \in Used' <=> j = k \/ j \in Used
      BY <1>5, <1>8, <1>9, <1>11 DEF Used, Loaded, Zero
    <3>2. Used' = (Used \ {k}) \cup {k}
      BY <1>5, <3>1 DEF Used
    <3>3. \A j \in Used \ {k} : Network(info'[j]) = Network(info[j])
      BY <1>9 DEF Used
    <3>4. Network(info'[k]) = n
      BY <1>9 DEF n
    <3>5. InFlash' = {Network(info'[j]) : j \in (Used \ {k}) \cup {k}}
      BY <3>2 DEF InFlash, Network
    <3> QED BY <3>3, <3>4, <3>5 DEF Held
  <2>2. Used \ {k} \in SUBSET Slots /\ Used \ {k} # Slots
    BY <1>5 DEF Used
  <2>3. Known!Cardinality(others) \in Nat /\ Known!Cardinality(others) < MaxNum
    BY <2>2, HeldFew
  <2>4. others \subseteq rest
    <3>1. ASSUME NEW j \in Used \ {k}
          PROVE  Network(info[j]) \in InFlash /\ Network(info[j]).ssid # n.ssid
      BY <1>4, <1>8 DEF InFlash, Network
    <3> QED BY <3>1 DEF Held
  <2>5. \A m \in InFlash : m \in others \/ (k \in Used /\ m = Network(info[k]))
    BY DEF InFlash, Held
  <2>6. Latest' \in {Latest, n.ssid} \cap (Known!Names(InFlash)' \cup {Blank})
    <3>1. CASE Got.exist = 0
      BY <1>5, <1>11, <3>1
    <3>2. Got'.latest = Got.latest /\ Got'.exist = Got.exist
      BY <1>5
    <3>3. CASE Got.exist # 0
      <4>1. Latest' = Loaded(Got.latest, Zero)'.ssid /\ Latest = Loaded(Got.latest, Zero).ssid
        BY <3>2, <3>3 DEF Latest
      <4>2. Got.latest \in Slots
        BY <1>2, Basics
      <4>3. CASE Got.latest = k
        <5>1. Loaded(Got.latest, Zero)' = op.new
          BY <1>2, <1>5, <1>9, <3>2, <4>3, SsidAssumption DEF Loaded
        <5> QED BY <1>8, <4>1, <5>1, LatestKnownNext
      <4>4. CASE Got.latest # k
        <5>1. Loaded(Got.latest, Zero)' = Loaded(Got.latest, Zero)
          BY <1>9, <3>2, <4>2, <4>4 DEF Loaded, Zero
        <5> QED BY <4>1, <5>1, LatestKnownNext
      <4> QED BY <4>3, <4>4
    <3> QED BY <3>1, <3>3
  <2>7. \/ Known!Cardinality(rest) < MaxNum /\ InFlash' = rest \cup {n}
        \/ \E m \in rest : /\ Known!Cardinality(rest) = MaxNum \/ torn
                           /\ Known!MayForget(m)
                           /\ InFlash' = (rest \ {m}) \cup {n}
    <3>1. CASE k \in Used /\ info[k].ssid # n.ssid
      <4> DEFINE m == Network(info[k])
      <4>1. m \in InFlash /\ m.ssid = info[k].ssid
        BY <3>1 DEF InFlash, Network
      <4>2. m \in rest /\ rest = InFlash
        <5>1. \A x \in InFlash : x \in rest
          BY <2>4, <2>5, <3>1, <4>1
        <5> QED BY <4>1, <5>1
      <4>3. others = InFlash \ {m}
        <5>1. \A j \in Used \ {k} : Network(info[j]) # m
          <6>1. \A j \in Used \ {k} : info[j].ssid # info[k].ssid
            BY <1>2, <3>1 DEF OnceInv
          <6> QED BY <6>1 DEF Network
        <5>2. m \notin others
          BY <5>1 DEF Held
        <5> QED BY <2>4, <2>5, <5>2
      <4>4. InFlash' = (rest \ {m}) \cup {n}
        BY <2>1, <4>2, <4>3
      <4>5. Known!Cardinality(rest) = MaxNum \/ torn
        <5>1. CASE torn
          BY <5>1
        <5>2. CASE ~torn
          <6>1. \A j \in Slots : j < Got.exist => j \in Used
            BY <1>1, <5>2 DEF Inv, BlankInv, Erasing
          <6>2. Got.exist = MaxNum
            BY <1>4, <1>8, <1>11, <3>1
          <6>3. \A j \in Slots : j < MaxNum
            BY SsidAssumption DEF Slots
          <6>4. Used = Slots
            BY <6>1, <6>2, <6>3 DEF Used
          <6>5. Known!Cardinality(Held(Used)) = MaxNum
            BY <1>2, <6>4, HeldFew DEF OnceInv
          <6>6. Held(Used) = InFlash
            BY DEF Held, InFlash
          <6> QED BY <4>2, <6>5, <6>6
        <5> QED BY <5>1, <5>2
      <4>6. Known!MayForget(m)
        <5>1. CASE Outgrown
          BY <5>1 DEF Known!MayForget
        <5>2. CASE ~Outgrown
          <6>1. ASSUME NEW x \in InFlash, x.ssid # m.ssid
                PROVE  <<m.ssid, x.ssid>> \notin newer
            <7>1. PICK j \in Used : x = Network(info[j])
              BY DEF InFlash
            <7>2. x.ssid = info[j].ssid
              BY <7>1 DEF Network
            <7>3. j # k
              BY <4>1, <6>1, <7>2
            <7>4. info[j].cnt <= info[k].cnt
              BY <1>4, <1>8, <1>11, <3>1, <5>2 DEF Used
            <7>5. info[j].cnt \in Nat /\ info[k].cnt \in Nat
              BY <3>1, Networked DEF Entry
            <7>6. Age(j) = info[j].cnt /\ Age(k) = info[k].cnt
              BY <1>1 DEF Age
            <7>7. ~InSave(info[j].ssid) /\ ~InSave(info[k].ssid)
              BY <1>1 DEF InSave
            <7>8. <<info[k].ssid, info[j].ssid>> \in newer => Age(k) < Age(j)
              BY <3>1, <7>3, <7>7 DEF Inv, AgeInv
            <7> QED BY <4>1, <7>2, <7>4, <7>5, <7>6, <7>8
          <6> QED BY <6>1 DEF Known!MayForget
        <5> QED BY <5>1, <5>2
      <4> HIDE DEF m, rest
      <4> QED BY <4>2, <4>4, <4>5, <4>6
    <3>2. CASE ~(k \in Used /\ info[k].ssid # n.ssid)
      <4>1. \A x \in rest : x \in others
        <5>1. \A x \in InFlash : x \in others \/ x.ssid = n.ssid
          BY <2>5, <3>2 DEF Network
        <5> QED BY <5>1
      <4>2. rest = others
        BY <2>4, <4>1
      <4> QED BY <2>1, <2>3, <4>2
    <3> QED BY <3>1, <3>2
  <2>8. Known!Store
    BY <1>6, <1>7, <2>6, <2>7 DEF Known!Store
  <2>9. Outgrown' \in BOOLEAN
    BY DEF Outgrown
  <2> QED BY <2>8, <2>9 DEF Known!Next
<1> QED BY <1>10, <1>11
\* Counting the slot makes the network known if it was not, and the one to connect
\* to.
LEMMA SaveConfSteps ==
  ASSUME Inv, SaveConf
  PROVE  Known!Next
<1> DEFINE k == op.key
           n == Network(op.new)
<1>1. /\ op.pc = "count" /\ conf' = op.conf
      /\ op' = [op EXCEPT !.pc = "saved", !.i = 0] /\ UNCHANGED <<info, tried, newer, torn>>
  BY DEF SaveConf
<1>2. /\ TypeOK /\ op \in OpType /\ Got.exist \in Nat /\ Got.exist <= MaxNum
  BY Basics, SsidAssumption DEF Inv, TypeOK, OpType
<1>3. op'.pc = "saved" /\ op'.new = op.new
  BY <1>1, <1>2 DEF OpType
<1>4. /\ op.new.ssid \in Networks /\ op.conf.latest = k /\ k < op.conf.exist
      /\ \/ op.conf.exist = Got.exist
         \/ op.conf.exist = Got.exist + 1 /\ k = Got.exist
      /\ \A j \in Used : info[j].ssid = op.new.ssid => j = k
      /\ Written(op.conf.exist) /\ Network(info[k]) = n
  BY <1>1 DEF Inv, SaveInv, Writing
<1>5. k \in Slots /\ k \in Nat /\ Got' = op.conf /\ op.conf.exist \in Nat
  BY <1>1, <1>2, SsidAssumption DEF OpType, Got, Conf, Slots
<1>6. InHand = {n} /\ InHand' = {n}
  BY <1>1, <1>3 DEF InHand, Writing
<1>7. (op.pc \in Erasing)' = (op.pc \in Erasing) /\ newer' = newer /\ torn' = torn
  BY <1>1, <1>3 DEF Erasing
<1>8. n.ssid = op.new.ssid /\ n.ssid # Blank
  BY <1>4, SsidAssumption DEF Network
<1> HIDE DEF k, n
<1>9. info[k].ssid = n.ssid /\ Loaded(k, Zero) = info[k]
  BY <1>4, <1>5 DEF Network, Written, Loaded
<1>10. \A j \in Slots : Loaded(j, Zero)' = Loaded(j, Zero)
  BY <1>1 DEF Loaded
<1>11. Latest' = n.ssid
  BY <1>4, <1>5, <1>9, <1>10 DEF Latest
<1>12. Used' = Used \cup {k}
  <2>1. \A j \in Slots : j < op.conf.exist => j = k \/ j < Got.exist
    BY <1>2, <1>4, <1>5 DEF Slots
  <2>2. \A j \in Slots : j < Got.exist => j < op.conf.exist
    BY <1>2, <1>4, <1>5 DEF Slots
  <2>3. \A j \in Slots : j \in Used' <=> j = k \/ j \in Used
    BY <1>4, <1>5, <1>8, <1>9, <1>10, <2>1, <2>2 DEF Used
  <2> QED BY <1>5, <2>3 DEF Used
<1>13. InFlash' = InFlash \cup {n}
  BY <1>1, <1>4, <1>12 DEF InFlash
<1>14. Outgrown' \in BOOLEAN
  BY DEF Outgrown
<1>15. CASE k < Got.exist
  <2>1. k \in Used
    BY <1>5, <1>8, <1>9, <1>15 DEF Used
  <2>2. n \in InFlash
    BY <1>4, <2>1 DEF InFlash
  <2>3. InFlash' = InFlash
    BY <1>13, <2>2
  <2>4. Known!Point
    BY <1>6, <1>7, <1>11, <2>2, <2>3 DEF Known!Point
  <2> QED BY <1>14, <2>4 DEF Known!Next
<1>16. CASE ~(k < Got.exist)
  <2> DEFINE rest == {m \in InFlash : m.ssid # n.ssid}
  <2>1. k \notin Used /\ Used \in SUBSET Slots /\ Used # Slots
    BY <1>5, <1>16 DEF Used
  <2>2. rest = InFlash
    <3>1. \A j \in Used : Network(info[j]).ssid # n.ssid
      BY <1>4, <1>8, <2>1 DEF Network
    <3> QED BY <3>1 DEF InFlash
  <2>3. InFlash = Held(Used)
    BY DEF InFlash, Held
  <2>4. Known!Cardinality(rest) < MaxNum
    BY <2>1, <2>2, <2>3, HeldFew
  <2>5. n.ssid \in Known!Names(InFlash)'
    BY <1>13 DEF Known!Names
  <2>6. Known!Store
    BY <1>6, <1>7, <1>11, <1>13, <2>2, <2>4, <2>5 DEF Known!Store
  <2> QED BY <1>14, <2>6 DEF Known!Next
<1> QED BY <1>15, <1>16

LEMMA SavedSteps == ASSUME Inv, Saved PROVE Known!EndSave
<1> DEFINE n == Network(op.new)
<1>1. /\ op.pc = "saved" /\ op' = Idle
      /\ newer' = AsNewest(op.new.ssid, newer) /\ UNCHANGED <<conf, info, torn>>
  BY DEF Saved
<1>2. /\ op.new.ssid \in Networks /\ op.conf.latest = op.key /\ op.key < op.conf.exist
      /\ Written(op.conf.exist) /\ Network(info[op.key]) = n /\ conf = op.conf
  BY <1>1 DEF Inv, SaveInv, Writing
<1>3. op'.pc = "idle"
  BY <1>1 DEF Idle
<1>4. op.key \in Slots /\ Got = op.conf /\ op.conf.exist \in 0 .. MaxNum
  BY <1>2, SsidAssumption DEF Inv, TypeOK, Got, Conf
<1>5. Loaded(op.key, Zero) = info[op.key] /\ info[op.key].ssid = n.ssid
      /\ n.ssid = op.new.ssid /\ n.ssid # Blank
  BY <1>2, <1>4, SsidAssumption DEF Written, Loaded, Network
<1>6. n \in InFlash
  BY <1>2, <1>4, <1>5 DEF InFlash, Used
<1>7. Latest = n.ssid
  <2>1. op.conf.exist # 0
    BY <1>2, <1>4 DEF Slots
  <2> QED BY <1>2, <1>4, <1>5, <2>1 DEF Latest
<1>8. InHand = {n} /\ InHand' = {}
  BY <1>1, <1>3 DEF InHand, Writing
<1>9. InFlash' = InFlash /\ Latest' = Latest
  BY <1>1, FlashKept DEF Got
<1>10. (op.pc \in Erasing)' = (op.pc \in Erasing)
  BY <1>1, <1>3 DEF Erasing
<1>11. newer' = Known!AsNewest(n.ssid, newer)
  BY <1>1, <1>5 DEF AsNewest, Known!AsNewest
<1> HIDE DEF n
<1> QED BY <1>1, <1>6, <1>7, <1>8, <1>9, <1>10, <1>11 DEF Known!EndSave

LEMMA BestConfSteps == ASSUME Inv, Inv', BestConf PROVE Known!Choose
<1>1. /\ op.pc = "best_conf" /\ conf' = op.conf /\ op' = Idle
      /\ UNCHANGED <<info, newer, torn>>
  BY DEF BestConf
<1>2. op.key < Got.exist /\ op.conf = [Got EXCEPT !.latest = op.key]
  BY <1>1 DEF Inv, BestInv, BestPcs
<1>3. op'.pc = "idle"
  BY <1>1 DEF Idle
<1>4. Got' = op.conf /\ Got'.exist = Got.exist /\ Got'.latest = op.key
  <2>1. Got' = op.conf
    BY <1>1, SsidAssumption DEF Got, Inv, TypeOK
  <2> QED BY <1>2, <2>1, Basics DEF Inv, Conf
<1>5. Used' = Used
  BY <1>1, <1>4 DEF Used, Loaded, Zero
<1>6. InFlash' = InFlash
  BY <1>1, <1>5 DEF InFlash
<1>7. Latest' \in Known!Names(InFlash)' \cup {Blank}
  BY LatestKnownNext
<1>8. Latest' = Blank => torn
  <2>1. op.key \in Slots /\ Got.exist \in Nat
    BY Basics, SsidAssumption DEF Inv, TypeOK
  <2>2. Latest' = Loaded(op.key, Zero).ssid
    <3>1. Got'.exist # 0
      BY <1>2, <1>4, <2>1 DEF Slots
    <3>2. Latest' = Loaded(Got.latest, Zero)'.ssid
      BY <3>1 DEF Latest
    <3>3. Loaded(Got.latest, Zero)' = Loaded(op.key, Zero)
      BY <1>1, <1>4 DEF Loaded, Zero
    <3> QED BY <3>2, <3>3
  <2>3. Latest' = Blank => op.key \notin Used
    BY <2>2 DEF Used
  <2> QED BY <1>1, <1>2, <2>1, <2>3 DEF Inv, BlankInv, Erasing
<1>9. InHand = {} /\ InHand' = {}
  BY <1>1, <1>3 DEF InHand, Writing
<1>10. (op.pc \in Erasing) = FALSE /\ (op.pc \in Erasing)' = FALSE
  BY <1>1, <1>3 DEF Erasing
<1>11. Known!Names(InFlash)' = Known!Names(InFlash)
  BY <1>6 DEF Known!Names
<1> QED BY <1>1, <1>6, <1>7, <1>8, <1>9, <1>10, <1>11 DEF Known!Choose, Known!Rests

\* While the flash is being wiped nothing is known.
LEMMA EraseInfoSteps == ASSUME Inv, EraseInfo PROVE Known!Wipe
<1>1. /\ op.pc \in {"erase", "destroy"} /\ info' = [j \in Slots |-> NoEntry]
      /\ op' = [op EXCEPT !.pc = IF @ = "erase" THEN "erase_conf" ELSE "destroy_conf"]
      /\ UNCHANGED <<conf, tried, newer, torn>>
  BY DEF EraseInfo
<1>2. op'.pc \in {"erase_conf", "destroy_conf"}
  BY <1>1 DEF Inv, TypeOK
<1>3. Got' = Got /\ Got.latest \in Slots
  BY <1>1, Basics DEF Got, Inv
<1>4. InFlash' = {} /\ Latest' = Blank
  <2>1. Loaded(Got.latest, Zero)'.ssid = Blank
    BY <1>1, <1>3 DEF Loaded, Zero
  <2>2. Latest' = Blank
    BY <2>1 DEF Latest
  <2>3. Used' = {}
    BY <1>1 DEF Used, Loaded, Zero
  <2> QED BY <2>2, <2>3 DEF InFlash
<1>5. InHand' = InHand
  BY <1>1, <1>2 DEF InHand, Writing
<1>6. (op.pc \in Erasing) = TRUE /\ (op.pc \in Erasing)' = TRUE
  BY <1>1, <1>2 DEF Erasing
<1> QED BY <1>1, <1>4, <1>5, <1>6 DEF Known!Wipe

LEMMA EraseConfSteps == ASSUME Inv, EraseConf PROVE Known!Next
<1>1. /\ op.pc \in {"erase_conf", "destroy_conf"} /\ conf' = NoConf
      /\ op' = [op EXCEPT !.pc = IF @ = "erase_conf" THEN "erase_save" ELSE "destroyed"]
      /\ UNCHANGED <<info, tried, newer, torn>>
  BY DEF EraseConf
<1>2. op'.pc \in {"erase_save", "destroyed"}
  BY <1>1 DEF Inv, TypeOK
<1>3. Bare /\ Got.latest \in Slots
  BY <1>1, Basics DEF Inv, FillInv
<1>4. Got'.exist = 0 /\ \A j \in Slots : ~(j < 0)
  BY <1>1 DEF Got, NewConf, Slots
<1>5. InFlash' = {} /\ Latest' = Blank
  BY <1>4 DEF InFlash, Used, Latest
<1>6. InFlash = {} /\ Latest = Blank
  <2>1. \A j \in Slots : Loaded(j, Zero).ssid = Blank
    BY <1>3 DEF Bare, Loaded, Zero
  <2> QED BY <1>3, <2>1 DEF InFlash, Used, Latest
<1>7. InHand' = InHand
  BY <1>1, <1>2 DEF InHand, Writing
<1>8. (op.pc \in Erasing) = TRUE /\ (op.pc \in Erasing)' = TRUE
  BY <1>1, <1>2 DEF Erasing
<1> QED BY <1>1, <1>5, <1>6, <1>7, <1>8, Stays

LEMMA Wiped ==
  ASSUME Inv, op.pc \in {"erase_save", "destroyed"}
  PROVE  Got.exist = 0 /\ InFlash = {} /\ Latest = Blank
<1>1. Got.exist = 0 /\ \A j \in Slots : ~(j < 0)
  BY DEF Inv, FillInv, Slots
<1> QED BY <1>1 DEF InFlash, Used, Latest

LEMMA EraseEnds == ASSUME Inv, EraseSave \/ Destroyed PROVE Known!EndErase
<1>1. op.pc \in {"erase_save", "destroyed"} /\ newer' = {} /\ torn' = FALSE
  BY DEF EraseSave, Destroyed
<1>2. op'.pc \in {"idle", "off"}
  BY DEF EraseSave, Destroyed, Idle
<1>3. InFlash = {} /\ Latest = Blank /\ Got.exist = 0
  BY <1>1, Wiped
<1>4. Got'.exist = 0
  <2>1. CASE EraseSave
    BY <2>1, Basics, SsidAssumption DEF EraseSave, Inv, FillInv, Erasing, Got, NewConf
  <2>2. CASE Destroyed
    BY <1>3, <2>2 DEF Destroyed, Got
  <2> QED BY <2>1, <2>2
<1>5. InFlash' = {} /\ Latest' = Blank
  <2>1. \A j \in Slots : ~(j < 0)
    BY DEF Slots
  <2> QED BY <1>4, <2>1 DEF InFlash, Used, Latest
<1>6. InHand' = InHand
  BY <1>1, <1>2 DEF InHand, Writing
<1>7. (op.pc \in Erasing) = TRUE /\ (op.pc \in Erasing)' = FALSE
  BY <1>1, <1>2 DEF Erasing
<1> QED BY <1>1, <1>3, <1>5, <1>6, <1>7 DEF Known!EndErase

\* Steps that only read the flash.
LEMMA Reads ==
  ASSUME Got' = Got, info' = info, newer' = newer, torn' = torn,
         op.pc \notin Writing \cup Erasing, op'.pc \notin Writing \cup Erasing
  PROVE  Known!Next
<1>1. InFlash' = InFlash /\ Latest' = Latest
  BY FlashKept
<1>2. InHand = {} /\ InHand' = {}
  BY DEF InHand, Writing
<1>3. (op.pc \in Erasing)' = (op.pc \in Erasing)
  OBVIOUS
<1> QED BY <1>1, <1>2, <1>3, Stays

LEMMA ChoosenMarked == ASSUME Inv, GetLatest \/ BestInfo PROVE Known!Next
<1>1. InFlash' = InFlash /\ Latest' = Latest /\ newer' = newer /\ torn' = torn
  <2>1. CASE GetLatest
    BY <2>1, LatestRead, Marked
  <2>2. CASE BestInfo
    <3>1. /\ op.pc = "best" /\ info' = [info EXCEPT ![op.key] = op.new]
          /\ UNCHANGED <<conf, newer, torn>>
      BY <2>2 DEF BestInfo
    <3>2. /\ op.key < Got.exist /\ op.new = [info[op.key] EXCEPT !.choosen = TRUE]
          /\ Written(Got.exist) /\ op.key \in Slots /\ Got' = Got
      BY <3>1 DEF Inv, BestInv, BestPcs, FillInv, TypeOK, Got
    <3> QED BY <3>1, <3>2, Marked
  <2> QED BY <2>1, <2>2
<1>2. op.pc \in {"idle", "best"} /\ op'.pc \in {"idle", "best_conf"}
  BY DEF GetLatest, BestInfo, Inv, TypeOK
<1>3. InHand = {} /\ InHand' = {} /\ (op.pc \in Erasing)' = (op.pc \in Erasing)
  BY <1>2 DEF InHand, Erasing, Writing
<1> QED BY <1>1, <1>3, Stays

LEMMA ResetSteps == ASSUME Inv, Reset \/ Count PROVE Known!Next
<1>1. InFlash' = InFlash /\ Latest' = Latest /\ newer' = newer /\ torn' = torn
  BY ResetKeeps, CountKeeps DEF Reset, Count
<1>2. op'.pc = op.pc /\ op'.new = op.new
  BY DEF Reset, Count, Inv, TypeOK
<1>3. InHand' = InHand /\ (op.pc \in Erasing)' = (op.pc \in Erasing)
  BY <1>2 DEF InHand, Network, Writing
<1> QED BY <1>1, <1>3, Stays

LEMMA PowerCycleSteps == ASSUME Inv, PowerCycle PROVE Known!LosePower
<1>1. /\ op' = [Idle EXCEPT !.pc = "create"] 
      /\ newer' = IF op.pc \in Writing \cup Erasing THEN {} ELSE newer
      /\ torn' = (torn \/ op.pc \in Erasing) /\ UNCHANGED <<conf, info, tried>>
  BY DEF PowerCycle
<1>2. op'.pc = "create"
  BY <1>1 DEF Idle
<1>3. InFlash' = InFlash /\ Latest' = Latest
  BY <1>1, FlashKept DEF Got
<1>4. InHand' = {} /\ (op.pc \in Erasing)' = FALSE
  BY <1>2 DEF InHand, Erasing, Writing
<1>5. (op.pc \in Writing \cup Erasing) <=> ~(InHand = {} /\ op.pc \notin Erasing)
  BY DEF InHand
<1> QED BY <1>1, <1>3, <1>4, <1>5 DEF Known!LosePower, Known!Rests

LEMMA EraseSteps ==
  ASSUME Inv, NEW why \in {"erase", "destroy"}, Erase(why) PROVE Known!BeginErase
<1>1. /\ op.pc = "idle" /\ op' = [Idle EXCEPT !.pc = why, !.conf = NewConf]
      /\ UNCHANGED <<conf, info, tried, newer, torn>>
  BY DEF Erase
<1>2. op'.pc = why
  BY <1>1 DEF Idle
<1>3. InFlash' = InFlash /\ Latest' = Latest
  BY <1>1, FlashKept DEF Got
<1>4. InHand = {} /\ InHand' = {}
  BY <1>1, <1>2 DEF InHand, Writing
<1>5. (op.pc \in Erasing) = FALSE /\ (op.pc \in Erasing)' = TRUE
  BY <1>1, <1>2 DEF Erasing
<1> QED BY <1>1, <1>3, <1>4, <1>5 DEF Known!BeginErase, Known!Rests

LEMMA NextKnown ==
  ASSUME Inv, Inv', [Next]_vars
  PROVE  [Known!Next]_Known!absVars
<1>0. Outgrown' \in BOOLEAN
  BY DEF Outgrown
<1>1. CASE Create
  <2>1. op.pc = "create" /\ op'.pc = "reset" /\ Got' = Got
    BY <1>1, Basics, SsidAssumption DEF Create, Idle, Got, Inv
  <2> QED BY <1>1, <2>1, Reads DEF Create, Writing, Erasing
<1>2. CASE Created
  <2>1. op.pc = "reset" /\ op'.pc = "idle" /\ Got' = Got
    BY <1>2 DEF Created, Idle, Got
  <2> QED BY <1>2, <2>1, Reads DEF Created, Writing, Erasing
<1>3. ASSUME NEW i \in Slots, GetBest(i) PROVE Known!Next
  <2>1. op.pc = "idle" /\ op'.pc = "best" /\ Got' = Got
    BY <1>3 DEF GetBest, Idle, Got
  <2> QED BY <1>3, <2>1, Reads DEF GetBest, Writing, Erasing
<1>4. CASE Reset \/ Count
  BY <1>4, ResetSteps
<1>5. ASSUME NEW s \in Networks, NEW p \in Passwords, Save(s, p) PROVE Known!Next
  BY <1>0, <1>5, SaveSteps DEF Known!Next
<1>6. CASE SaveInfo
  BY <1>6, SaveInfoSteps
<1>7. CASE SaveConf
  BY <1>7, SaveConfSteps
<1>8. CASE Saved
  BY <1>0, <1>8, SavedSteps DEF Known!Next
<1>9. CASE GetLatest \/ BestInfo
  BY <1>9, ChoosenMarked
<1>10. CASE BestConf
  BY <1>0, <1>10, BestConfSteps DEF Known!Next
<1>11. ASSUME NEW why \in {"erase", "destroy"}, Erase(why) PROVE Known!Next
  BY <1>0, <1>11, EraseSteps DEF Known!Next
<1>12. CASE EraseInfo
  BY <1>0, <1>12, EraseInfoSteps DEF Known!Next
<1>13. CASE EraseConf
  BY <1>13, EraseConfSteps
<1>14. CASE EraseSave \/ Destroyed
  BY <1>0, <1>14, EraseEnds DEF Known!Next
<1>15. CASE PowerCycle
  BY <1>0, <1>15, PowerCycleSteps DEF Known!Next
<1>16. CASE UNCHANGED vars
  <2>1. /\ Got' = Got /\ info' = info /\ op' = op /\ newer' = newer /\ torn' = torn
    BY <1>16 DEF vars, Got
  <2>2. InFlash' = InFlash /\ Latest' = Latest
    BY <2>1, FlashKept
  <2>3. InHand' = InHand /\ (op.pc \in Erasing)' = (op.pc \in Erasing)
    BY <2>1 DEF InHand, Network, Writing
  <2> QED BY <2>1, <2>2, <2>3, Stays
<1> QED BY <1>1, <1>2, <1>3, <1>4, <1>5, <1>6, <1>7, <1>8, <1>9, <1>10, <1>11, <1>12,
           <1>13, <1>14, <1>15, <1>16 DEF Next

\* The slots in flash implement the store of known networks through every loss of
\* power: with KnownOnceAndBounded, no network is in two slots, none is half saved,
\* and nothing erased is known again.  Of those saved since a save or an erasure was
\* broken off, the one unsaved for longest is forgotten first, until a counter has
\* outgrown its byte.
THEOREM SlotsImplementStore == Spec => ImplementsKnownNetworks
<1>1. Init => Known!Init
  BY InitKnown
<1>2. Inv /\ Inv' /\ [Next]_vars => [Known!Next]_Known!absVars
  BY NextKnown
<1> QED BY <1>1, <1>2, InvAlways, PTL DEF Spec, ImplementsKnownNetworks, Known!Spec
============================================================================
