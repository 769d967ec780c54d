---------------------------- MODULE KnownNetworks ----------------------------
(***************************************************************************)
(* What the store of Wi-Fi networks promises across losses of power: it    *)
(* knows at most MaxNum networks, each with the password saved last; a     *)
(* save adds its network or leaves things as they were, and makes room by  *)
(* forgetting the network that has gone unsaved for longest; nothing else  *)
(* is forgotten but by an erasure, and nothing erased comes back.          *)
(***************************************************************************)
EXTENDS Naturals, FiniteSets

CONSTANTS Networks, Passwords, MaxNum, None

VARIABLES known,    \* the networks with their passwords
          current,  \* the network to connect to, or None
          saving,   \* the network being saved, as a set of at most one
          erasing,  \* an erasure is going on
          newer,    \* <<s, t>> when s was saved after t, or is t, both saved
                    \* since a save or an erasure was last broken off
          torn,     \* the last erasure was broken off
          worn      \* a counter has outgrown its width: any network may go

absVars == <<known, current, saving, erasing, newer, torn, worn>>

Entry == [ssid : Networks, pwd : Passwords]
Names(N) == {n.ssid : n \in N}
AsNewest(s, r) == {p \in r : s \notin {p[1], p[2]}}
                    \cup {<<s, t>> : t \in {p[1] : p \in r} \cup {s}}

\* Those saved before a save or an erasure was broken off may go in any order, but
\* those saved since are forgotten oldest first.
MayForget(n) ==
    worn \/ \A m \in known : m.ssid # n.ssid => <<n.ssid, m.ssid>> \notin newer

Init == /\ known = {} /\ current = None /\ saving = {} /\ erasing = FALSE
        /\ newer = {} /\ torn = FALSE /\ worn = FALSE

Rests == saving = {} /\ ~erasing

BeginSave == /\ Rests /\ \E n \in Entry : saving' = {n}
             /\ UNCHANGED <<known, current, erasing, newer, torn>>

\* The network being saved is known from here on; if it took the place of the
\* network to connect to, it is that one too.
Store == \E new \in saving :
    /\ LET rest == {n \in known : n.ssid # new.ssid} IN
         \/ Cardinality(rest) < MaxNum /\ known' = rest \cup {new}
         \/ \E n \in rest :
              /\ Cardinality(rest) = MaxNum \/ torn
              /\ MayForget(n)
              /\ known' = (rest \ {n}) \cup {new}
    /\ current' \in {current, new.ssid} \cap (Names(known') \cup {None})
    /\ UNCHANGED <<saving, erasing, newer, torn>>

Point == \E new \in saving \cap known :
    /\ current' = new.ssid
    /\ UNCHANGED <<known, saving, erasing, newer, torn>>

EndSave == \E new \in saving \cap known :
    /\ current = new.ssid /\ saving' = {} /\ newer' = AsNewest(new.ssid, newer)
    /\ UNCHANGED <<known, current, erasing, torn>>

\* Another known network is chosen; what a broken erasure left over may be too.
Choose == /\ Rests
          /\ current' \in Names(known) \cup (IF torn THEN {None} ELSE {})
          /\ UNCHANGED <<known, saving, erasing, newer, torn>>

BeginErase == /\ Rests /\ erasing' = TRUE
              /\ UNCHANGED <<known, current, saving, newer, torn>>

Wipe == /\ erasing /\ known' = {} /\ current' = None
        /\ UNCHANGED <<saving, erasing, newer, torn>>

EndErase == /\ erasing /\ known = {} /\ current = None
            /\ erasing' = FALSE /\ newer' = {} /\ torn' = FALSE
            /\ UNCHANGED <<known, current, saving>>

LosePower == /\ saving' = {} /\ erasing' = FALSE
             /\ newer' = IF Rests THEN newer ELSE {}
             /\ torn' = (torn \/ erasing)
             /\ UNCHANGED <<known, current>>

Next == /\ \/ BeginSave \/ Store \/ Point \/ EndSave \/ Choose
           \/ BeginErase \/ Wipe \/ EndErase \/ LosePower
           \/ UNCHANGED <<known, current, saving, erasing, newer, torn>>
        /\ worn' \in BOOLEAN

Spec == Init /\ [][Next]_absVars
=============================================================================
