------------------------------ MODULE Executor ------------------------------
(***************************************************************************)
(* What esp_dispatcher promises the tasks that share it: the functions     *)
(* they hand over run one at a time, in the order they were accepted, each *)
(* at most once; a caller hears of its own function only, once, and only   *)
(* after it ran; a function that was refused never runs.                   *)
(***************************************************************************)
EXTENDS Sequences

CONSTANT Calls

VARIABLES phase,   \* how far each call has come
          line,    \* the accepted calls that have not run yet, oldest first
          told     \* what each caller has heard, in order

absVars == <<phase, line, told>>

Phase == {"new", "accepted", "ran", "answered", "refused"}
Errs == {"done", "unsupported", "timeout"}
Word == [of: Calls, err: Errs]

Init == /\ phase = [c \in Calls |-> "new"]
        /\ line = << >>
        /\ told = [c \in Calls |-> << >>]

Accept(c) == /\ phase[c] = "new"
             /\ phase' = [phase EXCEPT ![c] = "accepted"]
             /\ line' = Append(line, c)
             /\ UNCHANGED told

Refuse(c) == /\ phase[c] = "new"
             /\ phase' = [phase EXCEPT ![c] = "refused"]
             /\ told' = [told EXCEPT ![c] = <<[of |-> c, err |-> "timeout"]>>]
             /\ UNCHANGED line

Run(c) == /\ line # << >>
          /\ c = Head(line)
          /\ phase[c] = "accepted"
          /\ \A d \in Calls : phase[d] # "ran"
          /\ phase' = [phase EXCEPT ![c] = "ran"]
          /\ line' = Tail(line)
          /\ UNCHANGED told

Answer(c) == /\ phase[c] = "ran"
             /\ phase' = [phase EXCEPT ![c] = "answered"]
             /\ \E e \in {"done", "unsupported"} : told' = [told EXCEPT ![c] = <<[of |-> c, err |-> e]>>]
             /\ UNCHANGED line

Next == \E c \in Calls : Accept(c) \/ Refuse(c) \/ Run(c) \/ Answer(c)

Spec == Init /\ [][Next]_absVars
=============================================================================
