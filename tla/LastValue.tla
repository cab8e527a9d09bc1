----------------------------- MODULE LastValue ------------------------------
(***************************************************************************)
(* What retained topics promise a late subscriber: they may lag behind     *)
(* what their publisher had accepted, and a broker may forget them, but    *)
(* none ever goes back to an older value, not even after it was forgotten. *)
(* Values are numbered in the order they were published.                   *)
(***************************************************************************)
EXTENDS Naturals

CONSTANT Topics

VARIABLES
    accepted,  \* the newest value of each topic its publisher's client took
    shown,     \* what the broker holds, 0 for nothing
    newest     \* the newest value it ever held

vars == <<accepted, shown, newest>>

Nothing == [t \in Topics |-> 0]

Init == accepted = Nothing /\ shown = Nothing /\ newest = Nothing

Accept(t) ==
    /\ accepted' = [accepted EXCEPT ![t] = accepted'[t]]
    /\ accepted'[t] > accepted[t]
    /\ UNCHANGED <<shown, newest>>

Show(t) ==
    /\ shown'[t] \in newest[t] .. accepted[t]
    /\ shown' = [shown EXCEPT ![t] = shown'[t]]
    /\ newest' = [newest EXCEPT ![t] = shown'[t]]
    /\ UNCHANGED accepted

Forget == shown' = Nothing /\ UNCHANGED <<accepted, newest>>

Next == Forget \/ \E t \in Topics : Accept(t) \/ Show(t)

Spec == Init /\ [][Next]_vars

=============================================================================
