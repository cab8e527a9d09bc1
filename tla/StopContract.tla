---------------------------- MODULE StopContract ----------------------------
(***************************************************************************)
(* What the rig promises its fixtures (the table and the text of           *)
(* cortex/src/orchestrator.rs:14-28): the frame they were last sent, and   *)
(* on what footing the process that drives them stands.                    *)
(*                                                                         *)
(*   silent   this process has sent nothing                                *)
(*   live     the frame is the show's or a console's                       *)
(*   held     the frame is the last live one under the stop's mask         *)
(*   gone     the process has left, or has died                            *)
(***************************************************************************)
EXTENDS Frames

VARIABLES mode, out

vars == <<mode, out>>

Init == mode = "silent" /\ out = NoFrame

Follow ==
    /\ mode \in {"silent", "live", "held"}
    /\ mode' = "live"
    /\ out' \in Frame

(* Only a frame that went out can be held, under the mask, and a held one  *)
(* changes no more until it is let go.                                     *)
Hold ==
    /\ mode = "live"
    /\ mode' = "held"
    /\ out' = Held(out)

Leave ==
    /\ mode # "gone"
    /\ mode' = "gone"
    /\ UNCHANGED out

(* A process that left or died starts over, knowing nothing of what the    *)
(* fixtures were sent: it may not hold a frame it did not send itself.     *)
Restart ==
    /\ mode = "gone"
    /\ mode' = "silent"
    /\ UNCHANGED out

Next == Follow \/ Hold \/ Leave \/ Restart

Spec == Init /\ [][Next]_vars

=============================================================================
