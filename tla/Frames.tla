------------------------------- MODULE Frames -------------------------------
(***************************************************************************)
(* Frames, and the e-stop's mask over them (cortex/src/dmx.rs, estop.rs).  *)
(* A frame is one value for every channel; the mask gives some channels    *)
(* the value they are stopped at and leaves the others where they were.    *)
(***************************************************************************)

CONSTANTS
    Channels,   \* the slots of the universe
    Values,     \* what a slot can carry
    Dark,       \* the value 0
    Stop,       \* patch::STOP: overridden channel -> the value it is held at
    NoFrame     \* no frame at all, as opposed to a dark one

Frame == [Channels -> Values]

ASSUME FramesAssumption ==
    /\ Dark \in Values
    /\ DOMAIN Stop \subseteq Channels
    /\ \A c \in DOMAIN Stop : Stop[c] \in Values
    /\ NoFrame \notin Frame

Blackout == [c \in Channels |-> Dark]

(* estop::held: the frame the stop holds.                                  *)
Held(last) == [c \in Channels |-> IF c \in DOMAIN Stop THEN Stop[c] ELSE last[c]]

=============================================================================
