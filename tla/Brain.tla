------------------------------- MODULE Brain -------------------------------
(***************************************************************************)
(* The brain's executor (brain/src/main.rs, cortex/src/lib.rs): the face   *)
(* and the frame loop, two tasks on one thread that meet in the published  *)
(* e-stop, over the lives of the process.                                  *)
(*                                                                         *)
(* Each task runs from one await to the next without the other.  The face  *)
(* polls every 10 ms and a frame goes out every 25 ms, so the face polls   *)
(* at most PollsPerFrame times between two frames; the frame loop's        *)
(* shutdown never awaits again, so the face does not poll during it.       *)
(***************************************************************************)
EXTENDS Frames, Naturals

CONSTANTS
    SettleSamples, QuietCap,                          \* the face's
    ReleaseFrames, SequenceMod, MaxLives, NoPacket,   \* the frame loop's
    PollsPerFrame   \* polls that fit between two frames, 3 in the code

ASSUME PollsAssumption == PollsPerFrame \in Nat \ {0}

(* What the two tasks' modules assume of their constants.                  *)
ASSUME FaceAssumption ==
    /\ SettleSamples \in Nat \ {0}
    /\ QuietCap \in Nat /\ QuietCap > SettleSamples

ASSUME LoopAssumption ==
    /\ ReleaseFrames \in Nat \ {0}
    /\ SequenceMod \in Nat /\ SequenceMod > 1
    /\ MaxLives \in Nat \ {0}
    /\ NoPacket \notin [cid : 1 .. MaxLives, sequence : 0 .. SequenceMod - 1,
                        terminated : BOOLEAN, frame : Frame]

VARIABLES
    pins, contact, quiet, estop, word,
    process, cid, rig, topic, sequence, toRelease, asked, frames, network, wire,
    polls   \* polls since the last frame

faceVars == <<pins, contact, quiet, estop, word>>
loopVars == <<process, cid, rig, topic, sequence, toRelease, asked, frames, network, wire>>
vars == <<faceVars, loopVars, polls>>

Face == INSTANCE EstopContacts
Loop == INSTANCE FrameLoop

(* The face is claimed before the frame loop starts (main.rs).             *)
Init == Face!Init /\ Loop!Init /\ polls = 0

Awaits == process = "up" /\ rig.state # "shutdown"

PollFace ==
    /\ Awaits
    /\ polls < PollsPerFrame
    /\ polls' = polls + 1
    /\ Face!PollContacts
    /\ UNCHANGED loopVars

MovePins == Face!MovePins /\ UNCHANGED <<loopVars, polls>>

(* The frame loop reads the e-stop as the face last published it, and one  *)
(* buffer, whoever it comes from.                                          *)
TakeFrame ==
    /\ \E slots \in Frame : Loop!FrameTick(slots, estop)
    /\ polls' = 0
    /\ UNCHANGED faceVars

LeaveOrDie ==
    /\ Loop!Shutdown \/ Loop!Signal \/ Loop!Die
    /\ UNCHANGED <<faceVars, polls>>

(* Mutant of Restart: a new process takes the e-stop for released until it *)
(* has decided.                                                            *)
RestartReleased ==
    /\ Loop!Restart
    /\ contact' = [c \in Face!Contacts |-> Face!NewInput(pins[c])]
    /\ quiet' = 0
    /\ word' = "released"
    /\ estop' = FALSE
    /\ polls' = 0
    /\ UNCHANGED pins

(* A new process claims the face anew: what the contacts read then, at     *)
(* once, is what its first frame knows.                                    *)
Restart ==
    /\ Loop!Restart
    /\ contact' = [c \in Face!Contacts |-> Face!NewInput(pins[c])]
    /\ quiet' = SettleSamples
    /\ word' = Face!Settled(contact')
    /\ estop' = (word' # "released")
    /\ polls' = 0
    /\ UNCHANGED pins

Next == PollFace \/ MovePins \/ TakeFrame \/ LeaveOrDie \/ Restart

(* Both tasks wake on tickers, and what the frame loop leaves it finishes. *)
(* Nothing is assumed of pins, signals, deaths and restarts.               *)
Fairness ==
    /\ WF_vars(PollFace) /\ WF_vars(TakeFrame)
    /\ WF_vars(Loop!Shutdown /\ UNCHANGED <<faceVars, polls>>)

Spec == Init /\ [][Next]_vars /\ Fairness

-----------------------------------------------------------------------------

(* A frame goes out live.                                                  *)
GoesLive == network' # network /\ rig'.state = "running"

(* No live frame goes out but with the contacts settled released: not on   *)
(* the first frame of a brain restarted with the button pressed, not under *)
(* a console, not during a bounce (face.rs:121-122, orchestrator.rs:150).  *)
LiveOnlyReleased == [][GoesLive => Face!Settled(contact) = "released"]_vars

(* Contacts left alone are in the end obeyed by the frame loop: the rig    *)
(* runs again after a release, out of a stop and out of boot hold alike,   *)
(* and a process that is still up with the button in keeps it stopped.     *)
LoopFollowsTheContacts ==
    \A p \in [Face!Contacts -> Face!Level] :
        <>[](pins = p) =>
            <>[](Awaits => (rig.state = "running" <=> Face!Reads(p["nc"], p["no"]) = "released"))

=============================================================================
