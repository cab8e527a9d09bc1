----------------------------- MODULE FrameLoop ------------------------------
(***************************************************************************)
(* The frame loop and the rig state machine                                *)
(* (cortex/src/orchestrator.rs), over the lives of the process systemd     *)
(* restarts (brain/brain.service, Restart=always).                         *)
(*                                                                         *)
(* A frame is one pass of frame_task's loop: it has no await, so nothing   *)
(* on the executor comes between its parts.  What a frame reads is handed  *)
(* in: the show's fill, the takeover snapshot and whether it is in force,  *)
(* the e-stop.  The shutdown flag is set by the signal thread at any time. *)
(* Logging is left out, and with it the loop's `overridden`, which only    *)
(* the log reads.                                                          *)
(***************************************************************************)
EXTENDS Frames, Naturals

CONSTANTS
    ReleaseFrames,   \* SACN_RELEASE_FRAMES, 3 in the code
    SequenceMod,     \* what the u8 sequence wraps at, 256 in the code
    MaxLives,        \* bound: how often the process is started
    NoPacket         \* nothing was ever multicast

Packet == [cid : 1 .. MaxLives, sequence : 0 .. SequenceMod - 1,
           terminated : BOOLEAN, frame : Frame]

ASSUME FrameLoopAssumption ==
    /\ ReleaseFrames \in Nat \ {0}
    /\ SequenceMod \in Nat /\ SequenceMod > 1
    /\ MaxLives \in Nat \ {0}
    /\ NoPacket \notin Packet

VARIABLES
    process,    \* "up", "exited" after a shutdown, "aborted" by a panic
    cid,        \* the stream's identity, a new one in every life
    rig,        \* RigState: its word, and the frame it carries
    topic,      \* the last word handed to telemetry for brain/rig
    sequence,   \* the next packet's sequence number
    toRelease,  \* terminate frames still to send, in shutdown
    asked,      \* the shutdown flag
    frames,     \* the latest-value seam the lamps read
    network,    \* the last packet handed to the multicast socket
    wire        \* the last frame the HAT took

processVars == <<process, cid, rig, topic, sequence, toRelease, asked, frames>>
vars == <<process, cid, rig, topic, sequence, toRelease, asked, frames, network, wire>>

RigWord == {"boot_hold", "running", "estop", "shutdown"}

(* A process as it starts: boot hold, announced, nothing sent.             *)
Boot(life) ==
    [process |-> "up", cid |-> life,
     rig |-> [state |-> "boot_hold", frame |-> NoFrame], topic |-> "boot_hold",
     sequence |-> 0, toRelease |-> ReleaseFrames, asked |-> FALSE,
     frames |-> Blackout]

Init ==
    /\ process = Boot(1).process /\ cid = Boot(1).cid
    /\ rig = Boot(1).rig /\ topic = Boot(1).topic
    /\ sequence = Boot(1).sequence /\ toRelease = Boot(1).toRelease
    /\ asked = Boot(1).asked /\ frames = Boot(1).frames
    /\ network = NoPacket
    /\ wire = NoFrame

-----------------------------------------------------------------------------

(* The arbitration: one buffer for everything below, the console's whole   *)
(* universe or the show's.                                                 *)
Slots(show, driving, console) == IF driving THEN console ELSE show

(* Mutants of Decided: a stop outlasts a shutdown; a stop follows the      *)
(* frames under its mask; a stop is never let go of.                       *)
DecidedStopFirst(slots, pressed) ==
    CASE pressed /\ rig.state = "boot_hold" -> [state |-> "estop", frame |-> NoFrame]
      [] pressed /\ rig.state = "running" -> [state |-> "estop", frame |-> Held(rig.frame)]
      [] pressed /\ rig.state = "estop" -> rig
      [] ~pressed /\ asked -> [state |-> "shutdown", frame |-> NoFrame]
      [] ~pressed /\ ~asked -> [state |-> "running", frame |-> slots]

DecidedFollows(slots, pressed) ==
    CASE asked -> [state |-> "shutdown", frame |-> NoFrame]
      [] ~asked /\ ~pressed -> [state |-> "running", frame |-> slots]
      [] ~asked /\ pressed /\ rig.frame = NoFrame -> [state |-> "estop", frame |-> NoFrame]
      [] ~asked /\ pressed /\ rig.frame # NoFrame -> [state |-> "estop", frame |-> Held(slots)]

DecidedLatches(slots, pressed) ==
    CASE asked -> [state |-> "shutdown", frame |-> NoFrame]
      [] ~asked /\ ~pressed /\ rig.state # "estop" -> [state |-> "running", frame |-> slots]
      [] ~asked /\ pressed /\ rig.state = "boot_hold" -> [state |-> "estop", frame |-> NoFrame]
      [] ~asked /\ pressed /\ rig.state = "running" -> [state |-> "estop", frame |-> Held(rig.frame)]
      [] ~asked /\ rig.state = "estop" -> rig

(* The rig after this frame's decision (RigState::next, and the arm of the *)
(* match that keeps the frame about to go out as the last one).            *)
Decided(slots, pressed) ==
    CASE asked -> [state |-> "shutdown", frame |-> NoFrame]
      [] ~asked /\ ~pressed -> [state |-> "running", frame |-> slots]
      [] ~asked /\ pressed /\ rig.state = "boot_hold" ->
             [state |-> "estop", frame |-> NoFrame]
      [] ~asked /\ pressed /\ rig.state = "running" ->
             [state |-> "estop", frame |-> Held(rig.frame)]
      [] ~asked /\ pressed /\ rig.state = "estop" -> rig

(* What every frame does first: decide, and announce a new rig state.      *)
Decide(slots, pressed) ==
    /\ process = "up"
    /\ rig.state # "shutdown"
    /\ rig' = Decided(slots, pressed)
    /\ topic' = rig'.state
    /\ UNCHANGED <<cid, toRelease, asked>>

Multicast(terminated, frame) ==
    network' = [cid |-> cid, sequence |-> sequence,
                terminated |-> terminated, frame |-> frame]

(* Mutants of FrameOut: the network gets the frame before the stop's mask; *)
(* the sequence number does not wrap.                                      *)
FrameOutUnmasked(slots, pressed, hatWorks) ==
    /\ Decide(slots, pressed)
    /\ rig'.frame # NoFrame
    /\ frames' = rig'.frame
    /\ Multicast(FALSE, slots)
    /\ wire' = rig'.frame
    /\ sequence' = (sequence + 1) % SequenceMod
    /\ UNCHANGED process

FrameOutOverflows(slots, pressed, hatWorks) ==
    /\ Decide(slots, pressed)
    /\ rig'.frame # NoFrame
    /\ frames' = rig'.frame
    /\ Multicast(FALSE, rig'.frame)
    /\ wire' = rig'.frame
    /\ sequence' = sequence + 1
    /\ UNCHANGED process

(* The frame goes out: to the lamps, the network and the wire.  A HAT that *)
(* fails aborts the process after the network has had the frame.           *)
FrameOut(slots, pressed, hatWorks) ==
    /\ Decide(slots, pressed)
    /\ rig'.frame # NoFrame
    /\ frames' = rig'.frame
    /\ Multicast(FALSE, rig'.frame)
    /\ IF hatWorks
         THEN /\ wire' = rig'.frame
              /\ sequence' = (sequence + 1) % SequenceMod
              /\ UNCHANGED process
         ELSE /\ process' = "aborted"
              /\ UNCHANGED <<wire, sequence>>

(* Mutant of FrameSilent: a stop at boot sends the fixtures blackout.      *)
FrameSilentSendsDark(slots, pressed) ==
    /\ Decide(slots, pressed)
    /\ rig'.state = "estop" /\ rig'.frame = NoFrame
    /\ Multicast(FALSE, Blackout)
    /\ UNCHANGED <<process, sequence, frames, wire>>

(* Stopped before anything had gone out: nothing goes out.                 *)
FrameSilent(slots, pressed) ==
    /\ Decide(slots, pressed)
    /\ rig'.state = "estop" /\ rig'.frame = NoFrame
    /\ UNCHANGED <<process, sequence, frames, network, wire>>

FrameShutdown(slots, pressed) ==
    /\ Decide(slots, pressed)
    /\ rig'.state = "shutdown"
    /\ UNCHANGED <<process, sequence, frames, network, wire>>

(* Mutant of ReleaseFrame: the burst sends one packet over and over.       *)
ReleaseFrameRepeats ==
    /\ process = "up" /\ rig.state = "shutdown"
    /\ toRelease > 0
    /\ toRelease' = toRelease - 1
    /\ Multicast(TRUE, Blackout)
    /\ UNCHANGED <<process, cid, rig, topic, sequence, asked, frames, wire>>

(* The burst of terminate frames, one send at a time: the loop has left    *)
(* its ticker and does nothing else.  A terminate frame's levels are       *)
(* blackout (sacn_out::encode_release).                                    *)
ReleaseFrame ==
    /\ process = "up" /\ rig.state = "shutdown"
    /\ toRelease > 0
    /\ toRelease' = toRelease - 1
    /\ Multicast(TRUE, Blackout)
    /\ sequence' = (sequence + 1) % SequenceMod
    /\ UNCHANGED <<process, cid, rig, topic, asked, frames, wire>>

(* The farewell, which returns whatever the broker does, and exit(0).      *)
Exit ==
    /\ process = "up" /\ rig.state = "shutdown"
    /\ toRelease = 0
    /\ process' = "exited"
    /\ UNCHANGED <<cid, rig, topic, sequence, toRelease, asked, frames, network, wire>>

Shutdown == ReleaseFrame \/ Exit

(* SIGINT or SIGTERM: the signal thread only sets the flag.                *)
Signal ==
    /\ process = "up" /\ ~asked
    /\ asked' = TRUE
    /\ UNCHANGED <<process, cid, rig, topic, sequence, toRelease, frames, network, wire>>

(* Any other death, a power cut or a kill, between two steps.              *)
Die ==
    /\ process = "up"
    /\ process' = "aborted"
    /\ UNCHANGED <<cid, rig, topic, sequence, toRelease, asked, frames, network, wire>>

(* systemd starts the brain again; the fixtures keep what they were sent.  *)
Restart ==
    /\ process # "up"
    /\ cid < MaxLives
    /\ process' = Boot(cid + 1).process /\ cid' = Boot(cid + 1).cid
    /\ rig' = Boot(cid + 1).rig /\ topic' = Boot(cid + 1).topic
    /\ sequence' = Boot(cid + 1).sequence /\ toRelease' = Boot(cid + 1).toRelease
    /\ asked' = Boot(cid + 1).asked /\ frames' = Boot(cid + 1).frames
    /\ UNCHANGED <<network, wire>>

FrameTick(slots, pressed) ==
    \/ \E hatWorks \in BOOLEAN : FrameOut(slots, pressed, hatWorks)
    \/ FrameSilent(slots, pressed)
    \/ FrameShutdown(slots, pressed)

AnyFrameTick ==
    \E show, console \in Frame, driving, pressed \in BOOLEAN :
        FrameTick(Slots(show, driving, console), pressed)

Next == AnyFrameTick \/ Shutdown \/ Signal \/ Die \/ Restart

(* The loop is the process's own: it runs while the process does.  Signals,*)
(* deaths and restarts need never come.                                    *)
Spec == Init /\ [][Next]_vars /\ WF_vars(AnyFrameTick) /\ WF_vars(Shutdown)

-----------------------------------------------------------------------------

RigType == [state : RigWord, frame : Frame \cup {NoFrame}]

TypeOK ==
    /\ process \in {"up", "exited", "aborted"}
    /\ cid \in 1 .. MaxLives
    /\ rig \in RigType
    /\ topic \in RigWord
    /\ sequence \in 0 .. SequenceMod - 1
    /\ toRelease \in 0 .. ReleaseFrames
    /\ asked \in BOOLEAN
    /\ frames \in Frame
    /\ network \in Packet \cup {NoPacket}
    /\ wire \in Frame \cup {NoFrame}

Driving == process = "up" /\ rig.state \in {"running", "estop"} /\ rig.frame # NoFrame

Sent(packet) == packet # NoPacket /\ packet.cid = cid

(* While the rig drives, the wire, the network and the lamps all show the  *)
(* one frame the rig state stands for, so the two outputs can never follow *)
(* different sources, nor the stop hold a frame that did not go out        *)
(* (orchestrator.rs:9-12, 50-54).                                          *)
OneBuffer ==
    Driving =>
        /\ Sent(network) /\ ~network.terminated
        /\ network.frame = rig.frame
        /\ wire = rig.frame
        /\ frames = rig.frame

(* A process that knows nothing of the fixtures has sent them nothing: not *)
(* before its first frame, not in a stop entered before it                 *)
(* (orchestrator.rs:25-28).                                                *)
SilentUntilAFrame ==
    process = "up" /\ rig.frame = NoFrame /\ rig.state # "shutdown" => ~Sent(network)

(* The stream its receivers see is whole: every packet carries the number  *)
(* after the one before it, through stops, silences and the terminate      *)
(* burst's otherwise identical packets; no level follows a terminate       *)
(* frame; and an orderly exit comes after the whole burst                  *)
(* (orchestrator.rs:178-203).                                              *)
StreamIsWhole ==
    [][/\ /\ network' # network \/ toRelease' < toRelease
          /\ network # NoPacket /\ network'.cid = network.cid
          => /\ network'.sequence = (network.sequence + 1) % SequenceMod
             /\ network.terminated => network'.terminated
       /\ process = "up" /\ process' = "exited"
          => Sent(network) /\ network.terminated /\ toRelease = 0]_vars

(* What is asked to shut down does: no state of the rig, a stop included,  *)
(* keeps the process.                                                      *)
AskedEnds == asked ~> process # "up"

(* The frame loop keeps the contract with the wired fixtures.              *)
Mode ==
    CASE process # "up" \/ rig.state = "shutdown" -> "gone"
      [] process = "up" /\ rig.state = "running"  -> "live"
      [] process = "up" /\ rig.state \in {"boot_hold", "estop"} ->
             IF rig.frame = NoFrame THEN "silent" ELSE "held"

Contract == INSTANCE StopContract WITH mode <- Mode, out <- wire

(* The fixtures see live frames or one unmoving masked copy of the last    *)
(* one, and a stop beats the show and a console alike.                     *)
KeepsTheContract == Contract!Spec

=============================================================================
