-------------------------- MODULE FrameLoopProofs ---------------------------
(***************************************************************************)
(* The frame loop's safety, for every patch, every stop mask, every length *)
(* of the terminate burst and any number of lives, and the refinement of   *)
(* the contract with the fixtures.  The inductive invariant adds two facts *)
(* to the checked ones: which rig states carry a frame (RigShape), and     *)
(* that no packet is from a life still to come (PastPackets), without      *)
(* which a restarted process could find itself already sent.  That the     *)
(* stream is whole rests on StreamInv: where a live process is in its      *)
(* numbers, and in the terminate burst.                                    *)
(***************************************************************************)
EXTENDS FrameLoop, TLAPS

RigShape ==
    /\ rig.state = "running" => rig.frame \in Frame
    /\ rig.state \in {"boot_hold", "shutdown"} => rig.frame = NoFrame

PastPackets == network # NoPacket => network.cid <= cid

IInv == TypeOK /\ RigShape /\ PastPackets /\ OneBuffer /\ SilentUntilAFrame

-----------------------------------------------------------------------------

(* A held frame is a frame: the mask names channels and values only.       *)
LEMMA HeldIsFrame ==
    ASSUME NEW f \in Frame
    PROVE  Held(f) \in Frame
BY FramesAssumption DEF Held, Frame

LEMMA BlackoutIsFrame == Blackout \in Frame
BY FramesAssumption DEF Blackout, Frame

LEMMA NoFrameIsNone == NoFrame \notin Frame
BY FramesAssumption

LEMMA SlotsIsFrame ==
    ASSUME NEW show \in Frame, NEW console \in Frame, NEW driving \in BOOLEAN
    PROVE  Slots(show, driving, console) \in Frame
BY DEF Slots

(* The decision of a frame yields a rig, of the shape its state calls for, *)
(* and never boot hold again.                                              *)
LEMMA DecidedType ==
    ASSUME TypeOK, RigShape, rig.state # "shutdown",
           NEW slots \in Frame, NEW pressed \in BOOLEAN
    PROVE  LET r == Decided(slots, pressed)
           IN  /\ r \in RigType
               /\ r.state = "running" => r.frame = slots
               /\ r.state = "shutdown" => r.frame = NoFrame
               /\ r.state # "boot_hold"
<1> DEFINE r == Decided(slots, pressed)
<1>1. CASE asked
  BY <1>1 DEF Decided, RigType, RigWord
<1>2. CASE ~asked /\ ~pressed
  BY <1>2 DEF Decided, RigType, RigWord
<1>3. CASE ~asked /\ pressed /\ rig.state = "boot_hold"
  BY <1>3 DEF Decided, RigType, RigWord
<1>4. CASE ~asked /\ pressed /\ rig.state = "running"
  <2>1. Held(rig.frame) \in Frame
    BY <1>4, HeldIsFrame DEF RigShape
  <2> QED BY <1>4, <2>1 DEF Decided, RigType, RigWord
<1>5. CASE ~asked /\ pressed /\ rig.state = "estop"
  BY <1>5 DEF Decided, TypeOK, RigType, RigWord
<1>6. rig.state \in {"boot_hold", "running", "estop"}
  BY DEF TypeOK, RigType, RigWord
<1> QED BY <1>1, <1>2, <1>3, <1>4, <1>5, <1>6 DEF TypeOK

(* Whatever is decided is the rig a frame acts on.                         *)
LEMMA DecideType ==
    ASSUME TypeOK, RigShape,
           NEW slots \in Frame, NEW pressed \in BOOLEAN, Decide(slots, pressed)
    PROVE  /\ rig' \in RigType
           /\ rig'.state = "running" => rig'.frame = slots
           /\ rig'.state = "shutdown" => rig'.frame = NoFrame
           /\ rig'.state # "boot_hold"
           /\ topic' \in RigWord
<1>1. rig' = Decided(slots, pressed) /\ rig.state # "shutdown" /\ topic' = rig'.state
  BY DEF Decide
<1> QED BY <1>1, DecidedType DEF RigType

-----------------------------------------------------------------------------

LEMMA InitIInv == Init => IInv
<1> SUFFICES ASSUME Init PROVE IInv
  OBVIOUS
<1>1. TypeOK
  BY BlackoutIsFrame, FrameLoopAssumption DEF Init, Boot, TypeOK, RigType, RigWord
<1>2. RigShape /\ PastPackets /\ OneBuffer /\ SilentUntilAFrame
  BY DEF Init, Boot, RigShape, PastPackets, OneBuffer, Driving, SilentUntilAFrame, Sent
<1> QED BY <1>1, <1>2 DEF IInv

LEMMA FrameOutKeepsIInv ==
    ASSUME IInv, NEW slots \in Frame, NEW pressed \in BOOLEAN, NEW hatWorks \in BOOLEAN,
           FrameOut(slots, pressed, hatWorks)
    PROVE  IInv'
<1>1. /\ rig' \in RigType
      /\ rig'.state = "running" => rig'.frame = slots
      /\ rig'.state = "shutdown" => rig'.frame = NoFrame
      /\ rig'.state # "boot_hold"
      /\ topic' \in RigWord
  BY DecideType DEF IInv, FrameOut
<1>2. rig'.frame \in Frame /\ rig'.frame # NoFrame
  BY <1>1 DEF FrameOut, RigType
<1>3. network' = [cid |-> cid, sequence |-> sequence,
                  terminated |-> FALSE, frame |-> rig'.frame]
  BY DEF FrameOut, Multicast
<1>4. network' \in Packet /\ network' # NoPacket
  <2>1. cid \in 1 .. MaxLives /\ sequence \in 0 .. SequenceMod - 1
    BY DEF IInv, TypeOK
  <2>2. network' \in Packet
    BY <1>2, <1>3, <2>1 DEF Packet
  <2> QED BY <2>2, FrameLoopAssumption
<1>5. UNCHANGED <<cid, toRelease, asked>> /\ process = "up"
  BY DEF FrameOut, Decide
<1>6. frames' = rig'.frame
  BY DEF FrameOut
<1>7. CASE hatWorks
  <2>1. wire' = rig'.frame /\ process' = "up" /\ sequence' = (sequence + 1) % SequenceMod
    BY <1>5, <1>7 DEF FrameOut
  <2>2. sequence' \in 0 .. SequenceMod - 1
    BY <2>1, FrameLoopAssumption DEF IInv, TypeOK
  <2>3. TypeOK'
    BY <1>1, <1>2, <1>4, <1>5, <1>6, <2>1, <2>2 DEF IInv, TypeOK
  <2>4. RigShape' /\ SilentUntilAFrame'
    BY <1>1, <1>2 DEF RigShape, SilentUntilAFrame
  <2>5. PastPackets' /\ OneBuffer'
    BY <1>3, <1>4, <1>5, <1>6, <2>1 DEF IInv, TypeOK, PastPackets, OneBuffer, Sent
  <2> QED BY <2>3, <2>4, <2>5 DEF IInv
<1>8. CASE ~hatWorks
  <2>1. process' = "aborted" /\ UNCHANGED <<wire, sequence>>
    BY <1>8 DEF FrameOut
  <2>2. TypeOK'
    BY <1>1, <1>2, <1>4, <1>5, <1>6, <2>1 DEF IInv, TypeOK
  <2>3. RigShape' /\ SilentUntilAFrame' /\ OneBuffer'
    BY <1>1, <1>2, <2>1 DEF RigShape, SilentUntilAFrame, OneBuffer, Driving
  <2>4. PastPackets'
    BY <1>3, <1>5 DEF IInv, TypeOK, PastPackets
  <2> QED BY <2>2, <2>3, <2>4 DEF IInv
<1> QED BY <1>7, <1>8

(* A frame on which nothing goes out: a stop with no frame to hold, or the *)
(* shutdown decided.                                                       *)
LEMMA QuietFrameKeepsIInv ==
    ASSUME IInv, NEW slots \in Frame, NEW pressed \in BOOLEAN,
           FrameSilent(slots, pressed) \/ FrameShutdown(slots, pressed)
    PROVE  IInv'
<1>1. Decide(slots, pressed) /\ UNCHANGED <<process, sequence, frames, network, wire>>
  BY DEF FrameSilent, FrameShutdown
<1>2. /\ rig' \in RigType
      /\ rig'.state = "running" => rig'.frame = slots
      /\ rig'.state = "shutdown" => rig'.frame = NoFrame
      /\ rig'.state # "boot_hold"
      /\ topic' \in RigWord
  BY <1>1, DecideType DEF IInv
<1>3. UNCHANGED <<cid, toRelease, asked>> /\ process = "up" /\ rig.state # "shutdown"
  BY <1>1 DEF Decide
<1>4. TypeOK'
  BY <1>1, <1>2, <1>3 DEF IInv, TypeOK
<1>5. RigShape' /\ PastPackets'
  BY <1>1, <1>2, <1>3 DEF IInv, RigShape, PastPackets
<1>6. rig'.frame = NoFrame
  BY <1>2 DEF FrameSilent, FrameShutdown
<1>7. OneBuffer'
  BY <1>6 DEF OneBuffer, Driving
<1>8. SilentUntilAFrame'
  <2> SUFFICES ASSUME rig'.state # "shutdown" PROVE ~Sent(network)'
    BY DEF SilentUntilAFrame
  <2>1. rig'.state = "estop" /\ rig' = Decided(slots, pressed)
    BY <1>1 DEF FrameSilent, FrameShutdown, Decide
  <2>2. rig.state \in {"boot_hold", "running", "estop"}
    BY <1>3 DEF IInv, TypeOK, RigType, RigWord
  <2>3. rig.frame = NoFrame
    <3>1. CASE rig.state = "boot_hold"
      BY <3>1 DEF IInv, RigShape
    <3>2. CASE rig.state = "running"
      <4>1. Held(rig.frame) \in Frame
        BY <3>2, HeldIsFrame DEF IInv, RigShape
      <4>2. asked \/ ~pressed \/ rig'.frame = Held(rig.frame)
        BY <2>1, <3>2 DEF Decided, IInv, TypeOK
      <4>3. (asked => rig'.state = "shutdown") /\ (~asked /\ ~pressed => rig'.state = "running")
        BY <2>1 DEF Decided, IInv, TypeOK
      <4> QED BY <1>6, <2>1, <4>1, <4>2, <4>3, NoFrameIsNone
    <3>3. CASE rig.state = "estop"
      <4>1. (asked => rig'.state = "shutdown") /\ (~asked /\ ~pressed => rig'.state = "running")
        BY <2>1 DEF Decided, IInv, TypeOK
      <4>2. rig' = rig
        BY <2>1, <3>3, <4>1 DEF Decided, IInv, TypeOK
      <4> QED BY <1>6, <4>2
    <3> QED BY <2>2, <3>1, <3>2, <3>3
  <2>4. ~Sent(network)
    BY <1>3, <2>3 DEF IInv, SilentUntilAFrame
  <2> QED BY <1>1, <1>3, <2>4 DEF Sent
<1> QED BY <1>4, <1>5, <1>7, <1>8 DEF IInv

LEMMA ReleaseFrameKeepsIInv == IInv /\ ReleaseFrame => IInv'
<1> SUFFICES ASSUME IInv, ReleaseFrame PROVE IInv'
  OBVIOUS
<1>1. network' = [cid |-> cid, sequence |-> sequence,
                  terminated |-> TRUE, frame |-> Blackout]
  BY DEF ReleaseFrame, Multicast
<1>2. network' \in Packet
  BY <1>1, BlackoutIsFrame DEF IInv, TypeOK, Packet
<1>3. sequence' \in 0 .. SequenceMod - 1 /\ toRelease' \in 0 .. ReleaseFrames
  BY FrameLoopAssumption DEF IInv, TypeOK, ReleaseFrame
<1>4. TypeOK'
  BY <1>2, <1>3 DEF IInv, TypeOK, ReleaseFrame
<1>5. PastPackets'
  BY <1>1 DEF IInv, TypeOK, ReleaseFrame, PastPackets
<1> QED BY <1>4, <1>5
        DEF IInv, ReleaseFrame, RigShape, OneBuffer, Driving, SilentUntilAFrame

(* The steps that touch the process or the flag and send nothing.          *)
LEMMA ProcessStepKeepsIInv == IInv /\ (Exit \/ Signal \/ Die) => IInv'
<1> SUFFICES ASSUME IInv, Exit \/ Signal \/ Die PROVE IInv'
  OBVIOUS
<1>1. UNCHANGED <<cid, rig, topic, sequence, toRelease, frames, network, wire>>
  BY DEF Exit, Signal, Die
<1>2. process' \in {process, "exited", "aborted"} /\ process = "up" /\ asked' \in BOOLEAN
  BY DEF Exit, Signal, Die, IInv, TypeOK
<1>3. TypeOK' /\ RigShape' /\ PastPackets'
  BY <1>1, <1>2 DEF IInv, TypeOK, RigShape, PastPackets
<1>4. OneBuffer' /\ SilentUntilAFrame'
  BY <1>1, <1>2 DEF IInv, OneBuffer, Driving, SilentUntilAFrame, Sent
<1> QED BY <1>3, <1>4 DEF IInv

LEMMA RestartKeepsIInv == IInv /\ Restart => IInv'
<1> SUFFICES ASSUME IInv, Restart PROVE IInv'
  OBVIOUS
<1>1. TypeOK'
  BY BlackoutIsFrame, FrameLoopAssumption
     DEF IInv, TypeOK, Restart, Boot, RigType, RigWord
<1>2. RigShape' /\ OneBuffer'
  BY DEF Restart, Boot, RigShape, OneBuffer, Driving
<1>3. cid' = cid + 1 /\ network' = network
  BY DEF Restart, Boot
<1>4. network # NoPacket => network.cid \in Nat /\ cid \in Nat
  BY DEF IInv, TypeOK, Packet
<1>5. PastPackets' /\ SilentUntilAFrame'
  BY <1>3, <1>4 DEF IInv, PastPackets, SilentUntilAFrame, Sent
<1> QED BY <1>1, <1>2, <1>5 DEF IInv

LEMMA StepKeepsIInv == IInv /\ [Next]_vars => IInv'
<1> SUFFICES ASSUME IInv, [Next]_vars PROVE IInv'
  OBVIOUS
<1>1. CASE AnyFrameTick
  <2>1. PICK show \in Frame, console \in Frame, driving \in BOOLEAN, pressed \in BOOLEAN :
             FrameTick(Slots(show, driving, console), pressed)
    BY <1>1 DEF AnyFrameTick
  <2>2. Slots(show, driving, console) \in Frame
    BY SlotsIsFrame
  <2> QED BY <2>1, <2>2, FrameOutKeepsIInv, QuietFrameKeepsIInv DEF FrameTick
<1>2. CASE Shutdown
  BY <1>2, ReleaseFrameKeepsIInv, ProcessStepKeepsIInv DEF Shutdown
<1>3. CASE Signal \/ Die
  BY <1>3, ProcessStepKeepsIInv
<1>4. CASE Restart
  BY <1>4, RestartKeepsIInv
<1>5. CASE UNCHANGED vars
  BY <1>5 DEF vars, IInv, TypeOK, RigShape, PastPackets, OneBuffer, Driving,
              SilentUntilAFrame, Sent
<1> QED BY <1>1, <1>2, <1>3, <1>4, <1>5 DEF Next

LEMMA Invariance == Spec => []IInv
BY InitIInv, StepKeepsIInv, PTL DEF Spec

(* The frame loop's state has its type in every reachable state            *)
(* (cortex/src/orchestrator.rs, frame_task).                               *)
THEOREM TypeCorrect == Spec => []TypeOK
<1>1. IInv => TypeOK
  BY DEF IInv
<1> QED BY Invariance, <1>1, PTL

(* While the rig drives, the wire, the network and the lamps show the one  *)
(* frame its state stands for (orchestrator.rs:9-12, 50-54).               *)
THEOREM OneBufferAlways == Spec => []OneBuffer
<1>1. IInv => OneBuffer
  BY DEF IInv
<1> QED BY Invariance, <1>1, PTL

(* A process that has no frame of its own has sent nothing                 *)
(* (orchestrator.rs:25-28).                                                *)
THEOREM SilentAlways == Spec => []SilentUntilAFrame
<1>1. IInv => SilentUntilAFrame
  BY DEF IInv
<1> QED BY Invariance, <1>1, PTL

-----------------------------------------------------------------------------
(* The refinement.  Every step maps to a step of the contract or to a      *)
(* stutter: the invariant is needed for one thing, that the frame a stop   *)
(* holds is the one the wire was last sent (OneBuffer), under the mask.    *)

LEMMA ContractInit == Init => Contract!Init
BY DEF Init, Boot, Contract!Init, Mode

(* A frame that goes out follows, starts to hold, goes on holding, or, the *)
(* HAT failing, is the process's last.                                     *)
LEMMA FrameOutKeepsContract ==
    ASSUME IInv, NEW slots \in Frame, NEW pressed \in BOOLEAN, NEW hatWorks \in BOOLEAN,
           FrameOut(slots, pressed, hatWorks)
    PROVE  Contract!Next \/ UNCHANGED <<Mode, wire>>
<1>1. /\ rig' \in RigType
      /\ rig'.state = "running" => rig'.frame = slots
      /\ rig'.state = "shutdown" => rig'.frame = NoFrame
      /\ rig'.state # "boot_hold"
  BY DecideType DEF IInv, FrameOut
<1>2. rig' = Decided(slots, pressed) /\ process = "up" /\ rig.state # "shutdown"
  BY DEF FrameOut, Decide
<1>3. rig.state \in {"boot_hold", "running", "estop"}
  BY <1>2 DEF IInv, TypeOK, RigType, RigWord
<1>4. Mode \in {"silent", "live", "held"}
  BY <1>2, <1>3 DEF Mode
<1>5. rig'.frame # NoFrame /\ rig'.state \in {"running", "estop"}
  BY <1>1 DEF FrameOut, RigType, RigWord
<1>6. CASE ~hatWorks
  <2>1. process' = "aborted" /\ wire' = wire
    BY <1>6 DEF FrameOut
  <2>2. Mode' = "gone"
    BY <2>1 DEF Mode
  <2>3. Contract!Leave
    BY <1>4, <2>1, <2>2 DEF Contract!Leave
  <2> QED BY <2>3 DEF Contract!Next
<1>7. CASE hatWorks
  <2>1. wire' = rig'.frame /\ process' = "up"
    BY <1>2, <1>7 DEF FrameOut
  <2>2. CASE rig'.state = "running"
    <3>1. Mode' = "live" /\ wire' \in Frame
      BY <1>1, <2>1, <2>2 DEF Mode
    <3>2. Contract!Follow
      BY <1>4, <3>1 DEF Contract!Follow, Contract!Frame, Frame
    <3> QED BY <3>2 DEF Contract!Next
  <2>3. CASE rig'.state = "estop"
    <3>1. Mode' = "held"
      BY <1>5, <2>1, <2>3 DEF Mode
    <3>2. ~asked /\ pressed
      BY <1>2, <2>3 DEF Decided, IInv, TypeOK
    <3>3. CASE rig.state = "boot_hold"
      <4>1. rig'.frame = NoFrame
        BY <1>2, <3>2, <3>3 DEF Decided
      <4> QED BY <1>5, <4>1
    <3>4. CASE rig.state = "running"
      <4>1. rig'.frame = Held(rig.frame)
        BY <1>2, <3>2, <3>4 DEF Decided
      <4>2. rig.frame \in Frame
        BY <3>4 DEF IInv, RigShape
      <4>3. wire = rig.frame
        BY <1>2, <3>4, <4>2, NoFrameIsNone DEF IInv, OneBuffer, Driving
      <4>4. Mode = "live" /\ wire' = Held(wire)
        BY <1>2, <2>1, <3>4, <4>1, <4>3 DEF Mode
      <4>5. Contract!Hold
        BY <3>1, <4>4 DEF Contract!Hold, Contract!Held, Held
      <4> QED BY <4>5 DEF Contract!Next
    <3>5. CASE rig.state = "estop"
      <4>1. rig' = rig
        BY <1>2, <3>2, <3>5 DEF Decided
      <4>2. wire = rig.frame
        BY <1>2, <1>5, <3>5, <4>1 DEF IInv, OneBuffer, Driving
      <4>3. Mode = "held"
        BY <1>2, <1>5, <3>5, <4>1 DEF Mode
      <4> QED BY <2>1, <3>1, <4>1, <4>2, <4>3
    <3> QED BY <1>3, <3>3, <3>4, <3>5
  <2> QED BY <1>5, <2>2, <2>3
<1> QED BY <1>6, <1>7

(* A stop with nothing to hold is still silence.                           *)
LEMMA FrameSilentKeepsContract ==
    ASSUME IInv, NEW slots \in Frame, NEW pressed \in BOOLEAN,
           FrameSilent(slots, pressed)
    PROVE  UNCHANGED <<Mode, wire>>
<1>1. /\ rig' = Decided(slots, pressed) /\ rig.state # "shutdown" /\ process = "up"
      /\ rig'.state = "estop" /\ rig'.frame = NoFrame
      /\ UNCHANGED <<process, wire>>
  BY DEF FrameSilent, Decide
<1>2. ~asked /\ pressed
  BY <1>1 DEF Decided, IInv, TypeOK
<1>3. rig.state \in {"boot_hold", "running", "estop"}
  BY <1>1 DEF IInv, TypeOK, RigType, RigWord
<1>4. rig.state # "running"
  <2> SUFFICES ASSUME rig.state = "running" PROVE FALSE
    OBVIOUS
  <2>1. rig'.frame = Held(rig.frame)
    BY <1>1, <1>2 DEF Decided
  <2>2. Held(rig.frame) \in Frame
    BY HeldIsFrame DEF IInv, RigShape
  <2> QED BY <1>1, <2>1, <2>2, NoFrameIsNone
<1>5. CASE rig.state = "boot_hold"
  <2>1. Mode = "silent"
    BY <1>1, <1>5 DEF Mode, IInv, RigShape
  <2>2. Mode' = "silent"
    BY <1>1 DEF Mode
  <2> QED BY <1>1, <2>1, <2>2
<1>6. CASE rig.state = "estop"
  <2>1. rig' = rig
    BY <1>1, <1>2, <1>6 DEF Decided
  <2> QED BY <1>1, <2>1 DEF Mode
<1> QED BY <1>3, <1>4, <1>5, <1>6

LEMMA StepKeepsContract ==
    IInv /\ [Next]_vars => [Contract!Next]_(Contract!vars)
<1> SUFFICES ASSUME IInv, [Next]_vars
             PROVE  Contract!Next \/ UNCHANGED <<Mode, wire>>
  BY DEF Contract!vars
<1>1. CASE AnyFrameTick
  <2>1. PICK show \in Frame, console \in Frame, driving \in BOOLEAN, pressed \in BOOLEAN :
             FrameTick(Slots(show, driving, console), pressed)
    BY <1>1 DEF AnyFrameTick
  <2> DEFINE slots == Slots(show, driving, console)
  <2>2. slots \in Frame
    BY SlotsIsFrame
  <2>3. CASE \E hatWorks \in BOOLEAN : FrameOut(slots, pressed, hatWorks)
    BY <2>2, <2>3, FrameOutKeepsContract
  <2>4. CASE FrameSilent(slots, pressed)
    BY <2>2, <2>4, FrameSilentKeepsContract
  <2>5. CASE FrameShutdown(slots, pressed)
    <3>1. /\ process = "up" /\ rig.state \in {"boot_hold", "running", "estop"}
          /\ rig'.state = "shutdown" /\ wire' = wire
      BY <2>5 DEF FrameShutdown, Decide, IInv, TypeOK, RigType, RigWord
    <3>2. Mode # "gone" /\ Mode' = "gone"
      BY <3>1 DEF Mode
    <3>3. Contract!Leave
      BY <3>1, <3>2 DEF Contract!Leave
    <3> QED BY <3>3 DEF Contract!Next
  <2> QED BY <2>1, <2>3, <2>4, <2>5 DEF FrameTick
<1>2. CASE ReleaseFrame \/ Exit
  <2>1. rig.state = "shutdown" /\ UNCHANGED <<rig, wire>>
    BY <1>2 DEF ReleaseFrame, Exit
  <2> QED BY <2>1 DEF Mode
<1>3. CASE Signal
  BY <1>3 DEF Signal, Mode
<1>4. CASE Die
  <2>1. process' = "aborted" /\ wire' = wire
    BY <1>4 DEF Die
  <2>2. Mode' = "gone"
    BY <2>1 DEF Mode
  <2>3. CASE Mode = "gone"
    BY <2>1, <2>2, <2>3
  <2>4. CASE Mode # "gone"
    BY <2>1, <2>2, <2>4 DEF Contract!Leave, Contract!Next
  <2> QED BY <2>3, <2>4
<1>5. CASE Restart
  <2>1. Mode = "gone"
    BY <1>5 DEF Restart, Mode
  <2>2. Mode' = "silent" /\ wire' = wire
    BY <1>5 DEF Restart, Boot, Mode
  <2> QED BY <2>1, <2>2 DEF Contract!Restart, Contract!Next
<1>6. CASE UNCHANGED vars
  BY <1>6 DEF vars, Mode
<1> QED BY <1>1, <1>2, <1>3, <1>4, <1>5, <1>6 DEF Next, Shutdown

(* The frame loop implements the contract with the fixtures: live frames,  *)
(* or one unmoving copy of the last of them under the stop's mask, and     *)
(* silence until a process has sent a frame of its own                     *)
(* (orchestrator.rs:14-28).                                                *)
THEOREM ContractKept == Spec => KeepsTheContract
BY Invariance, ContractInit, StepKeepsContract, PTL
   DEF Spec, KeepsTheContract, Contract!Spec

-----------------------------------------------------------------------------
(* The stream.  A step of a live process numbers a packet one past the     *)
(* last of its own (NumberedOn), and what it has begun of the terminate    *)
(* burst is what its receivers last heard (BurstIsLast).                   *)

NumberedOn == Sent(network) => sequence = (network.sequence + 1) % SequenceMod

BurstIsLast ==
    /\ toRelease < ReleaseFrames => Sent(network) /\ network.terminated
    /\ Sent(network) /\ network.terminated => rig.state = "shutdown"

StreamInv == process = "up" => NumberedOn /\ BurstIsLast

StreamStep ==
    /\ /\ network' # network \/ toRelease' < toRelease
       /\ network # NoPacket /\ network'.cid = network.cid
       => /\ network'.sequence = (network.sequence + 1) % SequenceMod
          /\ network.terminated => network'.terminated
    /\ process = "up" /\ process' = "exited"
       => Sent(network) /\ network.terminated /\ toRelease = 0

LEMMA InitStreamInv == Init => StreamInv
BY FrameLoopAssumption DEF Init, Boot, StreamInv, NumberedOn, BurstIsLast, Sent

(* A frame's packet is not terminated, and the burst has not begun.        *)
LEMMA FrameOutKeepsStream ==
    ASSUME IInv, StreamInv, NEW slots, NEW pressed, NEW hatWorks,
           FrameOut(slots, pressed, hatWorks)
    PROVE  StreamInv' /\ StreamStep
<1>1. /\ process = "up" /\ rig.state # "shutdown"
      /\ UNCHANGED <<cid, toRelease>>
      /\ network' = [cid |-> cid, sequence |-> sequence,
                     terminated |-> FALSE, frame |-> rig'.frame]
  BY DEF FrameOut, Decide, Multicast
<1>2. ~(toRelease < ReleaseFrames) /\ ~(Sent(network) /\ network.terminated)
  BY <1>1 DEF StreamInv, BurstIsLast
<1>3. process' = "up" => sequence' = (sequence + 1) % SequenceMod
  BY <1>1 DEF FrameOut
<1>4. process' # "exited"
  BY <1>1 DEF FrameOut
<1>5. StreamInv'
  BY <1>1, <1>2, <1>3 DEF StreamInv, NumberedOn, BurstIsLast, Sent
<1>6. ASSUME network # NoPacket, network'.cid = network.cid
      PROVE  /\ network'.sequence = (network.sequence + 1) % SequenceMod
             /\ ~network.terminated
  <2>1. Sent(network)
    BY <1>1, <1>6 DEF Sent
  <2> QED BY <1>1, <1>2, <2>1 DEF StreamInv, NumberedOn
<1> QED BY <1>1, <1>4, <1>5, <1>6 DEF StreamStep

(* The burst goes on one number at a time, and to its end.                 *)
LEMMA ReleaseFrameKeepsStream ==
    ASSUME IInv, StreamInv, ReleaseFrame
    PROVE  StreamInv' /\ StreamStep
<1>1. /\ process = "up" /\ rig.state = "shutdown"
      /\ UNCHANGED <<process, cid, rig>>
      /\ sequence' = (sequence + 1) % SequenceMod
      /\ network' = [cid |-> cid, sequence |-> sequence,
                     terminated |-> TRUE, frame |-> Blackout]
  BY DEF ReleaseFrame, Multicast
<1>2. network' \in Packet
  BY <1>1, BlackoutIsFrame DEF IInv, TypeOK, Packet
<1>3. network' # NoPacket
  BY <1>2, FrameLoopAssumption
<1>4. StreamInv'
  BY <1>1, <1>3 DEF StreamInv, NumberedOn, BurstIsLast, Sent
<1>5. ASSUME network # NoPacket, network'.cid = network.cid
      PROVE  network'.sequence = (network.sequence + 1) % SequenceMod
  <2>1. Sent(network)
    BY <1>1, <1>5 DEF Sent
  <2> QED BY <1>1, <2>1 DEF StreamInv, NumberedOn
<1> QED BY <1>1, <1>4, <1>5 DEF StreamStep

(* A step after which nothing new was heard; a new life was not yet.       *)
LEMMA OtherStepKeepsStream ==
    ASSUME IInv, StreamInv,
           \/ \E slots, pressed : FrameSilent(slots, pressed) \/ FrameShutdown(slots, pressed)
           \/ Exit \/ Signal \/ Die \/ Restart \/ UNCHANGED vars
    PROVE  StreamInv' /\ StreamStep
<1>1. network' = network
  BY DEF FrameSilent, FrameShutdown, Exit, Signal, Die, Restart, vars
<1>2. CASE \E slots, pressed : FrameSilent(slots, pressed) \/ FrameShutdown(slots, pressed)
  <2>1. UNCHANGED <<process, cid, sequence, toRelease>> /\ rig.state # "shutdown" /\ process = "up"
    BY <1>2 DEF FrameSilent, FrameShutdown, Decide
  <2> QED BY <1>1, <2>1 DEF IInv, TypeOK, StreamInv, NumberedOn, BurstIsLast, Sent, StreamStep
<1>3. CASE Exit
  <2>1. process' = "exited" /\ toRelease' = toRelease /\ toRelease = 0 /\ process = "up"
    BY <1>3 DEF Exit
  <2>2. Sent(network) /\ network.terminated
    BY <2>1, FrameLoopAssumption DEF StreamInv, BurstIsLast
  <2> QED BY <1>1, <2>1, <2>2 DEF StreamInv, StreamStep
<1>4. CASE Signal \/ Die \/ UNCHANGED vars
  <2>1. /\ UNCHANGED <<cid, rig, sequence, toRelease>>
        /\ process' = process \/ process' = "aborted"
    BY <1>4 DEF Signal, Die, vars
  <2> QED BY <1>1, <2>1 DEF IInv, TypeOK, StreamInv, NumberedOn, BurstIsLast, Sent, StreamStep
<1>5. CASE Restart
  <2>1. process' = "up" /\ cid' = cid + 1 /\ toRelease' = ReleaseFrames /\ process # "up"
    BY <1>5 DEF Restart, Boot
  <2>2. ~Sent(network)'
    <3>1. cid \in Nat /\ (network # NoPacket => network.cid \in Nat)
      BY DEF IInv, TypeOK, Packet
    <3> QED BY <1>1, <2>1, <3>1 DEF IInv, PastPackets, Sent
  <2>3. ~(toRelease' < toRelease) /\ ~(toRelease' < ReleaseFrames)
    BY <2>1, FrameLoopAssumption DEF IInv, TypeOK
  <2> QED BY <1>1, <2>1, <2>2, <2>3 DEF StreamInv, NumberedOn, BurstIsLast, StreamStep
<1> QED BY <1>2, <1>3, <1>4, <1>5

LEMMA StepKeepsStream == IInv /\ StreamInv /\ [Next]_vars => StreamInv' /\ StreamStep
<1> SUFFICES ASSUME IInv, StreamInv, [Next]_vars PROVE StreamInv' /\ StreamStep
  OBVIOUS
<1>1. CASE AnyFrameTick
  BY <1>1, FrameOutKeepsStream, OtherStepKeepsStream DEF AnyFrameTick, FrameTick
<1>2. CASE Shutdown
  BY <1>2, ReleaseFrameKeepsStream, OtherStepKeepsStream DEF Shutdown
<1>3. CASE Signal \/ Die \/ Restart \/ UNCHANGED vars
  BY <1>3, OtherStepKeepsStream
<1> QED BY <1>1, <1>2, <1>3 DEF Next

(* The stream is whole: numbered without a gap or a repeat, silent after   *)
(* its terminate frames but for more of them, and left by an orderly exit  *)
(* only after the whole burst (orchestrator.rs:178-203).                   *)
THEOREM StreamIsWholeAlways == Spec => StreamIsWhole
<1>1. StreamStep <=>
        (/\ /\ network' # network \/ toRelease' < toRelease
            /\ network # NoPacket /\ network'.cid = network.cid
            => /\ network'.sequence = (network.sequence + 1) % SequenceMod
               /\ network.terminated => network'.terminated
         /\ process = "up" /\ process' = "exited"
            => Sent(network) /\ network.terminated /\ toRelease = 0)
  BY DEF StreamStep
<1> QED BY <1>1, Invariance, InitStreamInv, StepKeepsStream, PTL DEF Spec, StreamIsWhole

=============================================================================
