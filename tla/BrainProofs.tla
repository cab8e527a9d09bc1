---------------------------- MODULE BrainProofs -----------------------------
(***************************************************************************)
(* The executor's safety: what holds of the face alone and of the frame    *)
(* loop alone still holds of the two together, over restarts, and what     *)
(* only the two together can promise.                                      *)
(*                                                                         *)
(* The face's invariant is the one proved of it alone (FaceP!IInv, in      *)
(* which the history of the samples has no part); a restart re-establishes *)
(* it as the first claim does.                                             *)
(***************************************************************************)
EXTENDS MCBrain, TLAPS

FaceP == INSTANCE EstopContactsProofs WITH recent <- [c \in {"nc", "no"} |-> <<>>]

-----------------------------------------------------------------------------
(* The face as Brain has it is the face as it was proved about.            *)

LEMMA SameReading ==
    /\ Face!Contacts = FaceP!Contacts /\ Face!Level = FaceP!Level
    /\ \A inputs : Face!Settled(inputs) = FaceP!Settled(inputs)
    /\ \A pin : Face!NewInput(pin) = FaceP!NewInput(pin)
    /\ \A input, pin : Face!Settles(input, pin) <=> FaceP!Settles(input, pin)
    /\ \A input, pin : Face!Polled(input, pin) = FaceP!Polled(input, pin)
BY DEF Face!Contacts, FaceP!Contacts, Face!Level, FaceP!Level,
       Face!Settled, FaceP!Settled, Face!Reads, FaceP!Reads,
       Face!NewInput, FaceP!NewInput, Face!Settles, FaceP!Settles,
       Face!Polled, FaceP!Polled

LEMMA SamePoll == Face!PollContacts => FaceP!PollContacts
<1> SUFFICES ASSUME Face!PollContacts PROVE FaceP!PollContacts
  OBVIOUS
<1>1. Face!SampleContacts <=> FaceP!SampleContacts
  BY SameReading DEF Face!SampleContacts, FaceP!SampleContacts
<1>2. Face!Changed <=> FaceP!Changed
  BY SameReading DEF Face!Changed, FaceP!Changed
<1>3. Face!AllAtLevel <=> FaceP!AllAtLevel
  BY SameReading DEF Face!AllAtLevel, FaceP!AllAtLevel
<1>4. Face!PollChange => FaceP!PollChange
  BY <1>1, <1>2, SameReading DEF Face!PollChange, FaceP!PollChange
<1>5. Face!PollQuiet => FaceP!PollQuiet
  BY <1>1, <1>3, SameReading DEF Face!PollQuiet, FaceP!PollQuiet
<1>6. Face!PollBounce => FaceP!PollBounce
  BY <1>1, <1>2, <1>3 DEF Face!PollBounce, FaceP!PollBounce
<1> QED BY <1>4, <1>5, <1>6
        DEF Face!PollContacts, FaceP!PollContacts, Face!Poll, FaceP!Poll

LEMMA SameMove == Face!MovePins => FaceP!MovePins
BY SameReading DEF Face!MovePins, FaceP!MovePins, Face!contactVars, FaceP!contactVars

LEMMA SameClaim == Face!Init => FaceP!Init
BY SameReading DEF Face!Init, FaceP!Init

-----------------------------------------------------------------------------

FaceInv == FaceP!IInv

LEMMA FaceStep ==
    ASSUME FaceInv, Face!PollContacts \/ Face!MovePins \/ UNCHANGED faceVars
    PROVE  FaceInv'
<1>1. [FaceP!Next]_(FaceP!vars)
  BY SamePoll, SameMove DEF FaceP!Next, FaceP!vars, faceVars
<1> QED BY <1>1, FaceP!StepKeepsIInv, FaceAssumption DEF FaceInv

(* A new process claims the face as the first one did.                     *)
LEMMA FaceRestart == FaceInv /\ Restart => FaceInv'
<1>1. FaceInv /\ Restart => (FaceP!Init)'
  <2>1. FaceInv /\ Restart =>
          /\ pins' \in [FaceP!Contacts -> FaceP!Level]
          /\ contact' = [c \in FaceP!Contacts |-> FaceP!NewInput(pins'[c])]
          /\ quiet' = SettleSamples
          /\ word' = FaceP!Settled(contact')
          /\ estop' = (word' # "released")
    BY SameReading DEF Restart, FaceInv, FaceP!IInv, FaceP!TypeOK
  <2> QED BY <2>1 DEF FaceP!Init
<1>2. FaceP!Init => FaceP!IInv
  BY FaceP!InitIInv, FaceAssumption
<1> QED BY <1>1, <1>2, PTL DEF FaceInv

-----------------------------------------------------------------------------
(* The frame loop under the face's e-stop is the frame loop: a frame takes *)
(* the e-stop published as its input, which FrameLoop leaves open.         *)

LEMMA SlotsItself ==
    ASSUME NEW slots
    PROVE  Loop!Slots(slots, FALSE, slots) = slots
BY DEF Loop!Slots

LEMMA LoopStep ==
    ASSUME FaceInv, [Next]_vars
    PROVE  [Loop!Next]_(Loop!vars)
<1>1. CASE TakeFrame
  <2>1. PICK slots \in Frame : Loop!FrameTick(slots, estop)
    BY <1>1 DEF TakeFrame
  <2>2. estop \in BOOLEAN
    BY DEF FaceInv, FaceP!IInv, FaceP!TypeOK
  <2>3. Loop!FrameTick(Loop!Slots(slots, FALSE, slots), estop)
    BY <2>1, SlotsItself
  <2>4. slots \in Loop!Frame /\ FALSE \in BOOLEAN
    BY DEF Loop!Frame, Frame
  <2>5. Loop!AnyFrameTick
    BY <2>2, <2>3, <2>4 DEF Loop!AnyFrameTick
  <2> QED BY <2>5 DEF Loop!Next
<1>2. CASE LeaveOrDie \/ Restart
  BY <1>2 DEF LeaveOrDie, Restart, Loop!Next
<1>3. CASE PollFace \/ MovePins \/ UNCHANGED vars
  BY <1>3 DEF PollFace, MovePins, vars, loopVars, Loop!vars
<1> QED BY <1>1, <1>2, <1>3 DEF Next

LEMMA StepKeepsFaceInv == FaceInv /\ [Next]_vars => FaceInv'
<1> SUFFICES ASSUME FaceInv, [Next]_vars PROVE FaceInv'
  OBVIOUS
<1>1. CASE Restart
  BY <1>1, FaceRestart
<1>2. CASE PollFace \/ MovePins \/ TakeFrame \/ LeaveOrDie \/ UNCHANGED vars
  <2>1. Face!PollContacts \/ Face!MovePins \/ UNCHANGED faceVars
    BY <1>2 DEF PollFace, MovePins, TakeFrame, LeaveOrDie, vars
  <2> QED BY <2>1, FaceStep
<1> QED BY <1>1, <1>2 DEF Next

LEMMA InitFaceInv == Init => FaceInv
BY SameClaim, FaceP!InitIInv, FaceAssumption DEF Init, FaceInv

(* In every behaviour of the executor the frame loop behaves as FrameLoop  *)
(* says, so that all that is proved of it alone holds here too             *)
(* (brain/src/main.rs, cortex/src/lib.rs).                                 *)
THEOREM LoopRunsHere == Spec => Loop!Init /\ [][Loop!Next]_(Loop!vars)
<1>1. Init => Loop!Init
  BY DEF Init
<1>2. FaceInv /\ [Next]_vars => [Loop!Next]_(Loop!vars)
  BY LoopStep
<1> QED BY <1>1, <1>2, InitFaceInv, StepKeepsFaceInv, PTL DEF Spec

-----------------------------------------------------------------------------

RigInv == asked \in BOOLEAN /\ rig.state \in Loop!RigWord

(* A decision that lets the rig run was not told to stop.                  *)
LEMMA DecidedRuns ==
    ASSUME RigInv, rig.state # "shutdown", NEW slots, NEW pressed \in BOOLEAN
    PROVE  /\ Loop!Decided(slots, pressed).state \in Loop!RigWord
           /\ Loop!Decided(slots, pressed).state = "running" => ~pressed
<1>1. CASE asked \/ ~pressed
  BY <1>1 DEF RigInv, Loop!Decided, Loop!RigWord
<1>2. CASE ~asked /\ pressed
  <2>1. rig.state \in {"boot_hold", "running", "estop"}
    BY DEF RigInv, Loop!RigWord
  <2>2. Loop!Decided(slots, pressed).state = "estop"
    BY <1>2, <2>1 DEF Loop!Decided
  <2> QED BY <2>2 DEF Loop!RigWord
<1> QED BY <1>1, <1>2 DEF RigInv

LEMMA StepKeepsRigInv ==
    ASSUME FaceInv, RigInv, [Next]_vars
    PROVE  RigInv' /\ (GoesLive => Face!Settled(contact) = "released")
<1>1. CASE TakeFrame
  <2>1. PICK slots \in Frame : Loop!FrameTick(slots, estop)
    BY <1>1 DEF TakeFrame
  <2>2. Loop!Decide(slots, estop)
    BY <2>1 DEF Loop!FrameTick, Loop!FrameOut, Loop!FrameSilent, Loop!FrameShutdown
  <2>3. estop \in BOOLEAN /\ (~estop => Face!Settled(contact) = "released")
    BY SameReading
       DEF FaceInv, FaceP!IInv, FaceP!TypeOK, FaceP!NeverRunsUnlessReleased
  <2>4. /\ rig' = Loop!Decided(slots, estop) /\ rig.state # "shutdown"
        /\ asked' = asked
    BY <2>2 DEF Loop!Decide
  <2>5. rig'.state \in Loop!RigWord /\ (rig'.state = "running" => ~estop)
    BY <2>3, <2>4, DecidedRuns
  <2> QED BY <2>3, <2>4, <2>5 DEF RigInv, GoesLive
<1>2. CASE LeaveOrDie
  <2>1. rig' = rig /\ asked' \in BOOLEAN
    BY <1>2 DEF LeaveOrDie, Loop!Shutdown, Loop!ReleaseFrame, Loop!Exit, Loop!Signal,
                Loop!Die, RigInv
  <2>2. network' # network => rig.state = "shutdown"
    BY <1>2 DEF LeaveOrDie, Loop!Shutdown, Loop!ReleaseFrame, Loop!Exit, Loop!Signal,
                Loop!Die
  <2> QED BY <2>1, <2>2 DEF RigInv, GoesLive
<1>3. CASE Restart
  BY <1>3 DEF Restart, Loop!Restart, Loop!Boot, Loop!RigWord, RigInv, GoesLive
<1>4. CASE PollFace \/ MovePins \/ UNCHANGED vars
  BY <1>4 DEF PollFace, MovePins, vars, loopVars, RigInv, GoesLive
<1> QED BY <1>1, <1>2, <1>3, <1>4 DEF Next

(* No live frame goes out but with the contacts settled released, whatever *)
(* has happened to the process in between (brain/src/face.rs:121-122,      *)
(* cortex/src/orchestrator.rs:150).                                        *)
THEOREM LiveOnlyReleasedAlways == Spec => LiveOnlyReleased
<1>1. Init => RigInv
  BY DEF Init, Loop!Init, Loop!Boot, RigInv, Loop!RigWord
<1>2. FaceInv /\ RigInv /\ [Next]_vars
        => RigInv' /\ (GoesLive => Face!Settled(contact) = "released")
  BY StepKeepsRigInv
<1> QED BY <1>1, <1>2, InitFaceInv, StepKeepsFaceInv, PTL DEF Spec, LiveOnlyReleased
-----------------------------------------------------------------------------
(* A stop no frame has seen.  It began since the last frame or the last    *)
(* claim, with every counter at zero, so the polls since are as many as    *)
(* each counter of a contact off its released level (Turning), and a       *)
(* settle period and the wait so far once both are back (Waiting).         *)

Off(c) == contact[c].level # FaceP!ReleasedLevel[c]

Turning == \A c \in FaceP!Contacts : Off(c) => contact[c].differing <= polls

Waiting ==
    FaceP!Settled(contact) = "released" =>
        quiet < SettleSamples /\ polls >= SettleSamples + quiet

UnseenInv ==
    /\ polls \in 0 .. PollsPerFrame
    /\ unseen \in BOOLEAN
    /\ unseen => estop /\ Turning /\ Waiting

(* Both contacts at their released levels is what released reads.          *)
LEMMA LevelsRelease ==
    ASSUME NEW inputs \in [FaceP!Contacts -> FaceP!Input]
    PROVE  FaceP!Settled(inputs) = "released" <=>
             \A c \in FaceP!Contacts : inputs[c].level = FaceP!ReleasedLevel[c]
<1>1. inputs["nc"].level \in {"low", "high"} /\ inputs["no"].level \in {"low", "high"}
  BY DEF FaceP!Contacts, FaceP!Input, FaceP!Level
<1>2. (\A c \in FaceP!Contacts : inputs[c].level = FaceP!ReleasedLevel[c]) <=>
        inputs["nc"].level = "low" /\ inputs["no"].level = "high"
  BY DEF FaceP!Contacts, FaceP!ReleasedLevel
<1> QED BY <1>1, <1>2 DEF FaceP!Settled, FaceP!Reads

(* One sample: an unsettled contact's counter grows by one at the most, a  *)
(* settled one's starts over, and only a full counter settles.             *)
LEMMA OneSample ==
    ASSUME FaceInv, FaceP!SampleContacts, NEW c \in FaceP!Contacts
    PROVE  /\ contact'[c].differing \in Nat /\ contact[c].differing \in Nat
           /\ contact'[c].differing <= contact[c].differing + 1
           /\ contact'[c].level # contact[c].level =>
                /\ contact'[c].differing = 0
                /\ contact[c].differing + 1 >= SettleSamples
                /\ FaceP!Settles(contact[c], pins[c])
<1>1. /\ contact[c].level \in FaceP!Level
      /\ contact[c].differing \in 0 .. SettleSamples - 1
      /\ contact[c] = [level |-> contact[c].level, differing |-> contact[c].differing]
      /\ contact'[c] = FaceP!Polled(contact[c], pins[c])
  BY DEF FaceInv, FaceP!IInv, FaceP!TypeOK, FaceP!Input, FaceP!SampleContacts
<1> QED BY <1>1, FaceAssumption DEF FaceP!Polled, FaceP!Settles, FaceP!NewInput

(* The stop goes on, or begins, unseen.                                    *)
LEMMA ChangeKeepsUnseen ==
    ASSUME FaceInv, FaceInv', UnseenInv, FaceP!PollChange,
           polls < PollsPerFrame, polls' = polls + 1,
           unseen' = (unseen \/ (estop' /\ ~estop))
    PROVE  UnseenInv'
<1>1. FaceP!SampleContacts /\ quiet' = 0 /\ estop' = (estop \/ FaceP!Settled(contact') # "released")
  BY DEF FaceP!PollChange
<1>2. polls \in Nat /\ polls' \in 0 .. PollsPerFrame /\ estop \in BOOLEAN /\ unseen \in BOOLEAN
  BY PollsAssumption DEF UnseenInv, FaceInv, FaceP!IInv, FaceP!TypeOK
<1>3. unseen' => estop'
  BY <1>1, <1>2 DEF UnseenInv
<1>4. ASSUME unseen'
      PROVE  Turning'
  <2> SUFFICES ASSUME NEW c \in FaceP!Contacts, Off(c)'
               PROVE  contact'[c].differing <= polls'
    BY DEF Turning
  <2>1. CASE contact'[c].level # contact[c].level
    BY <1>1, <1>2, <2>1, OneSample
  <2>2. CASE contact'[c].level = contact[c].level
    <3>1. Off(c)
      BY <2>2 DEF Off, FaceP!ReleasedLevel
    <3>2. estop
      BY <3>1, LevelsRelease DEF Off, FaceInv, FaceP!IInv, FaceP!TypeOK, FaceP!NeverRunsUnlessReleased
    <3>3. contact[c].differing <= polls
      BY <1>4, <1>2, <3>1, <3>2 DEF UnseenInv, Turning
    <3> QED BY <1>1, <1>2, <3>3, OneSample
  <2> QED BY <2>1, <2>2
<1>5. ASSUME unseen', FaceP!Settled(contact') = "released"
      PROVE  polls' >= SettleSamples + quiet'
  <2>1. estop /\ unseen
    BY <1>1, <1>2, <1>5 DEF UnseenInv
  <2>2. PICK c \in FaceP!Contacts : FaceP!Settles(contact[c], pins[c])
    BY DEF FaceP!PollChange, FaceP!Changed
  <2>3. contact'[c].level # contact[c].level
    BY <1>1, <2>2 DEF FaceP!SampleContacts, FaceP!Polled, FaceP!Settles, FaceP!NewInput
  <2>4. \A d \in FaceP!Contacts : contact'[d].level = FaceP!ReleasedLevel[d]
    BY <1>5, LevelsRelease DEF FaceInv, FaceP!IInv, FaceP!TypeOK
  <2>5. Off(c)
    BY <2>3, <2>4 DEF Off
  <2>6. contact[c].differing <= polls
    BY <2>1, <2>5 DEF UnseenInv, Turning
  <2>7. contact[c].differing + 1 >= SettleSamples /\ contact[c].differing \in Nat
    BY <1>1, <2>3, OneSample
  <2> QED BY <1>1, <1>2, <2>6, <2>7, FaceAssumption
<1>6. unseen' \in BOOLEAN
  BY <1>1, <1>2
<1> QED BY <1>1, <1>2, <1>3, <1>4, <1>5, <1>6, FaceAssumption DEF UnseenInv, Waiting

(* A quiet poll is one more of each; it does not decide yet, for a stop    *)
(* unseen is not yet two settle periods old.                               *)
LEMMA QuietKeepsUnseen ==
    ASSUME PollsPerFrame < 2 * SettleSamples,
           FaceInv, UnseenInv, FaceP!PollQuiet,
           polls < PollsPerFrame, polls' = polls + 1,
           unseen' = (unseen \/ (estop' /\ ~estop))
    PROVE  UnseenInv' /\ (estop /\ ~estop' => ~unseen)
<1>1. FaceP!SampleContacts
  BY DEF FaceP!PollQuiet
<1>2. /\ polls \in Nat /\ polls' \in 0 .. PollsPerFrame /\ estop \in BOOLEAN
      /\ unseen \in BOOLEAN /\ quiet \in Nat
  BY PollsAssumption DEF UnseenInv, FaceInv, FaceP!IInv, FaceP!TypeOK
<1>3. \A c \in FaceP!Contacts : contact'[c].level = contact[c].level
  BY <1>1 DEF FaceP!PollQuiet, FaceP!AllAtLevel, FaceP!SampleContacts, FaceP!Polled,
              FaceP!NewInput
<1>4. FaceP!Settled(contact') = FaceP!Settled(contact)
  BY <1>3 DEF FaceP!Settled, FaceP!Contacts
<1>5. ~estop => FaceP!Settled(contact) = "released"
  BY DEF FaceInv, FaceP!IInv, FaceP!NeverRunsUnlessReleased
<1>6. ~estop => ~estop'
  BY <1>4, <1>5 DEF FaceP!PollQuiet
<1>7. unseen' = unseen
  BY <1>2, <1>6
<1>8. ASSUME unseen
      PROVE  estop' /\ Turning' /\ Waiting'
  <2>1. estop /\ Turning /\ Waiting
    BY <1>8 DEF UnseenInv
  <2>2. Turning'
    <3> SUFFICES ASSUME NEW c \in FaceP!Contacts, Off(c)'
                 PROVE  contact'[c].differing <= polls'
      BY DEF Turning
    <3>1. Off(c)
      BY <1>3 DEF Off, FaceP!ReleasedLevel
    <3>2. contact[c].differing <= polls
      BY <2>1, <3>1 DEF Turning
    <3> QED BY <1>1, <1>2, <3>2, OneSample
  <2>3. CASE FaceP!Settled(contact) = "released"
    <3>1. quiet < SettleSamples /\ polls >= SettleSamples + quiet
      BY <2>1, <2>3 DEF Waiting
    <3>2. quiet' = quiet + 1
      BY <1>2, <3>1, FaceAssumption DEF FaceP!PollQuiet
    <3>3. quiet' # SettleSamples
      BY <1>2, <3>1, <3>2, PollsAssumption, FaceAssumption
    <3>4. estop' = estop
      BY <3>3 DEF FaceP!PollQuiet
    <3>5. quiet' < SettleSamples /\ polls' >= SettleSamples + quiet'
      BY <1>2, <3>1, <3>2, <3>3, FaceAssumption
    <3> QED BY <2>1, <2>2, <3>4, <3>5 DEF Waiting
  <2>4. CASE FaceP!Settled(contact) # "released"
    <3>1. estop'
      BY <1>4, <2>1, <2>4 DEF FaceP!PollQuiet
    <3> QED BY <1>4, <2>2, <2>4, <3>1 DEF Waiting
  <2> QED BY <2>3, <2>4
<1> QED BY <1>2, <1>7, <1>8 DEF UnseenInv

(* A bounce restarts the wait and moves no level.                          *)
LEMMA BounceKeepsUnseen ==
    ASSUME FaceInv, UnseenInv, FaceP!PollBounce,
           polls < PollsPerFrame, polls' = polls + 1,
           unseen' = (unseen \/ (estop' /\ ~estop))
    PROVE  UnseenInv'
<1>1. FaceP!SampleContacts /\ estop' = estop
  BY DEF FaceP!PollBounce
<1>2. /\ polls \in Nat /\ polls' \in 0 .. PollsPerFrame /\ unseen \in BOOLEAN
      /\ quiet \in Nat
  BY PollsAssumption DEF UnseenInv, FaceInv, FaceP!IInv, FaceP!TypeOK
<1>3. \A c \in FaceP!Contacts : contact'[c].level = contact[c].level
  BY <1>1, OneSample DEF FaceP!PollBounce, FaceP!Changed
<1>4. FaceP!Settled(contact') = FaceP!Settled(contact)
  BY <1>3 DEF FaceP!Settled, FaceP!Contacts
<1>5. unseen' = unseen
  BY <1>1, <1>2
<1>6. ASSUME unseen
      PROVE  estop' /\ Turning' /\ Waiting'
  <2>1. estop /\ Turning /\ Waiting
    BY <1>6 DEF UnseenInv
  <2>2. Turning'
    <3> SUFFICES ASSUME NEW c \in FaceP!Contacts, Off(c)'
                 PROVE  contact'[c].differing <= polls'
      BY DEF Turning
    <3>1. Off(c)
      BY <1>3 DEF Off, FaceP!ReleasedLevel
    <3>2. contact[c].differing <= polls
      BY <2>1, <3>1 DEF Turning
    <3> QED BY <1>1, <1>2, <3>2, OneSample
  <2>3. Waiting'
    <3> SUFFICES ASSUME FaceP!Settled(contact) = "released"
                 PROVE  quiet' < SettleSamples /\ polls' >= SettleSamples + quiet'
      BY <1>4 DEF Waiting
    <3>1. quiet < SettleSamples /\ polls >= SettleSamples + quiet
      BY <2>1 DEF Waiting
    <3>2. quiet' = 0
      BY <3>1 DEF FaceP!PollBounce
    <3> QED BY <1>2, <3>1, <3>2, FaceAssumption
  <2> QED BY <1>1, <2>1, <2>2, <2>3
<1> QED BY <1>2, <1>5, <1>6 DEF UnseenInv

StopSeen == PollFace /\ estop /\ ~estop' => ~unseen

LEMMA StepKeepsUnseen ==
    ASSUME PollsPerFrame < 2 * SettleSamples,
           FaceInv, FaceInv', UnseenInv, [HistoryNext]_historyVars
    PROVE  UnseenInv' /\ StopSeen
<1>1. CASE PollFace /\ unseen' = (unseen \/ (estop' /\ ~estop))
  <2>1. FaceP!PollContacts /\ polls < PollsPerFrame /\ polls' = polls + 1
    BY <1>1, SamePoll DEF PollFace
  <2>2. CASE FaceP!PollChange
    <3>1. estop => estop'
      BY <2>2 DEF FaceP!PollChange
    <3> QED BY <1>1, <2>1, <2>2, <3>1, ChangeKeepsUnseen DEF StopSeen
  <2>3. CASE FaceP!PollQuiet
    BY <1>1, <2>1, <2>3, QuietKeepsUnseen DEF StopSeen
  <2>4. CASE FaceP!PollBounce
    <3>1. estop => estop'
      BY <2>4 DEF FaceP!PollBounce
    <3> QED BY <1>1, <2>1, <2>4, <3>1, BounceKeepsUnseen DEF StopSeen
  <2> QED BY <2>1, <2>2, <2>3, <2>4 DEF FaceP!PollContacts, FaceP!Poll
<1>2. CASE TakeFrame /\ unseen' = (unseen /\ ~estop)
  <2>1. ~unseen' /\ unseen' \in BOOLEAN /\ polls' = 0 /\ estop' = estop
    BY <1>2 DEF TakeFrame, faceVars, UnseenInv
  <2> QED BY <2>1, PollsAssumption DEF UnseenInv, StopSeen
<1>3. CASE Restart /\ unseen' = estop'
  <2>1. /\ polls' = 0
        /\ \A c \in FaceP!Contacts : contact'[c].differing = 0
        /\ estop' = (FaceP!Settled(contact') # "released")
    BY <1>3, SameReading DEF Restart, FaceP!NewInput
  <2>2. UnseenInv'
    <3>1. Turning'
      BY <2>1 DEF Turning
    <3>2. unseen' => Waiting'
      BY <1>3, <2>1 DEF Waiting
    <3>3. estop' \in BOOLEAN
      BY <2>1
    <3> QED BY <1>3, <2>1, <3>1, <3>2, <3>3, PollsAssumption DEF UnseenInv
  <2>3. StopSeen
    BY <1>3, <2>1, PollsAssumption DEF StopSeen, PollFace, UnseenInv
  <2> QED BY <2>2, <2>3
<1>4. CASE (MovePins \/ LeaveOrDie \/ UNCHANGED vars) /\ UNCHANGED unseen
  <2>1. UNCHANGED <<contact, quiet, estop, word, polls, unseen>>
    BY <1>4 DEF MovePins, Face!MovePins, Face!contactVars, LeaveOrDie, vars, faceVars
  <2> QED BY <2>1 DEF UnseenInv, Turning, Waiting, Off, StopSeen
<1> QED BY <1>1, <1>2, <1>3, <1>4 DEF HistoryNext, historyVars

LEMMA InitUnseenInv == HistoryInit => UnseenInv
<1> SUFFICES ASSUME HistoryInit PROVE UnseenInv
  OBVIOUS
<1>1. /\ polls = 0 /\ unseen = estop
      /\ \A c \in FaceP!Contacts : contact[c].differing = 0
      /\ estop = (FaceP!Settled(contact) # "released")
  BY SameReading DEF HistoryInit, Init, Face!Init, FaceP!NewInput
<1>2. Turning
  BY <1>1 DEF Turning
<1>3. unseen => Waiting
  BY <1>1 DEF Waiting
<1>4. estop \in BOOLEAN
  BY <1>1
<1> QED BY <1>1, <1>2, <1>3, <1>4, PollsAssumption DEF UnseenInv

(* However short a press, a frame sees the stop, for every settle period   *)
(* and every rate of frames at which less than two settle periods of polls *)
(* fit between two of them (face.rs:43-48; in the code 3 polls, and twice  *)
(* 3 samples).                                                             *)
THEOREM EveryStopIsSeenAlways ==
    ASSUME PollsPerFrame < 2 * SettleSamples
    PROVE  HistorySpec => EveryStopIsSeen
<1>1. StopSeen <=> (PollFace /\ estop /\ ~estop' => ~unseen)
  BY DEF StopSeen
<1>2. HistoryInit => FaceInv /\ UnseenInv
  BY InitFaceInv, InitUnseenInv DEF HistoryInit
<1>3. FaceInv /\ [HistoryNext]_historyVars => FaceInv'
  <2>1. [HistoryNext]_historyVars => [Next]_vars
    BY DEF HistoryNext, historyVars, Next
  <2> QED BY <2>1, StepKeepsFaceInv
<1>4. FaceInv /\ UnseenInv /\ [HistoryNext]_historyVars => UnseenInv' /\ StopSeen
  BY <1>3, StepKeepsUnseen
<1> QED BY <1>1, <1>2, <1>3, <1>4, PTL DEF HistorySpec, EveryStopIsSeen

=============================================================================
