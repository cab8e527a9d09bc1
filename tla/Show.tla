-------------------------------- MODULE Show --------------------------------
(***************************************************************************)
(* The Director (brain/src/show.rs): on every frame it takes the door's    *)
(* chord count and whether a show is on, and decides test mode, the show   *)
(* state and the face's two lamps.  Test mode is held as the frames since  *)
(* it was turned on: the monotonic clock moves one frame per frame.        *)
(***************************************************************************)
EXTENDS Naturals

CONSTANTS
    TestModeTimeout,  \* TEST_MODE_TIMEOUT in frames, 36000 in the code
    PulseFrames,      \* PULSE_SECS in frames, 160 in the code
    FramesCap,        \* where the u32 frame counter saturates
    Off               \* testing_since while test mode is off

ASSUME ShowAssumption ==
    /\ TestModeTimeout \in Nat \ {0}
    /\ PulseFrames \in Nat \ {0} /\ FramesCap \in Nat
    /\ Off \notin Nat

VARIABLES
    seenChords,    \* the face's chord count as last read
    testingSince,  \* Off, or how long test mode has been on
    state,         \* the show state
    frames,        \* frames played in it
    lamps,         \* the levels written to the face's two channels
    told           \* brain/show and brain/testmode as last published

showVars == <<seenChords, testingSince, state, frames, lamps, told>>

Testing == testingSince # Off

Dark == [left |-> 0, right |-> FALSE]

ShowInit ==
    /\ seenChords = 0
    /\ testingSince = Off
    /\ state = "blackout"
    /\ frames = 0
    /\ lamps = Dark
    /\ told = [show |-> "blackout", testmode |-> FALSE]

(* The lamp's breath, dark at its ends and full at its middle, in steps.   *)
Breath(n) ==
    LET step == n % PulseFrames
    IN  IF 2 * step <= PulseFrames THEN step ELSE PulseFrames - step

-----------------------------------------------------------------------------

(* Mutant of TestMode: the timeout is handled first, and a chord on its    *)
(* frame finds test mode off and turns it on again.                        *)
TestModeTimesOutFirst(chorded) ==
    LET ends == testingSince # Off /\ testingSince + 1 >= TestModeTimeout
    IN  testingSince' =
          CASE chorded -> IF testingSince = Off \/ ends THEN 0 ELSE Off
            [] ~chorded /\ (testingSince = Off \/ ends) -> Off
            [] OTHER -> testingSince + 1

(* A chord turns test mode over; without one it ends after its timeout.    *)
TestMode(chorded) ==
    testingSince' =
      CASE chorded -> IF testingSince = Off THEN 0 ELSE Off
        [] ~chorded /\ (testingSince = Off \/ testingSince + 1 >= TestModeTimeout) -> Off
        [] OTHER -> testingSince + 1

(* Mutant of NextState: the end of test mode ends a show that is on.       *)
NextStateEndsWithTestMode(on) ==
    CASE state = "idle" /\ ~Testing' /\ (Testing \/ ~on) -> "blackout"
      [] state = "blackout" /\ (Testing' \/ on) -> "idle"
      [] OTHER -> state

(* Show::next: the state this frame moves to, given whether a show is on.  *)
NextState(on) ==
    CASE state = "idle" /\ ~Testing' /\ ~on -> "blackout"
      [] state = "blackout" /\ (Testing' \/ on) -> "idle"
      [] OTHER -> state

(* The frames played in the state this frame is in: enter starts over.     *)
Played == IF state' # state THEN 0 ELSE frames

(* Show::fill, given the door's chord count and whether a show is on.      *)
Fill(chords, on) ==
    /\ seenChords' = chords
    /\ TestMode(chords # seenChords)
    /\ state' = NextState(on)
    /\ frames' = IF Played < FramesCap THEN Played + 1 ELSE Played
    /\ lamps' = [left |-> IF state' = "idle" THEN Breath(Played) ELSE 0,
                 right |-> Testing']
    /\ told' = [show |-> state', testmode |-> Testing']

ShowTypeOK ==
    /\ seenChords \in Nat
    /\ testingSince \in {Off} \cup 0 .. TestModeTimeout - 1
    /\ state \in {"blackout", "idle"}
    /\ frames \in 0 .. FramesCap
    /\ lamps \in [left : 0 .. PulseFrames, right : BOOLEAN]
    /\ told \in [show : {"blackout", "idle"}, testmode : BOOLEAN]

=============================================================================
