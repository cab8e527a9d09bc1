-------------------------------- MODULE Door --------------------------------
(***************************************************************************)
(* The door's buttons, the Director and the calendar on the brain's one    *)
(* executor: the face polls at 100 Hz, the Director reads what the last    *)
(* poll published at 40 Hz, and the wall clock moves under both.  A brain  *)
(* that starts over is an initial state: it keeps nothing, and it may      *)
(* start at any time, on a clock behind it, with buttons held down.        *)
(***************************************************************************)
EXTENDS FaceButtons, Calendar, Show

CONSTANT PollsPerFrame   \* bound: polls between two frames, 2 or 3 in the code

ASSUME PollsAssumption == PollsPerFrame \in Nat /\ PollsPerFrame < ChordSamples

VARIABLE polls   \* polls since the last frame

doorVars == <<vars, calendarVars, showVars, polls>>

DoorInit == Init /\ CalendarInit /\ ShowInit /\ polls = 0

PollDoor ==
    /\ polls < PollsPerFrame
    /\ PollButtons
    /\ polls' = polls + 1
    /\ UNCHANGED <<calendarVars, showVars>>

(* The frame's fill, given the face's last published state.                *)
PlayFrame ==
    /\ Fill(chords, Current(Now))
    /\ polls' = 0
    /\ UNCHANGED <<vars, calendarVars>>

(* Fingers and time move whenever they like.                               *)
Outside ==
    /\ \/ MoveFingers /\ UNCHANGED calendarVars
       \/ (TimePasses \/ NtpSteps \/ NtpLapses) /\ UNCHANGED vars
    /\ UNCHANGED <<showVars, polls>>

Sync == SyncTask /\ UNCHANGED <<vars, showVars, polls>>

DoorNext == PollDoor \/ PlayFrame \/ Outside \/ Sync

DoorSpec == DoorInit /\ [][DoorNext]_doorVars

-----------------------------------------------------------------------------

(* Outside a show the rig is dark and inside one it plays, right from the  *)
(* frame after the clock jumped; in test mode it plays whatever the        *)
(* calendar says (show.rs:4-6, calendar.rs:9-10).                          *)
PlaysByTheClock ==
    [][PlayFrame /\ behind = 0 =>
         (state' = "idle" <=> Testing' \/ Current(truth))]_doorVars

(* Test mode changes on a chord, every chord changes it, and but for that  *)
(* only its timeout ends it: the two never undo one another on one frame   *)
(* (show.rs:8-10, 80-91).                                                  *)
ChordsAndTimeoutsOnly ==
    [][PlayFrame =>
         (Testing' # Testing <=>
            \/ chords # seenChords
            \/ Testing /\ testingSince + 1 = TestModeTimeout)]_doorVars

=============================================================================
