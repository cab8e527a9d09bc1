------------------------------- MODULE MCDoor -------------------------------
(***************************************************************************)
(* Door judged against the raw pins.  The history holds each pin's last    *)
(* SettleSamples samples, the level it was last read at throughout such a  *)
(* window (solid), how often that level fell (falls), whether a button has *)
(* been up since the last chord (armed), for how many polls both pins have *)
(* read down (down), and the chords no frame has seen (owed).              *)
(***************************************************************************)
EXTENDS Door, Sequences

MCShows == {[start |-> 1, stop |-> 2]}

VARIABLES recent, solid, falls, armed, down, owed

history == <<recent, solid, falls, armed, down, owed>>
historyVars == <<doorVars, history>>

HistoryInit ==
    /\ DoorInit
    /\ recent = [b \in Buttons |-> <<>>]
    /\ solid = fingers
    /\ falls = [b \in Buttons |-> 0]
    /\ armed = TRUE
    /\ down = 0
    /\ owed = 0

Newest(s) == IF Len(s) > SettleSamples THEN Tail(s) ELSE s

(* The level read throughout the window, or the one before when it varied. *)
SolidLevel(window, before) ==
    IF \E l \in Level : window = [i \in 1 .. SettleSamples |-> l]
      THEN window[1]
      ELSE before

DownCap == SettleSamples + ChordSamples

HistoryPoll ==
    /\ PollDoor
    /\ recent' = [b \in Buttons |-> Newest(Append(recent[b], fingers[b]))]
    /\ solid' = [b \in Buttons |-> SolidLevel(recent'[b], solid[b])]
    /\ falls' = [b \in Buttons |->
                   IF solid[b] = "high" /\ solid'[b] = "low"
                     THEN (falls[b] + 1) % CounterMod
                     ELSE falls[b]]
    /\ armed' = \/ \E b \in Buttons : solid'[b] = "high"
                \/ armed /\ chords' = chords
    /\ down' = IF \E b \in Buttons : fingers[b] = "high" THEN 0
               ELSE IF down < DownCap THEN down + 1 ELSE down
    /\ owed' = IF chords' # chords THEN owed + 1 ELSE owed

HistoryNext ==
    \/ HistoryPoll
    \/ PlayFrame /\ owed' = 0 /\ UNCHANGED <<recent, solid, falls, armed, down>>
    \/ Outside /\ UNCHANGED history
    \/ Sync /\ UNCHANGED history

HistorySpec == HistoryInit /\ [][HistoryNext]_historyVars

TypeOKDoor ==
    /\ TypeOK /\ CalendarTypeOK /\ ShowTypeOK
    /\ polls \in 0 .. PollsPerFrame

(* Every press is counted once, and a bounce is none: the counters count   *)
(* the falls of the level each pin held for a whole settle period          *)
(* (face.rs:9-13, 15-17).                                                  *)
EveryPressOnce == presses = falls

(* Both buttons read down for the settle and the chord's length: by then a *)
(* chord was made (face.rs:249-262).                                       *)
HeldDownMakesAChord == down = DownCap => held >= ChordSamples

(* "A chord takes seconds to make, so one frame never sees two"            *)
(* (show.rs:76), at the slowest the executor runs the frames.              *)
OneChordAFrame == owed <= 1

(* Nothing the fingers do is lost or taken twice on its way to the         *)
(* Director: the three above (face.rs:9-17, 249-262, show.rs:76).          *)
NoneLostNoneTwice == EveryPressOnce /\ HeldDownMakesAChord /\ OneChordAFrame

(* A chord held on counts once, past the counter's saturation too: the     *)
(* next one needs a button to come up first (face.rs:254-257).             *)
OneChordPerHold == [][chords' # chords => armed]_historyVars

=============================================================================
