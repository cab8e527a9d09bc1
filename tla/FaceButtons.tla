---------------------------- MODULE FaceButtons -----------------------------
(***************************************************************************)
(* The button side of the face (brain/src/face.rs): the left and the right *)
(* button, debounced, their presses counted as they settle down, and the   *)
(* chord, both held for ChordSamples polls.  Presses and chords are        *)
(* wrapping counters, so that a reader slower than the polls misses none.  *)
(***************************************************************************)
EXTENDS Debounce

CONSTANTS
    ChordSamples,   \* CHORD_SAMPLES, 200 in the code
    HeldCap,        \* where the u16 Chord.held saturates
    CounterMod      \* what the u32 counters wrap at

ASSUME ChordAssumption ==
    /\ ChordSamples \in Nat \ {0}
    /\ HeldCap \in Nat /\ HeldCap > ChordSamples
    /\ CounterMod \in Nat /\ CounterMod > 1

VARIABLES
    fingers,   \* what each button's pin reads right now
    button,    \* each button's debounced Input
    held,      \* Chord.held: consecutive polls with both buttons down
    presses,   \* FaceState.left_presses, .right_presses
    chords     \* FaceState.chords

buttonVars == <<button, held, presses, chords>>
vars == <<fingers, button, held, presses, chords>>

Buttons == {"left", "right"}

(* A button is pulled up and closes to ground: pressed is low.             *)
Pressed(input) == input.level = "low"

Init ==
    /\ fingers \in [Buttons -> Level]
    /\ button = [b \in Buttons |-> NewInput(fingers[b])]
    /\ held = 0
    /\ presses = [b \in Buttons |-> 0]
    /\ chords = 0

-----------------------------------------------------------------------------

(* Mutants of Observe: the count does not saturate; it wraps.              *)
ObserveOverflows(both) ==
    /\ held' = IF both THEN held + 1 ELSE 0
    /\ chords' = IF both /\ held' = ChordSamples
                   THEN (chords + 1) % CounterMod
                   ELSE chords

ObserveWraps(both) ==
    /\ held' = IF both THEN (held + 1) % (HeldCap + 1) ELSE 0
    /\ chords' = IF both /\ held' = ChordSamples
                   THEN (chords + 1) % CounterMod
                   ELSE chords

(* Chord::observe, given whether both buttons are down.                    *)
Observe(both) ==
    /\ held' = IF ~both THEN 0
               ELSE IF held < HeldCap THEN held + 1 ELSE held
    /\ chords' = IF both /\ held' = ChordSamples
                   THEN (chords + 1) % CounterMod
                   ELSE chords

(* Mutant of Poll: a release counts as a press.                            *)
PollCountsReleases ==
    /\ button' = [b \in Buttons |-> Polled(button[b], fingers[b])]
    /\ presses' = [b \in Buttons |->
                     IF Settles(button[b], fingers[b])
                       THEN (presses[b] + 1) % CounterMod
                       ELSE presses[b]]
    /\ Observe(\A b \in Buttons : Pressed(button'[b]))

Poll ==
    /\ button' = [b \in Buttons |-> Polled(button[b], fingers[b])]
    /\ presses' = [b \in Buttons |->
                     IF Settles(button[b], fingers[b]) /\ Pressed(button'[b])
                       THEN (presses[b] + 1) % CounterMod
                       ELSE presses[b]]
    /\ Observe(\A b \in Buttons : Pressed(button'[b]))

PollButtons == Poll /\ UNCHANGED fingers

MoveFingers ==
    /\ fingers' \in [Buttons -> Level]
    /\ UNCHANGED buttonVars

-----------------------------------------------------------------------------

TypeOK ==
    /\ fingers \in [Buttons -> Level]
    /\ button \in [Buttons -> Input]
    /\ held \in 0 .. HeldCap
    /\ presses \in [Buttons -> 0 .. CounterMod - 1]
    /\ chords \in 0 .. CounterMod - 1

=============================================================================
