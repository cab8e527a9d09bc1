------------------------------ MODULE Debounce ------------------------------
(***************************************************************************)
(* One polled input line of the face (brain/src/face.rs, Input): a level   *)
(* is only believed once it has held for SettleSamples consecutive polls.  *)
(*                                                                         *)
(* An input is the record [level, differing]: the settled level, and how   *)
(* many polls in a row have read something else.                           *)
(***************************************************************************)
EXTENDS Naturals

CONSTANT SettleSamples   \* SETTLE_SAMPLES, 3 in the code

ASSUME SettleAssumption == SettleSamples \in Nat \ {0}

Level == {"low", "high"}

Input == [level : Level, differing : 0 .. SettleSamples - 1]

(* Input::new: the level as first read, believed at once.                  *)
NewInput(pin) == [level |-> pin, differing |-> 0]

(* Mutant of Settles: one sample too many.                                 *)
SettlesLate(input, pin) ==
    /\ pin # input.level
    /\ input.differing + 1 > SettleSamples

(* Whether this sample settles a new level: what Input::poll returns.      *)
Settles(input, pin) ==
    /\ pin # input.level
    /\ input.differing + 1 >= SettleSamples

(* The input after one sample of its pin.                                  *)
Polled(input, pin) ==
    IF pin = input.level \/ Settles(input, pin)
      THEN NewInput(pin)
      ELSE [input EXCEPT !.differing = @ + 1]

=============================================================================
