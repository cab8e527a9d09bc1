---------------------------- MODULE SacnSequence ----------------------------
(***************************************************************************)
(* E1.31 sequence numbers as the receive stage judges them                 *)
(* (cortex/src/sacn_in.rs, SourceTable::in_sequence): a u8 difference read *)
(* as an i8.                                                               *)
(***************************************************************************)
EXTENDS Integers

CONSTANTS
    SequenceMod,     \* what the u8 sequence wraps at, 256 in the code
    SequenceWindow   \* how far behind a straggler is: SEQUENCE_WINDOW is -20

ASSUME SequenceAssumption ==
    /\ SequenceMod \in Nat /\ SequenceMod > 1 /\ SequenceMod % 2 = 0
    /\ SequenceWindow \in Nat

Sequences == 0 .. SequenceMod - 1

(* a - b in two's complement.                                              *)
Delta(a, b) ==
    LET d == (a - b) % SequenceMod
    IN  IF d < SequenceMod \div 2 THEN d ELSE d - SequenceMod

(* Mutant of MovesOn: a duplicate moves on.                                *)
MovesOnAgain(last, sequence) ==
    LET delta == Delta(sequence, last)
    IN  delta >= 0 \/ delta <= -SequenceWindow

(* Newer than the last number heard, or so far behind that the source has  *)
(* restarted.                                                              *)
MovesOn(last, sequence) ==
    LET delta == Delta(sequence, last)
    IN  delta > 0 \/ delta <= -SequenceWindow

=============================================================================
