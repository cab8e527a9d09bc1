---------------------------- MODULE MCFrameLoop -----------------------------
(***************************************************************************)
(* FrameLoop with two channels: a dimmer the stop puts dark, and a head's  *)
(* pan the stop leaves where it was.                                       *)
(***************************************************************************)
EXTENDS FrameLoop

MCChannels == {"dimmer", "pan"}
MCValues == {0, 1}
MCStop == [c \in {"dimmer"} |-> 0]

=============================================================================
