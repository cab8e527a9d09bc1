------------------------------ MODULE MCBrain -------------------------------
(***************************************************************************)
(* Brain over one channel, a lamp the stop holds dark, with a history      *)
(* variable: whether there is a stop no frame has seen yet.                *)
(***************************************************************************)
EXTENDS Brain, TLC

MCStop == "lamp" :> 0

VARIABLE unseen

historyVars == <<vars, unseen>>

HistoryInit == Init /\ unseen = estop

HistoryNext ==
    \/ PollFace /\ unseen' = (unseen \/ (estop' /\ ~estop))
    \/ TakeFrame /\ unseen' = (unseen /\ ~estop)
    \/ Restart /\ unseen' = estop'
    \/ (MovePins \/ LeaveOrDie) /\ UNCHANGED unseen

HistorySpec == HistoryInit /\ [][HistoryNext]_historyVars /\ Fairness

(* The e-stop is a level, which a reader slower than the polls could miss. *)
(* It is not missed, however short the press (face.rs:43-48, DESIGN.md     *)
(* section 1.4): a stop lasts two settle periods at the least, one for the *)
(* contact to settle back and one for the decision, and a frame falls into *)
(* that even when it comes at nearly twice its 25 ms.                      *)
EveryStopIsSeen == [][PollFace /\ estop /\ ~estop' => ~unseen]_historyVars

=============================================================================
