----------------------------- MODULE MCRigMqtt ------------------------------
(***************************************************************************)
(* RigMqtt on a small instance.  The history keeps whether the connection  *)
(* was up, with on_connect over, when the signal came, and nothing has     *)
(* failed since (calm).                                                    *)
(***************************************************************************)
EXTENDS RigMqtt

(* A statistic that changes, and a fact that does not.                     *)
MCTopics == {"load", "board"}
MCValues == [load |-> {1, 2}, board |-> {1}]

VARIABLE calm

historyVars == <<vars, calm>>

HistoryInit == Init /\ calm = FALSE

HistoryNext ==
    /\ Next
    /\ calm' = IF main # "closing" /\ main' = "closing"
                 THEN net = "looping" /\ link
                 ELSE calm /\ faults' = faults /\ main' # "killed"

HistorySpec == HistoryInit /\ [][HistoryNext]_historyVars /\ Fairness

-----------------------------------------------------------------------------

(* A connection whose on_connect is over has every subscription, made      *)
(* before, during or after it, or it is on its way (rig_mqtt.py:128-131,   *)
(* 210-212).                                                               *)
NoSubscriptionMissed ==
    net = "looping" /\ link /\ listening /\ main \in {"working", "sending"} =>
      subscribed \/ \E i \in DOMAIN wire : wire[i] = Subscribe

(* A stop ends: neither a broker that is down nor a network thread that    *)
(* died keeps the daemon in its handler (rig_mqtt.py:237-243).             *)
SignalEnds == main = "closing" ~> Ended

(* A daemon stopped while it was connected has said that it left by the    *)
(* time its connection is gone, and no will speaks for it; one hurried out *)
(* of its handler by a second signal leaves that to its will at worst, and *)
(* is taken for connected no longer (rig_mqtt.py:189-198, 228-243).        *)
CalmStopIsTold ==
    calm /\ ~link =>
      /\ main = "exited"  => health = "disconnected"
      /\ main = "hurried" => health \in {"disconnected", "gone"}

(* However often it connects, a daemon whose threads live has what it      *)
(* keeps on the broker again and again: facts by the replay, statistics    *)
(* by the next round when a replay overtakes them (rig_mqtt.py:119-127).   *)
TreeCatchesUp ==
    <>[](Working /\ net # "dead") =>
      \A t \in Topics : []<>(retained[t] # None /\ shown[t] = retained[t])

(* Always usable (rig_mqtt.py:109-110): the network thread outlives every  *)
(* connect while the daemon runs.                                          *)
AlwaysUsable == net = "dead" => Ended

=============================================================================
