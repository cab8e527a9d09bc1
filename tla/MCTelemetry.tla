---------------------------- MODULE MCTelemetry -----------------------------
(***************************************************************************)
(* Telemetry on a small instance, judged by what its subscribers see.      *)
(***************************************************************************)
EXTENDS Telemetry, Folds, Functions

VARIABLE newest   \* the newest value of each topic the broker ever held

historyVars == <<vars, newest>>

HistoryInit == Init /\ newest = [t \in Topics |-> 0]

HistoryNext ==
    /\ Next
    /\ newest' = [t \in Topics |->
                    IF shown'[t] # shown[t] /\ shown'[t] # 0 THEN shown'[t] ELSE newest[t]]

HistorySpec == HistoryInit /\ [][HistoryNext]_historyVars /\ Fairness

Promise == INSTANCE LastValue

(* The packets under it, with room for what these strings need and less.  *)
Packets == INSTANCE MqttPacket WITH TooLong <- <<>>

Bytes(n) == [i \in 1 .. n |-> 97]

(* A remaining length as its reader takes it apart.                        *)
Decoded(length) ==
    LET place == [i \in DOMAIN length |-> (length[i] % 128) * 128 ^ (i - 1)]
    IN  FoldFunction(+, 0, place)

(* The remaining length reads back as what was written, at every number of *)
(* bytes it takes (stem/src/lib.rs:189-204).                               *)
ASSUME RemainingReadsBack ==
    \A n \in 0 .. 300 \cup 16380 .. 16390 \cup 2097150 .. 2097154 :
        LET length == Packets!Remaining[n]
        IN  /\ Decoded(length) = n
            /\ \A i \in DOMAIN length : (length[i] >= 128) <=> (i < Len(length))

(* A PUBLISH that fits is its topic and payload and nothing more, and is   *)
(* refused exactly when it does not fit (stem/src/lib.rs:114-138).         *)
ASSUME PublishIsWhole ==
    \A a \in 1 .. 3, b \in 0 .. 3, n \in 0 .. 3 \cup 118 .. 132 :
        LET levels == IF b = 0 THEN <<Bytes(a)>> ELSE <<Bytes(a), Bytes(b)>>
            body   == Packets!StringLen(levels) + n
            total  == 1 + Len(Packets!Remaining[body]) + body
            packet == Packets!Publish(levels, Bytes(n), TRUE, total)
        IN  /\ Packets!Publish(levels, Bytes(n), TRUE, total - 1) = <<>>
            /\ Len(packet) = total /\ packet[1] = 49
            /\ packet[total - body + 1] * 256 + packet[total - body + 2]
                 = body - n - 2

(* A CONNECT's header counts every one of its fields, and what it hands    *)
(* the broker first is a will (stem/src/lib.rs:95-117).                    *)
ASSUME ConnectIsWhole ==
    \A service \in 1 .. 24, room \in {40, 512} :
        LET packet == Packets!Connect(Bytes(service), Bytes(4), Bytes(6), Bytes(4), 10, room)
        IN  /\ packet # <<>> => packet[2] = Len(packet) - 2 /\ Len(packet) <= room
            /\ room = 512 => packet[10] = 38
            /\ (packet = <<>>) <=> room = 40 /\ service > 5

-----------------------------------------------------------------------------

(* Retained state is a promise (telemetry.rs:195-199): no replay, and no   *)
(* connection given up with packets on their way, shows an older value     *)
(* after a newer one.                                                      *)
NeverOlder == Promise!Spec

(* However often connections and brokers are lost, a client that keeps     *)
(* running says in the end that it is connected, with the last value of    *)
(* every topic the queue had room for (telemetry.rs:195-199, 289-292).     *)
TreeCatchesUp ==
    <>[](main = "running") =>
      <>[](/\ health = "connected"
           /\ \A t \in Topics \ Oversized : shown[t] = accepted[t])

(* The goodbye cannot overtake what was queued before it (telemetry.rs:    *)
(* 66-67): a subscriber that reads it has the last value of every topic.   *)
GoodbyeComesLast ==
    health = "disconnected" =>
      \A t \in Topics \ Oversized : shown[t] = accepted[t]

(* A goodbye that was said is not overwritten by the will, unless the      *)
(* connection died before its DISCONNECT got through (telemetry.rs:        *)
(* 295-298).                                                               *)
GoodbyeHolds ==
    [][said /\ health = "disconnected" /\ health' = "gone" => ~path]_vars

(* A dead process says so without anything else having to notice           *)
(* (telemetry.rs:3-6).                                                     *)
DeathIsTold == main = "exited" ~> [](health # "connected")

(* A slow link costs nothing (telemetry.rs:264-266): a session ends only   *)
(* on a connection that does not carry packets or that the broker closed.  *)
NoFalseAlarm ==
    [][thread = "up" /\ thread' = "down" => ~(path /\ session)]_vars

=============================================================================
