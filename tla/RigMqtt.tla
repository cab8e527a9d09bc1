------------------------------ MODULE RigMqtt -------------------------------
(***************************************************************************)
(* The Python daemons' telemetry client (stem/rig_mqtt.py).  Two threads   *)
(* share it: the daemon's own, which publishes its statistics round after  *)
(* round, subscribes and takes SIGTERM in a handler on top of whatever it  *)
(* was doing, and paho's network thread, which runs on_connect.  They      *)
(* share the table of retained values, the list of subscriptions and       *)
(* paho's queue of outgoing packets.                                       *)
(*                                                                         *)
(* paho, the connection and the broker are external, as the code uses      *)
(* them: a publish without a socket is dropped, what waits is dropped with *)
(* its socket, and an exception in on_connect ends the network thread.     *)
(***************************************************************************)
EXTENDS Naturals, Sequences, FiniteSets

CONSTANTS
    Topics,     \* the topics published
    Facts,      \* those published once, at the start; the others every round
    Values,     \* what each is published as
    MaxFaults,  \* bound: lost connections, broker restarts, refusals
    QueueRoom,  \* bound: no new statistic while so many packets are queued
    None

ASSUME RigMqttAssumption ==
    /\ IsFiniteSet(Topics) /\ Facts \subseteq Topics
    /\ \A t \in Topics : None \notin Values[t]
    /\ MaxFaults \in Nat /\ QueueRoom \in Nat \ {0}

VARIABLES
    main,        \* what the daemon's thread is doing
    pending,     \* the message it is about to hand to paho, or None
    retained,    \* Telemetry.retained: a value of each topic, or None
    listening,   \* Telemetry.subscriptions holds the daemon's one topic
    net,         \* what the network thread is doing
    replay,      \* on_connect's walk of retained
    wire,        \* packets on their way to the broker, oldest first
    link,        \* there is a connection, and the broker holds its will
    shown,       \* the broker's retained values
    health,      \* and its health/<service>
    subscribed,  \* it forwards the subscribed topic on this connection
    faults       \* faults so far

mainVars == <<main, pending, listening>>
netVars == <<net, replay>>
brokerVars == <<shown, health, subscribed>>
vars == <<mainVars, retained, netVars, wire, link, brokerVars, faults>>

Message(t, v) == [kind |-> "publish", topic |-> t, value |-> v]
Health(word)  == [kind |-> "health", word |-> word]
Subscribe     == [kind |-> "subscribe"]
Disconnect    == [kind |-> "disconnect"]

Ended == main \in {"exited", "hurried", "killed"}

Working == main \in {"working", "sending", "subscribing"}

(* The topics retained so far: the keys of the table.                      *)
Keys == {t \in Topics : retained[t] # None}

NoReplay == [todo |-> {}, size |-> 0, item |-> None]

Init ==
    /\ main = "working" /\ pending = None /\ listening = FALSE
    /\ retained = [t \in Topics |-> None]
    /\ net = "down" /\ replay = NoReplay
    /\ wire = <<>> /\ link = FALSE
    /\ shown = [t \in Topics |-> None]
    /\ health = "none" /\ subscribed = FALSE
    /\ faults = 0

(* paho's publish, subscribe and disconnect: queued when there is a        *)
(* socket; while it connects that is a race with CONNECT.                  *)
Queue(packet) ==
    \/ /\ link
       /\ wire' = Append(wire, packet)
    \/ /\ ~link \/ net = "connecting"
       /\ UNCHANGED wire

-----------------------------------------------------------------------------
(* The daemon's thread.                                                    *)

MainGoes(from, to) ==
    /\ main = from /\ main' = to
    /\ UNCHANGED <<netVars, link, brokerVars, faults>>

(* _publish records a retained value ...                                   *)
Keep(t) ==
    /\ MainGoes("working", "sending")
    /\ Len(wire) < QueueRoom
    /\ t \in Facts => retained[t] = None
    /\ \E v \in Values[t] :
         /\ retained' = [retained EXCEPT ![t] = v]
         /\ pending' = Message(t, v)
    /\ UNCHANGED <<listening, wire>>

(* ... and then hands it to paho.                                          *)
Send ==
    /\ MainGoes("sending", "working")
    /\ Queue(pending)
    /\ pending' = None
    /\ UNCHANGED <<retained, listening>>

(* subscribe: the list first ...                                           *)
AddSubscription ==
    /\ MainGoes("working", "subscribing")
    /\ ~listening /\ listening' = TRUE
    /\ UNCHANGED <<pending, retained, wire>>

(* ... then, connected already, the broker.                                *)
AskSubscription ==
    /\ MainGoes("subscribing", "working")
    /\ IF net \in {"replaying", "looping"} THEN Queue(Subscribe) ELSE UNCHANGED wire
    /\ UNCHANGED <<pending, listening, retained>>

(* SIGTERM or SIGINT, between any two steps: close marks itself begun ...  *)
Signal ==
    /\ Working
    /\ MainGoes(main, "closing")
    /\ pending' = None
    /\ UNCHANGED <<wire, listening, retained>>

(* ... and says goodbye.                                                   *)
SayGoodbye ==
    /\ MainGoes("closing", "waiting")
    /\ Queue(Health("disconnected"))
    /\ UNCHANGED <<pending, listening, retained>>

(* Mutant of Waited: no timeout, and nothing raised.                       *)
WaitedForever == link /\ \A i \in DOMAIN wire : wire[i].kind # "health"

(* wait_for_publish: written, two seconds over, or never queued.           *)
Waited == TRUE

(* Mutant of Hangup: the process just leaves.                              *)
HangupSilently ==
    /\ Waited
    /\ MainGoes("waiting", "stopping")
    /\ UNCHANGED <<wire, pending, listening, retained>>

Hangup ==
    /\ Waited
    /\ MainGoes("waiting", "stopping")
    /\ Queue(Disconnect)
    /\ UNCHANGED <<pending, listening, retained>>

(* What ends with the process.                                             *)
MemoryGone ==
    /\ pending' = None /\ listening' = FALSE
    /\ retained' = [t \in Topics |-> None]
    /\ net' = "dead" /\ replay' = NoReplay
    /\ UNCHANGED <<link, brokerVars, faults>>

(* loop_stop joins the network thread, which ends between two callbacks,   *)
(* once nothing waits to be written; then os._exit.                        *)
Exit ==
    /\ main = "stopping" /\ main' = "exited"
    /\ net # "replaying"
    /\ MemoryGone
    /\ UNCHANGED wire

(* A signal on top of the handler: close, begun already, returns at once,  *)
(* and os._exit takes what paho had not written with it.                   *)
SignalAgain ==
    /\ main \in {"closing", "waiting", "stopping"} /\ main' = "hurried"
    /\ MemoryGone
    /\ \E n \in 0 .. Len(wire) : wire' = SubSeq(wire, 1, n)

(* An uncaught exception, a kill, a power cut.                             *)
Die ==
    /\ ~Ended /\ main' = "killed"
    /\ MemoryGone
    /\ UNCHANGED wire

-----------------------------------------------------------------------------
(* The network thread.                                                     *)

NetGoes(from, to) ==
    /\ net = from /\ net' = to
    /\ UNCHANGED <<mainVars, retained>>

Fault == faults < MaxFaults /\ faults' = faults + 1

(* A connect, unless the daemon has hung up.                               *)
Dial ==
    /\ NetGoes("down", "connecting")
    /\ main # "stopping"
    /\ link' = TRUE /\ wire' = <<>>
    /\ subscribed' = FALSE
    /\ UNCHANGED <<replay, shown, health, faults>>

(* on_connect, for a refusal.                                              *)
OnConnectRefused ==
    /\ NetGoes("connecting", "down")
    /\ Fault
    /\ link' = FALSE /\ wire' = <<>>
    /\ UNCHANGED <<replay, brokerVars>>

(* Mutant of Replayed: no entry is walked.                                 *)
ReplayedNone == {}

Replayed == Keys

(* on_connect: connected, and the walk of the table begins.                *)
OnConnect ==
    /\ NetGoes("connecting", "replaying")
    /\ Queue(Health("connected"))
    /\ replay' = [todo |-> Replayed, size |-> Cardinality(Keys), item |-> None]
    /\ UNCHANGED <<link, brokerVars, faults>>

(* The walk takes one entry ...                                            *)
ReplayTake ==
    /\ NetGoes("replaying", "replaying")
    /\ replay.item = None /\ replay.size = Cardinality(Keys)
    /\ \E t \in replay.todo :
         replay' = [replay EXCEPT !.todo = @ \ {t}, !.item = Message(t, retained[t])]
    /\ UNCHANGED <<wire, link, brokerVars, faults>>

(* ... and publishes it as it was taken.                                   *)
ReplaySend ==
    /\ NetGoes("replaying", "replaying")
    /\ replay.item # None
    /\ Queue(replay.item)
    /\ replay' = [replay EXCEPT !.item = None]
    /\ UNCHANGED <<link, brokerVars, faults>>

(* A table that grew under the walk raises, and paho's thread ends.        *)
ReplayRaises ==
    /\ NetGoes("replaying", "dead")
    /\ replay.item = None /\ replay.size # Cardinality(Keys)
    /\ replay' = NoReplay
    /\ UNCHANGED <<wire, link, brokerVars, faults>>

(* Mutant of Renewed: a connection does not renew the subscriptions.       *)
RenewedNot == UNCHANGED wire

Renewed == IF listening THEN Queue(Subscribe) ELSE UNCHANGED wire

(* The walk is over: the subscriptions, and back to paho's loop.           *)
ReplayEnds ==
    /\ NetGoes("replaying", "looping")
    /\ replay.item = None /\ replay.size = Cardinality(Keys) /\ replay.todo = {}
    /\ Renewed
    /\ replay' = NoReplay
    /\ UNCHANGED <<link, brokerVars, faults>>

(* on_disconnect.                                                          *)
Notice ==
    /\ \E doing \in {"connecting", "looping"} : NetGoes(doing, "down")
    /\ ~link
    /\ UNCHANGED <<replay, wire, link, brokerVars, faults>>

-----------------------------------------------------------------------------
(* The connection and the broker.                                          *)

Deliver ==
    /\ link /\ wire # <<>>
    /\ LET packet == Head(wire)
       IN  /\ wire' = IF packet = Disconnect THEN <<>> ELSE Tail(wire)
           /\ shown' = IF packet.kind = "publish"
                         THEN [shown EXCEPT ![packet.topic] = packet.value]
                         ELSE shown
           /\ health' = IF packet.kind = "health" THEN packet.word ELSE health
           /\ subscribed' = (subscribed \/ packet = Subscribe)
           /\ link' = (packet # Disconnect)
    /\ UNCHANGED <<mainVars, retained, netVars, faults>>

LinkEnds ==
    /\ link' = FALSE /\ wire' = <<>>
    /\ subscribed' = FALSE
    /\ UNCHANGED <<mainVars, retained, netVars>>

(* The will: the connection is lost, or its client is.  What a client      *)
(* wrote before os._exit arrives first; one that sends no pings has none.  *)
Will ==
    /\ link
    /\ LinkEnds
    /\ health' = "gone"
    /\ \/ Fault
       \/ /\ net = "dead" /\ (main \in {"exited", "hurried"} => wire = <<>>)
          /\ UNCHANGED faults
    /\ UNCHANGED shown

(* The broker starts over, and keeps nothing.                              *)
BrokerRestarts ==
    /\ Fault
    /\ LinkEnds
    /\ health' = "none"
    /\ shown' = [t \in Topics |-> None]

-----------------------------------------------------------------------------

Daemon ==
    \/ \E t \in Topics : Keep(t)
    \/ Send \/ AddSubscription \/ AskSubscription

Close == Signal \/ SayGoodbye \/ Hangup \/ Exit \/ SignalAgain \/ Die

OnConnectRuns == OnConnect \/ ReplayTake \/ ReplaySend \/ ReplayRaises \/ ReplayEnds

Next ==
    \/ Daemon \/ Close
    \/ Dial \/ OnConnectRefused \/ OnConnectRuns \/ Notice
    \/ Deliver \/ Will \/ BrokerRestarts

(* Both threads run, statistics are published round after round, and a     *)
(* broker that can be reached reads what arrives and counts keepalives.    *)
Fairness ==
    /\ \A t \in Topics : SF_vars(Keep(t))
    /\ WF_vars(Send \/ AskSubscription \/ SayGoodbye \/ Hangup \/ Exit)
    /\ WF_vars(Dial \/ OnConnectRuns \/ Notice)
    /\ WF_vars(Deliver) /\ WF_vars(Will)

Spec == Init /\ [][Next]_vars /\ Fairness

=============================================================================
