----------------------------- MODULE Telemetry ------------------------------
(***************************************************************************)
(* The brain's telemetry client (cortex/src/telemetry.rs): publishers that *)
(* never wait, a bounded queue, a thread that holds the connection and     *)
(* replays what it retained on every connect, and the goodbye a shutdown   *)
(* waits for.  The values of a topic are numbered as they are published;   *)
(* every message of this code is retained.  The connection and the broker  *)
(* at its other end are external.                                          *)
(***************************************************************************)
EXTENDS Naturals, Sequences, SequencesExt, FiniteSets

CONSTANTS
    Topics,      \* the topics published, "health" not among them
    Oversized,   \* those whose packet does not fit MQTT_PACKET_MAX
    QueueDepth,  \* MQTT_QUEUE_DEPTH, 64 in the code
    RetryMax,    \* MQTT_RETRY_MAX_S, 30 in the code
    MaxValue,    \* bound: values of a topic
    MaxFaults,   \* bound: broken paths, broker restarts, failed connects
    SocketRoom   \* bound: packets on their way to the broker

ASSUME TelemetryAssumption ==
    /\ IsFiniteSet(Topics) /\ "health" \notin Topics /\ Oversized \subseteq Topics
    /\ QueueDepth \in Nat \ {0} /\ RetryMax \in Nat \ {0}
    /\ MaxValue \in Nat /\ MaxFaults \in Nat
    /\ SocketRoom \in Nat /\ SocketRoom > Cardinality(Topics) + 1

VARIABLES
    published,   \* the newest value of each topic its caller published
    accepted,    \* the newest one the queue had room for
    queue,       \* the commands waiting for the thread
    main,        \* the shutdown: running, asking, waiting or exited
    said,        \* the goodbye is in the socket
    thread,      \* the telemetry thread: down, up (in a session) or ended
    retained,    \* what it replays: a value of each topic, 0 for none
    backoff,     \* seconds to the next connect
    unanswered,  \* pings since something was read
    wire,        \* packets on the last connection, oldest first
    path,        \* that connection carries packets
    answer,      \* an answer to a ping waits to be read
    session,     \* the broker holds that connection, and its will
    shown,       \* the broker's retained values
    health,      \* and its health/brain
    faults       \* faults so far

clientVars == <<queue, main, said, thread, retained, backoff, unanswered>>
brokerVars == <<session, shown, health>>
vars == <<published, accepted, clientVars, wire, path, answer, brokerVars, faults>>

Message(t, v) == [kind |-> "publish", topic |-> t, value |-> v]
Health(word)  == [kind |-> "health", word |-> word]
Farewell      == [kind |-> "farewell"]
Disconnect    == [kind |-> "disconnect"]
Ping          == [kind |-> "ping"]

Init ==
    /\ published = [t \in Topics |-> 0]
    /\ accepted = published
    /\ queue = <<>>
    /\ main = "running"
    /\ said = FALSE
    /\ thread = "down"
    /\ retained = [t \in Topics |-> 0]
    /\ backoff = 1
    /\ unanswered = 0
    /\ wire = <<>>
    /\ path = FALSE
    /\ answer = FALSE
    /\ session = FALSE
    /\ shown = [t \in Topics |-> 0]
    /\ health = "none"
    /\ faults = 0

-----------------------------------------------------------------------------
(* The callers.  They all run on the frame loop's thread, which a shutdown *)
(* holds until the exit, so nothing is published after the goodbye.        *)

Full == Len(queue) >= QueueDepth

(* Publisher::send: a full queue drops the message.                        *)
Publish(t) ==
    /\ main = "running" /\ published[t] < MaxValue
    /\ published' = [published EXCEPT ![t] = @ + 1]
    /\ IF Full
         THEN UNCHANGED <<queue, accepted>>
         ELSE /\ queue' = Append(queue, Message(t, published'[t]))
              /\ accepted' = [accepted EXCEPT ![t] = published'[t]]
    /\ UNCHANGED <<main, said, thread, retained, backoff, unanswered,
                   wire, path, answer, brokerVars, faults>>

StepMain(from, to) ==
    /\ main = from /\ main' = to
    /\ UNCHANGED <<published, accepted, said, retained, backoff, unanswered,
                   wire, path, answer, brokerVars, faults>>

(* The frame loop was asked to stop and calls Farewell::say.               *)
Stop == StepMain("running", "asking") /\ UNCHANGED <<queue, thread>>

(* Mutant of Ask: the goodbye goes ahead of what is queued.                *)
AskFirst ==
    /\ StepMain("asking", "waiting")
    /\ ~Full
    /\ queue' = <<Farewell>> \o queue
    /\ UNCHANGED thread

(* Farewell::ask, once the queue has room; until then it asks again.       *)
Ask ==
    /\ StepMain("asking", "waiting")
    /\ ~Full
    /\ queue' = Append(queue, Farewell)
    /\ UNCHANGED thread

(* The goodbye was said, or the time for it is over, in either loop.       *)
Exit ==
    /\ main \in {"asking", "waiting"}
    /\ StepMain(main, "exited")
    /\ thread' = "ended"
    /\ UNCHANGED queue

(* A kill, a panic, a power cut: from outside, the same end.               *)
Die ==
    /\ StepMain("running", "exited")
    /\ thread' = "ended"
    /\ UNCHANGED queue

-----------------------------------------------------------------------------
(* The thread.                                                             *)

Fault == faults < MaxFaults /\ faults' = faults + 1

(* Writes: into a connection that carries packets they succeed, waiting    *)
(* for room; into a dead one they succeed while its buffer has room, and   *)
(* fail when it has none or the other end is known to be gone.             *)
Room(n) == Len(wire) + n <= SocketRoom

CanFail == ~path

(* A session that returned an error: sleep, and the next wait is longer.   *)
Fall ==
    /\ thread' = "down"
    /\ backoff' = Min({2 * backoff, RetryMax})

(* The goodbye left the queue and was not said: the process exits within   *)
(* MQTT_FAREWELL_MS (500 ms) of asking, the thread sleeps a second first.  *)
FarewellLost ==
    main = "waiting" /\ ~said /\ ~\E i \in DOMAIN queue : queue[i] = Farewell

(* Every retained topic, in an order of no consequence.                    *)
Replay ==
    SetToSeq({Message(t, retained[t]) : t \in {u \in Topics : retained[u] # 0}})

(* The connection is made and accepted: what session writes until it pumps *)
(* the queue.  A connection the broker still held under this client ID is  *)
(* taken over, and its will goes out.                                      *)
Connect ==
    /\ thread = "down" /\ ~FarewellLost
    /\ thread' = "up"
    /\ backoff' = 1
    /\ unanswered' = 0
    /\ answer' = FALSE
    /\ session' = TRUE
    /\ path' = TRUE
    /\ wire' = <<Health("connected")>> \o Replay
    /\ health' = IF session THEN "gone" ELSE health
    /\ UNCHANGED <<published, accepted, queue, main, said, retained, shown, faults>>

(* It is not: no answer, or a refusal, or a broker that accepted it and    *)
(* was not heard.                                                          *)
ConnectFails ==
    /\ thread = "down" /\ ~FarewellLost
    /\ Fault
    /\ Fall
    /\ \/ UNCHANGED <<wire, path, session, health>>
       \/ /\ session' = TRUE /\ path' \in BOOLEAN
          /\ wire' = <<>>
          /\ health' = IF session THEN "gone" ELSE health
    /\ UNCHANGED <<published, accepted, queue, main, said, retained, unanswered,
                   answer, shown>>

(* What is taken from the queue in a session.                              *)
Takes(kind) ==
    /\ thread = "up" /\ queue # <<>> /\ Head(queue).kind = kind
    /\ queue' = Tail(queue)
    /\ UNCHANGED <<published, accepted, main, path, answer, brokerVars, faults>>

Writes(packets) ==
    /\ Room(Len(packets))
    /\ wire' = wire \o packets
    /\ UNCHANGED <<thread, backoff>>

WriteFails ==
    /\ CanFail
    /\ Fall
    /\ UNCHANGED wire

(* Mutants of Retain: after the write, so not when it failed; only once.   *)
RetainWritten(message) ==
    retained' = [retained EXCEPT ![message.topic] =
                   IF thread' = "up" THEN message.value ELSE @]

RetainFirst(message) ==
    retained' = [retained EXCEPT ![message.topic] =
                   IF @ = 0 THEN message.value ELSE @]

Retain(message) ==
    retained' = [retained EXCEPT ![message.topic] = message.value]

PumpPublish ==
    /\ Takes("publish")
    /\ LET message == Head(queue)
       IN  IF message.topic \in Oversized
             THEN UNCHANGED <<retained, wire, thread, backoff>>
             ELSE /\ Writes(<<message>>) \/ WriteFails
                  /\ Retain(message)
    /\ UNCHANGED <<said, unanswered>>

(* Mutants of SayGoodbye: the connection is just closed; the DISCONNECT    *)
(* goes alone.                                                             *)
SayGoodbyeOnly == <<Health("disconnected")>>
SayNoGoodbye == <<Disconnect>>

SayGoodbye == <<Health("disconnected"), Disconnect>>

(* The goodbye and a clean DISCONNECT, written one after the other: the    *)
(* second can fail when the first did not.                                 *)
PumpFarewell ==
    /\ Takes("farewell")
    /\ \/ /\ Room(2)
          /\ wire' = wire \o SayGoodbye
          /\ said' = TRUE
          /\ thread' = "ended"
          /\ UNCHANGED backoff
       \/ WriteFails /\ UNCHANGED said
       \/ /\ CanFail /\ Room(1)
          /\ wire' = Append(wire, Head(SayGoodbye))
          /\ Fall
          /\ UNCHANGED said
    /\ UNCHANGED <<retained, unanswered>>

(* Mutant of Alarm: one unanswered ping is enough.                         *)
AlarmAtOnce(missed) == missed >= 1

Alarm(missed) == missed >= 2

(* Half a keepalive without a command: a ping, and the answer to the one   *)
(* before it is read.  A connection that carries packets has answered by   *)
(* then.  A broker that closed the connection is noticed.                  *)
Tick ==
    /\ thread = "up" /\ queue = <<>>
    /\ path /\ session => wire = <<>>
    /\ \/ WriteFails /\ UNCHANGED <<unanswered, answer>>
       \/ /\ Room(1)
          /\ wire' = Append(wire, Ping)
          /\ answer' = FALSE
          /\ unanswered' = IF answer THEN 0 ELSE unanswered + 1
          /\ IF Alarm(unanswered') THEN Fall ELSE UNCHANGED <<thread, backoff>>
    /\ UNCHANGED <<published, accepted, queue, main, said, retained, path,
                   brokerVars, faults>>

-----------------------------------------------------------------------------
(* The connection and the broker.                                          *)

(* The broker reads the oldest packet.                                     *)
Deliver ==
    /\ path /\ session /\ wire # <<>>
    /\ wire' = Tail(wire)
    /\ LET packet == Head(wire)
       IN  /\ shown' = IF packet.kind = "publish"
                         THEN [shown EXCEPT ![packet.topic] = packet.value]
                         ELSE shown
           /\ health' = IF packet.kind = "health" THEN packet.word ELSE health
           /\ session' = (packet.kind # "disconnect")
           /\ answer' = (answer \/ (packet.kind = "ping" /\ thread = "up"))
    /\ UNCHANGED <<published, accepted, clientVars, path, faults>>

(* It sees the connection end without a DISCONNECT, or hears nothing for   *)
(* a keepalive and a half: the will.                                       *)
Will ==
    /\ session
    /\ path => thread # "up" /\ wire = <<>>
    /\ session' = FALSE /\ path' = FALSE
    /\ health' = "gone"
    /\ UNCHANGED <<published, accepted, clientVars, wire, answer, shown, faults>>

(* The broker starts over, and keeps nothing.                              *)
BrokerRestarts ==
    /\ Fault
    /\ session' = FALSE /\ path' = FALSE
    /\ shown' = [t \in Topics |-> 0]
    /\ health' = "none"
    /\ UNCHANGED <<published, accepted, clientVars, wire, answer>>

PathDies ==
    /\ path /\ Fault
    /\ path' = FALSE
    /\ UNCHANGED <<published, accepted, clientVars, wire, answer, brokerVars>>

(* The link comes back before either end gave the connection up, or before *)
(* the broker did: what was on its way still arrives.                      *)
PathHeals ==
    /\ ~path /\ session
    /\ path' = TRUE
    /\ UNCHANGED <<published, accepted, clientVars, wire, answer, brokerVars, faults>>

-----------------------------------------------------------------------------

Shutdown == Stop \/ Ask \/ Exit \/ Die

Pump == PumpPublish \/ PumpFarewell

Next ==
    \/ \E t \in Topics : Publish(t)
    \/ Shutdown
    \/ Connect \/ ConnectFails \/ Pump \/ Tick
    \/ Deliver \/ Will \/ BrokerRestarts \/ PathDies \/ PathHeals

(* The thread runs, a broker that can be reached reads what arrives and    *)
(* counts its keepalives.                                                  *)
Fairness ==
    /\ WF_vars(Connect) /\ WF_vars(Pump) /\ WF_vars(Tick)
    /\ WF_vars(Deliver) /\ WF_vars(Will)

Spec == Init /\ [][Next]_vars /\ Fairness

=============================================================================
