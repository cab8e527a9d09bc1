--------------------------- MODULE RigMqttProofs ----------------------------
(***************************************************************************)
(* The Python telemetry client's safety, for every set of topics and       *)
(* values and any number of faults: its subscriptions survive every        *)
(* connect, and a daemon stopped in calm is known to be gone, by its       *)
(* goodbye unless a second signal hurried it out.  The second rests on     *)
(* what lies on the wire by then: the goodbye with no other word of the    *)
(* daemon's health behind it, the DISCONNECT last (Calm).                  *)
(***************************************************************************)
EXTENDS MCRigMqtt, FiniteSetTheorems, TLAPS

Kept == {None} \cup UNION {Values[t] : t \in Topics}

Report == [kind : {"publish"}, topic : Topics, value : Kept]

Packet == Report \cup {Health("connected"), Health("disconnected"), Subscribe, Disconnect}

TypeInv ==
    /\ main \in {"working", "sending", "subscribing", "closing", "waiting", "stopping",
                "exited", "hurried", "killed"}
    /\ net \in {"down", "connecting", "replaying", "looping", "dead"}
    /\ main = "sending" => pending \in Report
    /\ retained \in [Topics -> Kept]
    /\ replay \in [todo : SUBSET Topics, size : Nat, item : Report \cup {None}]
    /\ wire \in Seq(Packet)
    /\ link \in BOOLEAN /\ listening \in BOOLEAN /\ subscribed \in BOOLEAN /\ calm \in BOOLEAN
    /\ faults \in Nat

(* The DISCONNECT is written when the daemon hangs up, not before.         *)
HangupIsLate ==
    main \in {"working", "sending", "subscribing", "closing", "waiting"} =>
      \A i \in 1 .. Len(wire) : wire[i] # Disconnect

(* The broker knows the daemon has left, or it is the last thing on its    *)
(* way that says how the daemon is.                                        *)
Told ==
    \/ /\ health = "disconnected"
       /\ \A i \in 1 .. Len(wire) : wire[i].kind # "health"
    \/ \E i \in 1 .. Len(wire) :
         /\ wire[i] = Health("disconnected")
         /\ \A j \in 1 .. Len(wire) : j > i => wire[j].kind # "health"

HungUp == \E i \in 1 .. Len(wire) : wire[i] = Disconnect

Calm ==
    /\ main \in {"closing", "waiting", "stopping", "exited", "hurried"}
    /\ main \in {"closing", "waiting"} => link
    /\ main \in {"closing", "waiting", "stopping"} /\ link => net = "looping"
    /\ main = "stopping" => net \in {"looping", "down"}
    /\ main \in {"exited", "hurried"} => net = "dead"
    /\ main \in {"stopping", "exited"} /\ link => HungUp
    /\ \A i \in 1 .. Len(wire) : wire[i] = Disconnect => i = Len(wire)
    /\ link /\ (main = "waiting" \/ HungUp) => Told
    /\ ~link => \/ health = "disconnected"
                \/ main = "hurried" /\ health = "gone"

IInv == TypeInv /\ NoSubscriptionMissed /\ HangupIsLate /\ (calm => Calm)

-----------------------------------------------------------------------------

LEMMA Kinds ==
    /\ \A m \in Report : m.kind = "publish" /\ m.topic \in Topics /\ m.value \in Kept
    /\ \A t \in Topics, v \in Kept : Message(t, v) \in Report
    /\ Subscribe.kind = "subscribe" /\ Disconnect.kind = "disconnect"
    /\ \A word : Health(word).kind = "health" /\ Health(word).word = word
BY DEF Report, Message, Subscribe, Disconnect, Health

LEMMA Appended ==
    ASSUME NEW S, NEW s \in Seq(S), NEW e \in S
    PROVE  /\ Append(s, e) \in Seq(S)
           /\ Len(Append(s, e)) = Len(s) + 1 /\ Len(s) \in Nat
           /\ \A i \in 1 .. Len(s) : Append(s, e)[i] = s[i]
           /\ Append(s, e)[Len(s) + 1] = e
OBVIOUS

LEMMA Shifted ==
    ASSUME NEW S, NEW s \in Seq(S), s # <<>>
    PROVE  /\ Tail(s) \in Seq(S) /\ Head(s) = s[1] /\ Head(s) \in S
           /\ Len(Tail(s)) = Len(s) - 1 /\ Len(s) \in Nat /\ Len(s) > 0
           /\ \A i \in 1 .. Len(Tail(s)) : i + 1 \in 1 .. Len(s) /\ Tail(s)[i] = s[i + 1]
           /\ \A i \in 1 .. Len(s) :
                  i # 1 => i - 1 \in 1 .. Len(Tail(s)) /\ Tail(s)[i - 1] = s[i]
OBVIOUS

(* What an abrupt end leaves of the wire is a prefix of it.                *)
LEMMA Cut ==
    ASSUME NEW S, NEW s \in Seq(S), NEW n \in 0 .. Len(s)
    PROVE  /\ SubSeq(s, 1, n) \in Seq(S)
           /\ Len(SubSeq(s, 1, n)) = n /\ Len(s) \in Nat
           /\ \A i \in 1 .. n : i \in 1 .. Len(s) /\ SubSeq(s, 1, n)[i] = s[i]
OBVIOUS

(* What is handed to paho goes behind the others, or nowhere; with a       *)
(* connection that is not being made it goes out.                          *)
LEMMA Queued ==
    ASSUME TypeInv, NEW p \in Packet, Queue(p)
    PROVE  /\ wire' \in Seq(Packet)
           /\ wire' = wire \/ wire' = Append(wire, p)
           /\ link /\ net # "connecting" => wire' = Append(wire, p)
           /\ \A q : (\E i \in 1 .. Len(wire) : wire[i] = q)
                       => \E i \in 1 .. Len(wire') : wire'[i] = q
           /\ wire' = Append(wire, p) => \E i \in 1 .. Len(wire') : wire'[i] = p
           /\ (\A i \in 1 .. Len(wire) : wire[i] # Disconnect) /\ p # Disconnect
                => \A i \in 1 .. Len(wire') : wire'[i] # Disconnect
<1>1. wire \in Seq(Packet)
  BY DEF TypeInv
<1>2. /\ Append(wire, p) \in Seq(Packet)
      /\ Len(Append(wire, p)) = Len(wire) + 1 /\ Len(wire) \in Nat
      /\ \A i \in 1 .. Len(wire) : Append(wire, p)[i] = wire[i]
      /\ Append(wire, p)[Len(wire) + 1] = p
  BY <1>1, Appended
<1>3. /\ wire' = wire \/ wire' = Append(wire, p)
      /\ link /\ net # "connecting" => wire' = Append(wire, p)
  BY DEF Queue
<1> DEFINE a == Append(wire, p)
<1> HIDE DEF a
<1>4. /\ a \in Seq(Packet) /\ Len(a) = Len(wire) + 1
      /\ \A i \in 1 .. Len(wire) : i \in 1 .. Len(a) /\ a[i] = wire[i]
      /\ Len(a) \in 1 .. Len(a) /\ a[Len(a)] = p
      /\ \A i \in 1 .. Len(a) : i = Len(a) \/ i \in 1 .. Len(wire)
  BY <1>2 DEF a
<1>5. /\ \A q : (\E i \in 1 .. Len(wire) : wire[i] = q) => \E i \in 1 .. Len(a) : a[i] = q
      /\ \E i \in 1 .. Len(a) : a[i] = p
  BY <1>4
<1>6. (\A i \in 1 .. Len(wire) : wire[i] # Disconnect) /\ p # Disconnect
        => \A i \in 1 .. Len(a) : a[i] # Disconnect
  BY <1>4
<1>7. wire' = wire \/ wire' = a
  BY <1>3 DEF a
<1>8. wire' = Append(wire, p) => wire' = a
  BY DEF a
<1> QED BY <1>1, <1>3, <1>4, <1>5, <1>6, <1>7, <1>8

LEMMA InitIInv == HistoryInit => IInv
<1> SUFFICES ASSUME HistoryInit PROVE IInv
  OBVIOUS
<1>1. <<>> \in Seq(Packet) /\ None \in Kept
  BY DEF Kept
<1>2. TypeInv
  BY <1>1 DEF HistoryInit, Init, TypeInv, NoReplay
<1>3. NoSubscriptionMissed /\ HangupIsLate /\ (calm => Calm)
  BY DEF HistoryInit, Init, NoSubscriptionMissed, HangupIsLate
<1> QED BY <1>2, <1>3 DEF IInv

LEMMA KeysType ==
    ASSUME TypeInv
    PROVE  Keys \in SUBSET Topics /\ Cardinality(Keys) \in Nat
<1>1. Keys \subseteq Topics
  BY DEF Keys
<1> QED BY <1>1, FS_Subset, FS_CardinalityType, RigMqttAssumption

(* What both threads, the connection and the broker do to the types.       *)
LEMMA StepKeepsType ==
    ASSUME TypeInv, HistoryNext
    PROVE  TypeInv'
<1> USE DEF mainVars, netVars, brokerVars
<1>1. calm' \in BOOLEAN
  BY DEF HistoryNext, TypeInv
<1>2. /\ Health("connected") \in Packet /\ Health("disconnected") \in Packet
      /\ Subscribe \in Packet /\ Disconnect \in Packet /\ Report \subseteq Packet
  BY DEF Packet
<1>3. wire \in Seq(Packet) /\ <<>> \in Seq(Packet)
  BY DEF TypeInv
<1>4. ASSUME NEW t \in Topics, Keep(t) PROVE TypeInv'
  <2>1. PICK v \in Values[t] : retained' = [retained EXCEPT ![t] = v] /\ pending' = Message(t, v)
    BY <1>4 DEF Keep
  <2>2. v \in Kept /\ Message(t, v) \in Report
    BY Kinds DEF Kept
  <2> QED BY <1>1, <1>4, <2>1, <2>2 DEF Keep, MainGoes, TypeInv
<1>5. CASE Send
  <2>1. wire' \in Seq(Packet)
    BY <1>2, <1>5, Queued DEF Send, MainGoes, TypeInv
  <2> QED BY <1>1, <1>5, <2>1 DEF Send, MainGoes, TypeInv
<1>6. CASE AddSubscription
  BY <1>1, <1>6 DEF AddSubscription, MainGoes, TypeInv
<1>7. CASE AskSubscription
  <2>1. wire' \in Seq(Packet)
    BY <1>2, <1>3, <1>7, Queued DEF AskSubscription
  <2> QED BY <1>1, <1>7, <2>1 DEF AskSubscription, MainGoes, TypeInv
<1>8. CASE Signal
  BY <1>1, <1>8 DEF Signal, MainGoes, TypeInv
<1>21. CASE SayGoodbye
  <2>1. wire' \in Seq(Packet)
    BY <1>2, <1>21, Queued DEF SayGoodbye
  <2> QED BY <1>1, <1>21, <2>1 DEF SayGoodbye, MainGoes, TypeInv
<1>9. CASE Hangup
  <2>1. wire' \in Seq(Packet)
    BY <1>2, <1>9, Queued DEF Hangup
  <2> QED BY <1>1, <1>9, <2>1 DEF Hangup, MainGoes, TypeInv
<1>10. CASE Exit \/ SignalAgain \/ Die
  <2>1. NoReplay \in [todo : SUBSET Topics, size : Nat, item : Report \cup {None}]
    BY DEF NoReplay
  <2>2. [t \in Topics |-> None] \in [Topics -> Kept]
    BY DEF Kept
  <2>3. main' \in {"exited", "hurried", "killed"} /\ MemoryGone
    BY <1>10 DEF Exit, SignalAgain, Die
  <2>4. wire' \in Seq(Packet)
    BY <1>3, <1>10, Cut DEF Exit, SignalAgain, Die
  <2> QED BY <1>1, <2>1, <2>2, <2>3, <2>4 DEF MemoryGone, TypeInv
<1>11. CASE Dial
  BY <1>1, <1>3, <1>11 DEF Dial, NetGoes, TypeInv
<1>12. CASE OnConnectRefused
  <2>1. /\ UNCHANGED <<main, pending, listening, retained, replay, subscribed>>
        /\ net' = "down" /\ link' = FALSE /\ wire' = <<>> /\ faults' \in Nat
    BY <1>12 DEF OnConnectRefused, NetGoes, Fault, TypeInv
  <2> QED BY <1>1, <1>3, <2>1 DEF TypeInv
<1>13. CASE OnConnect
  <2>1. wire' \in Seq(Packet)
    BY <1>2, <1>13, Queued DEF OnConnect
  <2>2. replay' \in [todo : SUBSET Topics, size : Nat, item : Report \cup {None}]
    BY <1>13, KeysType DEF OnConnect, Replayed
  <2> QED BY <1>1, <1>13, <2>1, <2>2 DEF OnConnect, NetGoes, TypeInv
<1>14. CASE ReplayTake
  <2>1. replay \in [todo : SUBSET Topics, size : Nat, item : Report \cup {None}]
    BY DEF TypeInv
  <2>2. PICK t \in replay.todo :
          replay' = [replay EXCEPT !.todo = @ \ {t}, !.item = Message(t, retained[t])]
    BY <1>14 DEF ReplayTake
  <2>3. Message(t, retained[t]) \in Report
    BY <2>1, Kinds DEF TypeInv
  <2>4. replay' \in [todo : SUBSET Topics, size : Nat, item : Report \cup {None}]
    BY <2>1, <2>2, <2>3
  <2> QED BY <1>1, <1>14, <2>4 DEF ReplayTake, NetGoes, TypeInv
<1>15. CASE ReplaySend
  <2>1. replay.item \in Packet
    BY <1>2, <1>15 DEF ReplaySend, TypeInv
  <2>2. wire' \in Seq(Packet)
    BY <1>15, <2>1, Queued DEF ReplaySend
  <2>3. replay' \in [todo : SUBSET Topics, size : Nat, item : Report \cup {None}]
    BY <1>15 DEF ReplaySend, TypeInv
  <2> QED BY <1>1, <1>15, <2>2, <2>3 DEF ReplaySend, NetGoes, TypeInv
<1>16. CASE ReplayRaises
  BY <1>1, <1>16 DEF ReplayRaises, NetGoes, NoReplay, TypeInv
<1>17. CASE ReplayEnds
  <2>1. wire' \in Seq(Packet)
    BY <1>2, <1>3, <1>17, Queued DEF ReplayEnds, Renewed
  <2> QED BY <1>1, <1>17, <2>1 DEF ReplayEnds, NetGoes, NoReplay, TypeInv
<1>18. CASE Notice
  BY <1>1, <1>18 DEF Notice, NetGoes, TypeInv
<1>19. CASE Deliver
  <2>1. wire' \in Seq(Packet)
    BY <1>3, <1>19, Shifted DEF Deliver
  <2>2. link' \in BOOLEAN /\ subscribed' \in BOOLEAN
    BY <1>19 DEF Deliver, TypeInv
  <2> QED BY <1>1, <1>19, <2>1, <2>2 DEF Deliver, TypeInv
<1>20. CASE Will \/ BrokerRestarts
  <2>1. faults' \in Nat /\ LinkEnds
    BY <1>20 DEF Will, BrokerRestarts, Fault, TypeInv
  <2> QED BY <1>1, <1>3, <2>1 DEF LinkEnds, TypeInv
<1> QED BY <1>4, <1>5, <1>6, <1>7, <1>8, <1>9, <1>10, <1>11, <1>12, <1>13, <1>14, <1>15,
           <1>16, <1>17, <1>18, <1>19, <1>20, <1>21
        DEF HistoryNext, Next, Daemon, Close, OnConnectRuns

-----------------------------------------------------------------------------

(* The daemon's one topic is asked for on this connection.                 *)
Asked == subscribed \/ \E i \in 1 .. Len(wire) : wire[i] = Subscribe

(* What joins the list before the walk is over is asked for at its end,    *)
(* what joins it after is asked for by the daemon itself, and what is      *)
(* asked for stays so while the connection does.                           *)
LEMMA StepMissesNone ==
    ASSUME IInv, HistoryNext
    PROVE  NoSubscriptionMissed'
<1> USE DEF mainVars, netVars, brokerVars
<1>1. TypeInv /\ TypeInv' /\ wire \in Seq(Packet)
  BY StepKeepsType DEF IInv, TypeInv
<1> SUFFICES ASSUME net' = "looping", link', listening', main' \in {"working", "sending"}
             PROVE  Asked'
  BY <1>1 DEF NoSubscriptionMissed, Asked, TypeInv
<1>2. net = "looping" /\ link /\ listening /\ main \in {"working", "sending"} => Asked
  BY <1>1 DEF IInv, NoSubscriptionMissed, Asked
<1>3. Subscribe \in Packet /\ Report \subseteq Packet
  BY DEF Packet
<1>4. ASSUME NEW p \in Packet, Queue(p), UNCHANGED subscribed, Asked PROVE Asked'
  BY <1>1, <1>4, Queued DEF Asked
<1>5. CASE \E t \in Topics : Keep(t)
  BY <1>2, <1>5 DEF Keep, MainGoes, Asked
<1>6. CASE Send
  <2>1. pending \in Packet /\ Queue(pending) /\ UNCHANGED subscribed
    BY <1>1, <1>3, <1>6 DEF Send, MainGoes, TypeInv
  <2>2. Asked
    BY <1>2, <1>6 DEF Send, MainGoes
  <2> QED BY <1>4, <2>1, <2>2
<1>7. CASE AskSubscription
  <2>1. net = "looping" /\ link /\ Queue(Subscribe)
    BY <1>7 DEF AskSubscription, MainGoes
  <2>2. \E i \in 1 .. Len(wire') : wire'[i] = Subscribe
    BY <1>1, <1>3, <2>1, Queued
  <2> QED BY <2>2 DEF Asked
<1>8. CASE ReplayEnds
  <2>1. net = "replaying" /\ link /\ Queue(Subscribe)
    BY <1>8 DEF ReplayEnds, NetGoes, Renewed
  <2>2. \E i \in 1 .. Len(wire') : wire'[i] = Subscribe
    BY <1>1, <1>3, <2>1, Queued
  <2> QED BY <2>2 DEF Asked
<1>9. CASE Deliver
  <2>1. /\ wire # <<>> /\ Head(wire) # Disconnect /\ wire' = Tail(wire)
        /\ subscribed' = (subscribed \/ Head(wire) = Subscribe)
        /\ link /\ UNCHANGED <<net, main, listening>>
    BY <1>9 DEF Deliver
  <2>2. Asked
    BY <1>2, <2>1
  <2>3. CASE subscribed
    BY <2>1, <2>3 DEF Asked
  <2>4. CASE \E i \in 1 .. Len(wire) : wire[i] = Subscribe
    <3>1. PICK i \in 1 .. Len(wire) : wire[i] = Subscribe
      BY <2>4
    <3>2. Head(wire) = wire[1]
      BY <1>1, <2>1, Shifted
    <3>3. CASE i = 1
      BY <2>1, <3>1, <3>2, <3>3 DEF Asked
    <3>4. CASE i # 1
      <4>1. i - 1 \in 1 .. Len(wire') /\ wire'[i - 1] = Subscribe
        BY <1>1, <2>1, <3>1, <3>4, Shifted
      <4> QED BY <4>1 DEF Asked
    <3> QED BY <3>3, <3>4
  <2> QED BY <2>2, <2>3, <2>4 DEF Asked
<1>10. CASE AddSubscription \/ Close
  BY <1>10 DEF AddSubscription, MainGoes, Close, Signal, SayGoodbye, Hangup, Exit, SignalAgain, Die,
                MemoryGone
<1>11. CASE Dial \/ OnConnectRefused \/ OnConnect \/ ReplayTake \/ ReplaySend \/ ReplayRaises \/ Notice
  BY <1>11 DEF Dial, OnConnectRefused, OnConnect, ReplayTake, ReplaySend, ReplayRaises, Notice,
               NetGoes
<1>12. CASE Will \/ BrokerRestarts
  BY <1>12 DEF Will, BrokerRestarts, LinkEnds
<1> QED BY <1>5, <1>6, <1>7, <1>8, <1>9, <1>10, <1>11, <1>12
        DEF HistoryNext, Next, Daemon, OnConnectRuns

(* No other packet is a DISCONNECT, and the daemon does not come back from *)
(* hanging up.                                                             *)
LEMMA StepHangsUpLate ==
    ASSUME IInv, HistoryNext
    PROVE  HangupIsLate'
<1> USE DEF mainVars, netVars, brokerVars
<1> DEFINE Before(m) == m \in {"working", "sending", "subscribing", "closing", "waiting"}
           Nowhere == \A i \in 1 .. Len(wire) : wire[i] # Disconnect
<1>1. TypeInv /\ wire \in Seq(Packet)
  BY DEF IInv, TypeInv
<1> SUFFICES ASSUME Before(main') PROVE Nowhere'
  BY DEF HangupIsLate
<1>2. Before(main) => Nowhere
  BY DEF IInv, HangupIsLate
<1>3. /\ Health("connected") \in Packet /\ Health("disconnected") \in Packet
      /\ Subscribe \in Packet /\ Report \subseteq Packet
      /\ Health("connected") # Disconnect /\ Health("disconnected") # Disconnect
      /\ Subscribe # Disconnect /\ \A m \in Report : m # Disconnect
  BY Kinds DEF Packet
<1>4. ASSUME NEW p \in Packet, p # Disconnect, Queue(p), Nowhere PROVE Nowhere'
  BY <1>1, <1>4, Queued
<1> HIDE DEF Nowhere
<1>5. CASE wire' = wire /\ Before(main)
  BY <1>2, <1>5 DEF Nowhere
<1>6. CASE wire' = <<>>
  BY <1>6 DEF Nowhere
<1>7. CASE Send
  BY <1>1, <1>2, <1>3, <1>4, <1>7 DEF Send, MainGoes, TypeInv
<1>8. CASE AskSubscription
  BY <1>2, <1>3, <1>4, <1>5, <1>8 DEF AskSubscription, MainGoes
<1>9. CASE SayGoodbye
  BY <1>2, <1>3, <1>4, <1>9 DEF SayGoodbye, MainGoes
<1>10. CASE OnConnect
  BY <1>2, <1>3, <1>4, <1>10 DEF OnConnect, NetGoes
<1>11. CASE ReplaySend
  BY <1>1, <1>2, <1>3, <1>4, <1>11 DEF ReplaySend, NetGoes, TypeInv
<1>12. CASE ReplayEnds
  BY <1>2, <1>3, <1>4, <1>5, <1>12 DEF ReplayEnds, NetGoes, Renewed
<1>13. CASE Deliver
  <2>1. CASE wire' = Tail(wire)
    <3>1. wire # <<>> /\ Before(main)
      BY <1>13 DEF Deliver
    <3> QED BY <1>1, <1>2, <2>1, <3>1, Shifted DEF Nowhere
  <2> QED BY <1>6, <1>13, <2>1 DEF Deliver
<1>14. CASE (\E t \in Topics : Keep(t)) \/ AddSubscription \/ Signal
  BY <1>5, <1>14 DEF Keep, AddSubscription, Signal, Working, MainGoes
<1>15. CASE Hangup \/ Exit \/ SignalAgain \/ Die
  BY <1>15 DEF Hangup, Exit, SignalAgain, Die, MainGoes
<1>16. CASE ReplayTake \/ ReplayRaises \/ Notice
  BY <1>5, <1>16 DEF ReplayTake, ReplayRaises, Notice, NetGoes
<1>17. CASE Dial \/ OnConnectRefused \/ Will \/ BrokerRestarts
  BY <1>6, <1>17 DEF Dial, OnConnectRefused, Will, BrokerRestarts, LinkEnds
<1> QED BY <1>7, <1>8, <1>9, <1>10, <1>11, <1>12, <1>13, <1>14, <1>15, <1>16, <1>17
        DEF HistoryNext, Next, Daemon, Close, OnConnectRuns

-----------------------------------------------------------------------------

(* A packet that is no health word leaves what was told in place.          *)
LEMMA QueuedKeepsTold ==
    ASSUME TypeInv, Told, NEW p \in Packet, p.kind # "health", wire' = Append(wire, p),
           UNCHANGED health
    PROVE  Told'
<1> DEFINE n == Len(wire)
           a == wire'
<1>1. /\ Len(a) = n + 1 /\ n \in Nat /\ a[n + 1] = p
      /\ \A i \in 1 .. n : a[i] = wire[i]
  BY Appended DEF TypeInv
<1>2. CASE health = "disconnected" /\ \A i \in 1 .. n : wire[i].kind # "health"
  <2>1. \A i \in 1 .. Len(a) : a[i].kind # "health"
    BY <1>1, <1>2
  <2> QED BY <1>2, <2>1 DEF Told
<1>3. CASE \E i \in 1 .. n : /\ wire[i] = Health("disconnected")
                             /\ \A j \in 1 .. n : j > i => wire[j].kind # "health"
  <2>1. PICK i \in 1 .. n : /\ wire[i] = Health("disconnected")
                            /\ \A j \in 1 .. n : j > i => wire[j].kind # "health"
    BY <1>3
  <2>2. i \in 1 .. Len(a) /\ a[i] = Health("disconnected")
    BY <1>1, <2>1
  <2>3. \A j \in 1 .. Len(a) : j > i => a[j].kind # "health"
    BY <1>1, <2>1
  <2> QED BY <2>2, <2>3 DEF Told
<1> QED BY <1>2, <1>3 DEF Told

(* So does a packet that is read.                                          *)
LEMMA DeliveredKeepsTold ==
    ASSUME TypeInv, Told, wire # <<>>, wire' = Tail(wire),
           health' = IF Head(wire).kind = "health" THEN Head(wire).word ELSE health
    PROVE  Told'
<1>1. /\ wire \in Seq(Packet) /\ Head(wire) = wire[1] /\ 1 \in 1 .. Len(wire)
      /\ \A i \in 1 .. Len(wire') : i + 1 \in 1 .. Len(wire) /\ wire'[i] = wire[i + 1]
      /\ \A i \in 1 .. Len(wire) : i # 1 => i - 1 \in 1 .. Len(wire') /\ wire'[i - 1] = wire[i]
  BY Shifted DEF TypeInv
<1>2. CASE health = "disconnected" /\ \A i \in 1 .. Len(wire) : wire[i].kind # "health"
  <2>1. health' = "disconnected" /\ \A i \in 1 .. Len(wire') : wire'[i].kind # "health"
    BY <1>1, <1>2
  <2> QED BY <2>1 DEF Told
<1>3. CASE \E i \in 1 .. Len(wire) :
             /\ wire[i] = Health("disconnected")
             /\ \A j \in 1 .. Len(wire) : j > i => wire[j].kind # "health"
  <2>1. PICK i \in 1 .. Len(wire) :
             /\ wire[i] = Health("disconnected")
             /\ \A j \in 1 .. Len(wire) : j > i => wire[j].kind # "health"
    BY <1>3
  <2>2. \A j \in 1 .. Len(wire') : j + 1 > i => wire'[j].kind # "health"
    BY <1>1, <2>1
  <2>3. CASE i = 1
    <3>1. health' = "disconnected"
      BY <1>1, <2>1, <2>3, Kinds
    <3>2. \A j \in 1 .. Len(wire') : wire'[j].kind # "health"
      BY <2>2, <2>3
    <3> QED BY <3>1, <3>2 DEF Told
  <2>4. CASE i # 1
    <3>1. i - 1 \in 1 .. Len(wire') /\ wire'[i - 1] = Health("disconnected")
      BY <1>1, <2>1, <2>4
    <3>2. \A j \in 1 .. Len(wire') : j > i - 1 => wire'[j].kind # "health"
      BY <2>2
    <3> QED BY <3>1, <3>2 DEF Told
  <2> QED BY <2>3, <2>4
<1> QED BY <1>2, <1>3 DEF Told

LEMMA StepKeepsCalm ==
    ASSUME IInv, HistoryNext, calm'
    PROVE  Calm'
<1> USE DEF mainVars, netVars, brokerVars
<1>1. TypeInv /\ wire \in Seq(Packet)
  BY DEF IInv, TypeInv
<1>2. /\ Health("disconnected") \in Packet /\ Disconnect \in Packet
      /\ Health("disconnected") # Disconnect /\ Disconnect.kind # "health"
  BY Kinds DEF Packet
<1>3. CASE Signal
  <2>1. /\ main' = "closing" /\ main # "closing" /\ UNCHANGED <<net, link, health, wire>>
        /\ main \in {"working", "sending", "subscribing"}
    BY <1>3 DEF Signal, MainGoes, Working
  <2>2. net = "looping" /\ link
    BY <2>1 DEF HistoryNext
  <2>3. \A i \in 1 .. Len(wire') : wire'[i] # Disconnect
    BY <2>1 DEF IInv, HangupIsLate
  <2> QED BY <2>1, <2>2, <2>3 DEF Calm, HungUp
<1>4. ASSUME calm, faults' = faults, main' # "killed"
      PROVE  Calm'
  <2>1. Calm
    BY <1>4 DEF IInv
  <2>2. faults' # faults + 1
    BY <1>1, <1>4 DEF TypeInv
  <2>12. CASE SayGoodbye
    <3>1. /\ main = "closing" /\ main' = "waiting" /\ Queue(Health("disconnected"))
          /\ UNCHANGED <<net, link, health>>
      BY <2>12 DEF SayGoodbye, MainGoes
    <3>2. net = "looping" /\ link
      BY <2>1, <3>1 DEF Calm
    <3>3. wire' = Append(wire, Health("disconnected"))
      BY <1>1, <1>2, <3>1, <3>2, Queued
    <3>4. \A i \in 1 .. Len(wire') : wire'[i] # Disconnect
      BY <1>1, <1>2, <3>1, Queued DEF IInv, HangupIsLate
    <3>5. /\ Len(wire') = Len(wire) + 1 /\ Len(wire) \in Nat
          /\ wire'[Len(wire) + 1] = Health("disconnected")
      BY <1>1, <1>2, <3>3, Appended
    <3>6. /\ Len(wire') \in 1 .. Len(wire') /\ wire'[Len(wire')] = Health("disconnected")
          /\ \A j \in 1 .. Len(wire') : ~(j > Len(wire'))
      BY <3>5
    <3>7. Told'
      BY <3>6 DEF Told
    <3> QED BY <3>1, <3>2, <3>4, <3>7 DEF Calm
  <2>13. CASE SignalAgain
    <3>1. /\ main \in {"closing", "waiting", "stopping"} /\ main' = "hurried" /\ net' = "dead"
          /\ UNCHANGED <<link, health>>
      BY <2>13 DEF SignalAgain, MemoryGone
    <3>2. PICK n \in 0 .. Len(wire) : wire' = SubSeq(wire, 1, n)
      BY <2>13 DEF SignalAgain
    <3>3. /\ Len(wire') = n /\ Len(wire) \in Nat
          /\ \A i \in 1 .. n : i \in 1 .. Len(wire) /\ wire'[i] = wire[i]
      BY <1>1, <3>2, Cut
    <3>4. /\ \A i \in 1 .. n : wire'[i] = Disconnect => i = n
          /\ HungUp' => n = Len(wire) /\ HungUp
      BY <2>1, <3>3 DEF Calm, HungUp
    <3>5. link /\ HungUp' => Told'
      BY <2>1, <3>1, <3>3, <3>4 DEF Calm, Told
    <3>6. ~link' => health' = "disconnected"
      BY <2>1, <3>1 DEF Calm
    <3> QED BY <3>1, <3>3, <3>4, <3>5, <3>6 DEF Calm
  <2>3. CASE Hangup
    <3>1. /\ main = "waiting" /\ main' = "stopping" /\ Queue(Disconnect)
          /\ UNCHANGED <<net, link, health>>
      BY <2>3 DEF Hangup, MainGoes
    <3>2. link /\ net = "looping" /\ Told
      BY <2>1, <3>1 DEF Calm
    <3>3. wire' = Append(wire, Disconnect)
      BY <1>1, <1>2, <3>1, <3>2, Queued
    <3>4. /\ Len(wire') = Len(wire) + 1 /\ Len(wire) \in Nat
          /\ wire'[Len(wire) + 1] = Disconnect
          /\ \A i \in 1 .. Len(wire) : wire'[i] = wire[i]
      BY <1>1, <1>2, <3>3, Appended
    <3>5. \A i \in 1 .. Len(wire) : wire[i] # Disconnect
      BY <3>1 DEF IInv, HangupIsLate
    <3>6. /\ \E i \in 1 .. Len(wire') : wire'[i] = Disconnect
          /\ \A i \in 1 .. Len(wire') : wire'[i] = Disconnect => i = Len(wire')
      BY <3>4, <3>5
    <3>7. Told'
      BY <1>1, <1>2, <3>1, <3>2, <3>3, QueuedKeepsTold
    <3> QED BY <3>1, <3>2, <3>6, <3>7 DEF Calm, HungUp
  <2>4. CASE Exit
    <3>1. /\ main = "stopping" /\ main' = "exited" /\ net' = "dead"
          /\ UNCHANGED <<wire, link, health>>
      BY <2>4 DEF Exit, MemoryGone
    <3> QED BY <2>1, <3>1 DEF Calm, Told, HungUp
  <2>5. CASE Notice
    <3>1. ~link /\ net' = "down" /\ net # "dead" /\ UNCHANGED <<main, wire, link, health>>
      BY <2>5 DEF Notice, NetGoes
    <3> QED BY <2>1, <3>1 DEF Calm, Told, HungUp
  <2>6. CASE Deliver
    <3>1. /\ link /\ wire # <<>> /\ UNCHANGED <<main, net>>
          /\ wire' = IF Head(wire) = Disconnect THEN <<>> ELSE Tail(wire)
          /\ health' = IF Head(wire).kind = "health" THEN Head(wire).word ELSE health
          /\ link' = (Head(wire) # Disconnect)
      BY <2>6 DEF Deliver
    <3>2. /\ Head(wire) = wire[1] /\ 1 \in 1 .. Len(wire) /\ Len(wire) \in Nat
          /\ Len(Tail(wire)) = Len(wire) - 1
          /\ \A i \in 1 .. Len(Tail(wire)) : i + 1 \in 1 .. Len(wire) /\ Tail(wire)[i] = wire[i + 1]
          /\ \A i \in 1 .. Len(wire) :
                 i # 1 => i - 1 \in 1 .. Len(Tail(wire)) /\ Tail(wire)[i - 1] = wire[i]
      BY <1>1, <3>1, Shifted
    <3>3. CASE Head(wire) = Disconnect
      <4>1. Len(wire) = 1 /\ Told
        BY <2>1, <3>1, <3>2, <3>3 DEF Calm, HungUp
      <4>2. \A i \in 1 .. Len(wire) : wire[i] = Disconnect
        BY <3>2, <3>3, <4>1
      <4>3. health = "disconnected"
        BY <1>2, <4>1, <4>2 DEF Told
      <4>4. main \notin {"closing", "waiting"}
        BY <3>2, <3>3 DEF IInv, HangupIsLate
      <4>5. wire' = <<>> /\ ~link' /\ health' = "disconnected"
        BY <1>2, <3>1, <3>3, <4>3
      <4> QED BY <2>1, <3>1, <4>4, <4>5 DEF Calm
    <3>4. CASE Head(wire) # Disconnect
      <4>1. wire' = Tail(wire) /\ link'
        BY <3>1, <3>4
      <4>2. HungUp => HungUp'
        <5> SUFFICES ASSUME HungUp PROVE HungUp'
          OBVIOUS
        <5>1. PICK i \in 1 .. Len(wire) : wire[i] = Disconnect
          BY DEF HungUp
        <5>2. i # 1
          BY <3>2, <3>4, <5>1
        <5> QED BY <3>2, <4>1, <5>1, <5>2 DEF HungUp
      <4>3. HungUp' => HungUp
        BY <3>2, <4>1 DEF HungUp
      <4>4. main = "waiting" \/ HungUp => Told'
        BY <1>1, <2>1, <3>1, <4>1, DeliveredKeepsTold DEF Calm
      <4>5. \A i \in 1 .. Len(wire') : wire'[i] = Disconnect => i = Len(wire')
        BY <2>1, <3>2, <4>1 DEF Calm
      <4> QED BY <2>1, <3>1, <4>1, <4>2, <4>3, <4>4, <4>5 DEF Calm
    <3> QED BY <3>3, <3>4
  <2>7. CASE Will
    <3>1. /\ link /\ net = "dead" /\ LinkEnds /\ health' = "gone"
          /\ main \in {"exited", "hurried"} => wire = <<>>
      BY <2>2, <2>7 DEF Will, Fault
    <3>2. main \in {"exited", "hurried"} /\ (main = "exited" => HungUp)
      BY <2>1, <3>1 DEF Calm
    <3>3. Len(wire) = 0
      BY <3>1, <3>2
    <3>4. main = "hurried"
      BY <3>2, <3>3 DEF HungUp
    <3>5. main' = "hurried" /\ net' = "dead" /\ wire' = <<>> /\ ~link'
      BY <3>1, <3>4 DEF LinkEnds
    <3> QED BY <3>1, <3>5 DEF Calm
  <2>8. CASE Daemon \/ Signal
    BY <2>1, <2>8 DEF Daemon, Keep, Send, AddSubscription, AskSubscription, MainGoes,
                      Signal, Working, Calm
  <2>9. CASE Die
    BY <1>4, <2>9 DEF Die
  <2>10. CASE Dial \/ OnConnectRuns
    BY <2>1, <2>10 DEF Dial, OnConnectRuns, OnConnect, ReplayTake, ReplaySend, ReplayRaises,
                       ReplayEnds, NetGoes, Calm
  <2>11. CASE OnConnectRefused \/ BrokerRestarts
    BY <2>2, <2>11 DEF OnConnectRefused, BrokerRestarts, Fault
  <2> QED BY <2>3, <2>4, <2>5, <2>6, <2>7, <2>8, <2>9, <2>10, <2>11,
              <2>12, <2>13
          DEF HistoryNext, Next, Close
<1>5. ASSUME ~Signal
      PROVE  calm /\ faults' = faults /\ main' # "killed"
  <2>1. ~(main # "closing" /\ main' = "closing")
    BY <1>5 DEF HistoryNext, Next, Daemon, Close, Keep, Send, AddSubscription, AskSubscription,
        MainGoes, SayGoodbye, Hangup, Exit, SignalAgain, Die, Dial, OnConnectRefused, OnConnectRuns, OnConnect, ReplayTake,
        ReplaySend, ReplayRaises, ReplayEnds, NetGoes, Notice, Deliver, Will, BrokerRestarts,
        LinkEnds
  <2> QED BY <2>1 DEF HistoryNext
<1> QED BY <1>3, <1>4, <1>5

LEMMA StepKeepsIInv == IInv /\ [HistoryNext]_historyVars => IInv'
<1> SUFFICES ASSUME IInv, [HistoryNext]_historyVars PROVE IInv'
  OBVIOUS
<1>1. CASE HistoryNext
  <2>1. TypeInv'
    BY <1>1, StepKeepsType DEF IInv
  <2>2. NoSubscriptionMissed' /\ HangupIsLate'
    BY <1>1, StepMissesNone, StepHangsUpLate
  <2>3. calm' => Calm'
    BY <1>1, StepKeepsCalm
  <2> QED BY <2>1, <2>2, <2>3 DEF IInv
<1>2. CASE UNCHANGED historyVars
  BY <1>2 DEF historyVars, vars, mainVars, netVars, brokerVars, IInv, TypeInv,
              NoSubscriptionMissed, HangupIsLate, Calm, HungUp, Told
<1> QED BY <1>1, <1>2

LEMMA AlwaysIInv == HistorySpec => []IInv
BY InitIInv, StepKeepsIInv, PTL DEF HistorySpec

(* Whenever on_connect is over, what the daemon subscribed to - before,    *)
(* during or after it - the broker forwards, or was asked to on this very  *)
(* connection (rig_mqtt.py:128-131, 210-212).                              *)
THEOREM NoSubscriptionMissedAlways == HistorySpec => []NoSubscriptionMissed
<1>1. IInv => NoSubscriptionMissed
  BY DEF IInv
<1> QED BY <1>1, AlwaysIInv, PTL

(* A daemon stopped while it was connected has its goodbye read, and no    *)
(* will after it, wherever its network thread and the broker are by then;  *)
(* a second signal may cost it the goodbye, and then its will tells        *)
(* (rig_mqtt.py:189-198, 228-243).                                         *)
THEOREM CalmStopIsToldAlways == HistorySpec => []CalmStopIsTold
<1>1. IInv => CalmStopIsTold
  BY DEF IInv, Calm, CalmStopIsTold
<1> QED BY <1>1, AlwaysIInv, PTL

=============================================================================
