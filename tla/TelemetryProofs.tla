-------------------------- MODULE TelemetryProofs ---------------------------
(***************************************************************************)
(* The telemetry client's safety, for every set of topics, every queue     *)
(* depth, every socket and any number of faults.  The values of a topic    *)
(* travel through the queue, what is retained, the wire and the broker,    *)
(* and the invariant says so stage by stage: each stage holds values no    *)
(* older than the next one's (Rising), in the order they were published,   *)
(* and what a stage still lacks is in the sequence that leads to it        *)
(* (Holds).  The goodbye is the last of the queue and finds nothing        *)
(* missing behind it.                                                      *)
(***************************************************************************)
EXTENDS MCTelemetry, FiniteSetTheorems, TLAPS

Report == [kind : {"publish"}, topic : Topics, value : Nat \ {0}]

Command == Report \cup {Farewell}

Packet == Report \cup {Health("connected"), Health("disconnected"), Disconnect, Ping}

TypeInv ==
    /\ published \in [Topics -> Nat] /\ accepted \in [Topics -> Nat]
    /\ retained \in [Topics -> Nat] /\ shown \in [Topics -> Nat]
    /\ newest \in [Topics -> Nat]
    /\ queue \in Seq(Command) /\ wire \in Seq(Packet)
    /\ main \in {"running", "asking", "waiting", "exited"}
    /\ thread \in {"down", "up", "ended"}
    /\ unanswered \in Nat
    /\ said \in BOOLEAN /\ path \in BOOLEAN /\ answer \in BOOLEAN /\ session \in BOOLEAN

(* The values of a sequence lie between low and high, topic by topic, and  *)
(* those of one topic do not fall.                                         *)
Rising(s, low, high) ==
    /\ \A i \in 1 .. Len(s) :
           s[i] \in Report =>
             low[s[i].topic] <= s[i].value /\ s[i].value <= high[s[i].topic]
    /\ \A i, j \in 1 .. Len(s) :
           /\ i < j /\ s[i] \in Report /\ s[j] \in Report
           /\ s[i].topic = s[j].topic
           => s[i].value <= s[j].value

(* What has not reached its goal has it in the sequence.                   *)
Holds(s, reached, goal, topics) ==
    \A t \in topics :
        reached[t] = goal[t] \/ \E i \in 1 .. Len(s) : s[i] = Message(t, goal[t])

Stages ==
    /\ \A t \in Topics :
           /\ newest[t] <= retained[t] /\ retained[t] <= accepted[t]
           /\ accepted[t] <= published[t]
           /\ shown[t] = newest[t] \/ shown[t] = 0
    /\ Rising(queue, retained, accepted)
    /\ Rising(wire, newest, retained)

Small == Topics \ Oversized

NothingLost ==
    /\ Holds(queue, retained, accepted, Small)
    /\ thread = "up" /\ session => Holds(wire, shown, retained, Topics)

Leaving == main \in {"waiting", "exited"}

FarewellIsLast ==
    \A i \in 1 .. Len(queue) : queue[i] = Farewell => i = Len(queue) /\ Leaving

GoodbyeOnWire ==
    \A i \in 1 .. Len(wire) :
        wire[i] = Health("disconnected") =>
          /\ Leaving /\ queue = <<>>
          /\ session =>
               \A t \in Small :
                   \/ shown[t] = retained[t]
                   \/ \E j \in 1 .. i - 1 : wire[j] = Message(t, retained[t])

GoodbyeSeen ==
    health = "disconnected" => Leaving /\ \A t \in Small : shown[t] = accepted[t]

SaidIsOnWire ==
    said => /\ thread = "ended"
            /\ session => \E i \in 1 .. Len(wire) : wire[i] = Disconnect

PingIsOnWire ==
    thread = "up" /\ session /\ unanswered > 0 =>
        answer \/ \E i \in 1 .. Len(wire) : wire[i] = Ping

IInv ==
    /\ TypeInv /\ Stages /\ NothingLost
    /\ FarewellIsLast /\ GoodbyeOnWire /\ GoodbyeSeen /\ SaidIsOnWire /\ PingIsOnWire

-----------------------------------------------------------------------------
(* Packets and commands, told apart by their kinds.                        *)

LEMMA Kinds ==
    /\ Farewell \notin Report /\ Disconnect \notin Report /\ Ping \notin Report
    /\ \A word : Health(word) \notin Report
    /\ \A m \in Report : m.kind = "publish" /\ m.topic \in Topics /\ m.value \in Nat \ {0}
                         /\ m = Message(m.topic, m.value)
    /\ \A t \in Topics, v \in Nat \ {0} :
           Message(t, v) \in Report /\ Message(t, v).topic = t /\ Message(t, v).value = v
    /\ Farewell.kind = "farewell" /\ Disconnect.kind = "disconnect" /\ Ping.kind = "ping"
    /\ \A word : Health(word).kind = "health" /\ Health(word).word = word
BY DEF Farewell, Disconnect, Ping, Health, Message, Report

LEMMA Different ==
    /\ \A t, v : /\ Message(t, v) # Farewell /\ Message(t, v) # Disconnect
                 /\ Message(t, v) # Ping /\ (\A word : Message(t, v) # Health(word))
    /\ \A word : Health(word) # Farewell /\ Health(word) # Disconnect /\ Health(word) # Ping
    /\ Disconnect # Ping /\ Disconnect # Farewell
    /\ Health("connected") # Health("disconnected")
    /\ \A t, v, u, w : Message(t, v) = Message(u, w) => t = u /\ v = w
<1>1. \A t, v : Message(t, v).kind = "publish" /\ Message(t, v).topic = t /\ Message(t, v).value = v
  BY DEF Message
<1>2. /\ Farewell.kind = "farewell" /\ Disconnect.kind = "disconnect" /\ Ping.kind = "ping"
      /\ \A word : Health(word).kind = "health" /\ Health(word).word = word
  BY Kinds
<1> QED BY <1>1, <1>2

(* What a sequence is after one element came or went.                      *)
LEMMA Appended ==
    ASSUME NEW S, NEW s \in Seq(S), NEW e \in S
    PROVE  /\ Append(s, e) \in Seq(S)
           /\ Len(Append(s, e)) = Len(s) + 1 /\ Len(s) \in Nat
           /\ \A i \in 1 .. Len(s) : Append(s, e)[i] = s[i]
           /\ Append(s, e)[Len(s) + 1] = e
           /\ s \o <<e>> = Append(s, e)
OBVIOUS

LEMMA AppendedTwo ==
    ASSUME NEW S, NEW s \in Seq(S), NEW d \in S, NEW e \in S
    PROVE  s \o <<d, e>> = Append(Append(s, d), e)
OBVIOUS

LEMMA Shifted ==
    ASSUME NEW S, NEW s \in Seq(S), s # <<>>
    PROVE  /\ Tail(s) \in Seq(S) /\ Head(s) = s[1] /\ Head(s) \in S
           /\ Len(Tail(s)) = Len(s) - 1 /\ Len(s) \in Nat /\ Len(s) > 0
           /\ \A i \in 1 .. Len(Tail(s)) : i + 1 \in 1 .. Len(s) /\ Tail(s)[i] = s[i + 1]
           /\ \A i \in 1 .. Len(s) :
                  i # 1 => i - 1 \in 1 .. Len(Tail(s)) /\ Tail(s)[i - 1] = s[i]
OBVIOUS

-----------------------------------------------------------------------------
(* Rising and Holds, as elements come and go and their bounds move.        *)

LEMMA RisingEmpty ==
    ASSUME NEW low, NEW high
    PROVE  Rising(<<>>, low, high)
BY DEF Rising

(* A bound that gives way on its side keeps it.                            *)
LEMMA RisingWider ==
    ASSUME NEW S, NEW s \in Seq(S),
           NEW low \in [Topics -> Nat], NEW high \in [Topics -> Nat],
           NEW lower \in [Topics -> Nat], NEW higher \in [Topics -> Nat],
           \A t \in Topics : lower[t] <= low[t] /\ high[t] <= higher[t],
           S \subseteq Packet \cup Command,
           Rising(s, low, high)
    PROVE  Rising(s, lower, higher)
<1>1. ASSUME NEW i \in 1 .. Len(s), s[i] \in Report
      PROVE  lower[s[i].topic] <= s[i].value /\ s[i].value <= higher[s[i].topic]
  <2>1. /\ s[i].topic \in Topics /\ s[i].value \in Nat
        /\ low[s[i].topic] <= s[i].value /\ s[i].value <= high[s[i].topic]
    BY <1>1, Kinds DEF Rising
  <2> DEFINE t == s[i].topic
             v == s[i].value
  <2>2. /\ low[t] \in Nat /\ high[t] \in Nat /\ lower[t] \in Nat /\ higher[t] \in Nat
        /\ v \in Nat
        /\ lower[t] <= low[t] /\ high[t] <= higher[t] /\ low[t] <= v /\ v <= high[t]
    BY <2>1
  <2>3. lower[t] <= v /\ v <= higher[t]
    <3> HIDE DEF t, v
    <3> QED BY <2>2
  <2> QED BY <2>3
<1> QED BY <1>1 DEF Rising

(* The rest after the first element.                                       *)
LEMMA RisingTail ==
    ASSUME NEW S, NEW s \in Seq(S), s # <<>>, NEW low, NEW high, Rising(s, low, high)
    PROVE  Rising(Tail(s), low, high)
<1>1. /\ Len(Tail(s)) = Len(s) - 1 /\ Len(s) \in Nat
      /\ \A i \in 1 .. Len(Tail(s)) : i + 1 \in 1 .. Len(s) /\ Tail(s)[i] = s[i + 1]
  BY Shifted
<1>2. ASSUME NEW i \in 1 .. Len(Tail(s)), Tail(s)[i] \in Report
      PROVE  /\ low[Tail(s)[i].topic] <= Tail(s)[i].value
             /\ Tail(s)[i].value <= high[Tail(s)[i].topic]
  BY <1>1, <1>2 DEF Rising
<1>3. ASSUME NEW i \in 1 .. Len(Tail(s)), NEW j \in 1 .. Len(Tail(s)), i < j,
             Tail(s)[i] \in Report, Tail(s)[j] \in Report,
             Tail(s)[i].topic = Tail(s)[j].topic
      PROVE  Tail(s)[i].value <= Tail(s)[j].value
  <2>1. i + 1 \in 1 .. Len(s) /\ j + 1 \in 1 .. Len(s) /\ i + 1 < j + 1
    BY <1>1, <1>3
  <2>2. Tail(s)[i] = s[i + 1] /\ Tail(s)[j] = s[j + 1]
    BY <1>1
  <2> QED BY <1>3, <2>1, <2>2 DEF Rising
<1> QED BY <1>2, <1>3 DEF Rising

(* Once a value has left, it bounds what is behind it.                     *)
LEMMA RisingTaken ==
    ASSUME NEW S, NEW s \in Seq(S), s # <<>>, NEW low \in [Topics -> Nat], NEW high,
           Rising(s, low, high), Head(s) \in Report
    PROVE  Rising(Tail(s), [low EXCEPT ![Head(s).topic] = Head(s).value], high)
<1> DEFINE m == Head(s)
           raised == [low EXCEPT ![m.topic] = m.value]
<1>1. /\ Len(Tail(s)) = Len(s) - 1 /\ Len(s) \in Nat /\ Head(s) = s[1]
      /\ \A i \in 1 .. Len(Tail(s)) : i + 1 \in 1 .. Len(s) /\ Tail(s)[i] = s[i + 1]
  BY Shifted
<1>2. Rising(Tail(s), low, high)
  BY RisingTail
<1>3. ASSUME NEW i \in 1 .. Len(Tail(s)), Tail(s)[i] \in Report
      PROVE  raised[Tail(s)[i].topic] <= Tail(s)[i].value
  <2>1. low[Tail(s)[i].topic] <= Tail(s)[i].value /\ Tail(s)[i].topic \in Topics
    BY <1>2, <1>3, Kinds DEF Rising
  <2>2. CASE Tail(s)[i].topic = m.topic
    <3>1. 1 \in 1 .. Len(s) /\ i + 1 \in 1 .. Len(s) /\ 1 < i + 1 /\ Tail(s)[i] = s[i + 1]
      BY <1>1
    <3>2. s[1].value <= s[i + 1].value
      BY <1>1, <1>3, <2>2, <3>1 DEF Rising
    <3>3. m = s[1] /\ Tail(s)[i] = s[i + 1]
      BY <1>1, <3>1
    <3> QED BY <2>1, <2>2, <3>2, <3>3
  <2>3. CASE Tail(s)[i].topic # m.topic
    BY <2>1, <2>3
  <2> QED BY <2>2, <2>3
<1> QED BY <1>2, <1>3 DEF Rising

(* What is put behind without a value changes nothing.                     *)
LEMMA RisingAppend ==
    ASSUME NEW S, NEW s \in Seq(S), NEW e \in S, e \notin Report,
           NEW low, NEW high, Rising(s, low, high)
    PROVE  Rising(Append(s, e), low, high)
<1>1. /\ Len(Append(s, e)) = Len(s) + 1 /\ Len(s) \in Nat
      /\ \A i \in 1 .. Len(s) : Append(s, e)[i] = s[i]
      /\ Append(s, e)[Len(s) + 1] = e
  BY Appended
<1>2. ASSUME NEW i \in 1 .. Len(Append(s, e)), Append(s, e)[i] \in Report
      PROVE  i \in 1 .. Len(s) /\ Append(s, e)[i] = s[i]
  BY <1>1, <1>2
<1> QED BY <1>2 DEF Rising

(* A newest value is put behind.                                           *)
LEMMA RisingNewest ==
    ASSUME NEW S, NEW s \in Seq(S), NEW t \in Topics, NEW v \in Nat \ {0},
           Message(t, v) \in S, S \subseteq Packet \cup Command,
           NEW low \in [Topics -> Nat], NEW high \in [Topics -> Nat],
           low[t] <= high[t], high[t] <= v, Rising(s, low, high)
    PROVE  Rising(Append(s, Message(t, v)), low, [high EXCEPT ![t] = v])
<1> DEFINE m == Message(t, v)
           a == Append(s, m)
           higher == [high EXCEPT ![t] = v]
<1>1. /\ Len(a) = Len(s) + 1 /\ Len(s) \in Nat
      /\ \A i \in 1 .. Len(s) : a[i] = s[i]
      /\ a[Len(s) + 1] = m
  BY Appended
<1>2. m \in Report /\ m.topic = t /\ m.value = v
  BY Kinds
<1>3. higher \in [Topics -> Nat] /\ \A u \in Topics : low[u] <= low[u] /\ high[u] <= higher[u]
  OBVIOUS
<1>4. Rising(s, low, higher)
  BY <1>3, RisingWider
<1>5. ASSUME NEW i \in 1 .. Len(s), s[i] \in Report, s[i].topic = t
      PROVE  s[i].value <= v
  BY <1>4, <1>5 DEF Rising
<1>6. low[t] <= v /\ v <= higher[t]
  OBVIOUS
<1> HIDE DEF a, m, higher
<1>7. ASSUME NEW i \in 1 .. Len(a), a[i] \in Report
      PROVE  low[a[i].topic] <= a[i].value /\ a[i].value <= higher[a[i].topic]
  <2>1. CASE i = Len(s) + 1
    BY <1>1, <1>2, <1>6, <2>1
  <2>2. CASE i # Len(s) + 1
    <3>1. i \in 1 .. Len(s) /\ a[i] = s[i]
      BY <1>1, <2>2
    <3> QED BY <1>4, <1>7, <3>1 DEF Rising
  <2> QED BY <2>1, <2>2
<1>8. ASSUME NEW i \in 1 .. Len(a), NEW j \in 1 .. Len(a), i < j,
             a[i] \in Report, a[j] \in Report, a[i].topic = a[j].topic
      PROVE  a[i].value <= a[j].value
  <2>1. i \in 1 .. Len(s) /\ a[i] = s[i]
    BY <1>1, <1>8
  <2>2. CASE j = Len(s) + 1
    BY <1>1, <1>2, <1>5, <1>8, <2>1, <2>2
  <2>3. CASE j # Len(s) + 1
    <3>1. j \in 1 .. Len(s) /\ a[j] = s[j]
      BY <1>1, <2>3
    <3> QED BY <1>4, <1>8, <2>1, <3>1 DEF Rising
  <2> QED BY <2>2, <2>3
<1>9. Rising(a, low, higher)
  BY <1>7, <1>8 DEF Rising
<1> QED BY <1>9 DEF a, m, higher

(* What a sequence holds it still holds with more behind it.               *)
LEMMA HoldsAppend ==
    ASSUME NEW S, NEW s \in Seq(S), NEW e \in S, NEW reached, NEW goal, NEW topics,
           Holds(s, reached, goal, topics)
    PROVE  Holds(Append(s, e), reached, goal, topics)
<1>1. /\ Len(Append(s, e)) = Len(s) + 1 /\ Len(s) \in Nat
      /\ \A i \in 1 .. Len(s) : Append(s, e)[i] = s[i]
  BY Appended
<1> SUFFICES ASSUME NEW t \in topics, reached[t] # goal[t]
             PROVE  \E i \in 1 .. Len(Append(s, e)) : Append(s, e)[i] = Message(t, goal[t])
  BY DEF Holds
<1>2. PICK i \in 1 .. Len(s) : s[i] = Message(t, goal[t])
  BY DEF Holds
<1>3. i \in 1 .. Len(Append(s, e))
  BY <1>1
<1> QED BY <1>1, <1>2, <1>3

(* A new goal is held when its message is put behind.                      *)
LEMMA HoldsNewest ==
    ASSUME NEW S, NEW s \in Seq(S), NEW t, NEW v, Message(t, v) \in S,
           NEW reached, NEW goal \in [Topics -> Nat], NEW topics \in SUBSET Topics,
           Holds(s, reached, goal, topics)
    PROVE  Holds(Append(s, Message(t, v)), reached, [goal EXCEPT ![t] = v], topics)
<1> DEFINE a == Append(s, Message(t, v))
<1>1. Len(a) = Len(s) + 1 /\ Len(s) \in Nat /\ a[Len(s) + 1] = Message(t, v)
  BY Appended
<1>2. Holds(a, reached, goal, topics)
  BY HoldsAppend
<1> HIDE DEF a
<1> SUFFICES ASSUME NEW u \in topics
             PROVE  \/ reached[u] = [goal EXCEPT ![t] = v][u]
                    \/ \E i \in 1 .. Len(a) : a[i] = Message(u, [goal EXCEPT ![t] = v][u])
  BY DEF Holds, a
<1>3. CASE u = t
  <2>1. Len(s) + 1 \in 1 .. Len(a) /\ [goal EXCEPT ![t] = v][u] = v
    BY <1>1, <1>3
  <2> QED BY <1>1, <1>3, <2>1
<1>4. CASE u # t
  <2>1. [goal EXCEPT ![t] = v][u] = goal[u]
    BY <1>4
  <2> QED BY <1>2, <2>1 DEF Holds
<1> QED BY <1>3, <1>4

(* A first element that is no message of these topics takes nothing along. *)
LEMMA HoldsTail ==
    ASSUME NEW S, NEW s \in Seq(S), s # <<>>, NEW reached, NEW goal, NEW topics,
           \A t \in topics : \A v : Message(t, v) # Head(s),
           Holds(s, reached, goal, topics)
    PROVE  Holds(Tail(s), reached, goal, topics)
<1> SUFFICES ASSUME NEW t \in topics, reached[t] # goal[t]
             PROVE  \E i \in 1 .. Len(Tail(s)) : Tail(s)[i] = Message(t, goal[t])
  BY DEF Holds
<1>1. PICK i \in 1 .. Len(s) : s[i] = Message(t, goal[t])
  BY DEF Holds
<1>2. i # 1
  BY <1>1, Shifted
<1> QED BY <1>1, <1>2, Shifted

(* A message that left has reached the next stage: its topic is at its     *)
(* goal if it was the goal, and otherwise the goal is still behind it,     *)
(* for no value behind it is older.                                        *)
LEMMA HoldsTaken ==
    ASSUME NEW S, NEW s \in Seq(S), s # <<>>, Head(s) \in Report,
           NEW low \in [Topics -> Nat], NEW goal \in [Topics -> Nat],
           NEW reached \in [Topics -> Nat], NEW topics \in SUBSET Topics,
           \A t \in Topics : reached[t] = low[t] \/ reached[t] = 0,
           \A t \in Topics : reached[t] = goal[t] => low[t] = goal[t] \/ goal[t] = 0,
           Rising(s, low, goal),
           Holds(s, reached, goal, topics)
    PROVE  Holds(Tail(s), [reached EXCEPT ![Head(s).topic] = Head(s).value], goal, topics)
<1> DEFINE m == Head(s)
           next == [reached EXCEPT ![m.topic] = m.value]
<1>1. m \in Report /\ m = s[1] /\ m.topic \in Topics /\ m.value \in Nat \ {0}
      /\ m = Message(m.topic, m.value)
  BY Shifted, Kinds
<1>2. 1 \in 1 .. Len(s)
  BY Shifted
<1>3. low[m.topic] <= m.value /\ m.value <= goal[m.topic]
  BY <1>1, <1>2 DEF Rising
<1> SUFFICES ASSUME NEW t \in topics, next[t] # goal[t]
             PROVE  \E i \in 1 .. Len(Tail(s)) : Tail(s)[i] = Message(t, goal[t])
  BY DEF Holds
<1>4. reached[t] # goal[t]
  <2>1. CASE t = m.topic
    <3>1. next[t] = m.value
      BY <1>1, <2>1
    <3>2. low[t] \in Nat /\ goal[t] \in Nat /\ m.value \in Nat \ {0}
      BY <1>1, <2>1
    <3>3. m.value < goal[t] /\ low[t] <= m.value
      BY <1>3, <2>1, <3>1, <3>2
    <3>4. t \in Topics /\ (reached[t] = goal[t] => low[t] = goal[t] \/ goal[t] = 0)
      OBVIOUS
    <3>5. goal[t] # 0 /\ low[t] # goal[t]
      <4>1. \A l, v, g \in Nat : v < g /\ l <= v => g # 0 /\ l # g
        OBVIOUS
      <4>2. m.value \in Nat
        BY <1>1
      <4> QED BY <3>2, <3>3, <4>1, <4>2
    <3> QED BY <3>4, <3>5
  <2>2. CASE t # m.topic
    BY <2>2
  <2> QED BY <2>1, <2>2
<1>5. PICK i \in 1 .. Len(s) : s[i] = Message(t, goal[t])
  BY <1>4 DEF Holds
<1>6. i # 1
  <2> SUFFICES ASSUME i = 1 PROVE FALSE
    OBVIOUS
  <2>1. t = m.topic /\ goal[t] = m.value
    BY <1>1, <1>5, Different
  <2> QED BY <1>1, <2>1
<1>7. i - 1 \in 1 .. Len(Tail(s)) /\ Tail(s)[i - 1] = s[i]
  BY <1>6, Shifted
<1> QED BY <1>5, <1>7

-----------------------------------------------------------------------------
(* The replay is the retained values, each of them, and nothing else.      *)
LEMMA ReplayIsRetained ==
    ASSUME TypeInv
    PROVE  /\ Replay \in Seq(Report)
           /\ \A i \in 1 .. Len(Replay) : Replay[i].value = retained[Replay[i].topic]
           /\ \A t \in Topics :
                  retained[t] # 0 =>
                    \E i \in 1 .. Len(Replay) : Replay[i] = Message(t, retained[t])
<1> DEFINE D == {u \in Topics : retained[u] # 0}
           M == {Message(t, retained[t]) : t \in D}
           g == [t \in D |-> Message(t, retained[t])]
           n == Cardinality(M)
<1>1. IsFiniteSet(D)
  BY FS_Subset, TelemetryAssumption
<1>2. g \in Surjection(D, M)
  BY DEF Surjection
<1>3. IsFiniteSet(M)
  BY <1>1, <1>2, FS_Surjection
<1>4. n \in Nat /\ ExistsBijection(1 .. n, M)
  BY <1>3, FS_CardinalityType
<1>5. \E f \in [1 .. n -> M] : IsInjective(f)
  BY <1>4 DEF ExistsBijection, Bijection, Injection
<1>6. Replay = CHOOSE f \in [1 .. n -> M] : IsInjective(f)
  BY DEF Replay, SetToSeq
<1>7. Replay \in [1 .. n -> M] /\ IsInjective(Replay)
  BY <1>5, <1>6
<1>8. Cardinality(1 .. n) = n
  BY <1>4, FS_Interval
<1>9. Replay \in Surjection(1 .. n, M)
  <2>1. Replay \in Injection(1 .. n, M)
    BY <1>7 DEF Injection
  <2> HIDE DEF M, n
  <2>2. Cardinality(1 .. n) = Cardinality(M)
    BY <1>8 DEF n
  <2> QED BY <1>3, <2>1, <2>2, FS_Injection
<1>10. \A m \in M : m \in Report /\ m.value = retained[m.topic]
  BY Kinds DEF TypeInv
<1> HIDE DEF M, n
<1>11. Replay \in Seq(M) /\ Len(Replay) = n
  BY <1>4, <1>7
<1>12. \A i \in 1 .. Len(Replay) : Replay[i] \in M
  BY <1>7, <1>11
<1>13. \A m \in M : \E i \in 1 .. Len(Replay) : Replay[i] = m
  BY <1>9, <1>11 DEF Surjection
<1>14. \A t \in Topics : retained[t] # 0 => Message(t, retained[t]) \in M
  BY DEF M
<1>15. Replay \in Seq(Report)
  BY <1>10, <1>11, <1>12
<1> QED BY <1>10, <1>12, <1>13, <1>14, <1>15

-----------------------------------------------------------------------------
(* The steps.  What the broker held newest only moves with what it shows.  *)

History ==
    newest' = [t \in Topics |->
                 IF shown'[t] # shown[t] /\ shown'[t] # 0 THEN shown'[t] ELSE newest[t]]

LEMMA HistoryStays ==
    ASSUME TypeInv, History, shown' = shown \/ shown' = [t \in Topics |-> 0]
    PROVE  newest' = newest
BY DEF TypeInv, History

LEMMA InitIInv == HistoryInit => IInv
<1> SUFFICES ASSUME HistoryInit PROVE IInv
  OBVIOUS
<1>1. TypeInv
  <2>1. <<>> \in Seq(Command) /\ <<>> \in Seq(Packet)
    OBVIOUS
  <2>2. queue \in Seq(Command) /\ wire \in Seq(Packet)
    BY <2>1 DEF HistoryInit, Init
  <2> QED BY <2>2 DEF HistoryInit, Init, TypeInv
<1>2. Stages
  BY DEF HistoryInit, Init, Stages, Rising
<1>3. NothingLost
  BY DEF HistoryInit, Init, NothingLost, Holds, Small
<1>4. FarewellIsLast /\ GoodbyeOnWire /\ GoodbyeSeen /\ SaidIsOnWire /\ PingIsOnWire
  BY DEF HistoryInit, Init, FarewellIsLast, GoodbyeOnWire, GoodbyeSeen, SaidIsOnWire,
         PingIsOnWire
<1> QED BY <1>1, <1>2, <1>3, <1>4 DEF IInv

(* Steps that put nothing anywhere: the stages stay, and a session only    *)
(* ends, unless a failed connect began one with nothing on the wire.       *)
LEMMA OutsideKeepsIInv ==
    ASSUME IInv, History,
           Will \/ BrokerRestarts \/ PathDies \/ PathHeals \/ ConnectFails
    PROVE  IInv'
<1>1. /\ UNCHANGED <<published, accepted, queue, main, said, retained, unanswered, answer>>
      /\ shown' = shown \/ (shown' = [t \in Topics |-> 0] /\ ~session' /\ health' = "none")
      /\ wire' = wire \/ wire' = <<>>
      /\ thread' = thread \/ thread' = "down"
      /\ path' \in BOOLEAN
      /\ session' \in BOOLEAN
      /\ session' => (session /\ wire' = wire) \/ (wire' = <<>> /\ thread = "down" /\ thread' = "down")
      /\ health' = health \/ health' \in {"gone", "none"}
      /\ thread = "ended" => thread' = "ended"
  <2>1. session \in BOOLEAN /\ path \in BOOLEAN
    BY DEF IInv, TypeInv
  <2>2. CASE Will
    BY <2>1, <2>2 DEF Will, clientVars
  <2>3. CASE BrokerRestarts
    BY <2>1, <2>3 DEF BrokerRestarts, clientVars
  <2>4. CASE PathDies \/ PathHeals
    <3>1. /\ UNCHANGED <<published, accepted, queue, main, said, thread, retained,
                        unanswered, answer, wire, session, shown, health>>
          /\ path' \in BOOLEAN
      BY <2>4 DEF PathDies, PathHeals, clientVars, brokerVars
    <3> QED BY <2>1, <3>1
  <2>5. CASE ConnectFails
    <3>1. /\ UNCHANGED <<published, accepted, queue, main, said, retained, unanswered, answer>>
          /\ thread = "down" /\ thread' = "down" /\ shown' = shown
      BY <2>5 DEF ConnectFails, Fall
    <3>2. CASE UNCHANGED <<wire, path, session, health>>
      BY <2>1, <3>1, <3>2
    <3>3. CASE /\ session' = TRUE /\ path' \in BOOLEAN /\ wire' = <<>>
               /\ health' = IF session THEN "gone" ELSE health
      BY <3>1, <3>3
    <3> QED BY <2>5, <3>2, <3>3 DEF ConnectFails
  <2> QED BY <2>2, <2>3, <2>4, <2>5
<1>2. newest' = newest
  BY <1>1, HistoryStays DEF IInv
<1>3. TypeInv'
  <2>1. <<>> \in Seq(Packet)
    OBVIOUS
  <2>2. wire' \in Seq(Packet)
    BY <1>1, <2>1 DEF IInv, TypeInv
  <2>3. shown' \in [Topics -> Nat]
    BY <1>1 DEF IInv, TypeInv
  <2> QED BY <1>1, <1>2, <2>2, <2>3 DEF IInv, TypeInv
<1>4. Stages'
  <2>1. Rising(wire', newest, retained)
    BY <1>1, RisingEmpty DEF IInv, Stages
  <2>2. \A t \in Topics : shown'[t] = newest[t] \/ shown'[t] = 0
    BY <1>1 DEF IInv, Stages
  <2> QED BY <1>1, <1>2, <2>1, <2>2 DEF IInv, Stages
<1>5. NothingLost'
  BY <1>1 DEF IInv, NothingLost
<1>6. FarewellIsLast'
  BY <1>1 DEF IInv, FarewellIsLast, Leaving
<1>7. GoodbyeOnWire'
  <2>1. CASE wire' = <<>>
    BY <2>1 DEF GoodbyeOnWire
  <2>2. CASE wire' = wire /\ (session' => session)
    <3>1. session' => shown' = shown
      BY <1>1
    <3> QED BY <1>1, <2>2, <3>1 DEF IInv, GoodbyeOnWire, Leaving
  <2> QED BY <1>1, <2>1, <2>2
<1>8. GoodbyeSeen'
  BY <1>1 DEF IInv, GoodbyeSeen, Leaving
<1>9. SaidIsOnWire'
  BY <1>1 DEF IInv, SaidIsOnWire
<1>10. PingIsOnWire'
  BY <1>1 DEF IInv, PingIsOnWire
<1> QED BY <1>3, <1>4, <1>5, <1>6, <1>7, <1>8, <1>9, <1>10 DEF IInv

(* A shutdown only moves on, and its process ends.                         *)
LEMMA LeavingKeepsIInv ==
    ASSUME IInv, History, Stop \/ Exit \/ Die
    PROVE  IInv'
<1>1. /\ UNCHANGED <<published, accepted, queue, said, retained, unanswered, answer,
                     wire, path, session, shown, health>>
      /\ main' \in {"asking", "exited"}
      /\ main' = "asking" => main = "running"
      /\ thread' = thread \/ thread' = "ended"
  BY DEF IInv, TypeInv, Stop, Exit, Die, StepMain, brokerVars
<1>2. newest' = newest
  BY <1>1, HistoryStays DEF IInv
<1>3. Leaving => Leaving'
  BY <1>1 DEF Leaving
<1>4. TypeInv'
  BY <1>1, <1>2 DEF IInv, TypeInv
<1>5. Stages' /\ NothingLost'
  BY <1>1, <1>2 DEF IInv, Stages, NothingLost
<1>6. FarewellIsLast' /\ GoodbyeOnWire'
  BY <1>1, <1>3 DEF IInv, FarewellIsLast, GoodbyeOnWire
<1>7. GoodbyeSeen' /\ SaidIsOnWire' /\ PingIsOnWire'
  BY <1>1, <1>3 DEF IInv, GoodbyeSeen, SaidIsOnWire, PingIsOnWire
<1> QED BY <1>4, <1>5, <1>6, <1>7 DEF IInv

LEMMA StutterKeepsIInv ==
    ASSUME IInv, UNCHANGED historyVars
    PROVE  IInv'
<1>1. UNCHANGED <<published, accepted, queue, main, said, thread, retained, unanswered,
                  answer, wire, path, session, shown, health, newest>>
  BY DEF historyVars, vars, clientVars, brokerVars
<1> QED BY <1>1 DEF IInv, TypeInv, Stages, NothingLost, Leaving, FarewellIsLast,
                    GoodbyeOnWire, GoodbyeSeen, SaidIsOnWire, PingIsOnWire

(* A published value goes behind all the others of its topic.              *)
LEMMA PublishKeepsIInv ==
    ASSUME IInv, History, NEW t \in Topics, Publish(t)
    PROVE  IInv'
<1> DEFINE v == published[t] + 1
<1>1. /\ UNCHANGED <<main, said, thread, retained, unanswered, answer, wire, path,
                     session, shown, health>>
      /\ main = "running" /\ published' = [published EXCEPT ![t] = v]
  BY DEF Publish, brokerVars
<1>2. newest' = newest
  BY <1>1, HistoryStays DEF IInv
<1>3. ~Leaving
  BY <1>1 DEF Leaving
<1>4. v \in Nat \ {0} /\ accepted[t] <= v /\ published'[t] = v
  BY <1>1 DEF IInv, TypeInv, Stages
<1>5. CASE UNCHANGED <<queue, accepted>>
  <2>1. TypeInv'
    BY <1>1, <1>2, <1>4, <1>5 DEF IInv, TypeInv
  <2>2. Stages'
    <3>1. \A u \in Topics : accepted[u] <= published'[u]
      BY <1>1, <1>4 DEF IInv, TypeInv, Stages
    <3> QED BY <1>1, <1>2, <1>5, <3>1 DEF IInv, Stages
  <2>3. NothingLost' /\ FarewellIsLast' /\ GoodbyeOnWire' /\ GoodbyeSeen'
        /\ SaidIsOnWire' /\ PingIsOnWire'
    BY <1>1, <1>5 DEF IInv, NothingLost, Leaving, FarewellIsLast, GoodbyeOnWire,
                      GoodbyeSeen, SaidIsOnWire, PingIsOnWire
  <2> QED BY <2>1, <2>2, <2>3 DEF IInv
<1>6. CASE queue' = Append(queue, Message(t, v)) /\ accepted' = [accepted EXCEPT ![t] = v]
  <2>1. Message(t, v) \in Command /\ queue \in Seq(Command)
    BY <1>4, Kinds DEF Command, IInv, TypeInv
  <2>2. TypeInv'
    BY <1>1, <1>2, <1>4, <1>6, <2>1 DEF IInv, TypeInv
  <2>3. Stages'
    <3>1. Rising(queue', retained, accepted')
      BY <1>4, <1>6, <2>1, RisingNewest DEF IInv, TypeInv, Stages
    <3>2. \A u \in Topics : retained[u] <= accepted'[u] /\ accepted'[u] <= published'[u]
      BY <1>1, <1>4, <1>6 DEF IInv, TypeInv, Stages
    <3> QED BY <1>1, <1>2, <3>1, <3>2 DEF IInv, Stages
  <2>4. NothingLost'
    <3>1. Holds(queue', retained, accepted', Small)
      BY <1>6, <2>1, HoldsNewest DEF IInv, TypeInv, NothingLost, Small
    <3> QED BY <1>1, <3>1 DEF IInv, NothingLost
  <2>5. FarewellIsLast'
    <3>1. \A i \in 1 .. Len(queue) : queue[i] # Farewell
      BY <1>3 DEF IInv, FarewellIsLast
    <3>2. \A i \in 1 .. Len(queue') : queue'[i] # Farewell
      BY <1>6, <2>1, <3>1, Appended, Different
    <3> QED BY <3>2 DEF FarewellIsLast
  <2>6. GoodbyeOnWire' /\ GoodbyeSeen'
    BY <1>1, <1>3 DEF IInv, GoodbyeOnWire, GoodbyeSeen
  <2>7. SaidIsOnWire' /\ PingIsOnWire'
    BY <1>1 DEF IInv, SaidIsOnWire, PingIsOnWire
  <2> QED BY <2>2, <2>3, <2>4, <2>5, <2>6, <2>7 DEF IInv
<1>7. Full \/ ~Full
  OBVIOUS
<1> QED BY <1>1, <1>4, <1>5, <1>6 DEF Publish

(* The goodbye goes behind everything that was queued.                     *)
LEMMA AskKeepsIInv ==
    ASSUME IInv, History, Ask
    PROVE  IInv'
<1>1. /\ UNCHANGED <<published, accepted, said, thread, retained, unanswered, answer,
                     wire, path, session, shown, health>>
      /\ main = "asking" /\ main' = "waiting" /\ queue' = Append(queue, Farewell)
  BY DEF Ask, StepMain, brokerVars
<1>2. newest' = newest
  BY <1>1, HistoryStays DEF IInv
<1>3. ~Leaving /\ Leaving'
  BY <1>1 DEF Leaving
<1>4. queue \in Seq(Command) /\ Farewell \in Command /\ Farewell \notin Report
  BY Kinds DEF IInv, TypeInv, Command
<1>5. queue' \in Seq(Command)
  BY <1>1, <1>4, Appended
<1>6. TypeInv'
  BY <1>1, <1>2, <1>5 DEF IInv, TypeInv
<1>7. Stages'
  <2>1. Rising(queue', retained, accepted)
    BY <1>1, <1>4, RisingAppend DEF IInv, Stages
  <2> QED BY <1>1, <1>2, <2>1 DEF IInv, Stages
<1>8. NothingLost'
  <2>1. Holds(queue', retained, accepted, Small)
    BY <1>1, <1>4, HoldsAppend DEF IInv, NothingLost
  <2> QED BY <1>1, <2>1 DEF IInv, NothingLost
<1>9. FarewellIsLast'
  <2>1. \A i \in 1 .. Len(queue) : queue[i] # Farewell
    BY <1>3 DEF IInv, FarewellIsLast
  <2>2. /\ Len(queue') = Len(queue) + 1 /\ Len(queue) \in Nat
        /\ \A i \in 1 .. Len(queue) : queue'[i] = queue[i]
    BY <1>1, <1>4, Appended
  <2>3. \A i \in 1 .. Len(queue') : queue'[i] = Farewell => i = Len(queue')
    BY <2>1, <2>2
  <2> QED BY <1>3, <2>3 DEF FarewellIsLast
<1>10. GoodbyeOnWire' /\ GoodbyeSeen'
  BY <1>1, <1>3 DEF IInv, GoodbyeOnWire, GoodbyeSeen
<1>11. SaidIsOnWire' /\ PingIsOnWire'
  BY <1>1 DEF IInv, SaidIsOnWire, PingIsOnWire
<1> QED BY <1>6, <1>7, <1>8, <1>9, <1>10, <1>11 DEF IInv

(* A new session starts from what is retained, all of it.                  *)
LEMMA ConnectKeepsIInv ==
    ASSUME IInv, History, Connect
    PROVE  IInv'
<1>1. /\ UNCHANGED <<published, accepted, queue, main, said, retained, shown>>
      /\ thread = "down" /\ thread' = "up" /\ unanswered' = 0
      /\ answer' = FALSE /\ session' = TRUE /\ path' = TRUE
      /\ wire' = <<Health("connected")>> \o Replay
      /\ health' = IF session THEN "gone" ELSE health
  BY DEF Connect
<1>2. newest' = newest
  BY <1>1, HistoryStays DEF IInv
<1>3. Leaving' = Leaving
  BY <1>1 DEF Leaving
<1>4. /\ Replay \in Seq(Report)
      /\ \A i \in 1 .. Len(Replay) : Replay[i].value = retained[Replay[i].topic]
      /\ \A t \in Topics :
             retained[t] # 0 => \E i \in 1 .. Len(Replay) : Replay[i] = Message(t, retained[t])
  BY ReplayIsRetained DEF IInv
<1>5. /\ Len(Replay) \in Nat
      /\ \A i \in 1 .. Len(Replay) : Replay[i] \in Report /\ Replay[i] \in Packet
  BY <1>4 DEF Packet
<1>6. /\ wire' \in Seq(Packet) /\ Len(wire') = Len(Replay) + 1
      /\ wire'[1] = Health("connected")
      /\ \A i \in 1 .. Len(Replay) : wire'[i + 1] = Replay[i]
      /\ \A i \in 1 .. Len(wire') :
             i # 1 => i - 1 \in 1 .. Len(Replay) /\ wire'[i] = Replay[i - 1]
  <2> DEFINE r == Replay
  <2>1. r \in Seq(Packet) /\ <<Health("connected")>> \in Seq(Packet)
    BY <1>4, <1>5 DEF Packet
  <2>2. wire' = <<Health("connected")>> \o r
    BY <1>1
  <2> HIDE DEF r
  <2>3. /\ wire' \in Seq(Packet) /\ Len(wire') = Len(r) + 1 /\ Len(r) \in Nat
        /\ wire'[1] = Health("connected")
        /\ \A i \in 1 .. Len(r) : wire'[i + 1] = r[i]
        /\ \A i \in 1 .. Len(wire') : i # 1 => i - 1 \in 1 .. Len(r) /\ wire'[i] = r[i - 1]
    BY <2>1, <2>2
  <2> QED BY <2>3 DEF r
<1>7. TypeInv'
  BY <1>1, <1>2, <1>6 DEF IInv, TypeInv
<1>8. \A i \in 1 .. Len(wire') : wire'[i] \in Report =>
        wire'[i].value = retained[wire'[i].topic] /\ wire'[i].topic \in Topics
  <2> SUFFICES ASSUME NEW i \in 1 .. Len(wire'), wire'[i] \in Report
               PROVE  wire'[i].value = retained[wire'[i].topic] /\ wire'[i].topic \in Topics
    OBVIOUS
  <2>1. wire'[i].topic \in Topics
    BY Kinds
  <2>2. i # 1
    BY <1>6, Kinds
  <2>3. i - 1 \in 1 .. Len(Replay) /\ wire'[i] = Replay[i - 1]
    BY <1>6, <2>2
  <2> QED BY <1>4, <2>1, <2>3
<1>9. Stages'
  <2>1. Rising(wire', newest, retained)
    BY <1>8 DEF Rising, IInv, TypeInv, Stages
  <2> QED BY <1>1, <1>2, <2>1 DEF IInv, Stages
<1>10. NothingLost'
  <2>1. Holds(wire', shown, retained, Topics)
    <3> SUFFICES ASSUME NEW t \in Topics, shown[t] # retained[t]
                 PROVE  \E i \in 1 .. Len(wire') : wire'[i] = Message(t, retained[t])
      BY DEF Holds
    <3>1. retained[t] # 0
      BY DEF IInv, TypeInv, Stages
    <3>2. PICK i \in 1 .. Len(Replay) : Replay[i] = Message(t, retained[t])
      BY <1>4, <3>1
    <3>3. i + 1 \in 1 .. Len(wire') /\ wire'[i + 1] = Message(t, retained[t])
      BY <1>5, <1>6, <3>2
    <3> QED BY <3>3
  <2> QED BY <1>1, <2>1 DEF IInv, NothingLost
<1>11. FarewellIsLast'
  BY <1>1, <1>3 DEF IInv, FarewellIsLast
<1>12. GoodbyeOnWire'
  <2>1. \A i \in 1 .. Len(wire') : wire'[i] # Health("disconnected")
    BY <1>5, <1>6, Kinds, Different
  <2> QED BY <2>1 DEF GoodbyeOnWire
<1>13. GoodbyeSeen'
  BY <1>1, <1>3 DEF IInv, GoodbyeSeen
<1>14. SaidIsOnWire' /\ PingIsOnWire'
  BY <1>1 DEF IInv, SaidIsOnWire, PingIsOnWire
<1> QED BY <1>7, <1>9, <1>10, <1>11, <1>12, <1>13, <1>14 DEF IInv

(* What a step that appends to the wire keeps.                             *)
LEMMA WriteKeeps ==
    ASSUME IInv, NEW e \in Packet, wire' = Append(wire, e)
    PROVE  /\ wire' \in Seq(Packet)
           /\ e \notin Report => Rising(wire', newest, retained)
           /\ Holds(wire, shown, retained, Topics) => Holds(wire', shown, retained, Topics)
           /\ (\E i \in 1 .. Len(wire) : wire[i] = Ping) => \E i \in 1 .. Len(wire') : wire'[i] = Ping
           /\ (\E i \in 1 .. Len(wire) : wire[i] = Disconnect)
                => \E i \in 1 .. Len(wire') : wire'[i] = Disconnect
           /\ Len(wire') = Len(wire) + 1 /\ Len(wire) \in Nat
           /\ \A i \in 1 .. Len(wire) : i \in 1 .. Len(wire') /\ wire'[i] = wire[i]
           /\ wire'[Len(wire')] = e /\ Len(wire') \in 1 .. Len(wire')
<1>1. wire \in Seq(Packet)
  BY DEF IInv, TypeInv
<1>2. /\ wire' \in Seq(Packet)
      /\ Len(wire') = Len(wire) + 1 /\ Len(wire) \in Nat
      /\ \A i \in 1 .. Len(wire) : wire'[i] = wire[i]
      /\ wire'[Len(wire) + 1] = e
  BY <1>1, Appended
<1>3. e \notin Report => Rising(wire', newest, retained)
  BY <1>1, RisingAppend DEF IInv, Stages
<1>4. Holds(wire, shown, retained, Topics) => Holds(wire', shown, retained, Topics)
  BY <1>1, HoldsAppend
<1>5. \A i \in 1 .. Len(wire) : i \in 1 .. Len(wire') /\ wire'[i] = wire[i]
  BY <1>2
<1> QED BY <1>2, <1>3, <1>4, <1>5

(* The goodbye stays where it is when more is written, if it still may be. *)
LEMMA WriteKeepsGoodbye ==
    ASSUME IInv, NEW e \in Packet, wire' = Append(wire, e), e # Health("disconnected"),
           UNCHANGED <<queue, main, session, shown, retained>>
    PROVE  GoodbyeOnWire'
<1> SUFFICES ASSUME NEW i \in 1 .. Len(wire'), wire'[i] = Health("disconnected")
             PROVE  /\ Leaving' /\ queue' = <<>>
                    /\ session' =>
                         \A t \in Small :
                             \/ shown'[t] = retained'[t]
                             \/ \E j \in 1 .. i - 1 : wire'[j] = Message(t, retained'[t])
  BY DEF GoodbyeOnWire
<1>1. /\ Len(wire') = Len(wire) + 1 /\ Len(wire) \in Nat
      /\ \A k \in 1 .. Len(wire) : wire'[k] = wire[k]
      /\ wire'[Len(wire')] = e
  BY WriteKeeps
<1>2. i \in 1 .. Len(wire) /\ wire[i] = Health("disconnected")
  BY <1>1
<1>3. /\ Leaving /\ queue = <<>>
      /\ session =>
           \A t \in Small :
               \/ shown[t] = retained[t]
               \/ \E j \in 1 .. i - 1 : wire[j] = Message(t, retained[t])
  BY <1>2 DEF IInv, GoodbyeOnWire
<1>4. \A j \in 1 .. i - 1 : wire'[j] = wire[j]
  BY <1>1, <1>2
<1> QED BY <1>3, <1>4 DEF Leaving

(* A ping is on the wire until it is answered.                             *)
LEMMA TickKeepsIInv ==
    ASSUME IInv, History, Tick
    PROVE  IInv'
<1>1. /\ UNCHANGED <<published, accepted, queue, main, said, retained, path, session,
                     shown, health>>
      /\ thread = "up" /\ thread' \in {"up", "down"}
  BY DEF Tick, WriteFails, Fall, brokerVars
<1>2. newest' = newest
  BY <1>1, HistoryStays DEF IInv
<1>3. CASE WriteFails /\ UNCHANGED <<unanswered, answer>>
  <2>1. wire' = wire /\ thread' = "down"
    BY <1>3 DEF WriteFails, Fall
  <2>2. TypeInv'
    BY <1>1, <1>2, <1>3, <2>1 DEF IInv, TypeInv
  <2>3. Stages' /\ NothingLost'
    BY <1>1, <1>2, <2>1 DEF IInv, Stages, NothingLost
  <2>4. FarewellIsLast' /\ GoodbyeOnWire' /\ GoodbyeSeen' /\ SaidIsOnWire' /\ PingIsOnWire'
    BY <1>1, <2>1 DEF IInv, Leaving, FarewellIsLast, GoodbyeOnWire, GoodbyeSeen,
                      SaidIsOnWire, PingIsOnWire
  <2> QED BY <2>2, <2>3, <2>4 DEF IInv
<1>4. CASE /\ wire' = Append(wire, Ping)
           /\ answer' = FALSE
           /\ unanswered' = IF answer THEN 0 ELSE unanswered + 1
  <2>1. Ping \in Packet /\ Ping \notin Report /\ Ping # Health("disconnected")
    BY Kinds, Different DEF Packet
  <2>2. TypeInv'
    <3>1. wire' \in Seq(Packet) /\ unanswered' \in Nat
      BY <1>4, <2>1, WriteKeeps DEF IInv, TypeInv
    <3> QED BY <1>1, <1>2, <1>4, <3>1 DEF IInv, TypeInv
  <2>3. Stages'
    <3>1. Rising(wire', newest, retained)
      BY <1>4, <2>1, WriteKeeps
    <3> QED BY <1>1, <1>2, <3>1 DEF IInv, Stages
  <2>4. NothingLost'
    <3>1. session => Holds(wire', shown, retained, Topics)
      BY <1>1, <1>4, <2>1, WriteKeeps DEF IInv, NothingLost
    <3> QED BY <1>1, <3>1 DEF IInv, NothingLost
  <2>5. FarewellIsLast' /\ GoodbyeSeen'
    BY <1>1 DEF IInv, FarewellIsLast, GoodbyeSeen, Leaving
  <2>6. GoodbyeOnWire'
    BY <1>1, <1>4, <2>1, WriteKeepsGoodbye
  <2>7. SaidIsOnWire'
    BY <1>1 DEF IInv, SaidIsOnWire
  <2>8. PingIsOnWire'
    <3>1. \E i \in 1 .. Len(wire') : wire'[i] = Ping
      BY <1>4, <2>1, WriteKeeps
    <3> QED BY <3>1 DEF PingIsOnWire
  <2> QED BY <2>2, <2>3, <2>4, <2>5, <2>6, <2>7, <2>8 DEF IInv
<1> QED BY <1>3, <1>4 DEF Tick

(* A goodbye that is the last of a queue is the last of what is behind it. *)
LEMMA TakeKeepsFarewell ==
    ASSUME IInv, queue # <<>>, queue' = Tail(queue), main' = main
    PROVE  FarewellIsLast'
<1>1. /\ Len(queue') = Len(queue) - 1
      /\ \A i \in 1 .. Len(queue') : i + 1 \in 1 .. Len(queue) /\ queue'[i] = queue[i + 1]
      /\ Len(queue) \in Nat
  BY Shifted DEF IInv, TypeInv
<1> SUFFICES ASSUME NEW i \in 1 .. Len(queue'), queue'[i] = Farewell
             PROVE  i = Len(queue') /\ Leaving'
  BY DEF FarewellIsLast
<1>2. i + 1 \in 1 .. Len(queue) /\ queue[i + 1] = Farewell
  BY <1>1
<1>3. i + 1 = Len(queue) /\ Leaving
  BY <1>2 DEF IInv, FarewellIsLast
<1>4. i = Len(queue')
  <2>1. \A a, b, c \in Nat : a = b - 1 /\ c + 1 = b => c = a
    OBVIOUS
  <2>2. Len(queue) \in Nat /\ Len(queue') \in Nat /\ i \in Nat
    BY Shifted DEF IInv, TypeInv
  <2>3. Len(queue') = Len(queue) - 1 /\ i + 1 = Len(queue)
    BY <1>1, <1>3
  <2> QED BY <2>1, <2>2, <2>3
<1>5. Leaving'
  BY <1>3 DEF Leaving
<1> QED BY <1>4, <1>5

(* A message leaves the queue for the wire, or is kept for the next        *)
(* connection.                                                             *)
LEMMA PumpPublishKeepsIInv ==
    ASSUME IInv, History, PumpPublish
    PROVE  IInv'
<1> DEFINE m == Head(queue)
           t == m.topic
           v == m.value
<1>1. /\ UNCHANGED <<published, accepted, main, said, unanswered, path, answer, session,
                     shown, health>>
      /\ thread = "up" /\ queue # <<>> /\ queue' = Tail(queue) /\ m.kind = "publish"
  BY DEF PumpPublish, Takes, brokerVars
<1>2. newest' = newest
  BY <1>1, HistoryStays DEF IInv
<1>3. /\ queue \in Seq(Command) /\ m \in Command /\ queue' \in Seq(Command)
      /\ m = queue[1] /\ 1 \in 1 .. Len(queue)
  BY <1>1, Shifted DEF IInv, TypeInv
<1>4. m \in Report /\ t \in Topics /\ v \in Nat \ {0} /\ m = Message(t, v)
  BY <1>1, <1>3, Kinds DEF Command
<1>5. retained[t] <= v /\ v <= accepted[t]
  BY <1>3, <1>4 DEF IInv, Stages, Rising
<1>6. \A i \in 1 .. Len(wire) : wire[i] # Health("disconnected")
  BY <1>1 DEF IInv, GoodbyeOnWire
<1>7. ~said
  BY <1>1 DEF IInv, SaidIsOnWire, TypeInv
<1>8. FarewellIsLast' /\ GoodbyeSeen' /\ SaidIsOnWire'
  <2>1. FarewellIsLast'
    BY <1>1, TakeKeepsFarewell
  <2> QED BY <1>1, <1>7, <2>1 DEF IInv, GoodbyeSeen, Leaving, SaidIsOnWire
<1>9. CASE t \in Oversized /\ UNCHANGED <<retained, wire, thread, backoff>>
  <2>1. TypeInv'
    BY <1>1, <1>2, <1>3, <1>9 DEF IInv, TypeInv
  <2>2. Stages'
    <3>1. Rising(queue', retained, accepted)
      BY <1>1, <1>3, RisingTail DEF IInv, Stages
    <3> QED BY <1>1, <1>2, <1>9, <3>1 DEF IInv, Stages
  <2>3. NothingLost'
    <3>1. \A u \in Small : \A w : Message(u, w) # m
      BY <1>4, <1>9, Different DEF Small
    <3>2. Holds(queue', retained, accepted, Small)
      BY <1>1, <1>3, <3>1, HoldsTail DEF IInv, NothingLost
    <3> QED BY <1>1, <1>9, <3>2 DEF IInv, NothingLost
  <2>4. GoodbyeOnWire' /\ PingIsOnWire'
    BY <1>1, <1>6, <1>9 DEF IInv, GoodbyeOnWire, PingIsOnWire
  <2> QED BY <1>8, <2>1, <2>2, <2>3, <2>4 DEF IInv
<1>10. ASSUME retained' = [retained EXCEPT ![t] = v],
              \/ wire' = Append(wire, m) /\ thread' = thread
              \/ wire' = wire /\ thread' = "down"
       PROVE  IInv'
  <2>1. wire' \in Seq(Packet) /\ m \in Packet /\ wire \in Seq(Packet)
    BY <1>4, <1>10, WriteKeeps DEF IInv, TypeInv, Packet
  <2>2. TypeInv'
    BY <1>1, <1>2, <1>3, <1>4, <1>10, <2>1 DEF IInv, TypeInv
  <2>3. \A u \in Topics :
           /\ newest[u] <= retained'[u] /\ retained'[u] <= accepted[u]
           /\ retained[u] <= retained'[u]
    BY <1>4, <1>5, <1>10 DEF IInv, TypeInv, Stages
  <2>4. Stages'
    <3>1. Rising(queue', retained', accepted)
      BY <1>1, <1>3, <1>4, <1>10, RisingTaken DEF IInv, TypeInv, Stages
    <3>2. Rising(wire', newest, retained')
      <4>1. CASE wire' = wire
        <5>1. retained' \in [Topics -> Nat]
          BY <2>2 DEF TypeInv
        <5>2. \A u \in Topics : newest[u] <= newest[u] /\ retained[u] <= retained'[u]
          BY <2>3 DEF IInv, TypeInv
        <5>3. Rising(wire, newest, retained')
          BY <2>1, <5>1, <5>2, RisingWider DEF IInv, TypeInv, Stages
        <5> QED BY <4>1, <5>3
      <4>2. CASE wire' = Append(wire, m)
        <5>1. newest[t] <= retained[t]
          BY <1>4 DEF IInv, Stages
        <5>2. Rising(Append(wire, Message(t, v)), newest, [retained EXCEPT ![t] = v])
          BY <1>4, <1>5, <2>1, <5>1, RisingNewest DEF IInv, TypeInv, Stages
        <5> QED BY <1>4, <1>10, <4>2, <5>2
      <4> QED BY <1>10, <4>1, <4>2
    <3> QED BY <1>1, <1>2, <2>3, <3>1, <3>2 DEF IInv, Stages
  <2>5. NothingLost'
    <3>1. Holds(queue', retained', accepted, Small)
      <4>1. \A u \in Topics : retained[u] = accepted[u] => retained[u] = accepted[u] \/ accepted[u] = 0
        OBVIOUS
      <4> QED BY <1>1, <1>3, <1>4, <1>10, <4>1, HoldsTaken
              DEF IInv, TypeInv, Stages, NothingLost, Small
    <3>2. thread' = "up" /\ session => Holds(wire', shown, retained', Topics)
      <4> SUFFICES ASSUME thread' = "up", session
                   PROVE  Holds(wire', shown, retained', Topics)
        OBVIOUS
      <4>1. Holds(wire, shown, retained, Topics)
        BY <1>1 DEF IInv, NothingLost
      <4>2. wire' = Append(wire, Message(t, v))
        BY <1>4, <1>10
      <4>3. /\ Message(t, v) \in Packet /\ Topics \in SUBSET Topics
            /\ retained \in [Topics -> Nat]
        BY <1>4, <2>1 DEF IInv, TypeInv
      <4> HIDE DEF t, v
      <4>4. Holds(Append(wire, Message(t, v)), shown, [retained EXCEPT ![t] = v], Topics)
        BY <2>1, <4>1, <4>3, HoldsNewest
      <4> QED BY <1>10, <4>2, <4>4
    <3> QED BY <1>1, <3>1, <3>2 DEF NothingLost
  <2>6. GoodbyeOnWire'
    <3>1. m # Health("disconnected")
      BY <1>4, Different
    <3>2. \A i \in 1 .. Len(wire') : wire'[i] # Health("disconnected")
      <4>1. CASE wire' = wire
        BY <1>6, <4>1
      <4>2. CASE wire' = Append(wire, m)
        BY <1>6, <2>1, <3>1, <4>2, Appended
      <4> QED BY <1>10, <4>1, <4>2
    <3> QED BY <3>2 DEF GoodbyeOnWire
  <2>7. PingIsOnWire'
    <3>1. (\E i \in 1 .. Len(wire) : wire[i] = Ping) => \E i \in 1 .. Len(wire') : wire'[i] = Ping
      BY <1>10, <2>1, WriteKeeps
    <3> QED BY <1>1, <3>1 DEF IInv, PingIsOnWire
  <2> QED BY <1>8, <2>2, <2>4, <2>5, <2>6, <2>7 DEF IInv
<1>11. CASE (Writes(<<m>>) \/ WriteFails) /\ Retain(m)
  <2>1. retained' = [retained EXCEPT ![t] = v]
    BY <1>11 DEF Retain
  <2>2. wire \o <<m>> = Append(wire, m)
    <3>1. wire \in Seq(Packet) /\ m \in Packet
      BY <1>4 DEF IInv, TypeInv, Packet
    <3> QED BY <3>1, Appended
  <2>3. \/ wire' = Append(wire, m) /\ thread' = thread
        \/ wire' = wire /\ thread' = "down"
    BY <1>11, <2>2 DEF Writes, WriteFails, Fall
  <2> QED BY <1>10, <2>1, <2>3
<1> QED BY <1>9, <1>11 DEF PumpPublish

(* The goodbye leaves the queue last.  It is written whole, or half, or    *)
(* not at all.                                                             *)
LEMMA PumpFarewellKeepsIInv ==
    ASSUME IInv, History, PumpFarewell
    PROVE  IInv'
<1> DEFINE bye == Health("disconnected")
<1>1. /\ UNCHANGED <<published, accepted, main, retained, unanswered, path, answer,
                     session, shown, health>>
      /\ thread = "up" /\ queue # <<>> /\ queue' = Tail(queue)
      /\ Head(queue).kind = "farewell"
  BY DEF PumpFarewell, Takes, brokerVars
<1>2. newest' = newest
  BY <1>1, HistoryStays DEF IInv
<1>3. /\ queue \in Seq(Command) /\ queue' \in Seq(Command) /\ Head(queue) = queue[1]
      /\ Head(queue) \in Command /\ 1 \in 1 .. Len(queue)
      /\ Len(queue') = Len(queue) - 1 /\ Len(queue) \in Nat
  BY <1>1, Shifted DEF IInv, TypeInv
<1>4. Head(queue) = Farewell
  BY <1>1, <1>3, Kinds DEF Command
<1>5. Len(queue) = 1 /\ Leaving
  BY <1>3, <1>4 DEF IInv, FarewellIsLast
<1>6. queue' = <<>> /\ Leaving'
  BY <1>1, <1>3, <1>5 DEF Leaving
<1>7. ~said
  BY <1>1 DEF IInv, SaidIsOnWire, TypeInv
<1>8. \A i \in 1 .. Len(wire) : wire[i] # bye
  BY <1>1 DEF IInv, GoodbyeOnWire
<1>9. session => Holds(wire, shown, retained, Topics)
  BY <1>1 DEF IInv, NothingLost
<1>10. Holds(queue', retained, accepted, Small)
  <2>1. \A u \in Small : \A w : Message(u, w) # Head(queue)
    BY <1>4, Different
  <2> QED BY <1>1, <1>3, <2>1, HoldsTail DEF IInv, NothingLost
<1>11. Rising(queue', retained, accepted)
  BY <1>6, RisingEmpty
<1>12. FarewellIsLast' /\ GoodbyeSeen'
  <2>1. Len(queue') = 0
    BY <1>6
  <2> QED BY <1>1, <1>6, <2>1 DEF IInv, FarewellIsLast, GoodbyeSeen
<1>13. /\ bye \in Packet /\ bye \notin Report /\ Disconnect \in Packet /\ Disconnect \notin Report
       /\ bye # Disconnect /\ wire \in Seq(Packet)
  BY Kinds, Different DEF IInv, TypeInv, Packet
<1>14. ASSUME wire' = wire, thread' = "down", said' = said
       PROVE  IInv'
  <2>1. TypeInv' /\ Stages' /\ NothingLost'
    BY <1>1, <1>2, <1>3, <1>10, <1>11, <1>14 DEF IInv, TypeInv, Stages, NothingLost
  <2>2. GoodbyeOnWire' /\ SaidIsOnWire' /\ PingIsOnWire'
    BY <1>1, <1>7, <1>8, <1>14 DEF IInv, GoodbyeOnWire, SaidIsOnWire, PingIsOnWire
  <2> QED BY <1>12, <2>1, <2>2 DEF IInv
<1>15. ASSUME NEW w, w = Append(wire, bye), thread' \in {"down", "ended"},
              \/ wire' = w /\ said' = said
              \/ wire' = Append(w, Disconnect) /\ thread' = "ended"
       PROVE  IInv'
  <2>1. /\ w \in Seq(Packet) /\ Len(w) = Len(wire) + 1 /\ Len(wire) \in Nat
        /\ \A i \in 1 .. Len(wire) : w[i] = wire[i]
        /\ Rising(w, newest, retained)
    BY <1>13, <1>15, Appended, RisingAppend DEF IInv, Stages
  <2>2. /\ wire' \in Seq(Packet) /\ Rising(wire', newest, retained)
        /\ \A i \in 1 .. Len(wire) : wire'[i] = wire[i]
        /\ \A i \in 1 .. Len(wire') : wire'[i] = bye => i = Len(wire) + 1
    <3>1. CASE wire' = w
      BY <1>8, <2>1, <3>1
    <3>2. CASE wire' = Append(w, Disconnect)
      <4>1. /\ wire' \in Seq(Packet) /\ Rising(wire', newest, retained)
            /\ Len(wire') = Len(w) + 1 /\ wire'[Len(w) + 1] = Disconnect
            /\ \A i \in 1 .. Len(w) : wire'[i] = w[i]
        BY <1>13, <2>1, <3>2, Appended, RisingAppend
      <4>2. \A i \in 1 .. Len(wire) : wire'[i] = wire[i]
        BY <2>1, <4>1
      <4>3. ASSUME NEW i \in 1 .. Len(wire'), wire'[i] = bye
            PROVE  i = Len(wire) + 1
        <5>1. i # Len(w) + 1
          BY <1>13, <4>1, <4>3
        <5>2. i \notin 1 .. Len(wire)
          BY <1>8, <4>2, <4>3
        <5> QED BY <2>1, <4>1, <5>1, <5>2
      <4> QED BY <4>1, <4>2, <4>3
    <3> QED BY <1>15, <3>1, <3>2
  <2>3. TypeInv' /\ Stages'
    <3>1. said' \in BOOLEAN /\ thread' \in {"down", "up", "ended"}
      BY <1>15 DEF IInv, TypeInv, PumpFarewell, WriteFails
    <3> QED BY <1>1, <1>2, <1>3, <1>11, <2>2, <3>1 DEF IInv, TypeInv, Stages
  <2>4. NothingLost' /\ PingIsOnWire'
    BY <1>1, <1>10, <1>15 DEF NothingLost, PingIsOnWire
  <2>5. GoodbyeOnWire'
    <3> SUFFICES ASSUME NEW i \in 1 .. Len(wire'), wire'[i] = bye, session',
                        NEW t \in Small, shown'[t] # retained'[t]
                 PROVE  \E j \in 1 .. i - 1 : wire'[j] = Message(t, retained'[t])
      BY <1>6 DEF GoodbyeOnWire
    <3>1. t \in Topics
      BY DEF Small
    <3>2. PICK j \in 1 .. Len(wire) : wire[j] = Message(t, retained[t])
      BY <1>1, <1>9, <3>1 DEF Holds
    <3>3. i = Len(wire) + 1
      BY <2>2
    <3>4. j \in 1 .. i - 1 /\ wire'[j] = Message(t, retained'[t])
      BY <1>1, <2>1, <2>2, <3>2, <3>3
    <3> QED BY <3>4
  <2>6. SaidIsOnWire'
    <3>1. CASE said' = said
      BY <1>7, <3>1 DEF SaidIsOnWire
    <3>2. CASE wire' = Append(w, Disconnect) /\ thread' = "ended"
      <4>1. Len(wire') \in 1 .. Len(wire') /\ wire'[Len(wire')] = Disconnect
        BY <1>13, <2>1, <3>2, Appended
      <4> QED BY <3>2, <4>1 DEF SaidIsOnWire
    <3> QED BY <1>15, <3>1, <3>2
  <2> QED BY <1>12, <2>3, <2>4, <2>5, <2>6 DEF IInv
<1>16. CASE /\ wire' = wire \o SayGoodbye
            /\ said' = TRUE
            /\ thread' = "ended"
  <2>1. wire' = Append(Append(wire, bye), Disconnect)
    BY <1>13, <1>16, AppendedTwo DEF SayGoodbye
  <2> QED BY <1>15, <1>16, <2>1
<1>17. CASE WriteFails /\ UNCHANGED said
  BY <1>14, <1>17 DEF WriteFails, Fall
<1>18. CASE wire' = Append(wire, Head(SayGoodbye)) /\ Fall /\ UNCHANGED said
  <2>1. wire' = Append(wire, bye) /\ thread' = "down"
    BY <1>18 DEF SayGoodbye, Fall
  <2> QED BY <1>15, <1>18, <2>1
<1> QED BY <1>16, <1>17, <1>18 DEF PumpFarewell

(* A value that is read is the newest the broker ever held.                *)
LEMMA ReadNewest ==
    ASSUME IInv, History, Deliver, Head(wire) \in Report
    PROVE  newest' = [newest EXCEPT ![Head(wire).topic] = Head(wire).value]
<1> DEFINE t == Head(wire).topic
           v == Head(wire).value
<1>1. t \in Topics /\ v \in Nat \ {0} /\ Head(wire).kind = "publish"
  BY Kinds
<1>2. shown' = [shown EXCEPT ![t] = v] /\ shown \in [Topics -> Nat]
  BY <1>1 DEF Deliver, IInv, TypeInv
<1>3. shown[t] = newest[t] \/ shown[t] = 0
  BY <1>1 DEF IInv, Stages
<1>4. v # 0 /\ newest \in [Topics -> Nat]
  BY <1>1 DEF IInv, TypeInv
<1>5. \A u \in Topics :
        (IF shown'[u] # shown[u] /\ shown'[u] # 0 THEN shown'[u] ELSE newest[u])
          = [newest EXCEPT ![t] = v][u]
  BY <1>1, <1>2, <1>3, <1>4
<1> QED BY <1>1, <1>4, <1>5 DEF History

(* What a packet does to the broker's topics: a value it reads is no older *)
(* than the newest it saw, so a topic that was up to date stays so.        *)
LEMMA ReadValues ==
    ASSUME IInv, History, Deliver
    PROVE  /\ Stages' /\ shown' \in [Topics -> Nat] /\ newest' \in [Topics -> Nat]
           /\ \A u \in Topics : shown[u] = retained[u] => shown'[u] = retained[u]
           /\ \A u \in Topics : Head(wire) = Message(u, retained[u]) => shown'[u] = retained[u]
<1> DEFINE m == Head(wire)
           t == m.topic
           v == m.value
<1>1. /\ UNCHANGED <<published, accepted, queue, retained>>
      /\ wire # <<>> /\ wire' = Tail(wire)
      /\ shown' = IF m.kind = "publish" THEN [shown EXCEPT ![t] = v] ELSE shown
  BY DEF Deliver, clientVars
<1>2. wire \in Seq(Packet) /\ m = wire[1] /\ m \in Packet /\ 1 \in 1 .. Len(wire)
  BY <1>1, Shifted DEF IInv, TypeInv
<1>3. CASE m \in Report
  <2>1. t \in Topics /\ v \in Nat \ {0} /\ m = Message(t, v) /\ m.kind = "publish"
    BY <1>3, Kinds
  <2>2. shown' = [shown EXCEPT ![t] = v] /\ shown' \in [Topics -> Nat]
    BY <1>1, <2>1 DEF IInv, TypeInv
  <2>3. newest[t] <= v /\ v <= retained[t]
    BY <1>2, <1>3 DEF IInv, Stages, Rising
  <2>4. newest' = [newest EXCEPT ![t] = v]
    BY <1>3, ReadNewest
  <2>5. newest' \in [Topics -> Nat]
    BY <2>1, <2>4 DEF IInv, TypeInv
  <2>6. Rising(wire', newest', retained)
    <3>1. Rising(Tail(wire), [newest EXCEPT ![Head(wire).topic] = Head(wire).value], retained)
      BY <1>1, <1>2, <1>3, RisingTaken DEF IInv, TypeInv, Stages
    <3> QED BY <1>1, <2>4, <3>1
  <2>7. Stages'
    <3>1. ASSUME NEW u \in Topics
          PROVE  /\ newest'[u] <= retained[u] /\ retained[u] <= accepted[u]
                 /\ accepted[u] <= published[u]
                 /\ shown'[u] = newest'[u] \/ shown'[u] = 0
      <4>1. CASE u = t
        BY <2>1, <2>2, <2>3, <2>4, <4>1 DEF IInv, TypeInv, Stages
      <4>2. CASE u # t
        BY <2>1, <2>2, <2>4, <4>2 DEF IInv, TypeInv, Stages
      <4> QED BY <4>1, <4>2
    <3>2. Rising(queue, retained, accepted)
      BY DEF IInv, Stages
    <3> QED BY <1>1, <2>6, <3>1, <3>2 DEF Stages
  <2>8. shown[t] = retained[t] => v = retained[t]
    <3>1. newest[t] \in Nat /\ retained[t] \in Nat /\ (shown[t] = newest[t] \/ shown[t] = 0)
      BY <2>1 DEF IInv, TypeInv, Stages
    <3>2. \A n, r \in Nat, w \in Nat \ {0} : n <= w /\ w <= r /\ (r = n \/ r = 0) => w = r
      OBVIOUS
    <3> HIDE DEF t, v
    <3> QED BY <2>1, <2>3, <3>1, <3>2
  <2>9. \A u \in Topics : shown[u] = retained[u] => shown'[u] = retained[u]
    BY <2>1, <2>2, <2>8 DEF IInv, TypeInv
  <2>10. \A u \in Topics : m = Message(u, retained[u]) => shown'[u] = retained[u]
    <3> SUFFICES ASSUME NEW u \in Topics, m = Message(u, retained[u])
                 PROVE  shown'[u] = retained[u]
      OBVIOUS
    <3>1. u = t /\ retained[u] = v
      BY <2>1, Different
    <3> QED BY <2>1, <2>2, <3>1 DEF IInv, TypeInv
  <2> QED BY <2>2, <2>5, <2>7, <2>9, <2>10
<1>4. CASE m \notin Report
  <2>1. m.kind # "publish"
    BY <1>2, <1>4, Kinds DEF Packet
  <2>2. shown' = shown
    BY <1>1, <2>1
  <2>3. newest' = newest
    BY <2>2, HistoryStays DEF IInv
  <2>4. Rising(wire', newest, retained)
    BY <1>1, <1>2, RisingTail DEF IInv, Stages
  <2>5. Stages'
    BY <1>1, <2>2, <2>3, <2>4 DEF IInv, Stages
  <2>6. ASSUME NEW u \in Topics, m = Message(u, retained[u]) PROVE shown'[u] = retained[u]
    <3>1. Message(u, retained[u]).kind = "publish"
      BY DEF Message
    <3> QED BY <2>1, <2>6, <3>1
  <2> QED BY <2>2, <2>3, <2>5, <2>6 DEF IInv, TypeInv
<1> QED BY <1>3, <1>4

LEMMA DeliverKeepsIInv ==
    ASSUME IInv, History, Deliver
    PROVE  IInv'
<1> DEFINE m == Head(wire)
           bye == Health("disconnected")
<1>1. /\ UNCHANGED <<published, accepted, queue, main, said, thread, retained, unanswered, path>>
      /\ session /\ wire # <<>> /\ wire' = Tail(wire)
      /\ health' = IF m.kind = "health" THEN m.word ELSE health
      /\ session' = (m.kind # "disconnect")
      /\ answer' = (answer \/ (m.kind = "ping" /\ thread = "up"))
  BY DEF Deliver, clientVars
<1>2. /\ wire \in Seq(Packet) /\ wire' \in Seq(Packet) /\ m = wire[1] /\ m \in Packet
      /\ 1 \in 1 .. Len(wire)
      /\ \A i \in 1 .. Len(wire') : i + 1 \in 1 .. Len(wire) /\ wire'[i] = wire[i + 1]
      /\ \A i \in 1 .. Len(wire) : i # 1 => i - 1 \in 1 .. Len(wire') /\ wire'[i - 1] = wire[i]
  BY <1>1, Shifted DEF IInv, TypeInv
<1>3. /\ Stages' /\ shown' \in [Topics -> Nat] /\ newest' \in [Topics -> Nat]
      /\ \A u \in Topics : shown[u] = retained[u] => shown'[u] = retained[u]
      /\ \A u \in Topics : m = Message(u, retained[u]) => shown'[u] = retained[u]
  BY ReadValues
<1>4. Leaving' = Leaving
  BY <1>1 DEF Leaving
<1>5. TypeInv'
  <2>1. session' \in BOOLEAN /\ answer' \in BOOLEAN
    BY <1>1 DEF IInv, TypeInv
  <2> QED BY <1>1, <1>2, <1>3, <2>1 DEF IInv, TypeInv
<1>6. NothingLost'
  <2>1. ASSUME thread = "up" PROVE Holds(wire', shown', retained, Topics)
    <3> SUFFICES ASSUME NEW u \in Topics, shown'[u] # retained[u]
                 PROVE  \E i \in 1 .. Len(wire') : wire'[i] = Message(u, retained[u])
      BY DEF Holds
    <3>1. shown[u] # retained[u] /\ m # Message(u, retained[u])
      BY <1>3
    <3>2. PICK i \in 1 .. Len(wire) : wire[i] = Message(u, retained[u])
      BY <1>1, <2>1, <3>1 DEF IInv, NothingLost, Holds
    <3>3. i # 1
      BY <1>2, <3>1, <3>2
    <3> QED BY <1>2, <3>2, <3>3
  <2> QED BY <1>1, <2>1 DEF IInv, NothingLost
<1>7. FarewellIsLast'
  BY <1>1, <1>4 DEF IInv, FarewellIsLast
<1>8. GoodbyeOnWire'
  <2> SUFFICES ASSUME NEW i \in 1 .. Len(wire'), wire'[i] = bye
               PROVE  /\ Leaving /\ queue = <<>>
                      /\ \A u \in Small :
                           \/ shown'[u] = retained[u]
                           \/ \E j \in 1 .. i - 1 : wire'[j] = Message(u, retained[u])
    BY <1>1, <1>4 DEF GoodbyeOnWire
  <2>1. i + 1 \in 1 .. Len(wire) /\ wire[i + 1] = bye
    BY <1>2
  <2>2. /\ Leaving /\ queue = <<>>
        /\ \A u \in Small :
             \/ shown[u] = retained[u]
             \/ \E j \in 1 .. i + 1 - 1 : wire[j] = Message(u, retained[u])
    BY <1>1, <2>1 DEF IInv, GoodbyeOnWire
  <2>3. ASSUME NEW u \in Small, shown'[u] # retained[u]
        PROVE  \E j \in 1 .. i - 1 : wire'[j] = Message(u, retained[u])
    <3>1. u \in Topics
      BY DEF Small
    <3>2. shown[u] # retained[u] /\ m # Message(u, retained[u])
      BY <1>3, <2>3, <3>1
    <3>3. PICK j \in 1 .. i + 1 - 1 : wire[j] = Message(u, retained[u])
      BY <2>2, <3>2
    <3>4. j # 1
      BY <1>2, <3>2, <3>3
    <3>5. j \in 1 .. Len(wire) /\ j - 1 \in 1 .. i - 1
      BY <2>1, <3>4
    <3>6. wire'[j - 1] = Message(u, retained[u])
      BY <1>2, <3>3, <3>4, <3>5
    <3> QED BY <3>5, <3>6
  <2> QED BY <2>2, <2>3
<1>9. GoodbyeSeen'
  <2> SUFFICES ASSUME health' = "disconnected"
               PROVE  Leaving /\ \A u \in Small : shown'[u] = accepted[u]
    BY <1>1, <1>4 DEF GoodbyeSeen
  <2>1. ASSUME Leaving, \A u \in Small : shown[u] = retained[u] /\ retained[u] = accepted[u]
        PROVE  Leaving /\ \A u \in Small : shown'[u] = accepted[u]
    BY <1>3, <2>1 DEF Small
  <2>2. CASE m = bye
    <3>1. Leaving /\ queue = <<>> /\ \A u \in Small : shown[u] = retained[u]
      BY <1>1, <1>2, <2>2 DEF IInv, GoodbyeOnWire
    <3>2. Holds(queue, retained, accepted, Small) /\ Len(queue) = 0
      BY <3>1 DEF IInv, NothingLost
    <3>3. \A u \in Small : retained[u] = accepted[u]
      BY <3>2 DEF Holds
    <3> QED BY <2>1, <3>1, <3>3
  <2>3. CASE m # bye
    <3>1. m.kind # "health" \/ m.word = "connected"
      BY <1>2, <2>3, Kinds DEF Packet
    <3>2. health = "disconnected"
      BY <1>1, <3>1
    <3>3. Leaving /\ \A u \in Small : shown[u] = accepted[u]
      BY <3>2 DEF IInv, GoodbyeSeen
    <3>4. ASSUME NEW u \in Small PROVE shown[u] = retained[u] /\ retained[u] = accepted[u]
      <4>1. /\ u \in Topics /\ newest[u] \in Nat /\ retained[u] \in Nat /\ accepted[u] \in Nat
            /\ newest[u] <= retained[u] /\ retained[u] <= accepted[u]
            /\ shown[u] = newest[u] \/ shown[u] = 0
        BY DEF Small, IInv, TypeInv, Stages
      <4>2. shown[u] = accepted[u]
        BY <3>3
      <4> QED BY <4>1, <4>2
    <3> QED BY <2>1, <3>3, <3>4
  <2> QED BY <2>2, <2>3
<1>10. SaidIsOnWire'
  <2> SUFFICES ASSUME said PROVE
           /\ thread = "ended"
           /\ session' => \E i \in 1 .. Len(wire') : wire'[i] = Disconnect
    BY <1>1 DEF SaidIsOnWire
  <2>1. thread = "ended" /\ \E i \in 1 .. Len(wire) : wire[i] = Disconnect
    BY <1>1 DEF IInv, SaidIsOnWire
  <2>2. PICK i \in 1 .. Len(wire) : wire[i] = Disconnect
    BY <2>1
  <2>3. session' => i # 1
    BY <1>1, <1>2, <2>2, Kinds
  <2> QED BY <1>2, <2>1, <2>2, <2>3
<1>11. PingIsOnWire'
  <2> SUFFICES ASSUME thread = "up", unanswered > 0, ~answer'
               PROVE  \E i \in 1 .. Len(wire') : wire'[i] = Ping
    BY <1>1 DEF PingIsOnWire
  <2>1. ~answer /\ m.kind # "ping"
    BY <1>1
  <2>2. PICK i \in 1 .. Len(wire) : wire[i] = Ping
    BY <1>1, <2>1 DEF IInv, PingIsOnWire
  <2>3. i # 1
    BY <1>2, <2>1, <2>2, Kinds
  <2> QED BY <1>2, <2>2, <2>3
<1> QED BY <1>3, <1>5, <1>6, <1>7, <1>8, <1>9, <1>10, <1>11 DEF IInv

LEMMA StepKeepsIInv == IInv /\ [HistoryNext]_historyVars => IInv'
<1> SUFFICES ASSUME IInv, [HistoryNext]_historyVars PROVE IInv'
  OBVIOUS
<1>1. CASE HistoryNext
  <2>1. Next /\ History
    BY <1>1 DEF HistoryNext, History
  <2>2. CASE \E t \in Topics : Publish(t)
    BY <2>1, <2>2, PublishKeepsIInv
  <2>3. CASE Shutdown
    BY <2>1, <2>3, AskKeepsIInv, LeavingKeepsIInv DEF Shutdown
  <2>4. CASE Connect
    BY <2>1, <2>4, ConnectKeepsIInv
  <2>5. CASE Pump
    BY <2>1, <2>5, PumpPublishKeepsIInv, PumpFarewellKeepsIInv DEF Pump
  <2>6. CASE Tick
    BY <2>1, <2>6, TickKeepsIInv
  <2>7. CASE Deliver
    BY <2>1, <2>7, DeliverKeepsIInv
  <2>8. CASE Will \/ BrokerRestarts \/ PathDies \/ PathHeals \/ ConnectFails
    BY <2>1, <2>8, OutsideKeepsIInv
  <2> QED BY <2>1, <2>2, <2>3, <2>4, <2>5, <2>6, <2>7, <2>8 DEF Next
<1>2. CASE UNCHANGED historyVars
  BY <1>2, StutterKeepsIInv
<1> QED BY <1>1, <1>2

LEMMA AlwaysIInv == HistorySpec => []IInv
<1> QED BY InitIInv, StepKeepsIInv, PTL DEF HistorySpec

-----------------------------------------------------------------------------

(* A subscriber that reads the goodbye has the last value of every topic   *)
(* the client had room for, whatever was lost, replayed or refused before  *)
(* (telemetry.rs:66-67).                                                   *)
THEOREM GoodbyeComesLastAlways == HistorySpec => []GoodbyeComesLast
<1>1. IInv => GoodbyeComesLast
  BY DEF IInv, GoodbyeSeen, GoodbyeComesLast, Small
<1> QED BY <1>1, AlwaysIInv, PTL

(* What the client's steps are to a subscriber: it accepts a value, shows  *)
(* one, or forgets them all, and never shows one older than it showed      *)
(* (telemetry.rs:195-199).                                                 *)
LEMMA InitIsPromised == HistoryInit => Promise!Init
BY DEF HistoryInit, Init, Promise!Init, Promise!Nothing

LEMMA StepIsPromised ==
    ASSUME IInv, [HistoryNext]_historyVars
    PROVE  [Promise!Next]_(Promise!vars)
<1>1. CASE HistoryNext
  <2>1. Next /\ History
    BY <1>1 DEF HistoryNext, History
  <2>2. ASSUME NEW t \in Topics, Publish(t) PROVE Promise!Accept(t) \/ UNCHANGED Promise!vars
    <3>1. shown' = shown /\ newest' = newest
      BY <2>1, <2>2, HistoryStays DEF IInv, Publish, brokerVars
    <3>2. CASE Full
      BY <2>2, <3>1, <3>2 DEF Publish, Promise!vars
    <3>3. CASE ~Full
      <4> DEFINE v == published[t] + 1
      <4>1. accepted' = [accepted EXCEPT ![t] = v] /\ accepted \in [Topics -> Nat]
        BY <2>2, <3>3 DEF Publish, IInv, TypeInv
      <4>2. v > accepted[t]
        BY DEF IInv, TypeInv, Stages
      <4> HIDE DEF v
      <4> QED BY <3>1, <4>1, <4>2 DEF Promise!Accept
    <3> QED BY <3>2, <3>3
  <2>3. CASE Deliver
    <3> DEFINE m == Head(wire)
    <3>1. /\ UNCHANGED accepted /\ wire # <<>>
          /\ shown' = IF m.kind = "publish" THEN [shown EXCEPT ![m.topic] = m.value] ELSE shown
      BY <2>3 DEF Deliver
    <3>2. wire \in Seq(Packet) /\ m = wire[1] /\ m \in Packet /\ 1 \in 1 .. Len(wire)
      BY <3>1, Shifted DEF IInv, TypeInv
    <3>3. CASE m \in Report
      <4> DEFINE t == m.topic
                 v == m.value
      <4>1. t \in Topics /\ v \in Nat \ {0} /\ m.kind = "publish"
        BY <3>3, Kinds
      <4>2. shown' = [shown EXCEPT ![t] = v] /\ shown \in [Topics -> Nat]
        BY <3>1, <4>1 DEF IInv, TypeInv
      <4>3. newest[t] <= v /\ v <= retained[t] /\ retained[t] <= accepted[t]
        BY <3>2, <3>3, <4>1 DEF IInv, Stages, Rising
      <4>4. v \in newest[t] .. accepted[t]
        BY <4>1, <4>3 DEF IInv, TypeInv
      <4>5. newest' = [newest EXCEPT ![t] = v]
        BY <2>1, <2>3, <3>3, ReadNewest
      <4> HIDE DEF t, v
      <4>6. shown'[t] = v
        BY <4>1, <4>2
      <4>7. Promise!Show(t)
        BY <3>1, <4>2, <4>4, <4>5, <4>6 DEF Promise!Show
      <4> QED BY <4>1, <4>7 DEF Promise!Next
    <3>4. CASE m \notin Report
      <4>1. shown' = shown
        BY <3>1, <3>2, <3>4, Kinds DEF Packet
      <4>2. newest' = newest
        BY <2>1, <4>1, HistoryStays DEF IInv
      <4> QED BY <3>1, <4>1, <4>2 DEF Promise!vars
    <3> QED BY <3>3, <3>4
  <2>4. CASE BrokerRestarts
    <3>1. accepted' = accepted /\ shown' = Promise!Nothing
      BY <2>4 DEF BrokerRestarts, Promise!Nothing
    <3>2. newest' = newest
      BY <2>1, <3>1, HistoryStays DEF IInv, Promise!Nothing
    <3> QED BY <3>1, <3>2 DEF Promise!Forget, Promise!Next
  <2>5. ASSUME accepted' = accepted, shown' = shown PROVE UNCHANGED Promise!vars
    <3>1. newest' = newest
      BY <2>1, <2>5, HistoryStays DEF IInv
    <3> QED BY <2>5, <3>1 DEF Promise!vars
  <2>6. CASE Shutdown \/ Connect \/ ConnectFails \/ Pump \/ Tick \/ Will \/ PathDies \/ PathHeals
    <3>1. accepted' = accepted /\ shown' = shown
      BY <2>6 DEF Shutdown, Stop, Ask, Exit, Die, StepMain, Connect, ConnectFails, Pump,
                  PumpPublish, PumpFarewell, Takes, Tick, Will, PathDies, PathHeals, brokerVars
    <3> QED BY <2>5, <3>1
  <2> QED BY <2>1, <2>2, <2>3, <2>4, <2>6 DEF Next, Promise!Next
<1>2. CASE UNCHANGED historyVars
  BY <1>2 DEF historyVars, vars, brokerVars, Promise!vars
<1> QED BY <1>1, <1>2

(* Retained state never goes back to an older value, however often the     *)
(* connection was lost with packets on their way: the client and its       *)
(* broker implement the seam of latest values.                             *)
THEOREM NeverOlderAlways == HistorySpec => NeverOlder
<1>1. IInv /\ [HistoryNext]_historyVars => [Promise!Next]_(Promise!vars)
  BY StepIsPromised
<1> QED BY <1>1, InitIsPromised, AlwaysIInv, PTL DEF HistorySpec, NeverOlder, Promise!Spec

(* After a goodbye was said, only a connection that died before its        *)
(* DISCONNECT was read lets the will follow it (telemetry.rs:295-298).     *)
THEOREM GoodbyeHoldsAlways == HistorySpec => GoodbyeHolds
<1> DEFINE A == said /\ health = "disconnected" /\ health' = "gone"
<1>1. ASSUME IInv, [HistoryNext]_historyVars PROVE [A => ~path]_vars
  <2> SUFFICES ASSUME A, path PROVE FALSE
    OBVIOUS
  <2>1. thread = "ended" /\ (session => Len(wire) > 0)
    BY <1>1 DEF IInv, TypeInv, SaidIsOnWire
  <2>2. health' # health
    OBVIOUS
  <2>3. HistoryNext
    BY <1>1, <2>2 DEF historyVars, vars, brokerVars
  <2>4. CASE Deliver
    <3>1. Head(wire) \in Packet
      BY <1>1, <2>4, Shifted DEF Deliver, IInv, TypeInv
    <3>2. Head(wire).kind = "health" => Head(wire).word # "gone"
      BY <3>1, Kinds DEF Packet
    <3> QED BY <2>4, <3>2 DEF Deliver
  <2>5. CASE Will
    <3>1. session /\ wire = <<>>
      BY <2>5 DEF Will
    <3> QED BY <2>1, <3>1
  <2>6. thread # "down"
    BY <2>1
  <2>7. Deliver \/ Will
    BY <2>2, <2>3, <2>6 DEF HistoryNext, Next, Publish, Shutdown, Stop, Ask, Exit, Die, StepMain,
        Connect, ConnectFails, Pump, PumpPublish, PumpFarewell, Takes, Tick, BrokerRestarts,
        PathDies, PathHeals, brokerVars
  <2> QED BY <2>4, <2>5, <2>7
<1>2. IInv /\ [HistoryNext]_historyVars => [A => ~path]_vars
  BY <1>1
<1> QED BY <1>2, AlwaysIInv, PTL DEF HistorySpec, GoodbyeHolds

(* Only a connection that does not carry packets, or that the broker       *)
(* closed, costs the client its session: an answer that waits to be read   *)
(* clears the count before a second ping can raise it (telemetry.rs:       *)
(* 264-266).                                                               *)
THEOREM NoFalseAlarmAlways == HistorySpec => NoFalseAlarm
<1> DEFINE A == thread = "up" /\ thread' = "down"
<1>1. ASSUME IInv, [HistoryNext]_historyVars PROVE [A => ~(path /\ session)]_vars
  <2> SUFFICES ASSUME A, path, session PROVE FALSE
    OBVIOUS
  <2>1. HistoryNext
    BY <1>1 DEF historyVars, vars, clientVars
  <2>2. CASE Tick
    <3>1. wire = <<>>
      BY <2>2 DEF Tick
    <3>2. unanswered > 0 => answer
      BY <1>1, <3>1 DEF IInv, PingIsOnWire
    <3>3. unanswered' = IF answer THEN 0 ELSE unanswered + 1
      BY <2>2 DEF Tick, WriteFails, CanFail
    <3>4. unanswered' < 2
      BY <1>1, <3>2, <3>3 DEF IInv, TypeInv
    <3>5. Alarm(unanswered')
      BY <2>2 DEF Tick, WriteFails, CanFail
    <3> QED BY <1>1, <3>3, <3>4, <3>5 DEF Alarm, IInv, TypeInv
  <2>3. CASE Pump
    BY <2>3 DEF Pump, PumpPublish, PumpFarewell, WriteFails, CanFail, Writes
  <2>4. Tick \/ Pump
    BY <2>1 DEF HistoryNext, Next, Publish, Shutdown, Stop, Ask, Exit, Die, StepMain,
        Connect, ConnectFails, Deliver, Will, BrokerRestarts, PathDies, PathHeals, clientVars
  <2> QED BY <2>2, <2>3, <2>4
<1>2. IInv /\ [HistoryNext]_historyVars => [A => ~(path /\ session)]_vars
  BY <1>1
<1> QED BY <1>2, AlwaysIInv, PTL DEF HistorySpec, NoFalseAlarm
=============================================================================
