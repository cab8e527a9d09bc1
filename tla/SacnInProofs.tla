--------------------------- MODULE SacnInProofs -----------------------------
(***************************************************************************)
(* The receive stage's types, its arbitration and its ordering, for any    *)
(* set of consoles, any priorities, table size, timeout and network.       *)
(*                                                                         *)
(* That nobody outranks the driver is not inductive alone: a driver that   *)
(* raises its priority must be known to win, which takes the second half   *)
(* of OnTop, that the table never holds the driver above the priority it   *)
(* drives at.  That no older frame returns rests on where each number on   *)
(* the wire and in the table lies behind its console's next one (InOrder). *)
(***************************************************************************)
EXTENDS MCSacnIn, FiniteSetTheorems, TLAPS

(* The driver is a console, and none of the table outranks it at the       *)
(* snapshot's priority, itself included.                                   *)
OnTop(table, t) ==
    InForce(t) =>
        /\ t.cid \in Cids
        /\ \A c \in DOMAIN table :
              /\ c = t.cid => table[c].priority <= t.priority
              /\ c # t.cid => ~Outranks(table[c].priority, c, t.priority, t.cid)

IsTable(table) ==
    /\ DOMAIN table \subseteq Cids
    /\ Cardinality(DOMAIN table) <= MaxSources
    /\ table \in [DOMAIN table -> Source]

IInv == TypeOK /\ OnTop(sources, takeover)

(* The snapshot a packet leaves behind.                                    *)
Published(table, packet, live) ==
    IF IsWinner(table, packet.cid)
      THEN [cid |-> packet.cid, priority |-> packet.priority, age |-> 0, live |-> live]
      ELSE takeover

-----------------------------------------------------------------------------

LEMMA EmptyIsTable == IsTable(<<>>)
<1>1. DOMAIN <<>> = {}
  OBVIOUS
<1>2. Cardinality({}) = 0
  BY FS_EmptySet
<1> QED BY <1>1, <1>2, SacnInAssumption DEF IsTable

LEMMA SmallerTable ==
    ASSUME NEW table, IsTable(table), NEW S \in SUBSET DOMAIN table
    PROVE  IsTable([c \in S |-> table[c]])
<1>1. IsFiniteSet(DOMAIN table)
  BY FS_Subset, SacnInAssumption DEF IsTable
<1>2. Cardinality(S) <= Cardinality(DOMAIN table)
  BY <1>1, FS_Subset
<1>3. Cardinality(S) \in Nat /\ Cardinality(DOMAIN table) \in Nat /\ MaxSources \in Nat
  BY <1>1, FS_Subset, FS_CardinalityType, SacnInAssumption
<1>4. Cardinality(S) <= MaxSources
  BY <1>2, <1>3 DEF IsTable
<1> QED BY <1>4 DEF IsTable

LEMMA SmallerOnTop ==
    ASSUME NEW table, NEW t, OnTop(table, t), NEW S \in SUBSET DOMAIN table
    PROVE  OnTop([c \in S |-> table[c]], t)
BY DEF OnTop

LEMMA ExpiredTable ==
    ASSUME NEW table, IsTable(table), NEW t, OnTop(table, t)
    PROVE  IsTable(Expired(table)) /\ OnTop(Expired(table), t)
<1> DEFINE S == {d \in DOMAIN table : table[d].age < Timeout}
<1>1. S \in SUBSET DOMAIN table
  OBVIOUS
<1> QED BY <1>1, SmallerTable, SmallerOnTop DEF Expired

LEMMA ReleasedTable ==
    ASSUME NEW table, IsTable(table), NEW t, OnTop(table, t), NEW c
    PROVE  IsTable(Released(table, c)) /\ OnTop(Released(table, c), t)
<1>1. DOMAIN table \ {c} \in SUBSET DOMAIN table
  OBVIOUS
<1> QED BY <1>1, SmallerTable, SmallerOnTop DEF Released

(* A packet listed for the first time finds a free slot.                   *)
LEMMA ObservedTable ==
    ASSUME NEW table, IsTable(table), NEW packet \in Packet
    PROVE  IsTable(Observed(table, packet))
<1> DEFINE new == [priority |-> packet.priority, age |-> 0, sequence |-> packet.sequence]
<1>1. new \in Source
  BY SacnInAssumption DEF Packet, Source, Age
<1>2. CASE packet.cid \in DOMAIN table \/ Cardinality(DOMAIN table) < MaxSources
  <2> DEFINE D == DOMAIN table \cup {packet.cid}
             more == [c \in D |-> IF c = packet.cid THEN new ELSE table[c]]
  <2>1. Observed(table, packet) = more
    BY <1>2 DEF Observed
  <2>2. D \subseteq Cids
    BY DEF IsTable, Packet
  <2>3. IsFiniteSet(DOMAIN table)
    BY FS_Subset, SacnInAssumption DEF IsTable
  <2>4. Cardinality(DOMAIN table) \in Nat /\ MaxSources \in Nat
    BY <2>3, FS_CardinalityType, SacnInAssumption
  <2>5. Cardinality(D) = IF packet.cid \in DOMAIN table
                           THEN Cardinality(DOMAIN table)
                           ELSE Cardinality(DOMAIN table) + 1
    BY <2>3, FS_AddElement
  <2>6. Cardinality(D) <= MaxSources
    BY <1>2, <2>4, <2>5 DEF IsTable
  <2>7. more \in [D -> Source]
    BY <1>1 DEF IsTable
  <2> QED BY <2>1, <2>2, <2>6, <2>7 DEF IsTable
<1>3. CASE ~(packet.cid \in DOMAIN table \/ Cardinality(DOMAIN table) < MaxSources)
  BY <1>3 DEF Observed
<1> QED BY <1>2, <1>3

(* Levels from any console leave the driver, old or new, on top: who would *)
(* outrank it is the winner, and has just been published.                  *)
LEMMA ObservedOnTop ==
    ASSUME TypeOK, NEW table, IsTable(table), OnTop(table, takeover),
           NEW packet \in Packet
    PROVE  OnTop(Observed(table, packet), Published(Observed(table, packet), packet, TRUE))
<1> DEFINE next == Observed(table, packet)
           p == packet.cid
           t == Published(next, packet, TRUE)
<1>1. IsTable(next)
  BY ObservedTable
<1>2. /\ Cids \subseteq Nat /\ Priorities \subseteq Nat
      /\ \A c \in DOMAIN next : c \in Nat /\ next[c].priority \in Nat
      /\ \A c \in DOMAIN table : c \in Nat /\ table[c].priority \in Nat
      /\ p \in Nat /\ packet.priority \in Nat
  BY <1>1, SacnInAssumption DEF IsTable, Source, Packet
<1>3. \A c \in DOMAIN next : c # p => c \in DOMAIN table /\ next[c] = table[c]
  BY DEF Observed
<1>4. p \in DOMAIN next => next[p].priority = packet.priority
  BY DEF Observed
<1>5. CASE IsWinner(next, p)
  <2>1. t.cid = p /\ t.priority = packet.priority
    BY <1>5 DEF Published
  <2> SUFFICES ASSUME NEW c \in DOMAIN next
               PROVE  /\ c = p => next[c].priority <= packet.priority
                      /\ c # p => ~Outranks(next[c].priority, c, packet.priority, p)
    BY <2>1 DEF OnTop, Packet
  <2>2. CASE c = p
    BY <1>2, <1>4, <2>2
  <2>3. CASE c # p
    <3>1. Outranks(next[p].priority, p, next[c].priority, c)
      BY <1>5, <2>3 DEF IsWinner
    <3>2. p \in DOMAIN next
      BY <1>5 DEF IsWinner
    <3> QED BY <3>1, <3>2, <1>2, <1>4, <2>3 DEF Outranks
  <2> QED BY <2>2, <2>3
<1>6. CASE ~IsWinner(next, p)
  <2>1. t = takeover
    BY <1>6 DEF Published
  <2> SUFFICES ASSUME InForce(takeover), NEW c \in DOMAIN next
               PROVE  /\ c = Driver => next[c].priority <= takeover.priority
                      /\ c # Driver => ~Outranks(next[c].priority, c, takeover.priority, Driver)
    BY <2>1 DEF OnTop, Driver
  <2>2. takeover.priority \in Nat /\ Driver \in Nat
    <3>1. takeover.priority \in Priorities \cup {0}
      BY DEF TypeOK, Takeover
    <3>2. Driver \in Cids
      BY DEF OnTop, Driver
    <3>3. Cids \subseteq Nat /\ Priorities \subseteq Nat
      BY SacnInAssumption
    <3>4. Priorities \cup {0} \subseteq Nat
      BY <3>3
    <3>6. takeover.priority \in Nat
      BY <3>1, <3>4
    <3>5. Driver \in Nat
      BY <3>2, <3>3
    <3> QED BY <3>5, <3>6
  <2>3. \A d \in DOMAIN table :
           /\ d = Driver => table[d].priority <= takeover.priority
           /\ d # Driver => ~Outranks(table[d].priority, d, takeover.priority, Driver)
    BY DEF OnTop, Driver
  <2>4. CASE c # p
    BY <1>3, <2>3, <2>4
  <2>5. CASE c = p
    <3>1. PICK d \in DOMAIN next \ {p} :
             ~Outranks(next[p].priority, p, next[d].priority, d)
      BY <1>6, <2>5 DEF IsWinner
    <3>2. d \in DOMAIN table /\ next[d] = table[d] /\ d # p
      BY <1>3, <3>1
    <3>3. next[p].priority <= next[d].priority
      BY <1>2, <2>5, <3>1, <3>2 DEF Outranks
    <3>4. CASE d = Driver
      <4>1. next[d].priority <= takeover.priority
        BY <2>3, <3>2, <3>4
      <4> QED BY <1>2, <2>2, <2>5, <3>1, <3>2, <3>3, <3>4, <4>1 DEF Outranks
    <3>5. CASE d # Driver
      <4>1. ~Outranks(next[d].priority, d, takeover.priority, Driver)
        BY <2>3, <3>2, <3>5
      <4> QED BY <1>2, <2>2, <2>5, <3>1, <3>2, <3>3, <3>5, <4>1 DEF Outranks
    <3> QED BY <3>4, <3>5
  <2> QED BY <2>4, <2>5
<1> QED BY <1>5, <1>6

-----------------------------------------------------------------------------

(* A published snapshot is one.                                            *)
LEMMA PublishedType ==
    ASSUME TypeOK, NEW table, NEW packet \in Packet, NEW live \in BOOLEAN
    PROVE  Published(table, packet, live) \in Takeover
BY SacnInAssumption DEF Published, TypeOK, Takeover, Packet, Age

(* A terminate frame leaves the driver on top or nobody in force.          *)
LEMMA ReleasedOnTop ==
    ASSUME NEW table, NEW expired, IsTable(table), OnTop(table, takeover),
           NEW packet
    PROVE  OnTop(Released(table, packet.cid), Published(expired, packet, FALSE))
<1>1. CASE IsWinner(expired, packet.cid)
  BY <1>1 DEF Published, OnTop, InForce
<1>2. CASE ~IsWinner(expired, packet.cid)
  BY <1>2, ReleasedTable DEF Published
<1> QED BY <1>1, <1>2

-----------------------------------------------------------------------------

LEMMA InitIInv == Init => IInv
<1> SUFFICES ASSUME Init PROVE IInv
  OBVIOUS
<1>1. desk \in [Cids -> Desk]
  <2> DEFINE fresh == {[on |-> TRUE, priority |-> p, sequence |-> FirstSequence,
                        sent |-> FALSE] : p \in Priorities}
  <2>1. ASSUME NEW p \in Priorities
        PROVE  [on |-> TRUE, priority |-> p, sequence |-> FirstSequence,
                sent |-> FALSE] \in Desk
    BY SacnInAssumption DEF Desk
  <2>3. fresh \subseteq Desk
    BY <2>1
  <2>2. desk \in [Cids -> fresh]
    BY DEF Init
  <2> QED BY <2>2, <2>3
<1>2. IsTable(sources)
  BY EmptyIsTable DEF Init
<1>3. takeover \in Takeover /\ ~InForce(takeover)
  BY SacnInAssumption DEF Init, Idle, Takeover, Age, InForce
<1> QED BY <1>1, <1>2, <1>3 DEF IInv, TypeOK, OnTop, IsTable, Listed, Init

(* The receiver's half of the state.                                       *)
Heard ==
    /\ receiver \in {"listening", "down", "aborted"}
    /\ IsTable(sources)
    /\ takeover \in Takeover
    /\ OnTop(sources, takeover)

LEMMA HearKeepsHeard ==
    ASSUME IInv, NEW packet \in Packet, Hear(packet)
    PROVE  Heard'
<1>1. IsTable(Expired(sources)) /\ OnTop(Expired(sources), takeover)
  BY ExpiredTable DEF IInv, TypeOK, IsTable, Listed
<1>2. takeover \in Takeover /\ receiver \in {"listening", "down", "aborted"} /\ TypeOK
  BY DEF IInv, TypeOK
<1>3. CASE HearTerminate(packet)
  <2>1. /\ sources' = Released(Expired(sources), packet.cid)
        /\ takeover' = Published(Expired(sources), packet, FALSE)
        /\ receiver' = receiver
    BY <1>3 DEF HearTerminate, Published
  <2>2. IsTable(sources')
    BY <1>1, <2>1, ReleasedTable
  <2>3. OnTop(sources', takeover')
    BY <1>1, <2>1, ReleasedOnTop
  <2>4. takeover' \in Takeover
    BY <1>2, <2>1, PublishedType
  <2> QED BY <1>2, <2>1, <2>2, <2>3, <2>4 DEF Heard, IsTable, OnTop, InForce, Outranks
<1>4. CASE HearStraggler(packet)
  <2>1. sources' = Expired(sources) /\ takeover' = takeover /\ receiver' = receiver
    BY <1>4 DEF HearStraggler
  <2>2. IsTable(sources') /\ OnTop(sources', takeover')
    BY <1>1, <2>1
  <2> QED BY <1>2, <2>1, <2>2 DEF Heard, IsTable, OnTop, InForce, Outranks
<1>5. CASE HearLevels(packet)
  <2>1. /\ sources' = Observed(Expired(sources), packet)
        /\ takeover' = Published(Observed(Expired(sources), packet), packet, TRUE)
        /\ receiver' = receiver
    BY <1>5 DEF HearLevels, Published
  <2>2. IsTable(sources')
    BY <1>1, <2>1, ObservedTable
  <2>3. OnTop(sources', takeover')
    BY <1>1, <1>2, <2>1, ObservedOnTop
  <2>4. takeover' \in Takeover
    BY <1>2, <2>1, PublishedType
  <2> QED BY <1>2, <2>1, <2>2, <2>3, <2>4 DEF Heard, IsTable, OnTop, InForce, Outranks
<1> QED BY <1>3, <1>4, <1>5 DEF Hear

LEMMA SocketKeepsHeard ==
    ASSUME IInv, Socket
    PROVE  Heard'
<1>1. Idle \in Takeover /\ ~InForce(Idle)
  BY SacnInAssumption DEF Idle, Takeover, Age, InForce
<1>2. CASE Fail \/ Restart
  <2>1. /\ sources' = <<>> /\ takeover' = Idle
        /\ receiver' \in {"listening", "down", "aborted"}
    BY <1>2 DEF Fail, Restart
  <2>2. IsTable(sources')
    BY <2>1, EmptyIsTable
  <2>3. takeover' \in Takeover /\ ~InForce(takeover')
    BY <1>1, <2>1
  <2> QED BY <2>1, <2>2, <2>3 DEF Heard, IsTable, OnTop, InForce, Outranks
<1>3. CASE Bind
  <2>1. sources' = sources /\ takeover' = takeover
        /\ receiver' \in {"listening", "down", "aborted"}
    BY <1>3 DEF Bind
  <2> QED BY <2>1 DEF IInv, TypeOK, Listed, Heard, IsTable, OnTop, InForce, Outranks
<1> QED BY <1>2, <1>3 DEF Socket

(* Ageing gives nobody more force than before.                             *)
LEMMA TickKeepsHeard ==
    ASSUME IInv, Tick
    PROVE  Heard'
<1> DEFINE older == [c \in Listed |-> [sources[c] EXCEPT !.age = OneOlder(@)]]
<1>1. sources' = older /\ takeover' = [takeover EXCEPT !.age = OneOlder(@)]
      /\ receiver' = receiver
  BY DEF Tick
<1>2. \A age \in Age : OneOlder(age) \in Age /\ OneOlder(age) >= age
  BY SacnInAssumption DEF Age, OneOlder
<1>3. IsTable(sources) /\ takeover \in Takeover /\ receiver \in {"listening", "down", "aborted"}
  BY DEF IInv, TypeOK, IsTable, Listed
<1>4. DOMAIN older = DOMAIN sources
      /\ \A c \in DOMAIN sources : older[c] \in Source /\ older[c].priority = sources[c].priority
  BY <1>2, <1>3 DEF IsTable, Source, Listed
<1>5. older \in [DOMAIN older -> Source]
  BY <1>4
<1>6. IsTable(older)
  BY <1>3, <1>4, <1>5 DEF IsTable
<1>7. /\ takeover' \in Takeover
      /\ takeover'.cid = takeover.cid /\ takeover'.priority = takeover.priority
      /\ InForce(takeover') => InForce(takeover)
  <2>1. takeover.age \in Age /\ OneOlder(takeover.age) \in Age
        /\ OneOlder(takeover.age) >= takeover.age
    BY <1>2, <1>3 DEF Takeover
  <2> QED BY <1>1, <1>3, <2>1, SacnInAssumption DEF Takeover, InForce, Age
<1>8. OnTop(older, takeover')
  BY <1>4, <1>7 DEF IInv, OnTop
<1> QED BY <1>1, <1>3, <1>6, <1>7, <1>8 DEF Heard, IsTable, OnTop, InForce, Outranks

(* The world's half of the state.                                          *)
World == desk \in [Cids -> Desk] /\ net \subseteq Packet

(* What is in flight is packets: those that lag too far are gone.          *)
LEMMA InFlightPackets ==
    ASSUME IInv, NEW c \in Cids, NEW terminated \in BOOLEAN
    PROVE  InFlight(c, terminated) \subseteq Packet
<1> SUFFICES ASSUME NEW p \in InFlight(c, terminated)
             PROVE  p \in Packet
  OBVIOUS
<1> DEFINE sent == [cid |-> c, priority |-> desk[c].priority,
                    sequence |-> desk[c].sequence,
                    terminated |-> terminated, lag |-> 0, again |-> FALSE]
<1>1. net \subseteq Packet /\ desk[c] \in Desk
  BY DEF IInv, TypeOK
<1>2. sent \in Packet
  BY <1>1, SacnInAssumption DEF Desk, Packet
<1>3. CASE p \in net
  BY <1>1, <1>3
<1>4. ASSUME NEW q \in net, p = [q EXCEPT !.lag = @ + 1], p.lag <= ReorderDepth
      PROVE  p \in Packet
  <2>1. q \in Packet
    BY <1>1
  <2>2. p.lag = q.lag + 1 /\ q.lag \in 0 .. ReorderDepth
    BY <2>1, <1>4 DEF Packet
  <2>3. p.lag \in 0 .. ReorderDepth
    BY <2>2, <1>4, SacnInAssumption
  <2> QED BY <1>4, <2>1, <2>2, <2>3 DEF Packet
<1>5. CASE p = sent
  BY <1>2, <1>5
<1> QED BY <1>3, <1>4, <1>5 DEF InFlight

LEMMA NextSequence ==
    ASSUME NEW n \in 0 .. SequenceMod - 1
    PROVE  (n + 1) % SequenceMod \in 0 .. SequenceMod - 1
BY SequenceAssumption

LEMMA ConsolesKeepWorld ==
    ASSUME IInv, NEW c \in Cids, Consoles(c)
    PROVE  World'
<1>1. net \subseteq Packet /\ desk \in [Cids -> Desk] /\ desk[c] \in Desk
  BY DEF IInv, TypeOK
<1>2. ASSUME NEW terminated \in BOOLEAN, Send(c, terminated)
      PROVE  World'
  <2>1. net' \subseteq Packet
    BY <1>2, InFlightPackets DEF Send
  <2>2. (desk[c].sequence + 1) % SequenceMod \in 0 .. SequenceMod - 1
    BY <1>1, NextSequence DEF Desk
  <2>3. desk' \in [Cids -> Desk]
    BY <1>1, <1>2, <2>2 DEF Send, Desk
  <2> QED BY <2>1, <2>3 DEF World
<1>3. ASSUME NEW priority \in Priorities, Adjust(c, priority)
      PROVE  World'
  BY <1>1, <1>3 DEF Adjust, World, Desk
<1>4. ASSUME NEW afresh \in BOOLEAN, SwitchOn(c, afresh)
      PROVE  World'
  BY <1>1, <1>4, SacnInAssumption DEF SwitchOn, World, Desk
<1>5. CASE PullPlug(c)
  BY <1>1, <1>5 DEF PullPlug, World, Desk
<1> QED BY <1>2, <1>3, <1>4, <1>5 DEF Consoles

LEMMA DeliveredPackets ==
    ASSUME IInv, NEW p \in net, NEW flight \in Delivered(p)
    PROVE  flight \subseteq Packet
<1>1. p \in Packet /\ net \subseteq Packet
  BY DEF IInv, TypeOK
<1>2. [p EXCEPT !.again = TRUE] \in Packet
  BY <1>1 DEF Packet
<1> QED BY <1>1, <1>2 DEF Delivered

-----------------------------------------------------------------------------

LEMMA BothHalves == World /\ Heard <=> IInv
BY DEF World, Heard, IInv, TypeOK, IsTable, Listed

LEMMA NextIInv == IInv /\ [Next]_vars => IInv'
<1> SUFFICES ASSUME IInv, [Next]_vars PROVE World' /\ Heard'
  BY BothHalves DEF World, Heard, IInv, TypeOK, IsTable, Listed, OnTop, InForce, Outranks
<1>1. World /\ Heard
  BY BothHalves
<1>2. UNCHANGED world => World'
  BY <1>1 DEF World, world
<1>3. UNCHANGED <<receiver, sources, takeover>> => Heard'
  BY <1>1 DEF Heard, IsTable, OnTop, InForce, Outranks
<1>4. ASSUME NEW c \in Cids, Deliver(c)
      PROVE  World' /\ Heard'
  <2>1. PICK p \in net : Hear(p) /\ net' \in Delivered(p)
    BY <1>4 DEF Deliver
  <2>2. p \in Packet /\ desk' = desk
    BY <1>4, <1>1 DEF World, Deliver
  <2>3. World'
    BY <1>1, <2>1, <2>2, DeliveredPackets DEF World
  <2>4. Heard'
    BY <2>1, <2>2, HearKeepsHeard
  <2> QED BY <2>3, <2>4
<1>5. CASE UNCHANGED world /\ WakeForNothing
  <2>1. sources' = Expired(sources) /\ takeover' = takeover /\ receiver' = receiver
    BY <1>5 DEF WakeForNothing
  <2>2. IsTable(Expired(sources)) /\ OnTop(Expired(sources), takeover)
    BY <1>1, ExpiredTable DEF Heard
  <2>3. Heard'
    BY <1>1, <2>1, <2>2 DEF Heard, IsTable, OnTop, InForce, Outranks
  <2> QED BY <1>2, <1>5, <2>3
<1>6. CASE Socket /\ UNCHANGED world
  BY <1>2, <1>6, SocketKeepsHeard
<1>7. CASE ((\E c \in Cids : Consoles(c)) \/ Lose)
             /\ UNCHANGED <<receiver, sources, takeover>>
  <2>1. CASE \E c \in Cids : Consoles(c)
    BY <1>3, <1>7, <2>1, ConsolesKeepWorld
  <2>2. CASE Lose
    BY <1>1, <1>3, <1>7, <2>2 DEF Lose, World
  <2> QED BY <1>7, <2>1, <2>2
<1>8. CASE Tick
  <2>1. World'
    BY <1>1, <1>8 DEF Tick, World, Desk
  <2> QED BY <1>8, <2>1, TickKeepsHeard
<1>9. CASE UNCHANGED vars
  BY <1>2, <1>3, <1>9 DEF vars, world
<1> QED BY <1>4, <1>5, <1>6, <1>7, <1>8, <1>9 DEF Next, Receive

LEMMA Invariance == Spec => []IInv
BY InitIInv, NextIInv, PTL DEF Spec

(* The table never holds more sources than it has slots, and every part of *)
(* the state keeps its type.                                               *)
THEOREM TypeCorrect == Spec => []TypeOK
<1>1. IInv => TypeOK
  BY DEF IInv
<1> QED BY <1>1, Invariance, PTL

(* The arbitration of cortex/src/sacn_in.rs:227-231 and 446-455, whatever  *)
(* consoles come, go, restart, lose packets or change their priority.      *)
THEOREM DriverIsOnTop == Spec => []NobodyOutranksTheDriver
<1>1. IInv => NobodyOutranksTheDriver
  BY DEF IInv, OnTop, NobodyOutranksTheDriver, Listed, Driver
<1> QED BY <1>1, Invariance, PTL

(* A deaf receiver has let go of the rig (sacn_in.rs:333-335).             *)
THEOREM DeafReceiverLetsGo == Spec => []DeafReceiverHandsBack
<1>1. Init => DeafReceiverHandsBack
  BY DEF Init, Idle, InForce, DeafReceiverHandsBack
<1>2. IInv /\ DeafReceiverHandsBack /\ [Next]_vars => DeafReceiverHandsBack'
  <2> SUFFICES ASSUME IInv, DeafReceiverHandsBack, [Next]_vars, InForce(takeover')
               PROVE  receiver' = "listening"
    BY DEF DeafReceiverHandsBack, InForce
  <2>1. CASE receiver' = receiver /\ takeover' = takeover
    BY <2>1 DEF DeafReceiverHandsBack
  <2>2. CASE Tick
    <3>1. takeover' = [takeover EXCEPT !.age = OneOlder(@)] /\ receiver' = receiver
      BY <2>2 DEF Tick
    <3>2. takeover \in Takeover
      BY DEF IInv, TypeOK
    <3>3. takeover.age \in Age /\ takeover'.age = OneOlder(takeover.age)
          /\ takeover'.live = takeover.live /\ takeover'.priority = takeover.priority
      BY <3>1, <3>2 DEF Takeover
    <3>4. InForce(takeover)
      BY <3>3, SacnInAssumption DEF InForce, OneOlder, Age
    <3> QED BY <3>1, <3>4 DEF DeafReceiverHandsBack
  <2>3. ASSUME NEW p \in net, Hear(p)
        PROVE  receiver' = "listening"
    BY <2>3 DEF Hear, HearTerminate, HearStraggler, HearLevels
  <2>4. CASE Socket
    BY <2>4 DEF Socket, Fail, Bind, Restart, Idle, InForce, DeafReceiverHandsBack
  <2> QED BY <2>1, <2>2, <2>3, <2>4 DEF Next, Receive, Deliver, WakeForNothing, vars
<1> QED BY <1>1, <1>2, Invariance, PTL DEF Spec

-----------------------------------------------------------------------------

(* Sequence numbers, for any even modulus.                                 *)

LEMMA ModOf ==
    ASSUME NEW x \in Int, -SequenceMod <= x, x < 2 * SequenceMod
    PROVE  x % SequenceMod = IF x < 0 THEN x + SequenceMod
                             ELSE IF x < SequenceMod THEN x ELSE x - SequenceMod
BY SequenceAssumption

LEMMA Half == SequenceMod \div 2 \in Nat /\ 2 * (SequenceMod \div 2) = SequenceMod
BY SequenceAssumption

LEMMA DeltaIs ==
    ASSUME NEW a \in Sequences, NEW b \in Sequences, NEW d \in Int,
           d \in {a - b, a - b + SequenceMod}, 0 <= d, d < SequenceMod
    PROVE  Delta(a, b) = IF 2 * d < SequenceMod THEN d ELSE d - SequenceMod
<1>1. /\ a - b \in Int /\ -SequenceMod <= a - b /\ a - b < 2 * SequenceMod
      /\ SequenceMod \in Nat
  BY SequenceAssumption DEF Sequences
<1>2. (a - b) % SequenceMod = d
  BY <1>1, ModOf
<1>3. d < SequenceMod \div 2 <=> 2 * d < SequenceMod
  BY <1>1, Half
<1> QED BY <1>2, <1>3 DEF Delta

(* b is the k-th number after a.                                           *)
Ahead(a, k, b) == b = a + k \/ b = a + k - SequenceMod

LEMMA AheadOfNext ==
    ASSUME NEW a \in Sequences, NEW b \in Sequences, NEW k \in Nat,
           k < SequenceMod, Ahead(a, k, b)
    PROVE  Ahead(a, k + 1, (b + 1) % SequenceMod)
<1>1. (b + 1) % SequenceMod = IF b + 1 < SequenceMod THEN b + 1 ELSE 0
  BY ModOf, SequenceAssumption DEF Sequences
<1> QED BY <1>1, SequenceAssumption DEF Ahead, Sequences

(* A number that was sent no later than the last one heard does not move   *)
(* on, if the network overtakes by less than the sequence window.          *)
LEMMA StragglerIsLeft ==
    ASSUME ReorderDepth < SequenceWindow, 2 * ReorderDepth <= SequenceMod,
           NEW last \in Sequences, NEW sequence \in Sequences, NEW next \in Sequences,
           NEW k \in 0 .. ReorderDepth, NEW lag \in 0 .. ReorderDepth,
           Ahead(last, k + 1, next), Ahead(sequence, lag + 1, next),
           MovesOn(last, sequence)
    PROVE  lag < k
<1> SUFFICES ASSUME lag >= k PROVE FALSE
  BY SacnInAssumption
<1> DEFINE d == IF lag = k THEN 0 ELSE k - lag + SequenceMod
<1>1. /\ ReorderDepth \in Nat /\ SequenceMod \in Nat /\ SequenceMod > 1 /\ SequenceWindow \in Nat
      /\ k \in Nat /\ lag \in Nat /\ lag <= ReorderDepth
  BY SacnInAssumption, SequenceAssumption
<1>2. d \in Int /\ 0 <= d /\ d < SequenceMod
  BY <1>1
<1>3. d \in {sequence - last, sequence - last + SequenceMod}
  BY <1>1 DEF Ahead, Sequences
<1>4. Delta(sequence, last) = IF 2 * d < SequenceMod THEN d ELSE d - SequenceMod
  BY <1>2, <1>3, DeltaIs
<1>5. Delta(sequence, last) = k - lag
  BY <1>1, <1>4
<1> QED BY <1>1, <1>5 DEF MovesOn

(* A console that starts over at any number, whatever number it was last   *)
(* heard at, is heard within SequenceWindow packets: the window that sorts *)
(* stragglers out locks nobody out (sacn_in.rs:213-215).                   *)
THEOREM RestartIsHeardAlways ==
    ASSUME SequenceMod > 2, NEW last \in Sequences, NEW sequence \in Sequences
    PROVE  \E k \in 0 .. SequenceWindow :
              MovesOn(last, (sequence + k) % SequenceMod)
<1> DEFINE d == IF sequence >= last THEN sequence - last ELSE sequence - last + SequenceMod
           delta == Delta(sequence, last)
<1>1. SequenceMod \in Nat /\ SequenceWindow \in Nat
  BY SequenceAssumption
<1>2. d \in Int /\ 0 <= d /\ d < SequenceMod
      /\ d \in {sequence - last, sequence - last + SequenceMod}
  BY <1>1 DEF Sequences
<1>3. delta = IF 2 * d < SequenceMod THEN d ELSE d - SequenceMod
  BY <1>2, DeltaIs
<1>4. CASE MovesOn(last, sequence)
  <2>1. (sequence + 0) % SequenceMod = sequence
    BY <1>1, ModOf DEF Sequences
  <2> QED BY <1>1, <1>4, <2>1
<1>5. CASE ~MovesOn(last, sequence)
  <2> DEFINE k == 1 - delta
             n == (sequence + k) % SequenceMod
  <2>1. delta <= 0 /\ delta > -SequenceWindow
    BY <1>1, <1>2, <1>3, <1>5 DEF MovesOn
  <2>2. k \in 0 .. SequenceWindow /\ 1 <= k /\ k < SequenceMod
    BY <1>1, <1>2, <1>3, <2>1
  <2>3. n \in Sequences /\ 1 \in {n - last, n - last + SequenceMod}
    <3>1. n = IF sequence + k < SequenceMod THEN sequence + k ELSE sequence + k - SequenceMod
      BY <1>1, <2>2, ModOf DEF Sequences
    <3> QED BY <1>1, <1>2, <1>3, <2>1, <2>2, <3>1 DEF Sequences
  <2>4. Delta(n, last) = 1
    BY <1>1, <2>3, DeltaIs
  <2>5. MovesOn(last, n)
    BY <2>4 DEF MovesOn
  <2> QED BY <2>2, <2>5
<1> QED BY <1>4, <1>5

-----------------------------------------------------------------------------

(* The order packets are acted on in.                                      *)

(* A packet's number lies as far behind its console's next as it lags.     *)
SentInOrder ==
    \A p \in net : Ahead(p.sequence, p.lag + 1, desk[p.cid].sequence)

(* And the number a console is listed with, as far as it is behind.        *)
HeardInOrder ==
    \A c \in Listed : behind[c] < BehindCap =>
        Ahead(sources[c].sequence, behind[c] + 1, desk[c].sequence)

InOrder ==
    /\ behind \in [Cids -> 0 .. BehindCap]
    /\ SentInOrder
    /\ HeardInOrder

HInv == IInv /\ InOrder

LEMMA InitInOrder == HistoryInit => InOrder
BY SacnInAssumption
   DEF HistoryInit, Init, InOrder, SentInOrder, HeardInOrder, Listed, BehindCap

(* Delivering leaves what stays in flight as it was, copies included.      *)
LEMMA DeliveredInOrder ==
    ASSUME HInv, desk' = desk, NEW p \in net, net' \in Delivered(p)
    PROVE  SentInOrder'
<1> SUFFICES ASSUME NEW q \in net'
             PROVE  Ahead(q.sequence, q.lag + 1, desk[q.cid].sequence)
  BY DEF SentInOrder, Ahead
<1>1. p \in Packet
  BY DEF HInv, IInv, TypeOK
<1>2. CASE q \in net
  BY <1>2 DEF HInv, InOrder, SentInOrder
<1>3. CASE q = [p EXCEPT !.again = TRUE]
  <2>1. q.sequence = p.sequence /\ q.lag = p.lag /\ q.cid = p.cid
    BY <1>1, <1>3 DEF Packet
  <2> QED BY <2>1 DEF HInv, InOrder, SentInOrder
<1> QED BY <1>2, <1>3 DEF Delivered

(* Which entries a packet leaves as they were.                             *)
LEMMA HearTouchesOne ==
    ASSUME IInv, NEW p \in Packet, Hear(p), NEW c \in Listed', c # p.cid \/ HearStraggler(p)
    PROVE  c \in Listed /\ sources'[c] = sources[c]
<1>1. CASE HearTerminate(p)
  BY <1>1 DEF HearTerminate, HearStraggler, Released, Expired, Listed
<1>2. CASE HearStraggler(p)
  BY <1>2 DEF HearStraggler, Expired, Listed
<1>3. CASE HearLevels(p)
  BY <1>3 DEF HearLevels, HearStraggler, Observed, Expired, Listed
<1> QED BY <1>1, <1>2, <1>3 DEF Hear

(* And how it lists its own console.                                       *)
LEMMA ActsOnOne ==
    ASSUME IInv, NEW p \in Packet, ActsOn(p), p.cid \in Listed'
    PROVE  HearLevels(p) /\ sources'[p.cid].sequence = p.sequence
<1>1. ~HearTerminate(p)
  BY DEF HearTerminate, Released, Expired, Listed
<1>2. HearLevels(p)
  BY <1>1 DEF ActsOn
<1> QED BY <1>2 DEF HearLevels, Observed, Listed

LEMMA HearKeepsOrder ==
    ASSUME HInv, desk' = desk, NEW p \in net, net' \in Delivered(p),
           \/ ActsOn(p) /\ behind' = [behind EXCEPT ![p.cid] = p.lag]
           \/ HearStraggler(p) /\ UNCHANGED behind
    PROVE  InOrder'
<1>1. p \in Packet /\ Hear(p) /\ IInv
  BY DEF HInv, IInv, TypeOK, ActsOn, Hear
<1>2. p.cid \in Cids /\ p.lag \in 0 .. ReorderDepth /\ behind \in [Cids -> 0 .. BehindCap]
  BY <1>1 DEF Packet, HInv, InOrder
<1>3. p.lag \in 0 .. BehindCap
  BY <1>2, SacnInAssumption DEF BehindCap
<1>4. behind' \in [Cids -> 0 .. BehindCap]
  BY <1>2, <1>3
<1>5. SentInOrder'
  BY DeliveredInOrder
<1>6. ASSUME NEW c \in Listed', behind'[c] < BehindCap
      PROVE  Ahead(sources'[c].sequence, behind'[c] + 1, desk[c].sequence)
  <2>1. CASE c # p.cid \/ HearStraggler(p)
    <3>1. c \in Listed /\ sources'[c] = sources[c]
      BY <1>1, <2>1, HearTouchesOne
    <3>2. c \in Cids
      BY <1>1, <3>1 DEF IInv, TypeOK
    <3>3. behind'[c] = behind[c]
      <4>1. CASE c # p.cid
        BY <1>2, <3>2, <4>1
      <4>2. CASE c = p.cid
        <5>1. HearStraggler(p) /\ ~ActsOn(p)
          BY <2>1, <4>2 DEF HearStraggler, ActsOn, HearTerminate, HearLevels
        <5> QED BY <5>1
      <4> QED BY <4>1, <4>2
    <3> QED BY <1>6, <3>1, <3>3 DEF HInv, InOrder, HeardInOrder
  <2>2. CASE c = p.cid /\ ~HearStraggler(p)
    <3>1. sources'[c].sequence = p.sequence
      BY <1>1, <2>2, ActsOnOne
    <3>2. behind'[c] = p.lag
      BY <1>2, <2>2
    <3>3. Ahead(p.sequence, p.lag + 1, desk[c].sequence)
      BY <2>2 DEF HInv, InOrder, SentInOrder
    <3> QED BY <3>1, <3>2, <3>3
  <2> QED BY <2>1, <2>2
<1>7. HeardInOrder'
  BY <1>6 DEF HeardInOrder, Ahead, BehindCap, Listed
<1> QED BY <1>4, <1>5, <1>7 DEF InOrder, BehindCap

(* What history makes of a console's step.                                 *)
Counted(c) ==
    behind' = CASE net' # net /\ behind[c] < BehindCap ->
                     [behind EXCEPT ![c] = @ + 1]
                [] desk'[c].on /\ ~desk[c].on /\ desk'[c].sequence # desk[c].sequence ->
                     [behind EXCEPT ![c] = BehindCap]
                [] OTHER -> behind

(* The packet sent is not one of those in flight: they bear older numbers. *)
LEMMA SendIsNew ==
    ASSUME HInv, NEW c \in Cids, NEW terminated \in BOOLEAN, Send(c, terminated)
    PROVE  net' # net
<1> DEFINE sent == [cid |-> c, priority |-> desk[c].priority,
                    sequence |-> desk[c].sequence,
                    terminated |-> terminated, lag |-> 0, again |-> FALSE]
<1>1. sent \in net'
  BY DEF Send, InFlight
<1>2. sent \notin net
  <2>1. SUFFICES ASSUME sent \in net PROVE FALSE
    OBVIOUS
  <2>2. Ahead(desk[c].sequence, 1, desk[c].sequence)
    <3>1. Ahead(sent.sequence, sent.lag + 1, desk[sent.cid].sequence)
      BY <2>1 DEF HInv, InOrder, SentInOrder
    <3> QED BY <3>1
  <2>3. desk[c].sequence \in Int
    BY DEF HInv, IInv, TypeOK, Desk
  <2> QED BY <2>2, <2>3, SequenceAssumption DEF Ahead
<1> QED BY <1>1, <1>2

LEMMA SendKeepsOrder ==
    ASSUME HInv, 2 * ReorderDepth <= SequenceMod,
           NEW c \in Cids, NEW terminated \in BOOLEAN, Send(c, terminated),
           sources' = sources, Counted(c)
    PROVE  InOrder'
<1> DEFINE next == (desk[c].sequence + 1) % SequenceMod
<1>1. /\ desk \in [Cids -> Desk] /\ desk[c].sequence \in Sequences /\ net \subseteq Packet
      /\ Listed \subseteq Cids /\ \A d \in Listed : sources[d].sequence \in Sequences
      /\ behind \in [Cids -> 0 .. BehindCap]
  BY DEF HInv, IInv, TypeOK, Desk, Source, Sequences, InOrder
<1>2. /\ desk'[c].sequence = next
      /\ \A d \in Cids \ {c} : desk'[d].sequence = desk[d].sequence
      /\ desk'[c].on => desk[c].on
  BY <1>1 DEF Send, Desk
<1>3. behind' = IF behind[c] < BehindCap THEN [behind EXCEPT ![c] = @ + 1] ELSE behind
  <2>1. net' # net
    BY SendIsNew
  <2>2. desk[c].on
    BY DEF Send
  <2> QED BY <1>2, <2>1, <2>2 DEF Counted
<1>4. /\ ReorderDepth \in Nat /\ BehindCap = ReorderDepth + 1 /\ BehindCap \in Nat
      /\ ReorderDepth < SequenceMod
  BY SacnInAssumption, SequenceAssumption DEF BehindCap
<1>5. behind' \in [Cids -> 0 .. BehindCap]
  <2>1. CASE behind[c] < BehindCap
    <3>1. behind[c] + 1 \in 0 .. BehindCap
      BY <1>1, <1>4, <2>1
    <3> QED BY <1>1, <1>3, <2>1, <3>1
  <2> QED BY <1>1, <1>3, <2>1
<1>6. ASSUME NEW p \in net'
      PROVE  Ahead(p.sequence, p.lag + 1, desk'[p.cid].sequence)
  <2>1. CASE p \in net /\ p.cid # c
    BY <1>1, <1>2, <2>1 DEF HInv, InOrder, SentInOrder, Packet
  <2>2. ASSUME NEW q \in net, q.cid = c, p = [q EXCEPT !.lag = @ + 1], p.lag <= ReorderDepth
        PROVE  Ahead(p.sequence, p.lag + 1, desk'[p.cid].sequence)
    <3>1. q \in Packet
      BY <1>1
    <3>2. /\ p.sequence = q.sequence /\ p.lag = q.lag + 1 /\ p.cid = c
          /\ q.sequence \in Sequences /\ q.lag + 1 \in Nat
      BY <2>2, <3>1 DEF Packet, Sequences
    <3>3. Ahead(q.sequence, q.lag + 1, desk[c].sequence)
      BY <2>2 DEF HInv, InOrder, SentInOrder
    <3>4. q.lag + 1 < SequenceMod
      BY <1>4, <2>2, <3>2, SequenceAssumption
    <3>5. Ahead(q.sequence, q.lag + 1 + 1, next)
      BY <1>1, <3>2, <3>3, <3>4, AheadOfNext
    <3> QED BY <1>2, <3>2, <3>5
  <2>3. CASE p.cid = c /\ p.sequence = desk[c].sequence /\ p.lag = 0
    <3>1. Ahead(desk[c].sequence, 0, desk[c].sequence)
      BY <1>1 DEF Ahead, Sequences
    <3>2. Ahead(desk[c].sequence, 0 + 1, next)
      BY <1>1, <3>1, AheadOfNext, SequenceAssumption
    <3> QED BY <1>2, <2>3, <3>2
  <2>4. \/ p \in net /\ p.cid # c
        \/ \E q \in net : q.cid = c /\ p = [q EXCEPT !.lag = @ + 1] /\ p.lag <= ReorderDepth
        \/ p.cid = c /\ p.sequence = desk[c].sequence /\ p.lag = 0
    BY DEF Send, InFlight
  <2> QED BY <2>1, <2>2, <2>3, <2>4
<1>7. ASSUME NEW d \in Listed, behind'[d] < BehindCap
      PROVE  Ahead(sources[d].sequence, behind'[d] + 1, desk'[d].sequence)
  <2>1. CASE d # c
    <3>1. behind'[d] = behind[d] /\ desk'[d].sequence = desk[d].sequence
      BY <1>1, <1>2, <1>3, <2>1
    <3> QED BY <1>7, <3>1 DEF HInv, InOrder, HeardInOrder
  <2>2. CASE d = c
    <3>1. behind[c] \in Nat /\ behind[c] < BehindCap /\ behind'[c] = behind[c] + 1
      BY <1>1, <1>3, <1>4, <1>7, <2>2
    <3>2. Ahead(sources[c].sequence, behind[c] + 1, desk[c].sequence)
      BY <2>2, <3>1 DEF HInv, InOrder, HeardInOrder
    <3>3. behind[c] + 1 \in Nat /\ behind[c] + 1 < SequenceMod
      BY <1>4, <1>7, <2>2, <3>1, SequenceAssumption
    <3>4. Ahead(sources[c].sequence, behind[c] + 1 + 1, next)
      BY <1>1, <2>2, <3>2, <3>3, AheadOfNext
    <3> QED BY <1>2, <2>2, <3>1, <3>4
  <2> QED BY <2>1, <2>2
<1>8. SentInOrder'
  BY <1>6 DEF SentInOrder, Ahead
<1>9. HeardInOrder'
  BY <1>7 DEF HeardInOrder, Ahead, BehindCap, Listed
<1> QED BY <1>5, <1>8, <1>9 DEF InOrder, BehindCap

(* A console that starts over has nothing in flight, and counts as not     *)
(* heard for long.                                                         *)
LEMMA SwitchOnKeepsOrder ==
    ASSUME HInv, NEW c \in Cids, NEW afresh \in BOOLEAN, SwitchOn(c, afresh),
           sources' = sources, Counted(c)
    PROVE  InOrder'
<1>1. /\ desk \in [Cids -> Desk] /\ net' = net /\ net \subseteq Packet
      /\ Listed \subseteq Cids /\ behind \in [Cids -> 0 .. BehindCap]
      /\ BehindCap \in Nat
  BY SacnInAssumption DEF HInv, IInv, TypeOK, InOrder, SwitchOn, BehindCap
<1>2. /\ desk'[c].sequence = IF afresh THEN FirstSequence ELSE desk[c].sequence
      /\ \A d \in Cids \ {c} : desk'[d].sequence = desk[d].sequence
      /\ desk'[c].on /\ ~desk[c].on
  BY <1>1 DEF SwitchOn, Desk
<1>3. CASE afresh
  <2>1. desk'[c].sequence # desk[c].sequence /\ \A p \in net : p.cid # c
    BY <1>2, <1>3 DEF SwitchOn
  <2>2. behind' = [behind EXCEPT ![c] = BehindCap]
    BY <1>1, <1>2, <2>1 DEF Counted
  <2>3. behind' \in [Cids -> 0 .. BehindCap]
    BY <1>1, <2>2
  <2>4. SentInOrder'
    BY <1>1, <1>2, <2>1 DEF HInv, InOrder, SentInOrder, Ahead, Packet
  <2>5. ASSUME NEW d \in Listed, behind'[d] < BehindCap
        PROVE  Ahead(sources[d].sequence, behind'[d] + 1, desk'[d].sequence)
    <3>1. d \in Cids /\ d # c /\ behind'[d] = behind[d]
      BY <1>1, <2>2, <2>5
    <3>2. desk'[d].sequence = desk[d].sequence
      BY <1>2, <3>1
    <3> QED BY <2>5, <3>1, <3>2 DEF HInv, InOrder, HeardInOrder
  <2>6. HeardInOrder'
    BY <2>5 DEF HeardInOrder, Ahead, BehindCap, Listed
  <2> QED BY <2>3, <2>4, <2>6 DEF InOrder, BehindCap
<1>4. CASE ~afresh
  <2>1. behind' = behind /\ \A d \in Cids : desk'[d].sequence = desk[d].sequence
    BY <1>1, <1>2, <1>4 DEF Counted
  <2> QED BY <1>1, <2>1
          DEF HInv, InOrder, SentInOrder, HeardInOrder, Listed, BehindCap, Ahead, Packet
<1> QED BY <1>3, <1>4

(* What moves neither a number, nor a packet into flight, nor the table's  *)
(* numbers disturbs no order.                                              *)
LEMMA QuietKeepsOrder ==
    ASSUME HInv, desk' \in [Cids -> Desk],
           \A d \in Cids : desk'[d].sequence = desk[d].sequence,
           net' \subseteq net, behind' = behind, Listed' \subseteq Listed,
           \A d \in Listed' : sources'[d].sequence = sources[d].sequence
    PROVE  InOrder'
<1>1. net \subseteq Packet /\ Listed \subseteq Cids
  BY DEF HInv, IInv, TypeOK
<1>2. SentInOrder'
  BY <1>1 DEF HInv, InOrder, SentInOrder, Ahead, Packet
<1>3. HeardInOrder'
  BY <1>1 DEF HInv, InOrder, HeardInOrder, Ahead, BehindCap
<1> QED BY <1>2, <1>3 DEF HInv, InOrder, BehindCap

LEMMA ConsolesKeepOrder ==
    ASSUME HInv, 2 * ReorderDepth <= SequenceMod, NEW c \in Cids, Consoles(c),
           sources' = sources, Counted(c)
    PROVE  InOrder'
<1>1. desk \in [Cids -> Desk] /\ desk[c] \in Desk
  BY DEF HInv, IInv, TypeOK
<1>2. ASSUME NEW d \in Desk, d.sequence = desk[c].sequence, net' = net,
             desk' = [desk EXCEPT ![c] = d]
      PROVE  InOrder'
  <2>1. /\ desk' \in [Cids -> Desk]
        /\ \A e \in Cids : desk'[e].sequence = desk[e].sequence
        /\ desk'[c].sequence = desk[c].sequence
    BY <1>1, <1>2
  <2>2. behind' = behind
    BY <1>2, <2>1 DEF Counted
  <2> QED BY <1>2, <2>1, <2>2, QuietKeepsOrder DEF Listed
<1>3. ASSUME NEW priority \in Priorities, Adjust(c, priority)
      PROVE  InOrder'
  <2>1. [desk[c] EXCEPT !.priority = priority] \in Desk
        /\ [desk[c] EXCEPT !.priority = priority].sequence = desk[c].sequence
    BY <1>1 DEF Desk
  <2> QED BY <1>2, <1>3, <2>1 DEF Adjust
<1>4. ASSUME PullPlug(c)
      PROVE  InOrder'
  <2>1. [desk[c] EXCEPT !.on = FALSE] \in Desk
        /\ [desk[c] EXCEPT !.on = FALSE].sequence = desk[c].sequence
    BY <1>1 DEF Desk
  <2> QED BY <1>2, <1>4, <2>1 DEF PullPlug
<1> QED BY <1>3, <1>4, SendKeepsOrder, SwitchOnKeepsOrder DEF Consoles

LEMMA HistoryNextIsNext == [HistoryNext]_historyVars => [Next]_vars
<1> SUFFICES ASSUME [HistoryNext]_historyVars PROVE [Next]_vars
  OBVIOUS
<1>1. ASSUME NEW c \in Cids, NEW p \in net, p.cid = c, UNCHANGED desk, net' \in Delivered(p),
             ActsOn(p) \/ HearStraggler(p)
      PROVE  Next
  BY <1>1 DEF Next, Receive, Deliver, Hear, ActsOn
<1>2. ASSUME NEW c \in Cids, Consoles(c), UNCHANGED <<receiver, sources, takeover>>
      PROVE  Next
  BY <1>2 DEF Next
<1>3. ASSUME \/ UNCHANGED world /\ (WakeForNothing \/ Socket)
             \/ Lose /\ UNCHANGED <<receiver, sources, takeover>>
             \/ Tick
      PROVE  Next
  BY <1>3 DEF Next, Receive
<1>4. CASE UNCHANGED historyVars
  BY <1>4 DEF historyVars, vars
<1> QED BY <1>1, <1>2, <1>3, <1>4 DEF HistoryNext

LEMMA RestKeepsOrder ==
    ASSUME HInv, UNCHANGED behind,
           \/ UNCHANGED world /\ (WakeForNothing \/ Socket)
           \/ Lose /\ UNCHANGED <<receiver, sources, takeover>>
           \/ Tick
           \/ UNCHANGED vars
    PROVE  InOrder'
<1>1. desk \in [Cids -> Desk] /\ sources \in [Listed -> Source]
  BY DEF HInv, IInv, TypeOK
<1>2. CASE UNCHANGED world /\ (WakeForNothing \/ Socket)
  <2>1. Listed' \subseteq Listed /\ \A d \in Listed' : sources'[d] = sources[d]
    BY <1>2 DEF WakeForNothing, Socket, Fail, Bind, Restart, Expired, Listed
  <2> QED BY <1>1, <1>2, <2>1, QuietKeepsOrder DEF world
<1>3. CASE Lose /\ UNCHANGED <<receiver, sources, takeover>>
  BY <1>1, <1>3, QuietKeepsOrder DEF Lose, Listed
<1>4. CASE Tick
  <2>1. /\ net' = net /\ desk' \in [Cids -> Desk]
        /\ \A d \in Cids : desk'[d].sequence = desk[d].sequence
    BY <1>1, <1>4 DEF Tick, Desk
  <2>2. Listed' = Listed /\ \A d \in Listed : sources'[d].sequence = sources[d].sequence
    BY <1>1, <1>4 DEF Tick, Listed, Source
  <2> QED BY <2>1, <2>2, QuietKeepsOrder
<1>5. CASE UNCHANGED vars
  BY <1>1, <1>5, QuietKeepsOrder DEF vars, Listed
<1> QED BY <1>2, <1>3, <1>4, <1>5

LEMMA NextHInv ==
    ASSUME 2 * ReorderDepth <= SequenceMod, HInv, [HistoryNext]_historyVars
    PROVE  HInv'
<1>1. IInv'
  BY NextIInv, HistoryNextIsNext DEF HInv
<1>2. ASSUME NEW c \in Cids, NEW p \in net, p.cid = c, UNCHANGED desk, net' \in Delivered(p),
             \/ ActsOn(p) /\ behind' = [behind EXCEPT ![c] = p.lag]
             \/ HearStraggler(p) /\ UNCHANGED behind
      PROVE  InOrder'
  BY <1>2, HearKeepsOrder
<1>3. ASSUME NEW c \in Cids, Consoles(c), sources' = sources, Counted(c)
      PROVE  InOrder'
  BY <1>3, ConsolesKeepOrder
<1>4. ASSUME \/ UNCHANGED world /\ (WakeForNothing \/ Socket)
             \/ Lose /\ UNCHANGED <<receiver, sources, takeover>>
             \/ Tick,
             UNCHANGED behind
      PROVE  InOrder'
  BY <1>4, RestKeepsOrder
<1>5. ASSUME UNCHANGED historyVars
      PROVE  InOrder'
  BY <1>5, RestKeepsOrder DEF historyVars
<1>6. ASSUME HistoryNext
      PROVE  InOrder'
  BY <1>2, <1>3, <1>4, <1>6 DEF HistoryNext, Counted
<1> QED BY <1>1, <1>5, <1>6 DEF HInv

LEMMA HistoryInvariance ==
    ASSUME 2 * ReorderDepth <= SequenceMod
    PROVE  HistorySpec => []HInv
<1>1. HistoryInit => HInv
  BY InitIInv, InitInOrder DEF HistoryInit, HInv
<1>2. HInv /\ [HistoryNext]_historyVars => HInv'
  BY NextHInv
<1> QED BY <1>1, <1>2, PTL DEF HistorySpec

(* A step that leaves c listed with a number just heard.                   *)
Relisted(c) ==
    /\ c \in DOMAIN Expired(sources) /\ c \in DOMAIN sources'
    /\ sources'[c].age = 0 /\ sources'[c] # sources[c]
    /\ desk' = desk

LEMMA OnlyPacketsRelist ==
    ASSUME HInv, NEW c \in Cids, Relisted(c)
    PROVE  ~WakeForNothing /\ ~Socket /\ ~Tick /\ sources' # sources
<1>1. c \in Listed /\ c \in Listed' /\ sources[c] \in Source /\ sources' # sources
  BY DEF Relisted, Expired, Listed, HInv, IInv, TypeOK
<1>2. ~WakeForNothing
  BY <1>1 DEF WakeForNothing, Relisted, Expired, Listed
<1>3. ~Socket
  BY <1>1 DEF Socket, Fail, Bind, Restart, Relisted, Listed
<1>4. ~Tick
  <2>1. SUFFICES ASSUME Tick PROVE FALSE
    OBVIOUS
  <2>2. sources'[c].age = OneOlder(sources[c].age) /\ sources[c].age \in Age
    BY <1>1, <2>1 DEF Tick, Listed, Source
  <2> QED BY <2>2, SacnInAssumption DEF Relisted, OneOlder, Age
<1> QED BY <1>1, <1>2, <1>3, <1>4

(* While a console stays listed its packets are acted on in the order they *)
(* were sent, each once, whatever the network delays, duplicates or loses, *)
(* if it overtakes by less than SEQUENCE_WINDOW and by no more than half a *)
(* round of numbers; the code's are 20 and 256 (sacn_in.rs:213-223).       *)
THEOREM NoOlderFrameAlways ==
    ASSUME ReorderDepth < SequenceWindow, 2 * ReorderDepth <= SequenceMod
    PROVE  HistorySpec => NoOlderFrame
<1> DEFINE A == \A c \in Cids : Relisted(c) => behind'[c] < behind[c]
<1>1. ASSUME HInv, [HistoryNext]_historyVars
      PROVE  A
  <2> SUFFICES ASSUME NEW c \in Cids, Relisted(c)
               PROVE  behind'[c] < behind[c]
    OBVIOUS
  <2>1. ~WakeForNothing /\ ~Socket /\ ~Tick /\ ~UNCHANGED sources
    BY <1>1, OnlyPacketsRelist
  <2>2. sources' # sources /\ c \in Listed /\ c \in Listed' /\ desk' = desk
    BY DEF Relisted, Expired, Listed
  <2>3. PICK d \in Cids, p \in net :
          /\ p.cid = d /\ UNCHANGED desk /\ net' \in Delivered(p)
          /\ \/ ActsOn(p) /\ behind' = [behind EXCEPT ![d] = p.lag]
             \/ HearStraggler(p) /\ UNCHANGED behind
    BY <1>1, <2>1 DEF HistoryNext, historyVars, vars
  <2>4. p \in Packet /\ IInv /\ Hear(p)
    BY <1>1, <2>3 DEF HInv, IInv, TypeOK, Hear, ActsOn
  <2>5. p.cid = c /\ ~HearStraggler(p)
    BY <2>2, <2>4, HearTouchesOne DEF Relisted
  <2>6. ActsOn(p) /\ behind' = [behind EXCEPT ![c] = p.lag]
    BY <2>3, <2>5
  <2>7. HearLevels(p)
    BY <2>2, <2>4, <2>5, <2>6, ActsOnOne
  <2>8. MovesOn(sources[c].sequence, p.sequence)
    BY <2>5, <2>7 DEF HearLevels, InSequence, Relisted, Expired
  <2>9. /\ sources[c].sequence \in Sequences /\ p.sequence \in Sequences
        /\ desk[c].sequence \in Sequences /\ p.lag \in 0 .. ReorderDepth
        /\ behind \in [Cids -> 0 .. BehindCap]
    BY <1>1, <2>2, <2>4 DEF IInv, TypeOK, Source, Desk, Packet, Sequences, HInv, InOrder
  <2>10. ReorderDepth \in Nat /\ BehindCap = ReorderDepth + 1
    BY SacnInAssumption DEF BehindCap
  <2>11. behind'[c] = p.lag /\ behind[c] \in 0 .. BehindCap
    BY <2>6, <2>9
  <2>12. CASE behind[c] = BehindCap
    BY <2>9, <2>10, <2>11, <2>12
  <2>13. CASE behind[c] \in 0 .. ReorderDepth
    <3>1. Ahead(p.sequence, p.lag + 1, desk[c].sequence)
      BY <1>1, <2>5 DEF HInv, InOrder, SentInOrder
    <3>2. Ahead(sources[c].sequence, behind[c] + 1, desk[c].sequence)
      BY <1>1, <2>2, <2>10, <2>13 DEF HInv, InOrder, HeardInOrder
    <3>3. p.lag < behind[c]
      BY <2>8, <2>9, <2>13, <3>1, <3>2, StragglerIsLeft
    <3> QED BY <2>11, <3>3
  <2> QED BY <2>10, <2>11, <2>12, <2>13
<1>2. HInv /\ [HistoryNext]_historyVars => [A]_historyVars
  BY <1>1
<1>3. HistorySpec => [][A]_historyVars
  BY <1>2, HistoryInvariance, PTL DEF HistorySpec
<1>4. A <=> \A c \in Cids :
              /\ c \in DOMAIN Expired(sources) /\ c \in DOMAIN sources'
              /\ sources'[c].age = 0 /\ sources'[c] # sources[c]
              /\ desk' = desk
              => behind'[c] < behind[c]
  BY DEF Relisted
<1> QED BY <1>3, <1>4, PTL DEF NoOlderFrame

=============================================================================
