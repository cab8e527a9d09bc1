------------------------------- MODULE SacnIn -------------------------------
(***************************************************************************)
(* The sACN receive stage (cortex/src/sacn_in.rs): the table of consoles   *)
(* heard, the one that is obeyed, and the takeover snapshot the frame loop *)
(* judges for itself on every frame.                                       *)
(*                                                                         *)
(* A timestamp is modelled by its age in ticks, capped at Timeout, which   *)
(* is all the code asks of it.  What the receiver wakes for is in flight:  *)
(* a packet can be lost, delivered twice, or overtaken by ReorderDepth     *)
(* later ones of its console.  The levels a packet carries are left out,   *)
(* and so is what parse_header does: a packet it drops is a wake for       *)
(* nothing, like a read timeout.                                           *)
(***************************************************************************)
EXTENDS SacnSequence, FiniteSets

CONSTANTS
    Cids,            \* the consoles, as numbers: the smaller wins a tie
    NoCid,           \* Takeover::idle's, nobody's
    Priorities,      \* the priorities consoles send at
    Floor,           \* SACN_PRIORITY, the brain's own, 100 in the code
    Timeout,         \* SACN_SOURCE_TIMEOUT_US, in ticks
    MaxSources,      \* SACN_MAX_SOURCES, 4 in the code
    FirstSequence,   \* bound: the number a console's first packet carries
    ReorderDepth,    \* bound: how many later packets can overtake one
    NetCap           \* bound: how many packets are in flight

ASSUME SacnInAssumption ==
    /\ Cids \subseteq Nat /\ NoCid \notin Cids
    /\ IsFiniteSet(Cids)
    /\ Floor \in Nat
    /\ Priorities \subseteq Nat \ {0}
    /\ Timeout \in Nat \ {0}
    /\ MaxSources \in Nat \ {0}
    /\ FirstSequence \in 0 .. SequenceMod - 1
    /\ ReorderDepth \in Nat
    /\ NetCap \in Nat \ {0}

VARIABLES
    desk,       \* the consoles: on air, priority, next number, sent in this tick
    net,        \* packets in flight, with how many their console sent since (lag)
    receiver,   \* "listening", "down" (between two binds) or "aborted" (a panic)
    sources,    \* SourceTable: what is known of each console listed
    takeover    \* the snapshot last published

world == <<desk, net>>
vars == <<desk, net, receiver, sources, takeover>>

Desk == [on : BOOLEAN, priority : Priorities,
         sequence : 0 .. SequenceMod - 1, sent : BOOLEAN]

Packet == [cid : Cids, priority : Priorities, sequence : 0 .. SequenceMod - 1,
           terminated : BOOLEAN, lag : 0 .. ReorderDepth, again : BOOLEAN]

Age == 0 .. Timeout

Source == [priority : Priorities, age : Age, sequence : 0 .. SequenceMod - 1]

Takeover == [cid : Cids \cup {NoCid}, priority : Priorities \cup {0},
             age : Age, live : BOOLEAN]

Idle == [cid |-> NoCid, priority |-> 0, age |-> Timeout, live |-> FALSE]

(* Takeover::in_force: evaluated by the frame loop, on every frame.        *)
InForce(t) == t.live /\ t.priority > Floor /\ t.age < Timeout

Init ==
    /\ desk \in [Cids -> {[on |-> TRUE, priority |-> p, sequence |-> FirstSequence,
                           sent |-> FALSE] : p \in Priorities}]
    /\ net = {}
    /\ receiver = "down"
    /\ sources = <<>>
    /\ takeover = Idle

-----------------------------------------------------------------------------

Listed == DOMAIN sources

(* Mutant of Expired: nothing is ever swept.                               *)
ExpiredNever(table) == table

(* The table without the sources not heard from within the timeout.        *)
Expired(table) ==
    [c \in {d \in DOMAIN table : table[d].age < Timeout} |-> table[c]]

Released(table, cid) == [c \in DOMAIN table \ {cid} |-> table[c]]

(* Mutant of Observed: a table of any size.                                *)
ObservedUnbounded(table, packet) ==
    [c \in DOMAIN table \cup {packet.cid} |->
       IF c = packet.cid
         THEN [priority |-> packet.priority, age |-> 0, sequence |-> packet.sequence]
         ELSE table[c]]

(* SourceTable::observe: refresh, or take a free slot, or be dropped.      *)
Observed(table, packet) ==
    IF packet.cid \in DOMAIN table \/ Cardinality(DOMAIN table) < MaxSources
      THEN [c \in DOMAIN table \cup {packet.cid} |->
              IF c = packet.cid
                THEN [priority |-> packet.priority, age |-> 0,
                      sequence |-> packet.sequence]
                ELSE table[c]]
      ELSE table

InSequence(table, packet) ==
    packet.cid \in DOMAIN table => MovesOn(table[packet.cid].sequence, packet.sequence)

Outranks(p, c, q, d) == p > q \/ (p = q /\ c < d)

(* Mutant of IsWinner: equals both win.                                    *)
IsWinnerTied(table, cid) ==
    /\ cid \in DOMAIN table
    /\ \A other \in DOMAIN table : table[cid].priority >= table[other].priority

IsWinner(table, cid) ==
    /\ cid \in DOMAIN table
    /\ \A other \in DOMAIN table \ {cid} :
          Outranks(table[cid].priority, cid, table[other].priority, other)

-----------------------------------------------------------------------------

(* The receiver.  It sweeps on every wake, before anything else.           *)

(* A read timeout, or a packet one of the filters drops.                   *)
WakeForNothing ==
    /\ receiver = "listening"
    /\ sources' = Expired(sources)
    /\ UNCHANGED <<receiver, takeover>>

(* A terminate frame.  Only the winner's hands the rig back.               *)
HearTerminate(packet) ==
    /\ receiver = "listening"
    /\ packet.terminated
    /\ sources' = Released(Expired(sources), packet.cid)
    /\ takeover' = IF IsWinner(Expired(sources), packet.cid)
                     THEN [cid |-> packet.cid, priority |-> packet.priority,
                           age |-> 0, live |-> FALSE]
                     ELSE takeover
    /\ UNCHANGED receiver

(* A straggler: swept for, and no more.                                    *)
HearStraggler(packet) ==
    /\ receiver = "listening"
    /\ ~packet.terminated
    /\ ~InSequence(Expired(sources), packet)
    /\ sources' = Expired(sources)
    /\ UNCHANGED <<receiver, takeover>>

(* Levels.  Only the winner's are published.                               *)
HearLevels(packet) ==
    /\ receiver = "listening"
    /\ ~packet.terminated
    /\ InSequence(Expired(sources), packet)
    /\ sources' = Observed(Expired(sources), packet)
    /\ takeover' = IF IsWinner(sources', packet.cid)
                     THEN [cid |-> packet.cid, priority |-> packet.priority,
                           age |-> 0, live |-> TRUE]
                     ELSE takeover
    /\ UNCHANGED receiver

Hear(packet) == HearTerminate(packet) \/ HearStraggler(packet) \/ HearLevels(packet)

(* Mutant of Fail: the snapshot is left to its timeout.                    *)
FailSilently ==
    /\ receiver = "listening"
    /\ receiver' = "down"
    /\ sources' = <<>>
    /\ UNCHANGED takeover

(* receive returns an error: a socket error, or the tunnel's address is    *)
(* gone.  Its table goes with it, and the universe is handed back now.     *)
Fail ==
    /\ receiver = "listening"
    /\ receiver' = "down"
    /\ sources' = <<>>
    /\ takeover' = Idle

(* The wait for the next bind is over.  The bind succeeds, or receive      *)
(* fails at once since the address is still not there (the same state), or *)
(* any other error panics, which aborts the process.                       *)
Bind ==
    /\ receiver = "down"
    /\ receiver' \in {"listening", "aborted"}
    /\ UNCHANGED <<sources, takeover>>

(* systemd starts the brain again.                                         *)
Restart ==
    /\ receiver = "aborted"
    /\ receiver' = "down"
    /\ sources' = <<>>
    /\ takeover' = Idle

-----------------------------------------------------------------------------

(* The world: the consoles, the network and time.                          *)

(* What is in flight once c has sent one more: its other packets lag one   *)
(* more behind, and what lags too far never arrives.                       *)
InFlight(c, terminated) ==
    LET overtaken == {[p EXCEPT !.lag = @ + 1] : p \in {q \in net : q.cid = c}}
    IN  {p \in net : p.cid # c}
          \cup {p \in overtaken : p.lag <= ReorderDepth}
          \cup {[cid |-> c, priority |-> desk[c].priority,
                 sequence |-> desk[c].sequence,
                 terminated |-> terminated, lag |-> 0, again |-> FALSE]}

(* A console on air sends at most once in a tick: it sends far fewer       *)
(* packets in a data-loss timeout than half a round of sequence numbers.   *)
Send(c, terminated) ==
    /\ desk[c].on /\ ~desk[c].sent
    /\ Cardinality(InFlight(c, terminated)) <= NetCap
    /\ net' = InFlight(c, terminated)
    /\ desk' = [desk EXCEPT ![c].sequence = (@ + 1) % SequenceMod,
                            ![c].sent = TRUE,
                            ![c].on = ~terminated]

Adjust(c, priority) ==
    /\ desk[c].on /\ priority # desk[c].priority
    /\ desk' = [desk EXCEPT ![c].priority = priority]
    /\ UNCHANGED net

(* A console comes on air, where it left off or started afresh; or its     *)
(* plug is pulled.  It does not start afresh with packets still in flight. *)
SwitchOn(c, afresh) ==
    /\ ~desk[c].on
    /\ afresh => desk[c].sequence # FirstSequence /\ \A p \in net : p.cid # c
    /\ desk' = [desk EXCEPT ![c].on = TRUE,
                            ![c].sequence = IF afresh THEN FirstSequence ELSE @]
    /\ UNCHANGED net

PullPlug(c) ==
    /\ desk[c].on
    /\ desk' = [desk EXCEPT ![c].on = FALSE]
    /\ UNCHANGED net

Consoles(c) ==
    \/ \E terminated \in BOOLEAN : Send(c, terminated)
    \/ \E priority \in Priorities : Adjust(c, priority)
    \/ \E afresh \in BOOLEAN : SwitchOn(c, afresh)
    \/ PullPlug(c)

Lose ==
    /\ \E p \in net : net' = net \ {p}
    /\ UNCHANGED desk

OneOlder(age) == IF age < Timeout THEN age + 1 ELSE age

Tick ==
    /\ desk' = [c \in Cids |-> [desk[c] EXCEPT !.sent = FALSE]]
    /\ sources' = [c \in Listed |-> [sources[c] EXCEPT !.age = OneOlder(@)]]
    /\ takeover' = [takeover EXCEPT !.age = OneOlder(@)]
    /\ UNCHANGED <<net, receiver>>

(* What may be in flight once p is delivered: a first copy may leave a     *)
(* duplicate behind.                                                       *)
Delivered(p) ==
    {net \ {p}}
      \cup (IF p.again THEN {} ELSE {(net \ {p}) \cup {[p EXCEPT !.again = TRUE]}})

Deliver(c) ==
    /\ \E p \in net : p.cid = c /\ Hear(p) /\ net' \in Delivered(p)
    /\ UNCHANGED desk

Receive ==
    \/ \E c \in Cids : Deliver(c)
    \/ UNCHANGED world /\ WakeForNothing

Socket == Fail \/ Bind \/ Restart

Next ==
    \/ Receive
    \/ Socket /\ UNCHANGED world
    \/ ((\E c \in Cids : Consoles(c)) \/ Lose)
         /\ UNCHANGED <<receiver, sources, takeover>>
    \/ Tick

(* Time passes and the receiver wakes, at the latest on its read timeout.  *)
(* A console on air keeps sending, and a network that keeps having its     *)
(* packets delivers one now and then.                                      *)
Fairness ==
    /\ WF_vars(Tick)
    /\ WF_vars(WakeForNothing /\ UNCHANGED world)
    /\ \A c \in Cids :
          /\ SF_vars(Deliver(c))
          /\ SF_vars(Send(c, FALSE) /\ UNCHANGED <<receiver, sources, takeover>>)

Spec == Init /\ [][Next]_vars /\ Fairness

-----------------------------------------------------------------------------

TypeOK ==
    /\ desk \in [Cids -> Desk]
    /\ net \subseteq Packet
    /\ receiver \in {"listening", "down", "aborted"}
    /\ Listed \subseteq Cids /\ Cardinality(Listed) <= MaxSources
    /\ sources \in [Listed -> Source]
    /\ takeover \in Takeover

Driver == takeover.cid

(* A receiver that cannot hear has handed the rig back, and the console in *)
(* force is one heard within the timeout (sacn_in.rs:333-335).             *)
DeafReceiverHandsBack == InForce(takeover) => receiver = "listening"

(* No listed console outranks the one in force at the priority it took the *)
(* rig with: whoever does has taken it on the packet that showed it        *)
(* (sacn_in.rs:137-140, "so the choice is stable and never flaps").        *)
NobodyOutranksTheDriver ==
    InForce(takeover) =>
        \A c \in Listed \ {Driver} :
            ~Outranks(sources[c].priority, c, takeover.priority, Driver)

(* A console that alone is on air above the brain's priority gets the rig, *)
(* and gets it again whatever takes it away: neither the full table, nor   *)
(* the entries of dead consoles, nor the sequence window after a restart   *)
(* locks it out (sacn_in.rs:176-179, 213-215).                             *)
TheConsoleOnAirDrives ==
    \A c \in Cids :
        <>[](/\ receiver = "listening"
             /\ \A d \in Cids : desk[d].on <=> d = c
             /\ desk[c].priority > Floor)
          => []<>(InForce(takeover) /\ Driver = c)

(* Said of the code, and not so: a clean stop from the source being obeyed *)
(* hands the rig back at once (sacn_in.rs:415-416).  The source obeyed is  *)
(* the takeover's, the one asked about is the table's winner, and a        *)
(* console that lowered its priority is the first without being the other. *)
CleanStopHandsBack ==
    [][\A p \in net :
          p.cid = Driver /\ InForce(takeover) /\ desk' = desk /\ HearTerminate(p)
            => ~InForce(takeover')]_vars

=============================================================================
