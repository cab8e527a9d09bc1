------------------------------ MODULE MCSacnIn ------------------------------
(***************************************************************************)
(* SacnIn with a history variable: for each console, how many packets it   *)
(* has sent since the newest one the receiver acted on, capped one past    *)
(* what the network can reorder.                                           *)
(***************************************************************************)
EXTENDS SacnIn, Sequences

VARIABLE behind

historyVars == <<vars, behind>>

BehindCap == ReorderDepth + 1

HistoryInit == Init /\ behind = [c \in Cids |-> BehindCap]

(* The receiver acted on this packet: listed its console or let it go.     *)
ActsOn(packet) == HearTerminate(packet) \/ HearLevels(packet)

HistoryNext ==
    \/ \E c \in Cids, p \in net :
          /\ p.cid = c /\ UNCHANGED desk /\ net' \in Delivered(p)
          /\ \/ ActsOn(p) /\ behind' = [behind EXCEPT ![c] = p.lag]
             \/ HearStraggler(p) /\ UNCHANGED behind
    \/ \E c \in Cids :
          /\ Consoles(c)
          /\ UNCHANGED <<receiver, sources, takeover>>
          /\ behind' = CASE net' # net /\ behind[c] < BehindCap ->
                              [behind EXCEPT ![c] = @ + 1]
                         [] desk'[c].on /\ ~desk[c].on /\ desk'[c].sequence # desk[c].sequence ->
                              [behind EXCEPT ![c] = BehindCap]
                         [] OTHER -> behind
    \/ /\ \/ UNCHANGED world /\ (WakeForNothing \/ Socket)
          \/ Lose /\ UNCHANGED <<receiver, sources, takeover>>
          \/ Tick
       /\ UNCHANGED behind

HistorySpec == HistoryInit /\ [][HistoryNext]_historyVars /\ Fairness

(* At the code's own numbers: a console that starts over at any number,    *)
(* whatever number it was last heard at, is heard within 20 packets, half  *)
(* a second at the rig's rate (sacn_in.rs:213-215).                        *)
U8 == INSTANCE SacnSequence WITH SequenceMod <- 256, SequenceWindow <- 20

ASSUME RestartIsHeard ==
    \A last, sequence \in 0 .. 255 :
        \E k \in 0 .. 20 : U8!MovesOn(last, (sequence + k) % 256)

(* Packets with a header and universes small enough to list.               *)
Wire == INSTANCE SacnPacket WITH HeaderLen <- 126, SlotsMax <- 3, NotLevels <- [cid |-> NoCid]

(* What the send stage encodes the receive stage reads back, on its own    *)
(* universe only, with every slot the rig does not span dark; a terminate  *)
(* frame says so (sacn_out.rs:41-43, 103-111, sacn_in.rs:258-313).         *)
ASSUME PacketReadsBack ==
    \A universe \in {1, 256, 63999}, ours \in {1, 256}, sequence \in {0, 255},
      options \in {0, 64, 128, 192}, slots \in UNION {[1 .. n -> {0, 7}] : n \in 0 .. 3} :
        LET packet == Wire!Encode(universe, sequence, 100, options, 5, slots)
            header == Wire!ParseHeader(packet, ours)
        IN  IF universe # ours \/ options \in {128, 192} THEN header = [cid |-> NoCid]
            ELSE /\ header = [cid |-> 5, priority |-> 100, sequence |-> sequence,
                              terminated |-> options = 64, slots |-> Len(slots)]
                 /\ Wire!SlotsOf(packet, header.slots) =
                      [i \in 1 .. 3 |-> IF i <= Len(slots) THEN slots[i] ELSE 0]
                 /\ options = 64 /\ (\A i \in DOMAIN slots : slots[i] = 0) =>
                      packet = Wire!EncodeRelease(universe, sequence, 100, 5, Len(slots))

(* A packet that declares more slots than it carries, or than there are,   *)
(* is read no further than either, and one shorter than a header not at    *)
(* all (sacn_in.rs:259, 291-293).                                          *)
ASSUME NeverReadPastTheEnd ==
    \A size \in 120 .. 131, count \in 0 .. 7 :
        LET carried == IF size < 126 THEN 0 ELSE size - 126
            packet  == [Wire!Encode(1, 0, 100, 0, 5, [i \in 1 .. carried |-> 7])
                          EXCEPT !.count = count, !.size = size]
            header  == Wire!ParseHeader(packet, 1)
        IN  IF size < 126 THEN header = [cid |-> NoCid]
            ELSE /\ header.slots <= carried /\ header.slots <= 3 /\ header.slots <= count
                 /\ \A i \in 1 .. 3 : Wire!SlotsOf(packet, header.slots)[i] =
                                         IF i <= header.slots THEN 7 ELSE 0

(* Universes have groups of their own (sacn_out.rs:113-116).               *)
ASSUME GroupsDiffer ==
    Cardinality({Wire!MulticastAddr(u) : u \in 1 .. 63999}) = 63999

(* While a console stays listed its packets are acted on in the order they *)
(* were sent, each once: a straggler or a duplicate never puts an older    *)
(* frame back on the rig (sacn_in.rs:213-215).                             *)
NoOlderFrame ==
    [][\A c \in Cids :
          /\ c \in DOMAIN Expired(sources) /\ c \in DOMAIN sources'
          /\ sources'[c].age = 0 /\ sources'[c] # sources[c]
          /\ desk' = desk
          => behind'[c] < behind[c]]_historyVars

=============================================================================
