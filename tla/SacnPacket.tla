----------------------------- MODULE SacnPacket -----------------------------
(***************************************************************************)
(* An E1.31 data packet as the send stage encodes it                       *)
(* (cortex/src/sacn_out.rs) and the receive stage reads it                 *)
(* (cortex/src/sacn_in.rs, parse_header, slots_of).  A packet is a record  *)
(* of its fields; `size` is the datagram's, `levels` what it carries after *)
(* the header.                                                             *)
(***************************************************************************)
EXTENDS Naturals, Sequences, FiniteSetsExt

CONSTANTS
    HeaderLen,  \* HEADER_LEN, 126 in the code
    SlotsMax,   \* slots of a universe, 512 in the code
    NotLevels   \* a packet there is nothing to act on in

Preview    == 128   \* PREVIEW_DATA
Terminated == 64    \* STREAM_TERMINATED

HasBit(options, bit) == (options \div bit) % 2 = 1

(* A layer's flags and length: what follows, counted from the layer's own  *)
(* first byte.                                                             *)
Layer(total, at) == 28672 + (total - at)

(* encode: the layers, the property count one more than the slots.         *)
Encode(universe, sequence, priority, options, cid, slots) ==
    LET total == HeaderLen + Len(slots) IN
    [size |-> total, acn |-> "ASC-E1.17", root |-> Layer(total, 16), rootVector |-> 4, cid |-> cid,
     framing |-> Layer(total, 38), framingVector |-> 2,
     priority |-> priority, sequence |-> sequence, options |-> options, universe |-> universe,
     dmp |-> Layer(total, 115), dmpVector |-> 2, count |-> Len(slots) + 1, start |-> 0,
     levels |-> slots]

(* encode_release: zeroed slots, as many as the live stream has.           *)
EncodeRelease(universe, sequence, priority, cid, width) ==
    Encode(universe, sequence, priority, Terminated, cid, [i \in 1 .. width |-> 0])

(* multicast_addr: the universe's group.                                   *)
MulticastAddr(universe) == <<239, 255, universe \div 256, universe % 256>>

(* parse_header: what arbitration reads of a packet for our universe.      *)
ParseHeader(p, universe) ==
    LET declared == IF p.count = 0 THEN 0 ELSE p.count - 1
        slots    == Min({declared, p.size - HeaderLen, SlotsMax})
    IN  IF /\ p.size >= HeaderLen
           /\ p.acn = "ASC-E1.17" /\ p.rootVector = 4 /\ p.framingVector = 2 /\ p.dmpVector = 2
           /\ p.universe = universe
           /\ ~HasBit(p.options, Preview)
           /\ p.start = 0
          THEN [cid |-> p.cid, priority |-> p.priority, sequence |-> p.sequence,
                terminated |-> HasBit(p.options, Terminated), slots |-> slots]
          ELSE NotLevels

(* slots_of: a universe, dark where the source carries nothing.            *)
SlotsOf(p, count) == [i \in 1 .. SlotsMax |-> IF i <= count THEN p.levels[i] ELSE 0]

=============================================================================
