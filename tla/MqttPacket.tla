----------------------------- MODULE MqttPacket -----------------------------
(***************************************************************************)
(* The MQTT packets of a publish-only client (stem/src/lib.rs), as the     *)
(* sequences of bytes a caller's buffer gets, or TooLong.  A string is the *)
(* sequence of its bytes.                                                  *)
(***************************************************************************)
EXTENDS Naturals, Sequences, SequencesExt

CONSTANT TooLong   \* the error: it does not fit

(* levels joined by "/", and their length in a packet.                     *)
Slash == <<47>>

Joined(levels) ==
    FlattenSeq([i \in DOMAIN levels |-> IF i = 1 THEN levels[i] ELSE Slash \o levels[i]])

StringLen(levels) == 2 + Len(Joined(levels))

(* Writer::string: a two-byte length, then the bytes.                      *)
String(levels) ==
    <<Len(Joined(levels)) \div 256, Len(Joined(levels)) % 256>> \o Joined(levels)

(* The remaining length, seven bits a byte, the lowest first.              *)
Remaining[n \in Nat] ==
    IF n < 128 THEN <<n>> ELSE <<128 + (n % 128)>> \o Remaining[n \div 128]

(* Writer: a packet in room bytes, its header told the body's length; a    *)
(* string's length is a u16.                                               *)
Written(kind, length, body, levels, room) ==
    LET packet == <<kind>> \o Remaining[length] \o body
    IN  IF Len(packet) > room \/ Len(Joined(levels)) > 65535 THEN TooLong ELSE packet

(* connect: clean session and a retained will, "gone" on the health topic. *)
Connect(service, mqtt, health, gone, keepalive, room) ==
    LET will   == <<health, service>>
        length == StringLen(<<mqtt>>) + 1 + 1 + 2
                    + StringLen(<<service>>) + StringLen(will) + StringLen(<<gone>>)
        body   == String(<<mqtt>>) \o <<4, 2 + 4 + 32>>
                    \o <<keepalive \div 256, keepalive % 256>>
                    \o String(<<service>>) \o String(will) \o String(<<gone>>)
    IN  Written(16, length, body, will, room)

(* publish at QoS 0.                                                       *)
Publish(levels, payload, retain, room) ==
    LET length == StringLen(levels) + Len(payload)
        body   == String(levels) \o payload
    IN  Written(48 + (IF retain THEN 1 ELSE 0), length, body, levels, room)

(* read_connack: whether a broker would have us.                           *)
Accepts(packet) == packet[1] = 32 /\ packet[4] = 0

=============================================================================
