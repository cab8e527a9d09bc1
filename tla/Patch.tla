------------------------------- MODULE Patch --------------------------------
(***************************************************************************)
(* The patch a build takes from the QLC+ workspace                         *)
(* (cortex-build/src/lib.rs): which rows it refuses, what types it names,  *)
(* and what it generates - for the rig's own build and for a firmware that *)
(* is one of its fixtures.  Reading the XML and laying out the generated   *)
(* file are left out.                                                      *)
(***************************************************************************)
EXTENDS Definitions

CONSTANTS
    UniverseSlots,  \* UNIVERSE_SLOTS, 512 in the code
    IdentOf,        \* ident_of: fixture name -> constant name
    TypeNameOf,     \* type_name_of: model or mode -> the words of a type's name
    DigitWords      \* the words no letter starts

ASSUME PatchAssumption == UniverseSlots \in Nat \ {0}

(* A name that can be a constant or a type.                                 *)
Usable(name) == name # <<>> /\ Head(name) \notin DigitWords

(* What parse_sacn refuses of the E1.31 output's parameters.               *)
SacnComplaints(output) ==
    IF output = None THEN {"no output"}
    ELSE {p \in DOMAIN output : output[p] = None}
         \cup (IF output.multicast # 0 THEN {"multicast"} ELSE {})
         \cup (IF output.universe \notin 1 .. 63999 THEN {"universe"} ELSE {})
         \cup (IF output.port = 0 THEN {"port"} ELSE {})

(* The row a fixture becomes, nothing of it resolved yet.                  *)
Patched(f) ==
    [name |-> f.name, key |-> f.key, mode |-> f.mode, address |-> f.address,
     channels |-> f.channels, resolved |-> <<>>, fields |-> <<>>]

(* What parse_patch refuses of a fixture, the rows before it known.        *)
FixtureComplaints(f, patch) ==
    {why \in {"universe index", "zero channels", "past the end", "name", "name clash", "id"} :
        CASE why = "universe index" -> f.universe # 0
          [] why = "zero channels"  -> f.channels = 0
          [] why = "past the end"   -> f.channels # 0 /\ f.address + f.channels > UniverseSlots
          [] why = "name"           -> ~Usable(IdentOf[f.name])
          [] why = "name clash"     -> \E id \in DOMAIN patch : IdentOf[patch[id].name] = IdentOf[f.name]
          [] why = "id"             -> f.id \in DOMAIN patch}

(* Rows in address order; rows at one address stay in the order of IDs.    *)
ByAddress(patch) ==
    LET ids == Sorted(DOMAIN patch, [id \in DOMAIN patch |-> patch[id].address])
    IN  [k \in DOMAIN ids |-> patch[ids[k]]]

(* Mutant of Spans: neighbours by fixture ID.                              *)
SpansById(patch) ==
    LET ids == SetToSortSeq(DOMAIN patch, <)
    IN  [k \in DOMAIN ids |-> patch[ids[k]]]

Spans(patch) == ByAddress(patch)

(* What parse_patch refuses of the whole patch: it compares neighbours.    *)
PatchComplaints(patch) ==
    IF DOMAIN patch = {} THEN {"empty"}
    ELSE IF \E k \in 1 .. Cardinality(DOMAIN patch) - 1 :
              Spans(patch)[k].address + Spans(patch)[k].channels > Spans(patch)[k + 1].address
           THEN {"overlap"} ELSE {}

(* assign_type_names: a model patched in two modes carries its mode.       *)
TypeName(f, patch) ==
    LET ambiguous == \E id \in DOMAIN patch :
                        patch[id].key.model = f.key.model /\ patch[id].mode # f.mode
    IN  TypeNameOf[f.key.model] \o (IF ambiguous THEN TypeNameOf[f.mode] ELSE <<>>)

TypeComplaints(patch) ==
    {why \in {"type name", "type clash"} :
        CASE why = "type name" -> \E i \in DOMAIN patch : ~Usable(TypeName(patch[i], patch))
          [] why = "type clash" ->
                \E i, j \in DOMAIN patch :
                    /\ TypeName(patch[i], patch) = TypeName(patch[j], patch)
                    /\ \/ patch[i].key.model # patch[j].key.model
                       \/ patch[i].mode # patch[j].mode}

-----------------------------------------------------------------------------

(* A field's halves: the paths through which its channels are reached.     *)
Halves(field) ==
    IF field.fine = None THEN {[field |-> field.name, half |-> "whole", index |-> field.head]}
    ELSE {[field |-> field.name, half |-> "coarse", index |-> field.head],
          [field |-> field.name, half |-> "fine", index |-> field.fine]}

(* channel_paths: the path to each channel, in mode order.                 *)
ChannelPaths(f) ==
    LET halves == UNION {Halves(field) : field \in ToSet(f.fields)}
    IN  [k \in DOMAIN f.resolved |->
            LET h == CHOOSE h \in halves : h.index = k IN <<h.field, h.half>>]

(* The instance constant: the slot behind each path.                       *)
Instance(f) ==
    LET halves == UNION {Halves(field) : field \in ToSet(f.fields)}
    IN  [path \in {<<h.field, h.half>> : h \in halves} |->
            f.resolved[(CHOOSE h \in halves : <<h.field, h.half>> = path).index].slot]

(* The PATCH table: every fixture, its channels read off its instance.     *)
PatchTable(patch) ==
    [k \in 1 .. Cardinality(DOMAIN patch) |->
        LET f == ByAddress(patch)[k] IN
        [ident |-> IdentOf[f.name], type |-> TypeName(f, patch), address |-> f.address + 1,
         instance |-> Instance(f),
         channels |-> [i \in DOMAIN f.resolved |-> Instance(f)[ChannelPaths(f)[i]]]]]

(* render_stop for one field: a band states the coarse value only, so the  *)
(* fine half goes to the start of it.                                      *)
StopRows(f, field) ==
    LET value == StopOverride(f.resolved[field.head])
        row(index, v) == [slot |-> f.resolved[index].slot, value |-> v]
    IN  IF value = None THEN {}
        ELSE {row(field.head, value)}
             \cup (IF field.fine = None THEN {} ELSE {row(field.fine, 0)})

StopTable(patch) ==
    UNION {UNION {StopRows(patch[id], field) : field \in ToSet(patch[id].fields)} :
              id \in DOMAIN patch}

(* frame_width: slots 1 through the last any fixture occupies.             *)
FrameWidth(table) ==
    Max({0} \cup {slot + 1 : slot \in UNION {ToSet(row.channels) : row \in ToSet(table)}})

(* Mutant of FirmwareFields: a fine half is taken to follow its coarse one. *)
FirmwareFieldsInTurn(f) ==
    LET offset(index) == f.resolved[index].slot - f.address
    IN  {[name |-> field.name, offset |-> offset(field.head),
          bands |-> f.resolved[field.head].bands] : field \in ToSet(f.fields)}
        \cup {[name |-> Append(field.name, "fine"), offset |-> offset(field.head) + 1,
               bands |-> <<>>] : field \in {g \in ToSet(f.fields) : g.fine # None}}

(* addressing, for a firmware: its fields by their offset, a fine half as  *)
(* a field of its own.                                                     *)
FirmwareFields(f) ==
    LET offset(index) == f.resolved[index].slot - f.address
    IN  {[name |-> field.name, offset |-> offset(field.head),
          bands |-> f.resolved[field.head].bands] : field \in ToSet(f.fields)}
        \cup {[name |-> Append(field.name, "fine"), offset |-> offset(field.fine),
               bands |-> <<>>] : field \in {g \in ToSet(f.fields) : g.fine # None}}

Addressing(patch) ==
    [k \in 1 .. Cardinality(DOMAIN patch) |->
        LET f == ByAddress(patch)[k] IN
        [ident |-> IdentOf[f.name], address |-> f.address + 1, channels |-> f.channels,
         fields |-> FirmwareFields(f)]]

=============================================================================
