---------------------------- MODULE Definitions -----------------------------
(***************************************************************************)
(* Fixture definitions at build time (cortex-build/src/lib.rs): what the   *)
(* channels of a mode mean, the fields the generated struct gets over      *)
(* them, and the value the e-stop holds each at.                           *)
(*                                                                         *)
(* A preset is [attribute, of, fine]: "IntensityRedFine" is the fine half  *)
(* of Intensity's Red.  A name that becomes an identifier is a sequence of *)
(* words.  Keywords and leading digits of field names are left out.        *)
(***************************************************************************)
EXTENDS Naturals, FiniteSets, FiniteSetsExt, SequencesExt

CONSTANTS
    None,      \* an attribute or element that is not there
    Missing,   \* no stop value, where the rule calls for one
    Irises,    \* what follows Shutter in the presets that start with ShutterIris
    FieldOf    \* field_of: channel name -> field name

ASSUME DefinitionsAssumption ==
    None \notin Nat \cup STRING /\ Missing \notin Nat \cup STRING \cup {None}

(* sort_by_key of what stands at the numbers in S: the n-th has n - 1      *)
(* before it, by key and, the sort being stable, then by number.           *)
Sorted(S, key) ==
    LET before(i) == {j \in S : key[j] < key[i] \/ (key[j] = key[i] /\ j < i)}
    IN  [n \in 1 .. Cardinality(S) |-> CHOOSE i \in S : Cardinality(before(i)) = n - 1]

(* group_of_preset: the group a channel's preset implies.                  *)
GroupOf ==
    [NoFunction |-> "Nothing", PositionPan |-> "Pan", PositionXAxis |-> "Pan",
     PositionTilt |-> "Tilt", PositionYAxis |-> "Tilt", Intensity |-> "Intensity",
     Color |-> "Colour", Speed |-> "Speed", Gobo |-> "Gobo", Shutter |-> "Shutter",
     Beam |-> "Beam", Prism |-> "Prism"]

Group(c) ==
    IF c.group # None THEN c.group
    ELSE IF c.preset # None /\ c.preset.attribute \in DOMAIN GroupOf
           THEN GroupOf[c.preset.attribute]
           ELSE None

(* What load_definitions refuses of a definition file.                     *)
FileComplaints(file, loaded) ==
    {why \in {"group", "band backwards", "defined twice"} :
        CASE why = "group" -> \E n \in DOMAIN file.channels : Group(file.channels[n]) = None
          [] why = "band backwards" ->
                \E n \in DOMAIN file.channels :
                    \E band \in ToSet(file.channels[n].bands) : band.min > band.max
          [] why = "defined twice" -> file.key \in loaded}

(* A mode's channel names by their Number, not in document order.          *)
InNumberOrder(mode) ==
    LET order == Sorted(DOMAIN mode, [i \in DOMAIN mode |-> mode[i].number])
    IN  [k \in DOMAIN mode |-> mode[order[k]].channel]

(* A fixture's channels at their slots, resolved through its definition.   *)
Resolved(fixture, file) ==
    [k \in 1 .. fixture.channels |->
        LET name == InNumberOrder(file.modes[fixture.mode])[k]
            c    == file.channels[name]
        IN  [name |-> name, slot |-> fixture.address + k - 1, preset |-> c.preset,
             group |-> Group(c), colour |-> c.colour, bands |-> c.bands]]

-----------------------------------------------------------------------------

Coarse(preset) == [preset EXCEPT !.fine = FALSE]

(* The channels with the coarse preset that channel i's fine one extends.  *)
Partners(channels, i) ==
    {k \in DOMAIN channels :
        /\ channels[i].preset # None /\ channels[i].preset.fine
        /\ channels[k].preset = Coarse(channels[i].preset)}

(* For each coarse channel that is extended, the fine channel extending    *)
(* it: the first partner is the one extended, and the last fine channel to *)
(* extend it is kept.                                                      *)
FineOf(channels) ==
    LET fines == {i \in DOMAIN channels : Partners(channels, i) # {}}
        coarse(i) == Min(Partners(channels, i))
    IN  [c \in {coarse(i) : i \in fines} |-> Max({i \in fines : coarse(i) = c})]

(* pair_fine_channels: the fields, in the order of their head channels.    *)
Paired(channels) ==
    LET fineOf == FineOf(channels)
        heads  == Sorted(DOMAIN channels \ Range(fineOf), [k \in DOMAIN channels |-> k])
    IN  [k \in DOMAIN heads |->
            [head |-> heads[k],
             fine |-> IF heads[k] \in DOMAIN fineOf THEN fineOf[heads[k]] ELSE None]]

(* role_of: the presets whose role is a field's name.                      *)
RoleOf ==
    [MasterDimmer |-> "dimmer", Dimmer |-> "intensity", Red |-> "red",
     Green |-> "green", Blue |-> "blue", White |-> "white", Amber |-> "amber",
     UV |-> "uv", Cyan |-> "cyan", Magenta |-> "magenta", Yellow |-> "yellow",
     Hue |-> "hue", Saturation |-> "saturation", Value |-> "value",
     Lightness |-> "lightness"]

HasRole(preset) ==
    /\ preset # None /\ preset.attribute = "Intensity" /\ ~preset.fine
    /\ preset.of \in DOMAIN RoleOf

(* A field is named for its role, and for its channel where it has none or *)
(* another field of the mode has the same.                                 *)
Fields(channels) ==
    LET paired   == Paired(channels)
        head(k)  == channels[paired[k].head]
        first(k) == IF HasRole(head(k).preset) THEN <<RoleOf[head(k).preset.of]>>
                                               ELSE FieldOf[head(k).name]
        clash(k) == \E j \in DOMAIN paired \ {k} : first(j) = first(k)
    IN  [k \in DOMAIN paired |->
            [head |-> paired[k].head, fine |-> paired[k].fine,
             name |-> IF clash(k) THEN FieldOf[head(k).name] ELSE first(k)]]

(* What resolve_definitions refuses of a fixture.                          *)
ResolveComplaints(fixture, files) ==
    IF fixture.key \notin DOMAIN files THEN {"no definition"}
    ELSE LET file == files[fixture.key] IN
    IF fixture.mode \notin DOMAIN file.modes THEN {"no mode"}
    ELSE LET mode == file.modes[fixture.mode] IN
    IF Len(mode) # fixture.channels THEN {"channel count"}
    ELSE IF \E i \in DOMAIN mode : mode[i].channel \notin DOMAIN file.channels
           THEN {"undeclared channel"}
    ELSE LET fields == Fields(Resolved(fixture, file)) IN
         IF \E j, k \in DOMAIN fields : j < k /\ fields[j].name = fields[k].name
           THEN {"field clash"} ELSE {}

-----------------------------------------------------------------------------

NotDarkAtZero == {"Hue", "Saturation", "Cyan", "Magenta", "Yellow"}

(* Light that zero does not darken: by its preset, or by its colour where  *)
(* it has no preset.                                                       *)
LitAtZero(c) ==
    IF c.preset # None THEN c.preset.attribute = "Intensity" /\ c.preset.of \in NotDarkAtZero
                       ELSE c.colour \in {"Cyan", "Magenta", "Yellow"}

BandsOf(c, preset) == {i \in DOMAIN c.bands : c.bands[i].preset = preset}

(* The start of the first band with one of these presets, in their order.  *)
BandStart(c, presets) ==
    LET stated == {k \in DOMAIN presets : BandsOf(c, presets[k]) # {}}
    IN  IF stated = {} THEN Missing
        ELSE c.bands[Min(BandsOf(c, presets[Min(stated)]))].min

Iris(c) == c.preset # None /\ c.preset.attribute = "Shutter" /\ c.preset.of \in Irises

(* Mutant of ShutterStop: one iris preset is known, not its variants.      *)
ShutterStopExact(c) ==
    IF c.preset # None /\ c.preset.attribute = "Shutter" /\ c.preset.of = "Iris"
      THEN None ELSE BandStart(c, <<"ShutterClose", "ShutterOpen">>)

(* An iris stays; a shutter closes, or opens where it has no closed band:  *)
(* the light is dark already, and what matters is that the strobe stops.   *)
ShutterStop(c) ==
    IF Iris(c) THEN None ELSE BandStart(c, <<"ShutterClose", "ShutterOpen">>)

(* stop_override: what the e-stop holds a channel at, None where it leaves *)
(* it, Missing where the definition does not say.                          *)
StopOverride(c) ==
    CASE c.group = "Intensity" -> IF LitAtZero(c) THEN None ELSE 0
      [] c.group # "Intensity" /\ BandsOf(c, "RotationStop") # {} ->
            BandStart(c, <<"RotationStop">>)
      [] OTHER ->
            CASE c.group = "Shutter" -> ShutterStop(c)
              [] c.group \in {"Effect", "Maintenance"} -> BandStart(c, <<"NoFunction">>)
              [] OTHER -> None

=============================================================================
