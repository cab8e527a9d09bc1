------------------------------ MODULE MCBuild -------------------------------
(***************************************************************************)
(* The builds over small workspaces: rows on a universe of six slots,      *)
(* modes made of every ordering of the channels, broken files, and shows   *)
(* over four days of six hours with both clock changes.                    *)
(***************************************************************************)
EXTENDS Build, TLC

(* What the three naming functions make of these names.                    *)
MCIdentOf ==
    ("Yara 1" :> <<"yara", "1">>) @@ ("yara-1" :> <<"yara", "1">>)
    @@ ("Ball" :> <<"ball">>) @@ ("Face" :> <<"face">>) @@ ("1st" :> <<"1st">>)
    @@ ("--" :> <<>>)

MCFieldOf ==
    ("Pan" :> <<"pan">>) @@ ("Pan fine" :> <<"pan", "fine">>)
    @@ ("Pan 2" :> <<"pan", "2">>) @@ ("Pan 2 fine" :> <<"pan", "2", "fine">>)
    @@ ("Dimmer" :> <<"dimmer">>)
    @@ ("Dim fine" :> <<"dim", "fine">>)
    @@ ("Red" :> <<"red">>) @@ ("Red 2" :> <<"red", "2">>) @@ ("red-2" :> <<"red", "2">>)
    @@ ("Cyan" :> <<"cyan">>) @@ ("Strobe" :> <<"strobe">>)
    @@ ("Shutter" :> <<"shutter">>) @@ ("Iris" :> <<"iris">>) @@ ("Iris fine" :> <<"iris", "fine">>)
    @@ ("Auto" :> <<"auto">>) @@ ("Wheel" :> <<"wheel">>) @@ ("Gobo" :> <<"gobo">>)

MCTypeNameOf ==
    ("spot" :> <<"Spot">>) @@ ("Spot A" :> <<"Spot", "A">>) @@ ("1K" :> <<"1k">>)
    @@ ("a" :> <<"A">>) @@ ("b" :> <<"B">>) @@ ("none" :> <<"None">>)

Preset(attribute, of, fine) == [attribute |-> attribute, of |-> of, fine |-> fine]
ByPreset(preset) == [preset |-> preset, group |-> None, colour |-> None, bands |-> <<>>]
ByBands(group, bands) == [preset |-> None, group |-> group, colour |-> None, bands |-> bands]
On(min, max, preset) == [min |-> min, max |-> max, preset |-> preset]

ChannelDefs ==
    ("Pan" :> ByPreset(Preset("PositionPan", "", FALSE)))
    @@ ("Pan fine" :> ByPreset(Preset("PositionPan", "", TRUE)))
    @@ ("Pan 2" :> ByPreset(Preset("PositionPan", "", FALSE)))
    @@ ("Pan 2 fine" :> ByPreset(Preset("PositionPan", "", TRUE)))
    @@ ("Dimmer" :> ByPreset(Preset("Intensity", "MasterDimmer", FALSE)))
    @@ ("Dim fine" :> ByPreset(Preset("Intensity", "MasterDimmer", TRUE)))
    @@ ("Red" :> ByPreset(Preset("Intensity", "Red", FALSE)))
    @@ ("Red 2" :> ByPreset(Preset("Intensity", "Red", FALSE)))
    @@ ("red-2" :> ByBands("Nothing", <<>>))
    @@ ("Cyan" :> [ByBands("Intensity", <<>>) EXCEPT !.colour = "Cyan"])
    @@ ("Strobe" :> ByBands("Shutter", <<On(0, 9, None), On(10, 19, "ShutterOpen")>>))
    @@ ("Shutter" :> ByBands("Shutter", <<On(0, 199, "ShutterOpen"), On(200, 255, "ShutterClose")>>))
    @@ ("Iris" :> [ByPreset(Preset("Shutter", "IrisMinToMax", FALSE))
                     EXCEPT !.bands = <<On(0, 127, "ShutterOpen")>>])
    @@ ("Iris fine" :> ByPreset(Preset("Shutter", "Iris", TRUE)))
    @@ ("Auto" :> ByBands("Effect", <<On(0, 99, None), On(100, 109, "NoFunction")>>))
    @@ ("Wheel" :> ByBands("Effect", <<On(0, 127, "NoFunction"), On(128, 129, "RotationStop")>>))
    @@ ("Gobo" :> ByBands("Maintenance", <<On(0, 9, None)>>))

InMode(names) == [k \in DOMAIN names |-> [number |-> k, channel |-> names[k]]]

File(maker, model, modes) ==
    [key |-> [maker |-> maker, model |-> model], channels |-> ChannelDefs, modes |-> modes]

Spot == File("x", "spot", [a |-> InMode(<<"Dimmer">>), b |-> InMode(<<"Pan fine", "Pan">>)])

Width == [a |-> 1, b |-> 2]

Fixture(id, name, mode, address) ==
    [id |-> id, name |-> name, universe |-> 0, key |-> Spot.key, mode |-> mode,
     address |-> address, channels |-> Width[mode]]

Output == [universe |-> 1, port |-> 5568, multicast |-> 0, address |-> 0]

Good ==
    [output |-> Output, fixtures |-> <<Fixture(1, "Ball", "a", 0)>>, directory |-> <<Spot>>,
     place |-> [city |-> "Delft", country |-> Anywhere], shows |-> <<>>]

(* Up to three fixtures anywhere in the universe, in any order of IDs.     *)
Patches ==
    {<<>>}
    \cup {<<Fixture(i, m, a, x), Fixture(j, n, b, y)>> :
            i \in {2}, j \in {1, 2}, m \in {"Yara 1"}, n \in {"yara-1", "Ball"},
            a, b \in {"a", "b"}, x, y \in 0 .. 5}
    \cup {<<Fixture(i[1], "Yara 1", "b", x), Fixture(i[2], "Ball", "a", y), Fixture(i[3], "Face", "b", z)>> :
            i \in {<<1, 2, 3>>, <<3, 1, 2>>, <<2, 3, 1>>}, x, y, z \in 0 .. 4}

(* One fixture with something else wrong.                                  *)
Rows ==
    {[Fixture(1, name, "a", 0) EXCEPT !.universe = u, !.channels = n] :
        name \in DOMAIN MCIdentOf, u \in {0, 1}, n \in 0 .. 2}
    \cup {[Fixture(1, "Ball", "a", 6) EXCEPT !.channels = 0],
          [Fixture(1, "Ball", "a", 0) EXCEPT !.key.model = "1K"],
          [Fixture(1, "Ball", "a", 0) EXCEPT !.mode = "none"]}

Orders(S) == {m \in [1 .. Cardinality(S) -> S] : IsInjective(m)}

(* A mode of any two of the channels or three of most of them, in any      *)
(* order, and with two coarse channels and two fine ones; "Zoom" has no    *)
(* definition.                                                             *)
Modes ==
    LET Names == DOMAIN ChannelDefs \cup {"Zoom"}
        Most  == Names \ {"Pan 2", "Pan 2 fine", "Shutter", "Iris", "Iris fine"}
    IN  {<<a>> : a \in Names} \cup {<<"Red", "Red 2", "Pan fine", "Pan">>}
        \cup UNION {Orders(S) : S \in kSubset(2, Names) \cup kSubset(3, Most)}
        \cup Orders({"Pan", "Pan fine", "Dimmer", "Dim fine"})
        \cup Orders({"Pan", "Pan fine", "Pan 2", "Pan 2 fine"})

WithMode(names) ==
    [Good EXCEPT !.directory = <<File("x", "spot", [a |-> InMode(names)])>>,
                 !.fixtures = <<[Fixture(1, "Ball", "a", 1) EXCEPT !.channels = Len(names)]>>]

(* Directories: two makers, two models of one name, files that are broken. *)
Directories ==
    {<<Spot, Spot>>, <<>>,
     <<[Spot EXCEPT !.channels["Red"].bands = <<On(9, 0, None)>>]>>,
     <<[Spot EXCEPT !.channels["Red"].preset = None]>>,
     <<[Spot EXCEPT !.modes.b = <<[number |-> 2, channel |-> "Pan"], [number |-> 1, channel |-> "Dimmer"]>>]>>}

(* Two modes of one model, and a second model, of one name or another.     *)
Types ==
    {[Good EXCEPT !.directory = <<Spot, File("x", model, Spot.modes)>>,
                  !.fixtures = <<Fixture(1, "Ball", "a", 0), Fixture(2, "Face", m, 1),
                                 [Fixture(3, "Yara 1", n, 3) EXCEPT !.key.model = model]>>] :
        model \in {"Spot A", "1K"}, m, n \in {"a", "b"}}

Outputs ==
    {None} \cup {[Output EXCEPT !.universe = u, !.port = p, !.multicast = m, !.address = a] :
                    u \in {None, 0, 1, 63999, 64000}, p \in {None, 0, 5568},
                    m \in {None, 0, 1}, a \in {None, 0}}

-----------------------------------------------------------------------------

MCCities ==
    {[city |-> "Delft", country |-> "NL"], [city |-> "Paris", country |-> "FR"],
     [city |-> "Paris", country |-> "US"]}

Places == [city : {"Delft", "Paris", "Oz"}, country : {Anywhere, "NL", "FR"}]

MCInstants == 0 .. 30

(* Summer time from 9 to 20.                                               *)
MCOffset == [t \in MCInstants |-> IF t \in 9 .. 20 THEN 1 ELSE 0]

MCDusk == [d \in -1 .. 5 |-> IF d = 5 THEN NoTwilight ELSE d * 6 + 4]
MCDawn == [d \in 0 .. 6 |-> d * 6 + (IF d = 2 THEN 2 ELSE 1)]

Shows(from, to) == [start : from, stop : to]

ShowTables ==
    {<<show>> : show \in Shows(1 .. 29, 1 .. 29)}
    \cup {<<a, b>> : a, b \in Shows({4, 12}, {12, 16, 23})}
    \cup {<<a, b, c>> : a, b, c \in Shows({3, 6, 20}, {5, 6, 22})}

MCInputs ==
    {[Good EXCEPT !.fixtures = p] : p \in Patches}
    \cup {[Good EXCEPT !.fixtures = <<row>>] : row \in Rows}
    \cup {WithMode(names) : names \in Modes}
    \cup {[Good EXCEPT !.directory = d] : d \in Directories}
    \cup Types
    \cup {[Good EXCEPT !.output = o] : o \in Outputs}
    \cup {[Good EXCEPT !.place = p] : p \in Places}
    \cup {[Good EXCEPT !.shows = s] : s \in ShowTables}

=============================================================================
