------------------------------- MODULE Build --------------------------------
(***************************************************************************)
(* The two builds that read one workspace: the rig's (brain/build.rs:      *)
(* ingest, then calendar) and a firmware's (addressing), each a build      *)
(* script that stops at the first thing it cannot honour.  Where it could  *)
(* name several, which one it names is left open.                          *)
(***************************************************************************)
EXTENDS Patch, ShowTable

CONSTANT Inputs   \* bound: records [output, fixtures, directory, place, shows]

(* What parsing makes of a row, a band and a channel.                      *)
Fixtures ==
    [id : Nat, name : STRING, universe : Nat, key : [maker : STRING, model : STRING],
     mode : STRING, address : Nat, channels : Nat]
Bands == [min : 0 .. 255, max : 0 .. 255, preset : STRING \cup {None}]
Channels ==
    [preset : [attribute : STRING, of : STRING, fine : BOOLEAN] \cup {None},
     group : STRING \cup {None}, colour : STRING \cup {None}, bands : Seq(Bands)]

ASSUME InputsAssumption ==
    \A i \in Inputs :
        /\ i.fixtures \in Seq(Fixtures)
        /\ i.directory \in Seq(ToSet(i.directory)) /\ i.shows \in Seq(ToSet(i.shows))
        /\ \A file \in ToSet(i.directory) :
              /\ \A n \in DOMAIN file.channels : file.channels[n] \in Channels
              /\ \A m \in DOMAIN file.modes :
                    file.modes[m] \in Seq([number : Nat, channel : STRING])

(* A complaint is a string, and so it is not None.                         *)
ASSUME VerdictAssumption ==
    None \notin {"city", "local time", "ends before it starts", "out of order", "no twilight"}

VARIABLES
    input,        \* the workspace, the definitions beside it and the show table
    builder,      \* whose build runs: "rig", then "firmware"
    at,           \* what it reads next
    next,         \* and which one of those
    patch,        \* fixture ID -> row
    definitions,  \* key -> definition file
    shows,        \* the shows resolved
    generated,    \* product -> what was generated, if it was
    refused       \* why each build failed

readVars == <<next, patch, definitions, shows>>
vars == <<input, builder, at, readVars, generated, refused>>

Builders == {"rig", "firmware"}

(* What the builds make: rig.rs and calendar.rs, and a firmware's patch.   *)
Products == Builders \cup {"calendar"}

(* A build script starts from nothing.                                     *)
Init ==
    /\ input \in Inputs
    /\ builder = "rig"
    /\ at = "output" /\ next = 1
    /\ patch = <<>> /\ definitions = <<>> /\ shows = <<>>
    /\ generated = [p \in Products |-> None]
    /\ refused = [b \in Builders |-> None]

-----------------------------------------------------------------------------

(* A panic fails the build.                                                *)
Refuse(complaints) ==
    /\ \E why \in complaints : refused' = [refused EXCEPT ![builder] = why]
    /\ at' = "ended"
    /\ UNCHANGED <<input, builder, readVars, generated>>

Onward(to) ==
    /\ at' = to /\ next' = 1
    /\ UNCHANGED <<input, builder, patch, definitions, shows, generated, refused>>

ParseSacn ==
    /\ at = "output"
    /\ LET complaints == SacnComplaints(input.output) IN
       IF complaints # {} THEN Refuse(complaints)
       ELSE Onward("fixtures")

(* One turn of parse_patch's loop.                                         *)
ParseFixture ==
    /\ at = "fixtures" /\ next <= Len(input.fixtures)
    /\ LET f == input.fixtures[next] IN
       IF FixtureComplaints(f, patch) # {} THEN Refuse(FixtureComplaints(f, patch))
       ELSE /\ patch' = [id \in DOMAIN patch \cup {f.id} |-> IF id = f.id THEN Patched(f) ELSE patch[id]]
            /\ next' = next + 1
            /\ UNCHANGED <<input, builder, at, definitions, shows, generated, refused>>

ParsePatch ==
    /\ at = "fixtures" /\ next > Len(input.fixtures)
    /\ IF PatchComplaints(patch) # {} THEN Refuse(PatchComplaints(patch))
       ELSE Onward("definitions")

(* One file of the definitions directory.                                  *)
LoadDefinition ==
    /\ at = "definitions" /\ next <= Len(input.directory)
    /\ LET file == input.directory[next]
           complaints == FileComplaints(file, DOMAIN definitions)
       IN  IF complaints # {} THEN Refuse(complaints)
           ELSE /\ definitions' = [key \in DOMAIN definitions \cup {file.key} |->
                                     IF key = file.key THEN file ELSE definitions[key]]
                /\ next' = next + 1
                /\ UNCHANGED <<input, builder, at, patch, shows, generated, refused>>

Unresolved == {id \in DOMAIN patch : patch[id].resolved = <<>>}

(* The fixture of the lowest ID not resolved yet.                          *)
ResolveDefinition ==
    /\ at = "definitions" /\ next > Len(input.directory) /\ Unresolved # {}
    /\ LET id == Min(Unresolved)
           f  == patch[id]
       IN  IF ResolveComplaints(f, definitions) # {} THEN Refuse(ResolveComplaints(f, definitions))
           ELSE LET channels == Resolved(f, definitions[f.key])
                IN  /\ patch' = [patch EXCEPT ![id] =
                          [f EXCEPT !.resolved = channels, !.fields = Fields(channels)]]
                    /\ UNCHANGED <<input, builder, at, next, definitions, shows, generated, refused>>

ResolvedAll == at = "definitions" /\ next > Len(input.directory) /\ Unresolved = {}

(* The end of ingest: the types named, and rig.rs written.                 *)
Ingest ==
    /\ ResolvedAll /\ builder = "rig"
    /\ LET stop == StopTable(patch)
           complaints ==
              IF TypeComplaints(patch) # {} THEN TypeComplaints(patch)
              ELSE IF \E row \in stop : row.value = Missing THEN {"no stop band"} ELSE {}
       IN  IF complaints # {} THEN Refuse(complaints)
           ELSE /\ generated' = [generated EXCEPT !["rig"] =
                                   [patch |-> PatchTable(patch), stop |-> stop]]
                /\ at' = "place" /\ next' = 1
                /\ UNCHANGED <<input, builder, patch, definitions, shows, refused>>

(* The end of addressing.                                                  *)
Address ==
    /\ ResolvedAll /\ builder = "firmware"
    /\ generated' = [generated EXCEPT !["firmware"] = Addressing(patch)]
    /\ at' = "ended"
    /\ UNCHANGED <<input, builder, readVars, refused>>

FindPlace ==
    /\ at = "place"
    /\ IF Cardinality(FindCity(input.place)) # 1 THEN Refuse({"city"})
       ELSE Onward("shows")

(* One show of the table.                                                  *)
ResolveShow ==
    /\ at = "shows" /\ next <= Len(input.shows)
    /\ LET show == input.shows[next] IN
       IF ShowComplaints(show, shows) # {} THEN Refuse(ShowComplaints(show, shows))
       ELSE /\ shows' = Append(shows, ResolvedShow(show))
            /\ next' = next + 1
            /\ UNCHANGED <<input, builder, at, patch, definitions, generated, refused>>

WriteCalendar ==
    /\ at = "shows" /\ next > Len(input.shows)
    /\ at' = "ended"
    /\ generated' = [generated EXCEPT !["calendar"] = shows]
    /\ UNCHANGED <<input, builder, readVars, refused>>

(* A firmware's build of the same workspace.                               *)
OtherBuild ==
    /\ at = "ended" /\ builder = "rig"
    /\ builder' = "firmware"
    /\ at' = "output" /\ next' = 1
    /\ patch' = <<>> /\ definitions' = <<>> /\ shows' = <<>>
    /\ UNCHANGED <<input, generated, refused>>

Next ==
    \/ ParseSacn \/ ParseFixture \/ ParsePatch
    \/ LoadDefinition \/ ResolveDefinition \/ Ingest \/ Address
    \/ FindPlace \/ ResolveShow \/ WriteCalendar
    \/ OtherBuild

Spec == Init /\ [][Next]_vars

-----------------------------------------------------------------------------

Built(b) == (b # builder \/ at = "ended") /\ generated[b] # None /\ refused[b] = None

Slots(f) == f.address .. f.address + f.channels - 1

(* Two of a sequence of things are one to this function.                   *)
Twice(seq, F(_)) == \E i, j \in DOMAIN seq : i < j /\ F(seq[i]) = F(seq[j])

(* What is wrong with an input, read off the whole of it.                  *)
RowDefects ==
    LET rows == input.fixtures IN
    {why \in {"universe index", "zero channels", "past the end", "name", "name clash", "id",
              "empty", "overlap"} :
        CASE why = "universe index" -> \E f \in ToSet(rows) : f.universe # 0
          [] why = "zero channels"  -> \E f \in ToSet(rows) : Slots(f) = {}
          [] why = "past the end"   -> \E f \in ToSet(rows) : ~ Slots(f) \subseteq 0 .. UniverseSlots - 1
          [] why = "name"           -> \E f \in ToSet(rows) : ~Usable(IdentOf[f.name])
          [] why = "name clash"     -> Twice(rows, LAMBDA f : IdentOf[f.name])
          [] why = "id"             -> Twice(rows, LAMBDA f : f.id)
          [] why = "empty"          -> rows = <<>>
          [] why = "overlap"        -> \E i, j \in DOMAIN rows :
                                          i < j /\ Slots(rows[i]) \cap Slots(rows[j]) # {}}

FileDefects ==
    (UNION {FileComplaints(file, {}) : file \in ToSet(input.directory)})
    \cup (IF Twice(input.directory, LAMBDA file : file.key) THEN {"defined twice"} ELSE {})

Directory == [key \in {file.key : file \in ToSet(input.directory)} |->
                 CHOOSE file \in ToSet(input.directory) : file.key = key]

FixtureDefects == UNION {ResolveComplaints(f, Directory) : f \in ToSet(input.fixtures)}

TypeDefects == TypeComplaints(input.fixtures)

Has(c, preset) == \E band \in ToSet(c.bands) : band.preset = preset

(* A rotation, whatever channel it is on, unless that is the light itself. *)
Spins(c) == c.group # "Intensity" /\ Has(c, "RotationStop")

(* What else runs by itself: a strobe, an auto program, a reset.           *)
Strobes(c) == c.group = "Shutter" /\ ~Iris(c)
Acts(c)    == c.group \in {"Effect", "Maintenance"}

(* What the stop has to send to a band that the definition does not name.  *)
NoBand(c) ==
    /\ ~Spins(c)
    /\ \/ Strobes(c) /\ ~Has(c, "ShutterClose") /\ ~Has(c, "ShutterOpen")
       \/ Acts(c) /\ ~Has(c, "NoFunction")

StopDefects ==
    {why \in {"no stop band"} :
        \E f \in ToSet(input.fixtures) :
            /\ ResolveComplaints(f, Directory) = {}
            /\ LET channels == Resolved(f, Directory[f.key])
               IN  \E field \in ToSet(Fields(channels)) : NoBand(channels[field.head])}

(* Shows in order and apart, every one of them, not only the neighbours.   *)
ShowDefects ==
    LET table == input.shows
        sound(i) == Resolves(table[i].start) /\ Resolves(table[i].stop)
        span(i)  == [start |-> Resolve(table[i].start), stop |-> Resolve(table[i].stop)]
    IN  {why \in {"local time", "ends before it starts", "out of order", "no twilight"} :
            CASE why = "local time" -> \E i \in DOMAIN table : ~sound(i)
              [] why = "ends before it starts" ->
                    \E i \in DOMAIN table : sound(i) /\ span(i).stop <= span(i).start
              [] why = "out of order" ->
                    \E i, j \in DOMAIN table :
                        i < j /\ sound(i) /\ sound(j) /\ span(j).start < span(i).stop
              [] why = "no twilight" ->
                    \E i \in DOMAIN table : sound(i) /\ NeverTwilight(span(i).start, span(i).stop)}
        \cup (IF Cardinality(FindCity(input.place)) # 1 THEN {"city"} ELSE {})

Defects(b) ==
    SacnComplaints(input.output) \cup RowDefects \cup FileDefects \cup FixtureDefects
    \cup (IF b = "rig" THEN TypeDefects \cup StopDefects \cup ShowDefects ELSE {})

(* A build fails for something the workspace really has, and what it       *)
(* accepts has nothing wrong with it, though rows, files and shows are     *)
(* checked one by one and only against neighbours (lib.rs:13-15, "every    *)
(* malformed case below panics").                                          *)
VerdictIsRight ==
    \A b \in Builders :
        /\ refused[b] # None => refused[b] \in Defects(b)
        /\ Built(b) => Defects(b) = {}

(* Through the table and through an instance's paths a channel is the slot *)
(* its place in the mode says, no two channels share one, and the frame    *)
(* reaches all.                                                            *)
Addressed(table) ==
    LET width == FrameWidth(table)
    IN  /\ \A row \in ToSet(table) :
              /\ \A i \in DOMAIN row.channels : row.channels[i] = row.address - 1 + i - 1
              /\ IsInjective(row.instance)
              /\ Range(row.instance) = ToSet(row.channels)
              /\ ToSet(row.channels) \subseteq 0 .. width - 1
        /\ \A i, j \in DOMAIN table :
              i # j => ToSet(table[i].channels) \cap ToSet(table[j].channels) = {}
        /\ width <= UniverseSlots

(* What a firmware calls the channel the rig reaches through a path.       *)
Called(path) == IF path[2] = "fine" THEN Append(path[1], "fine") ELSE path[1]

(* A firmware has a field for each of the rig's paths, the fine halves'    *)
(* too, where the rig's table has it, and nothing besides.  A name it uses *)
(* twice is a fine half's: a mode may have a lone channel of that name.    *)
Agree(mine, row) ==
    /\ mine.ident = row.ident /\ mine.address = row.address
    /\ DOMAIN row.channels = 1 .. mine.channels
    /\ {<<field.name, field.offset>> : field \in mine.fields}
         = {<<Called(path), row.instance[path] - (row.address - 1)>> : path \in DOMAIN row.instance}
    /\ \A a, b \in mine.fields :
          /\ a.offset = b.offset => a = b
          /\ a.name = b.name =>
                a = b \/ \E path \in DOMAIN row.instance : path[2] = "fine" /\ a.name = Called(path)

(* One addressing (lib.rs:1206-1211, 245-246), the rig's and a firmware's. *)
OneAddressing ==
    Built("rig") =>
        LET table == generated["rig"].patch
        IN  /\ Addressed(table)
            /\ Built("firmware") =>
                  \A k \in DOMAIN table : Agree(generated["firmware"][k], table[k])

(* A value at which a channel reads one of these bands.                    *)
InBand(c, value, presets) ==
    \E band \in ToSet(c.bands) : band.preset \in presets /\ band.min <= value /\ value <= band.max

(* A channel under a stop: light goes dark, and light that zero does not   *)
(* darken stays; whatever runs by itself goes to a band in which it does   *)
(* not, a strobe to the closed one where there is one; the rest stays.     *)
AtRest(c, stopped, value) ==
    /\ c.group = "Intensity" => (stopped <=> ~LitAtZero(c)) /\ (stopped => value = 0)
    /\ Spins(c) => stopped /\ InBand(c, value, {"RotationStop"})
    /\ Strobes(c) /\ ~Spins(c) =>
          /\ stopped
          /\ InBand(c, value, {IF Has(c, "ShutterClose") THEN "ShutterClose" ELSE "ShutterOpen"})
    /\ Acts(c) /\ ~Spins(c) => stopped /\ InBand(c, value, {"NoFunction"})
    /\ c.group # "Intensity" /\ ~Spins(c) /\ ~Strobes(c) /\ ~Acts(c) => ~stopped

(* What a stop leaves on the rig's slots: every field at rest, its fine    *)
(* half at zero with it, and no other slot touched.                        *)
Harmless(stop, rig) ==
    LET overridden(slot) == \E row \in stop : row.slot = slot
        value(slot) == (CHOOSE row \in stop : row.slot = slot).value
    IN  /\ \A a, b \in stop : a.slot = b.slot => a = b
        /\ \A row \in stop : \E id \in DOMAIN rig : \E field \in ToSet(rig[id].fields) :
              \E index \in {field.head, field.fine} \ {None} : row.slot = rig[id].resolved[index].slot
        /\ \A id \in DOMAIN rig : \A field \in ToSet(rig[id].fields) :
              LET c == rig[id].resolved[field.head]
              IN  /\ AtRest(c, overridden(c.slot), value(c.slot))
                  /\ field.fine # None =>
                        LET half == rig[id].resolved[field.fine].slot IN
                        /\ overridden(half) = overridden(c.slot)
                        /\ overridden(half) => value(half) = 0

(* The stop the build generates does no harm (estop.rs:3-8).               *)
StopIsHarmless ==
    builder = "rig" /\ generated["rig"] # None => Harmless(generated["rig"].stop, patch)

(* A show's dark stretches hold exactly its dark instants: the evening     *)
(* before its first date and the clock changes included                    *)
(* (calendar.rs:133-136).                                                  *)
DarkIsDark ==
    \A show \in ToSet(shows) : \A t \in show.start .. show.stop - 1 :
        (\E span \in show.dark : span.start <= t /\ t < span.stop)
        <=> \E date \in DOMAIN Dusk :
               /\ date + 1 \in DOMAIN Dawn /\ NoTwilight \notin {Dusk[date], Dawn[date + 1]}
               /\ Dusk[date] <= t /\ t < Dawn[date + 1]

=============================================================================
