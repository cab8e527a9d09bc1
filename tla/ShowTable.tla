----------------------------- MODULE ShowTable ------------------------------
(***************************************************************************)
(* The show table resolved at build time (cortex-build/src/calendar.rs):   *)
(* a city and local times into instants and the stretches of each show     *)
(* between civil dusk and civil dawn.  The gazetteer, the zone and the sun *)
(* are libraries, handed in as constants.                                  *)
(***************************************************************************)
EXTENDS Integers, FiniteSets, Sequences, FiniteSetsExt

CONSTANTS
    Cities,      \* the gazetteer: records [city, country]
    Instants,    \* the instants the table can reach
    Offset,      \* the zone: instant -> what its local time is ahead by
    DayLength,   \* what local time counts in a date
    Dusk, Dawn,  \* date -> the instant of its civil dusk and dawn
    NoTwilight,  \* a date on which the sun does not get that low
    Anywhere     \* a city named without its country

ASSUME ShowTableAssumption ==
    /\ IsFiniteSet(Instants) /\ Instants \subseteq Int
    /\ Offset \in [Instants -> Int]
    /\ DayLength \in Nat \ {0}

Local(t) == t + Offset[t]
Date(t)  == Local(t) \div DayLength

(* The table is a stretch of time, the clock changes turn no date back,    *)
(* every evening of it has a dusk and a dawn, and no dusk comes before its *)
(* date begins, no dawn after its date ends.                               *)
ASSUME SkyAssumption ==
    /\ \A s, t \in Instants :
          /\ s .. t \subseteq Instants
          /\ s <= t => Date(s) <= Date(t)
          /\ Date(s) - 1 .. Date(t) \subseteq DOMAIN Dusk
          /\ Date(s) .. Date(t) + 1 \subseteq DOMAIN Dawn
    /\ DOMAIN Dusk \subseteq Int
    /\ \A d \in DOMAIN Dusk : Dusk[d] # NoTwilight =>
          Dusk[d] \in Int /\ \A t \in Instants : Dusk[d] <= t => d <= Date(t)
    /\ \A d \in DOMAIN Dawn : Dawn[d] # NoTwilight =>
          Dawn[d] \in Int /\ \A t \in Instants : t < Dawn[d] => Date(t) <= d

(* find_city: the cities a name means.                                     *)
FindCity(place) ==
    {c \in Cities : c.city = place.city /\ place.country \in {Anywhere, c.country}}

(* resolve: the instants at which the clocks show a local time - none in   *)
(* an hour they skip, two in one they pass twice.                          *)
Moments(local) == {t \in Instants : Local(t) = local}

Resolves(local) == Cardinality(Moments(local)) = 1

Resolve(local) == CHOOSE t \in Instants : Local(t) = local

(* Mutant of Evenings: from the first local date's own evening.            *)
EveningsFromToday(start, stop) == Date(start) .. Date(stop)

(* The evenings a show can be dark after, from the one before its first    *)
(* local date: a show opening after midnight opens in that one's dark.     *)
Evenings(start, stop) == Date(start) - 1 .. Date(stop)

(* dark_stretches, as spans [start, stop], clipped to the show.            *)
DarkStretches(start, stop) ==
    {span \in {[start |-> Max({Dusk[e], start}), stop |-> Min({Dawn[e + 1], stop})] :
                  e \in Evenings(start, stop)} :
        span.start < span.stop}

(* solar_event has no answer for one of the show's evenings.               *)
NeverTwilight(start, stop) ==
    \E e \in Evenings(start, stop) : NoTwilight \in {Dusk[e], Dawn[e + 1]}

(* What calendar refuses of one show, the shows above it resolved.         *)
ShowComplaints(show, resolved) ==
    IF ~Resolves(show.start) \/ ~Resolves(show.stop) THEN {"local time"}
    ELSE LET start == Resolve(show.start)
             stop  == Resolve(show.stop)
         IN  IF stop <= start THEN {"ends before it starts"}
             ELSE IF resolved # <<>> /\ start < resolved[Len(resolved)].stop THEN {"out of order"}
             ELSE IF NeverTwilight(start, stop) THEN {"no twilight"} ELSE {}

ResolvedShow(show) ==
    LET start == Resolve(show.start)
        stop  == Resolve(show.stop)
    IN  [start |-> start, stop |-> stop, dark |-> DarkStretches(start, stop)]

=============================================================================
